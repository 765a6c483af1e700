------------------------------ MODULE DiaryProofs ------------------------------
(***************************************************************************)
(* The properties of the diary and of its memory places, for every set of  *)
(* handlers, requests and pins.                                            *)
(*                                                                         *)
(* The diary.  Tables only grow, and in one way: whatever is added to the  *)
(* history of a pin supersedes its head.  So a call that still sees the    *)
(* head of a history sees all of it (Continues), and the unique key on the *)
(* row superseded is enough to keep a chain a chain, although every check  *)
(* is made on an old view.                                                 *)
(***************************************************************************)
EXTENDS SpatialDiaryProperties, MemoryPlace, TLAPS, FiniteSetTheorems

Named(op) == {q \in Requests : q.op = op}

\* What the tables look like.
Tables(d) ==
    /\ d = [offer |-> d.offer, interaction |-> d.interaction, attestation |-> d.attestation,
            pin |-> d.pin, journal |-> d.journal]
    /\ d.offer \subseteq {OfferRow(r) : r \in Named("offer")}
    /\ d.interaction \subseteq {InteractionRow(r) : r \in Named("interact")}
    /\ d.journal \subseteq {JournalRow(r) : r \in Named("publish")}

\* An attestation is of an offer or corrects another one.
Attestations(d) ==
    /\ IsFiniteSet(d.attestation)
    /\ \A a \in d.attestation :
         /\ a.id # None /\ a.time \in Clock
         /\ \/ a.offer # None /\ a.pin = None /\ a.supersedes = None
            \/ a.offer = None /\ a.supersedes # None /\ \E p \in d.pin : p.id = a.pin

\* The unique keys.
Keys(d) ==
    /\ \A o, p \in d.offer : (o.walk = p.walk /\ o.source = p.source) => o = p
    /\ \A a, b \in d.attestation :
         \/ a.id = b.id
         \/ a.offer # None /\ a.offer = b.offer
         \/ a.supersedes # None /\ a.supersedes = b.supersedes
         => a = b
    /\ \A p, q \in d.pin : (p.id = q.id \/ p.offer = q.offer \/ p.by = q.by) => p = q

\* A pin is made by the attestation of its offer that saves it.
PinsMade(d) ==
    /\ \A p \in d.pin :
         /\ p.id # None /\ p.walk \notin NoPinWalks
         /\ \E a \in d.attestation : a.id = p.by /\ a.offer = p.offer /\ a.offer # None /\ a.save
    /\ \A a \in d.attestation : a.offer # None /\ a.save =>
         \E p \in d.pin : p.by = a.id /\ p.offer = a.offer

\* The history of a pin is a chain with one end.
Chain(d, pin) ==
    /\ \E head \in History(d, pin) : \A a \in History(d, pin) : IsHead(d, pin, a) <=> a = head
    /\ Cardinality(History(d, pin)) <= MaxRevisions
    /\ \A a \in History(d, pin) : a.supersedes # None =>
         \E b \in History(d, pin) : b.id = a.supersedes /\ b.time <= a.time

Journals(d) ==
    \A j \in d.journal : \A pin \in j.pins : \E p \in d.pin : p.id = pin /\ p.walk = j.walk

Whole(d) ==
    /\ Tables(d) /\ Attestations(d) /\ Keys(d) /\ PinsMade(d) /\ Journals(d)
    /\ \A p \in d.pin : Chain(d, p.id)

\* e may come after d: rows are added, and a history that grew has superseded
\* what was its head.
Continues(d, e) ==
    /\ d.offer \subseteq e.offer /\ d.interaction \subseteq e.interaction
    /\ d.attestation \subseteq e.attestation /\ d.pin \subseteq e.pin
    /\ d.journal \subseteq e.journal
    /\ \A p \in d.pin :
         \/ History(e, p.id) = History(d, p.id)
         \/ \A a \in History(d, p.id) : IsHead(d, p.id, a) => \E b \in e.attestation : b.supersedes = a.id

\* Another correction took the id, or the row to be superseded.
Lost(d, r) ==
    /\ \E p \in d.pin : p.id = r.pin
    /\ \E b \in d.attestation : b.id = r.id \/ b.supersedes = r.supersedes

Working == {"wait", "write"}

\* What is true of a call whose transaction is in state s, in database d.
CallOK(s, d) ==
    /\ s = [at |-> s.at, req |-> s.req, attempt |-> s.attempt, view |-> s.view,
            answer |-> s.answer]
    /\ s.at \in {"idle", "open", "wait", "write", "done"} /\ s.attempt \in 0..2
    /\ s.answer \in Statuses
    /\ s.at # "idle" => s.req \in Requests /\ s.attempt # 0
    /\ s.at \notin Working => s.view = EmptyDB
    /\ s.at \in Working =>
         /\ Continues(s.view, d)
         /\ ~Unknown(s.view, s.req) /\ ~Known(s.view, s.req)
         /\ s.at = "wait" => LockOf(s.req) # None
         /\ s.attempt = 2 => Lost(s.view, s.req)
    /\ s.attempt = 2 => s.at # "idle" /\ s.req.op = "correct" /\ Lost(d, s.req)
    /\ s.at # "done" => s.answer = None
    /\ s.answer = "200" => Same(d, s.req)
    /\ s.at = "done" /\ s.req.op = "correct" => s.answer # "500"
    /\ s.at = "done" /\ s.attempt = 2 => s.answer = (IF Same(d, s.req) THEN "200" ELSE "409")

Locks ==
    /\ lock \in [Lockable -> Handlers \union {None}]
    /\ \A k \in Lockable : lock[k] # None =>
          call[lock[k]].at = "write" /\ LockOf(call[lock[k]].req) = k

\* The inductive invariant.
DiaryInv ==
    /\ Whole(db)
    /\ call = [c \in Handlers |-> call[c]]
    /\ \A c \in Handlers : CallOK(call[c], db)
    /\ Locks

------------------------------------------------------------------------------
\* The invariant says what the properties say

LEMMA TypesFollow == DiaryInv => TypeOK
  BY DEF DiaryInv, Whole, Tables, Attestations, Named, CallOK, Locks, Working, TypeOK

\* The pins an attestation of an offer made are one, if it saves, and else none.
LEMMA PinsCounted ==
    ASSUME NEW d, Keys(d), Attestations(d), PinsMade(d), NEW a \in d.attestation, a.offer # None
    PROVE  Cardinality({p \in d.pin : p.by = a.id /\ p.offer = a.offer}) = (IF a.save THEN 1 ELSE 0)
  <1> DEFINE made == {p \in d.pin : p.by = a.id /\ p.offer = a.offer}
  <1>1. CASE a.save
    <2>1. PICK p \in d.pin : p.by = a.id /\ p.offer = a.offer
      BY <1>1 DEF PinsMade
    <2>2. made = {p}
      BY <2>1 DEF Keys
    <2> QED
      BY <1>1, <2>2, FS_Singleton
  <1>2. CASE ~a.save
    <2>1. \A p \in d.pin : ~(p.by = a.id /\ p.offer = a.offer)
      BY <1>2 DEF PinsMade, Keys
    <2>2. made = {}
      BY <2>1
    <2> QED
      BY <1>2, <2>2, FS_EmptySet
  <1> QED
    BY <1>1, <1>2

LEMMA MemoriesFollow == DiaryInv => MemoriesAreWhole
  <1> SUFFICES ASSUME DiaryInv PROVE MemoriesAreWhole
    OBVIOUS
  <1> USE DEF DiaryInv, Whole
  <1>1. OneMemoryPerMoment
    BY DEF OneMemoryPerMoment, Keys, PinsMade
  <1>2. SavedMemoriesHavePins
    <2>1. \A a \in db.attestation : a.offer # None =>
            Cardinality({p \in db.pin : p.by = a.id /\ p.offer = a.offer}) = (IF a.save THEN 1 ELSE 0)
      BY PinsCounted
    <2>2. \A p \in db.pin : \E a \in db.attestation : a.id = p.by /\ a.offer = p.offer /\ a.save
      BY DEF PinsMade
    <2> QED
      BY <2>1, <2>2 DEF SavedMemoriesHavePins, Keys
  <1>3. CorrectionsFormAChain
    <2> SUFFICES ASSUME NEW p \in db.pin
                 PROVE  /\ Cardinality({a \in History(db, p.id) : IsHead(db, p.id, a)}) = 1
                        /\ Cardinality(History(db, p.id)) <= MaxRevisions
                        /\ \A a \in History(db, p.id) : a.supersedes # None =>
                              \E b \in History(db, p.id) : b.id = a.supersedes /\ b.time <= a.time
      BY DEF CorrectionsFormAChain
    <2>1. PICK head \in History(db, p.id) : \A a \in History(db, p.id) : IsHead(db, p.id, a) <=> a = head
      BY DEF Chain
    <2>2. {a \in History(db, p.id) : IsHead(db, p.id, a)} = {head}
      BY <2>1
    <2> QED
      BY <2>2, FS_Singleton DEF Chain
  <1>4. JournalsShowTheirWalk
    BY DEF JournalsShowTheirWalk, Journals
  <1> QED
    BY <1>1, <1>2, <1>3, <1>4 DEF MemoriesAreWhole

LEMMA AnswersFollow == DiaryInv => AnswersAreTrue
  <1> SUFFICES ASSUME DiaryInv, NEW c \in Handlers
               PROVE  /\ call[c].answer = "200" =>
                           /\ Same(db, call[c].req)
                           /\ call[c].req.op \in {"attest", "correct"} =>
                                Cardinality({a \in db.attestation : a.id = call[c].req.id}) = 1
                      /\ (call[c].at = "done" /\ call[c].req.op = "correct") => call[c].answer # "500"
                      /\ (call[c].at = "done" /\ call[c].attempt = 2) =>
                           call[c].answer = (IF Same(db, call[c].req) THEN "200" ELSE "409")
    BY DEF AnswersAreTrue, AcknowledgedIsStored, RetryDecides
  <1>1. CallOK(call[c], db) /\ Keys(db)
    BY DEF DiaryInv, Whole
  <1>2. ASSUME Same(db, call[c].req), call[c].req.op \in {"attest", "correct"}
        PROVE  Cardinality({a \in db.attestation : a.id = call[c].req.id}) = 1
    <2>1. \E a \in db.attestation : a.id = call[c].req.id
      <3>1. CASE call[c].req.op = "attest"
        BY <1>2, <3>1 DEF Same, AttestationRow
      <3>2. CASE call[c].req.op = "correct"
        BY <1>2, <3>2 DEF Same, CorrectionRow
      <3> QED
        BY <1>2, <3>1, <3>2
    <2>2. PICK a \in db.attestation : a.id = call[c].req.id
      BY <2>1
    <2>3. {b \in db.attestation : b.id = call[c].req.id} = {a}
      BY <1>1, <2>2 DEF Keys
    <2> QED
      BY <2>3, FS_Singleton
  <1> QED
    BY <1>1, <1>2 DEF CallOK

------------------------------------------------------------------------------
\* What growing tables leave true

LEMMA ContinuesSelf == ASSUME NEW d PROVE Continues(d, d)
  BY DEF Continues

LEMMA ContinuesOn ==
    ASSUME NEW d, NEW e, NEW f, Continues(d, e), Continues(e, f)
    PROVE  Continues(d, f)
  <1>1. ASSUME NEW p \in d.pin, History(e, p.id) = History(d, p.id)
        PROVE  \/ History(f, p.id) = History(d, p.id)
               \/ \A a \in History(d, p.id) :
                     IsHead(d, p.id, a) => \E b \in f.attestation : b.supersedes = a.id
    BY <1>1 DEF Continues, IsHead
  <1>2. ASSUME NEW p \in d.pin, History(e, p.id) # History(d, p.id)
        PROVE  \A a \in History(d, p.id) :
                  IsHead(d, p.id, a) => \E b \in f.attestation : b.supersedes = a.id
    BY <1>2 DEF Continues
  <1> QED
    BY <1>1, <1>2 DEF Continues

\* Rows that the view shows belong to the same histories in the database.
LEMMA HistoryGrows ==
    ASSUME NEW d, NEW e, Continues(d, e), NEW pin
    PROVE  History(d, pin) \subseteq History(e, pin)
  BY DEF Continues, History

\* A row belongs to one history.
LEMMA OneHistory ==
    ASSUME NEW d, Attestations(d), Keys(d), PinsMade(d), NEW p \in d.pin, NEW q \in d.pin,
           NEW a \in History(d, p.id), a \in History(d, q.id)
    PROVE  p.id = q.id
  <1>1. ASSUME NEW x \in d.pin, NEW y \in d.pin, a.pin = x.id, y.by = a.id
        PROVE  FALSE
    <2>1. PICK b \in d.attestation : b.id = y.by /\ b.offer # None
      BY DEF PinsMade
    <2>2. a = b /\ a \in d.attestation
      BY <1>1, <2>1 DEF Keys, History
    <2>3. x.id # None
      BY DEF PinsMade
    <2> QED
      BY <1>1, <2>1, <2>2, <2>3 DEF Attestations
  <1>2. ASSUME NEW x \in d.pin, NEW y \in d.pin, x.by = a.id, y.by = a.id
        PROVE  x = y
    BY <1>2 DEF Keys
  <1> QED
    BY <1>1, <1>2 DEF History

\* What a stored request stored stays, and is still all of it.
LEMMA SameStays ==
    ASSUME NEW d, NEW e, Continues(d, e), Whole(e), NEW r \in Requests, Same(d, r)
    PROVE  Same(e, r)
  <1> USE DEF Whole
  <1>1. CASE r.op = "offer"
    BY <1>1 DEF Same, Continues
  <1>2. CASE r.op = "interact"
    BY <1>2 DEF Same, Continues
  <1>3. CASE r.op = "attest"
    <2>1. PICK a \in d.attestation : a = AttestationRow(r, a.time)
      BY <1>3 DEF Same
    <2>2. {p.id : p \in {q \in d.pin : q.by = r.id}} = {r.pin} \ {None}
      BY <1>3 DEF Same
    <2>3. a \in e.attestation /\ a.id = r.id /\ a.save = (r.pin # None) /\ a.offer = r.offer
      BY <2>1 DEF Continues, AttestationRow
    <2>4. ASSUME NEW q \in e.pin, q.by = r.id
          PROVE  q \in d.pin
      <3>1. PICK b \in e.attestation : b.id = q.by /\ b.save
        BY DEF PinsMade
      <3>2. a.save
        BY <2>3, <2>4, <3>1 DEF Keys
      <3>3. r.pin \in {p.id : p \in {x \in d.pin : x.by = r.id}}
        BY <2>2, <2>3, <3>2
      <3>4. PICK p \in d.pin : p.by = r.id
        BY <3>3
      <3> QED
        BY <2>4, <3>4 DEF Keys, Continues
    <2>5. {q \in e.pin : q.by = r.id} = {q \in d.pin : q.by = r.id}
      BY <2>4 DEF Continues
    <2> QED
      BY <1>3, <2>1, <2>2, <2>3, <2>5 DEF Same
  <1>4. CASE r.op = "correct"
    BY <1>4 DEF Same, Continues
  <1>5. CASE r.op = "publish"
    BY <1>5 DEF Same, Continues
  <1> QED
    BY <1>1, <1>2, <1>3, <1>4, <1>5, RequestsAssumption

\* A correction that lost its id or its row to another one is never stored.
LEMMA LostForGood ==
    ASSUME NEW d, NEW e, Continues(d, e), Whole(e), NEW r \in Requests, r.op = "correct",
           Lost(d, r), ~Same(d, r)
    PROVE  ~Same(e, r)
  <1>1. PICK b \in d.attestation : b.id = r.id \/ b.supersedes = r.supersedes
    BY DEF Lost
  <1>2. SUFFICES ASSUME NEW a \in e.attestation, a = CorrectionRow(r, a.time)
                 PROVE  FALSE
    BY DEF Same
  <1>3. a.id = r.id /\ a.supersedes = r.supersedes /\ r.supersedes # None
    BY <1>2, RequestsAssumption DEF CorrectionRow
  <1>4. a = b
    BY <1>1, <1>3 DEF Whole, Keys, Continues
  <1> QED
    BY <1>2, <1>4 DEF Same

LEMMA CallStays ==
    ASSUME NEW d, NEW e, Continues(d, e), Whole(e), NEW s, CallOK(s, d)
    PROVE  CallOK(s, e)
  <1>1. s.at \in Working => Continues(s.view, e)
    BY ContinuesOn DEF CallOK
  <1>2. Lost(d, s.req) => Lost(e, s.req)
    BY DEF Lost, Continues
  <1>3. s.answer = "200" => Same(e, s.req)
    BY SameStays, NoneAssumption DEF CallOK
  <1>4. s.at = "done" /\ s.attempt = 2 => s.answer = (IF Same(e, s.req) THEN "200" ELSE "409")
    BY SameStays, LostForGood DEF CallOK
  <1> QED
    BY <1>1, <1>2, <1>3, <1>4 DEF CallOK

\* One call moves on, and with it perhaps a lock and the tables.
LEMMA Moves ==
    ASSUME DiaryInv, NEW c \in Handlers, NEW s,
           call' = [call EXCEPT ![c] = s], CallOK(s, db'), Whole(db'), Continues(db, db'),
           \/ lock' = lock /\ call[c].at # "write"
           \/ lock' = Release(c)
           \/ /\ lock' = [lock EXCEPT ![LockOf(s.req)] = c]
              /\ s.at = "write" /\ call[c].at # "write" /\ LockOf(s.req) \in Lockable
    PROVE  DiaryInv'
  <1>1. call'[c] = s /\ \A d \in Handlers \ {c} : call'[d] = call[d]
    BY DEF DiaryInv
  <1>2. call' = [d \in Handlers |-> call'[d]]
    BY DEF DiaryInv
  <1>3. \A d \in Handlers : CallOK(call'[d], db')
    BY <1>1, CallStays DEF DiaryInv
  <1>4. Locks'
    <2>1. /\ lock \in [Lockable -> Handlers \union {None}]
          /\ \A k \in Lockable : lock[k] # None =>
                /\ lock[k] \in Handlers
                /\ call[lock[k]].at = "write" /\ LockOf(call[lock[k]].req) = k
      BY DEF DiaryInv, Locks
    <2>2. CASE lock' = lock /\ call[c].at # "write"
      BY <1>1, <2>1, <2>2 DEF Locks
    <2>3. CASE lock' = Release(c)
      <3>1. \A k \in Lockable : lock'[k] = IF lock[k] = c THEN None ELSE lock[k]
        BY <2>3 DEF Release
      <3>2. lock' \in [Lockable -> Handlers \union {None}]
        BY <2>1, <2>3 DEF Release
      <3> QED
        BY <1>1, <2>1, <3>1, <3>2 DEF Locks
    <2>4. CASE /\ lock' = [lock EXCEPT ![LockOf(s.req)] = c]
               /\ s.at = "write" /\ call[c].at # "write" /\ LockOf(s.req) \in Lockable
      BY <1>1, <2>1, <2>4 DEF Locks
    <2> QED
      BY <2>2, <2>3, <2>4
  <1> QED
    BY <1>2, <1>3, <1>4 DEF DiaryInv

\* The end of a call.
LEMMA AnswerKeeps ==
    ASSUME DiaryInv, NEW c \in Handlers, NEW status \in Statuses \ {None}, call[c].at # "idle",
           Answer(c, status), Whole(db'), Continues(db, db'),
           status = "200" => Same(db', call[c].req),
           call[c].req.op = "correct" => status # "500",
           call[c].attempt = 2 => status = (IF Same(db', call[c].req) THEN "200" ELSE "409")
    PROVE  DiaryInv'
  <1> DEFINE s == [at |-> "done", req |-> call[c].req, attempt |-> call[c].attempt,
                   view |-> EmptyDB, answer |-> status]
  <1>1. CallOK(call[c], db) /\ CallOK(call[c], db')
    BY CallStays DEF DiaryInv
  <1>2. call' = [call EXCEPT ![c] = s] /\ lock' = Release(c)
    BY DEF Answer, Transaction
  <1>3. CallOK(s, db')
    BY <1>1 DEF CallOK, Working
  <1> QED
    BY <1>2, <1>3, Moves

------------------------------------------------------------------------------
\* What a call adds

\* Rows of the other tables leave attestations, pins and their histories alone.
LEMMA AsideKeeps ==
    ASSUME NEW d, Whole(d), NEW e, Tables(e), Journals(e),
           e.attestation = d.attestation, e.pin = d.pin,
           d.offer \subseteq e.offer, d.interaction \subseteq e.interaction,
           d.journal \subseteq e.journal,
           \A o, p \in e.offer : (o.walk = p.walk /\ o.source = p.source) => o = p
    PROVE  Whole(e) /\ Continues(d, e)
  <1>1. \A pin : History(e, pin) = History(d, pin)
    BY DEF History
  <1>2. \A p \in e.pin : Chain(e, p.id)
    <2>1. \A p \in d.pin : Chain(d, p.id)
      BY DEF Whole
    <2> QED
      BY <1>1, <2>1 DEF Chain, IsHead
  <1>3. Attestations(e) /\ Keys(e) /\ PinsMade(e)
    BY DEF Whole, Attestations, Keys, PinsMade
  <1> QED
    BY <1>1, <1>2, <1>3 DEF Whole, Continues

\* A call about to write, that nothing prevents from writing.
Writing(c, time) ==
    /\ call[c].at = "write" /\ time \in Clock
    /\ ~KeyTaken(call[c].req) /\ ~PinTaken(db, call[c].req)
    /\ ~Refused(call[c].view, call[c].req, time)
    /\ db' = Insert(db, call[c].view, call[c].req, time)

Stored(c) == Whole(db') /\ Continues(db, db') /\ Same(db', call[c].req)

LEMMA OfferStored ==
    ASSUME DiaryInv, NEW c \in Handlers, NEW time, Writing(c, time), call[c].req.op = "offer"
    PROVE  Stored(c)
  <1> DEFINE r == call[c].req
  <1>1. r \in Requests /\ Whole(db)
    BY DEF DiaryInv, CallOK, Writing
  <1>2. /\ db = [offer |-> db.offer, interaction |-> db.interaction, attestation |-> db.attestation,
                 pin |-> db.pin, journal |-> db.journal]
        /\ db' = [db EXCEPT !.offer = db.offer \union {OfferRow(r)}]
    BY <1>1 DEF Writing, Insert, Whole, Tables
  <1>3. /\ db'.offer = db.offer \union {OfferRow(r)} /\ db'.interaction = db.interaction
        /\ db'.attestation = db.attestation /\ db'.pin = db.pin /\ db'.journal = db.journal
        /\ db' = [offer |-> db'.offer, interaction |-> db'.interaction,
                  attestation |-> db'.attestation, pin |-> db'.pin, journal |-> db'.journal]
    BY <1>2
  <1>4. \A o \in db.offer : ~(o.walk = r.walk /\ o.source = r.source)
    BY DEF Writing, KeyTaken
  <1>5. \A o, p \in db'.offer : (o.walk = p.walk /\ o.source = p.source) => o = p
    BY <1>1, <1>3, <1>4 DEF Whole, Keys, OfferRow
  <1>6. Tables(db') /\ Journals(db')
    BY <1>1, <1>3 DEF Whole, Tables, Journals, Named
  <1>7. Same(db', r)
    BY <1>3 DEF Same
  <1> QED
    BY <1>1, <1>3, <1>5, <1>6, <1>7, AsideKeeps DEF Stored

LEMMA InteractionStored ==
    ASSUME DiaryInv, NEW c \in Handlers, NEW time, Writing(c, time), call[c].req.op = "interact"
    PROVE  Stored(c)
  <1> DEFINE r == call[c].req
  <1>1. r \in Requests /\ Whole(db)
    BY DEF DiaryInv, CallOK, Writing
  <1>2. /\ db = [offer |-> db.offer, interaction |-> db.interaction, attestation |-> db.attestation,
                 pin |-> db.pin, journal |-> db.journal]
        /\ db' = [db EXCEPT !.interaction = db.interaction \union {InteractionRow(r)}]
    BY <1>1 DEF Writing, Insert, Whole, Tables
  <1>3. /\ db'.offer = db.offer /\ db'.interaction = db.interaction \union {InteractionRow(r)}
        /\ db'.attestation = db.attestation /\ db'.pin = db.pin /\ db'.journal = db.journal
        /\ db' = [offer |-> db'.offer, interaction |-> db'.interaction,
                  attestation |-> db'.attestation, pin |-> db'.pin, journal |-> db'.journal]
    BY <1>2
  <1>4. Tables(db') /\ Journals(db')
    BY <1>1, <1>3 DEF Whole, Tables, Journals, Named
  <1>5. Same(db', r)
    BY <1>3 DEF Same
  <1> QED
    BY <1>1, <1>3, <1>4, <1>5, AsideKeeps DEF Stored, Whole, Keys

LEMMA JournalStored ==
    ASSUME DiaryInv, NEW c \in Handlers, NEW time, Writing(c, time), call[c].req.op = "publish"
    PROVE  Stored(c)
  <1> DEFINE r == call[c].req
             v == call[c].view
  <1>1. r \in Requests /\ Whole(db) /\ Continues(v, db)
    BY DEF DiaryInv, CallOK, Writing, Working
  <1>2. /\ db = [offer |-> db.offer, interaction |-> db.interaction, attestation |-> db.attestation,
                 pin |-> db.pin, journal |-> db.journal]
        /\ db' = [db EXCEPT !.journal = db.journal \union {JournalRow(r)}]
    BY <1>1 DEF Writing, Insert, Whole, Tables
  <1>3. /\ db'.offer = db.offer /\ db'.interaction = db.interaction
        /\ db'.attestation = db.attestation /\ db'.pin = db.pin
        /\ db'.journal = db.journal \union {JournalRow(r)}
        /\ db' = [offer |-> db'.offer, interaction |-> db'.interaction,
                  attestation |-> db'.attestation, pin |-> db'.pin, journal |-> db'.journal]
    BY <1>2
  <1>4. \A pin \in r.pins : \E p \in db.pin : p.id = pin /\ p.walk = r.walk
    BY <1>1 DEF Writing, Refused, JournalRefused, Continues
  <1>5. Journals(db')
    BY <1>1, <1>3, <1>4 DEF Whole, Journals, JournalRow
  <1>6. Tables(db')
    BY <1>1, <1>3 DEF Whole, Tables, Named
  <1>7. Same(db', r)
    BY <1>3 DEF Same
  <1> QED
    BY <1>1, <1>3, <1>5, <1>6, <1>7, AsideKeeps DEF Stored, Whole, Keys

\* An attestation, with its pin if it saves: the history of that pin is the
\* attestation alone, and no other history changes.
LEMMA AttestationStored ==
    ASSUME DiaryInv, NEW c \in Handlers, NEW time, Writing(c, time), call[c].req.op = "attest"
    PROVE  Stored(c)
  <1> DEFINE r == call[c].req
             v == call[c].view
             y == AttestationRow(r, time)
             n == PinRow(v, r)
             new == IF r.pin = None THEN {} ELSE {n}
  <1>1. /\ r \in Requests /\ r.op = "attest" /\ r.id # None /\ r.offer # None /\ time \in Clock
        /\ Whole(db) /\ Continues(v, db) /\ ~Unknown(v, r)
    BY RequestsAssumption DEF DiaryInv, CallOK, Writing, Working
  <1>2. /\ db = [offer |-> db.offer, interaction |-> db.interaction, attestation |-> db.attestation,
                 pin |-> db.pin, journal |-> db.journal]
        /\ db' = [db EXCEPT !.attestation = db.attestation \union {y}, !.pin = db.pin \union new]
    BY <1>1 DEF Writing, Insert, Whole, Tables
  <1>3. /\ db'.offer = db.offer /\ db'.interaction = db.interaction
        /\ db'.attestation = db.attestation \union {y} /\ db'.pin = db.pin \union new
        /\ db'.journal = db.journal
        /\ db' = [offer |-> db'.offer, interaction |-> db'.interaction,
                  attestation |-> db'.attestation, pin |-> db'.pin, journal |-> db'.journal]
    BY <1>2
  <1>4. /\ y.id = r.id /\ y.offer = r.offer /\ y.save = (r.pin # None) /\ y.pin = None
        /\ y.supersedes = None /\ y.time = time
        /\ n.id = r.pin /\ n.offer = r.offer /\ n.by = r.id
        /\ n.walk = (CHOOSE o \in v.offer : o.id = r.offer).walk
    BY DEF AttestationRow, PinRow
  <1>5. /\ \A a \in db.attestation : a.id # r.id /\ a.offer # r.offer
        /\ \A p \in db.pin : p.id # r.pin
    BY <1>1 DEF Writing, KeyTaken, PinTaken
  <1>6. \A p \in db.pin : p.by # r.id /\ p.offer # r.offer /\ p.id # None
    BY <1>1, <1>5 DEF Whole, PinsMade
  <1>7. r.pin # None => n.walk \notin NoPinWalks
    <2>1. \E o \in v.offer : o.id = r.offer
      BY <1>1 DEF Unknown
    <2>2. r.pin # None => \A o \in v.offer : o.id = r.offer => o.walk \notin NoPinWalks
      BY <1>1 DEF Writing, Refused, AttestationRefused
    <2> QED
      BY <1>4, <2>1, <2>2
  <1>8. \A p \in new : p = n /\ r.pin # None
    OBVIOUS
  <1>9. r.pin # None => n \in new
    OBVIOUS
  <1> HIDE DEF y, n, new
  <1>10. Tables(db')
    BY <1>1, <1>3 DEF Whole, Tables
  <1>11. Attestations(db')
    <2>1. IsFiniteSet(db'.attestation)
      BY <1>1, <1>3, FS_AddElement DEF Whole, Attestations
    <2>2. ASSUME NEW a \in db'.attestation
          PROVE  /\ a.id # None /\ a.time \in Clock
                 /\ \/ a.offer # None /\ a.pin = None /\ a.supersedes = None
                    \/ a.offer = None /\ a.supersedes # None /\ \E p \in db'.pin : p.id = a.pin
      <3>1. CASE a = y
        BY <1>1, <1>4, <3>1
      <3>2. CASE a \in db.attestation
        BY <1>1, <1>3, <3>2 DEF Whole, Attestations
      <3> QED
        BY <1>3, <3>1, <3>2
    <2> QED
      BY <2>1, <2>2 DEF Attestations
  <1>12. Keys(db')
    <2>1. \A a, b \in db'.attestation :
             \/ a.id = b.id
             \/ a.offer # None /\ a.offer = b.offer
             \/ a.supersedes # None /\ a.supersedes = b.supersedes
             => a = b
      BY <1>1, <1>3, <1>4, <1>5 DEF Whole, Keys
    <2>2. \A p, q \in db'.pin : (p.id = q.id \/ p.offer = q.offer \/ p.by = q.by) => p = q
      BY <1>1, <1>3, <1>4, <1>5, <1>6, <1>8 DEF Whole, Keys
    <2> QED
      BY <1>1, <1>3, <2>1, <2>2 DEF Whole, Keys
  <1>13. PinsMade(db')
    <2>1. ASSUME NEW p \in db'.pin
          PROVE  /\ p.id # None /\ p.walk \notin NoPinWalks
                 /\ \E a \in db'.attestation :
                       a.id = p.by /\ a.offer = p.offer /\ a.offer # None /\ a.save
      <3>1. CASE p \in db.pin
        BY <1>1, <1>3, <3>1 DEF Whole, PinsMade
      <3>2. CASE p \in new
        BY <1>1, <1>3, <1>4, <1>7, <1>8, <3>2
      <3> QED
        BY <1>3, <3>1, <3>2
    <2>2. ASSUME NEW a \in db'.attestation, a.offer # None, a.save
          PROVE  \E p \in db'.pin : p.by = a.id /\ p.offer = a.offer
      <3>1. CASE a \in db.attestation
        BY <1>1, <1>3, <2>2, <3>1 DEF Whole, PinsMade
      <3>2. CASE a = y
        <4>1. r.pin # None
          BY <1>4, <2>2, <3>2
        <4> QED
          BY <1>3, <1>4, <1>9, <3>2, <4>1
      <3> QED
        BY <1>3, <3>1, <3>2
    <2> QED
      BY <2>1, <2>2 DEF PinsMade
  <1>14. Journals(db')
    BY <1>1, <1>3 DEF Whole, Journals
  <1>15. ASSUME NEW p \in db.pin
         PROVE  History(db', p.id) = History(db, p.id)
    <2>1. \A a \in db'.attestation : a \in History(db', p.id) <=> a \in History(db, p.id)
      BY <1>3, <1>4, <1>5, <1>6, <1>8 DEF History
    <2>2. History(db', p.id) \subseteq db'.attestation /\ History(db, p.id) \subseteq db'.attestation
      BY <1>3 DEF History
    <2> QED
      BY <2>1, <2>2
  <1>16. ASSUME NEW p \in new
         PROVE  Chain(db', p.id)
    <2>1. p.id = r.pin /\ r.pin # None /\ p = n
      BY <1>4, <1>8
    <2>2. \A a \in db.attestation : a.pin # r.pin
      BY <1>1, <1>5, <2>1 DEF Whole, Attestations
    <2>3. \A q \in db'.pin : q.id = r.pin => q.by = r.id
      BY <1>3, <1>4, <1>5, <1>8
    <2>4. y \in History(db', r.pin)
      BY <1>3, <1>4, <2>1 DEF History
    <2>5. \A a \in History(db', r.pin) : a = y
      BY <1>3, <1>4, <1>5, <2>1, <2>2, <2>3 DEF History
    <2>6. History(db', r.pin) = {y}
      BY <2>4, <2>5
    <2>7. IsHead(db', r.pin, y)
      BY <1>1, <1>4, <2>6 DEF IsHead
    <2>8. Cardinality(History(db', r.pin)) <= MaxRevisions
      <3>1. Cardinality({y}) = 1
        BY FS_Singleton
      <3> QED
        BY <2>6, <3>1, RevisionsAssumption
    <2> QED
      BY <1>4, <2>1, <2>6, <2>7, <2>8 DEF Chain
  <1>17. \A p \in db.pin : Chain(db', p.id)
    BY <1>1, <1>15 DEF Whole, Chain, IsHead
  <1>18. Whole(db')
    BY <1>3, <1>10, <1>11, <1>12, <1>13, <1>14, <1>16, <1>17 DEF Whole
  <1>19. Continues(db, db')
    BY <1>3, <1>15 DEF Continues
  <1>20. Same(db', r)
    <2>1. y \in db'.attestation /\ y = AttestationRow(r, y.time)
      BY <1>3, <1>4 DEF y
    <2>2. {p.id : p \in {q \in db'.pin : q.by = r.id}} = {r.pin} \ {None}
      <3>1. {q \in db'.pin : q.by = r.id} = new
        BY <1>3, <1>4, <1>6, <1>8
      <3>2. CASE r.pin = None
        BY <3>1, <3>2 DEF new
      <3>3. CASE r.pin # None
        BY <1>4, <3>1, <3>3 DEF new
      <3> QED
        BY <3>2, <3>3
    <2> QED
      BY <1>1, <2>1, <2>2 DEF Same
  <1> QED
    BY <1>18, <1>19, <1>20 DEF Stored

\* A correction: the view's head is the database's, or its row would have been
\* superseded and its key taken; so the view shows the whole history.
LEMMA CorrectionStored ==
    ASSUME DiaryInv, NEW c \in Handlers, NEW time, Writing(c, time), call[c].req.op = "correct"
    PROVE  Stored(c)
  <1> DEFINE r == call[c].req
             v == call[c].view
             x == CorrectionRow(r, time)
             H == History(db, r.pin)
  <1>1. /\ r \in Requests /\ r.op = "correct" /\ r.id # None /\ r.pin # None
        /\ r.supersedes # None /\ time \in Clock
        /\ Whole(db) /\ Continues(v, db) /\ ~Unknown(v, r)
    BY RequestsAssumption DEF DiaryInv, CallOK, Writing, Working
  <1>2. /\ db = [offer |-> db.offer, interaction |-> db.interaction, attestation |-> db.attestation,
                 pin |-> db.pin, journal |-> db.journal]
        /\ db' = [db EXCEPT !.attestation = db.attestation \union {x}]
    BY <1>1 DEF Writing, Insert, Whole, Tables
  <1>3. /\ db'.offer = db.offer /\ db'.interaction = db.interaction
        /\ db'.attestation = db.attestation \union {x} /\ db'.pin = db.pin
        /\ db'.journal = db.journal
        /\ db' = [offer |-> db'.offer, interaction |-> db'.interaction,
                  attestation |-> db'.attestation, pin |-> db'.pin, journal |-> db'.journal]
    BY <1>2
  <1>4. /\ x.id = r.id /\ x.offer = None /\ x.pin = r.pin /\ x.supersedes = r.supersedes
        /\ x.time = time
    BY DEF CorrectionRow
  <1>5. \A a \in db.attestation : a.id # r.id /\ a.supersedes # r.supersedes
    BY <1>1 DEF Writing, KeyTaken
  <1>6. PICK mine \in v.pin : mine.id = r.pin
    BY <1>1 DEF Unknown
  <1>7. mine \in db.pin /\ Chain(db, r.pin)
    BY <1>1, <1>6 DEF Continues, Whole
  <1>8. /\ ~(Cardinality(History(v, r.pin)) >= MaxRevisions)
        /\ \E a \in v.attestation : IsHead(v, r.pin, a) /\ a.id = r.supersedes /\ time >= a.time
    BY <1>1 DEF Writing, Refused, CorrectionRefused
  <1>9. PICK old \in v.attestation :
           IsHead(v, r.pin, old) /\ old.id = r.supersedes /\ time >= old.time
    BY <1>8
  <1>10. old \in History(v, r.pin)
    BY <1>9 DEF IsHead
  <1>11. H = History(v, r.pin)
    BY <1>1, <1>5, <1>6, <1>9, <1>10 DEF Continues
  <1>12. old \in H /\ \A a \in H : IsHead(db, r.pin, a) <=> a = old
    <2>1. IsHead(db, r.pin, old)
      BY <1>9, <1>11 DEF IsHead
    <2> QED
      BY <1>7, <1>10, <1>11, <2>1 DEF Chain
  <1>13. \A p \in db.pin : p.by # r.id
    BY <1>1, <1>5 DEF Whole, PinsMade
  <1> HIDE DEF x
  <1>14. History(db', r.pin) = H \union {x}
    BY <1>3, <1>4 DEF History
  <1>15. ASSUME NEW p \in db.pin, p.id # r.pin
         PROVE  History(db', p.id) = History(db, p.id)
    BY <1>3, <1>4, <1>13, <1>15 DEF History
  <1>16. Tables(db') /\ PinsMade(db') /\ Journals(db')
    BY <1>1, <1>3, <1>4 DEF Whole, Tables, PinsMade, Journals
  <1>17. Attestations(db')
    <2>1. IsFiniteSet(db'.attestation)
      BY <1>1, <1>3, FS_AddElement DEF Whole, Attestations
    <2> QED
      BY <1>1, <1>3, <1>4, <1>6, <1>7, <2>1 DEF Whole, Attestations
  <1>18. Keys(db')
    BY <1>1, <1>3, <1>4, <1>5 DEF Whole, Keys
  <1>19. Chain(db', r.pin)
    <2>1. \A a \in H : a.id # r.id
      BY <1>5 DEF History
    <2>2. \A b \in H : b.supersedes # r.id
      BY <1>1, <1>7, <2>1 DEF Chain
    <2>3. r.supersedes # r.id
      BY <1>9, <1>12, <2>1
    <2>4. IsHead(db', r.pin, x)
      BY <1>4, <1>14, <2>2, <2>3 DEF IsHead
    <2>5. ASSUME NEW a \in H
          PROVE  ~IsHead(db', r.pin, a)
      <3>1. CASE a = old
        BY <1>4, <1>9, <1>14, <3>1 DEF IsHead
      <3>2. CASE a # old
        BY <1>12, <1>14, <3>2 DEF IsHead
      <3> QED
        BY <3>1, <3>2
    <2>6. x \notin H
      BY <1>4, <2>1
    <2>7. Cardinality(H \union {x}) <= MaxRevisions
      <3>1. IsFiniteSet(H)
        <4>1. H \subseteq db.attestation /\ IsFiniteSet(db.attestation)
          BY <1>1 DEF History, Whole, Attestations
        <4> QED
          BY <4>1, FS_Subset
      <3>2. Cardinality(H) \in Nat /\ Cardinality(H \union {x}) = Cardinality(H) + 1
        BY <2>6, <3>1, FS_AddElement, FS_CardinalityType
      <3> QED
        BY <1>8, <1>11, <3>2, RevisionsAssumption
    <2>8. ASSUME NEW a \in H \union {x}, a.supersedes # None
          PROVE  \E b \in H \union {x} : b.id = a.supersedes /\ b.time <= a.time
      <3>1. CASE a = x
        <4>1. time \in Nat /\ old.time \in Nat
          BY <1>1, <1>12, ClockAssumption DEF Whole, Attestations, History
        <4> QED
          BY <1>4, <1>9, <1>12, <3>1, <4>1
      <3>2. CASE a \in H
        BY <1>7, <2>8, <3>2 DEF Chain
      <3> QED
        BY <3>1, <3>2
    <2> QED
      BY <1>14, <2>4, <2>5, <2>7, <2>8 DEF Chain
  <1>20. \A p \in db.pin : Chain(db', p.id)
    <2>1. ASSUME NEW p \in db.pin, p.id # r.pin
          PROVE  Chain(db', p.id)
      <3>1. History(db', p.id) = History(db, p.id) /\ Chain(db, p.id)
        BY <1>1, <1>15, <2>1 DEF Whole
      <3> QED
        BY <3>1 DEF Chain, IsHead
    <2> QED
      BY <1>19, <2>1
  <1>21. Whole(db')
    BY <1>3, <1>16, <1>17, <1>18, <1>20 DEF Whole
  <1>22. Continues(db, db')
    <2>1. ASSUME NEW p \in db.pin, p.id = r.pin, NEW a \in History(db, p.id), IsHead(db, p.id, a)
          PROVE  \E b \in db'.attestation : b.supersedes = a.id
      <3>1. a = old
        BY <1>12, <2>1
      <3> QED
        BY <1>3, <1>4, <1>9, <3>1
    <2> QED
      BY <1>3, <1>15, <2>1 DEF Continues
  <1>23. Same(db', r)
    <2>1. x \in db'.attestation /\ x = CorrectionRow(r, x.time)
      BY <1>3, <1>4 DEF x
    <2> QED
      BY <1>1, <2>1 DEF Same
  <1> QED
    BY <1>21, <1>22, <1>23 DEF Stored

\* A correction that lost is refused whenever it is made: the winner is in the
\* history it sees, so the row to be superseded is not its head.
LEMMA LostIsRefused ==
    ASSUME DiaryInv, NEW c \in Handlers, call[c].at = "write", call[c].attempt = 2
    PROVE  /\ \A time \in Clock : Refused(call[c].view, call[c].req, time)
           /\ ~Same(db, call[c].req)
  <1> DEFINE r == call[c].req
             v == call[c].view
  <1>1. /\ r \in Requests /\ r.op = "correct" /\ r.supersedes # None
        /\ Whole(db) /\ Continues(v, db) /\ Lost(v, r) /\ ~Known(v, r)
    BY RequestsAssumption DEF DiaryInv, CallOK, Working
  <1>2. PICK b \in v.attestation : b.supersedes = r.supersedes /\ b.id # r.id
    BY <1>1 DEF Lost, Known
  <1>3. b \in db.attestation /\ b.supersedes # None
    BY <1>1, <1>2 DEF Continues
  <1>4. ~Same(db, r)
    <2>1. SUFFICES ASSUME NEW a \in db.attestation, a = CorrectionRow(r, a.time)
                   PROVE  FALSE
      BY <1>1 DEF Same
    <2>2. a.id = r.id /\ a.supersedes = r.supersedes
      BY <2>1 DEF CorrectionRow
    <2> QED
      BY <1>1, <1>2, <1>3, <2>2 DEF Whole, Keys
  <1>5. ASSUME NEW a \in v.attestation, IsHead(v, r.pin, a), a.id = r.supersedes
        PROVE  FALSE
    <2>1. PICK p \in v.pin : p.id = r.pin
      BY <1>1 DEF Lost
    <2>2. p \in db.pin /\ a \in History(db, p.id)
      BY <1>1, <1>5, <2>1, HistoryGrows DEF Continues, IsHead
    <2>3. PICK q \in db.pin : q.id = b.pin
      BY <1>1, <1>3 DEF Whole, Attestations
    <2>4. b \in History(db, q.id)
      BY <1>3, <2>3 DEF History
    <2>5. PICK a2 \in History(db, q.id) : a2.id = b.supersedes
      BY <1>1, <1>3, <2>4 DEF Whole, Chain
    <2>6. a2 = a
      BY <1>1, <1>2, <1>5, <2>2, <2>5 DEF Whole, Keys, History
    <2>7. p.id = q.id
      BY <1>1, <2>2, <2>5, <2>6, OneHistory DEF Whole
    <2>8. b \in History(v, r.pin)
      BY <2>1, <2>3, <2>7 DEF History
    <2> QED
      BY <1>2, <1>5, <2>8 DEF IsHead
  <1>6. \A time \in Clock : Refused(v, r, time)
    BY <1>1, <1>5 DEF Refused, CorrectionRefused
  <1> QED
    BY <1>4, <1>6

------------------------------------------------------------------------------
\* The steps

LEMMA Initially == Init => DiaryInv
  <1> SUFFICES ASSUME Init PROVE DiaryInv
    OBVIOUS
  <1>1. /\ db.offer = {} /\ db.interaction = {} /\ db.attestation = {} /\ db.pin = {}
        /\ db.journal = {} /\ db = EmptyDB
    BY DEF Init, EmptyDB
  <1>2. Tables(db) /\ Keys(db) /\ PinsMade(db) /\ Journals(db)
    BY <1>1 DEF EmptyDB, Tables, Keys, PinsMade, Journals
  <1>3. Attestations(db)
    BY <1>1, FS_EmptySet DEF Attestations
  <1>4. CallOK(NoCall, db)
    BY NoneAssumption DEF CallOK, NoCall, Transaction, Statuses, Working
  <1>5. Locks
    BY DEF Init, Locks
  <1> QED
    BY <1>1, <1>2, <1>3, <1>4, <1>5 DEF Init, DiaryInv, Whole

\* A call begins, or ends, or dies.
LEMMA NoCallKeeps ==
    ASSUME DiaryInv, NEW c \in Handlers, Arrive(c) \/ Abort(c) \/ Return(c)
    PROVE  DiaryInv'
  <1>1. db' = db /\ Whole(db') /\ Continues(db, db')
    BY ContinuesSelf DEF Arrive, Abort, Return, DiaryInv
  <1>2. CASE Arrive(c)
    <2>1. PICK r \in Requests : call' = [call EXCEPT ![c] = Transaction("open", r, 1, EmptyDB, None)]
      BY <1>2 DEF Arrive
    <2>2. CallOK(Transaction("open", r, 1, EmptyDB, None), db')
      BY NoneAssumption DEF CallOK, Transaction, Statuses, Working
    <2> QED
      BY <1>1, <1>2, <2>1, <2>2, Moves DEF Arrive
  <1>3. CASE Abort(c) \/ Return(c)
    <2>1. CallOK(NoCall, db')
      BY NoneAssumption DEF CallOK, NoCall, Transaction, Statuses, Working
    <2> QED
      BY <1>1, <1>3, <2>1, Moves DEF Abort, Return
  <1> QED
    BY <1>2, <1>3

\* The view is the database of this moment.
LEMMA OpenKeeps == ASSUME DiaryInv, NEW c \in Handlers, Open(c) PROVE DiaryInv'
  <1> DEFINE r == call[c].req
  <1>1. db' = db /\ Whole(db') /\ Continues(db, db')
    BY ContinuesSelf DEF Open, DiaryInv
  <1>2. /\ call[c].at = "open" /\ r \in Requests /\ call[c].attempt \in {1, 2}
        /\ call[c].attempt = 2 => r.op = "correct" /\ Lost(db, r)
    BY DEF Open, DiaryInv, CallOK
  <1>3. CASE Unknown(db, r)
    <2>1. Answer(c, "404") /\ call[c].attempt # 2
      BY <1>2, <1>3 DEF Open, Unknown, Lost
    <2> QED
      BY <1>1, <1>2, <2>1, AnswerKeeps, NoneAssumption DEF Statuses
  <1>4. CASE ~Unknown(db, r) /\ Known(db, r)
    <2>1. Answer(c, Repeated(db, r))
      BY <1>4 DEF Open
    <2>2. Repeated(db, r) = (IF Same(db, r) THEN "200" ELSE "409")
      BY DEF Repeated
    <2> QED
      BY <1>1, <1>2, <2>1, <2>2, AnswerKeeps, NoneAssumption DEF Statuses
  <1>5. CASE ~Unknown(db, r) /\ ~Known(db, r)
    <2> DEFINE at == IF LockOf(r) = None THEN "write" ELSE "wait"
               s == Transaction(at, r, call[c].attempt, db, None)
    <2>1. call' = [call EXCEPT ![c] = s] /\ UNCHANGED lock
      BY <1>5 DEF Open
    <2>2. CallOK(s, db')
      BY <1>1, <1>2, <1>5, NoneAssumption DEF CallOK, Transaction, Statuses, Working
    <2> QED
      BY <1>1, <1>2, <2>1, <2>2, Moves
  <1> QED
    BY <1>3, <1>4, <1>5

LEMMA LockKeeps == ASSUME DiaryInv, NEW c \in Handlers, Lock(c) PROVE DiaryInv'
  <1> DEFINE s == [call[c] EXCEPT !.at = "write"]
  <1>1. db' = db /\ Whole(db') /\ Continues(db, db')
    BY ContinuesSelf DEF Lock, DiaryInv
  <1>2. CallOK(call[c], db) /\ call[c].at = "wait"
    BY DEF Lock, DiaryInv
  <1>3. /\ s.at = "write" /\ s.req = call[c].req /\ s.attempt = call[c].attempt
        /\ s.view = call[c].view /\ s.answer = call[c].answer
        /\ s = [at |-> s.at, req |-> s.req, attempt |-> s.attempt, view |-> s.view,
                answer |-> s.answer]
    BY <1>2 DEF CallOK
  <1>4. call' = [call EXCEPT ![c] = s] /\ lock' = [lock EXCEPT ![LockOf(s.req)] = c]
    BY <1>3 DEF Lock
  <1> HIDE DEF s
  <1>5. CallOK(s, db')
    BY <1>1, <1>2, <1>3 DEF CallOK, Working
  <1>6. LockOf(s.req) \in Lockable
    <2>1. s.req \in Requests /\ LockOf(s.req) # None
      BY <1>2, <1>3 DEF CallOK, Working
    <2> QED
      BY <2>1, RequestsAssumption DEF LockOf, Lockable
  <1> QED
    BY <1>1, <1>2, <1>3, <1>4, <1>5, <1>6, Moves

LEMMA RefuseKeeps == ASSUME DiaryInv, NEW c \in Handlers, Refuse(c) PROVE DiaryInv'
  <1>1. db' = db /\ Whole(db') /\ Continues(db, db')
    BY ContinuesSelf DEF Refuse, DiaryInv
  <1>2. call[c].attempt = 2 => ~Same(db, call[c].req)
    BY LostIsRefused DEF Refuse
  <1> QED
    BY <1>1, <1>2, AnswerKeeps, NoneAssumption DEF Refuse, Statuses

\* A rival was faster: a correction is tried again, knowing that it lost.
LEMMA ClashKeeps == ASSUME DiaryInv, NEW c \in Handlers, Clash(c) PROVE DiaryInv'
  <1> DEFINE r == call[c].req
             v == call[c].view
             s == Transaction("open", r, 2, EmptyDB, None)
  <1>1. db' = db /\ Whole(db') /\ Continues(db, db')
    BY ContinuesSelf DEF Clash, DiaryInv
  <1>2. /\ call[c].at = "write" /\ r \in Requests /\ call[c].attempt \in 0..2
        /\ Continues(v, db) /\ ~Unknown(v, r)
    BY DEF Clash, DiaryInv, CallOK, Working
  <1>3. call[c].attempt # 2
    BY <1>2, LostIsRefused DEF Clash
  <1>4. CASE ~KeyTaken(r) /\ PinTaken(v, r)
    <2>1. Answer(c, "409")
      BY <1>4 DEF Clash
    <2> QED
      BY <1>1, <1>2, <1>3, <2>1, AnswerKeeps, NoneAssumption DEF Statuses
  <1>5. CASE ~(~KeyTaken(r) /\ PinTaken(v, r)) /\ r.op = "correct" /\ call[c].attempt = 1
    <2>1. call' = [call EXCEPT ![c] = s] /\ lock' = Release(c)
      BY <1>5 DEF Clash
    <2>2. KeyTaken(r)
      BY <1>5 DEF Clash, PinTaken
    <2>3. Lost(db', r)
      BY <1>1, <1>2, <1>5, <2>2 DEF KeyTaken, Unknown, Lost, Continues
    <2>4. CallOK(s, db')
      BY <1>2, <1>5, <2>3, NoneAssumption DEF CallOK, Transaction, Statuses, Working
    <2> QED
      BY <1>1, <2>1, <2>4, Moves
  <1>6. CASE ~(~KeyTaken(r) /\ PinTaken(v, r)) /\ ~(r.op = "correct" /\ call[c].attempt = 1)
    <2>1. Answer(c, "500")
      BY <1>6 DEF Clash
    <2>2. r.op # "correct"
      <3>1. call[c].attempt # 0
        BY <1>2 DEF DiaryInv, CallOK
      <3> QED
        BY <1>2, <1>3, <1>6, <3>1
    <2> QED
      BY <1>1, <1>2, <1>3, <2>1, <2>2, AnswerKeeps, NoneAssumption DEF Statuses
  <1> QED
    BY <1>4, <1>5, <1>6

LEMMA WriteKeeps == ASSUME DiaryInv, NEW c \in Handlers, Write(c) PROVE DiaryInv'
  <1>1. PICK time \in Clock : /\ ~Refused(call[c].view, call[c].req, time)
                             /\ db' = Insert(db, call[c].view, call[c].req, time)
    BY DEF Write
  <1>2. Writing(c, time) /\ Answer(c, "200")
    BY <1>1 DEF Write, Writing
  <1>3. call[c].req \in Requests /\ call[c].at = "write"
    BY DEF Write, DiaryInv, CallOK
  <1>4. Stored(c)
    BY <1>2, <1>3, RequestsAssumption, OfferStored, InteractionStored, AttestationStored,
       CorrectionStored, JournalStored
  <1> QED
    BY <1>2, <1>3, <1>4, AnswerKeeps, NoneAssumption DEF Stored, Statuses

LEMMA DiaryNext == DiaryInv /\ [Next]_vars => DiaryInv'
  <1> SUFFICES ASSUME DiaryInv, [Next]_vars PROVE DiaryInv'
    OBVIOUS
  <1>1. CASE UNCHANGED vars
    BY <1>1 DEF vars, DiaryInv, Locks
  <1>2. CASE Next
    <2>1. PICK c \in Handlers : \/ Arrive(c) \/ Open(c) \/ Lock(c) \/ Refuse(c)
                               \/ Clash(c) \/ Write(c) \/ Abort(c) \/ Return(c)
      BY <1>2 DEF Next
    <2> QED
      BY <2>1, NoCallKeeps, OpenKeeps, LockKeeps, RefuseKeeps, ClashKeeps, WriteKeeps
  <1> QED
    BY <1>1, <1>2

LEMMA DiaryInvariant == Spec => []DiaryInv
  BY Initially, DiaryNext, PTL DEF Spec

\* Rows are those that were asked for, a lock belongs to the call that writes
\* under it, and a view lasts as long as its transaction (put_spatial_diary_*).
THEOREM DiaryTypesHold == Spec => []TypeOK
  BY DiaryInvariant, TypesFollow, PTL

\* One offer, attestation and pin per moment, one chain of corrections per pin and
\* journals of their own walk, although every check reads an old snapshot.
THEOREM MemoriesStayWhole == Spec => []MemoriesAreWhole
  BY DiaryInvariant, MemoriesFollow, PTL

\* A 200 names what is stored, a correction never fails with 500 and its retry
\* decides it (put_pin_attestation_correction).
THEOREM AnswersStayTrue == Spec => []AnswersAreTrue
  BY DiaryInvariant, AnswersFollow, PTL

------------------------------------------------------------------------------
(***************************************************************************)
(* Memory places.  A transaction holds the keys it has inserted: no        *)
(* committed row and no other open transaction has them (KeysHeld), and    *)
(* what its snapshot showed of a place stays true, because places only     *)
(* appear (Checked).  The key a waiting call asks for is above all it      *)
(* holds, so along a chain of waiting calls the keys grow.                 *)
(***************************************************************************)

Answers == {"none", "200", "404", "409", "413", "500"}

Placing ==
    [at: PlacePositions, req: PlaceRequests \union {NoRequest},
     places: SUBSET places, members: SUBSET members,
     inserted: SUBSET Pins, answer: Answers]

PlaceTypes == placing \in [PlaceHandlers -> Placing]

\* Seeds that may become a place.
SeedsFit(r) ==
    /\ \A p \in Wanted(r) : p \in Pins /\ PinDog[p] = r.dog
    /\ Cardinality({PinWalk[p] : p \in Wanted(r)}) >= 2

\* What a call has found before it inserts, and how it inserts.
Checked(h) ==
    LET r == placing[h].req IN
    /\ placing[h].at = "place" => r.op = "place"
    /\ placing[h].at \in {"place", "members"} /\ r.op = "place" => SeedsFit(r)
    /\ placing[h].at = "members" /\ r.op # "place" =>
         \E q \in places : /\ q.id = r.id /\ r.pin \in Pins
                           /\ PinDog[r.pin] = q.dog /\ <<q.seeds, r.pin>> \in Near
    /\ placing[h].at # "members" => placing[h].inserted = {}
    /\ placing[h].at # "done" => placing[h].answer = "none"
    /\ \A p \in placing[h].inserted :
         p \in Wanted(r) /\ \A q \in Wanted(r) \ placing[h].inserted : p < q

\* The keys of a transaction are its own.
KeysHeld(h) ==
    /\ placing[h].at = "members" /\ placing[h].req.op = "place" =>
         /\ \A q \in places : ~SamePlaceKey(q, PlaceRow(placing[h].req))
         /\ \A d \in PlaceHandlers \ {h} :
              placing[d].at = "members" /\ placing[d].req.op = "place" =>
                ~SamePlaceKey(PlaceRow(placing[d].req), PlaceRow(placing[h].req))
    /\ \A p \in placing[h].inserted :
         /\ \A m \in members : m.pin # p
         /\ \A d \in PlaceHandlers \ {h} : p \notin placing[d].inserted

\* The parts of PlacesAreWhole.
PlaceWhole(q) ==
    /\ \A p \in places : SamePlaceKey(p, q) => p = q
    /\ {m.pin : m \in {n \in MembersOf(q.id) : n.origin = "seed"}} = q.seeds
    /\ Cardinality({PinWalk[p] : p \in q.seeds}) >= 2

MemberWhole(m) ==
    /\ \A n \in members : n.pin = m.pin => n = m
    /\ \E q \in places :
          /\ q.id = m.place /\ PinDog[m.pin] = q.dog
          /\ m.origin = "user_linked" => <<q.seeds, m.pin>> \in Near

ToldTrue(h) == placing[h].answer = "200" =>
    LET r == placing[h].req IN
    /\ r.op = "place" => PlaceRow(r) \in places
    /\ \A p \in Wanted(r) : \E m \in MembersOf(r.id) : m.pin = p

\* The inductive invariant.
PlaceInv ==
    /\ PlaceTypes
    /\ \A h \in PlaceHandlers : Checked(h) /\ KeysHeld(h) /\ ToldTrue(h)
    /\ \A q \in places : PlaceWhole(q)
    /\ \A m \in members : MemberWhole(m)

LEMMA WholeParts == PlaceInv => PlacesAreWhole
  BY DEF PlaceInv, PlacesAreWhole, PlaceWhole, MemberWhole, ToldTrue

------------------------------------------------------------------------------
\* Steps that write no row

\* What Told does (the end of every call).
LEMMA ToldEnds ==
    ASSUME PlaceInv, NEW h \in PlaceHandlers, NEW status \in Answers, Told(h, status)
    PROVE  /\ placing' \in [PlaceHandlers -> Placing]
           /\ placing'[h].at = "done" /\ placing'[h].req = placing[h].req
           /\ placing'[h].inserted = {} /\ placing'[h].answer = status
           /\ \A d \in PlaceHandlers \ {h} : placing'[d] = placing[d]
  BY DEF PlaceInv, PlaceTypes, Placing, Told, PlacePositions, Answers

\* A step that touches no row and no call but h leaves the others' promises.
LEMMA PrivateStep ==
    ASSUME PlaceInv, NEW h \in PlaceHandlers,
           UNCHANGED <<places, members>>, PlaceTypes',
           \A d \in PlaceHandlers \ {h} : placing'[d] = placing[d],
           Checked(h)', KeysHeld(h)', ToldTrue(h)'
    PROVE  PlaceInv'
  <1>1. ASSUME NEW d \in PlaceHandlers \ {h} PROVE (Checked(d) /\ KeysHeld(d) /\ ToldTrue(d))'
    <2>1. Checked(d)'
      BY DEF PlaceInv, Checked
    <2>2. ToldTrue(d)'
      BY DEF PlaceInv, ToldTrue, MembersOf
    <2>3. KeysHeld(d)'
      BY DEF PlaceInv, KeysHeld, SamePlaceKey
    <2> QED
      BY <2>1, <2>2, <2>3
  <1>2. \A q \in places' : PlaceWhole(q)'
    BY DEF PlaceInv, PlaceWhole, MembersOf
  <1>3. \A m \in members' : MemberWhole(m)'
    BY DEF PlaceInv, MemberWhole
  <1> QED
    BY <1>1, <1>2, <1>3 DEF PlaceInv

\* A call that has ended, or has not begun to insert, holds nothing.
LEMMA HoldsNothing ==
    ASSUME NEW h \in PlaceHandlers, placing'[h].inserted = {},
           placing'[h].at # "members" \/ placing'[h].req.op # "place"
    PROVE  KeysHeld(h)'
  BY DEF KeysHeld

------------------------------------------------------------------------------
\* The first SELECT

\* Seeds that are all pins have as many walks as there are (no set is infinite).
LEMMA FitSeeds ==
    ASSUME NEW r, ~SeedsMissing(r), ~SeedsUnfit(r)
    PROVE  SeedsFit(r)
  <1> DEFINE walks == {PinWalk[p] : p \in Wanted(r)}
             f == [p \in Wanted(r) |-> PinWalk[p]]
  <1>1. Wanted(r) \subseteq Pins
    BY DEF SeedsMissing
  <1>2. IsFiniteSet(Wanted(r))
    BY <1>1, PinsAssumption, FS_Subset
  <1>3. f \in Surjection(Wanted(r), walks)
    BY DEF Surjection
  <1>4. IsFiniteSet(walks)
    BY <1>2, <1>3, FS_Surjection
  <1>5. Cardinality(walks) \in Nat
    BY <1>4, FS_CardinalityType
  <1>6. Cardinality(walks) >= 2
    BY <1>5 DEF SeedsUnfit
  <1> QED
    BY <1>6 DEF SeedsMissing, SeedsFit

\* What is answered from the snapshot is true, and what goes on is fit.
LEMMA SnapshotAnswers ==
    ASSUME PlaceInv, NEW r
    PROVE  /\ FirstAnswer(r) \in Answers
           /\ FirstAnswer(r) = "200" =>
                /\ r.op = "place" => PlaceRow(r) \in places
                /\ \A p \in Wanted(r) : \E m \in MembersOf(r.id) : m.pin = p
           /\ FirstAnswer(r) = "none" /\ r.op = "place" => SeedsFit(r)
           /\ FirstAnswer(r) = "none" /\ r.op # "place" =>
                \E q \in places : /\ q.id = r.id /\ r.pin \in Pins
                                  /\ PinDog[r.pin] = q.dog /\ <<q.seeds, r.pin>> \in Near
  <1>1. CASE r.op = "place"
    <2>1. FirstAnswer(r) = PlaceAnswer(r)
      BY <1>1 DEF FirstAnswer
    <2>2. ReplayAnswer(r) \in {"409", "413", "200"}
      BY DEF ReplayAnswer
    <2>3. PlaceAnswer(r) \in Answers
      BY <2>2 DEF PlaceAnswer, Answers
    <2>4. ASSUME PlaceAnswer(r) = "200"
          PROVE  /\ PlaceRow(r) \in places
                 /\ \A p \in Wanted(r) : \E m \in MembersOf(r.id) : m.pin = p
      <3>1. ReplayAnswer(r) = "200"
        BY <2>4 DEF PlaceAnswer
      <3>2. PlaceRow(r) \in places
        BY <3>1 DEF ReplayAnswer
      <3>3. PlaceWhole(PlaceRow(r)) /\ PlaceRow(r).id = r.id /\ PlaceRow(r).seeds = Wanted(r)
        BY <3>2 DEF PlaceInv, PlaceRow
      <3> QED
        BY <3>2, <3>3 DEF PlaceWhole
    <2>5. PlaceAnswer(r) = "none" => ~SeedsMissing(r) /\ ~SeedsUnfit(r)
      BY <2>2 DEF PlaceAnswer
    <2> QED
      BY <1>1, <2>1, <2>3, <2>4, <2>5, FitSeeds
  <1>2. CASE r.op # "place"
    <2>1. FirstAnswer(r) = LinkAnswer(r) /\ Wanted(r) = {r.pin}
      BY <1>2 DEF FirstAnswer, Wanted
    <2>2. LinkAnswer(r) \in Answers
      BY DEF LinkAnswer, Answers
    <2>3. LinkAnswer(r) = "200" => \E m \in MembersOf(r.id) : m.pin = r.pin
      BY DEF LinkAnswer
    <2>4. ASSUME LinkAnswer(r) = "none"
          PROVE  \E q \in places : /\ q.id = r.id /\ r.pin \in Pins
                                   /\ PinDog[r.pin] = q.dog /\ <<q.seeds, r.pin>> \in Near
      <3>1. PICK q \in places : q.id = r.id /\ r.pin \in Pins /\ PinDog[r.pin] = q.dog
        BY <2>4 DEF LinkAnswer
      <3>2. PICK p \in places : p.id = r.id /\ <<p.seeds, r.pin>> \in Near
        BY <2>4 DEF LinkAnswer
      <3>3. p = q
        BY <3>1, <3>2 DEF PlaceInv, PlaceWhole, SamePlaceKey
      <3> QED
        BY <3>1, <3>2, <3>3
    <2> QED
      BY <1>2, <2>1, <2>2, <2>3, <2>4
  <1> QED
    BY <1>1, <1>2

------------------------------------------------------------------------------
\* The steps

LEMMA BeginKeeps ==
    ASSUME PlaceInv, NEW h \in PlaceHandlers, Begin(h)
    PROVE  PlaceInv'
  <1>1. PICK r \in PlaceRequests :
          placing' = [placing EXCEPT ![h].at = "open", ![h].req = r]
    BY DEF Begin
  <1>2. PlaceTypes' /\ \A d \in PlaceHandlers \ {h} : placing'[d] = placing[d]
    <2>1. placing'[h] \in Placing
      BY <1>1 DEF PlaceInv, PlaceTypes, Placing, PlacePositions
    <2> QED
      BY <1>1, <2>1 DEF Begin, PlaceInv, PlaceTypes, Placing
  <1>3. /\ placing'[h].at = "open" /\ placing'[h].inserted = placing[h].inserted
        /\ placing'[h].answer = placing[h].answer
    BY <1>1 DEF PlaceInv, PlaceTypes, Placing
  <1>4. placing[h].inserted = {} /\ placing[h].answer = "none"
    BY DEF Begin, PlaceInv, Checked
  <1>5. (Checked(h) /\ KeysHeld(h) /\ ToldTrue(h))'
    BY <1>3, <1>4, HoldsNothing DEF Checked, ToldTrue
  <1> QED
    BY <1>2, <1>5, PrivateStep DEF Begin

LEMMA ToldKeeps ==
    ASSUME PlaceInv, NEW h \in PlaceHandlers, NEW status \in Answers \ {"200"},
           Told(h, status), UNCHANGED <<places, members>>
    PROVE  PlaceInv'
  <1>1. PlaceTypes'
    BY ToldEnds DEF PlaceTypes, Placing
  <1>2. (Checked(h) /\ KeysHeld(h) /\ ToldTrue(h))'
    BY ToldEnds, HoldsNothing DEF Checked, ToldTrue
  <1> QED
    BY <1>1, <1>2, ToldEnds, PrivateStep

LEMMA TakeViewKeeps ==
    ASSUME PlaceInv, NEW h \in PlaceHandlers, TakeView(h)
    PROVE  PlaceInv'
  <1> DEFINE r == placing[h].req
  <1>1. CASE FirstAnswer(r) # "none"
    <2>1. Told(h, FirstAnswer(r)) /\ FirstAnswer(r) \in Answers
      BY <1>1, SnapshotAnswers DEF TakeView
    <2>2. PlaceTypes'
      BY <2>1, ToldEnds DEF PlaceTypes, Placing, TakeView
    <2>3. /\ placing'[h].at = "done" /\ placing'[h].req = r
          /\ placing'[h].inserted = {} /\ placing'[h].answer = FirstAnswer(r)
          /\ \A d \in PlaceHandlers \ {h} : placing'[d] = placing[d]
      BY <2>1, ToldEnds
    <2>4. (Checked(h) /\ KeysHeld(h))'
      BY <2>3, HoldsNothing DEF Checked
    <2>5. ToldTrue(h)'
      <3>1. placing'[h].answer = "200" =>
              /\ r.op = "place" => PlaceRow(r) \in places
              /\ \A p \in Wanted(r) : \E m \in MembersOf(r.id) : m.pin = p
        BY <2>3, SnapshotAnswers
      <3>2. places' = places /\ members' = members
        BY DEF TakeView
      <3> QED
        BY <2>3, <3>1, <3>2 DEF ToldTrue, MembersOf
    <2> QED
      BY <2>2, <2>3, <2>4, <2>5, PrivateStep DEF TakeView
  <1>2. CASE FirstAnswer(r) = "none"
    <2>1. placing' = [placing EXCEPT
                ![h].at = IF r.op = "place" THEN "place" ELSE "members",
                ![h].places = places, ![h].members = members]
      BY <1>2 DEF TakeView
    <2>2. PlaceTypes' /\ \A d \in PlaceHandlers \ {h} : placing'[d] = placing[d]
      <3>1. placing'[h] \in Placing
        BY <2>1 DEF PlaceInv, PlaceTypes, Placing, PlacePositions
      <3> QED
        BY <2>1, <3>1 DEF TakeView, PlaceInv, PlaceTypes, Placing
    <2>3. /\ placing'[h].at = IF r.op = "place" THEN "place" ELSE "members"
          /\ placing'[h].req = r /\ placing'[h].inserted = placing[h].inserted
          /\ placing'[h].answer = placing[h].answer
      BY <2>1 DEF PlaceInv, PlaceTypes, Placing
    <2>4. placing[h].inserted = {} /\ placing[h].answer = "none"
      BY DEF TakeView, PlaceInv, Checked
    <2>5. Checked(h)'
      BY <1>2, <2>3, <2>4, SnapshotAnswers DEF Checked, TakeView
    <2>6. (KeysHeld(h) /\ ToldTrue(h))'
      BY <2>3, <2>4, HoldsNothing DEF ToldTrue
    <2> QED
      BY <2>2, <2>5, <2>6, PrivateStep DEF TakeView
  <1> QED
    BY <1>1, <1>2

LEMMA InsertPlaceKeeps ==
    ASSUME PlaceInv, NEW h \in PlaceHandlers, InsertPlace(h)
    PROVE  PlaceInv'
  <1> DEFINE r == placing[h].req
  <1>1. placing' = [placing EXCEPT ![h].at = "members"]
    BY DEF InsertPlace
  <1>2. PlaceTypes' /\ \A d \in PlaceHandlers \ {h} : placing'[d] = placing[d]
    <2>1. placing'[h] \in Placing
      BY <1>1 DEF PlaceInv, PlaceTypes, Placing, PlacePositions
    <2> QED
      BY <1>1, <2>1 DEF InsertPlace, PlaceInv, PlaceTypes, Placing
  <1>3. /\ placing'[h].at = "members" /\ placing'[h].req = r
        /\ placing'[h].inserted = placing[h].inserted
        /\ placing'[h].answer = placing[h].answer
    BY <1>1 DEF PlaceInv, PlaceTypes, Placing
  <1>4. /\ r.op = "place" /\ SeedsFit(r)
        /\ placing[h].inserted = {} /\ placing[h].answer = "none"
    BY DEF InsertPlace, PlaceInv, Checked
  <1>5. Checked(h)' /\ ToldTrue(h)'
    BY <1>3, <1>4 DEF Checked, ToldTrue
  <1>6. KeysHeld(h)'
    <2>1. \A q \in places : ~SamePlaceKey(q, PlaceRow(r))
      BY DEF InsertPlace, PlaceLosses
    <2>2. ASSUME NEW d \in PlaceHandlers \ {h},
                 placing[d].at = "members", placing[d].req.op = "place"
          PROVE  ~SamePlaceKey(PlaceRow(placing[d].req), PlaceRow(r))
      BY <2>2 DEF InsertPlace, PlaceRivals
    <2> QED
      BY <1>2, <1>3, <1>4, <2>1, <2>2 DEF KeysHeld, InsertPlace
  <1> QED
    BY <1>2, <1>5, <1>6, PrivateStep DEF InsertPlace

LEMMA InsertMemberKeeps ==
    ASSUME PlaceInv, NEW h \in PlaceHandlers, InsertMember(h)
    PROVE  PlaceInv'
  <1> DEFINE r == placing[h].req
  <1>1. PICK pin \in Pins :
          /\ IsNext(h, pin)
          /\ MemberRivals(h, pin) = {} /\ MemberLosses(h, pin) = {}
          /\ placing' = [placing EXCEPT ![h].inserted = @ \union {pin}]
    BY DEF InsertMember
  <1>2. PlaceTypes' /\ \A d \in PlaceHandlers \ {h} : placing'[d] = placing[d]
    <2>1. placing'[h] \in Placing
      BY <1>1 DEF PlaceInv, PlaceTypes, Placing
    <2> QED
      BY <1>1, <2>1 DEF InsertMember, PlaceInv, PlaceTypes, Placing
  <1>3. /\ placing'[h].at = "members" /\ placing'[h].req = r
        /\ placing'[h].inserted = placing[h].inserted \union {pin}
        /\ placing'[h].answer = placing[h].answer
    BY <1>1 DEF InsertMember, PlaceInv, PlaceTypes, Placing
  <1>4. Checked(h)' /\ ToldTrue(h)'
    <2>1. Checked(h) /\ placing[h].at = "members" /\ placing[h].answer = "none"
      BY DEF InsertMember, PlaceInv, Checked
    <2>2. ASSUME NEW p \in placing'[h].inserted
          PROVE  p \in Wanted(r) /\ \A q \in Wanted(r) \ placing'[h].inserted : p < q
      <3>1. CASE p = pin
        <4>1. pin \in Wanted(r) /\ \A q \in Wanted(r) \ placing[h].inserted : pin <= q
          BY <1>1 DEF IsNext
        <4>2. \A q \in Wanted(r) : q \in Pins
          BY <2>1 DEF Checked, SeedsFit, Wanted
        <4> QED
          BY <1>3, <3>1, <4>1, <4>2, PinsAssumption
      <3>2. CASE p # pin
        BY <1>3, <2>1, <2>2, <3>2 DEF Checked
      <3> QED
        BY <3>1, <3>2
    <2>3. places' = places
      BY DEF InsertMember
    <2> QED
      BY <1>3, <2>1, <2>2, <2>3 DEF Checked, ToldTrue
  <1>5. KeysHeld(h)'
    <2>1. KeysHeld(h) /\ placing[h].at = "members"
      BY DEF InsertMember, PlaceInv
    <2>2. \A m \in members : m.pin # pin
      BY <1>1 DEF MemberLosses, SameMemberKey, MemberRow
    <2>3. ASSUME NEW d \in PlaceHandlers \ {h} PROVE pin \notin placing[d].inserted
      <3>1. placing[d].at # "members" => placing[d].inserted = {}
        BY DEF PlaceInv, Checked
      <3>2. placing[d].at = "members" => pin \notin placing[d].inserted
        BY <1>1 DEF MemberRivals, SameMemberKey, MemberRow
      <3> QED
        BY <3>1, <3>2
    <2> QED
      BY <1>2, <1>3, <2>1, <2>2, <2>3 DEF KeysHeld, InsertMember
  <1> QED
    BY <1>2, <1>4, <1>5, PrivateStep DEF InsertMember

LEMMA ResetKeeps ==
    ASSUME PlaceInv, NEW h \in PlaceHandlers, placing' = [placing EXCEPT ![h] = NoPlacing],
           UNCHANGED <<places, members>>
    PROVE  PlaceInv'
  <1>1. PlaceTypes' /\ \A d \in PlaceHandlers \ {h} : placing'[d] = placing[d]
    BY DEF PlaceInv, PlaceTypes, Placing, PlacePositions, NoPlacing, Answers
  <1>2. placing'[h] = NoPlacing
    BY DEF PlaceInv, PlaceTypes
  <1>3. (Checked(h) /\ KeysHeld(h) /\ ToldTrue(h))'
    BY <1>2, HoldsNothing DEF Checked, ToldTrue, NoPlacing
  <1> QED
    BY <1>1, <1>3, PrivateStep

LEMMA LoseKeyKeeps ==
    ASSUME PlaceInv, NEW h \in PlaceHandlers, LoseKey(h)
    PROVE  PlaceInv'
  <1>1. \E status \in {"409", "500"} : Told(h, status)
    BY DEF LoseKey
  <1> QED
    BY <1>1, ToldKeeps DEF LoseKey, Answers

\* What a commit adds: keys nobody has (put_memory_place, put_memory_place_membership).
LEMMA CommitKeeps ==
    ASSUME PlaceInv, NEW h \in PlaceHandlers, CommitPlace(h)
    PROVE  PlaceInv'
  <1>1. PICK r : r = placing[h].req
    OBVIOUS
  <1> DEFINE row == PlaceRow(r)
             fresh == {MemberRow(r, p) : p \in Wanted(r)}
  <1>2. /\ placing[h].at = "members" /\ placing[h].inserted = Wanted(r)
        /\ places' = places \union (IF r.op = "place" THEN {row} ELSE {})
        /\ members' = members \union fresh
        /\ Told(h, "200") /\ "200" \in Answers
    BY <1>1 DEF CommitPlace, Answers
  <1>3. Checked(h) /\ KeysHeld(h)
    BY DEF PlaceInv
  <1>4. \A p \in Wanted(r) :
          /\ \A m \in members : m.pin # p
          /\ \A d \in PlaceHandlers \ {h} : p \notin placing[d].inserted
    BY <1>2, <1>3 DEF KeysHeld
  <1>5. r.op = "place" =>
          /\ SeedsFit(r)
          /\ \A q \in places : ~SamePlaceKey(q, row)
          /\ \A d \in PlaceHandlers \ {h} :
               placing[d].at = "members" /\ placing[d].req.op = "place" =>
                 ~SamePlaceKey(PlaceRow(placing[d].req), row)
    BY <1>1, <1>2, <1>3 DEF Checked, KeysHeld
  <1>6. r.op # "place" =>
          /\ Wanted(r) = {r.pin}
          /\ \E q \in places : /\ q.id = r.id /\ PinDog[r.pin] = q.dog
                               /\ <<q.seeds, r.pin>> \in Near
    BY <1>1, <1>2, <1>3 DEF Checked, Wanted
  <1>7. /\ placing' \in [PlaceHandlers -> Placing]
        /\ placing'[h].at = "done" /\ placing'[h].req = r
        /\ placing'[h].inserted = {} /\ placing'[h].answer = "200"
        /\ \A d \in PlaceHandlers \ {h} : placing'[d] = placing[d]
    BY <1>1, <1>2, ToldEnds
  <1>8. /\ row.id = r.id /\ row.dog = r.dog /\ row.seeds = Wanted(r)
        /\ \A p : LET m == MemberRow(r, p) IN
             /\ m.place = r.id /\ m.pin = p
             /\ m.origin = IF r.op = "place" THEN "seed" ELSE "user_linked"
    BY DEF PlaceRow, MemberRow
  <1>9. PlaceTypes'
    <2>1. \A d \in PlaceHandlers : placing'[d] \in Placing'
      BY <1>2, <1>7 DEF Placing
    <2> QED
      BY <1>7, <2>1 DEF PlaceTypes
  <1>10. (Checked(h) /\ KeysHeld(h) /\ ToldTrue(h))'
    <2>1. (Checked(h) /\ KeysHeld(h))'
      BY <1>7, HoldsNothing DEF Checked
    <2>2. r.op = "place" => row \in places'
      BY <1>2
    <2>3. \A p \in Wanted(r) : \E m \in members' : m.place = r.id /\ m.pin = p
      BY <1>2, <1>8
    <2> QED
      BY <1>7, <2>1, <2>2, <2>3 DEF ToldTrue, MembersOf
  <1>11. ASSUME NEW d \in PlaceHandlers \ {h}
         PROVE  (Checked(d) /\ KeysHeld(d) /\ ToldTrue(d))'
    <2>1. Checked(d) /\ KeysHeld(d) /\ ToldTrue(d)
      BY DEF PlaceInv
    <2>2. Checked(d)'
      BY <1>2, <1>7, <2>1 DEF Checked
    <2>3. ToldTrue(d)'
      BY <1>2, <1>7, <2>1 DEF ToldTrue, MembersOf
    <2>4. ASSUME placing[d].at = "members", placing[d].req.op = "place"
          PROVE  /\ \A q \in places' : ~SamePlaceKey(q, PlaceRow(placing[d].req))
                 /\ \A e \in PlaceHandlers \ {d} :
                      placing'[e].at = "members" /\ placing'[e].req.op = "place" =>
                        ~SamePlaceKey(PlaceRow(placing'[e].req), PlaceRow(placing[d].req))
      <3>1. r.op = "place" => ~SamePlaceKey(row, PlaceRow(placing[d].req))
        BY <1>5, <2>4 DEF SamePlaceKey
      <3> QED
        BY <1>2, <1>7, <2>1, <2>4, <3>1 DEF KeysHeld
    <2>5. ASSUME NEW p \in placing[d].inserted
          PROVE  /\ \A m \in members' : m.pin # p
                 /\ \A e \in PlaceHandlers \ {d} : p \notin placing'[e].inserted
      BY <1>2, <1>4, <1>7, <1>8, <2>1 DEF KeysHeld
    <2>6. KeysHeld(d)'
      BY <1>7, <2>4, <2>5 DEF KeysHeld
    <2> QED
      BY <2>2, <2>3, <2>6
  <1>12. ASSUME NEW q \in places' PROVE PlaceWhole(q)'
    <2> DEFINE seeded == {m.pin : m \in {n \in members' : n.place = q.id /\ n.origin = "seed"}}
    <2>1. CASE q \in places
      <3>1. PlaceWhole(q)
        BY <2>1 DEF PlaceInv
      <3>2. \A p \in places' : SamePlaceKey(p, q) => p = q
        BY <1>2, <1>5, <2>1, <3>1 DEF PlaceWhole, SamePlaceKey
      <3>3. \A m \in fresh : ~(m.place = q.id /\ m.origin = "seed")
        BY <1>5, <1>8, <2>1 DEF SamePlaceKey
      <3>4. {n \in members' : n.place = q.id /\ n.origin = "seed"}
              = {n \in MembersOf(q.id) : n.origin = "seed"}
        BY <1>2, <3>3 DEF MembersOf
      <3> QED
        BY <3>1, <3>2, <3>4 DEF PlaceWhole, MembersOf
    <2>2. CASE q \notin places
      <3>1. q = row /\ r.op = "place"
        BY <1>2, <2>2
      <3>2. \A p \in places' : SamePlaceKey(p, q) => p = q
        BY <1>2, <1>5, <3>1
      <3>3. \A m \in members : m.place # q.id
        BY <1>5, <1>8, <3>1 DEF PlaceInv, MemberWhole, SamePlaceKey
      <3>4. seeded = Wanted(r)
        BY <1>2, <1>8, <3>1, <3>3
      <3>5. Cardinality({PinWalk[p] : p \in q.seeds}) >= 2
        BY <1>5, <1>8, <3>1 DEF SeedsFit
      <3> QED
        BY <1>8, <3>1, <3>2, <3>4, <3>5 DEF PlaceWhole, MembersOf
    <2> QED
      BY <2>1, <2>2
  <1>13. ASSUME NEW m \in members' PROVE MemberWhole(m)'
    <2>1. CASE m \in members
      <3>1. MemberWhole(m)
        BY <2>1 DEF PlaceInv
      <3>2. \A n \in fresh : n.pin # m.pin
        BY <1>4, <1>8, <2>1
      <3> QED
        BY <1>2, <3>1, <3>2 DEF MemberWhole
    <2>2. CASE m \notin members
      <3>1. PICK p \in Wanted(r) : m = MemberRow(r, p)
        BY <1>2, <2>2
      <3>2. \A n \in members' : n.pin = m.pin => n = m
        BY <1>2, <1>4, <1>8, <3>1
      <3>3. r.op = "place" => row \in places' /\ PinDog[p] = r.dog
        BY <1>2, <1>5 DEF SeedsFit
      <3>4. \E q \in places' :
              /\ q.id = m.place /\ PinDog[m.pin] = q.dog
              /\ m.origin = "user_linked" => <<q.seeds, m.pin>> \in Near
        BY <1>2, <1>6, <1>8, <3>1, <3>3
      <3> QED
        BY <3>2, <3>4 DEF MemberWhole
    <2> QED
      BY <2>1, <2>2
  <1> QED
    BY <1>9, <1>10, <1>11, <1>12, <1>13 DEF PlaceInv

------------------------------------------------------------------------------
\* Waiting

\* Of two calls that wait, the one waited for asks for a higher pin.
LEMMA WaitsClimb ==
    ASSUME PlaceInv, NEW h \in PlaceHandlers, NEW d \in PlaceHandlers, NEW e \in PlaceHandlers,
           NEW p \in Pins, placing[h].at = "members", IsNext(h, p), WaitsFor(h, d), WaitsFor(d, e)
    PROVE  \E q \in Pins : placing[d].at = "members" /\ IsNext(d, q) /\ p < q
  <1>1. PICK pin \in Pins : IsNext(h, pin) /\ d \in MemberRivals(h, pin)
    BY DEF WaitsFor
  <1>2. pin = p
    <2>1. pin <= p /\ p <= pin
      BY <1>1 DEF IsNext
    <2>2. pin \in Nat /\ p \in Nat
      BY PinsAssumption
    <2> QED
      BY <2>1, <2>2
  <1>3. placing[d].at = "members" /\ p \in placing[d].inserted
    BY <1>1, <1>2 DEF MemberRivals, SameMemberKey, MemberRow
  <1>4. PICK q \in Pins : IsNext(d, q)
    BY <1>3 DEF WaitsFor
  <1>5. p < q
    BY <1>3, <1>4 DEF PlaceInv, Checked, IsNext
  <1> QED
    BY <1>3, <1>4, <1>5

LEMMA NoCircle == PlaceInv => NoCircularWait
  <1> SUFFICES ASSUME PlaceInv, NEW group \in SUBSET PlaceHandlers, group # {},
                      \A h \in group : \E d \in group : WaitsFor(h, d)
               PROVE  FALSE
    BY DEF NoCircularWait
  <1> DEFINE Asked == {p \in Pins : \E h \in group : placing[h].at = "members" /\ IsNext(h, p)}
             Above(p) == {q \in Pins : p < q}
             above == {Above(p) : p \in Asked}
  <1>1. above # {}
    <2>1. PICK h \in group, d \in group : WaitsFor(h, d)
      OBVIOUS
    <2>2. placing[d].at = "members"
      BY <2>1 DEF WaitsFor, PlaceRivals, MemberRivals
    <2>3. PICK e \in group : WaitsFor(d, e)
      OBVIOUS
    <2>4. \E p \in Pins : IsNext(d, p)
      BY <2>2, <2>3 DEF WaitsFor
    <2> QED
      BY <2>2, <2>4
  <1>2. above \subseteq FiniteSubsetsOf(Pins)
    BY PinsAssumption, FS_Subset DEF FiniteSubsetsOf
  <1>3. PICK x \in above : \A y \in above : <<y, x>> \notin StrictSubsetOrdering(Pins)
    <2> HIDE DEF above
    <2> QED
      BY <1>1, <1>2, WFMin, FS_StrictSubsetOrderingWellFounded
  <1>4. PICK p \in Asked : x = Above(p)
    BY <1>3
  <1>5. PICK h \in group : placing[h].at = "members" /\ IsNext(h, p)
    BY <1>4
  <1>6. PICK d \in group : WaitsFor(h, d)
    BY <1>5
  <1>7. PICK e \in group : WaitsFor(d, e)
    BY <1>6
  <1>8. PICK q \in Pins : placing[d].at = "members" /\ IsNext(d, q) /\ p < q
    BY <1>5, <1>6, <1>7, WaitsClimb
  <1>9. Above(q) \in above
    BY <1>6, <1>8
  <1>10. Above(q) \subseteq Above(p) /\ Above(q) # Above(p)
    <2>1. p \in Nat /\ q \in Nat /\ p < q
      BY <1>8, PinsAssumption
    <2>2. ASSUME NEW r \in Pins, q < r
          PROVE  p < r
      <3>1. r \in Nat
        BY PinsAssumption
      <3> QED
        BY <2>1, <2>2, <3>1
    <2>3. q \in Above(p) /\ q \notin Above(q)
      BY <2>1
    <2> QED
      BY <2>2, <2>3
  <1>11. <<Above(q), Above(p)>> \in StrictSubsetOrdering(Pins)
    BY <1>10 DEF StrictSubsetOrdering
  <1> QED
    BY <1>3, <1>4, <1>9, <1>11

------------------------------------------------------------------------------
\* The theorems

LEMMA PlaceInit_Inv == PlaceInit => PlaceInv
  BY DEF PlaceInit, PlaceInv, PlaceTypes, Placing, PlacePositions, Answers, NoPlacing,
         Checked, KeysHeld, ToldTrue

LEMMA PlaceNext_Inv == PlaceInv /\ [PlaceNext]_placeVars => PlaceInv'
  <1> SUFFICES ASSUME PlaceInv, [PlaceNext]_placeVars PROVE PlaceInv'
    OBVIOUS
  <1>1. CASE UNCHANGED placeVars
    BY <1>1, SMTT(30) DEF placeVars, PlaceInv, PlaceTypes, Placing, Checked, KeysHeld, ToldTrue,
                PlaceWhole, MemberWhole, MembersOf
  <1>2. CASE PlaceNext
    <2>1. PICK h \in PlaceHandlers :
            \/ Begin(h) \/ TakeView(h) \/ InsertPlace(h) \/ InsertMember(h)
            \/ LoseKey(h) \/ CommitPlace(h) \/ GiveUp(h) \/ Leave(h)
      BY <1>2 DEF PlaceNext
    <2>2. GiveUp(h) \/ Leave(h) => PlaceInv'
      BY ResetKeeps DEF GiveUp, Leave
    <2> QED
      BY <2>1, <2>2, BeginKeeps, TakeViewKeeps, InsertPlaceKeeps, InsertMemberKeeps,
         LoseKeyKeeps, CommitKeeps
  <1> QED
    BY <1>1, <1>2

\* The inductive invariant holds in every reachable state.
LEMMA PlacesInvariant == PlaceSpec => []PlaceInv
  BY PlaceInit_Inv, PlaceNext_Inv, PTL DEF PlaceSpec

\* Places, their members and what callers were told agree, however calls of
\* put_memory_place and put_memory_place_membership overlap, lose and die.
THEOREM PlacesStayWhole == PlaceSpec => []PlacesAreWhole
  BY PlacesInvariant, WholeParts, PTL

\* No circle of waiting calls ever closes (the ORDER BY of the seeds' insert).
THEOREM SomebodyMoves == PlaceSpec => []NoCircularWait
  BY PlacesInvariant, NoCircle, PTL
================================================================================
