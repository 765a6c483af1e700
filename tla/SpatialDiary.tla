----------------------------- MODULE SpatialDiary -----------------------------
(***************************************************************************)
(* The write endpoints of the spatial diary: offer a moment of a walk,     *)
(* note that the offer was seen or dismissed, attest it (and pin it),      *)
(* correct what was attested, publish a journal.  A call is one            *)
(* repeatable-read transaction: every SELECT after the first sees the      *)
(* database as it was then, also after the call has waited for a row lock. *)
(* Only unique constraints see what was committed meanwhile.  Rows are     *)
(* never updated or deleted by these calls, so a row lock once granted     *)
(* raises no serialization failure by itself.                              *)
(***************************************************************************)
EXTENDS Integers, FiniteSets

CONSTANTS
    Handlers,       \* calls that can be at work at once
    Requests,       \* the requests callers may send, any number of times
    Candidates,     \* <<walk, source>> of the moments that may be offered
    NoPinWalks,     \* walks whose drift forbids a place to be claimed
    MaxRevisions,   \* MAX_ATTESTATION_REVISIONS_PER_PIN
    Clock,          \* what the host's clock may show, in any order
    None

ASSUME RevisionsAssumption == MaxRevisions \in Nat \ {0}
ASSUME ClockAssumption == Clock \subseteq Nat
ASSUME RequestsAssumption == \A r \in Requests :
    /\ r.op \in {"offer", "interact", "attest", "correct", "publish"}
    /\ r.op \in {"interact", "attest"} => r.offer # None
    /\ r.op = "correct" => r.pin # None /\ r.supersedes # None
    /\ r.id # None
ASSUME NoneAssumption == None \notin {"200", "404", "409", "500"}

VARIABLES
    db,      \* the committed rows of each table
    lock,    \* who holds the row lock of an offer or a pin
    call     \* each handler's transaction
vars == <<db, lock, call>>

EmptyDB == [offer |-> {}, interaction |-> {}, attestation |-> {}, pin |-> {},
            journal |-> {}]

\* A handler's transaction; without a view outside of it.
Transaction(at, r, attempt, view, answer) ==
    [at |-> at, req |-> r, attempt |-> attempt, view |-> view, answer |-> answer]
NoCall == Transaction("idle", None, 0, EmptyDB, None)

Lockable == {r.offer : r \in {q \in Requests : q.op \in {"interact", "attest"}}}
       \union {r.pin : r \in {q \in Requests : q.op = "correct"}}

Init ==
    /\ db = EmptyDB
    /\ lock = [k \in Lockable |-> None]
    /\ call = [c \in Handlers |-> NoCall]

----------------------------------------------------------------------------
\* The rows a request asks for.

OfferRow(r) == [id |-> r.id, walk |-> r.walk, source |-> r.source]

InteractionRow(r) == [id |-> r.id, offer |-> r.offer, kind |-> r.kind]

AttestationRow(r, time) ==
    [id |-> r.id, offer |-> r.offer, save |-> r.pin # None, said |-> r.said,
     pin |-> None, supersedes |-> None, time |-> time]

CorrectionRow(r, time) ==
    [id |-> r.id, offer |-> None, save |-> TRUE, said |-> r.said,
     pin |-> r.pin, supersedes |-> r.supersedes, time |-> time]

PinRow(d, r) ==
    [id |-> r.pin, offer |-> r.offer, by |-> r.id,
     walk |-> (CHOOSE o \in d.offer : o.id = r.offer).walk]

JournalRow(r) == [id |-> r.id, walk |-> r.walk, pins |-> r.pins, text |-> r.text]

\* What a request stores when everything in view v allows it.
Insert(d, v, r, time) ==
    CASE r.op = "offer" -> [d EXCEPT !.offer = @ \union {OfferRow(r)}]
      [] r.op = "interact" -> [d EXCEPT !.interaction = @ \union {InteractionRow(r)}]
      [] r.op = "attest" ->
            [d EXCEPT !.attestation = @ \union {AttestationRow(r, time)},
                      !.pin = @ \union (IF r.pin = None THEN {} ELSE {PinRow(v, r)})]
      [] r.op = "correct" -> [d EXCEPT !.attestation = @ \union {CorrectionRow(r, time)}]
      [] r.op = "publish" -> [d EXCEPT !.journal = @ \union {JournalRow(r)}]

----------------------------------------------------------------------------
\* Repeating a request that is already stored.

\* The id of the request names a row already.
Known(d, r) ==
    \E row \in (CASE r.op = "offer" -> d.offer
                  [] r.op = "interact" -> d.interaction
                  [] r.op \in {"attest", "correct"} -> d.attestation
                  [] r.op = "publish" -> d.journal) : row.id = r.id

\* The stored content is the content asked for; times are the server's.
Same(d, r) ==
    CASE r.op = "offer" -> OfferRow(r) \in d.offer
      [] r.op = "interact" -> InteractionRow(r) \in d.interaction
      [] r.op = "attest" ->
            /\ \E a \in d.attestation : a = AttestationRow(r, a.time)
            /\ {p.id : p \in {q \in d.pin : q.by = r.id}} = {r.pin} \ {None}
      [] r.op = "correct" -> \E a \in d.attestation : a = CorrectionRow(r, a.time)
      [] r.op = "publish" -> JournalRow(r) \in d.journal

Repeated(d, r) == IF Same(d, r) THEN "200" ELSE "409"

----------------------------------------------------------------------------
\* What the handlers look up in their view.

\* offer_dog_id and pin_dog_id: the row the call is about.
Unknown(d, r) ==
    \/ r.op \in {"interact", "attest"} /\ \A o \in d.offer : o.id # r.offer
    \/ r.op = "correct" /\ \A p \in d.pin : p.id # r.pin

LockOf(r) ==
    CASE r.op \in {"interact", "attest"} -> r.offer
      [] r.op = "correct" -> r.pin
      [] OTHER -> None

Closed(d, offer) ==
    \E i \in d.interaction : i.offer = offer /\ i.kind \in {"dismissed", "expired"}

Attested(d, offer) == \E a \in d.attestation : a.offer = offer

\* Everything attested about a pin, from the row that made it onwards.
History(d, pin) ==
    {a \in d.attestation : a.pin = pin \/ \E p \in d.pin : p.id = pin /\ p.by = a.id}

\* The last row of the chain.
IsHead(d, pin, a) ==
    /\ a \in History(d, pin)
    /\ \A b \in History(d, pin) : b.supersedes # a.id

OfferRefused(v, r) ==
    \/ \E o \in v.offer : o.walk = r.walk /\ o.source = r.source
    \/ <<r.walk, r.source>> \notin Candidates

InteractionRefused(v, r) ==
    \/ Closed(v, r.offer)
    \/ Attested(v, r.offer)
    \/ \E i \in v.interaction : i.offer = r.offer /\ i.kind = r.kind

AttestationRefused(v, r) ==
    \/ Closed(v, r.offer)
    \/ Attested(v, r.offer)
    \/ r.pin # None /\ \E o \in v.offer : o.id = r.offer /\ o.walk \in NoPinWalks

\* Bug: any row of the chain may be superseded.
HeadUnchecked(v, r, time) ==
    \/ Cardinality(History(v, r.pin)) >= MaxRevisions
    \/ ~\E a \in History(v, r.pin) : a.id = r.supersedes /\ time >= a.time

CorrectionRefused(v, r, time) ==
    \/ Cardinality(History(v, r.pin)) >= MaxRevisions
    \/ ~\E a \in v.attestation :
          IsHead(v, r.pin, a) /\ a.id = r.supersedes /\ time >= a.time

JournalRefused(v, r) ==
    ~(r.pins \subseteq {p.id : p \in {q \in v.pin : q.walk = r.walk}})

Refused(v, r, time) ==
    CASE r.op = "offer" -> OfferRefused(v, r)
      [] r.op = "interact" -> InteractionRefused(v, r)
      [] r.op = "attest" -> AttestationRefused(v, r)
      [] r.op = "correct" -> CorrectionRefused(v, r, time)
      [] r.op = "publish" -> JournalRefused(v, r)

\* Bug: only ids are unique.
IdTaken(r) ==
    CASE r.op = "offer" -> \E o \in db.offer : o.id = r.id
      [] r.op = "interact" -> \E i \in db.interaction : i.id = r.id
      [] r.op \in {"attest", "correct"} -> \E a \in db.attestation : a.id = r.id
      [] r.op = "publish" -> \E j \in db.journal : j.id = r.id

\* A committed row takes a unique key of the request's row.
KeyTaken(r) ==
    CASE r.op = "offer" ->
            \E o \in db.offer : o.id = r.id \/ (o.walk = r.walk /\ o.source = r.source)
      [] r.op = "interact" ->
            \E i \in db.interaction :
                i.id = r.id \/ (i.offer = r.offer /\ i.kind = r.kind)
      [] r.op = "attest" ->
            \E a \in db.attestation : a.id = r.id \/ a.offer = r.offer
      [] r.op = "correct" ->
            \E a \in db.attestation : a.id = r.id \/ a.supersedes = r.supersedes
      [] r.op = "publish" -> \E j \in db.journal : j.id = r.id

PinTaken(d, r) == r.op = "attest" /\ \E p \in d.pin : p.id = r.pin

----------------------------------------------------------------------------
\* The life of a call.

\* Bug: the transaction is left open after the answer.
LockKept(c) == lock

Release(c) == [k \in Lockable |-> IF lock[k] = c THEN None ELSE lock[k]]

\* Leaving the handler ends its transaction and frees its lock.
Answer(c, status) ==
    /\ call' = [call EXCEPT ![c] =
                   Transaction("done", call[c].req, call[c].attempt, EmptyDB, status)]
    /\ lock' = Release(c)

Arrive(c) ==
    /\ call[c].at = "idle"
    /\ \E r \in Requests :
          call' = [call EXCEPT ![c] = Transaction("open", r, 1, EmptyDB, None)]
    /\ UNCHANGED <<db, lock>>

\* The first SELECT fixes the view.  A request already stored, or about an
\* offer or a pin that is not in the view, is answered from it at once.
Open(c) ==
    LET r == call[c].req IN
    /\ call[c].at = "open"
    /\ CASE Unknown(db, r) -> Answer(c, "404")
         [] ~Unknown(db, r) /\ Known(db, r) -> Answer(c, Repeated(db, r))
         [] OTHER -> /\ call' = [call EXCEPT ![c] =
                             Transaction(IF LockOf(r) = None THEN "write" ELSE "wait",
                                         r, call[c].attempt, db, None)]
                     /\ UNCHANGED lock
    /\ UNCHANGED db

\* SELECT ... FOR UPDATE of the offer or of the pin.
Lock(c) ==
    LET k == LockOf(call[c].req) IN
    /\ call[c].at = "wait"
    /\ lock[k] = None
    /\ lock' = [lock EXCEPT ![k] = c]
    /\ call' = [call EXCEPT ![c].at = "write"]
    /\ UNCHANGED db

\* The checks refuse, all of them on the view.
Refuse(c) ==
    /\ call[c].at = "write"
    /\ \E time \in Clock : Refused(call[c].view, call[c].req, time)
    /\ Answer(c, "409")
    /\ UNCHANGED db

\* The insert meets a key the view does not show: 40001, or 23505 for a key
\* that ON CONFLICT does not name.  A pin the view does show is a refusal.
Clash(c) ==
    LET r == call[c].req
        v == call[c].view
    IN
    /\ call[c].at = "write"
    /\ \E time \in Clock : ~Refused(v, r, time)
    /\ KeyTaken(r) \/ PinTaken(db, r)
    /\ IF ~KeyTaken(r) /\ PinTaken(v, r) THEN Answer(c, "409")
       ELSE IF r.op = "correct" /\ call[c].attempt = 1
            THEN /\ call' = [call EXCEPT ![c] = Transaction("open", r, 2, EmptyDB, None)]
                 /\ lock' = Release(c)
            ELSE Answer(c, "500")
    /\ UNCHANGED db

\* The insert succeeds and the transaction commits.
Write(c) ==
    LET r == call[c].req
        v == call[c].view
    IN
    /\ call[c].at = "write"
    /\ ~KeyTaken(r) /\ ~PinTaken(db, r)
    /\ \E time \in Clock : ~Refused(v, r, time) /\ db' = Insert(db, v, r, time)
    /\ Answer(c, "200")

\* The handler dies or its caller goes away: nothing of it stays.
Abort(c) ==
    /\ call[c].at \in {"open", "wait", "write"}
    /\ call' = [call EXCEPT ![c] = NoCall]
    /\ lock' = Release(c)
    /\ UNCHANGED db

Return(c) ==
    /\ call[c].at = "done"
    /\ call' = [call EXCEPT ![c] = NoCall]
    /\ UNCHANGED <<db, lock>>

Next ==
    \E c \in Handlers :
        \/ Arrive(c)
        \/ Open(c)
        \/ Lock(c)
        \/ Refuse(c)
        \/ Clash(c)
        \/ Write(c)
        \/ Abort(c)
        \/ Return(c)

Spec == Init /\ [][Next]_vars
==============================================================================
