--------------------------- MODULE WalkServerProofs ---------------------------
(***************************************************************************)
(* The properties of the walk endpoints, for every set of walks, handlers  *)
(* and requests.  The argument is the row lock of the session: a handler   *)
(* past LockSession holds it (LocksHeld), so the session, the positions    *)
(* and the facts it decided on are those in the tables when it stores its  *)
(* decision (Handled), and every other handler at work is at another walk. *)
(* The second half adds the two programs that upload walks: a client asks  *)
(* to finish a walk only after every batch of it was acknowledged          *)
(* (ClientAt), and an acknowledged position is not lost.                   *)
(***************************************************************************)
EXTENDS WalkUpload, WalkServerProperties, TLAPS, FiniteSetTheorems

\* The places of a handler that holds the lock of its walk.
Locked == {"append", "finish", "finalize"}

\* What the private variables of a handler mean at each place.
Handled(c) ==
    /\ at[c] # "free" => call[c] \in Requests
    /\ at[c] \in Locked => rowLock[call[c].walk] = c /\ session[call[c].walk] # None
    /\ at[c] \in {"append", "finish"} => work[c] = session[call[c].walk]
    /\ at[c] = "append" => call[c].op = "fixes"
    /\ at[c] \in {"finish", "finalize"} => call[c].op = "finish"
    /\ at[c] = "finalize" =>
         /\ work[c] \in Facts
         /\ facts[call[c].walk] = None
         /\ work[c].from = StoredFixes(call[c].walk)
    /\ at[c] = "read_facts" =>
         /\ call[c].op = "read"
         /\ work[c] \in Session
         /\ work[c].state = "purged" => facts[call[c].walk] # None

\* A lock belongs to a handler that works on that walk.
LocksHeld == \A w \in Walks, c \in Calls :
    rowLock[w] = c => at[c] \in Locked /\ call[c].walk = w

\* A walk that was never started has nothing.
Unbegun(w) == session[w] = None => walk_fix[w] = {} /\ facts[w] = None /\ acked[w] = {}

\* The properties of WalkServerProperties, walk by walk.
AckedCount(w) ==
    acked[w] \subseteq (IF facts[w] = None THEN StoredFixes(w) ELSE facts[w].from)

RawGone(w) == session[w] # None =>
    IF facts[w] = None THEN session[w].state = "open"
    ELSE session[w].state = "purged" /\ walk_fix[w] = {}

Dense(w) == session[w] # None /\ facts[w] = None =>
    /\ {s.seq : s \in walk_fix[w]} = 0 .. (session[w].fix_count - 1)
    /\ \A s, t \in walk_fix[w] :
         s.seq = t.seq \/ s.fix.client_seq = t.fix.client_seq => s = t

Known(w) == StoredFixes(w) \union (IF facts[w] = None THEN {} ELSE facts[w].from)

OneKind(w) ==
    /\ \A f, g \in Known(w) : f.mock = g.mock
    /\ \A f \in Known(w) : session[w].origin = Origin(f.mock)

WalkInv(w) == Unbegun(w) /\ AckedCount(w) /\ RawGone(w) /\ Dense(w) /\ OneKind(w)

\* The inductive invariant.
ServerInv ==
    /\ TypeOK
    /\ answer = [c \in Calls |-> answer[c]]
    /\ LocksHeld
    /\ \A c \in Calls : Handled(c)
    /\ \A w \in Walks : WalkInv(w)
    /\ FinishAnswersAgree
    /\ PurgedReadsHaveFacts

------------------------------------------------------------------------------
\* Requests, positions and locks

\* What every handler may rely on about its request (WellFormed).
LEMMA RequestParts ==
    ASSUME NEW r \in Requests
    PROVE  /\ r.walk \in Walks /\ r # None
           /\ r.op \in {"start", "fixes", "finish", "read"}
           /\ r.op = "start" => r.dog \in Dogs /\ r.started \in Nat
           /\ r.op = "fixes" => /\ r.batch \in SUBSET Fix /\ r.batch # {}
                                /\ IsFiniteSet(r.batch)
                                /\ \A f, g \in r.batch : f.client_seq = g.client_seq => f = g
           /\ r.op = "finish" => r.ended \in Nat
  <1>1. r \in Request /\ WellFormed(r)
    BY RequestsAssumption
  <1>2. r # None
    BY <1>1, NullAssumption
  <1> QED
    BY <1>1, <1>2 DEF Request, WellFormed

\* None is told from everything that is stored or held.
LEMMA NoneApart ==
    /\ \A s \in Session : s # None
    /\ \A f \in Facts : f # None
    /\ \A c \in Calls : c # None
  BY NullAssumption

\* What Answer does (the end of every transaction).
LEMMA AnswerFrees ==
    ASSUME TypeOK, answer = [c \in Calls |-> answer[c]], NEW c \in Calls, NEW reply,
           Answer(c, reply)
    PROVE  /\ at' \in [Calls -> Positions] /\ at'[c] = "answered"
           /\ call' = call
           /\ work' \in [Calls -> Session \union Facts \union {None}]
           /\ answer' = [d \in Calls |-> answer'[d]] /\ answer'[c] = reply
           /\ rowLock' \in [Walks -> Calls \union {None}]
           /\ \A w \in Walks : rowLock'[w] # c
           /\ \A w \in Walks : rowLock[w] # c => rowLock'[w] = rowLock[w]
           /\ \A d \in Calls \ {c} : at'[d] = at[d] /\ work'[d] = work[d] /\ answer'[d] = answer[d]
           /\ \A w \in Walks, d \in Calls \ {c} : rowLock'[w] = d <=> rowLock[w] = d
  <1>1. at' \in [Calls -> Positions] /\ at'[c] = "answered"
        /\ \A d \in Calls \ {c} : at'[d] = at[d]
    BY DEF TypeOK, Answer, Positions
  <1>2. work' \in [Calls -> Session \union Facts \union {None}]
        /\ \A d \in Calls \ {c} : work'[d] = work[d]
    BY DEF TypeOK, Answer
  <1>3. answer' = [d \in Calls |-> answer'[d]] /\ answer'[c] = reply
        /\ \A d \in Calls \ {c} : answer'[d] = answer[d]
    BY DEF Answer
  <1>4. rowLock' \in [Walks -> Calls \union {None}]
        /\ \A w \in Walks : rowLock'[w] = IF rowLock[w] = c THEN None ELSE rowLock[w]
    BY DEF TypeOK, Answer
  <1>5. \A d \in Calls : d # None
    BY NoneApart
  <1> QED
    BY <1>1, <1>2, <1>3, <1>4, <1>5 DEF Answer

\* A handler that neither waits nor holds the lock can be anywhere else.
Moves(c) == \A d \in Calls \ {c} :
    /\ at'[d] = at[d] /\ call'[d] = call[d] /\ work'[d] = work[d]
    /\ \A w \in Walks : rowLock'[w] = d <=> rowLock[w] = d

\* What may happen to a walk behind the back of the handlers that are not c.
Spares(c, w) ==
    /\ facts[w] # None => facts'[w] # None
    /\ rowLock[w] # c =>
         /\ session[w] # None => session'[w] = session[w]
         /\ walk_fix'[w] = walk_fix[w]
         /\ facts'[w] = facts[w]

\* The other handlers do not notice a step of c.
LEMMA OthersKept ==
    ASSUME ServerInv, NEW c \in Calls, Moves(c), \A w \in Walks : Spares(c, w),
           NEW d \in Calls \ {c}
    PROVE  /\ Handled(d)'
           /\ \A w \in Walks : rowLock'[w] = d => at'[d] \in Locked /\ call'[d].walk = w
  <1> USE DEF ServerInv
  <1>1. Handled(d)
    OBVIOUS
  <1>2. at'[d] = at[d] /\ call'[d] = call[d] /\ work'[d] = work[d]
        /\ \A w \in Walks : rowLock'[w] = d <=> rowLock[w] = d
    BY DEF Moves
  <1>3. CASE at[d] = "free"
    BY <1>2, <1>3 DEF Handled, Locked, LocksHeld
  <1>4. CASE at[d] # "free"
    <2>1. PICK w \in Walks : w = call[d].walk
      BY <1>1, <1>4, RequestParts DEF Handled
    <2>2. Spares(c, w)
      OBVIOUS
    <2>3. at[d] \in Locked => rowLock[w] = d /\ rowLock[w] # c /\ session[w] # None
      BY <1>1, <2>1 DEF Handled
    <2>4. at[d] \in Locked =>
            session'[w] = session[w] /\ walk_fix'[w] = walk_fix[w] /\ facts'[w] = facts[w]
      BY <2>2, <2>3 DEF Spares
    <2>5. at[d] = "read_facts" => (facts[w] # None => facts'[w] # None)
      BY <2>2 DEF Spares
    <2>6. at[d] \in Locked => rowLock'[w] = d
      BY <1>2, <2>3
    <2>7. call'[d].walk = w
      BY <1>2, <2>1
    <2>8. Handled(d)'
      BY <1>1, <1>2, <2>1, <2>3, <2>4, <2>5, <2>6, <2>7 DEF Handled, Locked, StoredFixes
    <2> QED
      BY <1>2, <2>8 DEF LocksHeld
  <1> QED
    BY <1>3, <1>4

\* A walk that a step leaves alone stays as it should be.
LEMMA WalkSpared ==
    ASSUME NEW w, WalkInv(w), session'[w] = session[w], walk_fix'[w] = walk_fix[w],
           facts'[w] = facts[w], acked'[w] = acked[w]
    PROVE  WalkInv(w)'
  BY DEF WalkInv, Unbegun, AckedCount, RawGone, Dense, OneKind, Known, StoredFixes

------------------------------------------------------------------------------
\* The end of a transaction

\* A handler that answers keeps the invariant if what it wrote is in order and
\* it spared the others.
LEMMA AnsweredKeeps ==
    ASSUME ServerInv, NEW c \in Calls, NEW reply, Answer(c, reply), at[c] # "free",
           \A w \in Walks : Spares(c, w) /\ WalkInv(w)',
           session' \in [Walks -> Session \union {None}],
           walk_fix' \in [Walks -> SUBSET Stored],
           facts' \in [Walks -> Facts \union {None}],
           acked' \in [Walks -> SUBSET Fix],
           told' \subseteq [walk: Walks, facts: Facts],
           FinishAnswersAgree',
           call[c].op = "read" /\ reply.status = 200 =>
             (reply.state = "purged" => reply.facts # None)
    PROVE  ServerInv'
  <1>1. /\ TypeOK
        /\ answer = [d \in Calls |-> answer[d]]
        /\ \A d \in Calls : Handled(d)
        /\ PurgedReadsHaveFacts
    BY DEF ServerInv
  <1>2. /\ at' \in [Calls -> Positions] /\ at'[c] = "answered"
        /\ call' = call
        /\ work' \in [Calls -> Session \union Facts \union {None}]
        /\ answer' = [d \in Calls |-> answer'[d]] /\ answer'[c] = reply
        /\ rowLock' \in [Walks -> Calls \union {None}]
        /\ \A w \in Walks : rowLock'[w] # c
        /\ \A d \in Calls \ {c} : at'[d] = at[d] /\ work'[d] = work[d] /\ answer'[d] = answer[d]
        /\ \A w \in Walks, d \in Calls \ {c} : rowLock'[w] = d <=> rowLock[w] = d
    BY <1>1, AnswerFrees
  <1>3. TypeOK'
    BY <1>1, <1>2 DEF TypeOK
  <1>4. Moves(c)
    BY <1>2 DEF Moves
  <1>5. \A d \in Calls \ {c} :
          /\ Handled(d)'
          /\ \A w \in Walks : rowLock'[w] = d => at'[d] \in Locked /\ call'[d].walk = w
    BY <1>4, OthersKept
  <1>6. Handled(c)'
    BY <1>1, <1>2 DEF Handled, Locked
  <1>7. LocksHeld'
    BY <1>2, <1>5 DEF LocksHeld
  <1>8. PurgedReadsHaveFacts'
    BY <1>1, <1>2 DEF PurgedReadsHaveFacts
  <1> QED
    BY <1>2, <1>3, <1>5, <1>6, <1>7, <1>8 DEF ServerInv

\* A transaction that ends without having written keeps the invariant.
LEMMA RefusedKeeps ==
    ASSUME ServerInv, NEW c \in Calls, NEW code, code # 200, Refuse(c, code), at[c] # "free"
    PROVE  ServerInv'
  <1>1. Answer(c, Status(code)) /\ Status(code).status # 200
    BY DEF Refuse, Status
  <1>2. UNCHANGED <<session, walk_fix, facts, acked, told>>
    BY DEF Refuse, tables
  <1>3. \A w \in Walks : Spares(c, w) /\ WalkInv(w)'
    BY <1>2, WalkSpared DEF Spares, ServerInv
  <1>4. FinishAnswersAgree' /\ told' \subseteq [walk: Walks, facts: Facts]
    BY <1>2 DEF FinishAnswersAgree, ServerInv, TypeOK
  <1> HIDE DEF Status
  <1> QED
    BY <1>1, <1>2, <1>3, <1>4, AnsweredKeeps DEF ServerInv, TypeOK

\* The same for an answer that may be 200, of a call that is not a read.
LEMMA ToldKeeps ==
    ASSUME ServerInv, NEW c \in Calls, NEW reply, Answer(c, reply), at[c] # "free",
           UNCHANGED tables,
           told' \subseteq [walk: Walks, facts: Facts], FinishAnswersAgree',
           call[c].op = "read" /\ reply.status = 200 =>
             (reply.state = "purged" => reply.facts # None)
    PROVE  ServerInv'
  <1>1. UNCHANGED <<session, walk_fix, facts, acked>>
    BY DEF tables
  <1>2. \A w \in Walks : Spares(c, w) /\ WalkInv(w)'
    BY <1>1, WalkSpared DEF Spares, ServerInv
  <1> QED
    BY <1>1, <1>2, AnsweredKeeps DEF ServerInv, TypeOK

------------------------------------------------------------------------------
\* Steps inside a transaction

\* A step that only moves its own handler, to a place where it may be.
LEMMA WorkingKeeps ==
    ASSUME ServerInv, NEW c \in Calls, Moves(c), UNCHANGED <<tables, told>>, TypeOK',
           answer' = [d \in Calls |-> answer'[d]],
           \A d \in Calls \ {c} : answer'[d] = answer[d],
           at'[c] # "answered", Handled(c)',
           \A w \in Walks : rowLock'[w] = c => at'[c] \in Locked /\ call'[c].walk = w
    PROVE  ServerInv'
  <1>1. UNCHANGED <<session, walk_fix, facts, acked, told>>
    BY DEF tables
  <1>2. \A w \in Walks : Spares(c, w) /\ WalkInv(w)'
    BY <1>1, WalkSpared DEF Spares, ServerInv
  <1>3. \A d \in Calls \ {c} :
          /\ Handled(d)'
          /\ \A w \in Walks : rowLock'[w] = d => at'[d] \in Locked /\ call'[d].walk = w
    BY <1>2, OthersKept
  <1>4. LocksHeld'
    BY <1>3 DEF LocksHeld
  <1>5. PurgedReadsHaveFacts'
    BY <1>1 DEF PurgedReadsHaveFacts, Moves, ServerInv
  <1>6. FinishAnswersAgree'
    BY <1>1 DEF FinishAnswersAgree, ServerInv
  <1> QED
    BY <1>2, <1>3, <1>4, <1>5, <1>6 DEF ServerInv

\* A free or answered handler is not in the way of a lock.
LEMMA ArriveKeeps ==
    ASSUME ServerInv, NEW c \in Calls, NEW r \in Requests, Arrive(c, r) PROVE ServerInv'
  <1>1. TypeOK /\ LocksHeld /\ answer = [d \in Calls |-> answer[d]]
    BY DEF ServerInv
  <1>2. TypeOK'
    BY <1>1 DEF Arrive, TypeOK, Positions, tables
  <1>3. Moves(c)
    BY <1>1 DEF Arrive, Moves, TypeOK
  <1>4. at'[c] = "arrived" /\ call'[c] = r /\ \A w \in Walks : rowLock'[w] # c
    BY <1>1 DEF Arrive, TypeOK, LocksHeld, Locked
  <1>5. Handled(c)'
    BY <1>4 DEF Handled, Locked
  <1> QED
    BY <1>1, <1>2, <1>3, <1>4, <1>5, WorkingKeeps DEF Arrive

LEMMA DismissKeeps ==
    ASSUME ServerInv, NEW c \in Calls, Dismiss(c) PROVE ServerInv'
  <1>1. TypeOK /\ LocksHeld /\ answer = [d \in Calls |-> answer[d]]
    BY DEF ServerInv
  <1>2. TypeOK'
    BY <1>1 DEF Dismiss, TypeOK, Positions, tables
  <1>3. Moves(c)
    BY <1>1 DEF Dismiss, Moves, TypeOK
  <1>4. at'[c] = "free" /\ \A w \in Walks : rowLock'[w] # c
    BY <1>1 DEF Dismiss, TypeOK, LocksHeld, Locked
  <1>5. Handled(c)'
    BY <1>4 DEF Handled, Locked
  <1>6. answer' = [d \in Calls |-> answer'[d]] /\ \A d \in Calls \ {c} : answer'[d] = answer[d]
    BY <1>1 DEF Dismiss
  <1> QED
    BY <1>2, <1>3, <1>4, <1>5, <1>6, WorkingKeeps DEF Dismiss

\* The lock is taken when nobody has it, and the session is read under it.
LEMMA LockSessionKeeps ==
    ASSUME ServerInv, NEW c \in Calls, LockSession(c) PROVE ServerInv'
  <1>1. /\ TypeOK /\ LocksHeld /\ answer = [d \in Calls |-> answer[d]]
        /\ Handled(c)
    BY DEF ServerInv
  <1>2. PICK w \in Walks : w = call[c].walk
    BY <1>1, RequestParts DEF Handled, LockSession, Arrived
  <1>3. /\ session[w] # None /\ rowLock[w] = None
        /\ at[c] = "arrived" /\ call[c].op \in {"fixes", "finish"}
        /\ rowLock' = [rowLock EXCEPT ![w] = c]
        /\ at' = [at EXCEPT ![c] = IF call[c].op = "fixes" THEN "append" ELSE "finish"]
        /\ work' = [work EXCEPT ![c] = session[w]]
        /\ UNCHANGED <<session, walk_fix, facts, acked, call, answer, told>>
    BY <1>2 DEF LockSession, Arrived, Unlocked, tables
  <1>4. TypeOK'
    BY <1>1, <1>3 DEF TypeOK, Positions
  <1>5. \A d \in Calls : d # None
    BY NoneApart
  <1>6. Moves(c)
    BY <1>1, <1>3, <1>5 DEF Moves, TypeOK
  <1>7. /\ at'[c] = IF call[c].op = "fixes" THEN "append" ELSE "finish"
        /\ rowLock'[w] = c /\ work'[c] = session[w]
    BY <1>1, <1>3 DEF TypeOK
  <1>8. \A v \in Walks : rowLock'[v] = c => v = w
    BY <1>1, <1>3 DEF LocksHeld, Locked, TypeOK
  <1>9. Handled(c)'
    BY <1>1, <1>2, <1>3, <1>7 DEF Handled, Locked
  <1>10. \A v \in Walks : rowLock'[v] = c => at'[c] \in Locked /\ call'[c].walk = v
    BY <1>2, <1>3, <1>7, <1>8 DEF Locked
  <1> QED
    BY <1>1, <1>3, <1>4, <1>6, <1>7, <1>9, <1>10, WorkingKeeps DEF tables

\* What is derived is derived from all that is stored, which cannot grow while
\* the lock is held (compute_facts, before the context provider is awaited).
LEMMA ComputeFactsKeeps ==
    ASSUME ServerInv, NEW c \in Calls, ComputeFacts(c) PROVE ServerInv'
  <1>1. /\ TypeOK /\ LocksHeld /\ answer = [d \in Calls |-> answer[d]]
        /\ Handled(c)
    BY DEF ServerInv
  <1>2. PICK w \in Walks : w = call[c].walk
    BY <1>1, RequestParts DEF Handled, ComputeFacts
  <1>3. /\ at[c] = "finish" /\ facts[w] = None /\ call[c].op = "finish"
        /\ call[c].ended \in Nat /\ rowLock[w] = c
        /\ work[c] = session[w] /\ session[w] # None
    BY <1>1, <1>2, RequestParts DEF ComputeFacts, Handled, Locked
  <1> DEFINE derived == [dog |-> work[c].dog, started |-> work[c].started,
                         ended |-> call[c].ended, from |-> StoredFixes(w)]
  <1>4. /\ work' = [work EXCEPT ![c] = derived]
        /\ at' = [at EXCEPT ![c] = "finalize"]
        /\ UNCHANGED <<session, walk_fix, facts, acked, rowLock, call, answer, told>>
    BY <1>2 DEF ComputeFacts, tables
  <1>5. StoredFixes(w) \in SUBSET Fix
    BY <1>1 DEF StoredFixes, TypeOK, Stored
  <1>6. derived \in Facts
    <2>1. work[c] \in Session
      BY <1>1, <1>3 DEF TypeOK
    <2>2. work[c].started <= call[c].ended
      BY DEF ComputeFacts, EndsAfterStart
    <2> QED
      BY <1>3, <1>5, <2>1, <2>2 DEF Facts, Session
  <1>7. derived.from = StoredFixes(w)
    OBVIOUS
  <1> HIDE DEF derived
  <1>8. TypeOK'
    BY <1>1, <1>4, <1>6 DEF TypeOK, Positions
  <1>9. Moves(c)
    BY <1>1, <1>4 DEF Moves, TypeOK
  <1>10. at'[c] = "finalize" /\ work'[c] = derived
    BY <1>1, <1>4 DEF TypeOK
  <1>11. Handled(c)'
    BY <1>1, <1>2, <1>3, <1>4, <1>6, <1>7, <1>10 DEF Handled, Locked, StoredFixes
  <1>12. \A v \in Walks : rowLock'[v] = c => at'[c] \in Locked /\ call'[c].walk = v
    BY <1>1, <1>4, <1>10 DEF LocksHeld, Locked
  <1> QED
    BY <1>1, <1>4, <1>8, <1>9, <1>10, <1>11, <1>12, WorkingKeeps DEF tables

\* A session that is read as purged has its facts by then.
LEMMA ReadSessionKeeps ==
    ASSUME ServerInv, NEW c \in Calls, ReadSession(c) PROVE ServerInv'
  <1>1. /\ TypeOK /\ LocksHeld /\ answer = [d \in Calls |-> answer[d]]
        /\ Handled(c)
    BY DEF ServerInv
  <1>2. PICK w \in Walks : w = call[c].walk
    BY <1>1, RequestParts DEF Handled, ReadSession, Arrived
  <1>3. /\ session[w] # None /\ at[c] = "arrived" /\ call[c].op = "read"
        /\ work' = [work EXCEPT ![c] = session[w]]
        /\ at' = [at EXCEPT ![c] = "read_facts"]
        /\ UNCHANGED <<session, walk_fix, facts, acked, rowLock, call, answer, told>>
    BY <1>2 DEF ReadSession, Arrived, tables
  <1>4. TypeOK'
    BY <1>1, <1>3 DEF TypeOK, Positions
  <1>5. Moves(c)
    BY <1>1, <1>3 DEF Moves, TypeOK
  <1>6. at'[c] = "read_facts" /\ work'[c] = session[w]
    BY <1>1, <1>3 DEF TypeOK
  <1>7. session[w] \in Session /\ (session[w].state = "purged" => facts[w] # None)
    BY <1>1, <1>3 DEF ServerInv, WalkInv, RawGone, TypeOK
  <1>8. Handled(c)'
    BY <1>1, <1>2, <1>3, <1>6, <1>7 DEF Handled, Locked
  <1>9. \A v \in Walks : rowLock'[v] # c
    BY <1>1, <1>3 DEF LocksHeld, Locked
  <1> QED
    BY <1>1, <1>3, <1>4, <1>5, <1>6, <1>8, <1>9, WorkingKeeps DEF tables

------------------------------------------------------------------------------
\* Steps that write

\* A new session has nothing yet.
LEMMA StartSessionKeeps ==
    ASSUME ServerInv, NEW c \in Calls, StartSession(c) PROVE ServerInv'
  <1>1. TypeOK /\ Handled(c) /\ FinishAnswersAgree /\ \A v \in Walks : WalkInv(v)
    BY DEF ServerInv
  <1>2. PICK w \in Walks : w = call[c].walk
    BY <1>1, RequestParts DEF Handled, StartSession, Arrived
  <1>3. at[c] = "arrived" /\ call[c].op = "start" /\ session[w] = None
        /\ call[c].dog \in Dogs /\ call[c].started \in Nat
    BY <1>1, <1>2, RequestParts DEF StartSession, Arrived, Handled
  <1> DEFINE row == [dog |-> call[c].dog, started |-> call[c].started, state |-> "open",
                     origin |-> "unknown", fix_count |-> 0]
  <1>4. /\ session' = [session EXCEPT ![w] = row]
        /\ Answer(c, Status(200))
        /\ UNCHANGED <<walk_fix, facts, acked, told>>
    BY <1>2 DEF StartSession
  <1>5. row \in Session /\ row.state = "open" /\ row.fix_count = 0
    BY <1>3 DEF Session
  <1> HIDE DEF row
  <1>6. session' \in [Walks -> Session \union {None}] /\ session'[w] = row
        /\ \A v \in Walks \ {w} : session'[v] = session[v]
    BY <1>1, <1>4, <1>5 DEF TypeOK
  <1>7. \A v \in Walks : Spares(c, v)
    BY <1>3, <1>4, <1>6 DEF Spares
  <1>8. \A v \in Walks \ {w} : WalkInv(v)'
    BY <1>1, <1>4, <1>6, WalkSpared
  <1>9. walk_fix'[w] = {} /\ facts'[w] = None /\ acked'[w] = {}
    BY <1>1, <1>3, <1>4 DEF WalkInv, Unbegun
  <1>10. WalkInv(w)'
    <2>1. row # None
      BY <1>5, NoneApart
    <2>2. StoredFixes(w)' = {}
      BY <1>9 DEF StoredFixes
    <2>3. 0 .. (row.fix_count - 1) = {}
      BY <1>5
    <2>4. Dense(w)'
      BY <1>6, <1>9, <2>3 DEF Dense
    <2>5. OneKind(w)'
      BY <1>9, <2>2 DEF OneKind, Known
    <2> QED
      BY <1>5, <1>6, <1>9, <2>1, <2>4, <2>5 DEF WalkInv, Unbegun, AckedCount, RawGone
  <1>11. FinishAnswersAgree'
    BY <1>1, <1>4 DEF FinishAnswersAgree
  <1>12. \A v \in Walks : WalkInv(v)'
    BY <1>8, <1>10
  <1> QED
    BY <1>1, <1>3, <1>4, <1>6, <1>7, <1>11, <1>12, AnsweredKeeps DEF TypeOK

\* The rows a batch adds continue the numbers without a gap (append_fixes).
LEMMA NumbersContinue ==
    ASSUME NEW row \in Session, NEW new, IsFiniteSet(new), new \subseteq Fix,
           \A f, g \in new : f.client_seq = g.client_seq => f = g
    PROVE  LET rows == Numbered(row, new)
               n == Cardinality(new)
           IN  /\ n \in Nat
               /\ rows \in SUBSET Stored
               /\ {r.fix : r \in rows} = new
               /\ {r.seq : r \in rows} = row.fix_count .. (row.fix_count + n - 1)
               /\ \A r, t \in rows : r.seq = t.seq => r = t
               /\ \A r, t \in rows : r.fix = t.fix => r = t
  <1> DEFINE n == Cardinality(new)
  <1> DEFINE below(f) == {g \in new : g.client_seq < f.client_seq}
  <1> DEFINE place == [f \in new |-> Cardinality(below(f))]
  <1> DEFINE rows == Numbered(row, new)
  <1>1. n \in Nat /\ row.fix_count \in Nat
    BY FS_CardinalityType DEF Session
  <1>2. \A f \in new : f.client_seq \in Nat
    BY DEF Fix
  <1>3. \A f \in new : below(f) \in SUBSET new
        /\ \A g \in new : g \in below(f) <=> g.client_seq < f.client_seq
    OBVIOUS
  <1>4. place \in [new -> Nat] /\ \A f \in new : place[f] = Cardinality(below(f))
    <2>1. \A f \in new : Cardinality(below(f)) \in Nat
      BY <1>3, FS_Subset, FS_CardinalityType
    <2> HIDE DEF below
    <2> QED
      BY <2>1
  <1>5. rows = {[seq |-> row.fix_count + place[f], fix |-> f] : f \in new}
    BY DEF Numbered
  <1> HIDE DEF below, place, rows
  <1>6. \A f \in new : place[f] < n
    <2> TAKE f \in new
    <2>1. Cardinality(below(f)) <= n /\ (n = Cardinality(below(f)) => new = below(f))
      BY <1>3, FS_Subset
    <2>2. f \notin below(f)
      BY <1>2, <1>3
    <2> QED
      BY <1>1, <1>4, <2>1, <2>2
  <1>7. \A f, g \in new : f.client_seq < g.client_seq => place[f] < place[g]
    <2> SUFFICES ASSUME NEW f \in new, NEW g \in new, f.client_seq < g.client_seq
                 PROVE  place[f] < place[g]
      OBVIOUS
    <2>1. below(f) \in SUBSET below(g) /\ f \in below(g) /\ f \notin below(f)
      BY <1>2, <1>3
    <2>2. IsFiniteSet(below(g))
      BY <1>3, FS_Subset
    <2>3. Cardinality(below(f)) <= Cardinality(below(g))
          /\ (Cardinality(below(g)) = Cardinality(below(f)) => below(g) = below(f))
      BY <2>1, <2>2, FS_Subset
    <2> QED
      BY <1>4, <2>1, <2>3
  <1>8. \A f, g \in new : place[f] = place[g] => f = g
    <2> SUFFICES ASSUME NEW f \in new, NEW g \in new, f # g PROVE place[f] # place[g]
      OBVIOUS
    <2>1. f.client_seq < g.client_seq \/ g.client_seq < f.client_seq
      BY <1>2
    <2>2. place[f] \in Nat /\ place[g] \in Nat
      BY <1>4
    <2> QED
      BY <1>7, <2>1, <2>2
  <1>9. place \in [new -> 0 .. (n - 1)]
    <2> HIDE DEF n
    <2>1. \A f \in new : place[f] \in 0 .. (n - 1)
      BY <1>1, <1>4, <1>6
    <2> QED
      BY <1>4, <2>1
  <1>10. place \in Injection(new, 0 .. (n - 1))
    BY <1>8, <1>9 DEF Injection, IsInjective
  <1>11. IsFiniteSet(0 .. (n - 1)) /\ Cardinality(0 .. (n - 1)) = n
    <2> HIDE DEF n
    <2>1. 0 \in Int /\ n - 1 \in Int /\ (IF 0 > n - 1 THEN 0 ELSE (n - 1) - 0 + 1) = n
      BY <1>1
    <2>2. Cardinality(0 .. (n - 1)) = IF 0 > n - 1 THEN 0 ELSE (n - 1) - 0 + 1
      BY <2>1, FS_Interval
    <2>3. IsFiniteSet(0 .. (n - 1))
      BY <2>1, FS_Interval
    <2> QED
      BY <2>1, <2>2, <2>3
  <1>12. place \in Surjection(new, 0 .. (n - 1))
    <2>1. Cardinality(new) = n
      OBVIOUS
    <2> DEFINE places == 0 .. (n - 1)
    <2>2. place \in Injection(new, places) /\ IsFiniteSet(places) /\ Cardinality(places) = n
      BY <1>10, <1>11
    <2> HIDE DEF n, places
    <2>3. place \in Surjection(new, places)
      BY <2>1, <2>2, FS_Injection
    <2> QED
      BY <2>3 DEF places
  <1> HIDE DEF n
  <1>13. \A i \in 0 .. (n - 1) : \E f \in new : place[f] = i
    BY <1>12 DEF Surjection
  <1>14. \A f \in new : place[f] \in Nat /\ place[f] < n
    BY <1>4, <1>6
  <1>15. rows \in SUBSET Stored
    BY <1>1, <1>14, <1>5 DEF Stored
  <1>16. {r.fix : r \in rows} = new
    <2>1. ASSUME NEW f \in new PROVE \E r \in rows : r.fix = f
      <3>1. [seq |-> row.fix_count + place[f], fix |-> f] \in rows
        BY <1>5
      <3> QED
        BY <3>1
    <2>2. ASSUME NEW r \in rows PROVE r.fix \in new
      BY <1>5
    <2> QED
      BY <2>1, <2>2
  <1>17. {r.seq : r \in rows} = row.fix_count .. (row.fix_count + n - 1)
    <2>1. ASSUME NEW r \in rows PROVE r.seq \in row.fix_count .. (row.fix_count + n - 1)
      <3>1. PICK f \in new : r = [seq |-> row.fix_count + place[f], fix |-> f]
        BY <1>5
      <3> QED
        BY <1>1, <1>14, <3>1
    <2>2. ASSUME NEW i \in row.fix_count .. (row.fix_count + n - 1)
          PROVE  \E r \in rows : r.seq = i
      <3>1. i - row.fix_count \in 0 .. (n - 1)
        BY <1>1
      <3>2. PICK f \in new : place[f] = i - row.fix_count
        BY <1>13, <3>1
      <3>3. [seq |-> row.fix_count + place[f], fix |-> f] \in rows
        BY <1>5
      <3>4. row.fix_count + place[f] = i
        BY <1>1, <3>2
      <3> QED
        BY <3>3, <3>4
    <2> QED
      BY <2>1, <2>2
  <1>18. \A r, t \in rows : r.seq = t.seq => r = t
    <2> SUFFICES ASSUME NEW r \in rows, NEW t \in rows, r.seq = t.seq PROVE r = t
      OBVIOUS
    <2>1. PICK f \in new : r = [seq |-> row.fix_count + place[f], fix |-> f]
      BY <1>5
    <2>2. PICK g \in new : t = [seq |-> row.fix_count + place[g], fix |-> g]
      BY <1>5
    <2>3. place[f] = place[g]
      BY <1>1, <1>14, <2>1, <2>2
    <2> QED
      BY <1>8, <2>1, <2>2, <2>3
  <1>19. \A r, t \in rows : r.fix = t.fix => r = t
    BY <1>5
  <1> QED
    BY <1>1, <1>15, <1>16, <1>17, <1>18, <1>19 DEF n, rows

\* A batch joins what is stored: nothing acknowledged is missing, the numbers
\* go on and the origin is one (append_fixes).
LEMMA AppendFixesKeeps ==
    ASSUME ServerInv, NEW c \in Calls, AppendFixes(c) PROVE ServerInv'
  <1>1. /\ TypeOK /\ Handled(c) /\ FinishAnswersAgree
        /\ \A v \in Walks : WalkInv(v)
    BY DEF ServerInv
  <1>2. PICK w \in Walks : w = call[c].walk
    BY <1>1, RequestParts DEF Handled, AppendFixes
  <1> DEFINE batch == call[c].batch
  <1> DEFINE row == work[c]
  <1> DEFINE new == NewFixes(w, batch)
  <1> DEFINE rows == Numbered(row, new)
  <1>3. /\ at[c] = "append" /\ rowLock[w] = c /\ call[c].op = "fixes"
        /\ row = session[w] /\ row \in Session
        /\ batch \in SUBSET Fix /\ batch # {} /\ IsFiniteSet(batch)
        /\ \A f, g \in batch : f.client_seq = g.client_seq => f = g
    BY <1>1, <1>2, RequestParts DEF AppendFixes, Handled, Locked, TypeOK
  <1>4. /\ row.state = "open"
        /\ OneOrigin(row, batch) /\ SequenceAgrees(w, batch)
    BY <1>2 DEF AppendFixes, Appendable, Open
  <1>5. /\ walk_fix' = [walk_fix EXCEPT ![w] = @ \union rows]
        /\ session' = [session EXCEPT ![w].fix_count = FixCount(row, batch, new),
                                      ![w].origin = BatchOrigin(batch)]
        /\ acked' = [acked EXCEPT ![w] = @ \union batch]
        /\ Answer(c, Status(200))
        /\ UNCHANGED <<facts, told>>
    BY <1>2 DEF AppendFixes
  <1>6. facts[w] = None
    BY <1>1, <1>3, <1>4, NoneApart DEF WalkInv, RawGone
  <1>7. /\ new \subseteq batch /\ IsFiniteSet(new)
        /\ \A f, g \in new : f.client_seq = g.client_seq => f = g
        /\ \A f \in new, s \in walk_fix[w] : s.fix.client_seq # f.client_seq
        /\ batch \subseteq StoredFixes(w) \union new
    <2>1. new \subseteq batch
      BY DEF NewFixes
    <2>2. \A f \in new, s \in walk_fix[w] : s.fix.client_seq # f.client_seq
      BY DEF NewFixes, StoredFixes
    <2>3. \A f \in batch \ new : f \in StoredFixes(w)
      BY <1>4 DEF NewFixes, SequenceAgrees
    <2> HIDE DEF new
    <2> QED
      BY <1>3, <2>1, <2>2, <2>3, FS_Subset
  <1> DEFINE n == Cardinality(new)
  <1>8. /\ n \in Nat
        /\ rows \in SUBSET Stored
        /\ {r.fix : r \in rows} = new
        /\ {r.seq : r \in rows} = row.fix_count .. (row.fix_count + n - 1)
        /\ \A r, t \in rows : r.seq = t.seq => r = t
        /\ \A r, t \in rows : r.fix = t.fix => r = t
    <2> HIDE DEF new, batch, row
    <2> QED
      BY <1>3, <1>7, NumbersContinue
  <1>9. FixCount(row, batch, new) = row.fix_count + n
    BY DEF FixCount
  <1>10. BatchOrigin(batch) \in {"device", "mock"}
         /\ \A f \in batch : BatchOrigin(batch) = Origin(f.mock)
    <2> HIDE DEF batch
    <2>1. \A f \in batch : f.mock \in BOOLEAN
      BY <1>3 DEF Fix
    <2>2. \A f, g \in batch : f.mock = g.mock
      BY <1>4 DEF OneOrigin
    <2> QED
      BY <2>1, <2>2 DEF BatchOrigin, Origin
  <1> HIDE DEF new, rows, batch, row, n
  <1>11. /\ session' \in [Walks -> Session \union {None}]
         /\ \A v \in Walks \ {w} : session'[v] = session[v]
         /\ session'[w].fix_count = row.fix_count + n
         /\ session'[w].state = "open" /\ session'[w].origin = BatchOrigin(batch)
         /\ session'[w] \in Session
    <2>1. [session[w] EXCEPT !.fix_count = row.fix_count + n, !.origin = BatchOrigin(batch)]
            \in Session
      <3>1. /\ session[w] \in Session
            /\ row.fix_count + n \in Nat
            /\ BatchOrigin(batch) \in {"unknown", "device", "mock"}
        BY <1>3, <1>8, <1>10 DEF Session
      <3> QED
        BY <3>1 DEF Session
    <2>2. session' = [session EXCEPT ![w] =
            [session[w] EXCEPT !.fix_count = row.fix_count + n, !.origin = BatchOrigin(batch)]]
      BY <1>5, <1>9
    <2> QED
      BY <1>1, <1>3, <1>4, <2>1, <2>2 DEF TypeOK, Session
  <1>12. /\ walk_fix' \in [Walks -> SUBSET Stored]
         /\ walk_fix'[w] = walk_fix[w] \union rows
         /\ \A v \in Walks \ {w} : walk_fix'[v] = walk_fix[v]
    BY <1>1, <1>5, <1>8 DEF TypeOK
  <1>13. /\ acked' \in [Walks -> SUBSET Fix]
         /\ acked'[w] = acked[w] \union batch
         /\ \A v \in Walks \ {w} : acked'[v] = acked[v]
    BY <1>1, <1>3, <1>5 DEF TypeOK
  <1>14. \A v \in Walks : Spares(c, v)
    BY <1>3, <1>5, <1>11, <1>12 DEF Spares
  <1>15. \A v \in Walks \ {w} : WalkInv(v)'
    BY <1>1, <1>5, <1>11, <1>12, <1>13, WalkSpared
  <1>16. StoredFixes(w)' = StoredFixes(w) \union new
    <2>1. StoredFixes(w)' = StoredFixes(w) \union {r.fix : r \in rows}
      BY <1>12 DEF StoredFixes
    <2> QED
      BY <1>8, <2>1
  <1>17. AckedCount(w)'
    <2>1. acked[w] \subseteq StoredFixes(w)
      BY <1>1, <1>6 DEF WalkInv, AckedCount
    <2>2. acked'[w] \subseteq StoredFixes(w)'
      BY <1>7, <1>13, <1>16, <2>1
    <2> QED
      BY <1>5, <1>6, <2>2 DEF AckedCount
  <1>18. Dense(w)'
    <2>1. /\ {s.seq : s \in walk_fix[w]} = 0 .. (row.fix_count - 1)
          /\ \A s, t \in walk_fix[w] :
               s.seq = t.seq \/ s.fix.client_seq = t.fix.client_seq => s = t
      BY <1>1, <1>3, <1>6, NoneApart DEF WalkInv, Dense
    <2>2. {s.seq : s \in walk_fix'[w]} = 0 .. (row.fix_count + n - 1)
      <3>1. {s.seq : s \in walk_fix'[w]}
              = {s.seq : s \in walk_fix[w]} \union {s.seq : s \in rows}
        BY <1>12
      <3>2. row.fix_count \in Nat
        BY <1>3 DEF Session
      <3>3. 0 .. (row.fix_count + n - 1)
              = (0 .. (row.fix_count - 1)) \union (row.fix_count .. (row.fix_count + n - 1))
        BY <1>8, <3>2
      <3> QED
        BY <1>8, <2>1, <3>1, <3>3
    <2>3. ASSUME NEW s \in walk_fix[w], NEW t \in rows
          PROVE  s.seq # t.seq /\ s.fix.client_seq # t.fix.client_seq
      <3>1. s.seq \in 0 .. (row.fix_count - 1)
            /\ t.seq \in row.fix_count .. (row.fix_count + n - 1)
        BY <1>8, <2>1
      <3>2. t.fix \in new
        BY <1>8
      <3> QED
        BY <1>3, <1>7, <3>1, <3>2 DEF Session
    <2>4. \A s, t \in rows : s.fix.client_seq = t.fix.client_seq => s = t
      BY <1>7, <1>8
    <2>5. \A s, t \in walk_fix'[w] :
             s.seq = t.seq \/ s.fix.client_seq = t.fix.client_seq => s = t
      <3> SUFFICES ASSUME NEW s \in walk_fix'[w], NEW t \in walk_fix'[w],
                          s.seq = t.seq \/ s.fix.client_seq = t.fix.client_seq
                   PROVE  s = t
        OBVIOUS
      <3>1. CASE s \in walk_fix[w] /\ t \in walk_fix[w]
        BY <2>1, <3>1
      <3>2. CASE s \in rows /\ t \in rows
        BY <1>8, <2>4, <3>2
      <3>3. CASE s \in walk_fix[w] /\ t \in rows
        BY <2>3, <3>3
      <3>4. CASE t \in walk_fix[w] /\ s \in rows
        BY <2>3, <3>4
      <3> QED
        BY <1>12, <3>1, <3>2, <3>3, <3>4
    <2>6. {s.seq : s \in walk_fix'[w]} = 0 .. (session'[w].fix_count - 1)
      <3>1. session'[w].fix_count = row.fix_count + n
        BY <1>11
      <3>2. session'[w].fix_count - 1 = row.fix_count + n - 1
        <4>1. row.fix_count \in Nat /\ n \in Nat
          BY <1>3, <1>8 DEF Session
        <4> QED
          BY <3>1, <4>1
      <3> QED
        BY <2>2, <3>2
    <2> QED
      BY <2>5, <2>6 DEF Dense
  <1>19. OneKind(w)'
    <2>1. Known(w) = StoredFixes(w) /\ Known(w)' = StoredFixes(w) \union new
      BY <1>5, <1>6, <1>16 DEF Known
    <2>2. \A f \in StoredFixes(w) : session[w].origin = Origin(f.mock)
      BY <1>1, <2>1 DEF WalkInv, OneKind
    <2>3. \A f \in batch : row.origin \in {"unknown", Origin(f.mock)}
      BY <1>4 DEF OneOrigin
    <2>4. \A f \in StoredFixes(w) : session'[w].origin = Origin(f.mock)
      BY <1>3, <1>10, <1>11, <2>2, <2>3 DEF Origin
    <2>5. \A f \in new : session'[w].origin = Origin(f.mock)
      BY <1>7, <1>10, <1>11
    <2>6. \A f \in Known(w)' : session'[w].origin = Origin(f.mock) /\ f.mock \in BOOLEAN
      <3>1. StoredFixes(w) \subseteq Fix /\ new \subseteq Fix
        BY <1>1, <1>3, <1>7 DEF TypeOK, Stored, StoredFixes
      <3> QED
        BY <2>1, <2>4, <2>5, <3>1 DEF Fix
    <2>7. \A f, g \in Known(w)' : f.mock = g.mock
      BY <2>6 DEF Origin
    <2> QED
      BY <2>6, <2>7 DEF OneKind
  <1>20. WalkInv(w)'
    <2>1. session'[w] # None
      BY <1>11, NoneApart
    <2> QED
      BY <1>5, <1>6, <1>11, <1>17, <1>18, <1>19, <2>1 DEF WalkInv, Unbegun, RawGone
  <1>21. FinishAnswersAgree'
    BY <1>1, <1>5 DEF FinishAnswersAgree
  <1>22. \A v \in Walks : WalkInv(v)'
    BY <1>15, <1>20
  <1> QED
    BY <1>1, <1>3, <1>5, <1>11, <1>12, <1>13, <1>14, <1>21, <1>22, AnsweredKeeps DEF TypeOK

\* The finish stores what it derived and purges what it derived it from in one
\* commit, for which nobody has derived the walk before (finalize).
LEMMA FinalizeKeeps ==
    ASSUME ServerInv, NEW c \in Calls, Finalize(c) PROVE ServerInv'
  <1>1. /\ TypeOK /\ Handled(c) /\ FinishAnswersAgree
        /\ \A v \in Walks : WalkInv(v)
    BY DEF ServerInv
  <1>2. PICK w \in Walks : w = call[c].walk
    BY <1>1, RequestParts DEF Handled, Finalize
  <1> DEFINE derived == work[c]
  <1>3. /\ at[c] = "finalize" /\ rowLock[w] = c /\ call[c].op = "finish"
        /\ facts[w] = None /\ session[w] # None
        /\ derived \in Facts /\ derived.from = StoredFixes(w)
    BY <1>1, <1>2 DEF Finalize, Handled, Locked
  <1>4. /\ facts' = [facts EXCEPT ![w] = derived]
        /\ walk_fix' = [walk_fix EXCEPT ![w] = {}]
        /\ session' = [session EXCEPT ![w].state = "purged"]
        /\ Answer(c, [status |-> 200, facts |-> derived])
        /\ told' = told \union {[walk |-> w, facts |-> derived]}
        /\ UNCHANGED acked
    BY <1>2 DEF Finalize
  <1> HIDE DEF derived
  <1>5. /\ facts' \in [Walks -> Facts \union {None}] /\ facts'[w] = derived
        /\ \A v \in Walks \ {w} : facts'[v] = facts[v]
    BY <1>1, <1>3, <1>4 DEF TypeOK
  <1>6. /\ walk_fix' \in [Walks -> SUBSET Stored] /\ walk_fix'[w] = {}
        /\ \A v \in Walks \ {w} : walk_fix'[v] = walk_fix[v]
    BY <1>1, <1>4 DEF TypeOK
  <1>7. /\ session' \in [Walks -> Session \union {None}]
        /\ session'[w] \in Session /\ session'[w].state = "purged"
        /\ session'[w].origin = session[w].origin
        /\ \A v \in Walks \ {w} : session'[v] = session[v]
    <2>1. session[w] \in Session
      BY <1>1, <1>3 DEF TypeOK
    <2>2. session'[w] = [session[w] EXCEPT !.state = "purged"]
      BY <1>1, <1>4 DEF TypeOK
    <2>3. session'[w] \in Session /\ session'[w].state = "purged"
          /\ session'[w].origin = session[w].origin
      BY <2>1, <2>2 DEF Session
    <2> QED
      BY <1>1, <1>4, <2>2, <2>3 DEF TypeOK
  <1>8. derived # None /\ session'[w] # None
    BY <1>3, <1>7, NoneApart
  <1>9. \A v \in Walks : Spares(c, v)
    BY <1>3, <1>5, <1>6, <1>7, <1>8 DEF Spares
  <1>10. \A v \in Walks \ {w} : WalkInv(v)'
    BY <1>1, <1>4, <1>5, <1>6, <1>7, WalkSpared
  <1>11. AckedCount(w)'
    BY <1>1, <1>3, <1>4, <1>5, <1>8 DEF WalkInv, AckedCount
  <1>12. OneKind(w)'
    <2>1. StoredFixes(w)' = {}
      BY <1>6 DEF StoredFixes
    <2>2. Known(w)' = Known(w)
      BY <1>3, <1>5, <1>8, <2>1 DEF Known
    <2> QED
      BY <1>1, <1>7, <2>2 DEF WalkInv, OneKind
  <1>13. WalkInv(w)'
    BY <1>5, <1>6, <1>7, <1>8, <1>11, <1>12 DEF WalkInv, Unbegun, RawGone, Dense
  <1>14. FinishAnswersAgree' /\ told' \subseteq [walk: Walks, facts: Facts]
    <2>1. \A t \in told : t.walk # w /\ t.walk \in Walks
      BY <1>1, <1>3, NoneApart DEF FinishAnswersAgree, TypeOK
    <2> QED
      BY <1>1, <1>3, <1>4, <1>5, <2>1 DEF FinishAnswersAgree, TypeOK
  <1>15. \A v \in Walks : WalkInv(v)'
    BY <1>10, <1>13
  <1>16. acked' \in [Walks -> SUBSET Fix]
    BY <1>1, <1>4 DEF TypeOK
  <1> QED
    BY <1>3, <1>4, <1>5, <1>6, <1>7, <1>9, <1>14, <1>15, <1>16, AnsweredKeeps

------------------------------------------------------------------------------
\* Every other step that ends a transaction

\* Repeated starts, refusals, aborts, repeated finishes and reads write nothing.
LEMMA UnwrittenKeeps ==
    ASSUME ServerInv, NEW c \in Calls,
           \/ StartAgain(c) \/ UnknownSession(c) \/ AppendRefused(c) \/ FinishAgain(c)
           \/ FinishRefused(c) \/ ReadFacts(c) \/ Abort(c)
    PROVE  ServerInv'
  <1>1. TypeOK /\ Handled(c) /\ FinishAnswersAgree
    BY DEF ServerInv
  <1>2. CASE StartAgain(c)
    <2>1. PICK code : Answer(c, Status(code)) /\ UNCHANGED <<tables, told>>
      BY <1>2 DEF StartAgain, Refuse
    <2>2. at[c] = "arrived" /\ call[c].op = "start"
      BY <1>2 DEF StartAgain, Arrived
    <2>3. FinishAnswersAgree' /\ told' \subseteq [walk: Walks, facts: Facts]
      BY <1>1, <2>1 DEF FinishAnswersAgree, TypeOK, tables
    <2> QED
      BY <2>1, <2>2, <2>3, ToldKeeps
  <1>3. CASE UnknownSession(c) \/ AppendRefused(c) \/ FinishRefused(c) \/ Abort(c)
    <2>1. PICK code : Refuse(c, code) /\ code # 200
      BY <1>3 DEF UnknownSession, AppendRefused, FinishRefused, Abort
    <2>2. at[c] # "free"
      BY <1>3 DEF UnknownSession, AppendRefused, FinishRefused, Abort, Arrived
    <2> QED
      BY <2>1, <2>2, RefusedKeeps
  <1>4. CASE FinishAgain(c)
    <2>1. PICK w \in Walks : w = call[c].walk
      BY <1>1, <1>4, RequestParts DEF Handled, FinishAgain
    <2>2. /\ at[c] = "finish" /\ call[c].op = "finish" /\ facts[w] # None
          /\ Answer(c, [status |-> 200, facts |-> facts[w]])
          /\ told' = told \union {[walk |-> w, facts |-> facts[w]]}
          /\ UNCHANGED tables
      BY <1>1, <1>4, <2>1 DEF FinishAgain, Handled
    <2>3. FinishAnswersAgree' /\ told' \subseteq [walk: Walks, facts: Facts]
      BY <1>1, <2>2 DEF FinishAnswersAgree, TypeOK, tables
    <2> QED
      BY <2>2, <2>3, ToldKeeps
  <1>5. CASE ReadFacts(c)
    <2>1. PICK w \in Walks : w = call[c].walk
      BY <1>1, <1>5, RequestParts DEF Handled, ReadFacts
    <2> DEFINE reply == [status |-> 200, facts |-> facts[w], state |-> work[c].state]
    <2>2. at[c] = "read_facts" /\ Answer(c, reply) /\ UNCHANGED <<tables, told>>
      BY <1>5, <2>1 DEF ReadFacts
    <2>3. reply.state = "purged" => reply.facts # None
      BY <1>1, <2>1, <2>2 DEF Handled
    <2>4. FinishAnswersAgree' /\ told' \subseteq [walk: Walks, facts: Facts]
      BY <1>1, <2>2 DEF FinishAnswersAgree, TypeOK, tables
    <2> HIDE DEF reply
    <2> QED
      BY <2>2, <2>3, <2>4, ToldKeeps
  <1> QED
    BY <1>2, <1>3, <1>4, <1>5

------------------------------------------------------------------------------
\* The theorems

LEMMA ServerStarts == ASSUME Init PROVE ServerInv
  <1> USE DEF Init
  <1>1. TypeOK
    BY DEF TypeOK, Positions
  <1>2. LocksHeld /\ \A c \in Calls : Handled(c)
    BY NoneApart DEF LocksHeld, Handled, Locked
  <1>3. \A w \in Walks : WalkInv(w)
    BY DEF WalkInv, Unbegun, AckedCount, RawGone, Dense, OneKind, Known, StoredFixes
  <1> QED
    BY <1>1, <1>2, <1>3 DEF ServerInv, FinishAnswersAgree, PurgedReadsHaveFacts

LEMMA Inductive == ASSUME ServerInv, [Next]_serverVars PROVE ServerInv'
  <1>1. CASE UNCHANGED serverVars
    <2>1. UNCHANGED <<session, walk_fix, facts, acked, rowLock, call, at, work, answer, told>>
      BY <1>1 DEF serverVars, tables
    <2>2. \A w \in Walks : WalkInv(w)'
      BY <2>1, WalkSpared DEF ServerInv
    <2>3. TypeOK' /\ LocksHeld' /\ answer' = [c \in Calls |-> answer'[c]]
      BY <2>1 DEF ServerInv, TypeOK, LocksHeld
    <2>4. \A c \in Calls : Handled(c)'
      BY <2>1 DEF ServerInv, Handled, StoredFixes
    <2>5. FinishAnswersAgree' /\ PurgedReadsHaveFacts'
      BY <2>1 DEF ServerInv, FinishAnswersAgree, PurgedReadsHaveFacts
    <2> QED
      BY <2>2, <2>3, <2>4, <2>5 DEF ServerInv
  <1>2. ASSUME NEW c \in Calls,
               (\E r \in Requests : Arrive(c, r)) \/ ServerStep(c) \/ Dismiss(c)
        PROVE  ServerInv'
    BY <1>2, ArriveKeeps, DismissKeeps, LockSessionKeeps, StartSessionKeeps, AppendFixesKeeps,
       ComputeFactsKeeps, FinalizeKeeps, ReadSessionKeeps, UnwrittenKeeps
       DEF ServerStep, Handle
  <1> QED
    BY <1>1, <1>2 DEF Next

LEMMA ServerAlways == Spec => []ServerInv
  BY ServerStarts, Inductive, PTL DEF Spec

\* TypeOK holds for every set of walks, handlers and requests: whatever is sent,
\* rows, locks and private variables keep their types.
THEOREM ServerTypes == Spec => []TypeOK
  <1>1. ServerInv => TypeOK
    BY DEF ServerInv
  <1> QED
    BY <1>1, ServerAlways, PTL

\* FixesEndInFacts: whatever uploads and finishes of any number of walks
\* interleave, a position answered 200 is stored until the walk's facts are
\* derived from it, and nothing raw is left or comes back afterwards.
THEOREM NothingAcknowledgedIsLost == Spec => []FixesEndInFacts
  <1>1. ServerInv => FixesEndInFacts
    BY DEF ServerInv, FixesEndInFacts, AckedFixesCount, RawFixesGone, WalkInv, AckedCount, RawGone
  <1> QED
    BY <1>1, ServerAlways, PTL

\* StoredWalksAreCoherent: however batches repeat, overlap and contradict each
\* other, an open walk is a sequence without gaps or repeats, of one origin.
THEOREM WalksAreCoherent == Spec => []StoredWalksAreCoherent
  <1>1. ServerInv => ReceptionOrderIsDense
    BY DEF ServerInv, WalkInv, Dense, ReceptionOrderIsDense
  <1>2. ServerInv => OneOriginPerWalk
    BY DEF ServerInv, WalkInv, OneKind, Known, OneOriginPerWalk
  <1>3. ServerInv => StoredWalksAreCoherent
    BY <1>1, <1>2 DEF StoredWalksAreCoherent
  <1> QED
    BY <1>3, ServerAlways, PTL

\* AnswersAgree: everybody who finishes or reads a walk is told the same facts.
THEOREM OneStoryForAll == Spec => []AnswersAgree
  <1>1. ServerInv => AnswersAgree
    BY DEF ServerInv, AnswersAgree
  <1> QED
    BY <1>1, ServerAlways, PTL
------------------------------------------------------------------------------
\* The clients that upload walks

\* What the phone recorded of a walk, as its facts.
WholeOf(w) == [dog |-> Room[w].dog, started |-> Room[w].started, ended |-> Room[w].ended,
               from |-> Room[w].fixes]

\* A call at work carries what one of the clients sends, a finish only after
\* everything recorded was acknowledged.
Carried(c) ==
    LET r == call[c]
    IN  at[c] # "free" =>
          /\ r.op = "start" => r.dog = Room[r.walk].dog /\ r.started = Room[r.walk].started
          /\ r.op = "fixes" => r.batch \subseteq Room[r.walk].fixes
          /\ r.op = "finish" => /\ r.ended = Room[r.walk].ended
                                /\ Room[r.walk].fixes \subseteq acked[r.walk]

\* What an answer that is 200 has left on the server.
Kept(c) ==
    LET r == call[c]
    IN  at[c] = "answered" /\ answer[c].status = 200 =>
          /\ r.op = "fixes" => r.batch \subseteq acked[r.walk]
          /\ r.op = "finish" => facts[r.walk] # None
          /\ r.op = "read" => (answer[c].facts # None => facts[r.walk] # None)

Derives(c) == at[c] = "finalize" => work[c] = WholeOf(call[c].walk)

CallsWhole == \A c \in Calls : Carried(c) /\ Kept(c) /\ Derives(c)

\* The rows of a walk are part of what was recorded of it.
RowsWhole ==
    \A w \in Walks :
      /\ session[w] # None => session[w].dog = Room[w].dog /\ session[w].started = Room[w].started
      /\ StoredFixes(w) \subseteq Room[w].fixes
      /\ facts[w] # None => facts[w] = WholeOf(w)

\* The positions of the batches before the n-th.
Before(w, n) == {f \in Room[w].fixes : Rank(w, f) < n * BatchSize}

Steps == {"idle", "read", "start", "fixes", "finish"}

Outcomes == {"none", "done", "failed", "conflict", "skipped"}

\* How far a client has come with its walk.
ClientAt(k) ==
    LET w == target[k]
    IN  /\ step[k] # "idle" => w \in Walks /\ Room[w].fixes # {} /\ outcome[k] = "none"
        /\ step[k] = "read" => k = "push"
        /\ step[k] = "fixes" => /\ chunk[k] * BatchSize < Cardinality(Room[w].fixes)
                                /\ Before(w, chunk[k]) \subseteq acked[w]
        /\ step[k] = "finish" => Room[w].fixes \subseteq acked[w]
        /\ outcome[k] = "done" => w \in Walks /\ facts[w] # None

\* A client waits for the call that carries its request, and nobody else does.
WaitsFor(k) ==
    waiting[k] # None =>
      /\ waiting[k] \in Calls /\ at[waiting[k]] # "free"
      /\ step[k] # "idle" /\ call[waiting[k]] = RequestOf(k)
      /\ \A j \in Clients \ {k} : waiting[j] # waiting[k]

ClientTypes ==
    /\ step \in [Clients -> Steps] /\ chunk \in [Clients -> Nat]
    /\ target = [k \in Clients |-> target[k]] /\ waiting = [k \in Clients |-> waiting[k]]
    /\ outcome = [k \in Clients |-> outcome[k]]

UploadInv ==
    /\ CallsWhole /\ RowsWhole /\ ClientTypes
    /\ \A k \in Clients : ClientAt(k) /\ WaitsFor(k)

LEMMA RoomParts ==
    ASSUME NEW w \in Walks
    PROVE  /\ Room[w].dog \in Dogs /\ Room[w].started \in Nat /\ Room[w].ended \in Nat
           /\ Room[w].started <= Room[w].ended /\ IsFiniteSet(Room[w].fixes)
           /\ Cardinality(Room[w].fixes) \in Nat
           /\ \A f \in Room[w].fixes : Rank(w, f) \in Nat /\ Rank(w, f) < Cardinality(Room[w].fixes)
<1> DEFINE fixes == Room[w].fixes
<1>1. /\ Room[w].dog \in Dogs /\ Room[w].started \in Nat /\ Room[w].ended \in Nat
      /\ Room[w].started <= Room[w].ended /\ IsFiniteSet(fixes) /\ fixes \in SUBSET Fix
  BY UploadAssumption DEF Recorded
<1>2. ASSUME NEW f \in fixes
      PROVE  Rank(w, f) \in Nat /\ Rank(w, f) < Cardinality(fixes)
  <2> DEFINE below == {g \in fixes : g.client_seq < f.client_seq}
  <2>1. below \in SUBSET fixes /\ f \notin below
    BY <1>1 DEF Fix
  <2>2. /\ IsFiniteSet(below) /\ Cardinality(below) <= Cardinality(fixes)
        /\ (Cardinality(fixes) = Cardinality(below) => fixes = below)
    BY <1>1, <2>1, FS_Subset
  <2>3. Cardinality(below) \in Nat /\ Cardinality(fixes) \in Nat
    BY <1>1, <2>2, FS_CardinalityType
  <2>4. Rank(w, f) = Cardinality(below)
    BY DEF Rank
  <2> QED
    BY <2>1, <2>2, <2>3, <2>4
<1> QED
  BY <1>1, <1>2, FS_CardinalityType

LEMMA Multiples ==
    ASSUME NEW n \in Nat
    PROVE  /\ n * BatchSize \in Nat /\ (n + 1) * BatchSize \in Nat /\ n <= n * BatchSize
           /\ n * BatchSize <= (n + 1) * BatchSize
<1>1. BatchSize \in Nat /\ BatchSize >= 1
  BY UploadAssumption
<1> QED
  BY <1>1

\* A batch goes on where the one before it ended, and the last one ends the walk.
LEMMA BatchesJoin ==
    ASSUME NEW w \in Walks, NEW n \in Nat
    PROVE  /\ Before(w, n + 1) \subseteq Before(w, n) \union Chunk(w, n)
           /\ Before(w, 0) = {}
           /\ LastChunk(w, n) => Room[w].fixes \subseteq Before(w, n) \union Chunk(w, n)
           /\ Chunk(w, n) \subseteq Room[w].fixes
<1>1. \A f \in Room[w].fixes : Rank(w, f) \in Nat /\ Rank(w, f) < Cardinality(Room[w].fixes)
  BY RoomParts
<1>2. n * BatchSize \in Nat /\ (n + 1) * BatchSize \in Nat /\ 0 * BatchSize = 0
      /\ Cardinality(Room[w].fixes) \in Nat
  BY Multiples, RoomParts, UploadAssumption
<1> DEFINE a == n * BatchSize
           b == (n + 1) * BatchSize
           size == Cardinality(Room[w].fixes)
<1>3. /\ Before(w, n + 1) = {f \in Room[w].fixes : Rank(w, f) < b}
      /\ Before(w, n) = {f \in Room[w].fixes : Rank(w, f) < a}
      /\ Before(w, 0) = {f \in Room[w].fixes : Rank(w, f) < 0}
      /\ Chunk(w, n) = {f \in Room[w].fixes : a <= Rank(w, f) /\ Rank(w, f) < b}
      /\ LastChunk(w, n) <=> size <= b
  BY <1>2 DEF Before, Chunk, LastChunk
<1>4. a \in Nat /\ b \in Nat /\ size \in Nat
      /\ \A f \in Room[w].fixes : Rank(w, f) \in Nat /\ Rank(w, f) < size
  BY <1>1, <1>2
<1> HIDE DEF a, b, size
<1> QED
  BY <1>3, <1>4

\* Whatever a client sends is one of the requests the endpoints expect.
LEMMA SendsRequests ==
    ASSUME ClientTypes, NEW k \in Clients, ClientAt(k), step[k] # "idle"
    PROVE  /\ RequestOf(k) \in Requests /\ RequestOf(k).walk = target[k]
           /\ RequestOf(k).op = step[k]
           /\ step[k] = "start" => RequestOf(k).dog = Room[target[k]].dog
                                   /\ RequestOf(k).started = Room[target[k]].started
           /\ step[k] = "fixes" => RequestOf(k).batch = Chunk(target[k], chunk[k])
           /\ step[k] = "finish" => RequestOf(k).ended = Room[target[k]].ended
<1> DEFINE w == target[k]
           n == chunk[k]
<1>1. w \in Walks /\ n \in Nat /\ step[k] \in {"read", "start", "fixes", "finish"}
  BY DEF ClientAt, ClientTypes, Steps
<1>2. CASE step[k] = "fixes"
  <2>1. n * BatchSize < Cardinality(Room[w].fixes) /\ Cardinality(Room[w].fixes) \in Nat
    BY <1>1, <1>2, RoomParts DEF ClientAt
  <2>2. n <= n * BatchSize /\ n * BatchSize \in Nat
    BY <1>1, Multiples
  <2>3. n \in 0..Cardinality(Room[w].fixes)
    BY <1>1, <2>1, <2>2
  <2>4. Upload(w, n) \in Requests
    BY <1>1, <2>1, <2>3, ClientsAssumption
  <2>5. RequestOf(k) = Upload(w, n)
    BY <1>2 DEF RequestOf
  <2> QED
    BY <1>2, <2>4, <2>5 DEF Upload
<1>3. CASE step[k] = "read"
  BY <1>1, <1>3, ClientsAssumption DEF RequestOf, Ask
<1>4. CASE step[k] = "start"
  BY <1>1, <1>4, ClientsAssumption DEF RequestOf, Start
<1>5. CASE step[k] = "finish"
  BY <1>1, <1>5, ClientsAssumption DEF RequestOf, Finish
<1> QED
  BY <1>1, <1>2, <1>3, <1>4, <1>5

\* What a step of a handler leaves alone.
Grows(c) ==
    /\ call' = call /\ at[c] \notin {"free", "answered"} /\ at'[c] # "free"
    /\ \A d \in Calls \ {c} : at'[d] = at[d] /\ work'[d] = work[d] /\ answer'[d] = answer[d]
    /\ \A w \in Walks : /\ acked[w] \subseteq acked'[w]
                        /\ facts[w] # None => facts'[w] = facts[w]

LEMMA AnswerGrows ==
    ASSUME ServerInv, NEW c \in Calls, NEW reply, Answer(c, reply),
           at[c] \notin {"free", "answered"},
           \A w \in Walks : /\ acked[w] \subseteq acked'[w]
                            /\ facts[w] # None => facts'[w] = facts[w]
    PROVE  Grows(c) /\ at'[c] = "answered" /\ answer'[c] = reply
<1>1. /\ at'[c] = "answered" /\ call' = call /\ answer'[c] = reply
      /\ \A d \in Calls \ {c} : at'[d] = at[d] /\ work'[d] = work[d] /\ answer'[d] = answer[d]
  BY AnswerFrees DEF ServerInv
<1> QED
  BY <1>1 DEF Grows

\* The handlers that are not at work keep what they stand for.
LEMMA OthersWhole ==
    ASSUME CallsWhole, ServerInv, NEW c \in Calls, Grows(c), NEW d \in Calls \ {c}
    PROVE  Carried(d)' /\ Kept(d)' /\ Derives(d)'
<1>1. Carried(d) /\ Kept(d) /\ Derives(d) /\ Handled(d)
  BY DEF CallsWhole, ServerInv
<1>2. /\ call' = call /\ at'[d] = at[d] /\ work'[d] = work[d] /\ answer'[d] = answer[d]
      /\ \A w \in Walks : /\ acked[w] \subseteq acked'[w]
                          /\ facts[w] # None => facts'[w] = facts[w]
  BY DEF Grows
<1>3. CASE at[d] = "free"
  BY <1>2, <1>3 DEF Carried, Kept, Derives
<1>4. CASE at[d] # "free"
  <2>1. call[d].walk \in Walks
    BY <1>1, <1>4, RequestParts DEF Handled
  <2>2. Carried(d)'
    BY <1>1, <1>2, <2>1 DEF Carried
  <2>3. Kept(d)'
    BY <1>1, <1>2, <2>1 DEF Kept
  <2>4. Derives(d)'
    BY <1>1, <1>2 DEF Derives, WholeOf
  <2> QED
    BY <2>2, <2>3, <2>4
<1> QED
  BY <1>3, <1>4

\* A step that writes nothing, or nothing these rows are made of.
LEMMA RowsKept ==
    ASSUME RowsWhole, UNCHANGED <<session, walk_fix, facts>>
    PROVE  RowsWhole'
  BY DEF RowsWhole, StoredFixes, WholeOf

\* The handler at work itself.
LEMMA HandlerWhole ==
    ASSUME CallsWhole, ServerInv, NEW c \in Calls, Grows(c),
           Kept(c)', Derives(c)'
    PROVE  CallsWhole'
<1>1. call' = call /\ at[c] # "free" /\ \A w \in Walks : acked[w] \subseteq acked'[w]
  BY DEF Grows
<1>2. Carried(c) /\ call[c].walk \in Walks
  BY <1>1, RequestParts DEF CallsWhole, ServerInv, Handled
<1>3. Carried(c)'
  BY <1>1, <1>2 DEF Carried
<1> QED
  BY <1>3, OthersWhole DEF CallsWhole

\* A refusal, or an answer that changes no row.
LEMMA AnswersWhole ==
    ASSUME CallsWhole, RowsWhole, ServerInv, NEW c \in Calls, NEW reply, Answer(c, reply),
           at[c] \notin {"free", "answered"}, UNCHANGED tables,
           reply.status = 200 =>
             /\ call[c].op # "fixes"
             /\ call[c].op = "finish" => facts[call[c].walk] # None
             /\ call[c].op = "read" => (reply.facts # None => facts[call[c].walk] # None)
    PROVE  Grows(c) /\ CallsWhole' /\ RowsWhole'
<1>1. UNCHANGED <<session, walk_fix, facts, acked>>
  BY DEF tables
<1>2. Grows(c) /\ at'[c] = "answered" /\ answer'[c] = reply
  BY <1>1, AnswerGrows
<1>3. Kept(c)' /\ Derives(c)'
  BY <1>1, <1>2 DEF Kept, Derives, Grows
<1> QED
  BY <1>1, <1>2, <1>3, HandlerWhole, RowsKept

LEMMA ServerWhole ==
    ASSUME CallsWhole, RowsWhole, ServerInv, NEW c \in Calls, ServerStep(c)
    PROVE  Grows(c) /\ CallsWhole' /\ RowsWhole'
<1> USE DEF ServerInv
<1> DEFINE w == call[c].walk
<1>0. Handled(c) /\ Carried(c) /\ Derives(c) /\ TypeOK
  BY DEF CallsWhole
<1>1. CASE StartSession(c)
  <2>1. /\ at[c] = "arrived" /\ call[c].op = "start" /\ Answer(c, Status(200))
        /\ session' = [session EXCEPT ![w] =
              [dog |-> call[c].dog, started |-> call[c].started, state |-> "open",
               origin |-> "unknown", fix_count |-> 0]]
        /\ UNCHANGED <<walk_fix, facts, acked>>
    BY <1>1 DEF StartSession, Arrived
  <2>2. w \in Walks /\ call[c].dog = Room[w].dog /\ call[c].started = Room[w].started
    BY <1>0, <2>1, RequestParts DEF Handled, Carried
  <2>3. Grows(c) /\ at'[c] = "answered"
    BY <2>1, AnswerGrows
  <2>4. Kept(c)' /\ Derives(c)'
    BY <2>1, <2>3 DEF Kept, Derives, Grows
  <2>5. RowsWhole'
    <3> HIDE DEF w
    <3>1. ASSUME NEW v \in Walks
          PROVE  session'[v] # None => session'[v].dog = Room[v].dog /\ session'[v].started = Room[v].started
      <4>1. CASE v = w
        BY <1>0, <2>1, <2>2, <4>1 DEF TypeOK
      <4>2. CASE v # w
        BY <1>0, <2>1, <4>2 DEF TypeOK, RowsWhole
      <4> QED
        BY <4>1, <4>2
    <3> QED
      BY <2>1, <3>1 DEF RowsWhole, StoredFixes, WholeOf
  <2> QED
    BY <2>3, <2>4, <2>5, HandlerWhole
<1>2. CASE StartAgain(c)
  <2>1. PICK code : Answer(c, Status(code)) /\ UNCHANGED <<tables, told>>
    BY <1>2 DEF StartAgain, Refuse
  <2>2. at[c] = "arrived" /\ call[c].op = "start"
    BY <1>2 DEF StartAgain, Arrived
  <2> QED
    BY <2>1, <2>2, AnswersWhole
<1>3. CASE UnknownSession(c) \/ AppendRefused(c) \/ FinishRefused(c) \/ Abort(c)
  <2>1. PICK code : Answer(c, Status(code)) /\ UNCHANGED <<tables, told>> /\ code # 200
    BY <1>3 DEF UnknownSession, AppendRefused, FinishRefused, Abort, Refuse
  <2>2. at[c] \notin {"free", "answered"}
    BY <1>3 DEF UnknownSession, AppendRefused, FinishRefused, Abort, Arrived
  <2>3. Status(code).status # 200
    BY <2>1 DEF Status
  <2> QED
    BY <2>1, <2>2, <2>3, AnswersWhole
<1>4. CASE AppendFixes(c)
  <2> DEFINE batch == call[c].batch
             rows == Numbered(work[c], NewFixes(w, batch))
  <2>1. /\ at[c] = "append" /\ Answer(c, Status(200))
        /\ walk_fix' = [walk_fix EXCEPT ![w] = @ \union rows]
        /\ session' = [session EXCEPT
              ![w].fix_count = FixCount(work[c], batch, NewFixes(w, batch)),
              ![w].origin = BatchOrigin(batch)]
        /\ acked' = [acked EXCEPT ![w] = @ \union batch]
        /\ UNCHANGED facts
    BY <1>4 DEF AppendFixes
  <2>2. w \in Walks /\ call[c].op = "fixes" /\ session[w] # None /\ batch \subseteq Room[w].fixes
    BY <1>0, <2>1, RequestParts DEF Handled, Carried, Locked
  <2>3. acked'[w] = acked[w] \union batch /\ \A v \in Walks \ {w} : acked'[v] = acked[v]
    BY <1>0, <2>1, <2>2 DEF TypeOK
  <2>4. Grows(c) /\ at'[c] = "answered"
    BY <2>1, <2>3, AnswerGrows
  <2>5. Kept(c)' /\ Derives(c)'
    BY <2>2, <2>3, <2>4 DEF Kept, Derives, Grows
  <2>6. \A r \in rows : r.fix \in batch
    <3> DEFINE new == NewFixes(w, batch)
    <3>1. new \subseteq batch
      BY DEF NewFixes
    <3>2. rows = Numbered(work[c], new)
      OBVIOUS
    <3> HIDE DEF new, rows, batch
    <3>3. ASSUME NEW r \in rows
          PROVE  r.fix \in batch
      <4> DEFINE number(f) == work[c].fix_count + Cardinality({g \in new : g.client_seq < f.client_seq})
      <4>1. rows = {[seq |-> number(f), fix |-> f] : f \in new}
        BY <3>2 DEF Numbered
      <4> HIDE DEF number
      <4>2. PICK f \in new : r = [seq |-> number(f), fix |-> f]
        BY <4>1
      <4> QED
        BY <3>1, <4>2
    <3> QED
      BY <3>3
  <2> HIDE DEF rows
  <2>7. walk_fix'[w] = walk_fix[w] \union rows /\ \A v \in Walks \ {w} : walk_fix'[v] = walk_fix[v]
    BY <1>0, <2>1, <2>2 DEF TypeOK
  <2>8. \A s \in walk_fix'[w] : s.fix \in Room[w].fixes
    <3>1. \A s \in walk_fix[w] : s.fix \in Room[w].fixes
      BY <2>2 DEF RowsWhole, StoredFixes
    <3> HIDE DEF w, batch
    <3> QED
      BY <2>2, <2>6, <2>7, <3>1
  <2>9. /\ session'[w].dog = session[w].dog /\ session'[w].started = session[w].started
        /\ \A v \in Walks \ {w} : session'[v] = session[v]
    <3>1. session[w] \in Session
      BY <1>0, <2>2 DEF TypeOK
    <3> DEFINE a == FixCount(work[c], batch, NewFixes(w, batch))
               b == BatchOrigin(batch)
    <3>2. session' = [session EXCEPT ![w] = [session[w] EXCEPT !.fix_count = a, !.origin = b]]
      BY <2>1
    <3> HIDE DEF a, b
    <3>3. session'[w] = [session[w] EXCEPT !.fix_count = a, !.origin = b]
          /\ \A v \in Walks \ {w} : session'[v] = session[v]
      BY <1>0, <2>2, <3>2 DEF TypeOK
    <3> QED
      BY <3>1, <3>3 DEF Session
  <2>10. RowsWhole'
    <3> HIDE DEF w, batch
    <3>1. ASSUME NEW v \in Walks
          PROVE  /\ session'[v] # None => session'[v].dog = Room[v].dog /\ session'[v].started = Room[v].started
                 /\ StoredFixes(v)' \subseteq Room[v].fixes
                 /\ facts'[v] # None => facts'[v] = WholeOf(v)
      <4>1. facts'[v] # None => facts'[v] = WholeOf(v)
        <5>1. facts' = facts
          BY <2>1
        <5> QED
          BY <5>1 DEF RowsWhole
      <4>2. CASE v = w
        BY <2>2, <2>8, <2>9, <4>1, <4>2 DEF RowsWhole, StoredFixes
      <4>3. CASE v # w
        BY <2>7, <2>9, <4>1, <4>3 DEF RowsWhole, StoredFixes
      <4> QED
        BY <4>2, <4>3
    <3> QED
      BY <3>1 DEF RowsWhole, WholeOf
  <2> QED
    BY <2>4, <2>5, <2>10, HandlerWhole
<1>5. CASE FinishAgain(c)
  <2> DEFINE reply == [status |-> 200, facts |-> facts[w]]
  <2>1. at[c] = "finish" /\ facts[w] # None /\ Answer(c, reply) /\ UNCHANGED tables
    BY <1>5 DEF FinishAgain
  <2>2. call[c].op = "finish"
    BY <1>0, <2>1 DEF Handled
  <2> HIDE DEF reply
  <2> QED
    BY <2>1, <2>2, AnswersWhole
<1>6. CASE ComputeFacts(c)
  <2> DEFINE derived == [dog |-> work[c].dog, started |-> work[c].started,
                         ended |-> call[c].ended, from |-> StoredFixes(w)]
  <2>1. /\ at[c] = "finish" /\ facts[w] = None
        /\ work' = [work EXCEPT ![c] = derived] /\ at' = [at EXCEPT ![c] = "finalize"]
        /\ UNCHANGED <<session, walk_fix, facts, acked, call, answer>>
    BY <1>6 DEF ComputeFacts, tables
  <2>2. /\ w \in Walks /\ call[c].op = "finish" /\ work[c] = session[w] /\ session[w] # None
        /\ call[c].ended = Room[w].ended /\ Room[w].fixes \subseteq acked[w]
    BY <1>0, <2>1, RequestParts DEF Handled, Carried, Locked
  <2>3. acked[w] \subseteq StoredFixes(w) /\ StoredFixes(w) \subseteq Room[w].fixes
    BY <2>1, <2>2 DEF WalkInv, AckedCount, RowsWhole
  <2>4. derived = WholeOf(w)
    <3>1. StoredFixes(w) = Room[w].fixes
      BY <2>2, <2>3
    <3>2. work[c].dog = Room[w].dog /\ work[c].started = Room[w].started
      BY <2>2 DEF RowsWhole
    <3> QED
      BY <2>2, <3>1, <3>2 DEF WholeOf
  <2> HIDE DEF derived
  <2>5. Grows(c) /\ at'[c] = "finalize" /\ work'[c] = derived
    BY <1>0, <2>1 DEF Grows, TypeOK
  <2>6. Kept(c)' /\ Derives(c)'
    BY <2>1, <2>4, <2>5 DEF Kept, Derives, WholeOf
  <2> QED
    BY <2>1, <2>5, <2>6, HandlerWhole, RowsKept
<1>7. CASE Finalize(c)
  <2>1. /\ at[c] = "finalize" /\ facts[w] = None
        /\ facts' = [facts EXCEPT ![w] = work[c]] /\ walk_fix' = [walk_fix EXCEPT ![w] = {}]
        /\ session' = [session EXCEPT ![w].state = "purged"]
        /\ Answer(c, [status |-> 200, facts |-> work[c]]) /\ UNCHANGED acked
    BY <1>7 DEF Finalize
  <2>2. /\ w \in Walks /\ call[c].op = "finish" /\ session[w] # None
        /\ work[c] = WholeOf(w) /\ work[c] # None
    BY <1>0, <2>1, RequestParts, NoneApart DEF Handled, Derives, Locked
  <2> HIDE DEF w
  <2>3. facts'[w] = work[c] /\ \A v \in Walks \ {w} : facts'[v] = facts[v]
    BY <1>0, <2>1, <2>2 DEF TypeOK
  <2>4. Grows(c) /\ at'[c] = "answered"
    BY <2>1, <2>3, AnswerGrows DEF w
  <2>5. Kept(c)' /\ Derives(c)'
    BY <2>2, <2>3, <2>4 DEF Kept, Derives, Grows, w
  <2>6. walk_fix'[w] = {} /\ \A v \in Walks \ {w} : walk_fix'[v] = walk_fix[v]
    BY <1>0, <2>1, <2>2 DEF TypeOK
  <2>7. /\ session'[w].dog = session[w].dog /\ session'[w].started = session[w].started
        /\ \A v \in Walks \ {w} : session'[v] = session[v]
    <3>1. session[w] \in Session
      BY <1>0, <2>2 DEF TypeOK
    <3>2. session'[w] = [session[w] EXCEPT !.state = "purged"]
          /\ \A v \in Walks \ {w} : session'[v] = session[v]
      BY <1>0, <2>1, <2>2 DEF TypeOK
    <3> QED
      BY <3>1, <3>2 DEF Session
  <2>8. ASSUME NEW v \in Walks
        PROVE  /\ session'[v] # None => session'[v].dog = Room[v].dog /\ session'[v].started = Room[v].started
               /\ StoredFixes(v)' \subseteq Room[v].fixes
               /\ facts'[v] # None => facts'[v] = WholeOf(v)
    <3>1. CASE v = w
      BY <2>2, <2>3, <2>6, <2>7, <3>1 DEF RowsWhole, StoredFixes
    <3>2. CASE v # w
      BY <2>3, <2>6, <2>7, <3>2 DEF RowsWhole, StoredFixes
    <3> QED
      BY <3>1, <3>2
  <2>9. RowsWhole'
    BY <2>8 DEF RowsWhole, WholeOf
  <2> QED
    BY <2>4, <2>5, <2>9, HandlerWhole
<1>8. CASE ReadSession(c) \/ LockSession(c)
  <2>1. /\ at[c] = "arrived" /\ UNCHANGED <<session, walk_fix, facts, acked, call, answer>>
        /\ \E to \in {"read_facts", "append", "finish"} : at' = [at EXCEPT ![c] = to]
        /\ work' = [work EXCEPT ![c] = session[w]]
    BY <1>8 DEF ReadSession, LockSession, Arrived, tables
  <2>2. Grows(c) /\ at'[c] \in {"read_facts", "append", "finish"}
    BY <1>0, <2>1 DEF Grows, TypeOK
  <2>3. Kept(c)' /\ Derives(c)'
    BY <2>2 DEF Kept, Derives
  <2> QED
    BY <2>1, <2>2, <2>3, HandlerWhole, RowsKept
<1>9. CASE ReadFacts(c)
  <2> DEFINE reply == [status |-> 200, facts |-> facts[w], state |-> work[c].state]
  <2>1. at[c] = "read_facts" /\ Answer(c, reply) /\ UNCHANGED <<tables, told>>
    BY <1>9 DEF ReadFacts
  <2>2. call[c].op = "read" /\ reply.facts = facts[w]
    BY <1>0, <2>1 DEF Handled
  <2> HIDE DEF reply
  <2> QED
    BY <2>1, <2>2, AnswersWhole
<1> QED
  BY <1>1, <1>2, <1>3, <1>4, <1>5, <1>6, <1>7, <1>8, <1>9 DEF ServerStep, Handle

LEMMA DismissWhole ==
    ASSUME CallsWhole, RowsWhole, ServerInv, NEW c \in Calls, Dismiss(c)
    PROVE  /\ CallsWhole' /\ RowsWhole' /\ acked' = acked /\ facts' = facts
           /\ \A d \in Calls \ {c} : at'[d] = at[d] /\ call'[d] = call[d]
<1>1. /\ at'[c] = "free"
      /\ \A d \in Calls \ {c} : at'[d] = at[d] /\ call'[d] = call[d] /\ answer'[d] = answer[d]
      /\ UNCHANGED <<session, walk_fix, facts, acked, work>>
  BY DEF Dismiss, ServerInv, TypeOK, tables
<1>2. ASSUME NEW d \in Calls
      PROVE  Carried(d)' /\ Kept(d)' /\ Derives(d)'
  <2>1. CASE d = c
    BY <1>1, <2>1 DEF Carried, Kept, Derives
  <2>2. CASE d # c
    BY <1>1, <2>2 DEF CallsWhole, Carried, Kept, Derives, WholeOf
  <2> QED
    BY <2>1, <2>2
<1> QED
  BY <1>1, <1>2, RowsKept DEF CallsWhole

LEMMA ArriveWhole ==
    ASSUME CallsWhole, RowsWhole, ServerInv, NEW c \in Calls, NEW r, Arrive(c, r),
           r.op = "start" => r.dog = Room[r.walk].dog /\ r.started = Room[r.walk].started,
           r.op = "fixes" => r.batch \subseteq Room[r.walk].fixes,
           r.op = "finish" => /\ r.ended = Room[r.walk].ended
                              /\ Room[r.walk].fixes \subseteq acked[r.walk]
    PROVE  /\ CallsWhole' /\ RowsWhole' /\ acked' = acked /\ facts' = facts
           /\ at[c] = "free" /\ at'[c] # "free" /\ call'[c] = r
           /\ \A d \in Calls \ {c} : at'[d] = at[d] /\ call'[d] = call[d]
<1>1. /\ at[c] = "free" /\ at'[c] = "arrived" /\ call'[c] = r
      /\ \A d \in Calls \ {c} : at'[d] = at[d] /\ call'[d] = call[d]
      /\ UNCHANGED <<session, walk_fix, facts, acked, work, answer>>
  BY DEF Arrive, ServerInv, TypeOK, tables
<1>2. ASSUME NEW d \in Calls
      PROVE  Carried(d)' /\ Kept(d)' /\ Derives(d)'
  <2>1. CASE d = c
    BY <1>1, <2>1 DEF Carried, Kept, Derives
  <2>2. CASE d # c
    BY <1>1, <2>2 DEF CallsWhole, Carried, Kept, Derives, WholeOf
  <2> QED
    BY <2>1, <2>2
<1> QED
  BY <1>1, <1>2, RowsKept DEF CallsWhole

\* A client that does nothing is where it was, whatever the server does for
\* the call it waits for.
LEMMA ClientKept ==
    ASSUME NEW k \in Clients, ClientAt(k), WaitsFor(k),
           step'[k] = step[k], target'[k] = target[k], chunk'[k] = chunk[k],
           waiting'[k] = waiting[k], outcome'[k] = outcome[k],
           \A w \in Walks : acked[w] \subseteq acked'[w] /\ (facts[w] # None => facts'[w] # None),
           waiting[k] # None =>
             at'[waiting[k]] # "free" /\ call'[waiting[k]] = call[waiting[k]],
           \A j \in Clients \ {k} : waiting[k] # None => waiting'[j] # waiting[k]
    PROVE  ClientAt(k)' /\ WaitsFor(k)'
<1>1. RequestOf(k)' = RequestOf(k)
  BY DEF RequestOf
<1>2. WaitsFor(k)'
  BY <1>1 DEF WaitsFor
<1>3. ClientAt(k)'
  <2> DEFINE w == target[k]
  <2>1. (step[k] # "idle" \/ outcome[k] = "done") => w \in Walks
    BY DEF ClientAt
  <2>2. CASE w \in Walks
    <3>1. acked[w] \subseteq acked'[w] /\ (facts[w] # None => facts'[w] # None)
      BY <2>2
    <3> QED
      BY <3>1 DEF ClientAt, Before
  <2>3. CASE w \notin Walks
    BY <2>1, <2>3 DEF ClientAt
  <2> QED
    BY <2>2, <2>3
<1> QED
  BY <1>2, <1>3

\* The endpoints see nothing that they do not expect from any caller.
LEMMA ServedAsBefore ==
    ASSUME UploadInv, [NextUpload]_vars
    PROVE  [Next]_serverVars
<1>1. ASSUME NEW k \in Clients, Send(k)
      PROVE  Next
  <2>1. PICK c \in Calls : Arrive(c, RequestOf(k))
    BY <1>1 DEF Send
  <2>2. RequestOf(k) \in Requests
    BY <1>1, SendsRequests DEF Send, UploadInv
  <2> QED
    BY <2>1, <2>2 DEF Next
<1>2. ASSUME NEW k \in Clients, Receive(k)
      PROVE  Next
  BY <1>2 DEF Receive, Next, UploadInv, WaitsFor
<1>3. ASSUME NEW c \in Calls, Serve(c) \/ Fault(c) \/ Discard(c)
      PROVE  Next
  BY <1>3 DEF Serve, Fault, Discard, Next, ServerStep
<1>4. ASSUME NEW w \in Walks, BeginUpload(w) \/ BeginPush(w)
      PROVE  UNCHANGED serverVars
  BY <1>4 DEF BeginUpload, BeginPush, Begin
<1>5. ASSUME NEW k \in Clients, GiveUp(k)
      PROVE  UNCHANGED serverVars
  BY <1>5 DEF GiveUp
<1>6. CASE UNCHANGED vars
  BY <1>6 DEF vars
<1> QED
  BY <1>1, <1>2, <1>3, <1>4, <1>5, <1>6 DEF NextUpload, ClientStep

\* Where a client is after it has taken a step and waits for nothing.
LEMMA ClientMoves ==
    ASSUME ClientTypes, NEW k \in Clients, NEW to \in Steps, NEW n \in Nat, NEW how, NEW w,
           step' = [step EXCEPT ![k] = to], chunk' = [chunk EXCEPT ![k] = n],
           outcome' = [outcome EXCEPT ![k] = how], target' = [target EXCEPT ![k] = w],
           waiting' = [waiting EXCEPT ![k] = None],
           to # "idle" => w \in Walks /\ Room[w].fixes # {} /\ how = "none",
           to = "read" => k = "push",
           to = "fixes" => n * BatchSize < Cardinality(Room[w].fixes)
                           /\ Before(w, n) \subseteq acked'[w],
           to = "finish" => Room[w].fixes \subseteq acked'[w],
           how = "done" => w \in Walks /\ facts'[w] # None
    PROVE  /\ ClientTypes' /\ ClientAt(k)' /\ WaitsFor(k)'
           /\ \A j \in Clients \ {k} :
                /\ step'[j] = step[j] /\ target'[j] = target[j] /\ chunk'[j] = chunk[j]
                /\ waiting'[j] = waiting[j] /\ outcome'[j] = outcome[j]
<1>1. ClientTypes'
  BY DEF ClientTypes
<1>2. /\ step'[k] = to /\ chunk'[k] = n /\ outcome'[k] = how /\ target'[k] = w /\ waiting'[k] = None
      /\ \A j \in Clients \ {k} :
           /\ step'[j] = step[j] /\ target'[j] = target[j] /\ chunk'[j] = chunk[j]
           /\ waiting'[j] = waiting[j] /\ outcome'[j] = outcome[j]
  BY DEF ClientTypes
<1>3. ClientAt(k)'
  BY <1>2 DEF ClientAt, Before
<1>4. WaitsFor(k)'
  BY <1>2 DEF WaitsFor
<1> QED
  BY <1>1, <1>2, <1>3, <1>4

\* Both clients start a walk with nothing acknowledged asked for.
LEMMA BeginKeeps ==
    ASSUME UploadInv, NEW k \in Clients, NEW w \in Walks, NEW first \in {"read", "start"},
           Begin(k, w, first), first = "read" => k = "push"
    PROVE  UploadInv'
<1>1. /\ Room[w].fixes # {} /\ step[k] = "idle" /\ UNCHANGED serverVars /\ UNCHANGED waiting
      /\ step' = [step EXCEPT ![k] = first] /\ target' = [target EXCEPT ![k] = w]
      /\ chunk' = [chunk EXCEPT ![k] = 0] /\ outcome' = [outcome EXCEPT ![k] = "none"]
  BY DEF Begin
<1>2. waiting[k] = None
  BY <1>1 DEF UploadInv, WaitsFor
<1>3. waiting' = [waiting EXCEPT ![k] = None] /\ 0 \in Nat /\ first \in Steps
  BY <1>1, <1>2 DEF UploadInv, ClientTypes, Steps
<1>4. ClientTypes
  BY DEF UploadInv
<1>5. /\ ClientTypes' /\ ClientAt(k)' /\ WaitsFor(k)'
      /\ \A j \in Clients \ {k} :
           /\ step'[j] = step[j] /\ target'[j] = target[j] /\ chunk'[j] = chunk[j]
           /\ waiting'[j] = waiting[j] /\ outcome'[j] = outcome[j]
  BY <1>1, <1>3, <1>4, ClientMoves
<1>6. UNCHANGED <<session, walk_fix, facts, acked, call, at, work, answer>>
  BY <1>1 DEF serverVars, tables
<1>7. ASSUME NEW j \in Clients \ {k}
      PROVE  ClientAt(j)' /\ WaitsFor(j)'
  <2>1. ClientAt(j) /\ WaitsFor(j) /\ j \in Clients
    BY DEF UploadInv
  <2>2. waiting[j] # None => at'[waiting[j]] # "free" /\ call'[waiting[j]] = call[waiting[j]]
    BY <1>6, <2>1 DEF WaitsFor
  <2>3. \A i \in Clients \ {j} : waiting[j] # None => waiting'[i] # waiting[j]
    BY <1>1, <2>1 DEF WaitsFor
  <2>4. \A v \in Walks : acked[v] \subseteq acked'[v] /\ (facts[v] # None => facts'[v] # None)
    BY <1>6
  <2> QED
    BY <1>5, <2>1, <2>2, <2>3, <2>4, ClientKept
<1>8. CallsWhole' /\ RowsWhole'
  BY <1>6 DEF UploadInv, CallsWhole, RowsWhole, Carried, Kept, Derives, WholeOf, StoredFixes
<1> QED
  BY <1>5, <1>7, <1>8 DEF UploadInv

LEMMA SendKeeps ==
    ASSUME UploadInv, ServerInv, NEW k \in Clients, Send(k)
    PROVE  UploadInv'
<1>1. PICK c \in Calls : /\ step[k] # "idle" /\ waiting[k] = None
                         /\ Arrive(c, RequestOf(k)) /\ waiting' = [waiting EXCEPT ![k] = c]
                         /\ UNCHANGED <<step, target, chunk, outcome>>
  BY DEF Send
<1> DEFINE r == RequestOf(k)
           w == target[k]
<1>2. /\ r \in Requests /\ r.walk = w /\ r.op = step[k] /\ w \in Walks
      /\ step[k] = "start" => r.dog = Room[w].dog /\ r.started = Room[w].started
      /\ step[k] = "fixes" => r.batch = Chunk(w, chunk[k])
      /\ step[k] = "finish" => r.ended = Room[w].ended
  BY <1>1, SendsRequests DEF UploadInv, ClientAt
<1>3. step[k] = "finish" => Room[w].fixes \subseteq acked[w]
  BY DEF UploadInv, ClientAt
<1>4. step[k] = "fixes" => Chunk(w, chunk[k]) \subseteq Room[w].fixes
  BY DEF Chunk
<1> HIDE DEF r
<1>5. CallsWhole /\ RowsWhole
  BY DEF UploadInv
<1>6. /\ CallsWhole' /\ RowsWhole' /\ acked' = acked /\ facts' = facts
      /\ at[c] = "free" /\ at'[c] # "free" /\ call'[c] = r
      /\ \A d \in Calls \ {c} : at'[d] = at[d] /\ call'[d] = call[d]
  <2>1. Arrive(c, r)
    BY <1>1 DEF r
  <2> QED
    BY <1>2, <1>3, <1>4, <1>5, <2>1, ArriveWhole
<1>7. waiting'[k] = c /\ \A j \in Clients \ {k} : waiting'[j] = waiting[j]
  BY <1>1 DEF UploadInv, ClientTypes
<1>8. \A j \in Clients : waiting[j] # c /\ ClientAt(j) /\ WaitsFor(j)
  BY <1>6, NoneApart DEF UploadInv, WaitsFor
<1>9. ASSUME NEW j \in Clients \ {k}
      PROVE  ClientAt(j)' /\ WaitsFor(j)'
  <2>1. waiting[j] # None => at'[waiting[j]] # "free" /\ call'[waiting[j]] = call[waiting[j]]
    BY <1>6, <1>8 DEF WaitsFor
  <2>2. \A i \in Clients \ {j} : waiting[j] # None => waiting'[i] # waiting[j]
    BY <1>7, <1>8 DEF WaitsFor
  <2> QED
    BY <1>1, <1>6, <1>7, <1>8, <2>1, <2>2, ClientKept
<1>10. ClientAt(k)'
  <2> HIDE DEF w
  <2> QED
    BY <1>1, <1>6, <1>8 DEF ClientAt, Before
<1>11. WaitsFor(k)'
  <2>1. RequestOf(k)' = r
    BY <1>1 DEF RequestOf, r
  <2> QED
    BY <1>1, <1>6, <1>7, <1>8, <2>1 DEF WaitsFor
<1>12. ClientTypes'
  BY <1>1 DEF UploadInv, ClientTypes
<1> QED
  BY <1>6, <1>9, <1>10, <1>11, <1>12 DEF UploadInv

\* Somebody else's step at the server.
LEMMA ServeKeeps ==
    ASSUME UploadInv, ServerInv, NEW c \in Calls, ServerStep(c),
           UNCHANGED <<step, target, chunk, waiting, outcome>>
    PROVE  UploadInv'
<1>1. Grows(c) /\ CallsWhole' /\ RowsWhole'
  BY ServerWhole DEF UploadInv
<1>2. \A d \in Calls : at[d] # "free" => at'[d] # "free" /\ call'[d] = call[d]
  BY <1>1 DEF Grows
<1>3. \A w \in Walks : acked[w] \subseteq acked'[w] /\ (facts[w] # None => facts'[w] # None)
  BY <1>1 DEF Grows
<1>4. ASSUME NEW k \in Clients
      PROVE  ClientAt(k)' /\ WaitsFor(k)'
  <2>1. ClientAt(k) /\ WaitsFor(k)
    BY DEF UploadInv
  <2>2. waiting[k] # None => at'[waiting[k]] # "free" /\ call'[waiting[k]] = call[waiting[k]]
    BY <1>2, <2>1 DEF WaitsFor
  <2>3. \A j \in Clients \ {k} : waiting[k] # None => waiting'[j] # waiting[k]
    BY <2>1 DEF WaitsFor
  <2> QED
    BY <1>3, <2>1, <2>2, <2>3, ClientKept
<1>5. ClientTypes'
  BY DEF UploadInv, ClientTypes
<1> QED
  BY <1>1, <1>4, <1>5 DEF UploadInv

LEMMA DiscardKeeps ==
    ASSUME UploadInv, ServerInv, NEW c \in Calls, Dismiss(c),
           \A k \in Clients : waiting[k] # c,
           UNCHANGED <<step, target, chunk, waiting, outcome>>
    PROVE  UploadInv'
<1>1. /\ CallsWhole' /\ RowsWhole' /\ acked' = acked /\ facts' = facts
      /\ \A d \in Calls \ {c} : at'[d] = at[d] /\ call'[d] = call[d]
  BY DismissWhole DEF UploadInv
<1>2. ASSUME NEW k \in Clients
      PROVE  ClientAt(k)' /\ WaitsFor(k)'
  <2>1. ClientAt(k) /\ WaitsFor(k)
    BY DEF UploadInv
  <2>2. waiting[k] # None => at'[waiting[k]] # "free" /\ call'[waiting[k]] = call[waiting[k]]
    BY <1>1, <2>1 DEF WaitsFor
  <2>3. \A j \in Clients \ {k} : waiting[k] # None => waiting'[j] # waiting[k]
    BY <2>1 DEF WaitsFor
  <2> QED
    BY <1>1, <2>1, <2>2, <2>3, ClientKept
<1>3. ClientTypes'
  BY DEF UploadInv, ClientTypes
<1> QED
  BY <1>1, <1>2, <1>3 DEF UploadInv

LEMMA GiveUpKeeps ==
    ASSUME UploadInv, NEW k \in Clients, GiveUp(k)
    PROVE  UploadInv'
<1>1. /\ UNCHANGED <<serverVars, target, chunk>> /\ waiting' = [waiting EXCEPT ![k] = None]
      /\ step' = [step EXCEPT ![k] = "idle"] /\ outcome' = [outcome EXCEPT ![k] = "failed"]
  BY DEF GiveUp, End
<1>2. /\ target' = [target EXCEPT ![k] = target[k]] /\ chunk' = [chunk EXCEPT ![k] = chunk[k]]
      /\ chunk[k] \in Nat /\ "idle" \in Steps /\ ClientTypes
  BY <1>1 DEF UploadInv, ClientTypes, Steps
<1>3. /\ ClientTypes' /\ ClientAt(k)' /\ WaitsFor(k)'
      /\ \A j \in Clients \ {k} :
           /\ step'[j] = step[j] /\ target'[j] = target[j] /\ chunk'[j] = chunk[j]
           /\ waiting'[j] = waiting[j] /\ outcome'[j] = outcome[j]
  BY <1>1, <1>2, ClientMoves, ZenonT(30)
<1>4. UNCHANGED <<session, walk_fix, facts, acked, call, at, work, answer>>
  BY <1>1 DEF serverVars, tables
<1>5. waiting'[k] = None
  BY <1>1 DEF UploadInv, ClientTypes
<1>6. ASSUME NEW j \in Clients \ {k}
      PROVE  ClientAt(j)' /\ WaitsFor(j)'
  <2>1. ClientAt(j) /\ WaitsFor(j) /\ j \in Clients
    BY DEF UploadInv
  <2>2. waiting[j] # None => at'[waiting[j]] # "free" /\ call'[waiting[j]] = call[waiting[j]]
    BY <1>4, <2>1 DEF WaitsFor
  <2>3. \A i \in Clients \ {j} : waiting[j] # None => waiting'[i] # waiting[j]
    BY <1>3, <1>5, <2>1 DEF WaitsFor
  <2>4. \A v \in Walks : acked[v] \subseteq acked'[v] /\ (facts[v] # None => facts'[v] # None)
    BY <1>4
  <2> QED
    BY <1>3, <2>1, <2>2, <2>3, <2>4, ClientKept
<1>7. CallsWhole' /\ RowsWhole'
  BY <1>4 DEF UploadInv, CallsWhole, RowsWhole, Carried, Kept, Derives, WholeOf, StoredFixes
<1> QED
  BY <1>3, <1>6, <1>7 DEF UploadInv

\* An answer takes a client on only when the step before it is done: a batch
\* that was acknowledged is added to those before it.
LEMMA AnswerMoves ==
    ASSUME UploadInv, ServerInv, NEW k \in Clients, Receive(k)
    PROVE  \E to \in Steps, n \in Nat, how \in Outcomes :
             /\ step' = [step EXCEPT ![k] = to] /\ chunk' = [chunk EXCEPT ![k] = n]
             /\ outcome' = [outcome EXCEPT ![k] = how]
             /\ to # "idle" => /\ target[k] \in Walks /\ Room[target[k]].fixes # {}
                               /\ how = "none" /\ to # "read"
             /\ to = "fixes" => /\ n * BatchSize < Cardinality(Room[target[k]].fixes)
                                /\ Before(target[k], n) \subseteq acked[target[k]]
             /\ to = "finish" => Room[target[k]].fixes \subseteq acked[target[k]]
             /\ how = "done" => target[k] \in Walks /\ facts[target[k]] # None
<1> DEFINE c == waiting[k]
           w == target[k]
           reply == answer[c]
           Leads(to, n, how) ==
             /\ step' = [step EXCEPT ![k] = to] /\ chunk' = [chunk EXCEPT ![k] = n]
             /\ outcome' = [outcome EXCEPT ![k] = how]
             /\ to # "idle" => w \in Walks /\ Room[w].fixes # {} /\ how = "none" /\ to # "read"
             /\ to = "fixes" => /\ n * BatchSize < Cardinality(Room[w].fixes)
                                /\ Before(w, n) \subseteq acked[w]
             /\ to = "finish" => Room[w].fixes \subseteq acked[w]
             /\ how = "done" => w \in Walks /\ facts[w] # None
<1>0. SUFFICES \E to \in Steps, n \in Nat, how \in Outcomes : Leads(to, n, how)
  OBVIOUS
<1>1. /\ c \in Calls /\ c # None /\ at[c] = "answered" /\ call[c] = RequestOf(k) /\ step[k] # "idle"
      /\ IF step[k] = "read" THEN AfterRead(reply) ELSE AfterReply(k, reply)
  BY DEF Receive, Dismiss, UploadInv, WaitsFor
<1>2. /\ w \in Walks /\ Room[w].fixes # {} /\ outcome[k] = "none" /\ chunk[k] \in Nat
      /\ step[k] \in {"read", "start", "fixes", "finish"}
      /\ step[k] = "fixes" => Before(w, chunk[k]) \subseteq acked[w]
      /\ ClientAt(k) /\ ClientTypes /\ Kept(c)
  BY <1>1 DEF UploadInv, ClientAt, ClientTypes, Steps, CallsWhole
<1>3. /\ call[c].walk = w /\ call[c].op = step[k]
      /\ step[k] = "fixes" => call[c].batch = Chunk(w, chunk[k])
  BY <1>1, <1>2, SendsRequests
<1>4. /\ reply.status = 200 =>
          /\ step[k] = "fixes" => Chunk(w, chunk[k]) \subseteq acked[w]
          /\ step[k] = "finish" => facts[w] # None
          /\ step[k] = "read" => (reply.facts # None => facts[w] # None)
  BY <1>1, <1>2, <1>3 DEF Kept
<1>5. IsFiniteSet(Room[w].fixes) /\ Cardinality(Room[w].fixes) \in Nat
  BY <1>2, RoomParts
<1>6. outcome = [outcome EXCEPT ![k] = "none"] /\ chunk = [chunk EXCEPT ![k] = chunk[k]]
  BY <1>2 DEF ClientTypes
<1>7. 0 * BatchSize < Cardinality(Room[w].fixes) /\ Before(w, 0) = {}
  <2>1. Cardinality(Room[w].fixes) # 0
    BY <1>2, <1>5, FS_EmptySet
  <2>2. 0 * BatchSize = 0
    BY UploadAssumption
  <2> QED
    BY <1>2, <1>5, <2>1, <2>2, BatchesJoin
<1>8. \A s \in Steps : s \in {"idle", "read", "start", "fixes", "finish"}
  BY DEF Steps
<1>9. {"idle", "read", "start", "fixes", "finish"} = Steps
  BY DEF Steps
<1>10. ASSUME NEW how \in Outcomes, End(k, how), how = "done" => facts[w] # None
       PROVE  \E to \in Steps, n \in Nat, h \in Outcomes : Leads(to, n, h)
  <2>1. Leads("idle", chunk[k], how)
    BY <1>2, <1>6, <1>10 DEF End
  <2> HIDE DEF Leads
  <2> QED
    BY <1>2, <1>9, <2>1
<1>11. ASSUME NEW to \in Steps, NEW n \in Nat, GoOn(k, to, n), to # "read",
              to = "fixes" => /\ n * BatchSize < Cardinality(Room[w].fixes)
                              /\ Before(w, n) \subseteq acked[w],
              to = "finish" => Room[w].fixes \subseteq acked[w]
       PROVE  \E s \in Steps, m \in Nat, h \in Outcomes : Leads(s, m, h)
  <2>1. Leads(to, n, "none") /\ "none" \in Outcomes
    BY <1>2, <1>6, <1>11 DEF GoOn, Outcomes
  <2> HIDE DEF Leads
  <2> QED
    BY <2>1
<1> HIDE DEF Leads
<1>12. CASE step[k] = "read"
  <2>1. AfterRead(reply) /\ k = "push"
    BY <1>1, <1>2, <1>12 DEF ClientAt
  <2>2. CASE NeedsPush(reply)
    <3>1. GoOn(k, "start", 0) /\ "start" \in Steps /\ 0 \in Nat
      BY <1>9, <2>1, <2>2 DEF AfterRead
    <3> QED
      BY <1>11, <3>1
  <2>3. CASE ~NeedsPush(reply)
    <3>1. CASE reply.status = 200
      <4>1. End(k, "done") /\ "done" \in Outcomes
        BY <2>1, <2>3, <3>1 DEF AfterRead, Outcomes
      <4>2. facts[w] # None
        BY <1>4, <1>12, <2>3, <3>1 DEF NeedsPush
      <4> QED
        BY <1>10, <4>1, <4>2
    <3>2. CASE reply.status # 200
      <4>1. End(k, "skipped") /\ "skipped" \in Outcomes
        BY <2>1, <2>3, <3>2 DEF AfterRead, Outcomes
      <4> QED
        BY <1>10, <4>1
    <3> QED
      BY <3>1, <3>2
  <2> QED
    BY <2>2, <2>3
<1>13. CASE step[k] # "read" /\ ~Proceeds(k, reply)
  <2>1. PICK how \in {"conflict", "failed"} : End(k, how)
    BY <1>1, <1>13 DEF AfterReply
  <2> QED
    BY <1>10, <2>1 DEF Outcomes
<1>14. CASE step[k] = "start" /\ Proceeds(k, reply)
  <2>1. GoOn(k, "fixes", 0) /\ "fixes" \in Steps
    BY <1>1, <1>9, <1>14 DEF AfterReply
  <2> QED
    BY <1>7, <1>11, <2>1
<1>15. CASE step[k] = "fixes" /\ Proceeds(k, reply)
  <2>1. reply.status = 200
    BY <1>15 DEF Proceeds
  <2>2. Before(w, chunk[k]) \union Chunk(w, chunk[k]) \subseteq acked[w]
    BY <1>2, <1>4, <1>15, <2>1
  <2>3. CASE LastChunk(w, chunk[k])
    <3>1. GoOn(k, "finish", chunk[k]) /\ "finish" \in Steps
      BY <1>1, <1>9, <1>15, <2>3 DEF AfterReply
    <3>2. Room[w].fixes \subseteq acked[w]
      BY <1>2, <2>2, <2>3, BatchesJoin
    <3> QED
      BY <1>2, <1>11, <3>1, <3>2
  <2>4. CASE ~LastChunk(w, chunk[k])
    <3>1. GoOn(k, "fixes", chunk[k] + 1) /\ "fixes" \in Steps /\ chunk[k] + 1 \in Nat
      BY <1>1, <1>2, <1>9, <1>15, <2>4 DEF AfterReply
    <3>2. Before(w, chunk[k] + 1) \subseteq acked[w]
      BY <1>2, <2>2, BatchesJoin
    <3>3. (chunk[k] + 1) * BatchSize < Cardinality(Room[w].fixes)
      BY <1>2, <1>5, <2>4, Multiples DEF LastChunk
    <3> QED
      BY <1>11, <3>1, <3>2, <3>3
  <2> QED
    BY <2>3, <2>4
<1>16. CASE step[k] = "finish" /\ Proceeds(k, reply)
  <2>1. reply.status = 200
    BY <1>16 DEF Proceeds
  <2>2. End(k, "done") /\ "done" \in Outcomes
    BY <1>1, <1>16 DEF AfterReply, Outcomes
  <2> QED
    BY <1>4, <1>10, <1>16, <2>1, <2>2
<1> QED
  BY <1>2, <1>12, <1>13, <1>14, <1>15, <1>16

LEMMA ReceiveKeeps ==
    ASSUME UploadInv, ServerInv, NEW k \in Clients, Receive(k)
    PROVE  UploadInv'
<1> DEFINE c == waiting[k]
<1>1. /\ c \in Calls /\ Dismiss(c) /\ waiting' = [waiting EXCEPT ![k] = None]
      /\ UNCHANGED target
  BY DEF Receive, UploadInv, WaitsFor
<1>2. /\ CallsWhole' /\ RowsWhole' /\ acked' = acked /\ facts' = facts
      /\ \A d \in Calls \ {c} : at'[d] = at[d] /\ call'[d] = call[d]
  BY <1>1, DismissWhole DEF UploadInv
<1>3. PICK to \in Steps, n \in Nat, how \in Outcomes :
             /\ step' = [step EXCEPT ![k] = to] /\ chunk' = [chunk EXCEPT ![k] = n]
             /\ outcome' = [outcome EXCEPT ![k] = how]
             /\ to # "idle" => /\ target[k] \in Walks /\ Room[target[k]].fixes # {}
                               /\ how = "none" /\ to # "read"
             /\ to = "fixes" => /\ n * BatchSize < Cardinality(Room[target[k]].fixes)
                                /\ Before(target[k], n) \subseteq acked[target[k]]
             /\ to = "finish" => Room[target[k]].fixes \subseteq acked[target[k]]
             /\ how = "done" => target[k] \in Walks /\ facts[target[k]] # None
  BY AnswerMoves
<1>4. target' = [target EXCEPT ![k] = target[k]] /\ ClientTypes
  BY <1>1 DEF UploadInv, ClientTypes
<1>5. /\ ClientTypes' /\ ClientAt(k)' /\ WaitsFor(k)'
      /\ \A j \in Clients \ {k} :
           /\ step'[j] = step[j] /\ target'[j] = target[j] /\ chunk'[j] = chunk[j]
           /\ waiting'[j] = waiting[j] /\ outcome'[j] = outcome[j]
  <2> DEFINE w == target[k]
  <2>1. /\ target' = [target EXCEPT ![k] = w]
        /\ to # "idle" => w \in Walks /\ Room[w].fixes # {} /\ how = "none"
        /\ to = "read" => k = "push"
        /\ to = "fixes" => n * BatchSize < Cardinality(Room[w].fixes)
                           /\ Before(w, n) \subseteq acked'[w]
        /\ to = "finish" => Room[w].fixes \subseteq acked'[w]
        /\ how = "done" => w \in Walks /\ facts'[w] # None
    BY <1>2, <1>3, <1>4
  <2> HIDE DEF w
  <2> QED
    BY <1>1, <1>3, <1>4, <2>1, ClientMoves
<1>6. waiting'[k] = None
  BY <1>1 DEF UploadInv, ClientTypes
<1>7. ASSUME NEW j \in Clients \ {k}
      PROVE  ClientAt(j)' /\ WaitsFor(j)'
  <2>1. ClientAt(j) /\ WaitsFor(j) /\ WaitsFor(k) /\ j \in Clients
    BY DEF UploadInv
  <2>2. waiting[j] # None => at'[waiting[j]] # "free" /\ call'[waiting[j]] = call[waiting[j]]
    BY <1>1, <1>2, <2>1 DEF WaitsFor
  <2>3. \A i \in Clients \ {j} : waiting[j] # None => waiting'[i] # waiting[j]
    BY <1>5, <1>6, <2>1 DEF WaitsFor
  <2>4. \A v \in Walks : acked[v] \subseteq acked'[v] /\ (facts[v] # None => facts'[v] # None)
    BY <1>2
  <2> QED
    BY <1>5, <2>1, <2>2, <2>3, <2>4, ClientKept
<1> QED
  BY <1>2, <1>5, <1>7 DEF UploadInv

LEMMA UploadInductive ==
    ASSUME ServerInv, UploadInv, [NextUpload]_vars
    PROVE  ServerInv' /\ UploadInv'
<1>1. ServerInv'
  BY ServedAsBefore, Inductive
<1>2. ASSUME NEW w \in Walks, BeginUpload(w) \/ BeginPush(w)
      PROVE  UploadInv'
  BY <1>2, BeginKeeps DEF BeginUpload, BeginPush, Clients
<1>3. ASSUME NEW c \in Calls, Serve(c) \/ Fault(c)
      PROVE  UploadInv'
  BY <1>3, ServeKeeps DEF Serve, Fault, ServerStep, clientVars
<1>4. ASSUME NEW c \in Calls, Discard(c)
      PROVE  UploadInv'
  BY <1>4, DiscardKeeps DEF Discard, clientVars
<1>5. CASE UNCHANGED vars
  <2>1. /\ UNCHANGED <<session, walk_fix, facts, acked, call, at, work, answer>>
        /\ UNCHANGED <<step, target, chunk, waiting, outcome>>
    BY <1>5 DEF vars, clientVars, serverVars, tables
  <2>2. CallsWhole' /\ RowsWhole' /\ ClientTypes'
    BY <2>1 DEF UploadInv, CallsWhole, RowsWhole, Carried, Kept, Derives, WholeOf, StoredFixes,
                ClientTypes
  <2>3. ASSUME NEW k \in Clients
        PROVE  ClientAt(k)' /\ WaitsFor(k)'
    <3>1. ClientAt(k) /\ WaitsFor(k)
      BY DEF UploadInv
    <3>2. \A j \in Clients \ {k} : waiting[k] # None => waiting'[j] # waiting[k]
      BY <2>1, <3>1 DEF WaitsFor
    <3>3. waiting[k] # None => at'[waiting[k]] # "free" /\ call'[waiting[k]] = call[waiting[k]]
      BY <2>1, <3>1 DEF WaitsFor
    <3>4. \A w \in Walks : acked[w] \subseteq acked'[w] /\ (facts[w] # None => facts'[w] # None)
      BY <2>1
    <3>5. /\ step'[k] = step[k] /\ target'[k] = target[k] /\ chunk'[k] = chunk[k]
          /\ waiting'[k] = waiting[k] /\ outcome'[k] = outcome[k]
      BY <2>1
    <3> QED
      BY <3>1, <3>2, <3>3, <3>4, <3>5, ClientKept
  <2> QED
    BY <1>1, <2>2, <2>3 DEF UploadInv
<1> QED
  BY <1>1, <1>2, <1>3, <1>4, <1>5, SendKeeps, ReceiveKeeps, GiveUpKeeps DEF NextUpload, ClientStep

LEMMA UploadStarts == ASSUME InitUpload PROVE ServerInv /\ UploadInv
<1>1. ServerInv
  BY ServerStarts DEF InitUpload
<1>2. CallsWhole
  BY DEF InitUpload, Init, CallsWhole, Carried, Kept, Derives
<1>3. RowsWhole
  BY DEF InitUpload, Init, RowsWhole, StoredFixes
<1>4. ClientTypes
  BY DEF InitUpload, ClientTypes, Steps
<1>5. \A k \in Clients : ClientAt(k) /\ WaitsFor(k)
  BY DEF InitUpload, ClientAt, WaitsFor
<1> QED
  BY <1>1, <1>2, <1>3, <1>4, <1>5 DEF UploadInv

\* UploadedWalksAreWhole: whatever requests and answers are lost, however often
\* phone and recovery tool send a walk and wherever they overtake each other,
\* facts are those of everything that was recorded.
THEOREM UploadsAreWhole == SpecUpload => []UploadedWalksAreWhole
<1>1. ServerInv /\ UploadInv => UploadedWalksAreWhole
  <2> SUFFICES ASSUME ServerInv, UploadInv
               PROVE  UploadedWalksAreWhole
    OBVIOUS
  <2>1. ASSUME NEW w \in Walks, facts[w] # None
        PROVE  facts[w] = WholeOf(w) /\ walk_fix[w] = {}
    BY <2>1 DEF UploadInv, RowsWhole, ServerInv, WalkInv, RawGone, Unbegun
  <2>2. ASSUME NEW k \in Clients, outcome[k] = "done"
        PROVE  target[k] \in Walks /\ facts[target[k]] # None
    BY <2>2 DEF UploadInv, ClientAt
  <2> QED
    BY <2>1, <2>2 DEF UploadedWalksAreWhole, WholeOf
<1> QED
  BY <1>1, UploadStarts, UploadInductive, PTL DEF SpecUpload

=============================================================================
