------------------------------ MODULE WalkServer ------------------------------
(***************************************************************************)
(* The walk collection endpoints: start, fixes, finish and read.  Every    *)
(* HTTP call is one database transaction run by its own handler; uploads   *)
(* and finishes of a walk meet at the row lock of its session.  A handler  *)
(* that dies, or whose caller is gone, rolls back.  Calls arrive from any  *)
(* number of callers, late, repeated and in any order; an answer may never *)
(* be read.                                                                *)
(***************************************************************************)
EXTENDS Integers, FiniteSets

CONSTANTS
    Walks,        \* session ids, made by the phone
    Dogs,
    Calls,        \* handlers that can be at work at once
    Requests,     \* the requests callers may send
    None

\* A reported position.  What matters about it is its place in the walk, the
\* chain it belongs to, where and when it was measured, and whether it is real.
Fix == [client_seq: Nat, chain: Nat, data: Nat, mock: BOOLEAN]

Request ==
         [op: {"start"}, walk: Walks, dog: Dogs, started: Nat]
  \union [op: {"fixes"}, walk: Walks, batch: SUBSET Fix]
  \union [op: {"finish"}, walk: Walks, ended: Nat]
  \union [op: {"read"}, walk: Walks]

\* FixBatchIn refuses every other batch before a handler runs.
WellFormed(r) ==
    r.op = "fixes" =>
      /\ r.batch # {} /\ IsFiniteSet(r.batch)
      /\ \A f, g \in r.batch : f.client_seq = g.client_seq => f = g

ASSUME RequestsAssumption == Requests \subseteq {r \in Request : WellFormed(r)}

Origin(mock) == IF mock THEN "mock" ELSE "device"
BatchOrigin(batch) == IF \E f \in batch : f.mock THEN "mock" ELSE "device"

Session == [dog: Dogs, started: Nat, state: {"open", "sealed", "derived", "purged"},
            origin: {"unknown", "device", "mock"}, fix_count: Nat]

\* Facts are known by what they were derived from.
Facts == {f \in [dog: Dogs, started: Nat, ended: Nat, from: SUBSET Fix] : f.started <= f.ended}

Stored == [seq: Nat, fix: Fix]

ASSUME NullAssumption ==
    None \notin Session \union Facts \union Request \union Calls \union Walks

VARIABLES
    session,      \* walk_session
    walk_fix,     \* walk_fix, with the order of reception in seq
    facts,        \* walk_facts, with the events and the capsule of the same commit
    rowLock,      \* SELECT ... FOR UPDATE on walk_session
    call,         \* what each handler was asked
    at,           \* where it is
    work,         \* what it has read or computed
    answer,       \* what it answers
    acked,        \* history: fixes whose upload was answered 200
    told          \* history: what finish and read answered

tables == <<session, walk_fix, facts, acked>>
serverVars == <<tables, rowLock, call, at, work, answer, told>>

Init ==
    /\ session = [w \in Walks |-> None]
    /\ walk_fix = [w \in Walks |-> {}]
    /\ facts = [w \in Walks |-> None]
    /\ rowLock = [w \in Walks |-> None]
    /\ call = [c \in Calls |-> None]
    /\ at = [c \in Calls |-> "free"]
    /\ work = [c \in Calls |-> None]
    /\ answer = [c \in Calls |-> None]
    /\ acked = [w \in Walks |-> {}]
    /\ told = {}

------------------------------------------------------------------------------
\* Calls

Arrive(c, r) ==
    /\ at[c] = "free"
    /\ call' = [call EXCEPT ![c] = r]
    /\ at' = [at EXCEPT ![c] = "arrived"]
    /\ UNCHANGED <<tables, rowLock, work, answer, told>>

\* Bug: a transaction keeps its row lock after it has answered.
AnswerKeepingLock(c, reply) ==
    /\ at' = [at EXCEPT ![c] = "answered"]
    /\ answer' = [answer EXCEPT ![c] = reply]
    /\ work' = [work EXCEPT ![c] = None]
    /\ UNCHANGED <<call, rowLock>>

\* Ends the transaction, committed or rolled back, and answers.
Answer(c, reply) ==
    /\ at' = [at EXCEPT ![c] = "answered"]
    /\ answer' = [answer EXCEPT ![c] = reply]
    /\ rowLock' = [w \in Walks |-> IF rowLock[w] = c THEN None ELSE rowLock[w]]
    /\ work' = [work EXCEPT ![c] = None]
    /\ UNCHANGED call

Status(code) == [status |-> code]

Refuse(c, code) == Answer(c, Status(code)) /\ UNCHANGED <<tables, told>>

\* A reply is read by the caller, or by nobody.
Dismiss(c) ==
    /\ at[c] = "answered"
    /\ at' = [at EXCEPT ![c] = "free"]
    /\ call' = [call EXCEPT ![c] = None]
    /\ answer' = [answer EXCEPT ![c] = None]
    /\ UNCHANGED <<tables, rowLock, work, told>>

\* The process or its connection dies, or a provider raises: nothing is written.
Abort(c) ==
    /\ at[c] \notin {"free", "answered"}
    /\ Refuse(c, 500)

Arrived(c, op) == at[c] = "arrived" /\ call[c].op = op

------------------------------------------------------------------------------
\* POST /sessions

StartedAs(row, r) == row.dog = r.dog /\ row.started = r.started

\* INSERT ... ON CONFLICT DO NOTHING waits for a rival insert, then the row
\* that is there is compared with the one asked for.
StartSession(c) ==
    LET r == call[c]
    IN  /\ Arrived(c, "start")
        /\ session[r.walk] = None
        /\ session' = [session EXCEPT ![r.walk] =
              [dog |-> r.dog, started |-> r.started, state |-> "open",
               origin |-> "unknown", fix_count |-> 0]]
        /\ Answer(c, Status(200))
        /\ UNCHANGED <<walk_fix, facts, acked, told>>

StartAgain(c) ==
    LET row == session[call[c].walk]
    IN  /\ Arrived(c, "start")
        /\ row # None
        /\ Refuse(c, IF StartedAs(row, call[c]) THEN 200 ELSE 409)

------------------------------------------------------------------------------
\* The row lock shared by uploads and finishes

\* Bug: the session is read without FOR UPDATE.
NeverLocked(w) == TRUE

Unlocked(w) == rowLock[w] = None

LockSession(c) ==
    LET w == call[c].walk
    IN  /\ Arrived(c, "fixes") \/ Arrived(c, "finish")
        /\ session[w] # None
        /\ Unlocked(w)
        /\ rowLock' = [rowLock EXCEPT ![w] = c]
        /\ at' = [at EXCEPT ![c] = IF call[c].op = "fixes" THEN "append" ELSE "finish"]
        /\ work' = [work EXCEPT ![c] = session[w]]
        /\ UNCHANGED <<tables, call, answer, told>>

UnknownSession(c) ==
    /\ Arrived(c, "fixes") \/ Arrived(c, "finish") \/ Arrived(c, "read")
    /\ session[call[c].walk] = None
    /\ Refuse(c, 404)

------------------------------------------------------------------------------
\* POST /sessions/{id}/fixes

StoredFixes(w) == {s.fix : s \in walk_fix[w]}

OneOrigin(row, batch) ==
    /\ \A f, g \in batch : f.mock = g.mock
    /\ \A f \in batch : row.origin \in {"unknown", Origin(f.mock)}

\* A client_seq stored before must come back with the data it was stored with.
SequenceAgrees(w, batch) ==
    \A f \in batch, g \in StoredFixes(w) : f.client_seq = g.client_seq => f = g

Open(row) == row.state = "open"

NewFixes(w, batch) ==
    {f \in batch : \A g \in StoredFixes(w) : g.client_seq # f.client_seq}

\* New rows continue the order of reception from the count read under the
\* lock; a batch is sent in the order of its client_seq.
Numbered(row, new) ==
    {[seq |-> row.fix_count + Cardinality({g \in new : g.client_seq < f.client_seq}),
      fix |-> f] : f \in new}

\* Bug: positions sent again are counted again.
CountingRepeats(row, batch, new) == row.fix_count + Cardinality(batch)

FixCount(row, batch, new) == row.fix_count + Cardinality(new)

Appendable(c) ==
    LET w == call[c].walk
    IN  /\ Open(work[c])
        /\ OneOrigin(work[c], call[c].batch)
        /\ SequenceAgrees(w, call[c].batch)

\* The primary key on seq is the database's own guard, like the unique index on
\* client_seq that NewFixes respects.
AppendFixes(c) ==
    LET w == call[c].walk
        batch == call[c].batch
        new == NewFixes(w, batch)
        rows == Numbered(work[c], new)
    IN  /\ at[c] = "append"
        /\ Appendable(c)
        /\ \A n \in rows, s \in walk_fix[w] : n.seq # s.seq
        /\ walk_fix' = [walk_fix EXCEPT ![w] = @ \union rows]
        /\ session' = [session EXCEPT ![w].fix_count = FixCount(work[c], batch, new),
                                      ![w].origin = BatchOrigin(batch)]
        /\ acked' = [acked EXCEPT ![w] = @ \union batch]
        /\ Answer(c, Status(200))
        /\ UNCHANGED <<facts, told>>

AppendRefused(c) == at[c] = "append" /\ ~Appendable(c) /\ Refuse(c, 409)

------------------------------------------------------------------------------
\* POST /sessions/{id}/finish

\* Bug: a repeated finish answers with the end it was asked for.
FinishWithNewEnd(c) ==
    LET w == call[c].walk
        again == [facts[w] EXCEPT !.ended = call[c].ended]
    IN  /\ at[c] = "finish"
        /\ facts[w] # None
        /\ Answer(c, [status |-> 200, facts |-> again])
        /\ told' = told \union {[walk |-> w, facts |-> again]}
        /\ UNCHANGED tables

\* Facts on record are returned, never derived again.
FinishAgain(c) ==
    LET w == call[c].walk
    IN  /\ at[c] = "finish"
        /\ facts[w] # None
        /\ Answer(c, [status |-> 200, facts |-> facts[w]])
        /\ told' = told \union {[walk |-> w, facts |-> facts[w]]}
        /\ UNCHANGED tables

\* Bug: the end of a walk is not compared with its start.
AnyEnd(row, r) == TRUE

EndsAfterStart(row, r) == row.started <= r.ended

FinishRefused(c) ==
    /\ at[c] = "finish"
    /\ facts[call[c].walk] = None
    /\ ~Open(work[c]) \/ ~EndsAfterStart(work[c], call[c])
    /\ Refuse(c, IF Open(work[c]) THEN 422 ELSE 409)

\* compute_facts over what is stored now; the context provider is awaited
\* after it, with the row still locked.
ComputeFacts(c) ==
    LET w == call[c].walk
    IN  /\ at[c] = "finish"
        /\ facts[w] = None
        /\ Open(work[c])
        /\ EndsAfterStart(work[c], call[c])
        /\ work' = [work EXCEPT ![c] =
              [dog |-> work[c].dog, started |-> work[c].started, ended |-> call[c].ended,
               from |-> StoredFixes(w)]]
        /\ at' = [at EXCEPT ![c] = "finalize"]
        /\ UNCHANGED <<tables, rowLock, call, answer, told>>

\* Sealed, derived and purged in one commit; the primary key of walk_facts
\* lets one finish through.
Finalize(c) ==
    LET w == call[c].walk
    IN  /\ at[c] = "finalize"
        /\ facts[w] = None
        /\ facts' = [facts EXCEPT ![w] = work[c]]
        /\ walk_fix' = [walk_fix EXCEPT ![w] = {}]
        /\ session' = [session EXCEPT ![w].state = "purged"]
        /\ Answer(c, [status |-> 200, facts |-> work[c]])
        /\ told' = told \union {[walk |-> w, facts |-> work[c]]}
        /\ UNCHANGED acked

------------------------------------------------------------------------------
\* GET /sessions/{id}: two reads, each of what is committed when it runs

ReadSession(c) ==
    LET w == call[c].walk
    IN  /\ Arrived(c, "read")
        /\ session[w] # None
        /\ work' = [work EXCEPT ![c] = session[w]]
        /\ at' = [at EXCEPT ![c] = "read_facts"]
        /\ UNCHANGED <<tables, rowLock, call, answer, told>>

ReadFacts(c) ==
    LET w == call[c].walk
    IN  /\ at[c] = "read_facts"
        /\ Answer(c, [status |-> 200, facts |-> facts[w], state |-> work[c].state])
        /\ UNCHANGED <<tables, told>>

------------------------------------------------------------------------------
\* The steps a handler takes on its own
Handle(c) ==
    \/ StartSession(c) \/ StartAgain(c) \/ UnknownSession(c)
    \/ AppendFixes(c) \/ AppendRefused(c)
    \/ FinishAgain(c) \/ FinishRefused(c) \/ ComputeFacts(c) \/ Finalize(c)
    \/ ReadSession(c) \/ ReadFacts(c)

ServerStep(c) == Handle(c) \/ LockSession(c) \/ Abort(c)

Next ==
    \E c \in Calls :
      \/ \E r \in Requests : Arrive(c, r)
      \/ ServerStep(c)
      \/ Dismiss(c)

Spec == Init /\ [][Next]_serverVars
==============================================================================
