------------------------------ MODULE WalkUpload ------------------------------
(***************************************************************************)
(* The two programs that send finished walks to the walk endpoints: the    *)
(* phone's WalkUploader, once when a walk is stopped, and the recovery     *)
(* tool walk_bundle push, which asks the server first and sends whatever   *)
(* has no facts yet.  Both send start, every batch of positions and        *)
(* finish, one request at a time, and keep no record of how far they got.  *)
(* A request or its answer may be lost; a request whose sender gave up is  *)
(* still served.                                                           *)
(***************************************************************************)
EXTENDS WalkServer

CONSTANTS
    Room,        \* [Walks -> what the phone recorded of the walk, once it is closed]
    BatchSize,   \* FixBatchIn's cap, MAX_BATCH and BATCH
    MaxPushes,   \* bound on the runs of walk_bundle push
    MaxFaults    \* bound on lost requests, lost answers and aborted handlers

Recorded == [dog: Dogs, started: Nat, ended: Nat, fixes: SUBSET Fix]

ASSUME UploadAssumption ==
    /\ Room \in [Walks -> Recorded]
    /\ \A w \in Walks : Room[w].started <= Room[w].ended /\ IsFiniteSet(Room[w].fixes)
    /\ BatchSize \in Nat \ {0}
    /\ MaxPushes \in Nat /\ MaxFaults \in Nat

Rank(w, f) == Cardinality({g \in Room[w].fixes : g.client_seq < f.client_seq})

\* fixes.chunked(batchSize), batches()
Chunk(w, n) ==
    {f \in Room[w].fixes : n * BatchSize <= Rank(w, f) /\ Rank(w, f) < (n + 1) * BatchSize}

LastChunk(w, n) == Cardinality(Room[w].fixes) <= (n + 1) * BatchSize

Ask(w) == [op |-> "read", walk |-> w]
Start(w) == [op |-> "start", walk |-> w, dog |-> Room[w].dog, started |-> Room[w].started]
Upload(w, n) == [op |-> "fixes", walk |-> w, batch |-> Chunk(w, n)]
Finish(w) == [op |-> "finish", walk |-> w, ended |-> Room[w].ended]

\* What the two clients may send.
ASSUME ClientsAssumption ==
    \A w \in Walks :
      /\ {Ask(w), Start(w), Finish(w)} \subseteq Requests
      /\ \A n \in 0..Cardinality(Room[w].fixes) :
           n * BatchSize < Cardinality(Room[w].fixes) => Upload(w, n) \in Requests

VARIABLES
    step,        \* what each client does next, "idle" between walks
    target,      \* the walk it sends
    chunk,       \* the batch it is at
    waiting,     \* the call it waits for
    outcome,     \* how its last walk ended
    uploaded,    \* the walks the phone has tried
    pushes, faults

clientVars == <<step, target, chunk, waiting, outcome, uploaded, pushes, faults>>
vars == <<serverVars, clientVars>>

Clients == {"phone", "push"}

InitUpload ==
    /\ Init
    /\ step = [k \in Clients |-> "idle"]
    /\ target = [k \in Clients |-> None]
    /\ chunk = [k \in Clients |-> 0]
    /\ waiting = [k \in Clients |-> None]
    /\ outcome = [k \in Clients |-> "none"]
    /\ uploaded = {}
    /\ pushes = 0
    /\ faults = 0

------------------------------------------------------------------------------
\* What is sent

RequestOf(k) ==
    LET w == target[k]
    IN  CASE step[k] = "read"   -> Ask(w)
          [] step[k] = "start"  -> Start(w)
          [] step[k] = "fixes"  -> Upload(w, chunk[k])
          [] step[k] = "finish" -> Finish(w)

Begin(k, w, first) ==
    /\ step[k] = "idle"
    /\ Room[w].fixes # {}
    /\ step' = [step EXCEPT ![k] = first]
    /\ target' = [target EXCEPT ![k] = w]
    /\ chunk' = [chunk EXCEPT ![k] = 0]
    /\ outcome' = [outcome EXCEPT ![k] = "none"]
    /\ UNCHANGED <<serverVars, waiting, faults>>

\* stopRecording uploads a closed walk once; an empty one is not sent.
BeginUpload(w) ==
    /\ w \notin uploaded
    /\ uploaded' = uploaded \union {w}
    /\ Begin("phone", w, "start")
    /\ UNCHANGED pushes

\* A developer runs push over the exports of the phone.
BeginPush(w) ==
    /\ pushes < MaxPushes
    /\ pushes' = pushes + 1
    /\ Begin("push", w, "read")
    /\ UNCHANGED uploaded

Send(k) ==
    /\ step[k] # "idle" /\ waiting[k] = None
    /\ \E c \in Calls :
         /\ Arrive(c, RequestOf(k))
         /\ waiting' = [waiting EXCEPT ![k] = c]
    /\ UNCHANGED <<step, target, chunk, outcome, uploaded, pushes, faults>>

------------------------------------------------------------------------------
\* What comes back

End(k, how) ==
    /\ step' = [step EXCEPT ![k] = "idle"]
    /\ outcome' = [outcome EXCEPT ![k] = how]
    /\ UNCHANGED chunk

GoOn(k, next, n) ==
    /\ step' = [step EXCEPT ![k] = next]
    /\ chunk' = [chunk EXCEPT ![k] = n]
    /\ UNCHANGED outcome

\* needs_push: completion counts, not existence.
NeedsPush(reply) ==
    reply.status = 404 \/ (reply.status = 200 /\ reply.facts = None)

\* Bug: an upload goes on after a batch was refused.
NeverStops(k, reply) == TRUE

\* WalkApi.post throws on everything but a 2xx; push looks at the status of
\* every answer but start's, where only a 409 stops it.
Proceeds(k, reply) ==
    IF k = "push" /\ step[k] = "start" THEN reply.status # 409 ELSE reply.status = 200

AfterRead(reply) ==
    IF NeedsPush(reply) THEN GoOn("push", "start", 0)
    ELSE End("push", IF reply.status = 200 THEN "done" ELSE "skipped")

AfterReply(k, reply) ==
    IF ~Proceeds(k, reply)
      THEN End(k, IF reply.status = 409 THEN "conflict" ELSE "failed")
    ELSE CASE step[k] = "start" -> GoOn(k, "fixes", 0)
           [] step[k] = "fixes" -> IF LastChunk(target[k], chunk[k]) THEN GoOn(k, "finish", chunk[k])
                                   ELSE GoOn(k, "fixes", chunk[k] + 1)
           [] step[k] = "finish" -> End(k, "done")

Receive(k) ==
    LET c == waiting[k]
    IN  /\ c # None
        /\ Dismiss(c)
        /\ waiting' = [waiting EXCEPT ![k] = None]
        /\ IF step[k] = "read" THEN AfterRead(answer[c]) ELSE AfterReply(k, answer[c])
        /\ UNCHANGED <<target, uploaded, pushes, faults>>

\* A timeout, a broken connection or the death of the client.
GiveUp(k) ==
    /\ step[k] # "idle" /\ faults < MaxFaults
    /\ faults' = faults + 1
    /\ waiting' = [waiting EXCEPT ![k] = None]
    /\ End(k, "failed")
    /\ UNCHANGED <<serverVars, target, uploaded, pushes>>

------------------------------------------------------------------------------
Serve(c) == (Handle(c) \/ LockSession(c)) /\ UNCHANGED clientVars

Fault(c) ==
    /\ faults < MaxFaults
    /\ faults' = faults + 1
    /\ Abort(c)
    /\ UNCHANGED <<step, target, chunk, waiting, outcome, uploaded, pushes>>

\* The answer to a client that gave up reaches nobody.
Discard(c) ==
    /\ \A k \in Clients : waiting[k] # c
    /\ Dismiss(c)
    /\ UNCHANGED clientVars

ClientStep(k) == Send(k) \/ Receive(k)

NextUpload ==
    \/ \E w \in Walks : BeginUpload(w) \/ BeginPush(w)
    \/ \E k \in Clients : ClientStep(k) \/ GiveUp(k)
    \/ \E c \in Calls : Serve(c) \/ Fault(c) \/ Discard(c)

SpecUpload == InitUpload /\ [][NextUpload]_vars

\* Running clients go on, the event loop keeps running its handlers, PostgreSQL
\* serves the waiters of a row lock in turn, and whoever recovers walks keeps
\* running push on each of them.
FairUpload ==
    /\ SpecUpload
    /\ \A k \in Clients : WF_vars(ClientStep(k))
    /\ \A c \in Calls :
         /\ WF_vars(Handle(c) /\ UNCHANGED clientVars)
         /\ SF_vars(LockSession(c) /\ UNCHANGED clientVars)
         /\ WF_vars(Discard(c))
    /\ \A w \in Walks : SF_vars(BeginPush(w))

------------------------------------------------------------------------------
\* Properties

\* The facts of a walk are those of the whole walk as the phone recorded it,
\* its dog, its times and every position, whichever client finished it, in how
\* many batches and after however many broken attempts; and a client that
\* reports it as done leaves them on the server, and nothing of the raw
\* positions (upload, push, needs_push).
UploadedWalksAreWhole ==
    /\ \A w \in Walks : facts[w] # None =>
         facts[w] = [dog |-> Room[w].dog, started |-> Room[w].started,
                     ended |-> Room[w].ended, from |-> Room[w].fixes]
    /\ \A k \in Clients : outcome[k] = "done" =>
         facts[target[k]] # None /\ walk_fix[target[k]] = {}

\* However an upload was cut short, sending the walk again from the start
\* completes it in the end (walk_bundle push is the recovery path).
EveryWalkIsDerived == \A w \in Walks : Room[w].fixes # {} => <>(facts[w] # None)
==============================================================================
