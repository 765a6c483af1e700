-------------------------- MODULE ActivityStatistics --------------------------
(***************************************************************************)
(* The statistics streams beside the territory policy and the runners that *)
(* project them.  Producers append inside the transaction that changed the *)
(* policy, under the season's row lock; a cut confirms that the stream is  *)
(* complete up to a time; every generation keeps a checkpoint and rows per *)
(* scope, and a runner that finds a stream ahead of its checkpoint replays *)
(* the scope under the locks of the generation and of the stream.          *)
(*                                                                         *)
(* A step is the part of a transaction between two waits for a lock.  The  *)
(* policy is kept to what the streams tell apart: who owns a site, since   *)
(* which event, and whether the season is closed (TerritoryPolicy and      *)
(* PolicyService have the rest).                                           *)
(***************************************************************************)
EXTENDS ActivityProjection

CONSTANTS
    Season, Walks, Clients,
    Claims,             \* claims the policy is asked for: [event, site, pet, verified]
    Selections,         \* selections the walk host sends: [walk, revision, source]
    Generations, Versions,
    Workers,            \* connections of the producers and readers
    Runners, GenerationOf,
    ScopeOrder,         \* the order run_pending lists the scopes in
    Limit,              \* scopes one run lists
    MaxTime,            \* the largest time the database's clock shows
    Free                \* a lock nobody holds

VARIABLES
    policy,     \* territory_policy_season, _site and _event
    stream,     \* activity_stat_stream and _change, by scope
    session,    \* activity_session_source of the walks, by client
    generation, \* activity_stat_generation
    published,  \* activity_stat_checkpoint, _applied and the result rows
    lock,       \* row locks that are held across a wait
    job,        \* the open transaction of each worker
    run         \* run_pending of each runner

vars == <<policy, stream, session, generation, published,
          lock, job, run>>

Scopes == {Season} \union Walks
Idle == [pc |-> "idle"]
Waiting == [pc |-> "idle", todo |-> <<>>]

ASSUME ScopesAssumption ==
    /\ ScopeOrder \in Seq(Scopes) /\ {ScopeOrder[i] : i \in DOMAIN ScopeOrder} = Scopes
    /\ Season \notin Walks /\ Limit \in Nat \ {0}
    /\ GenerationOf \in [Runners -> Generations]
    /\ Starts \in Nat /\ Ends \in Nat /\ Starts < Ends
    /\ Free \notin Workers \union Runners /\ Workers \intersect Runners = {}

\* The analyses a walk is sent with.
Sent(walk) == {s.source : s \in {t \in Selections : t.walk = walk}}

Payload(server, source) == [server |-> server, span |-> source.span, pets |-> source.pets]

ASSUME SelectionsAssumption ==
    \A s \in Selections :
      /\ s.walk \in Walks
      /\ s.source # None => s.source.client \in Clients /\ None # Payload(s.walk, s.source)

ASSUME ClaimsAssumption == \A c \in Claims : c.site \in Sites /\ c.pet \in Pets /\ c.verified \in BOOLEAN

ASSUME NoneAssumption ==
    /\ None \notin Pets
    /\ \A p \in Pets, v \in BOOLEAN : None # [pet |-> p, verified |-> v]
    /\ \A w \in Walks : None \notin [start : {0}, through : {0}, changes : Seq(Sent(w))]

Init ==
    /\ policy = [status |-> "ACTIVE", owner |-> [s \in Sites |-> None], events |-> <<>>]
    /\ stream = [s \in Scopes |-> None]
    /\ session = [c \in Clients |-> None]
    /\ generation = [g \in Generations |-> None]
    /\ published = [k \in Generations \X Scopes |-> None]
    /\ lock = [season |-> Free, stream |-> [s \in Scopes |-> Free],
               generation |-> [g \in Generations |-> Free]]
    /\ job = [w \in Workers |-> Idle]
    /\ run = [r \in Runners |-> Waiting]

------------------------------------------------------------------------------
\* Changes of a stream

Started(start, at, change) == [start |-> start, through |-> at, changes |-> <<change>>]

\* Bug: a change before the confirmed cut is accepted.
AnyTimeAppendable(change) == stream[Season] # None

\* append_territory reads the revision it appends at under the stream's lock;
\* the change is refused when it lies before what is confirmed.
Appendable(change) == stream[Season] # None /\ change.at >= stream[Season].through

Appended(row, change) ==
    [start |-> row.start, through |-> change.at, changes |-> Append(row.changes, change)]

------------------------------------------------------------------------------
\* Producers: the policy's transactions

Decided(c) == \E i \in DOMAIN policy.events : policy.events[i].event = c.event

PlanKind(c) ==
    LET owner == policy.owner[c.site]
    IN  IF owner = None \/ owner.pet # c.pet THEN "OWNERSHIP_CHANGED"
        ELSE IF owner.verified \/ ~c.verified THEN "UNCHANGED" ELSE "CERTIFIED"

\* The claims that change something.  Protection only refuses more of them.
Admissible(c, now) ==
    /\ policy.status = "ACTIVE" /\ Starts <= now /\ now < Ends
    /\ ~Decided(c) /\ PlanKind(c) # "UNCHANGED"
    /\ LET owner == policy.owner[c.site]
       IN  owner # None /\ owner.pet # c.pet => c.verified

\* The season's row is locked, then the claim is decided at the time the
\* database's clock shows; nothing keeps that clock from being set back.
Claim(w, c, writer, now) ==
    /\ job[w] = Idle /\ lock.season = Free
    /\ Admissible(c, now)
    /\ job' = [job EXCEPT ![w] = [pc |-> "append", op |-> "claim", writer |-> writer,
                                  claim |-> c, kind |-> PlanKind(c), at |-> now]]
    /\ lock' = [lock EXCEPT !.season = w]
    /\ UNCHANGED <<policy, stream, session, generation, published, run>>

Finalize(w, writer, now) ==
    /\ job[w] = Idle /\ lock.season = Free
    /\ policy.status = "ACTIVE" /\ now >= Ends
    /\ job' = [job EXCEPT ![w] = [pc |-> "append", op |-> "finalize", writer |-> writer]]
    /\ lock' = [lock EXCEPT !.season = w]
    /\ UNCHANGED <<policy, stream, session, generation, published, run>>

\* Bug: a cut is taken without the season's barrier.
CaptureUnlocked(w, now) ==
    /\ job[w] = Idle /\ stream[Season] # None
    /\ job' = [job EXCEPT ![w] = [pc |-> "append", op |-> "cut", writer |-> "statistics",
                                  through |-> Max({Starts, now}), closing |-> FALSE]]
    /\ UNCHANGED <<policy, stream, session, generation, published, lock, run>>

\* A cut at or past the season's end finalizes the season first.  The finalization
\* reads the clock once more, which could only refuse it, if set back meanwhile.
Capture(w, now) ==
    /\ job[w] = Idle /\ lock.season = Free /\ stream[Season] # None
    /\ job' = [job EXCEPT ![w] =
                 [pc |-> "append", op |-> "cut", writer |-> "statistics",
                  through |-> Max({Starts, now}),
                  closing |-> policy.status = "ACTIVE" /\ now >= Ends]]
    /\ lock' = [lock EXCEPT !.season = w]
    /\ UNCHANGED <<policy, stream, session, generation, published, run>>

ChangeOf(j) ==
    IF j.op = "claim"
      THEN Owned(j.kind, j.at, j.claim.site, j.claim.pet,
                 IF policy.owner[j.claim.site] = None THEN None
                 ELSE policy.owner[j.claim.site].pet,
                 j.claim.verified)
      ELSE SeasonClosed

EventOf(j) ==
    [event |-> j.claim.event, at |-> j.at, site |-> j.claim.site, pet |-> j.claim.pet,
     verified |-> j.claim.verified, kind |-> j.kind]

PolicyAfter(j) ==
    IF j.op = "claim"
      THEN [status |-> policy.status,
            owner  |-> [policy.owner EXCEPT ![j.claim.site] =
                          [pet |-> j.claim.pet, verified |-> j.claim.verified]],
            events |-> Append(policy.events, EventOf(j))]
      ELSE [policy EXCEPT !.status = "FINALIZED"]

Closes(j) == j.op = "finalize" \/ (j.op = "cut" /\ j.closing)
Writes(j) == j.op = "claim" \/ Closes(j)

\* The stream once the transaction has appended what it changed and, for a cut,
\* confirmed the time; None when either is refused.
StreamAfter(j) ==
    LET old == stream[Season]
        row == IF Writes(j) THEN Appended(old, ChangeOf(j)) ELSE old
    IN  IF old = None \/ (Writes(j) /\ ~Appendable(ChangeOf(j))) THEN None
        ELSE IF j.op # "cut" THEN row
        ELSE IF j.through >= row.through /\ Confirmable(row.changes, row.start, j.through)
          THEN [row EXCEPT !.through = j.through] ELSE None

EndJob(w) ==
    /\ job' = [job EXCEPT ![w] = Idle]
    /\ lock' = [lock EXCEPT !.season = IF @ = w THEN Free ELSE @]

\* With the stream's row locked the transaction appends and commits, or a
\* refusal undoes the policy's writes with it.
Commit(w) ==
    LET j == job[w]
    IN  /\ j.pc = "append" /\ j.writer = "statistics"
        /\ lock.stream[Season] = Free
        /\ LET row == StreamAfter(j)
           IN  IF row = None THEN UNCHANGED <<policy, stream>>
               ELSE /\ stream' = [stream EXCEPT ![Season] = row]
                    /\ policy' = IF Writes(j) THEN PolicyAfter(j) ELSE policy
        /\ EndJob(w)
        /\ UNCHANGED <<session, generation, published, run>>

\* Bug: the deferred trigger is missing.
CommitPlainUnchecked(w) ==
    /\ job[w].pc = "append" /\ job[w].writer = "plain"
    /\ policy' = PolicyAfter(job[w])
    /\ EndJob(w)
    /\ UNCHANGED <<stream, session, generation, published, run>>

\* The writer without statistics: once the season has a stream the deferred
\* trigger fails its commit.
CommitPlain(w) ==
    /\ job[w].pc = "append" /\ job[w].writer = "plain"
    /\ policy' = IF stream[Season] = None THEN PolicyAfter(job[w]) ELSE policy
    /\ EndJob(w)
    /\ UNCHANGED <<stream, session, generation, published, run>>

\* From now on, or from the season's start when nothing has happened in it.
Activate(now, start) ==
    /\ lock.season = Free /\ policy.status = "ACTIVE" /\ start < Ends
    /\ stream[Season] = None
    /\ start = Max({Starts, now}) \/ (start = Starts /\ policy.events = <<>>)
    /\ stream' = [stream EXCEPT ![Season] =
                    Started(start, start, Initialized(start, policy.owner))]
    /\ UNCHANGED <<policy, session, generation, published, lock, job, run>>

------------------------------------------------------------------------------
\* Producers: the host of the walks

\* One row per client; a walk's server identity belongs to one client.  A
\* correction may change the pets of the row and nothing else.
Recordable(client, row, correction) ==
    LET old == session[client]
    IN  IF old = None
          THEN \A c \in Clients : session[c] # None => session[c].server # row.server
          ELSE old = row \/ (correction /\ old.server = row.server /\ old.span = row.span)

Changes(scope) == IF stream[scope] = None THEN <<>> ELSE stream[scope].changes

\* The head of a walk's analyses moved.  An earlier revision sent again changes
\* nothing, a gap is refused.
Select(s) ==
    LET walk == s.walk
        changes == Append(Changes(walk), s.source)
    IN  /\ lock.stream[walk] = Free
        /\ s.revision = Len(Changes(walk)) + 1
        /\ Selectable(changes)
        /\ s.source # None =>
             Recordable(s.source.client, Payload(walk, s.source), s.revision > 1)
        /\ stream' = [stream EXCEPT ![walk] = [start |-> 0, through |-> 0, changes |-> changes]]
        /\ session' = IF s.source = None THEN session
                      ELSE [session EXCEPT ![s.source.client] = Payload(walk, s.source)]
        /\ UNCHANGED <<policy, generation, published, lock, job, run>>

------------------------------------------------------------------------------
\* Generations, refreshes and reads

\* Registered again with other versions it is refused.
Register(g, versions) ==
    /\ generation[g] = None
    /\ generation' = [generation EXCEPT ![g] = versions]
    /\ UNCHANGED <<policy, stream, session, published, lock, job, run>>

UpToDate(g, s) ==
    /\ published[<<g, s>>] # None
    /\ published[<<g, s>>].revision = Len(stream[s].changes)
    /\ published[<<g, s>>].through = stream[s].through

Behind(g, s) ==
    /\ stream[s] # None
    /\ \/ published[<<g, s>>] = None
       \/ published[<<g, s>>].revision < Len(stream[s].changes)
       \/ published[<<g, s>>].through < stream[s].through

PendingScopes(g) ==
    LET behind == SelectSeq(ScopeOrder, LAMBDA s : Behind(g, s))
    IN  SubSeq(behind, 1, Min({Limit, Len(behind)}))

ListPending(r) ==
    LET g == GenerationOf[r]
    IN  /\ run[r].pc = "idle" /\ run[r].todo = <<>>
        /\ generation[g] # None /\ lock.generation[g] = Free
        /\ PendingScopes(g) # <<>>
        /\ run' = [run EXCEPT ![r] = [pc |-> "idle", todo |-> PendingScopes(g)]]
        /\ UNCHANGED <<policy, stream, session, generation,
                       published, lock, job>>

LockGeneration(r) ==
    LET g == GenerationOf[r]
    IN  /\ run[r].pc = "idle" /\ run[r].todo # <<>>
        /\ lock.generation[g] = Free
        /\ lock' = [lock EXCEPT !.generation[g] = r]
        /\ run' = [run EXCEPT ![r] = [pc |-> "stream", todo |-> @.todo]]
        /\ UNCHANGED <<policy, stream, session, generation,
                       published, job>>

LockStream(r) ==
    LET s == Head(run[r].todo)
    IN  /\ run[r].pc = "stream"
        /\ lock.stream[s] = Free
        /\ lock' = [lock EXCEPT !.stream[s] = r]
        /\ run' = [run EXCEPT ![r] = [pc |-> "refresh", todo |-> @.todo]]
        /\ UNCHANGED <<policy, stream, session, generation,
                       published, job>>

\* A stream that is not there cannot be replayed either.
Replayable(s, row) ==
    /\ row # None
    /\ IF s = Season THEN Confirmable(row.changes, row.start, row.through)
       ELSE Selectable(row.changes)

Projection(g, s) ==
    LET row == stream[s]
        replay == Replay(row.changes, row.start)
    IN  IF s = Season
          THEN [revision |-> Len(row.changes), through |-> row.through, start |-> row.start,
                rows |-> replay.periods, counts |-> replay.counts]
          ELSE [revision |-> Len(row.changes), through |-> row.through,
                rows |-> Contributions(row.changes, generation[g])]

Unlocked(r) ==
    [season     |-> lock.season,
     stream     |-> [s \in Scopes |-> IF lock.stream[s] = r THEN Free ELSE lock.stream[s]],
     generation |-> [g \in Generations |->
                       IF lock.generation[g] = r THEN Free ELSE lock.generation[g]]]

\* Checkpoint, rows and receipts are replaced in one transaction.  A stream that
\* cannot be replayed ends the whole run.
Refresh(r) ==
    LET s == Head(run[r].todo)
        g == GenerationOf[r]
    IN  /\ run[r].pc = "refresh"
        /\ published' = IF ~UpToDate(g, s) /\ Replayable(s, stream[s])
                          THEN [published EXCEPT ![<<g, s>>] = Projection(g, s)] ELSE published
        /\ run' = [run EXCEPT ![r] = IF UpToDate(g, s) \/ Replayable(s, stream[s])
                                       THEN [pc |-> "idle", todo |-> Tail(@.todo)] ELSE Waiting]
        /\ lock' = Unlocked(r)
        /\ UNCHANGED <<policy, stream, session, generation, job>>

\* The runner dies; the database rolls its transaction back.
Crash(r) ==
    /\ run[r] # Waiting
    /\ run' = [run EXCEPT ![r] = Waiting]
    /\ lock' = Unlocked(r)
    /\ UNCHANGED <<policy, stream, session, generation, published, job>>

\* Bug: a read does not lock the generation.
BeginReadUnlocked(w, g, s) ==
    /\ job[w] = Idle /\ generation[g] # None
    /\ published[<<g, s>>] # None
    /\ job' = [job EXCEPT ![w] = [pc |-> "rows", generation |-> g, scope |-> s,
                                  revision |-> published[<<g, s>>].revision,
                                  through |-> published[<<g, s>>].through]]
    /\ UNCHANGED <<policy, stream, session, generation, published, lock, run>>

\* A read takes the checkpoint in one statement and the rows in a later one.
BeginRead(w, g, s) ==
    /\ job[w] = Idle /\ generation[g] # None /\ lock.generation[g] = Free
    /\ published[<<g, s>>] # None
    /\ job' = [job EXCEPT ![w] = [pc |-> "rows", generation |-> g, scope |-> s,
                                  revision |-> published[<<g, s>>].revision,
                                  through |-> published[<<g, s>>].through]]
    /\ lock' = [lock EXCEPT !.generation[g] = w]
    /\ UNCHANGED <<policy, stream, session, generation, published, run>>

EndRead(w) ==
    /\ job[w].pc = "rows"
    /\ job' = [job EXCEPT ![w] = Idle]
    /\ lock' = Unlocked(w)
    /\ UNCHANGED <<policy, stream, session, generation, published, run>>

------------------------------------------------------------------------------

Times == 0..MaxTime

Produce(w) ==
    \/ \E c \in Claims, writer \in {"statistics", "plain"}, now \in Times : Claim(w, c, writer, now)
    \/ \E writer \in {"statistics", "plain"}, now \in Times : Finalize(w, writer, now)
    \/ \E now \in Times : Capture(w, now)

Step(w) == Commit(w) \/ CommitPlain(w) \/ EndRead(w)

RunnerStep(r) == ListPending(r) \/ LockGeneration(r) \/ LockStream(r) \/ Refresh(r)

Next ==
    \/ \E w \in Workers : Produce(w) \/ Step(w)
    \/ \E now, start \in Times : Activate(now, start)
    \/ \E s \in Selections : Select(s)
    \/ \E g \in Generations, v \in Versions : Register(g, v)
    \/ \E r \in Runners : RunnerStep(r) \/ Crash(r)
    \/ \E w \in Workers, g \in Generations, s \in Scopes : BeginRead(w, g, s)

Spec == Init /\ [][Next]_vars
==============================================================================
