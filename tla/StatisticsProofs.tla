---------------------------- MODULE StatisticsProofs ----------------------------
(***************************************************************************)
(* The properties of the statistics streams, for every set of claims,      *)
(* walks, workers, runners and generations.                                *)
(*                                                                         *)
(* A stream only ever grows at its end, so what was published from its     *)
(* first changes stays their projection; the lock of a generation keeps a  *)
(* reader's rows in place and the lock of the season keeps a decision true *)
(* until it is appended.                                                   *)
(*                                                                         *)
(* The totals of a checkpoint are compared with the policy's events        *)
(* instant by instant: the periods of a replay never overlap at a site and *)
(* cover exactly the instants at which the events tell an owner, so that a *)
(* sum of lengths is a number of instants.                                 *)
(***************************************************************************)
EXTENDS ActivityStatisticsProperties, SequenceTheorems, FiniteSetTheorems, FunctionTheorems,
        WellFoundedInduction, TLAPS

IsSequence(c) == c \in Seq({c[i] : i \in DOMAIN c})

\* A stream's row has a start, a confirmed cut and at least one change; a walk's
\* changes are those it was sent.
Streams ==
    /\ stream = [s \in Scopes |-> stream[s]]
    /\ \A s \in Scopes : stream[s] # None =>
         /\ stream[s] = [start |-> stream[s].start, through |-> stream[s].through,
                         changes |-> stream[s].changes]
         /\ IsSequence(stream[s].changes) /\ stream[s].changes # <<>>
    /\ \A w \in Walks : stream[w] # None =>
         stream[w].changes \in Seq(Sent(w)) /\ Selectable(stream[w].changes)

\* Who has which row locked.
Appending(w) == job[w].pc = "append" /\ lock.season = w

Reading(w) ==
    LET j == job[w]
    IN  /\ j.pc = "rows" /\ j.generation \in Generations /\ j.scope \in Scopes
        /\ lock.generation[j.generation] = w
        /\ published[<<j.generation, j.scope>>] # None
        /\ published[<<j.generation, j.scope>>].revision = j.revision

Locked ==
    /\ lock = [season |-> lock.season, stream |-> lock.stream, generation |-> lock.generation]
    /\ lock.generation = [g \in Generations |-> lock.generation[g]]
    /\ job = [w \in Workers |-> job[w]]
    /\ \A w \in Workers : job[w] = Idle \/ Appending(w) \/ Reading(w)

\* A runner works for a generation that is registered and that it has locked.
Running ==
    /\ run = [r \in Runners |-> run[r]]
    /\ generation = [g \in Generations |-> generation[g]]
    /\ \A r \in Runners :
         /\ run[r] = [pc |-> run[r].pc, todo |-> run[r].todo]
         /\ run[r] # Waiting => generation[GenerationOf[r]] # None
         /\ run[r].pc # "idle" => lock.generation[GenerationOf[r]] = r

\* What the projection of the first n changes of a scope is.
RowsOf(g, s, n) ==
    LET changes == SubSeq(stream[s].changes, 1, n)
    IN  IF s = Season THEN Replay(changes, stream[s].start).periods
        ELSE Contributions(changes, generation[g])

Published ==
    /\ published = [k \in Generations \X Scopes |-> published[k]]
    /\ \A g \in Generations, s \in Scopes : published[<<g, s>>] # None =>
         LET row == published[<<g, s>>]
         IN  /\ generation[g] # None /\ stream[s] # None
             /\ row.revision \in 1..Len(stream[s].changes)
             /\ row.rows = RowsOf(g, s, row.revision)

\* The last analysis of a walk is the one its session shows.
LastAnalysis(w, i) ==
    /\ i \in DOMAIN Changes(w) /\ Changes(w)[i] # None
    /\ \A j \in DOMAIN Changes(w) : j > i => Changes(w)[j] = None

Sessions ==
    /\ session = [c \in Clients |-> session[c]]
    /\ \A w \in Walks : \A i \in DOMAIN Changes(w) :
         LastAnalysis(w, i) => session[Changes(w)[i].client] = Payload(w, Changes(w)[i])

StatInv == Streams /\ Locked /\ Running /\ Published /\ Sessions

------------------------------------------------------------------------------
\* Sequences

LEMMA AppendKeeps ==
    ASSUME NEW S, NEW c \in Seq(S), NEW e
    PROVE  /\ Append(c, e) \in Seq(S \union {e}) /\ Append(c, e) # <<>>
           /\ Len(Append(c, e)) = Len(c) + 1 /\ Len(c) \in Nat
           /\ Append(c, e)[Len(c) + 1] = e
           /\ \A i \in 1..Len(c) : Append(c, e)[i] = c[i]
<1>1. c \in Seq(S \union {e}) /\ e \in S \union {e}
  OBVIOUS
<1> QED
  BY <1>1, AppendProperties

LEMMA PrefixKept ==
    ASSUME NEW S, NEW c \in Seq(S), NEW e, NEW n \in 1..Len(c)
    PROVE  SubSeq(Append(c, e), 1, n) = SubSeq(c, 1, n)
<1>1. c \in Seq(S \union {e}) /\ <<e>> \in Seq(S \union {e}) /\ Append(c, e) = c \o <<e>>
  OBVIOUS
<1> QED
  BY <1>1, SubSeqOfConcat1

LEMMA SequencesAre ==
    ASSUME NEW S, NEW c \in Seq(S)
    PROVE  IsSequence(c)
<1> DEFINE T == {c[i] : i \in DOMAIN c}
<1>1. Len(c) \in Nat /\ DOMAIN c = 1..Len(c) /\ c \in [1..Len(c) -> S]
  BY LenProperties
<1>2. c \in [1..Len(c) -> T]
  BY <1>1
<1>3. c \in UNION {[1..n -> T] : n \in Nat}
  BY <1>1, <1>2
<1> QED
  BY <1>3, SeqDef DEF IsSequence

LEMMA AppendIsSequence ==
    ASSUME NEW c, NEW e, IsSequence(c)
    PROVE  IsSequence(Append(c, e))
<1> DEFINE S == {c[i] : i \in DOMAIN c}
<1>1. c \in Seq(S)
  BY DEF IsSequence
<1>2. Append(c, e) \in Seq(S \union {e})
  BY <1>1, AppendKeeps
<1> QED
  BY <1>2, SequencesAre

------------------------------------------------------------------------------
\* Streams grow

Extended(s) ==
    /\ stream'[s] # None
    /\ s = Season => stream'[s].start = stream[s].start
    /\ Len(stream[s].changes) <= Len(stream'[s].changes)
    /\ \A n \in 1..Len(stream[s].changes) :
         SubSeq(stream'[s].changes, 1, n) = SubSeq(stream[s].changes, 1, n)

LEMMA RowChanged ==
    ASSUME NEW a, NEW b, NEW c, NEW t
    PROVE  [[start |-> a, through |-> b, changes |-> c] EXCEPT !.through = t] =
             [start |-> a, through |-> t, changes |-> c]
  OBVIOUS

LEMMA StreamAfterShape ==
    ASSUME NEW j, StreamAfter(j) # None, Streams
    PROVE  LET old == stream[Season]
               row == StreamAfter(j)
           IN  /\ old # None
               /\ row = [start |-> old.start, through |-> row.through,
                         changes |-> IF Writes(j) THEN Append(old.changes, ChangeOf(j))
                                     ELSE old.changes]
<1> DEFINE old == stream[Season]
           changed == Appended(old, ChangeOf(j))
           row == IF Writes(j) THEN changed ELSE old
           changes == IF Writes(j) THEN Append(old.changes, ChangeOf(j)) ELSE old.changes
           Shape(r) == r = [start |-> old.start, through |-> r.through, changes |-> changes]
<1>1. old # None
  BY DEF StreamAfter
<1>2. old = [start |-> old.start, through |-> old.through, changes |-> old.changes]
  BY <1>1 DEF Streams, Scopes
<1>3. changed = [start |-> old.start, through |-> ChangeOf(j).at,
                 changes |-> Append(old.changes, ChangeOf(j))]
  BY DEF Appended
<1>4. Shape(row)
  <2>1. CASE Writes(j)
    BY <1>3, <2>1
  <2>2. CASE ~Writes(j)
    BY <1>2, <2>2
  <2> QED
    BY <2>1, <2>2
<1>5. Shape([row EXCEPT !.through = j.through])
  <2> DEFINE a == old.start
             b == row.through
             t == j.through
  <2>1. row = [start |-> a, through |-> b, changes |-> changes]
    BY <1>4
  <2> HIDE DEF a, b, t, row, changes
  <2>2. [row EXCEPT !.through = t] = [start |-> a, through |-> t, changes |-> changes]
    BY <2>1, RowChanged
  <2> QED
    BY <2>2 DEF a, t
<1>6. StreamAfter(j) = row \/ StreamAfter(j) = [row EXCEPT !.through = j.through]
  BY DEF StreamAfter
<1> QED
  BY <1>1, <1>4, <1>5, <1>6

LEMMA WhoAppends ==
    ASSUME [Next]_vars
    PROVE  \/ UNCHANGED stream
           \/ \E w \in Workers : Commit(w)
           \/ \E now, start \in Times : Activate(now, start)
           \/ \E s \in Selections : Select(s)
  BY DEF vars, Next, Produce, Step, RunnerStep, Claim, Finalize, Capture, CommitPlain, EndRead,
         Register, ListPending, LockGeneration, LockStream, Refresh, Crash, BeginRead

LEMMA CommitGrows ==
    ASSUME NEW w \in Workers, Commit(w), Streams
    PROVE  Streams' /\ \A s \in Scopes : stream[s] # None => Extended(s)
<1> DEFINE row == StreamAfter(job[w])
           old == stream[Season]
<1>1. CASE row = None
  <2>1. stream' = stream
    BY <1>1 DEF Commit
  <2> QED
    BY <2>1 DEF Streams, Extended
<1>2. CASE row # None
  <2>1. stream' = [stream EXCEPT ![Season] = row]
    BY <1>2 DEF Commit
  <2>2. /\ old # None
        /\ row = [start |-> old.start, through |-> row.through,
                  changes |-> IF Writes(job[w]) THEN Append(old.changes, ChangeOf(job[w]))
                              ELSE old.changes]
    BY <1>2, StreamAfterShape
  <2>3. IsSequence(old.changes) /\ old.changes # <<>> /\ Season \in Scopes
    BY <2>2 DEF Streams, Scopes
  <2> DEFINE longer == Append(old.changes, ChangeOf(job[w]))
  <2>4. IsSequence(longer) /\ longer # <<>> /\ Len(old.changes) \in Nat /\ Len(longer) = Len(old.changes) + 1
        /\ \A n \in 1..Len(old.changes) : SubSeq(longer, 1, n) = SubSeq(old.changes, 1, n)
    <3> DEFINE c == old.changes
               e == ChangeOf(job[w])
               S == {c[i] : i \in DOMAIN c}
    <3>1. IsSequence(c) /\ c \in Seq(S)
      BY <2>3 DEF IsSequence
    <3> HIDE DEF c, e, S
    <3>2. IsSequence(Append(c, e))
      BY <3>1, AppendIsSequence
    <3>3. Append(c, e) # <<>> /\ Len(c) \in Nat /\ Len(Append(c, e)) = Len(c) + 1
      BY <3>1, AppendKeeps
    <3>4. \A n \in 1..Len(c) : SubSeq(Append(c, e), 1, n) = SubSeq(c, 1, n)
      BY <3>1, PrefixKept
    <3> QED
      BY <3>2, <3>3, <3>4 DEF c, e
  <2>5. stream'[Season] = row /\ \A s \in Walks : stream'[s] = stream[s]
    BY <2>1, <2>3, ScopesAssumption DEF Streams, Scopes
  <2>6. stream' = [s \in Scopes |-> stream'[s]]
    BY <2>1 DEF Streams
  <2>7. /\ row = [start |-> row.start, through |-> row.through, changes |-> row.changes]
        /\ IsSequence(row.changes) /\ row.changes # <<>> /\ row.start = old.start
        /\ Len(old.changes) <= Len(row.changes)
        /\ \A n \in 1..Len(old.changes) : SubSeq(row.changes, 1, n) = SubSeq(old.changes, 1, n)
    <3> HIDE DEF row
    <3>1. CASE Writes(job[w])
      <4> HIDE DEF longer
      <4>1. row = [start |-> old.start, through |-> row.through, changes |-> longer]
        BY <2>2, <3>1 DEF longer
      <4>2. row.changes = longer /\ row.start = old.start
        BY <4>1
      <4> QED BY <2>4, <4>1, <4>2
    <3>2. CASE ~Writes(job[w])
      <4>1. row = [start |-> old.start, through |-> row.through, changes |-> old.changes]
        BY <2>2, <3>2
      <4>2. row.changes = old.changes /\ row.start = old.start
        BY <4>1
      <4> QED BY <2>3, <2>4, <4>1, <4>2
    <3> QED
      BY <3>1, <3>2
  <2>8. Extended(Season)
    BY <1>2, <2>5, <2>7 DEF Extended
  <2>9. \A s \in Walks : stream[s] # None => Extended(s)
    BY <2>5, <2>3, ScopesAssumption, SMTT(30) DEF Extended, Streams, Scopes, IsSequence
  <2>10. Streams'
    <3> HIDE DEF row
    <3> QED BY <2>5, <2>6, <2>7 DEF Streams, Scopes
  <2> QED
    BY <2>8, <2>9, <2>10 DEF Scopes
<1> QED
  BY <1>1, <1>2

LEMMA ActivateGrows ==
    ASSUME NEW now \in Times, NEW start \in Times, Activate(now, start), Streams
    PROVE  Streams' /\ \A s \in Scopes : stream[s] # None => Extended(s)
<1> DEFINE change == Initialized(start, policy.owner)
<1>1. /\ stream[Season] = None /\ Season \in Scopes
      /\ stream' = [stream EXCEPT ![Season] =
                      [start |-> start, through |-> start, changes |-> <<change>>]]
  BY DEF Activate, Started, Scopes
<1>2. /\ stream'[Season] = [start |-> start, through |-> start, changes |-> <<change>>]
      /\ \A s \in Walks : stream'[s] = stream[s]
  BY <1>1, ScopesAssumption DEF Streams, Scopes
<1>3. stream' = [s \in Scopes |-> stream'[s]]
  BY <1>1 DEF Streams
<1>4. IsSequence(<<change>>) /\ <<change>> # <<>>
  <2>1. <<change>> \in Seq({change})
    OBVIOUS
  <2> QED
    BY <2>1, SequencesAre
<1>5. \A s \in Walks : stream[s] # None => Extended(s)
  BY <1>2, ScopesAssumption DEF Extended, Streams, Scopes, IsSequence
<1>6. Streams'
  <2> DEFINE row == stream'[Season]
  <2>1. row = [start |-> row.start, through |-> row.through, changes |-> row.changes]
        /\ IsSequence(row.changes) /\ row.changes # <<>>
    BY <1>2, <1>4
  <2> HIDE DEF row
  <2>2. Scopes = {Season} \union Walks /\ stream'[Season] = row
    BY DEF Scopes, row
  <2> QED BY <1>2, <1>3, <2>1, <2>2 DEF Streams
<1> QED
  BY <1>1, <1>5, <1>6 DEF Scopes

LEMMA SelectGrows ==
    ASSUME NEW s \in Selections, Select(s), Streams
    PROVE  /\ Streams' /\ \A t \in Scopes : stream[t] # None => Extended(t)
           /\ s.walk \in Walks
           /\ stream'[s.walk].changes = Append(Changes(s.walk), s.source)
           /\ Changes(s.walk) \in Seq(Sent(s.walk)) /\ s.source \in Sent(s.walk)
           /\ stream'[s.walk] # None
           /\ \A t \in Scopes \ {s.walk} : stream'[t] = stream[t]
<1> DEFINE walk == s.walk
           changes == Append(Changes(walk), s.source)
           row == [start |-> 0, through |-> 0, changes |-> changes]
<1>1. walk \in Walks /\ walk \in Scopes /\ walk # Season
  BY SelectionsAssumption, ScopesAssumption DEF Scopes
<1>2. stream' = [stream EXCEPT ![walk] = row] /\ Selectable(changes)
  BY DEF Select
<1>3. Changes(walk) \in Seq(Sent(walk)) /\ s.source \in Sent(walk)
  <2>1. s.source \in Sent(walk)
    BY DEF Sent
  <2>2. CASE stream[walk] = None
    BY <2>1, <2>2, EmptySeq DEF Changes
  <2>3. CASE stream[walk] # None
    BY <2>1, <2>3, <1>1 DEF Changes, Streams
  <2> QED
    BY <2>2, <2>3, <2>1
<1>4. changes \in Seq(Sent(walk)) /\ changes # <<>> /\ Len(changes) = Len(Changes(walk)) + 1
      /\ Len(Changes(walk)) \in Nat
  BY <1>3, AppendProperties, LenProperties
<1>5. row # None
  BY <1>1, <1>4, NoneAssumption, SMTT(30)
<1>6. IsSequence(changes)
  BY <1>4, SequencesAre
<1>7. stream'[walk] = row /\ \A t \in Scopes \ {walk} : stream'[t] = stream[t]
  BY <1>1, <1>2 DEF Streams
<1>8. stream' = [t \in Scopes |-> stream'[t]]
  BY <1>2 DEF Streams
<1>9. Streams'
  <2>1. /\ stream'[walk] = [start |-> stream'[walk].start, through |-> stream'[walk].through,
                            changes |-> stream'[walk].changes]
        /\ stream'[walk].changes = changes
    BY <1>7
  <2> HIDE DEF changes, row, walk
  <2> QED BY <1>1, <1>2, <1>4, <1>6, <1>7, <1>8, <2>1 DEF Streams, Scopes
<1>10. stream[walk] # None => Extended(walk)
  <2> SUFFICES ASSUME stream[walk] # None
               PROVE  Extended(walk)
    OBVIOUS
  <2>1. Changes(walk) = stream[walk].changes
    BY DEF Changes
  <2>2. \A n \in 1..Len(Changes(walk)) : SubSeq(changes, 1, n) = SubSeq(Changes(walk), 1, n)
    BY <1>3, PrefixKept
  <2>3. stream'[walk] # None /\ stream'[walk].changes = changes
    BY <1>5, <1>7
  <2>4. Len(stream[walk].changes) <= Len(changes)
    BY <1>4, <2>1
  <2> HIDE DEF changes, row
  <2> QED
    BY <1>1, <2>1, <2>2, <2>3, <2>4 DEF Extended
<1>11. \A t \in Scopes \ {walk} : stream[t] # None => Extended(t)
  BY <1>7 DEF Extended, Streams, IsSequence
<1> QED
  BY <1>1, <1>3, <1>5, <1>7, <1>9, <1>10, <1>11

LEMMA StreamsGrow ==
    ASSUME [Next]_vars, Streams
    PROVE  Streams' /\ \A s \in Scopes : stream[s] # None => Extended(s)
<1>1. CASE UNCHANGED stream
  <2>1. Streams'
    BY <1>1 DEF Streams
  <2>2. \A s \in Scopes : stream[s] # None => Len(stream[s].changes) \in Nat
    BY LenProperties DEF Streams, IsSequence
  <2> QED
    BY <1>1, <2>1, <2>2 DEF Extended
<1>2. CASE \E w \in Workers : Commit(w)
  BY <1>2, CommitGrows
<1>3. CASE \E now, start \in Times : Activate(now, start)
  BY <1>3, ActivateGrows
<1>4. CASE \E s \in Selections : Select(s)
  BY <1>4, SelectGrows
<1> QED
  BY <1>1, <1>2, <1>3, <1>4, WhoAppends

------------------------------------------------------------------------------
\* Row locks

\* The lock after each way to change it.
LEMMA LocksAfter ==
    ASSUME Locked, NEW g, NEW w
    PROVE  /\ [lock EXCEPT !.season = w] =
                [season |-> w, stream |-> lock.stream, generation |-> lock.generation]
           /\ [lock EXCEPT !.season = IF @ = w THEN Free ELSE @] =
                [season |-> IF lock.season = w THEN Free ELSE lock.season,
                 stream |-> lock.stream, generation |-> lock.generation]
           /\ [lock EXCEPT !.stream[g] = w] =
                [season |-> lock.season, stream |-> [lock.stream EXCEPT ![g] = w],
                 generation |-> lock.generation]
           /\ [lock EXCEPT !.generation[g] = w] =
                [season |-> lock.season, stream |-> lock.stream,
                 generation |-> [lock.generation EXCEPT ![g] = w]]
<1> DEFINE a == lock.season
           b == lock.stream
           c == lock.generation
<1>1. lock = [season |-> a, stream |-> b, generation |-> c]
  BY DEF Locked
<1> HIDE DEF a, b, c
<1>2. [lock EXCEPT !.season = w] = [season |-> w, stream |-> b, generation |-> c]
  BY <1>1
<1>3. [lock EXCEPT !.season = IF @ = w THEN Free ELSE @] =
           [season |-> IF a = w THEN Free ELSE a, stream |-> b, generation |-> c]
  BY <1>1
<1>4. [lock EXCEPT !.stream[g] = w] =
           [season |-> a, stream |-> [b EXCEPT ![g] = w], generation |-> c]
  BY <1>1
<1>5. [lock EXCEPT !.generation[g] = w] =
           [season |-> a, stream |-> b, generation |-> [c EXCEPT ![g] = w]]
  BY <1>1
<1> QED
  BY <1>2, <1>3, <1>4, <1>5 DEF a, b, c

\* A transaction that takes the free lock of the season.
LEMMA SeasonTaken ==
    ASSUME NEW w \in Workers, Locked,
           job[w] = Idle, lock.season = Free, published' = published,
           lock' = [lock EXCEPT !.season = w],
           job' = [v \in Workers |-> IF v = w THEN job'[w] ELSE job[v]],
           job'[w].pc = "append"
    PROVE  Locked'
<1>1. lock' = [season |-> w, stream |-> lock.stream, generation |-> lock.generation]
  BY LocksAfter
<1>2. lock'.season = w /\ lock'.generation = lock.generation
      /\ lock' = [season |-> lock'.season, stream |-> lock'.stream, generation |-> lock'.generation]
  BY <1>1
<1>3. Appending(w)'
  BY <1>2 DEF Appending
<1>4. ASSUME NEW v \in Workers \ {w}
      PROVE  (job[v] = Idle \/ Appending(v) \/ Reading(v))'
  <2>1. job'[v] = job[v] /\ lock.season # v
    BY ScopesAssumption
  <2>2. job[v] = Idle \/ Reading(v)
    BY <2>1 DEF Locked, Appending
  <2>3. Reading(v) => Reading(v)'
    BY <1>2, <2>1 DEF Reading
  <2> QED
    BY <2>1, <2>2, <2>3
<1> QED
  BY <1>2, <1>3, <1>4 DEF Locked

\* A transaction that ends and gives back the season's lock if it has it.
LEMMA SeasonGiven ==
    ASSUME NEW w \in Workers, Locked, EndJob(w), published' = published
    PROVE  Locked'
<1>1. lock' = [season |-> IF lock.season = w THEN Free ELSE lock.season,
               stream |-> lock.stream, generation |-> lock.generation]
  BY LocksAfter DEF EndJob
<1>2. /\ lock'.generation = lock.generation
      /\ lock'.season = (IF lock.season = w THEN Free ELSE lock.season)
      /\ lock' = [season |-> lock'.season, stream |-> lock'.stream, generation |-> lock'.generation]
  BY <1>1
<1>3. job' = [v \in Workers |-> job'[v]] /\ job'[w] = Idle
      /\ \A v \in Workers \ {w} : job'[v] = job[v]
  BY DEF EndJob, Locked
<1>4. ASSUME NEW v \in Workers \ {w}
      PROVE  (job[v] = Idle \/ Appending(v) \/ Reading(v))'
  <2>1. Appending(v) => Appending(v)'
    BY <1>2, <1>3 DEF Appending
  <2>2. Reading(v) => Reading(v)'
    BY <1>2, <1>3 DEF Reading
  <2> QED
    BY <1>3, <2>1, <2>2 DEF Locked
<1> QED
  BY <1>2, <1>3, <1>4 DEF Locked

\* A step that leaves the workers' transactions and the season's lock, and that
\* touches no generation some worker has locked.
LEMMA ReadersKept ==
    ASSUME Locked, job' = job,
           lock' = [season |-> lock.season, stream |-> lock'.stream,
                    generation |-> lock'.generation],
           lock'.generation = [g \in Generations |-> lock'.generation[g]],
           \A g \in Generations : lock.generation[g] \in Workers =>
              /\ lock'.generation[g] = lock.generation[g]
              /\ \A s \in Scopes : published'[<<g, s>>] = published[<<g, s>>]
    PROVE  Locked'
<1>1. lock'.season = lock.season
  OBVIOUS
<1>2. ASSUME NEW v \in Workers
      PROVE  (job[v] = Idle \/ Appending(v) \/ Reading(v))'
  <2>1. Appending(v) => Appending(v)'
    BY <1>1 DEF Appending
  <2>2. Reading(v) => Reading(v)'
    BY DEF Reading
  <2> QED
    BY <2>1, <2>2 DEF Locked
<1> QED
  BY <1>1, <1>2 DEF Locked

\* A transaction that gives back all it has.
LEMMA AllGiven ==
    ASSUME NEW r, lock' = Unlocked(r), Locked
    PROVE  /\ lock' = [season |-> lock.season, stream |-> lock'.stream,
                       generation |-> lock'.generation]
           /\ lock'.generation = [g \in Generations |-> lock'.generation[g]]
           /\ \A g \in Generations :
                lock'.generation[g] = IF lock.generation[g] = r THEN Free ELSE lock.generation[g]
  BY DEF Unlocked, Locked

LEMMA LocksNext ==
    ASSUME [Next]_vars, Locked, Running, Published
    PROVE  Locked'
<1> USE ScopesAssumption
<1>1. ASSUME NEW w \in Workers, NEW c \in Claims, NEW writer, NEW now \in Times,
             Claim(w, c, writer, now)
      PROVE  Locked'
  BY <1>1, SeasonTaken DEF Claim, Locked
<1>2. ASSUME NEW w \in Workers, NEW writer, NEW now \in Times, Finalize(w, writer, now)
      PROVE  Locked'
  BY <1>2, SeasonTaken DEF Finalize, Locked
<1>3. ASSUME NEW w \in Workers, NEW now \in Times, Capture(w, now)
      PROVE  Locked'
  BY <1>3, SeasonTaken DEF Capture, Locked
<1>4. ASSUME NEW w \in Workers, Commit(w) \/ CommitPlain(w)
      PROVE  Locked'
  BY <1>4, SeasonGiven DEF Commit, CommitPlain
<1>5. ASSUME NEW w \in Workers, EndRead(w)
      PROVE  Locked'
  <2>1. job' = [v \in Workers |-> job'[v]] /\ job'[w] = Idle
        /\ (\A v \in Workers \ {w} : job'[v] = job[v]) /\ published' = published
    BY <1>5 DEF EndRead, Locked
  <2>2. /\ lock' = [season |-> lock.season, stream |-> lock'.stream,
                    generation |-> lock'.generation]
        /\ lock'.generation = [g \in Generations |-> lock'.generation[g]]
        /\ \A g \in Generations :
             lock'.generation[g] = IF lock.generation[g] = w THEN Free ELSE lock.generation[g]
    BY <1>5, AllGiven DEF EndRead
  <2>3. lock'.season = lock.season
    BY <2>2
  <2>4. ASSUME NEW v \in Workers \ {w}
        PROVE  (job[v] = Idle \/ Appending(v) \/ Reading(v))'
    <3>1. Appending(v) => Appending(v)'
      BY <2>1, <2>3 DEF Appending
    <3>2. Reading(v) => Reading(v)'
      BY <2>1, <2>2 DEF Reading
    <3> QED
      BY <2>1, <3>1, <3>2 DEF Locked
  <2> QED
    BY <2>1, <2>2, <2>3, <2>4 DEF Locked
<1>6. ASSUME NEW r \in Runners, LockGeneration(r)
      PROVE  Locked'
  <2> DEFINE g == GenerationOf[r]
  <2>1. lock' = [season |-> lock.season, stream |-> lock.stream,
                 generation |-> [lock.generation EXCEPT ![g] = r]]
    BY <1>6, LocksAfter DEF LockGeneration
  <2>2. lock'.generation = [lock.generation EXCEPT ![g] = r] /\ lock'.stream = lock.stream
    BY <2>1
  <2>3. lock.generation[g] = Free /\ g \in Generations
        /\ UNCHANGED <<job, published>>
    BY <1>6 DEF LockGeneration
  <2>4. lock' = [season |-> lock.season, stream |-> lock'.stream, generation |-> lock'.generation]
    BY <2>1, <2>2
  <2>5. /\ lock'.generation = [h \in Generations |-> lock'.generation[h]]
        /\ \A h \in Generations : lock.generation[h] \in Workers =>
             lock'.generation[h] = lock.generation[h]
    BY <2>2, <2>3 DEF Locked
  <2> QED
    BY <2>3, <2>4, <2>5, ReadersKept
<1>7. ASSUME NEW r \in Runners, LockStream(r)
      PROVE  Locked'
  <2> DEFINE s == Head(run[r].todo)
  <2>1. lock' = [season |-> lock.season, stream |-> [lock.stream EXCEPT ![s] = r],
                 generation |-> lock.generation]
    BY <1>7, LocksAfter DEF LockStream
  <2>2. lock'.generation = lock.generation /\ UNCHANGED <<job, published>>
        /\ lock' = [season |-> lock.season, stream |-> lock'.stream, generation |-> lock'.generation]
    BY <1>7, <2>1 DEF LockStream
  <2>3. lock'.generation = [h \in Generations |-> lock'.generation[h]]
    BY <2>2 DEF Locked
  <2> QED
    BY <2>2, <2>3, ReadersKept
<1>8. ASSUME NEW r \in Runners, Refresh(r) \/ Crash(r)
      PROVE  Locked'
  <2> DEFINE g == GenerationOf[r]
  <2>1. job' = job /\ lock' = Unlocked(r)
    BY <1>8 DEF Refresh, Crash
  <2>2. \A h \in Generations : lock.generation[h] \in Workers =>
          \A s \in Scopes : published'[<<h, s>>] = published[<<h, s>>]
    <3>1. CASE Crash(r)
      BY <3>1 DEF Crash
    <3>2. CASE Refresh(r)
      <4>1. lock.generation[g] = r
        BY <3>2 DEF Refresh, Running
      <4>2. \/ published' = published
            \/ published' = [published EXCEPT ![<<g, Head(run[r].todo)>>] =
                                Projection(g, Head(run[r].todo))]
        BY <3>2 DEF Refresh
      <4>3. \A h \in Generations, s \in Scopes :
              h # g => published'[<<h, s>>] = published[<<h, s>>]
        <5>1. published = [k \in Generations \X Scopes |-> published[k]]
          BY DEF Published
        <5> SUFFICES ASSUME NEW h \in Generations, NEW s \in Scopes, h # g
                     PROVE  published'[<<h, s>>] = published[<<h, s>>]
          OBVIOUS
        <5>2. <<h, s>> \in Generations \X Scopes /\ <<h, s>> # <<g, Head(run[r].todo)>>
          OBVIOUS
        <5> QED
          BY <4>2, <5>1, <5>2
      <4> QED
        BY <4>1, <4>3
    <3> QED
      BY <1>8, <3>1, <3>2
  <2>3. /\ lock' = [season |-> lock.season, stream |-> lock'.stream,
                    generation |-> lock'.generation]
        /\ lock'.generation = [h \in Generations |-> lock'.generation[h]]
        /\ \A h \in Generations :
             lock'.generation[h] = IF lock.generation[h] = r THEN Free ELSE lock.generation[h]
    BY <2>1, AllGiven
  <2> QED
    BY <2>1, <2>2, <2>3, ReadersKept
<1>9. ASSUME NEW w \in Workers, NEW g \in Generations, NEW s \in Scopes, BeginRead(w, g, s)
      PROVE  Locked'
  <2>1. lock' = [season |-> lock.season, stream |-> lock.stream,
                 generation |-> [lock.generation EXCEPT ![g] = w]]
    BY <1>9, LocksAfter DEF BeginRead
  <2>2. lock'.generation = [lock.generation EXCEPT ![g] = w] /\ lock'.season = lock.season
        /\ lock' = [season |-> lock'.season, stream |-> lock'.stream, generation |-> lock'.generation]
    BY <2>1
  <2>3. /\ job' = [v \in Workers |-> job'[v]] /\ published' = published
        /\ lock.generation[g] = Free /\ published[<<g, s>>] # None
        /\ job'[w] = [pc |-> "rows", generation |-> g, scope |-> s,
                      revision |-> published[<<g, s>>].revision,
                      through |-> published[<<g, s>>].through]
        /\ \A v \in Workers \ {w} : job'[v] = job[v]
    BY <1>9 DEF BeginRead, Locked
  <2>4. lock'.generation = [h \in Generations |-> lock'.generation[h]]
        /\ lock'.generation[g] = w
        /\ \A h \in Generations : lock.generation[h] \in Workers =>
             lock'.generation[h] = lock.generation[h]
    BY <2>2, <2>3 DEF Locked
  <2>5. Reading(w)'
    BY <2>3, <2>4 DEF Reading
  <2>6. ASSUME NEW v \in Workers \ {w}
        PROVE  (job[v] = Idle \/ Appending(v) \/ Reading(v))'
    <3>1. Appending(v) => Appending(v)'
      BY <2>2, <2>3 DEF Appending
    <3>2. ASSUME Reading(v)
          PROVE  Reading(v)'
      <4>1. job'[v] = job[v] /\ published' = published /\ v \in Workers
        BY <2>3
      <4>2. lock.generation[job[v].generation] = v /\ job[v].generation \in Generations
        BY <3>2 DEF Reading
      <4>3. lock'.generation[job[v].generation] = v
        BY <2>4, <4>1, <4>2
      <4> QED
        BY <3>2, <4>1, <4>3 DEF Reading
    <3> QED
      BY <2>3, <3>1, <3>2 DEF Locked
  <2> QED
    BY <2>2, <2>3, <2>4, <2>5, <2>6 DEF Locked
<1>10. ASSUME UNCHANGED <<lock, job, published>>
       PROVE  Locked'
  BY <1>10 DEF Locked, Appending, Reading
<1> QED
  BY <1>1, <1>2, <1>3, <1>4, <1>5, <1>6, <1>7, <1>8, <1>9, <1>10
  DEF Next, vars, Produce, Step, RunnerStep, Activate, Select, Register, ListPending

------------------------------------------------------------------------------
\* Runners

\* A step that no runner sees.
LEMMA RunnersKept ==
    ASSUME Running, run' = run,
           generation' = [g \in Generations |-> generation'[g]],
           \A g \in Generations : generation[g] # None => generation'[g] = generation[g],
           \A r \in Runners :
             lock.generation[GenerationOf[r]] = r => lock'.generation[GenerationOf[r]] = r
    PROVE  Running'
<1>1. \A r \in Runners : GenerationOf[r] \in Generations
  BY ScopesAssumption
<1> QED
  BY <1>1 DEF Running

\* A step of one runner, which no other runner sees.
LEMMA RunnerMoves ==
    ASSUME Running, NEW r \in Runners,
           run' = [q \in Runners |-> run'[q]], generation' = generation,
           \A q \in Runners \ {r} :
             /\ run'[q] = run[q]
             /\ lock.generation[GenerationOf[q]] = q => lock'.generation[GenerationOf[q]] = q,
           run'[r] = [pc |-> run'[r].pc, todo |-> run'[r].todo],
           run'[r] # Waiting => generation[GenerationOf[r]] # None,
           run'[r].pc # "idle" => lock'.generation[GenerationOf[r]] = r
    PROVE  Running'
<1>1. ASSUME NEW q \in Runners \ {r}
      PROVE  (/\ run[q] = [pc |-> run[q].pc, todo |-> run[q].todo]
              /\ run[q] # Waiting => generation[GenerationOf[q]] # None
              /\ run[q].pc # "idle" => lock.generation[GenerationOf[q]] = q)'
  BY DEF Running
<1> QED
  BY <1>1 DEF Running

LEMMA RunnersNext ==
    ASSUME [Next]_vars, Running, Locked
    PROVE  Running'
<1> USE ScopesAssumption
<1>1. ASSUME NEW r \in Runners, ListPending(r)
      PROVE  Running'
  <2>1. run' = [q \in Runners |-> IF q = r
                  THEN [pc |-> "idle", todo |-> PendingScopes(GenerationOf[r])] ELSE run[q]]
    BY <1>1 DEF ListPending, Running
  <2>2. run[r].pc = "idle" /\ generation[GenerationOf[r]] # None
        /\ UNCHANGED <<generation, lock>>
    BY <1>1 DEF ListPending
  <2>3. run'[r].pc = "idle"
    BY <2>1, <2>2
  <2>4. run'[r] = [pc |-> run'[r].pc, todo |-> run'[r].todo]
    BY <2>1
  <2> QED
    BY <2>1, <2>2, <2>3, <2>4, RunnerMoves, SMTT(30)
<1>2. ASSUME NEW r \in Runners, LockGeneration(r)
      PROVE  Running'
  <2> DEFINE g == GenerationOf[r]
  <2>1. run' = [q \in Runners |-> IF q = r THEN [pc |-> "stream", todo |-> run[r].todo] ELSE run[q]]
    BY <1>2 DEF LockGeneration, Running
  <2>2. /\ run[r].pc = "idle" /\ run[r].todo # <<>> /\ generation' = generation
        /\ lock.generation[g] = Free /\ g \in Generations
        /\ lock' = [lock EXCEPT !.generation[g] = r]
    BY <1>2 DEF LockGeneration
  <2>3. lock' = [season |-> lock.season, stream |-> lock.stream,
                 generation |-> [lock.generation EXCEPT ![g] = r]]
    BY <2>2, LocksAfter
  <2>4. lock'.generation = [lock.generation EXCEPT ![g] = r]
    BY <2>3
  <2>5. lock'.generation[g] = r /\ \A q \in Runners \ {r} :
          lock.generation[GenerationOf[q]] = q => lock'.generation[GenerationOf[q]] = q
    BY <2>2, <2>4 DEF Locked
  <2>6. run[r] # Waiting
    BY <2>2 DEF Waiting
  <2>7. generation[g] # None
    BY <2>6 DEF Running
  <2>8. run'[r] = [pc |-> run'[r].pc, todo |-> run'[r].todo]
    BY <2>1
  <2> QED
    BY <2>1, <2>2, <2>5, <2>7, <2>8, RunnerMoves
<1>3. ASSUME NEW r \in Runners, LockStream(r)
      PROVE  Running'
  <2> DEFINE s == Head(run[r].todo)
  <2>1. run' = [q \in Runners |-> IF q = r THEN [pc |-> "refresh", todo |-> run[r].todo] ELSE run[q]]
    BY <1>3 DEF LockStream, Running
  <2>2. lock' = [season |-> lock.season, stream |-> [lock.stream EXCEPT ![s] = r],
                 generation |-> lock.generation]
    BY <1>3, LocksAfter DEF LockStream
  <2>3. lock'.generation = lock.generation /\ generation' = generation /\ run[r].pc = "stream"
    BY <1>3, <2>2 DEF LockStream
  <2>4. run[r] # Waiting
    BY <2>3 DEF Waiting
  <2>5. generation[GenerationOf[r]] # None /\ lock.generation[GenerationOf[r]] = r
    BY <2>3, <2>4 DEF Running
  <2>6. run'[r] = [pc |-> run'[r].pc, todo |-> run'[r].todo]
    BY <2>1
  <2> QED
    BY <2>1, <2>3, <2>5, <2>6, RunnerMoves
<1>4. ASSUME NEW r \in Runners, Refresh(r) \/ Crash(r)
      PROVE  Running'
  <2>1. lock' = Unlocked(r) /\ generation' = generation
    BY <1>4 DEF Refresh, Crash
  <2>2. \A g \in Generations :
          lock'.generation[g] = IF lock.generation[g] = r THEN Free ELSE lock.generation[g]
    BY <2>1, AllGiven
  <2>3. run' = [q \in Runners |-> run'[q]] /\ \A q \in Runners \ {r} : run'[q] = run[q]
    BY <1>4 DEF Refresh, Crash, Running
  <2>4. /\ run'[r] = [pc |-> run'[r].pc, todo |-> run'[r].todo] /\ run'[r].pc = "idle"
        /\ run'[r] # Waiting => generation[GenerationOf[r]] # None
    <3>1. CASE run'[r] = Waiting
      BY <3>1 DEF Waiting
    <3>2. CASE run'[r] # Waiting
      <4>1. run' = [run EXCEPT ![r] = [pc |-> "idle", todo |-> Tail(run[r].todo)]]
            /\ run[r].pc = "refresh"
        BY <1>4, <3>2 DEF Refresh, Crash, Running
      <4>2. run'[r] = [pc |-> "idle", todo |-> Tail(run[r].todo)]
        BY <4>1 DEF Running
      <4>3. run[r] # Waiting
        BY <4>1 DEF Waiting
      <4>4. generation[GenerationOf[r]] # None
        BY <4>3 DEF Running
      <4> QED
        BY <4>2, <4>4
    <3> QED
      BY <3>1, <3>2
  <2> QED
    BY <2>1, <2>2, <2>3, <2>4, RunnerMoves, SMTT(30)
<1>5. ASSUME NEW w \in Workers, EndRead(w)
      PROVE  Running'
  <2>1. \A g \in Generations :
          lock'.generation[g] = IF lock.generation[g] = w THEN Free ELSE lock.generation[g]
    BY <1>5, AllGiven DEF EndRead
  <2> QED
    BY <1>5, <2>1, RunnersKept DEF EndRead, Running
<1>6. ASSUME NEW w \in Workers, NEW g \in Generations, NEW s \in Scopes, BeginRead(w, g, s)
      PROVE  Running'
  <2>1. lock' = [season |-> lock.season, stream |-> lock.stream,
                 generation |-> [lock.generation EXCEPT ![g] = w]]
    BY <1>6, LocksAfter DEF BeginRead
  <2>2. lock'.generation = [lock.generation EXCEPT ![g] = w] /\ lock.generation[g] = Free
        /\ UNCHANGED <<run, generation>>
    BY <1>6, <2>1 DEF BeginRead
  <2>3. \A q \in Runners :
          lock.generation[GenerationOf[q]] = q => lock'.generation[GenerationOf[q]] = q
    BY <2>2 DEF Locked
  <2> QED
    BY <2>2, <2>3, RunnersKept DEF Running
<1>7. ASSUME NEW g \in Generations, NEW v \in Versions, Register(g, v)
      PROVE  Running'
  <2>1. generation[g] = None /\ generation' = [generation EXCEPT ![g] = v]
        /\ UNCHANGED <<run, lock>>
    BY <1>7 DEF Register
  <2>2. generation' = [h \in Generations |-> generation'[h]]
        /\ \A h \in Generations : generation[h] # None => generation'[h] = generation[h]
    BY <2>1 DEF Running
  <2> QED
    BY <2>1, <2>2, RunnersKept DEF Running
<1>8. ASSUME NEW w \in Workers, lock' = [lock EXCEPT !.season = w], UNCHANGED <<run, generation>>
      PROVE  Running'
  <2>1. lock' = [season |-> w, stream |-> lock.stream, generation |-> lock.generation]
    BY <1>8, LocksAfter
  <2>2. lock'.generation = lock.generation
    BY <2>1
  <2> QED
    BY <1>8, <2>2 DEF Running
<1>9. ASSUME NEW w \in Workers, EndJob(w), UNCHANGED <<run, generation>>
      PROVE  Running'
  <2>1. lock' = [season |-> IF lock.season = w THEN Free ELSE lock.season,
                 stream |-> lock.stream, generation |-> lock.generation]
    BY <1>9, LocksAfter DEF EndJob
  <2>2. lock'.generation = lock.generation
    BY <2>1
  <2> QED
    BY <1>9, <2>2 DEF Running
<1>10. ASSUME UNCHANGED <<lock, run, generation>>
       PROVE  Running'
  BY <1>10 DEF Running
<1>11. ASSUME NEW w \in Workers, Produce(w)
       PROVE  lock' = [lock EXCEPT !.season = w] /\ UNCHANGED <<run, generation>>
  BY <1>11 DEF Produce, Claim, Finalize, Capture
<1>12. ASSUME NEW w \in Workers, Commit(w) \/ CommitPlain(w)
       PROVE  EndJob(w) /\ UNCHANGED <<run, generation>>
  BY <1>12 DEF Commit, CommitPlain
<1> QED
  BY <1>1, <1>2, <1>3, <1>4, <1>5, <1>6, <1>7, <1>8, <1>9, <1>10, <1>11, <1>12
  DEF Next, vars, Step, RunnerStep, Activate, Select

------------------------------------------------------------------------------
\* What is published

PublishedAt(g, s) ==
    LET row == published[<<g, s>>]
    IN  /\ generation[g] # None /\ stream[s] # None
        /\ row.revision \in 1..Len(stream[s].changes)
        /\ row.rows = RowsOf(g, s, row.revision)

LEMMA StaysPublished ==
    ASSUME NEW g \in Generations, NEW s \in Scopes, PublishedAt(g, s), Streams, Streams',
           Extended(s), generation'[g] = generation[g],
           published'[<<g, s>>] = published[<<g, s>>]
    PROVE  PublishedAt(g, s)'
<1> DEFINE n == published[<<g, s>>].revision
<1>1. n \in 1..Len(stream[s].changes) /\ stream[s] # None
  BY DEF PublishedAt
<1>2. IsSequence(stream[s].changes)
  BY <1>1 DEF Streams
<1>3. Len(stream[s].changes) \in Nat
  BY <1>2, LenProperties DEF IsSequence
<1>4. stream'[s] # None /\ Len(stream[s].changes) <= Len(stream'[s].changes)
      /\ SubSeq(stream'[s].changes, 1, n) = SubSeq(stream[s].changes, 1, n)
      /\ (s = Season => stream'[s].start = stream[s].start)
  BY <1>1 DEF Extended
<1>5. IsSequence(stream'[s].changes)
  BY <1>4 DEF Streams
<1>6. Len(stream'[s].changes) \in Nat
  BY <1>5, LenProperties DEF IsSequence
<1>7. n \in 1..Len(stream'[s].changes)
  BY <1>1, <1>3, <1>4, <1>6
<1>8. (published[<<g, s>>].rows)' = RowsOf(g, s, n)'
  BY <1>4 DEF RowsOf, PublishedAt
<1> QED
  BY <1>1, <1>4, <1>7, <1>8 DEF PublishedAt

LEMMA JustPublished ==
    ASSUME NEW g \in Generations, NEW s \in Scopes, Streams, stream' = stream,
           generation' = generation, generation[g] # None, stream[s] # None,
           published'[<<g, s>>] = Projection(g, s)
    PROVE  PublishedAt(g, s)'
<1> DEFINE changes == stream[s].changes
<1>1. IsSequence(changes) /\ changes # <<>>
  BY DEF Streams
<1>2. Len(changes) \in 1..Len(changes) /\ SubSeq(changes, 1, Len(changes)) = changes
  BY <1>1, EmptySeq, LenProperties, SubSeqFull DEF IsSequence
<1>3. Projection(g, s).revision = Len(changes)
      /\ Projection(g, s).rows = RowsOf(g, s, Len(changes))
  <2>1. CASE s = Season
    BY <1>2, <2>1 DEF Projection, RowsOf
  <2>2. CASE s # Season
    BY <1>2, <2>2 DEF Projection, RowsOf
  <2> QED
    BY <2>1, <2>2
<1>4. RowsOf(g, s, Len(changes))' = RowsOf(g, s, Len(changes))
  BY DEF RowsOf
<1> QED
  BY <1>2, <1>3, <1>4 DEF PublishedAt

LEMMA PublishedNext ==
    ASSUME [Next]_vars, Published, Streams, Running
    PROVE  Published'
<1>1. Streams' /\ \A s \in Scopes : stream[s] # None => Extended(s)
  BY StreamsGrow
<1>2. \A g \in Generations : generation[g] # None => generation'[g] = generation[g]
  <2>1. ASSUME NEW h \in Generations, NEW v \in Versions, Register(h, v)
        PROVE  \A g \in Generations : generation[g] # None => generation'[g] = generation[g]
    BY <2>1 DEF Register, Running
  <2>2. UNCHANGED generation \/ \E h \in Generations, v \in Versions : Register(h, v)
    BY DEF vars, Next, Produce, Step, RunnerStep, Claim, Finalize, Capture, Commit, CommitPlain,
           EndRead, Activate, Select, ListPending, LockGeneration, LockStream, Refresh, Crash,
           BeginRead
  <2> QED
    BY <2>1, <2>2
<1>3. ASSUME NEW g \in Generations, NEW s \in Scopes, published[<<g, s>>] # None,
             published'[<<g, s>>] = published[<<g, s>>]
      PROVE  PublishedAt(g, s)'
  <2>1. PublishedAt(g, s)
    BY <1>3 DEF Published, PublishedAt
  <2>2. stream[s] # None /\ generation[g] # None
    BY <2>1 DEF PublishedAt
  <2> QED
    BY <1>1, <1>2, <1>3, <2>1, <2>2, StaysPublished
<1>4. ASSUME NEW r \in Runners, Refresh(r)
      PROVE  Published'
  <2> DEFINE g == GenerationOf[r]
             s == Head(run[r].todo)
  <2>1. run[r] # Waiting /\ UNCHANGED <<stream, generation>>
    BY <1>4 DEF Refresh, Waiting
  <2>2. generation[g] # None /\ g \in Generations
    BY <2>1, ScopesAssumption DEF Running
  <2>3. \/ published' = published
        \/ /\ published' = [published EXCEPT ![<<g, s>>] = Projection(g, s)]
           /\ stream[s] # None
    BY <1>4 DEF Refresh, Replayable
  <2>4. published' = [k \in Generations \X Scopes |-> published'[k]]
    BY <2>3 DEF Published
  <2>5. ASSUME NEW h \in Generations, NEW t \in Scopes, published'[<<h, t>>] # None
        PROVE  PublishedAt(h, t)'
    <3>1. CASE published'[<<h, t>>] = published[<<h, t>>]
      BY <1>3, <2>5, <3>1
    <3>2. CASE published'[<<h, t>>] # published[<<h, t>>]
      <4>1. /\ published' = [published EXCEPT ![<<g, s>>] = Projection(g, s)]
            /\ stream[s] # None /\ <<h, t>> \in Generations \X Scopes
            /\ published = [k \in Generations \X Scopes |-> published[k]]
        BY <2>3, <3>2 DEF Published
      <4>2. <<h, t>> = <<g, s>> /\ published'[<<h, t>>] = Projection(g, s)
        BY <3>2, <4>1
      <4>3. h = g /\ t = s
        BY <4>2
      <4> QED
        BY <2>1, <2>2, <4>1, <4>2, <4>3, JustPublished
    <3> QED
      BY <3>1, <3>2
  <2> QED
    BY <2>4, <2>5 DEF Published, PublishedAt
<1>5. CASE published' = published
  <2>1. ASSUME NEW g \in Generations, NEW s \in Scopes, published[<<g, s>>] # None
        PROVE  PublishedAt(g, s)'
    BY <1>3, <1>5, <2>1
  <2> QED
    BY <1>5, <2>1 DEF Published, PublishedAt
<1>6. published' = published \/ \E r \in Runners : Refresh(r)
  BY DEF vars, Next, Produce, Step, RunnerStep, Claim, Finalize, Capture, Commit, CommitPlain,
         EndRead, Activate, Select, Register, ListPending, LockGeneration, LockStream, Crash,
         BeginRead
<1> QED
  BY <1>4, <1>5, <1>6

------------------------------------------------------------------------------
\* The session of a walk

LEMMA SessionsNext ==
    ASSUME [Next]_vars, Sessions, Streams
    PROVE  Sessions'
<1>1. ASSUME NEW w \in Walks, stream'[w] = stream[w]
      PROVE  Changes(w)' = Changes(w)
  BY <1>1 DEF Changes
<1>2. ASSUME NEW s \in Selections, Select(s)
      PROVE  Sessions'
  <2> DEFINE walk == s.walk
             row == Payload(walk, s.source)
             old == Changes(walk)
             new == Append(old, s.source)
  <2>1. /\ walk \in Walks /\ walk \in Scopes
        /\ stream'[walk].changes = new /\ stream'[walk] # None
        /\ old \in Seq(Sent(walk)) /\ s.source \in Sent(walk)
        /\ \A t \in Scopes \ {walk} : stream'[t] = stream[t]
    BY <1>2, SelectGrows DEF Scopes
  <2>2. Changes(walk)' = new
    BY <2>1 DEF Changes
  <2>3. /\ Len(new) = Len(old) + 1 /\ Len(old) \in Nat /\ new[Len(old) + 1] = s.source
        /\ (\A i \in 1..Len(old) : new[i] = old[i])
        /\ DOMAIN new = 1..Len(new) /\ DOMAIN old = 1..Len(old)
    <3>1. new \in Seq(Sent(walk))
      BY <2>1, AppendProperties
    <3> QED
      BY <2>1, <3>1, AppendKeeps, LenProperties
  <2>4. session' = [c \in Clients |-> session'[c]]
    BY <1>2 DEF Select, Sessions
  <2>5. ASSUME NEW w \in Walks \ {walk}, NEW i \in DOMAIN Changes(w)', LastAnalysis(w, i)'
        PROVE  session'[Changes(w)'[i].client] = Payload(w, Changes(w)'[i])
    <3>1. Changes(w)' = Changes(w) /\ w \in Walks
      BY <1>1, <2>1 DEF Scopes
    <3>2. LastAnalysis(w, i) /\ i \in DOMAIN Changes(w)
      BY <2>5, <3>1 DEF LastAnalysis
    <3>3. session[Changes(w)[i].client] = Payload(w, Changes(w)[i])
      BY <3>1, <3>2 DEF Sessions
    <3>4. Changes(w)[i] \in Sent(w) /\ Changes(w)[i] # None
      <4>1. stream[w] # None
        BY <3>2 DEF Changes
      <4>2. Changes(w) \in Seq(Sent(w))
        BY <3>1, <4>1 DEF Changes, Streams
      <4> QED
        BY <3>2, <4>2, LenProperties, ElementOfSeq DEF LastAnalysis
    <3>5. Changes(w)[i].client \in Clients /\ None # Payload(w, Changes(w)[i])
      BY <3>4, SelectionsAssumption DEF Sent
    <3>6. CASE s.source = None \/ s.source.client # Changes(w)[i].client
      <4>1. session'[Changes(w)[i].client] = session[Changes(w)[i].client]
        BY <1>2, <3>5, <3>6 DEF Select, Sessions
      <4> QED
        BY <3>1, <3>3, <4>1
    <3>7. CASE s.source # None /\ s.source.client = Changes(w)[i].client
      <4>1. Recordable(s.source.client, row, s.revision > 1)
        BY <1>2, <3>7 DEF Select
      <4>2. session[s.source.client] = Payload(w, Changes(w)[i])
        BY <3>3, <3>7
      <4>3. Payload(w, Changes(w)[i]).server = w /\ row.server = walk
        BY DEF Payload
      <4>4. session[s.source.client] # None
        BY <3>5, <4>2
      <4>5. session[s.source.client].server = row.server
        BY <4>1, <4>4 DEF Recordable
      <4> QED
        BY <4>2, <4>3, <4>5
    <3> QED
      BY <3>6, <3>7
  <2>6. ASSUME NEW i \in DOMAIN new, LastAnalysis(walk, i)'
        PROVE  session'[new[i].client] = Payload(walk, new[i])
    <3>1. new[i] # None /\ \A j \in DOMAIN new : j > i => new[j] = None
      BY <2>2, <2>6 DEF LastAnalysis
    <3>2. CASE s.source # None
      <4>1. i = Len(old) + 1
        BY <2>3, <3>1, <3>2
      <4>2. session' = [session EXCEPT ![s.source.client] = row] /\ s.source.client \in Clients
        BY <1>2, <3>2, SelectionsAssumption DEF Select
      <4> QED
        BY <2>3, <4>1, <4>2 DEF Sessions
    <3>3. CASE s.source = None
      <4>1. i \in 1..Len(old) /\ new[i] = old[i]
        BY <2>3, <3>1, <3>3
      <4>2. \A j \in DOMAIN old : j > i => old[j] = None
        BY <2>3, <3>1
      <4>3. LastAnalysis(walk, i)
        BY <2>3, <3>1, <4>1, <4>2 DEF LastAnalysis
      <4>4. session[old[i].client] = Payload(walk, old[i])
        BY <2>1, <2>3, <4>1, <4>3 DEF Sessions
      <4>5. session' = session
        BY <1>2, <3>3 DEF Select
      <4> QED
        BY <4>1, <4>4, <4>5
    <3> QED
      BY <3>2, <3>3
  <2> HIDE DEF new, old, row
  <2> QED
    BY <2>1, <2>2, <2>4, <2>5, <2>6 DEF Sessions
<1>3. CASE session' = session /\ \A w \in Walks : stream'[w] = stream[w]
  BY <1>1, <1>3 DEF Sessions, LastAnalysis
<1>4. \/ session' = session /\ \A w \in Walks : stream'[w] = stream[w]
      \/ \E s \in Selections : Select(s)
  <2>1. session' = session \/ \E s \in Selections : Select(s)
    BY DEF vars, Next, Produce, Step, RunnerStep, Claim, Finalize, Capture, Commit, CommitPlain,
           EndRead, Activate, Register, ListPending, LockGeneration, LockStream, Refresh, Crash,
           BeginRead
  <2>2. ASSUME NEW w \in Workers, Commit(w)
        PROVE  \A v \in Walks : stream'[v] = stream[v]
    BY <2>2, ScopesAssumption DEF Commit, Streams, Scopes
  <2>3. ASSUME NEW now \in Times, NEW start \in Times, Activate(now, start)
        PROVE  \A v \in Walks : stream'[v] = stream[v]
    BY <2>3, ScopesAssumption DEF Activate, Streams, Scopes
  <2> QED
    BY <2>1, <2>2, <2>3, WhoAppends
<1> QED
  BY <1>2, <1>3, <1>4

------------------------------------------------------------------------------
\* The invariant

LEMMA StatInit == Init => StatInv
<1> SUFFICES ASSUME Init
             PROVE  StatInv
  OBVIOUS
<1>1. Streams
  BY DEF Init, Streams, Scopes
<1>2. Locked
  BY DEF Init, Locked
<1>3. Running
  BY DEF Init, Running, Waiting
<1>4. Published
  BY DEF Init, Published
<1>5. Sessions
  <2>1. \A w \in Walks : DOMAIN Changes(w) = {}
    BY DEF Init, Scopes, Changes
  <2> QED
    BY <2>1 DEF Init, Sessions
<1> QED
  BY <1>1, <1>2, <1>3, <1>4, <1>5 DEF StatInv

LEMMA StatNext == StatInv /\ [Next]_vars => StatInv'
  BY StreamsGrow, LocksNext, RunnersNext, PublishedNext, SessionsNext DEF StatInv

LEMMA StatInvariant == Spec => []StatInv
  BY StatInit, StatNext, PTL DEF Spec

------------------------------------------------------------------------------
\* What follows

LEMMA JobsAre ==
    ASSUME Locked, NEW w \in Workers
    PROVE  /\ job[w].pc = "append" => Appending(w)
           /\ job[w].pc = "rows" => Reading(w)
<1>1. job[w] = Idle \/ Appending(w) \/ Reading(w)
  BY DEF Locked
<1>2. job[w] = Idle => job[w].pc = "idle"
  BY DEF Idle
<1>3. Reading(w) => job[w].pc = "rows"
  BY DEF Reading
<1>4. Appending(w) => job[w].pc = "append"
  BY DEF Appending
<1> QED
  BY <1>1, <1>2, <1>3, <1>4

LEMMA WholeFollows == StatInv => ProjectionsAreWhole
<1> SUFFICES ASSUME StatInv
             PROVE  ProjectionsAreWhole
  OBVIOUS
<1>1. ReadsAreWhole
  <2> SUFFICES ASSUME NEW w \in Workers, job[w].pc = "rows"
               PROVE  LET j == job[w]
                          changes == SubSeq(stream[j.scope].changes, 1, j.revision)
                          rows == published[<<j.generation, j.scope>>].rows
                      IN  rows = IF j.scope = Season THEN Replay(changes, stream[Season].start).periods
                                 ELSE Contributions(changes, generation[j.generation])
    BY DEF ReadsAreWhole
  <2> DEFINE g == job[w].generation
             s == job[w].scope
             n == job[w].revision
  <2>1. Reading(w)
    BY JobsAre DEF StatInv
  <2>2. g \in Generations /\ s \in Scopes /\ published[<<g, s>>] # None
        /\ published[<<g, s>>].revision = n
    BY <2>1 DEF Reading
  <2> HIDE DEF g, s, n
  <2>3. published[<<g, s>>].rows = RowsOf(g, s, n)
    BY <2>2 DEF StatInv, Published
  <2>4. RowsOf(g, s, n) = IF s = Season
                          THEN Replay(SubSeq(stream[s].changes, 1, n), stream[Season].start).periods
                          ELSE Contributions(SubSeq(stream[s].changes, 1, n), generation[g])
    BY DEF RowsOf
  <2> QED
    BY <2>3, <2>4 DEF g, s, n
<1>2. WalksCountOnce
  <2>1. ASSUME NEW w \in Walks, NEW g \in Generations, published[<<g, w>>] # None
        PROVE  LET row == published[<<g, w>>]
                   head == stream[w].changes[row.revision]
               IN  {c.source : c \in row.rows} = IF head = None THEN {} ELSE {head}
    <3> DEFINE row == published[<<g, w>>]
               n == row.revision
               changes == stream[w].changes
               head == changes[n]
               first == SubSeq(changes, 1, n)
    <3>1. w \in Scopes /\ w # Season
      BY ScopesAssumption DEF Scopes
    <3>2. /\ n \in 1..Len(changes) /\ IsSequence(changes)
          /\ row.rows = Contributions(first, generation[g])
      BY <2>1, <3>1 DEF StatInv, Published, Streams, RowsOf
    <3>3. Len(first) = n /\ Last(first) = head /\ n # 0
      BY <3>2, LenProperties, SubSeqProperties, SMTT(30) DEF IsSequence, Last
    <3>4. row.rows = IF head = None THEN {}
                     ELSE {[source |-> head, selection_revision |-> n,
                            exclusion |-> Exclusion(head, generation[g])]}
      <4> HIDE DEF first, head, n
      <4>1. CASE head = None
        BY <3>2, <3>3, <4>1 DEF Contributions
      <4>2. CASE head # None
        BY <3>2, <3>3, <4>2 DEF Contributions
      <4> QED
        BY <4>1, <4>2
    <3>5. CASE head = None
      BY <3>4, <3>5
    <3>6. CASE head # None
      <4> HIDE DEF head, n
      <4>1. row.rows = {[source |-> head, selection_revision |-> n,
                         exclusion |-> Exclusion(head, generation[g])]}
        BY <3>4, <3>6
      <4>2. {c.source : c \in row.rows} = {head}
        BY <4>1
      <4> QED
        BY <3>6, <4>2 DEF head, n
    <3> QED
      BY <3>5, <3>6
  <2>2. ASSUME NEW w \in Walks, NEW i \in DOMAIN Changes(w), Changes(w)[i] # None,
               \A j \in DOMAIN Changes(w) : j > i => Changes(w)[j] = None
        PROVE  session[Changes(w)[i].client] = Payload(w, Changes(w)[i])
    BY <2>2 DEF StatInv, Sessions, LastAnalysis
  <2> QED
    BY <2>1, <2>2 DEF WalksCountOnce
<1> QED
  BY <1>1, <1>2 DEF ProjectionsAreWhole

\* No step but a commit of the season's holder moves the confirmed cut.
LEMMA CutStands ==
    ASSUME [Next]_vars, StatInv, NEW w \in Workers, job[w].pc = "append", job'[w] = job[w]
    PROVE  stream'[Season] = stream[Season]
<1>1. Appending(w)
  BY JobsAre DEF StatInv
<1>2. CASE UNCHANGED stream
  BY <1>2
<1>3. ASSUME NEW v \in Workers, Commit(v)
      PROVE  FALSE
  <2>1. job[v].pc = "append" /\ job' = [job EXCEPT ![v] = Idle]
    BY <1>3 DEF Commit, EndJob
  <2>2. v = w
    BY <1>1, <2>1, JobsAre DEF StatInv, Appending
  <2>3. job'[w] = Idle
    BY <2>1, <2>2 DEF StatInv, Locked
  <2> QED
    BY <2>3 DEF Idle
<1>4. ASSUME NEW now \in Times, NEW start \in Times, Activate(now, start)
      PROVE  FALSE
  BY <1>1, <1>4, ScopesAssumption DEF Activate, Appending
<1>5. ASSUME NEW s \in Selections, Select(s)
      PROVE  stream'[Season] = stream[Season]
  BY <1>5, SelectGrows, ScopesAssumption DEF StatInv, Scopes
<1> QED
  BY <1>2, <1>3, <1>4, <1>5, WhoAppends

\* A reader between two statements, and the tables themselves, hold the projection
\* of the first changes of a stream, of one revision (refresh, read, run_pending).
THEOREM ReadersSeeWhole == Spec => []ProjectionsAreWhole
  BY StatInvariant, WholeFollows, PTL

\* A claim that could be appended when it was decided can be appended until it
\* commits (the season's barrier of capture_statistics_cut).
THEOREM DecisionsStand == Spec => DecisionsAppend
<1>1. StatInv /\ [Next]_vars =>
        [\A w \in Workers :
          (/\ job[w].pc = "append" /\ job[w].op = "claim" /\ job'[w] = job[w]
           /\ Appendable(ChangeOf(job[w])))
          => stream'[Season].through <= job[w].at]_vars
  <2> SUFFICES ASSUME StatInv, [Next]_vars, NEW w \in Workers,
                      job[w].pc = "append", job[w].op = "claim", job'[w] = job[w],
                      Appendable(ChangeOf(job[w]))
               PROVE  stream'[Season].through <= job[w].at
    OBVIOUS
  <2>1. stream'[Season] = stream[Season]
    BY CutStands
  <2>2. ChangeOf(job[w]).at = job[w].at
    BY DEF ChangeOf, Owned
  <2> QED
    BY <2>1, <2>2 DEF Appendable
<1> QED
  BY <1>1, StatInvariant, PTL DEF Spec, DecisionsAppend

------------------------------------------------------------------------------
\* Replays, one change at a time

LEMMA Least ==
    ASSUME NEW T, T \subseteq Nat, T # {}
    PROVE  \E n \in T : \A m \in T : n <= m
<1>1. PICK n \in T : \A m \in T : <<m, n>> \notin OpToRel(<, Nat)
  BY WFMin, NatLessThanWellFounded
<1>2. \A m \in T : ~ (m < n)
  BY <1>1 DEF OpToRel
<1> QED
  BY <1>2

Unrolled(f, changes, start) ==
    f = [i \in 0..Len(changes) |->
           IF i = 0 THEN Blank(start)
           ELSE CHOOSE next \in {Advance(r, start, changes[i]) : r \in {f[i - 1]}} : TRUE]

LEMMA ReplayUnrolled ==
    ASSUME NEW changes, NEW start
    PROVE  Replay(changes, start) =
             (CHOOSE f : Unrolled(f, changes, start))[Len(changes)]
  BY DEF Replay, Unrolled

\* The first n runs of a replay.
RunsTo(f, n, changes, start) ==
    f = [i \in 0..n |-> IF i = 0 THEN Blank(start) ELSE Advance(f[i - 1], start, changes[i])]

LEMMA OnlyOne == \A x : (CHOOSE y \in {x} : TRUE) = x
  OBVIOUS

LEMMA RunsExist ==
    ASSUME NEW changes, NEW start, NEW N \in Nat
    PROVE  \E f : RunsTo(f, N, changes, start)
<1> DEFINE Missing == {n \in Nat : ~ \E f : RunsTo(f, n, changes, start)}
<1> SUFFICES ASSUME Missing # {}
             PROVE  FALSE
  OBVIOUS
<1>1. PICK n \in Missing : \A m \in Missing : n <= m
  <2> HIDE DEF Missing
  <2>1. Missing \subseteq Nat
    BY DEF Missing
  <2> QED
    BY <2>1, Least
<1>2. n \in Nat /\ ~ \E f : RunsTo(f, n, changes, start)
  OBVIOUS
<1>3. CASE n = 0
  <2> DEFINE f == [i \in 0..0 |-> Blank(start)]
  <2>1. RunsTo(f, 0, changes, start)
    BY DEF RunsTo
  <2> QED
    BY <1>2, <1>3, <2>1
<1>4. CASE n # 0
  <2>1. n - 1 \in Nat /\ ~ (n <= n - 1)
    BY <1>2, <1>4
  <2>2. PICK f : RunsTo(f, n - 1, changes, start)
    BY <1>1, <2>1
  <2> DEFINE g == [i \in 0..n |-> IF i = n THEN Advance(f[n - 1], start, changes[n]) ELSE f[i]]
  <2>3. \A i \in 0..(n - 1) :
          f[i] = IF i = 0 THEN Blank(start) ELSE Advance(f[i - 1], start, changes[i])
    BY <2>1, <2>2 DEF RunsTo
  <2>4. \A i \in 0..n :
          g[i] = IF i = 0 THEN Blank(start) ELSE Advance(g[i - 1], start, changes[i])
    <3> SUFFICES ASSUME NEW i \in 0..n
                 PROVE  g[i] = IF i = 0 THEN Blank(start) ELSE Advance(g[i - 1], start, changes[i])
      OBVIOUS
    <3>1. CASE i = n
      <4>1. g[i - 1] = f[n - 1]
        BY <1>2, <2>1, <3>1
      <4> QED
        BY <1>4, <3>1, <4>1
    <3>2. CASE i # n
      <4>1. i \in 0..(n - 1) /\ g[i] = f[i]
        BY <1>2, <3>2
      <4>2. i # 0 => g[i - 1] = f[i - 1]
        BY <1>2, <3>2
      <4> QED
        BY <2>3, <4>1, <4>2
    <3> QED
      BY <3>1, <3>2
  <2>5. RunsTo(g, n, changes, start)
    BY <2>4 DEF RunsTo
  <2> QED
    BY <1>2, <2>5
<1> QED
  BY <1>3, <1>4

LEMMA RunsAgree ==
    ASSUME NEW f, NEW g, NEW n \in Nat, NEW k \in Nat, NEW c, NEW d, NEW start,
           RunsTo(f, n, c, start), RunsTo(g, k, d, start), n <= k,
           \A i \in 1..n : c[i] = d[i]
    PROVE  \A i \in 0..n : f[i] = g[i]
<1> DEFINE Differ == {i \in 0..n : f[i] # g[i]}
<1> SUFFICES ASSUME Differ # {}
             PROVE  FALSE
  OBVIOUS
<1>1. PICK i \in Differ : \A j \in Differ : i <= j
  <2>1. Differ \subseteq Nat
    OBVIOUS
  <2> HIDE DEF Differ
  <2> QED
    BY <2>1, Least
<1>2. /\ f[i] = IF i = 0 THEN Blank(start) ELSE Advance(f[i - 1], start, c[i])
      /\ g[i] = IF i = 0 THEN Blank(start) ELSE Advance(g[i - 1], start, d[i])
  BY DEF RunsTo
<1>3. CASE i = 0
  BY <1>2, <1>3
<1>4. CASE i # 0
  <2>1. i - 1 \in 0..n /\ ~ (i <= i - 1) /\ i \in 1..n
    BY <1>4
  <2>2. f[i - 1] = g[i - 1]
    BY <1>1, <2>1
  <2>3. c[i] = d[i]
    BY <2>1
  <2> QED
    BY <1>2, <1>4, <2>2, <2>3
<1> QED
  BY <1>3, <1>4

LEMMA ReplayRuns ==
    ASSUME NEW changes, NEW start, Len(changes) \in Nat
    PROVE  \E f : RunsTo(f, Len(changes), changes, start) /\ Replay(changes, start) = f[Len(changes)]
<1>1. \A f : Unrolled(f, changes, start) <=> RunsTo(f, Len(changes), changes, start)
  <2>1. \A f, i : (CHOOSE next \in {Advance(r, start, changes[i]) : r \in {f[i - 1]}} : TRUE)
                   = Advance(f[i - 1], start, changes[i])
    <3> SUFFICES ASSUME NEW f, NEW i
                 PROVE  (CHOOSE next \in {Advance(r, start, changes[i]) : r \in {f[i - 1]}} : TRUE)
                        = Advance(f[i - 1], start, changes[i])
      OBVIOUS
    <3>1. {Advance(r, start, changes[i]) : r \in {f[i - 1]}} = {Advance(f[i - 1], start, changes[i])}
      OBVIOUS
    <3> QED
      BY <3>1, OnlyOne
  <2> QED
    BY <2>1 DEF Unrolled, RunsTo
<1>2. \E f : Unrolled(f, changes, start)
  BY <1>1, RunsExist
<1>3. Unrolled(CHOOSE f : Unrolled(f, changes, start), changes, start)
  BY <1>2
<1> QED
  BY <1>1, <1>3, ReplayUnrolled

\* A replay goes one change at a time.
LEMMA ReplayAppend ==
    ASSUME NEW S, NEW changes \in Seq(S), NEW e, NEW start
    PROVE  Replay(Append(changes, e), start) = Advance(Replay(changes, start), start, e)
<1> DEFINE n == Len(changes)
           longer == Append(changes, e)
<1>1. /\ n \in Nat /\ Len(longer) = n + 1 /\ longer[n + 1] = e
      /\ \A i \in 1..n : longer[i] = changes[i]
  BY AppendKeeps
<1>2. PICK f : RunsTo(f, n, changes, start) /\ Replay(changes, start) = f[n]
  BY <1>1, ReplayRuns
<1>3. Len(longer) \in Nat
  BY <1>1
<1>4. PICK g : RunsTo(g, n + 1, longer, start) /\ Replay(longer, start) = g[n + 1]
  BY <1>1, <1>3, ReplayRuns
<1>5. f[n] = g[n]
  <2>1. n + 1 \in Nat /\ n <= n + 1 /\ n \in 0..n
    BY <1>1
  <2> HIDE DEF n, longer
  <2> QED
    BY <1>1, <1>2, <1>4, <2>1, RunsAgree
<1>6. g[n + 1] = Advance(g[n], start, longer[n + 1])
  BY <1>1, <1>4 DEF RunsTo
<1> QED
  BY <1>1, <1>2, <1>4, <1>5, <1>6

LEMMA ReplayNothing ==
    ASSUME NEW start
    PROVE  Replay(<<>>, start) = Blank(start)
<1>1. Len(<<>>) = 0
  BY EmptySeq
<1>2. PICK f : RunsTo(f, 0, <<>>, start) /\ Replay(<<>>, start) = f[0]
  BY <1>1, ReplayRuns
<1> QED
  BY <1>2 DEF RunsTo

------------------------------------------------------------------------------
\* The season

Owners == {None} \union [pet : Pets, verified : BOOLEAN]

Policies ==
    /\ policy = [status |-> policy.status, owner |-> policy.owner, events |-> policy.events]
    /\ policy.status \in {"ACTIVE", "FINALIZED"}
    /\ policy.owner \in [Sites -> Owners]
    /\ IsSequence(policy.events)

\* What is about to be appended still is what the policy would decide.
Pending(j) ==
    /\ j.op \in {"claim", "finalize", "cut"}
    /\ j.op = "claim" =>
         /\ j.claim \in Claims /\ j.at \in Nat /\ j.at < Ends
         /\ j.kind = PlanKind(j.claim) /\ j.kind # "UNCHANGED"
         /\ policy.status = "ACTIVE"
    /\ j.op = "finalize" => policy.status = "ACTIVE"
    /\ j.op = "cut" => j.through \in Nat /\ j.closing \in BOOLEAN /\ (j.closing => policy.status = "ACTIVE")

Decisions == \A w \in Workers : job[w].pc = "append" => Pending(job[w])

Run == Replay(stream[Season].changes, stream[Season].start)

\* The owner a replay has found is the owner the policy has.
Mirrors(periods, site, owner) ==
    IF owner = None THEN Open(periods, site) = {}
    ELSE \E p \in periods : /\ Open(periods, site) = {p}
                            /\ owner = [pet |-> p.pet, verified |-> p.verified # NoTime]

Replayed ==
    LET row == stream[Season]
    IN  /\ row.start \in Nat /\ row.through \in Nat /\ row.start < Ends /\ row.start <= row.through
        /\ Run.ok /\ Run.revision = Len(row.changes)
        /\ Run.last \in Nat /\ Run.last <= row.through
        /\ Run.closed = (policy.status = "FINALIZED")
        /\ row.through < Ends \/ Run.closed

ArePeriods(periods) == \A p \in periods : p \in Period

AllMirror(periods, owners) == \A s \in Sites : Mirrors(periods, s, owners[s])

Mirrored ==
    /\ ArePeriods(Run.periods)
    /\ policy.status = "ACTIVE" => AllMirror(Run.periods, policy.owner)

Entry(e) == <<e.at, e.site, e.pet, e.kind>>

\* Every owned change of the stream is an event of the policy, in order.
Told ==
    LET changes == stream[Season].changes
    IN  /\ (Last(changes).kind = "SEASON_CLOSED") = (policy.status = "FINALIZED")
        /\ BaseEvents \in Nat
        /\ \A i \in DOMAIN OwnedChanges(changes) :
             Entry(OwnedChanges(changes)[i]) = Entry(policy.events[BaseEvents + i])

SeasonInv ==
    /\ Policies /\ Decisions
    /\ stream[Season] # None => Replayed /\ Mirrored /\ Told

LEMMA PeriodChanged ==
    ASSUME NEW p \in Period, NEW t \in Nat
    PROVE  /\ [p EXCEPT !.ended = t] \in Period
           /\ [p EXCEPT !.ended = t].ended = t /\ [p EXCEPT !.ended = t].site = p.site
           /\ [p EXCEPT !.verified = t] \in Period
           /\ [p EXCEPT !.verified = t].verified = t /\ [p EXCEPT !.verified = t].site = p.site
           /\ [p EXCEPT !.verified = t].ended = p.ended /\ [p EXCEPT !.verified = t].pet = p.pet
           /\ t # NoTime
  BY DEF Period, NoTime

\* Closing the periods of some sites.
LEMMA PeriodsClosed ==
    ASSUME NEW periods, ArePeriods(periods), NEW sites, NEW at \in Nat
    PROVE  /\ ArePeriods(ClosePeriods(periods, sites, at))
           /\ \A s \in sites : Open(ClosePeriods(periods, sites, at), s) = {}
           /\ \A s \in Sites \ sites : Open(ClosePeriods(periods, sites, at), s) = Open(periods, s)
<1> DEFINE Closed(p) == IF p.ended = NoTime /\ p.site \in sites THEN [p EXCEPT !.ended = at] ELSE p
           closed == ClosePeriods(periods, sites, at)
<1>1. closed = {Closed(p) : p \in periods}
  BY DEF ClosePeriods
<1>2. \A p \in periods :
        /\ Closed(p) \in Period /\ Closed(p).site = p.site
        /\ p.site \in sites => Closed(p).ended # NoTime
        /\ p.site \notin sites => Closed(p) = p
  BY PeriodChanged DEF ArePeriods
<1> HIDE DEF Closed, closed
<1>3. ArePeriods(closed)
  BY <1>1, <1>2 DEF ArePeriods
<1>4. \A s \in sites : Open(closed, s) = {}
  BY <1>1, <1>2 DEF Open
<1>5. \A s \in Sites \ sites : Open(closed, s) = Open(periods, s)
  BY <1>1, <1>2 DEF Open
<1> QED
  BY <1>3, <1>4, <1>5 DEF closed


------------------------------------------------------------------------------
\* The replay follows the policy

\* What is held after a change of owner is what the policy has stored.
LEMMA OwnerChanged ==
    ASSUME NEW periods, ArePeriods(periods), NEW at \in Nat,
           NEW site \in Sites, NEW new \in Period, new.site = site, new.ended = NoTime,
           NEW owners, AllMirror(periods, owners), owners \in [Sites -> Owners],
           NEW owner, owner # None, owner = [pet |-> new.pet, verified |-> new.verified # NoTime],
           NEW after, after = ClosePeriods(periods, {site}, at) \union {new}
    PROVE  ArePeriods(after) /\ AllMirror(after, [owners EXCEPT ![site] = owner])
<1> DEFINE closed == ClosePeriods(periods, {site}, at)
<1>1. after = closed \union {new}
  OBVIOUS
<1>2. /\ ArePeriods(closed) /\ Open(closed, site) = {}
      /\ \A s \in Sites \ {site} : Open(closed, s) = Open(periods, s)
  <2> DEFINE sites == {site}
  <2>1. site \in sites /\ \A s \in Sites \ {site} : s \in Sites \ sites
    OBVIOUS
  <2> HIDE DEF sites
  <2>2. /\ ArePeriods(ClosePeriods(periods, sites, at))
        /\ \A s \in sites : Open(ClosePeriods(periods, sites, at), s) = {}
        /\ \A s \in Sites \ sites : Open(ClosePeriods(periods, sites, at), s) = Open(periods, s)
    BY PeriodsClosed
  <2> QED
    BY <2>1, <2>2 DEF sites
<1> HIDE DEF closed
<1>3. Open(after, site) = {new}
  BY <1>1, <1>2 DEF Open
<1>5. Mirrors(after, site, owner)
  BY <1>1, <1>3 DEF Mirrors
<1>6. ASSUME NEW s \in Sites \ {site}
      PROVE  Mirrors(after, s, owners[s])
  <2>1. Open(after, s) = Open(periods, s)
    BY <1>1, <1>2 DEF Open
  <2>2. \A p \in Open(after, s) : p \in after
    BY DEF Open
  <2> QED
    BY <2>1, <2>2, ZenonT(30) DEF Mirrors, AllMirror
<1> QED
  BY <1>1, <1>2, <1>5, <1>6 DEF ArePeriods, AllMirror

CertifyPeriods(periods, site, at) ==
    {IF p \in Open(periods, site) THEN [p EXCEPT !.verified = at] ELSE p : p \in periods}

\* Certifying the one period that is open at a site.
LEMMA OwnerCertified ==
    ASSUME NEW periods, ArePeriods(periods), NEW at \in Nat, NEW site \in Sites,
           NEW owners, AllMirror(periods, owners), owners \in [Sites -> Owners],
           NEW owner, owner # None, owner = [pet |-> owners[site].pet, verified |-> TRUE],
           owners[site] # None,
           NEW after, after = CertifyPeriods(periods, site, at)
    PROVE  ArePeriods(after) /\ AllMirror(after, [owners EXCEPT ![site] = owner])
<1> DEFINE After(p) == IF p \in Open(periods, site) THEN [p EXCEPT !.verified = at] ELSE p
           pet == owners[site].pet
<1>0. after = {After(p) : p \in periods}
  BY DEF CertifyPeriods
<1>1. PICK held \in periods : Open(periods, site) = {held}
                               /\ owners[site] = [pet |-> held.pet, verified |-> held.verified # NoTime]
  BY DEF Mirrors, AllMirror
<1>2. held.pet = pet /\ held.site = site /\ held.ended = NoTime
  BY <1>1 DEF Open
<1>3. /\ After(held) \in Period /\ After(held).site = site /\ After(held).ended = NoTime
      /\ After(held).pet = pet /\ After(held).verified # NoTime
  BY <1>1, <1>2, PeriodChanged, ZenonT(30) DEF ArePeriods
<1>4. \A p \in periods : p # held => After(p) = p
  BY <1>1
<1> HIDE DEF After
<1>5. ArePeriods(after)
  BY <1>0, <1>3, <1>4 DEF ArePeriods
<1>6. Open(after, site) = {After(held)}
  BY <1>0, <1>1, <1>3, <1>4 DEF Open
<1>7. Mirrors(after, site, owner)
  <2>1. After(held) \in after
    BY <1>0
  <2>2. owner = [pet |-> After(held).pet, verified |-> After(held).verified # NoTime]
    BY <1>3
  <2> QED
    BY <1>6, <2>1, <2>2 DEF Mirrors
<1>8. ASSUME NEW s \in Sites \ {site}
      PROVE  Mirrors(after, s, owners[s])
  <2>1. Open(after, s) = Open(periods, s)
    BY <1>0, <1>2, <1>3, <1>4 DEF Open
  <2>2. \A p \in Open(after, s) : p \in after
    BY DEF Open
  <2> QED
    BY <2>1, <2>2 DEF Mirrors, AllMirror
<1> QED
  BY <1>5, <1>7, <1>8 DEF After, AllMirror

\* The season's row at a commit.
LEMMA SeasonRow ==
    ASSUME Streams, stream[Season] # None
    PROVE  /\ stream[Season] = [start |-> stream[Season].start, through |-> stream[Season].through,
                               changes |-> stream[Season].changes]
           /\ IsSequence(stream[Season].changes) /\ Len(stream[Season].changes) \in Nat \ {0}
<1>1. IsSequence(stream[Season].changes) /\ stream[Season].changes # <<>>
  BY DEF Streams, Scopes
<1> QED
  BY <1>1, EmptySeq DEF Streams, Scopes, IsSequence

LEMMA ReplayGrows ==
    ASSUME NEW c, NEW e, NEW start, IsSequence(c), Replay(c, start).ok, Fits(Replay(c, start), start, e)
    PROVE  Replay(Append(c, e), start) = Apply(Replay(c, start), e)
<1>1. Replay(Append(c, e), start) = Advance(Replay(c, start), start, e)
  BY ReplayAppend DEF IsSequence
<1> QED
  BY <1>1 DEF Advance

LEMMA AppliedIs ==
    ASSUME NEW r, NEW e
    PROVE  /\ Apply(r, e).ok /\ Apply(r, e).revision = r.revision + 1 /\ Apply(r, e).last = e.at
           /\ Apply(r, e).closed = (e.kind = "SEASON_CLOSED")
           /\ Apply(r, e).periods = PeriodsAfter(r, e)
  BY DEF Apply

\* The decision of a claim is a change the replay accepts.
LEMMA ClaimFits ==
    ASSUME NEW j, j.op = "claim", Pending(j), Policies, Streams, stream[Season] # None,
           Replayed, Mirrored, Appendable(ChangeOf(j))
    PROVE  LET e == ChangeOf(j)
           IN  /\ Fits(Run, stream[Season].start, e)
               /\ Run.last <= e.at /\ e.at \in Nat /\ e.at < Ends /\ e.kind # "SEASON_CLOSED"
               /\ ArePeriods(PeriodsAfter(Run, e))
               /\ AllMirror(PeriodsAfter(Run, e), PolicyAfter(j).owner)
<1> DEFINE e == ChangeOf(j)
           c == j.claim
           owner == policy.owner[c.site]
<1>1. /\ c \in Claims /\ c.site \in Sites /\ c.pet \in Pets /\ c.verified \in BOOLEAN
      /\ j.at \in Nat /\ j.at < Ends /\ j.kind = PlanKind(c) /\ j.kind # "UNCHANGED"
      /\ policy.status = "ACTIVE"
  BY ClaimsAssumption DEF Pending
<1>2. e = Owned(j.kind, j.at, c.site, c.pet, IF owner = None THEN None ELSE owner.pet, c.verified)
  BY DEF ChangeOf
<1>3. /\ e.kind = j.kind /\ e.at = j.at /\ e.site = c.site /\ e.pet = c.pet
      /\ e.verified = c.verified
      /\ e.previous = IF owner = None THEN None ELSE owner.pet
  BY <1>2 DEF Owned
<1>4. PolicyAfter(j).owner = [policy.owner EXCEPT ![c.site] = [pet |-> c.pet, verified |-> c.verified]]
  BY DEF PolicyAfter
<1>5. /\ Run.ok /\ Run.revision \in Nat /\ Run.revision # 0 /\ Run.last \in Nat
      /\ Run.last <= j.at /\ Run.closed = FALSE
      /\ ArePeriods(Run.periods)
      /\ AllMirror(Run.periods, policy.owner)
  <2>1. Len(stream[Season].changes) \in Nat \ {0}
    BY SeasonRow
  <2>2. stream[Season].through <= j.at
    BY <1>3 DEF Appendable
  <2>3. /\ Run.ok /\ Run.revision = Len(stream[Season].changes) /\ Run.last \in Nat
        /\ Run.last <= stream[Season].through /\ stream[Season].through \in Nat
        /\ Run.closed = (policy.status = "FINALIZED")
    BY DEF Replayed
  <2>4. ArePeriods(Run.periods) /\ AllMirror(Run.periods, policy.owner)
    BY <1>1 DEF Mirrored
  <2>5. Run.closed = FALSE
    BY <1>1, <2>3
  <2>6. Run.last <= j.at /\ Run.revision \in Nat /\ Run.revision # 0
    BY <1>1, <2>1, <2>2, <2>3
  <2> QED
    BY <2>3, <2>4, <2>5, <2>6
<1>6. policy.owner \in [Sites -> Owners] /\ owner \in Owners
  BY <1>1 DEF Policies
<1>7. Mirrors(Run.periods, c.site, owner)
  BY <1>1, <1>5 DEF AllMirror
<1>8. HolderOf(Run.periods, c.site) = e.previous
  <2>1. CASE owner = None
    BY <1>3, <1>7, <2>1 DEF Mirrors, HolderOf
  <2>2. CASE owner # None
    <3>1. PICK p \in Run.periods : Open(Run.periods, c.site) = {p}
                                    /\ owner = [pet |-> p.pet, verified |-> p.verified # NoTime]
      BY <1>7, <2>2 DEF Mirrors
    <3>2. HolderOf(Run.periods, c.site) = p.pet
      BY <3>1, OnlyOne DEF HolderOf
    <3> QED
      BY <1>3, <2>2, <3>1, <3>2
  <2> QED
    BY <2>1, <2>2
<1> HIDE DEF e, c, owner
<1>9. CASE j.kind = "OWNERSHIP_CHANGED"
  <2>1. owner = None \/ owner.pet # c.pet
    BY <1>1, <1>9 DEF PlanKind, owner, c
  <2>2. e.previous # e.pet
    BY <1>1, <1>3, <2>1, NoneAssumption
  <2>3. FitsOwned(Run, e)
    BY <1>1, <1>3, <1>8, <1>9, <2>2 DEF FitsOwned
  <2>4. PeriodsAfter(Run, e) =
          ClosePeriods(Run.periods, {c.site}, j.at) \union
          {NewPeriod(Run.revision + 1, j.at, c.site, c.pet, c.verified, FALSE, e.previous # None)}
    BY <1>3, <1>9 DEF PeriodsAfter
  <2>5. Run.revision + 1 \in Nat /\ (e.previous # None) \in BOOLEAN
    BY <1>5
  <2>6. /\ ArePeriods(PeriodsAfter(Run, e))
        /\ AllMirror(PeriodsAfter(Run, e),
             [policy.owner EXCEPT ![c.site] = [pet |-> c.pet, verified |-> c.verified]])
    <3> DEFINE new == NewPeriod(Run.revision + 1, j.at, c.site, c.pet, c.verified, FALSE,
                                e.previous # None)
               stored == [pet |-> c.pet, verified |-> c.verified]
               after == PeriodsAfter(Run, e)
    <3>1. /\ new \in Period /\ new.site = c.site /\ new.ended = NoTime
          /\ new.pet = c.pet /\ (new.verified # NoTime <=> c.verified)
      BY <1>1, <2>5 DEF NewPeriod, Period, NoTime
    <3>2. stored = [pet |-> new.pet, verified |-> new.verified # NoTime]
      BY <1>1, <3>1
    <3>3. stored # None
      BY <1>1, NoneAssumption
    <3>4. after = ClosePeriods(Run.periods, {c.site}, j.at) \union {new}
      BY <2>4
    <3> HIDE DEF new, stored, after
    <3>5. ArePeriods(after) /\ AllMirror(after, [policy.owner EXCEPT ![c.site] = stored])
      BY <1>1, <1>5, <1>6, <3>1, <3>2, <3>3, <3>4, OwnerChanged
    <3> QED
      BY <3>5 DEF stored, after
  <2>7. Fits(Run, stream[Season].start, e)
    BY <1>1, <1>3, <1>5, <1>9, <2>3 DEF Fits
  <2> QED
    BY <1>1, <1>3, <1>4, <1>5, <1>9, <2>6, <2>7 DEF e, c
<1>10. CASE j.kind = "CERTIFIED"
  <2>1. owner # None /\ owner.pet = c.pet /\ ~owner.verified /\ c.verified
    BY <1>1, <1>10 DEF PlanKind, owner, c
  <2>2. \A p \in Open(Run.periods, c.site) : p.verified = NoTime
    <3>1. PICK p \in Run.periods : Open(Run.periods, c.site) = {p}
                                    /\ owner = [pet |-> p.pet, verified |-> p.verified # NoTime]
      BY <1>7, <2>1 DEF Mirrors
    <3>2. ~(p.verified # NoTime)
      BY <2>1, <3>1
    <3> QED
      BY <3>1, <3>2
  <2>3. FitsOwned(Run, e)
    BY <1>1, <1>3, <1>8, <1>10, <2>1, <2>2 DEF FitsOwned
  <2>4. PeriodsAfter(Run, e) =
          {IF p \in Open(Run.periods, c.site) THEN [p EXCEPT !.verified = j.at] ELSE p :
             p \in Run.periods}
    BY <1>3, <1>10 DEF PeriodsAfter
  <2>5. c.verified = TRUE /\ policy.owner[c.site] # None /\ policy.owner[c.site].pet = c.pet
    BY <1>1, <2>1 DEF owner
  <2>6. /\ ArePeriods(PeriodsAfter(Run, e))
        /\ AllMirror(PeriodsAfter(Run, e),
             [policy.owner EXCEPT ![c.site] = [pet |-> c.pet, verified |-> c.verified]])
    <3> DEFINE stored == [pet |-> c.pet, verified |-> c.verified]
               after == PeriodsAfter(Run, e)
    <3>1. stored = [pet |-> policy.owner[c.site].pet, verified |-> TRUE]
      BY <2>5
    <3>2. stored # None
      BY <1>1, NoneAssumption
    <3>3. after = CertifyPeriods(Run.periods, c.site, j.at)
      BY <2>4 DEF CertifyPeriods
    <3> HIDE DEF stored, after
    <3>4. ArePeriods(after) /\ AllMirror(after, [policy.owner EXCEPT ![c.site] = stored])
      BY <1>1, <1>5, <1>6, <2>5, <3>1, <3>2, <3>3, OwnerCertified
    <3> QED
      BY <3>4 DEF stored, after
  <2>7. Fits(Run, stream[Season].start, e)
    BY <1>1, <1>3, <1>5, <1>10, <2>3 DEF Fits
  <2> QED
    BY <1>1, <1>3, <1>4, <1>5, <1>10, <2>6, <2>7 DEF e, c
<1>11. j.kind \in {"OWNERSHIP_CHANGED", "CERTIFIED"}
  BY <1>1 DEF PlanKind
<1> QED
  BY <1>9, <1>10, <1>11

------------------------------------------------------------------------------
\* Decisions wait under the season's lock

LEMMA LaterOf ==
    ASSUME NEW a \in Nat, NEW b \in Nat
    PROVE  Max({a, b}) \in Nat /\ Max({a, b}) >= a /\ Max({a, b}) >= b /\ Max({a, b}) \in {a, b}
<1>1. \E x \in {a, b} : \A y \in {a, b} : x >= y
  BY SMT
<1>2. Max({a, b}) \in {a, b} /\ \A y \in {a, b} : Max({a, b}) >= y
  BY <1>1 DEF Max
<1> QED
  BY <1>2

LEMMA WhoDecides ==
    ASSUME [Next]_vars
    PROVE  \/ UNCHANGED policy
           \/ \E w \in Workers : Commit(w) \/ CommitPlain(w)
  BY DEF vars, Next, Produce, Step, RunnerStep, Claim, Finalize, Capture, EndRead, Activate, Select,
         Register, ListPending, LockGeneration, LockStream, Refresh, Crash, BeginRead

LEMMA PolicyStands ==
    ASSUME [Next]_vars, StatInv, NEW w \in Workers, job[w].pc = "append", job'[w] = job[w]
    PROVE  policy' = policy
<1>1. Appending(w)
  BY JobsAre DEF StatInv
<1>2. ASSUME NEW v \in Workers, Commit(v) \/ CommitPlain(v)
      PROVE  FALSE
  <2>1. job[v].pc = "append" /\ job' = [job EXCEPT ![v] = Idle]
    BY <1>2 DEF Commit, CommitPlain, EndJob
  <2>2. v = w
    BY <1>1, <2>1, JobsAre DEF StatInv, Appending
  <2>3. job'[w] = Idle
    BY <2>1, <2>2 DEF StatInv, Locked
  <2> QED
    BY <2>3 DEF Idle
<1> QED
  BY <1>2, WhoDecides

\* A transaction that waits to append has just been decided or was waiting before.
Decides(w) ==
    \/ \E c \in Claims, writer \in {"statistics", "plain"}, now \in Times : Claim(w, c, writer, now)
    \/ \E writer \in {"statistics", "plain"}, now \in Times : Finalize(w, writer, now)
    \/ \E now \in Times : Capture(w, now)

LEMMA WhoWaits ==
    ASSUME [Next]_vars, Locked, NEW w \in Workers, job'[w].pc = "append"
    PROVE  job'[w] = job[w] \/ Decides(w)
<1>1. Idle.pc = "idle" /\ job = [v \in Workers |-> job[v]]
  BY DEF Idle, Locked
<1>2. ASSUME NEW v \in Workers, Produce(v)
      PROVE  job'[w] = job[w] \/ Decides(w)
  <2>1. CASE v = w
    BY <1>2, <2>1 DEF Produce, Decides
  <2>2. CASE v # w
    BY <1>1, <1>2, <2>2 DEF Produce, Claim, Finalize, Capture
  <2> QED
    BY <2>1, <2>2
<1>3. ASSUME NEW v \in Workers, Step(v)
      PROVE  job'[w] = job[w]
  <2>1. job' = [job EXCEPT ![v] = Idle]
    BY <1>3 DEF Step, Commit, CommitPlain, EndRead, EndJob
  <2> QED
    BY <1>1, <2>1
<1>4. ASSUME NEW v \in Workers, NEW g \in Generations, NEW s \in Scopes, BeginRead(v, g, s)
      PROVE  job'[w] = job[w]
  <2> DEFINE read == [pc |-> "rows", generation |-> g, scope |-> s,
                      revision |-> published[<<g, s>>].revision,
                      through |-> published[<<g, s>>].through]
  <2>1. job' = [job EXCEPT ![v] = read] /\ read.pc = "rows"
    BY <1>4 DEF BeginRead
  <2> HIDE DEF read
  <2> QED
    BY <1>1, <2>1
<1>5. CASE UNCHANGED job
  BY <1>5
<1>6. \/ UNCHANGED job
      \/ \E v \in Workers : Produce(v) \/ Step(v)
      \/ \E v \in Workers, g \in Generations, s \in Scopes : BeginRead(v, g, s)
  BY DEF vars, Next, RunnerStep, Activate, Select, Register, ListPending, LockGeneration, LockStream,
         Refresh, Crash
<1> QED
  BY <1>2, <1>3, <1>4, <1>5, <1>6

LEMMA DecidedFresh ==
    ASSUME NEW w \in Workers, Locked, Decides(w)
    PROVE  policy' = policy /\ Pending(job'[w])
<1>0. job = [v \in Workers |-> job[v]]
  BY DEF Locked
<1>1. ASSUME NEW c \in Claims, NEW writer, NEW now \in Times, Claim(w, c, writer, now)
      PROVE  policy' = policy /\ Pending(job'[w])
  <2> DEFINE j == [pc |-> "append", op |-> "claim", writer |-> writer,
                   claim |-> c, kind |-> PlanKind(c), at |-> now]
  <2>1. job'[w] = j
    BY <1>0, <1>1 DEF Claim
  <2>2. j.op = "claim" /\ j.claim = c /\ j.at = now /\ j.kind = PlanKind(c)
    OBVIOUS
  <2>3. now \in Nat /\ now < Ends /\ policy.status = "ACTIVE" /\ PlanKind(c) # "UNCHANGED"
    BY <1>1 DEF Claim, Admissible, Times
  <2> HIDE DEF j
  <2> QED
    BY <1>1, <2>1, <2>2, <2>3 DEF Pending, Claim
<1>2. ASSUME NEW writer, NEW now \in Times, Finalize(w, writer, now)
      PROVE  policy' = policy /\ Pending(job'[w])
  <2> DEFINE j == [pc |-> "append", op |-> "finalize", writer |-> writer]
  <2>1. job'[w] = j
    BY <1>0, <1>2 DEF Finalize
  <2>2. j.op = "finalize"
    OBVIOUS
  <2> HIDE DEF j
  <2> QED
    BY <1>2, <2>1, <2>2 DEF Pending, Finalize
<1>3. ASSUME NEW now \in Times, Capture(w, now)
      PROVE  policy' = policy /\ Pending(job'[w])
  <2> DEFINE through == Max({Starts, now})
             closing == policy.status = "ACTIVE" /\ now >= Ends
             j == [pc |-> "append", op |-> "cut", writer |-> "statistics",
                   through |-> through, closing |-> closing]
  <2>1. job'[w] = j
    BY <1>0, <1>3 DEF Capture
  <2>2. j.op = "cut" /\ j.through = through /\ j.closing = closing
    OBVIOUS
  <2>3. now \in Nat /\ through \in Nat
    BY LaterOf, ScopesAssumption DEF Times
  <2>4. closing \in BOOLEAN /\ (closing => policy.status = "ACTIVE")
    OBVIOUS
  <2> HIDE DEF j, through, closing
  <2>5. Pending(j)
    BY <2>2, <2>3, <2>4 DEF Pending
  <2> QED
    BY <1>3, <2>1, <2>5 DEF Capture
<1> QED
  BY <1>1, <1>2, <1>3 DEF Decides

LEMMA PendingKept ==
    ASSUME policy' = policy, NEW j, Pending(j)
    PROVE  Pending(j)'
  BY DEF Pending, PlanKind

LEMMA DecisionsNext ==
    ASSUME [Next]_vars, StatInv, Decisions
    PROVE  Decisions'
<1> SUFFICES ASSUME NEW w \in Workers, job'[w].pc = "append"
             PROVE  Pending(job[w])'
  BY DEF Decisions
<1> DEFINE j == job'[w]
<1>1. policy' = policy /\ Pending(j)
  <2>1. CASE job'[w] = job[w]
    BY <2>1, PolicyStands DEF Decisions
  <2>2. CASE Decides(w)
    BY <2>2, DecidedFresh DEF StatInv
  <2> QED
    BY <2>1, <2>2, WhoWaits DEF StatInv
<1> QED
  BY <1>1 DEF Pending, PlanKind

------------------------------------------------------------------------------
\* The owned changes of a stream that grows

LEMMA Between ==
    ASSUME NEW c, IsSequence(c), NEW n \in 1..Len(c)
    PROVE  /\ Len(SubSeq(c, 2, n)) = n - 1
           /\ DOMAIN SubSeq(c, 2, n) = 1..(n - 1)
           /\ \A i \in 1..(n - 1) : SubSeq(c, 2, n)[i] = c[i + 1]
<1> DEFINE S == {c[i] : i \in DOMAIN c}
<1>1. c \in Seq(S) /\ Len(c) \in Nat
  BY LenProperties DEF IsSequence
<1> HIDE DEF S
<1>2. \A i \in 2..n : i \in 1..Len(c)
  BY <1>1
<1>3. /\ SubSeq(c, 2, n) \in Seq(S)
      /\ Len(SubSeq(c, 2, n)) = IF 2 <= n THEN n - 2 + 1 ELSE 0
      /\ \A i \in 1..(n - 2 + 1) : SubSeq(c, 2, n)[i] = c[2 + i - 1]
  BY <1>1, <1>2, SubSeqProperties
<1>4. Len(SubSeq(c, 2, n)) = n - 1
  BY <1>1, <1>3
<1>5. \A i \in 1..(n - 1) : SubSeq(c, 2, n)[i] = c[i + 1]
  BY <1>1, <1>3
<1> QED
  BY <1>3, <1>4, <1>5, LenProperties

Closing(e) == e.kind = "SEASON_CLOSED"

\* A change appended to a season that is open is its next owned change, or closes it.
LEMMA OwnedGrow ==
    ASSUME NEW c, NEW e, IsSequence(c), Len(c) \in Nat \ {0}, Last(c).kind # "SEASON_CLOSED"
    PROVE  LET d == Append(c, e)
               n == Len(c) - 1
           IN  /\ Last(d) = e /\ IsSequence(d)
               /\ Len(OwnedChanges(c)) = n /\ DOMAIN OwnedChanges(c) = 1..n
               /\ \A i \in 1..n : OwnedChanges(d)[i] = OwnedChanges(c)[i]
               /\ IF Closing(e) THEN Len(OwnedChanges(d)) = n /\ DOMAIN OwnedChanges(d) = 1..n
                  ELSE /\ Len(OwnedChanges(d)) = n + 1 /\ DOMAIN OwnedChanges(d) = 1..(n + 1)
                       /\ OwnedChanges(d)[n + 1] = e
<1> DEFINE d == Append(c, e)
           m == Len(c)
<1>1. /\ m \in Nat \ {0} /\ Len(d) = m + 1 /\ d[m + 1] = e
      /\ \A i \in 1..m : d[i] = c[i]
  BY AppendKeeps DEF IsSequence
<1>2. IsSequence(d)
  BY AppendIsSequence
<1>3. OwnedChanges(c) = SubSeq(c, 2, m)
  BY DEF OwnedChanges
<1>4. /\ Len(OwnedChanges(c)) = m - 1 /\ DOMAIN OwnedChanges(c) = 1..(m - 1)
      /\ \A i \in 1..(m - 1) : OwnedChanges(c)[i] = c[i + 1]
  <2>1. m \in 1..Len(c)
    BY <1>1
  <2> QED
    BY <1>3, <2>1, Between
<1>5. Last(d) = e
  BY <1>1 DEF Last
<1> HIDE DEF d, m
<1>6. CASE Closing(e)
  <2>1. OwnedChanges(d) = SubSeq(d, 2, m)
    BY <1>1, <1>5, <1>6 DEF OwnedChanges, Closing
  <2>2. m \in 1..Len(d)
    BY <1>1
  <2>3. /\ Len(OwnedChanges(d)) = m - 1 /\ DOMAIN OwnedChanges(d) = 1..(m - 1)
        /\ \A i \in 1..(m - 1) : OwnedChanges(d)[i] = d[i + 1]
    BY <1>2, <2>1, <2>2, Between
  <2>4. \A i \in 1..(m - 1) : OwnedChanges(d)[i] = OwnedChanges(c)[i]
    <3> TAKE i \in 1..(m - 1)
    <3>1. i + 1 \in 1..m /\ i \in 1..m
      BY <1>1
    <3> QED
      BY <1>1, <1>4, <2>3, <3>1
  <2> QED
    BY <1>2, <1>4, <1>5, <1>6, <2>3, <2>4 DEF d, m
<1>7. CASE ~Closing(e)
  <2>1. OwnedChanges(d) = SubSeq(d, 2, m + 1)
    BY <1>1, <1>5, <1>7 DEF OwnedChanges, Closing
  <2>2. m + 1 \in 1..Len(d) /\ (m + 1) - 1 = m /\ (m - 1) + 1 = m
    BY <1>1
  <2>3. /\ Len(OwnedChanges(d)) = m /\ DOMAIN OwnedChanges(d) = 1..m
        /\ \A i \in 1..m : OwnedChanges(d)[i] = d[i + 1]
    BY <1>2, <2>1, <2>2, Between
  <2>4. \A i \in 1..(m - 1) : OwnedChanges(d)[i] = OwnedChanges(c)[i]
    <3> TAKE i \in 1..(m - 1)
    <3>1. i + 1 \in 1..m /\ i \in 1..m
      BY <1>1
    <3> QED
      BY <1>1, <1>4, <2>3, <3>1
  <2>5. OwnedChanges(d)[m] = e
    BY <1>1, <2>3
  <2> QED
    BY <1>2, <1>4, <1>5, <1>7, <2>2, <2>3, <2>4, <2>5 DEF d, m
<1> QED
  BY <1>6, <1>7

\* The rows of a claim's commit.
LEMMA ClaimTold ==
    ASSUME NEW j, j.op = "claim", Policies, Streams, stream[Season] # None, Told,
           policy.status = "ACTIVE", ChangeOf(j).kind # "SEASON_CLOSED",
           policy' = PolicyAfter(j),
           stream'[Season].changes = Append(stream[Season].changes, ChangeOf(j))
    PROVE  Told'
<1> DEFINE c == stream[Season].changes
           e == ChangeOf(j)
           d == stream'[Season].changes
           n == Len(c) - 1
<1>1. IsSequence(c) /\ Len(c) \in Nat \ {0} /\ d = Append(c, e)
  BY SeasonRow
<1>2. Last(c).kind # "SEASON_CLOSED" /\ BaseEvents = Len(policy.events) - Len(OwnedChanges(c))
      /\ BaseEvents \in Nat
      /\ \A i \in DOMAIN OwnedChanges(c) :
           Entry(OwnedChanges(c)[i]) = Entry(policy.events[BaseEvents + i])
  BY DEF Told, BaseEvents
<1>3. ~Closing(e)
  BY DEF Closing
<1> DEFINE f == policy.events
           g == policy'.events
           b == BaseEvents
<1>4. policy'.status = "ACTIVE" /\ g = Append(f, EventOf(j)) /\ IsSequence(f)
  BY DEF PolicyAfter, Policies
<1>5. /\ Len(f) \in Nat /\ Len(g) = Len(f) + 1 /\ g[Len(f) + 1] = EventOf(j)
      /\ \A i \in 1..Len(f) : g[i] = f[i]
  BY <1>4, AppendKeeps DEF IsSequence
<1>6. Entry(EventOf(j)) = Entry(e)
  BY DEF Entry, EventOf, ChangeOf, Owned
<1> HIDE DEF c, e, d, f, g
<1>7. /\ Last(d) = e
      /\ Len(OwnedChanges(c)) = n /\ DOMAIN OwnedChanges(c) = 1..n
      /\ \A i \in 1..n : OwnedChanges(d)[i] = OwnedChanges(c)[i]
      /\ Len(OwnedChanges(d)) = n + 1 /\ DOMAIN OwnedChanges(d) = 1..(n + 1)
      /\ OwnedChanges(d)[n + 1] = e
  BY <1>1, <1>2, <1>3, OwnedGrow
<1>8. BaseEvents' = Len(g) - Len(OwnedChanges(d))
  BY DEF BaseEvents, g, d
<1>9. n \in Nat /\ b = Len(f) - n /\ b \in Nat /\ BaseEvents' = b
  BY <1>1, <1>2, <1>5, <1>7, <1>8 DEF f
<1>10. ASSUME NEW i \in DOMAIN OwnedChanges(d)
       PROVE  Entry(OwnedChanges(d)[i]) = Entry(g[b + i])
  <2>1. i \in 1..(n + 1)
    BY <1>7
  <2>2. CASE i \in 1..n
    <3>1. b + i \in 1..Len(f)
      BY <1>5, <1>9, <2>2
    <3>2. g[b + i] = f[b + i] /\ OwnedChanges(d)[i] = OwnedChanges(c)[i]
      BY <1>5, <1>7, <2>2, <3>1
    <3>3. Entry(OwnedChanges(c)[i]) = Entry(f[b + i])
      BY <1>2, <1>7, <2>2 DEF f
    <3> QED
      BY <3>2, <3>3
  <2>3. CASE i = n + 1
    <3>1. b + i = Len(f) + 1
      BY <1>5, <1>9, <2>3
    <3> QED
      BY <1>5, <1>6, <1>7, <2>3, <3>1
  <2> QED
    BY <1>9, <2>1, <2>2, <2>3
<1>11. (Last(d).kind = "SEASON_CLOSED") = (policy'.status = "FINALIZED")
  BY <1>3, <1>4, <1>7 DEF Closing
<1>12. \A i \in DOMAIN OwnedChanges(d) : Entry(OwnedChanges(d)[i]) = Entry(g[BaseEvents' + i])
  BY <1>9, <1>10
<1> QED
  BY <1>9, <1>11, <1>12 DEF Told, d, g

\* The close of a season adds nothing to what it tells.
LEMMA CloseTold ==
    ASSUME Streams, stream[Season] # None, Told, policy.status = "ACTIVE",
           policy'.events = policy.events, policy'.status = "FINALIZED",
           stream'[Season].changes = Append(stream[Season].changes, SeasonClosed)
    PROVE  Told'
<1> DEFINE c == stream[Season].changes
           e == SeasonClosed
           d == stream'[Season].changes
           n == Len(c) - 1
           b == BaseEvents
<1>1. IsSequence(c) /\ Len(c) \in Nat \ {0} /\ d = Append(c, e)
  BY SeasonRow
<1>2. Last(c).kind # "SEASON_CLOSED" /\ b = Len(policy.events) - Len(OwnedChanges(c))
      /\ b \in Nat
      /\ \A i \in DOMAIN OwnedChanges(c) :
           Entry(OwnedChanges(c)[i]) = Entry(policy.events[b + i])
  BY DEF Told, BaseEvents
<1>3. Closing(e) /\ e.kind = "SEASON_CLOSED"
  BY DEF Closing, SeasonClosed
<1> HIDE DEF c, e, d
<1>4. /\ Last(d) = e
      /\ Len(OwnedChanges(c)) = n /\ DOMAIN OwnedChanges(c) = 1..n
      /\ \A i \in 1..n : OwnedChanges(d)[i] = OwnedChanges(c)[i]
      /\ Len(OwnedChanges(d)) = n /\ DOMAIN OwnedChanges(d) = 1..n
  BY <1>1, <1>2, <1>3, OwnedGrow
<1>5. BaseEvents' = Len(policy'.events) - Len(OwnedChanges(d))
  BY DEF BaseEvents, d
<1>6. BaseEvents' = b
  BY <1>2, <1>4, <1>5
<1>7. \A i \in DOMAIN OwnedChanges(d) : Entry(OwnedChanges(d)[i]) = Entry(policy'.events[b + i])
  BY <1>2, <1>4
<1> HIDE DEF b
<1>8. \A i \in DOMAIN OwnedChanges(d) : Entry(OwnedChanges(d)[i]) = Entry(policy'.events[BaseEvents' + i])
  BY <1>6, <1>7
<1>9. BaseEvents' \in Nat
  BY <1>2, <1>6 DEF b
<1>10. (Last(d).kind = "SEASON_CLOSED") = (policy'.status = "FINALIZED")
  BY <1>3, <1>4
<1> QED
  BY <1>8, <1>9, <1>10 DEF Told, d

------------------------------------------------------------------------------
\* Every commit keeps the season's replay

LEMMA SameSeason ==
    ASSUME SeasonInv, Decisions', policy' = policy, stream'[Season] = stream[Season]
    PROVE  SeasonInv'
<1>1. Policies'
  BY DEF SeasonInv, Policies
<1>2. Run' = Run
  BY DEF Run
<1>3. BaseEvents' = BaseEvents
  BY DEF BaseEvents
<1>4. stream'[Season] # None => Replayed' /\ Mirrored' /\ Told'
  BY <1>2, <1>3 DEF SeasonInv, Replayed, Mirrored, Told
<1> QED
  BY <1>1, <1>4 DEF SeasonInv

LEMMA CommittedRow ==
    ASSUME NEW j, StreamAfter(j) # None, Streams, Pending(j)
    PROVE  LET old == stream[Season]
               row == StreamAfter(j)
           IN  /\ old # None /\ row.start = old.start
               /\ row.changes = IF Writes(j) THEN Append(old.changes, ChangeOf(j)) ELSE old.changes
               /\ Writes(j) => Appendable(ChangeOf(j))
               /\ j.op = "claim" \/ j.op = "finalize" => row.through = ChangeOf(j).at
               /\ j.op = "cut" => /\ row.through = j.through
                                  /\ Confirmable(row.changes, row.start, j.through)
                                  /\ j.through >= IF Writes(j) THEN ChangeOf(j).at ELSE old.through
<1> DEFINE old == stream[Season]
           base == IF Writes(j) THEN Appended(old, ChangeOf(j)) ELSE old
           row == StreamAfter(j)
<1>1. /\ old # None
      /\ row = [start |-> old.start, through |-> row.through,
                changes |-> IF Writes(j) THEN Append(old.changes, ChangeOf(j)) ELSE old.changes]
  BY StreamAfterShape
<1>2. row.start = old.start
      /\ row.changes = IF Writes(j) THEN Append(old.changes, ChangeOf(j)) ELSE old.changes
  <2> HIDE DEF row
  <2> QED BY <1>1
<1>3. base.through = IF Writes(j) THEN ChangeOf(j).at ELSE old.through
  BY DEF Appended
<1>4. /\ base.start = old.start
      /\ base.changes = IF Writes(j) THEN Append(old.changes, ChangeOf(j)) ELSE old.changes
  BY DEF Appended
<1>5. Writes(j) => Appendable(ChangeOf(j))
  BY DEF StreamAfter
<1>6. j.op # "cut" => row = base
  BY <1>1 DEF StreamAfter
<1>7. j.op = "claim" \/ j.op = "finalize" => Writes(j) /\ j.op # "cut"
  BY DEF Writes, Closes
<1>8. ASSUME j.op = "cut"
      PROVE  /\ row.through = j.through /\ j.through >= base.through
             /\ Confirmable(base.changes, base.start, j.through)
  <2>1. /\ row = [base EXCEPT !.through = j.through]
        /\ j.through >= base.through /\ Confirmable(base.changes, base.start, j.through)
    BY <1>8 DEF StreamAfter
  <2>2. base = [start |-> base.start, through |-> base.through, changes |-> base.changes]
    <3>1. old = [start |-> old.start, through |-> old.through, changes |-> old.changes]
      BY <1>1, SeasonRow
    <3>2. CASE Writes(j)
      BY <3>2 DEF Appended
    <3>3. CASE ~Writes(j)
      BY <3>1, <3>3
    <3> QED
      BY <3>2, <3>3
  <2> HIDE DEF base, row
  <2> DEFINE a == base.start
             b == base.through
             c == base.changes
             t == j.through
  <2>3. base = [start |-> a, through |-> b, changes |-> c]
    BY <2>2
  <2> HIDE DEF a, b, c, t
  <2>4. [base EXCEPT !.through = t] = [start |-> a, through |-> t, changes |-> c]
    BY <2>3, RowChanged
  <2>5. row.through = t
    BY <2>1, <2>4 DEF t
  <2> QED
    BY <2>1, <2>5 DEF t
<1> HIDE DEF base, row
<1> QED
  BY <1>1, <1>2, <1>3, <1>4, <1>5, <1>6, <1>7, <1>8 DEF row

\* A change the replay accepts is appended.
LEMMA SeasonGrows ==
    ASSUME Streams, stream[Season] # None, Replayed, NEW e,
           Fits(Run, stream[Season].start, e), e.at \in Nat, stream[Season].through <= e.at,
           ArePeriods(PeriodsAfter(Run, e)),
           stream'[Season].start = stream[Season].start,
           stream'[Season].changes = Append(stream[Season].changes, e),
           stream'[Season].through \in Nat, e.at <= stream'[Season].through,
           stream'[Season].through < Ends \/ Closing(e),
           Closing(e) <=> policy'.status = "FINALIZED",
           policy'.status = "ACTIVE" => AllMirror(PeriodsAfter(Run, e), policy'.owner)
    PROVE  Replayed' /\ Mirrored'
<1> DEFINE c == stream[Season].changes
           t == stream[Season].start
<1>1. IsSequence(c) /\ Len(c) \in Nat \ {0}
  BY SeasonRow
<1>2. Run' = Apply(Run, e)
  BY <1>1, ReplayGrows DEF Run, Replayed
<1>3. /\ Run'.ok /\ Run'.revision = Run.revision + 1 /\ Run'.last = e.at
      /\ Run'.closed = (e.kind = "SEASON_CLOSED") /\ Run'.periods = PeriodsAfter(Run, e)
  BY <1>2, AppliedIs
<1>4. Len(stream'[Season].changes) = Len(c) + 1
  BY <1>1, AppendKeeps DEF IsSequence
<1>5. /\ t \in Nat /\ stream[Season].through \in Nat /\ t < Ends /\ t <= stream[Season].through
      /\ Run.revision = Len(c)
  BY DEF Replayed
<1>6. /\ t <= stream'[Season].through /\ Run'.last <= stream'[Season].through /\ Run'.last \in Nat
  BY <1>3, <1>5
<1>7. Run'.closed = (policy'.status = "FINALIZED")
  BY <1>3 DEF Closing
<1>8. Run'.revision = Len(stream'[Season].changes)
  BY <1>3, <1>4, <1>5
<1>9. stream'[Season].through < Ends \/ Run'.closed
  BY <1>3 DEF Closing
<1>10. Replayed'
  BY <1>3, <1>5, <1>6, <1>7, <1>8, <1>9 DEF Replayed
<1>11. Mirrored'
  BY <1>3 DEF Mirrored
<1> QED
  BY <1>10, <1>11

LEMMA CloseFits ==
    ASSUME Streams, stream[Season] # None, Replayed, Mirrored, policy.status = "ACTIVE",
           Appendable(SeasonClosed)
    PROVE  /\ Fits(Run, stream[Season].start, SeasonClosed)
           /\ ArePeriods(PeriodsAfter(Run, SeasonClosed))
           /\ SeasonClosed.at = Ends /\ Ends \in Nat /\ stream[Season].through <= Ends
           /\ Closing(SeasonClosed)
<1> DEFINE e == SeasonClosed
<1>1. e.kind = "SEASON_CLOSED" /\ e.at = Ends /\ Ends \in Nat
  BY ScopesAssumption DEF SeasonClosed
<1>2. stream[Season].through <= Ends
  BY <1>1 DEF Appendable
<1>3. Len(stream[Season].changes) \in Nat \ {0}
  BY SeasonRow
<1>4. /\ Run.ok /\ Run.closed = FALSE /\ Run.revision \in Nat /\ Run.revision # 0 /\ Run.last <= Ends
      /\ ArePeriods(Run.periods)
  <2>1. /\ Run.ok /\ Run.revision = Len(stream[Season].changes) /\ Run.last \in Nat
        /\ Run.last <= stream[Season].through /\ stream[Season].through \in Nat
        /\ Run.closed = (policy.status = "FINALIZED")
    BY DEF Replayed
  <2>2. Run.closed = FALSE
    BY <2>1
  <2>3. Run.last <= Ends
    BY <1>1, <1>2, <2>1
  <2> QED
    BY <1>3, <2>1, <2>2, <2>3 DEF Mirrored
<1> HIDE DEF e
<1>5. Fits(Run, stream[Season].start, e)
  BY <1>1, <1>4 DEF Fits
<1>6. PeriodsAfter(Run, e) = ClosePeriods(Run.periods, Sites, Ends)
  BY <1>1 DEF PeriodsAfter
<1>7. ArePeriods(PeriodsAfter(Run, e))
  BY <1>1, <1>4, <1>6, PeriodsClosed
<1> QED
  BY <1>1, <1>2, <1>5, <1>7 DEF e, Closing

LEMMA PolicyDecided ==
    ASSUME Policies, NEW j, Pending(j), policy' = PolicyAfter(j)
    PROVE  /\ Policies'
           /\ j.op = "claim" => policy'.status = policy.status
                                /\ policy'.events = Append(policy.events, EventOf(j))
           /\ j.op # "claim" => policy'.status = "FINALIZED" /\ policy'.events = policy.events
<1>1. CASE j.op = "claim"
  <2>1. /\ policy'.status = policy.status /\ policy'.events = Append(policy.events, EventOf(j))
        /\ policy'.owner = [policy.owner EXCEPT ![j.claim.site] =
                              [pet |-> j.claim.pet, verified |-> j.claim.verified]]
        /\ policy' = [status |-> policy'.status, owner |-> policy'.owner, events |-> policy'.events]
    BY <1>1 DEF PolicyAfter
  <2>2. j.claim \in Claims /\ j.claim.site \in Sites
    BY <1>1, ClaimsAssumption DEF Pending
  <2>3. [pet |-> j.claim.pet, verified |-> j.claim.verified] \in Owners
    BY <2>2, ClaimsAssumption DEF Owners
  <2>4. policy'.owner \in [Sites -> Owners]
    BY <2>1, <2>2, <2>3 DEF Policies
  <2>5. IsSequence(policy'.events)
    BY <2>1, AppendIsSequence DEF Policies
  <2> QED
    BY <1>1, <2>1, <2>4, <2>5 DEF Policies
<1>2. CASE j.op # "claim"
  <2> DEFINE a == policy.status
             b == policy.owner
             f == policy.events
  <2>1. policy = [status |-> a, owner |-> b, events |-> f]
    BY DEF Policies
  <2>2. policy' = [policy EXCEPT !.status = "FINALIZED"]
    BY <1>2 DEF PolicyAfter
  <2> HIDE DEF a, b, f
  <2>3. [policy EXCEPT !.status = "FINALIZED"] = [status |-> "FINALIZED", owner |-> b, events |-> f]
    BY <2>1
  <2>4. policy' = [status |-> "FINALIZED", owner |-> b, events |-> f]
    BY <2>2, <2>3
  <2>5. policy'.status = "FINALIZED" /\ policy'.owner = policy.owner /\ policy'.events = policy.events
    BY <2>4 DEF b, f
  <2> QED
    BY <1>2, <2>4, <2>5 DEF Policies, b, f
<1> QED
  BY <1>1, <1>2

LEMMA CommitKeeps ==
    ASSUME NEW w \in Workers, Commit(w), Streams, SeasonInv, Decisions'
    PROVE  SeasonInv'
<1> DEFINE j == job[w]
           row == StreamAfter(j)
           old == stream[Season]
           new == stream'[Season]
<1>0. Pending(j) /\ Policies /\ Season \in Scopes /\ stream = [s \in Scopes |-> stream[s]]
  BY DEF Commit, SeasonInv, Decisions, Streams, Scopes
<1>1. CASE row = None
  <2>1. policy' = policy /\ stream' = stream
    BY <1>1 DEF Commit
  <2> QED
    BY <2>1, SameSeason
<1>2. CASE row # None
  <2>1. /\ stream' = [stream EXCEPT ![Season] = row]
        /\ policy' = IF Writes(j) THEN PolicyAfter(j) ELSE policy
    BY <1>2 DEF Commit
  <2>2. new = row
    BY <1>0, <2>1
  <2>3. /\ old # None /\ new.start = old.start
        /\ new.changes = IF Writes(j) THEN Append(old.changes, ChangeOf(j)) ELSE old.changes
        /\ Writes(j) => Appendable(ChangeOf(j))
        /\ j.op = "claim" \/ j.op = "finalize" => new.through = ChangeOf(j).at
        /\ j.op = "cut" => /\ new.through = j.through
                           /\ Confirmable(new.changes, new.start, j.through)
                           /\ j.through >= IF Writes(j) THEN ChangeOf(j).at ELSE old.through
    BY <1>0, <1>2, <2>2, CommittedRow
  <2>4. Replayed /\ Mirrored /\ Told
    BY <2>3 DEF SeasonInv
  <2> HIDE DEF row, old, new, j
  <2>5. CASE j.op = "claim"
    <3> DEFINE e == ChangeOf(j)
    <3>1. /\ Writes(j) /\ Appendable(e) /\ new.through = e.at
          /\ new.changes = Append(old.changes, e) /\ policy' = PolicyAfter(j)
      BY <2>1, <2>3, <2>5 DEF Writes
    <3>2. /\ Fits(Run, old.start, e)
          /\ e.at \in Nat /\ e.at < Ends /\ e.kind # "SEASON_CLOSED"
          /\ ArePeriods(PeriodsAfter(Run, e))
          /\ AllMirror(PeriodsAfter(Run, e), PolicyAfter(j).owner)
      BY <1>0, <2>3, <2>4, <2>5, <3>1, ClaimFits DEF old
    <3>3. policy.status = "ACTIVE"
      BY <1>0, <2>5 DEF Pending
    <3>4. policy'.status = policy.status
      BY <1>0, <2>5, <3>1, PolicyDecided
    <3>5. Policies'
      BY <1>0, <3>1, PolicyDecided
    <3> HIDE DEF e
    <3>6. Told'
      BY <1>0, <2>3, <2>4, <2>5, <3>1, <3>2, <3>3, ClaimTold DEF e, old, new
    <3>7. old.through <= e.at /\ ~Closing(e)
      BY <3>1, <3>2, <2>4 DEF Appendable, old, Closing, Replayed
    <3>8. Replayed' /\ Mirrored'
      <4>1. AllMirror(PeriodsAfter(Run, e), policy'.owner)
        BY <3>1, <3>2
      <4>2. new.through \in Nat /\ e.at <= new.through /\ new.through < Ends
        BY <3>1, <3>2
      <4>3. Closing(e) <=> policy'.status = "FINALIZED"
        BY <3>3, <3>4, <3>7
      <4> QED
        BY <2>3, <2>4, <3>1, <3>2, <3>7, <4>1, <4>2, <4>3, SeasonGrows DEF old, new
    <3> QED
      BY <3>5, <3>6, <3>8 DEF SeasonInv
  <2>6. ASSUME Writes(j), j.op # "claim", new.through \in Nat, new.through >= Ends,
               policy.status = "ACTIVE"
        PROVE  SeasonInv'
    <3> DEFINE e == SeasonClosed
    <3>1. ChangeOf(j) = e
      BY <2>6 DEF ChangeOf
    <3>2. Appendable(e) /\ new.changes = Append(old.changes, e)
      BY <2>3, <2>6, <3>1
    <3>3. /\ Fits(Run, old.start, e) /\ ArePeriods(PeriodsAfter(Run, e))
          /\ e.at = Ends /\ Ends \in Nat /\ old.through <= Ends /\ Closing(e)
      BY <2>3, <2>4, <2>6, <3>2, CloseFits DEF old
    <3>4. policy' = PolicyAfter(j)
      BY <2>1, <2>6
    <3>6. policy'.status = "FINALIZED" /\ policy'.events = policy.events
      BY <1>0, <2>6, <3>4, PolicyDecided
    <3>7. Policies'
      BY <1>0, <3>4, PolicyDecided
    <3> HIDE DEF e
    <3>8. Told'
      BY <2>3, <2>4, <2>6, <3>2, <3>6, <1>0, CloseTold DEF e, old, new
    <3>9. Replayed' /\ Mirrored'
      BY <2>3, <2>4, <2>6, <3>2, <3>3, <3>6, SeasonGrows DEF old, new
    <3> QED
      BY <3>7, <3>8, <3>9 DEF SeasonInv
  <2>7. CASE j.op = "finalize"
    <3>1. Writes(j) /\ ChangeOf(j) = SeasonClosed /\ policy.status = "ACTIVE"
      BY <1>0, <2>7 DEF Writes, Closes, ChangeOf, Pending
    <3>2. new.through = Ends /\ Ends \in Nat
      BY <2>3, <2>7, <3>1, ScopesAssumption DEF SeasonClosed
    <3> QED
      BY <2>6, <2>7, <3>1, <3>2
  <2>8. CASE j.op = "cut" /\ j.closing
    <3>1. Writes(j) /\ ChangeOf(j) = SeasonClosed /\ policy.status = "ACTIVE"
      BY <1>0, <2>8 DEF Writes, Closes, ChangeOf, Pending
    <3>2. SeasonClosed.at = Ends /\ Ends \in Nat
      BY ScopesAssumption DEF SeasonClosed
    <3>3. new.through \in Nat /\ new.through >= Ends
      BY <1>0, <2>3, <2>8, <3>1, <3>2 DEF Pending
    <3> QED
      BY <2>6, <2>8, <3>1, <3>3
  <2>9. CASE j.op = "cut" /\ ~j.closing
    <3>1. ~Writes(j)
      BY <2>9 DEF Writes, Closes
    <3>2. /\ policy' = policy /\ new.changes = old.changes /\ new.start = old.start
          /\ new.through = j.through /\ j.through \in Nat
          /\ Confirmable(old.changes, old.start, j.through)
      BY <1>0, <2>1, <2>3, <2>9, <3>1 DEF Pending
    <3>3. Run' = Run
      BY <3>2 DEF Run, old, new
    <3>4. BaseEvents' = BaseEvents
      BY <3>2 DEF BaseEvents, old, new
    <3>5. /\ old.start <= j.through /\ Run.last <= j.through
          /\ j.through < Ends \/ Run.closed
      BY <3>2 DEF Confirmable, Run, old
    <3>6. Replayed'
      BY <2>4, <3>2, <3>3, <3>5 DEF Replayed, old, new
    <3>7. Mirrored' /\ Told' /\ Policies'
      BY <1>0, <2>4, <3>2, <3>3, <3>4 DEF Mirrored, Told, Policies, old, new
    <3> QED
      BY <3>6, <3>7 DEF SeasonInv
  <2> QED
    BY <1>0, <2>5, <2>7, <2>8, <2>9 DEF Pending
<1> QED
  BY <1>1, <1>2

LEMMA PlainKeeps ==
    ASSUME NEW w \in Workers, CommitPlain(w), SeasonInv, Decisions'
    PROVE  SeasonInv'
<1>1. stream' = stream /\ Pending(job[w]) /\ Policies
  BY DEF CommitPlain, SeasonInv, Decisions
<1>2. CASE stream[Season] = None
  <2>1. policy' = PolicyAfter(job[w])
    BY <1>2 DEF CommitPlain
  <2>2. Policies'
    BY <1>1, <2>1, PolicyDecided
  <2> QED
    BY <1>1, <1>2, <2>2 DEF SeasonInv
<1>3. CASE stream[Season] # None
  <2>1. policy' = policy
    BY <1>3 DEF CommitPlain
  <2> QED
    BY <1>1, <2>1, SameSeason
<1> QED
  BY <1>2, <1>3

\* The replay begins with what is owned.
LEMMA InitialPeriods ==
    ASSUME NEW at \in Nat, NEW owners, owners \in [Sites -> Owners],
           NEW periods,
           periods = {NewPeriod(1, at, s, owners[s].pet, owners[s].verified, TRUE, FALSE) :
                        s \in {t \in Sites : owners[t] # None}}
    PROVE  ArePeriods(periods) /\ AllMirror(periods, owners)
<1> DEFINE P(s) == NewPeriod(1, at, s, owners[s].pet, owners[s].verified, TRUE, FALSE)
           Held == {t \in Sites : owners[t] # None}
<1>1. \A s \in Held : /\ s \in Sites /\ owners[s].pet \in Pets /\ owners[s].verified \in BOOLEAN
                      /\ owners[s] = [pet |-> owners[s].pet, verified |-> owners[s].verified]
  BY DEF Owners
<1>2. \A s \in Held : /\ P(s) \in Period /\ P(s).site = s /\ P(s).ended = NoTime
                      /\ P(s).pet = owners[s].pet /\ (P(s).verified # NoTime <=> owners[s].verified)
  <2> SUFFICES ASSUME NEW s \in Held
               PROVE  /\ P(s) \in Period /\ P(s).site = s /\ P(s).ended = NoTime
                      /\ P(s).pet = owners[s].pet /\ (P(s).verified # NoTime <=> owners[s].verified)
    OBVIOUS
  <2> DEFINE pet == owners[s].pet
             verified == owners[s].verified
  <2>1. s \in Sites /\ pet \in Pets /\ verified \in BOOLEAN
    BY <1>1
  <2> HIDE DEF pet, verified
  <2>2. /\ NewPeriod(1, at, s, pet, verified, TRUE, FALSE) \in Period
        /\ NewPeriod(1, at, s, pet, verified, TRUE, FALSE).site = s
        /\ NewPeriod(1, at, s, pet, verified, TRUE, FALSE).ended = NoTime
        /\ NewPeriod(1, at, s, pet, verified, TRUE, FALSE).pet = pet
        /\ (NewPeriod(1, at, s, pet, verified, TRUE, FALSE).verified # NoTime <=> verified)
    BY <2>1 DEF NewPeriod, Period, NoTime
  <2> QED
    BY <2>2 DEF pet, verified
<1>3. periods = {P(s) : s \in Held}
  OBVIOUS
<1> HIDE DEF P
<1>4. ArePeriods(periods)
  BY <1>2, <1>3 DEF ArePeriods
<1>6. \A p \in periods : p.site \in Held /\ p = P(p.site)
  BY <1>2, <1>3
<1>5. ASSUME NEW s \in Sites
      PROVE  Mirrors(periods, s, owners[s])
  <2>1. CASE owners[s] = None
    <3>1. s \notin Held
      BY <2>1
    <3> HIDE DEF Held
    <3>2. Open(periods, s) = {}
      BY <1>6, <3>1 DEF Open
    <3> QED
      BY <2>1, <3>2 DEF Mirrors
  <2>2. CASE owners[s] # None
    <3>0. s \in Held
      BY <2>2
    <3> HIDE DEF Held
    <3>1. s \in Held /\ P(s) \in periods
      BY <1>3, <3>0
    <3>2. Open(periods, s) = {P(s)}
      BY <1>2, <1>6, <3>1 DEF Open
    <3>3. owners[s] = [pet |-> P(s).pet, verified |-> P(s).verified # NoTime]
      <4>1. owners[s] = [pet |-> owners[s].pet, verified |-> owners[s].verified]
            /\ owners[s].verified \in BOOLEAN
        BY <1>1, <3>1
      <4>2. P(s).pet = owners[s].pet /\ (P(s).verified # NoTime) = owners[s].verified
        BY <1>2, <3>1, <4>1
      <4> QED
        BY <4>1, <4>2
    <3> QED
      BY <2>2, <3>1, <3>2, <3>3 DEF Mirrors
  <2> QED
    BY <2>1, <2>2
<1> QED
  BY <1>4, <1>5 DEF AllMirror

LEMMA ActivateKeeps ==
    ASSUME NEW now \in Times, NEW start \in Times, Activate(now, start), Streams, SeasonInv, Decisions'
    PROVE  SeasonInv'
<1> DEFINE e == Initialized(start, policy.owner)
           new == stream'[Season]
           r == Blank(start)
<1>1. /\ start \in Nat /\ start < Ends /\ policy.status = "ACTIVE" /\ policy' = policy
      /\ Season \in Scopes /\ Policies
  BY DEF Activate, Times, Scopes, SeasonInv
<1>2. new.start = start /\ new.through = start /\ new.changes = <<e>>
  <2>1. new = [start |-> start, through |-> start, changes |-> <<e>>]
    BY <1>1 DEF Activate, Streams, Started
  <2> HIDE DEF new
  <2> QED BY <2>1
<1>3. e.kind = "INITIALIZED" /\ e.at = start /\ e.owners = policy.owner
  BY DEF Initialized
<1>4. /\ r.ok /\ r.revision = 0 /\ r.last = start /\ r.closed = FALSE
  BY DEF Blank
<1> HIDE DEF e, new, r
<1>5. <<e>> \in Seq({e}) /\ IsSequence(<<e>>) /\ Len(<<e>>) = 1 /\ <<e>>[1] = e /\ <<e>> = Append(<<>>, e)
      /\ <<>> \in Seq({e})
  <2>1. <<e>> \in Seq({e}) /\ Len(<<e>>) = 1 /\ <<e>>[1] = e /\ <<e>> = Append(<<>>, e) /\ <<>> \in Seq({e})
    OBVIOUS
  <2> QED
    BY <2>1, SequencesAre
<1>6. Run' = Apply(r, e)
  <2>1. Run' = Replay(Append(<<>>, e), start)
    BY <1>2, <1>5 DEF Run, new
  <2>2. Replay(Append(<<>>, e), start) = Advance(Replay(<<>>, start), start, e)
    BY <1>5, ReplayAppend
  <2>3. Replay(<<>>, start) = r
    BY ReplayNothing DEF r
  <2>4. Fits(r, start, e)
    BY <1>1, <1>3, <1>4 DEF Fits
  <2> QED
    BY <1>4, <2>1, <2>2, <2>3, <2>4 DEF Advance
<1>7. /\ Run'.ok /\ Run'.revision = 1 /\ Run'.last = start /\ Run'.closed = FALSE
      /\ Run'.periods = PeriodsAfter(r, e)
  <2>1. /\ Run'.ok /\ Run'.revision = r.revision + 1 /\ Run'.last = e.at
        /\ Run'.closed = (e.kind = "SEASON_CLOSED") /\ Run'.periods = PeriodsAfter(r, e)
    BY <1>6, AppliedIs
  <2>2. (e.kind = "SEASON_CLOSED") = FALSE
    BY <1>3
  <2>3. r.revision + 1 = 1
    BY <1>4
  <2> QED
    BY <1>3, <2>1, <2>2, <2>3
<1>8. PeriodsAfter(r, e) =
        {NewPeriod(1, start, s, policy.owner[s].pet, policy.owner[s].verified, TRUE, FALSE) :
           s \in {t \in Sites : policy.owner[t] # None}}
  BY <1>3, <1>4 DEF PeriodsAfter
<1>9. ArePeriods(Run'.periods) /\ AllMirror(Run'.periods, policy.owner)
  <2>1. policy.owner \in [Sites -> Owners]
    BY <1>1 DEF Policies
  <2>2. Run'.periods =
          {NewPeriod(1, start, s, policy.owner[s].pet, policy.owner[s].verified, TRUE, FALSE) :
             s \in {t \in Sites : policy.owner[t] # None}}
    BY <1>7, <1>8
  <2> QED
    BY <1>1, <2>1, <2>2, InitialPeriods
<1>10. Replayed' /\ Mirrored'
  <2>1. Mirrored'
    BY <1>1, <1>9 DEF Mirrored
  <2>2. Replayed'
    <3>1. Run'.closed = (policy'.status = "FINALIZED")
      BY <1>1, <1>7
    <3>2. Run'.revision = Len(new.changes)
      BY <1>2, <1>5, <1>7
    <3> QED
      BY <1>1, <1>2, <1>7, <3>1, <3>2 DEF Replayed, new
  <2> QED
    BY <2>1, <2>2
<1>11. Told'
  <2>1. Last(<<e>>) = e
    BY <1>5 DEF Last
  <2>2. OwnedChanges(<<e>>) = SubSeq(<<e>>, 2, 1)
    BY <1>3, <1>5, <2>1 DEF OwnedChanges
  <2>3. Len(OwnedChanges(<<e>>)) = 0 /\ DOMAIN OwnedChanges(<<e>>) = 1..0
    <3>1. 1 \in 1..Len(<<e>>) /\ 1 - 1 = 0
      BY <1>5
    <3> QED
      BY <1>5, <2>2, <3>1, Between
  <2>4. BaseEvents' = Len(policy.events)
    <3>1. Len(policy.events) \in Nat
      BY <1>1, LenProperties DEF Policies, IsSequence
    <3>2. BaseEvents' = Len(policy.events) - Len(OwnedChanges(<<e>>))
      BY <1>1, <1>2 DEF BaseEvents, new
    <3> QED
      BY <2>3, <3>1, <3>2
  <2>5. BaseEvents' \in Nat
    BY <1>1, <2>4, LenProperties DEF Policies, IsSequence
  <2>6. (Last(new.changes).kind = "SEASON_CLOSED") = (policy'.status = "FINALIZED")
    BY <1>1, <1>2, <1>3, <2>1
  <2>7. \A i \in DOMAIN OwnedChanges(new.changes) : FALSE
    BY <1>2, <2>3
  <2> QED
    BY <2>5, <2>6, <2>7 DEF Told, new
<1>12. Policies'
  BY <1>1 DEF Policies
<1> QED
  BY <1>10, <1>11, <1>12 DEF SeasonInv

LEMMA SeasonInit == Init => SeasonInv
<1> SUFFICES ASSUME Init
             PROVE  SeasonInv
  OBVIOUS
<1>1. stream[Season] = None
  BY DEF Init, Scopes
<1>2. Decisions
  <2>1. \A w \in Workers : job[w].pc = "idle"
    BY DEF Init, Idle
  <2> QED
    BY <2>1 DEF Decisions
<1>3. Policies
  <2>1. policy = [status |-> "ACTIVE", owner |-> [s \in Sites |-> None], events |-> <<>>]
    BY DEF Init
  <2>2. IsSequence(<<>>)
    BY SequencesAre, EmptySeq
  <2>3. policy.status = "ACTIVE" /\ policy.owner = [s \in Sites |-> None] /\ policy.events = <<>>
    BY <2>1
  <2>4. policy.owner \in [Sites -> Owners]
    BY <2>3 DEF Owners
  <2> QED
    BY <2>1, <2>2, <2>3, <2>4 DEF Policies
<1> QED
  BY <1>1, <1>2, <1>3 DEF SeasonInv

LEMMA SeasonNext == StatInv /\ SeasonInv /\ [Next]_vars => SeasonInv'
<1> SUFFICES ASSUME StatInv, SeasonInv, [Next]_vars
             PROVE  SeasonInv'
  OBVIOUS
<1>1. Decisions' /\ Streams
  BY DecisionsNext DEF SeasonInv, StatInv
<1>2. ASSUME NEW w \in Workers, Commit(w)
      PROVE  SeasonInv'
  BY <1>1, <1>2, CommitKeeps
<1>3. ASSUME NEW w \in Workers, CommitPlain(w)
      PROVE  SeasonInv'
  BY <1>1, <1>3, PlainKeeps
<1>4. ASSUME NEW now \in Times, NEW start \in Times, Activate(now, start)
      PROVE  SeasonInv'
  BY <1>1, <1>4, ActivateKeeps
<1>5. ASSUME NEW s \in Selections, Select(s)
      PROVE  SeasonInv'
  <2>1. policy' = policy
    BY <1>5 DEF Select
  <2>2. stream'[Season] = stream[Season]
    BY <1>1, <1>5, SelectGrows, ScopesAssumption DEF Scopes
  <2> QED
    BY <1>1, <2>1, <2>2, SameSeason
<1>6. CASE UNCHANGED policy /\ UNCHANGED stream
  BY <1>1, <1>6, SameSeason
<1> QED
  BY <1>2, <1>3, <1>4, <1>5, <1>6, WhoAppends, WhoDecides

LEMMA SeasonInvariant == Spec => [](StatInv /\ SeasonInv)
<1>1. Init => StatInv /\ SeasonInv
  BY StatInit, SeasonInit
<1>2. (StatInv /\ SeasonInv) /\ [Next]_vars => (StatInv /\ SeasonInv)'
  BY StatNext, SeasonNext
<1> QED
  BY <1>1, <1>2, PTL DEF Spec

LEMMA PolicyFollows == StatInv /\ SeasonInv => StreamFollowsPolicy
<1> SUFFICES ASSUME StatInv, SeasonInv
             PROVE  StreamFollowsPolicy
  OBVIOUS
<1>1. Streams
  BY DEF StatInv
<1>2. ASSUME NEW s \in Scopes, stream[s] # None
      PROVE  Replayable(s, stream[s])
  <2>1. CASE s = Season
    <3>1. Replayed /\ Len(stream[Season].changes) \in Nat \ {0}
      BY <1>1, <1>2, <2>1, SeasonRow DEF SeasonInv
    <3>2. Confirmable(stream[s].changes, stream[s].start, stream[s].through)
      BY <2>1, <3>1 DEF Confirmable, Replayed, Run
    <3> QED
      BY <1>2, <2>1, <3>2 DEF Replayable
  <2>2. CASE s # Season
    BY <1>1, <1>2, <2>2 DEF Replayable, Streams, Scopes
  <2> QED
    BY <2>1, <2>2
<1>3. ASSUME stream[Season] # None
      PROVE  LET changes == stream[Season].changes
                 owned == OwnedChanges(changes)
                 periods == Replay(changes, stream[Season].start).periods
             IN  /\ BaseEvents >= 0
                 /\ \A i \in DOMAIN owned :
                      LET e == policy.events[BaseEvents + i]
                      IN  <<owned[i].at, owned[i].site, owned[i].pet, owned[i].kind>>
                            = <<e.at, e.site, e.pet, e.kind>>
                 /\ (Last(changes).kind = "SEASON_CLOSED") = (policy.status = "FINALIZED")
                 /\ policy.status = "ACTIVE" =>
                      \A s \in Sites :
                        policy.owner[s] = IF Open(periods, s) = {} THEN None
                                          ELSE LET p == CHOOSE q \in Open(periods, s) : TRUE
                                               IN  [pet |-> p.pet, verified |-> p.verified # NoTime]
  <2>1. Told /\ Mirrored
    BY <1>3 DEF SeasonInv
  <2> DEFINE periods == Run.periods
  <2>2. ASSUME policy.status = "ACTIVE", NEW s \in Sites
        PROVE  policy.owner[s] = IF Open(periods, s) = {} THEN None
                                 ELSE LET p == CHOOSE q \in Open(periods, s) : TRUE
                                      IN  [pet |-> p.pet, verified |-> p.verified # NoTime]
    <3>1. Mirrors(periods, s, policy.owner[s])
      BY <2>1, <2>2 DEF Mirrored, AllMirror
    <3> HIDE DEF periods
    <3>2. CASE policy.owner[s] = None
      BY <3>1, <3>2 DEF Mirrors
    <3>3. CASE policy.owner[s] # None
      <4>1. PICK p \in periods : /\ Open(periods, s) = {p}
                                 /\ policy.owner[s] = [pet |-> p.pet, verified |-> p.verified # NoTime]
        BY <3>1, <3>3 DEF Mirrors
      <4>2. (CHOOSE q \in Open(periods, s) : TRUE) = p /\ Open(periods, s) # {}
        BY <4>1, OnlyOne
      <4> QED
        BY <4>1, <4>2
    <3> QED
      BY <3>2, <3>3
  <2>3. periods = Replay(stream[Season].changes, stream[Season].start).periods
    BY DEF Run
  <2>4. BaseEvents >= 0
    BY <2>1 DEF Told
  <2> HIDE DEF periods
  <2> QED
    BY <2>1, <2>2, <2>3, <2>4 DEF Told, Entry
<1> QED
  BY <1>2, <1>3 DEF StreamFollowsPolicy, StreamsReplay

\* Whatever the producers race, from its activation on a season's stream holds
\* exactly what the policy commits, a runner can replay it, and what its replay
\* says is held is what the policy says is owned (append_event and finalize of
\* geo_policy.py, the deferred triggers of 0034, append_territory).
THEOREM StreamIsThePolicy == Spec => []StreamFollowsPolicy
  BY SeasonInvariant, PolicyFollows, PTL

------------------------------------------------------------------------------
\* Sums

\* The element of a set a fold takes first.
FirstOf(T) == CHOOSE x \in T : TRUE

\* The function a sum recurses on.
Summing(h, f) ==
    h = [T \in SUBSET DOMAIN f |->
           IF T = {} THEN 0 ELSE f[FirstOf(T)] + h[T \ {FirstOf(T)}]]

\* A sum is such a function, at the whole domain.
LEMMA SumUnrolled ==
    ASSUME NEW f
    PROVE  SumFunction(f) = (CHOOSE h : Summing(h, f))[DOMAIN f]
  BY DEF SumFunction, SumFunctionOnSet, FoldFunctionOnSet, MapThenFoldSet, Summing, FirstOf

\* One pair per unit of each summand of T.
Units(f, T) == {u \in T \X Nat : 1 <= u[2] /\ u[2] <= f[u[1]]}

LEMMA FirstIsIn == \A T : T # {} => FirstOf(T) \in T
  BY DEF FirstOf

\* A finite set loses its first element: one unit fewer per unit of its summand.
LEMMA UnitsSplit ==
    ASSUME NEW f, NEW T, NEW x \in T, IsFiniteSet(T), \A y \in T : f[y] \in Nat
    PROVE  /\ Units(f, T) = Units(f, T \ {x}) \union ({x} \X (1..f[x]))
           /\ Units(f, T \ {x}) \intersect ({x} \X (1..f[x])) = {}
  BY DEF Units

\* There are n numbers from 1 to n.
LEMMA NumbersUpTo ==
    ASSUME NEW n \in Nat
    PROVE  IsFiniteSet(1..n) /\ Cardinality(1..n) = n
<1>1. 1 \in Int /\ n \in Int
  OBVIOUS
<1>2. /\ IsFiniteSet(1..n)
      /\ Cardinality(1..n) = IF 1 > n THEN 0 ELSE n - 1 + 1
  BY <1>1, FS_Interval
<1>3. Cardinality(1..n) = n
  <2>1. CASE n = 0
    BY <1>2, <2>1
  <2>2. CASE n # 0
    <3>1. ~(1 > n) /\ n - 1 + 1 = n
      BY <2>2
    <3> QED
      BY <1>2, <3>1
  <2> QED
    BY <2>1, <2>2
<1> QED
  BY <1>2, <1>3

\* Units are counted one summand after the other.
LEMMA FewerUnits ==
    ASSUME NEW f, NEW T, NEW x \in T, IsFiniteSet(T), \A y \in T : f[y] \in Nat,
           IsFiniteSet(Units(f, T \ {x}))
    PROVE  /\ IsFiniteSet(Units(f, T))
           /\ Cardinality(Units(f, T)) = f[x] + Cardinality(Units(f, T \ {x}))
<1> DEFINE old == Units(f, T \ {x})
           new == {x} \X (1..f[x])
<1>1. Units(f, T) = old \union new /\ old \intersect new = {}
  BY UnitsSplit
<1>2. IsFiniteSet({x}) /\ Cardinality({x}) = 1
  BY FS_Singleton
<1>3. f[x] \in Nat
  OBVIOUS
<1>4. IsFiniteSet(1..f[x]) /\ Cardinality(1..f[x]) = f[x]
  BY <1>3, NumbersUpTo
<1>5. IsFiniteSet(new) /\ Cardinality(new) = f[x]
  <2>1. IsFiniteSet(new) /\ Cardinality(new) = Cardinality({x}) * Cardinality(1..f[x])
    BY <1>2, <1>4, FS_Product, Zenon
  <2> QED
    BY <1>2, <1>3, <1>4, <2>1
<1>6. IsFiniteSet(old)
  OBVIOUS
<1> HIDE DEF old, new
<1>7. /\ IsFiniteSet(old \union new)
      /\ Cardinality(old \union new) = Cardinality(old) + Cardinality(new) - Cardinality({})
  BY <1>1, <1>5, <1>6, FS_Union
<1>8. Cardinality({}) = 0 /\ Cardinality(old) \in Nat
  BY <1>6, FS_EmptySet, FS_CardinalityType
<1>9. Cardinality(old \union new) = f[x] + Cardinality(old)
  BY <1>3, <1>5, <1>7, <1>8
<1> QED
  BY <1>1, <1>7, <1>9 DEF old

\* Sizes of the subsets of T of which something is not true.
LEMMA SmallestSubset ==
    ASSUME NEW S, IsFiniteSet(S), NEW W, W \subseteq SUBSET S, W # {}
    PROVE  \E T \in W : \A x \in T : T \ {x} \notin W
<1> DEFINE sizes == {n \in Nat : \E T \in W : n = Cardinality(T)}
<1>1. \A T \in W : IsFiniteSet(T) /\ Cardinality(T) \in Nat
  BY FS_Subset, FS_CardinalityType
<1>2. sizes \subseteq Nat /\ sizes # {}
  BY <1>1
<1> HIDE DEF sizes
<1>3. PICK n \in sizes : \A m \in sizes : n <= m
  BY <1>2, Least
<1>4. PICK T \in W : n = Cardinality(T)
  BY <1>3 DEF sizes
<1>5. ASSUME NEW x \in T, T \ {x} \in W PROVE FALSE
  <2>1. Cardinality(T \ {x}) = Cardinality(T) - 1
    BY <1>1, <1>4, FS_RemoveElement
  <2>2. Cardinality(T \ {x}) \in sizes
    BY <1>1, <1>5 DEF sizes
  <2>3. n \in Nat /\ n <= Cardinality(T \ {x})
    BY <1>2, <1>3, <2>2
  <2> QED
    BY <1>4, <2>1, <2>3
<1> QED
  BY <1>4, <1>5

LEMMA UnitsFinite ==
    ASSUME NEW f, NEW S, IsFiniteSet(S), \A x \in S : f[x] \in Nat
    PROVE  \A T \in SUBSET S : IsFiniteSet(Units(f, T))
<1> DEFINE W == {T \in SUBSET S : ~ IsFiniteSet(Units(f, T))}
<1> SUFFICES ASSUME W # {} PROVE FALSE
  OBVIOUS
<1>1. PICK T \in W : \A x \in T : T \ {x} \notin W
  BY SmallestSubset
<1>2. T # {}
  BY FS_EmptySet DEF Units
<1>3. PICK x \in T : TRUE
  BY <1>2
<1>4. IsFiniteSet(T) /\ \A y \in T : f[y] \in Nat
  BY FS_Subset
<1>5. IsFiniteSet(Units(f, T \ {x}))
  BY <1>1, <1>3
<1> QED
  BY <1>3, <1>4, <1>5, FewerUnits

\* A recursion that adds the summands one by one counts the units.
LEMMA SummingCounts ==
    ASSUME NEW f, IsFiniteSet(DOMAIN f), \A x \in DOMAIN f : f[x] \in Nat,
           NEW h, Summing(h, f)
    PROVE  \A T \in SUBSET DOMAIN f : h[T] = Cardinality(Units(f, T))
<1> DEFINE W == {T \in SUBSET DOMAIN f : h[T] # Cardinality(Units(f, T))}
<1> SUFFICES ASSUME W # {} PROVE FALSE
  OBVIOUS
<1>1. PICK T \in W : \A x \in T : T \ {x} \notin W
  BY SmallestSubset
<1>2. T \in SUBSET DOMAIN f /\ IsFiniteSet(T) /\ \A y \in T : f[y] \in Nat
  BY FS_Subset
<1>3. h[T] = IF T = {} THEN 0 ELSE f[FirstOf(T)] + h[T \ {FirstOf(T)}]
  BY <1>2 DEF Summing
<1>4. CASE T = {}
  BY <1>1, <1>3, <1>4, FS_EmptySet DEF Units
<1>5. CASE T # {}
  <2> DEFINE x == FirstOf(T)
  <2>1. x \in T
    BY <1>5, FirstIsIn
  <2> HIDE DEF x
  <2>2. h[T] = f[x] + h[T \ {x}]
    BY <1>3, <1>5 DEF x
  <2>3. h[T \ {x}] = Cardinality(Units(f, T \ {x}))
    BY <1>1, <1>2, <2>1
  <2>4. IsFiniteSet(Units(f, T \ {x}))
    BY <1>2, UnitsFinite
  <2>5. Cardinality(Units(f, T)) = f[x] + Cardinality(Units(f, T \ {x}))
    BY <1>2, <2>1, <2>4, FewerUnits
  <2> QED
    BY <1>1, <2>2, <2>3, <2>5
<1> QED
  BY <1>4, <1>5

LEMMA SummingExists ==
    ASSUME NEW f, IsFiniteSet(DOMAIN f), \A x \in DOMAIN f : f[x] \in Nat
    PROVE  \E h : Summing(h, f)
<1> DEFINE h == [T \in SUBSET DOMAIN f |-> Cardinality(Units(f, T))]
<1>1. ASSUME NEW T \in SUBSET DOMAIN f
      PROVE  h[T] = IF T = {} THEN 0 ELSE f[FirstOf(T)] + h[T \ {FirstOf(T)}]
  <2>1. CASE T = {}
    BY <2>1, FS_EmptySet DEF Units
  <2>2. CASE T # {}
    <3>1. FirstOf(T) \in T
      BY <2>2, FirstIsIn
    <3>2. IsFiniteSet(T) /\ IsFiniteSet(Units(f, T \ {FirstOf(T)}))
      BY UnitsFinite, FS_Subset
    <3>3. Cardinality(Units(f, T)) = f[FirstOf(T)] + Cardinality(Units(f, T \ {FirstOf(T)}))
      BY <3>1, <3>2, FewerUnits
    <3> QED
      BY <2>2, <3>3
  <2> QED
    BY <2>1, <2>2
<1>2. h = [T \in SUBSET DOMAIN f |-> h[T]]
  OBVIOUS
<1> HIDE DEF h
<1>3. Summing(h, f)
  BY <1>1, <1>2 DEF Summing
<1> QED
  BY <1>3

\* A sum of naturals over a finite set is the number of its units.
LEMMA SumIsCount ==
    ASSUME NEW f, IsFiniteSet(DOMAIN f), \A x \in DOMAIN f : f[x] \in Nat
    PROVE  /\ SumFunction(f) = Cardinality(Units(f, DOMAIN f))
           /\ SumFunction(f) \in Nat
<1> DEFINE h == CHOOSE h : Summing(h, f)
<1>1. Summing(h, f)
  BY SummingExists
<1> HIDE DEF h
<1>2. h[DOMAIN f] = Cardinality(Units(f, DOMAIN f))
  BY <1>1, SummingCounts
<1>3. IsFiniteSet(Units(f, DOMAIN f))
  BY UnitsFinite
<1> QED
  BY <1>2, <1>3, SumUnrolled, FS_CardinalityType DEF h

\* Instants told one by one: the x-th counted set holds the f[x] instants at
\* place[x] from lo[x] on, every member of T is one of them, and no two sets meet.
Tallies(f, lo, place, D, T) ==
    /\ IsFiniteSet(D) /\ DOMAIN f = D
    /\ \A x \in D : f[x] \in Nat /\ lo[x] \in Nat
    /\ \A x \in D, k \in Nat : 1 <= k /\ k <= f[x] => <<place[x], lo[x] + k - 1>> \in T
    /\ \A i \in T : \E x \in D, k \in Nat : 1 <= k /\ k <= f[x] /\ i = <<place[x], lo[x] + k - 1>>
    /\ \A x, y \in D, k, l \in Nat :
         /\ 1 <= k /\ k <= f[x] /\ 1 <= l /\ l <= f[y]
         /\ place[x] = place[y] /\ lo[x] + k - 1 = lo[y] + l - 1
         => x = y

\* What is summed interval by interval is counted instant by instant.
LEMMA SumOfInstants ==
    ASSUME NEW f, NEW lo, NEW place, NEW D, NEW T, Tallies(f, lo, place, D, T)
    PROVE  SumFunction(f) = Cardinality(T)
<1> DEFINE U == Units(f, D)
           m == [u \in U |-> <<place[u[1]], lo[u[1]] + u[2] - 1>>]
<1>1. IsFiniteSet(D) /\ DOMAIN f = D /\ \A x \in D : f[x] \in Nat /\ lo[x] \in Nat
  BY DEF Tallies
<1>2. SumFunction(f) = Cardinality(U) /\ IsFiniteSet(U)
  BY <1>1, SumIsCount, UnitsFinite
<1>3. \A u \in U : /\ u = <<u[1], u[2]>> /\ u[1] \in D /\ u[2] \in Nat
                   /\ 1 <= u[2] /\ u[2] <= f[u[1]]
  BY DEF Units
<1>4. \A x \in D, k \in Nat : 1 <= k /\ k <= f[x] => <<x, k>> \in U
  BY DEF Units
<1> HIDE DEF U
<1>5. \A u \in U : m[u] \in T
  BY <1>3 DEF Tallies
<1>6. \A u, v \in U : m[u] = m[v] => u = v
  <2> SUFFICES ASSUME NEW u \in U, NEW v \in U, m[u] = m[v]
               PROVE  u = v
    OBVIOUS
  <2>1. place[u[1]] = place[v[1]] /\ lo[u[1]] + u[2] - 1 = lo[v[1]] + v[2] - 1
    OBVIOUS
  <2>2. u[1] = v[1]
    BY <1>3, <2>1 DEF Tallies
  <2>3. u[2] = v[2]
    BY <1>1, <1>3, <2>1, <2>2
  <2> QED
    BY <1>3, <2>2, <2>3
<1>7. \A i \in T : \E u \in U : m[u] = i
  <2> SUFFICES ASSUME NEW i \in T
               PROVE  \E u \in U : m[u] = i
    OBVIOUS
  <2>1. PICK x \in D, k \in Nat : 1 <= k /\ k <= f[x] /\ i = <<place[x], lo[x] + k - 1>>
    BY DEF Tallies
  <2>2. <<x, k>> \in U /\ m[<<x, k>>] = i
    BY <1>4, <2>1
  <2> QED
    BY <2>2
<1>8. m \in [U -> T]
  BY <1>5
<1>9. DOMAIN m = U
  OBVIOUS
<1> HIDE DEF m
<1>10. m \in Bijection(U, T)
  BY <1>6, <1>7, <1>8, <1>9 DEF Bijection, Injection, Surjection, IsInjective
<1>11. ExistsBijection(U, T)
  BY <1>10 DEF ExistsBijection
<1> QED
  BY <1>2, <1>11, FS_Bijection

------------------------------------------------------------------------------
\* Periods, instant by instant

\* The site is held at t, and at t its photo has certified it.
Covers(p, t) == p.started <= t /\ (p.ended = NoTime \/ t < p.ended)

Certified(p, t) == p.verified # NoTime /\ p.verified <= t

LEMMA EarlierOf ==
    ASSUME NEW a \in Nat, NEW b \in Nat
    PROVE  /\ Min({a, b}) \in Nat /\ Min({a, b}) <= a /\ Min({a, b}) <= b
           /\ Min({a, b}) = a \/ Min({a, b}) = b
<1>1. \E x \in {a, b} : \A y \in {a, b} : x <= y
  BY SMT
<1>2. Min({a, b}) \in {a, b} /\ \A y \in {a, b} : Min({a, b}) <= y
  BY <1>1 DEF Min
<1> QED
  BY <1>2

LEMMA NotNegative ==
    ASSUME NEW d \in Int
    PROVE  Max({0, d}) = IF d > 0 THEN d ELSE 0
<1>1. \E x \in {0, d} : \A y \in {0, d} : x >= y
  BY SMT
<1>2. Max({0, d}) \in {0, d} /\ \A y \in {0, d} : Max({0, d}) >= y
  BY <1>1 DEF Max
<1> QED
  BY <1>2

\* The time a period holds within [start, through), and the part of it that is
\* certified, is a number of instants from a first one on.
HeldFrom(p, start) == Max({p.started, start})

CertifiedFrom(p, start) == Max({HeldFrom(p, start), p.verified})

\* What HeldTime says is held is the number of instants that are covered.
LEMMA HeldInstants ==
    ASSUME NEW p \in Period, NEW start \in Nat, NEW through \in Nat
    PROVE  LET lo == HeldFrom(p, start)
               n == HeldTime(p, start, through).held
           IN  /\ lo \in Nat /\ n \in Nat
               /\ \A t \in Nat : (start <= t /\ t < through /\ Covers(p, t)) <=> (lo <= t /\ t < lo + n)
<1> DEFINE a == p.started
           b == p.ended
           from == Max({a, start})
           to == IF b = NoTime THEN through ELSE Min({b, through})
<1>1. a \in Nat /\ (b \in Nat \/ b = NoTime)
  BY DEF Period
<1>2. from \in Nat /\ from >= a /\ from >= start /\ (from = a \/ from = start)
  BY <1>1, LaterOf
<1>3. HeldTime(p, start, through).held = Max({0, to - from}) /\ HeldFrom(p, start) = from
  BY DEF HeldTime, HeldFrom
<1>4. \A t \in Nat : Covers(p, t) <=> a <= t /\ (b = NoTime \/ t < b)
  BY DEF Covers
<1>5. to \in Nat /\ \A t \in Nat : t < to <=> t < through /\ (b = NoTime \/ t < b)
  <2>1. CASE b = NoTime
    BY <2>1
  <2>2. CASE b # NoTime
    <3>1. to = Min({b, through}) /\ b \in Nat
      BY <1>1, <2>2
    <3>2. /\ Min({b, through}) \in Nat /\ Min({b, through}) <= b /\ Min({b, through}) <= through
          /\ Min({b, through}) = b \/ Min({b, through}) = through
      BY <3>1, EarlierOf
    <3> HIDE DEF to
    <3> QED
      BY <2>2, <3>1, <3>2
  <2> QED
    BY <2>1, <2>2
<1> HIDE DEF a, b, from, to
<1>6. to - from \in Int
  BY <1>2, <1>5
<1>7. Max({0, to - from}) = IF to - from > 0 THEN to - from ELSE 0
  BY <1>6, NotNegative
<1> DEFINE n == Max({0, to - from})
<1> HIDE DEF n
<1>7a. n = IF to - from > 0 THEN to - from ELSE 0
  BY <1>7 DEF n
<1>8. n \in Nat /\ \A t \in Nat : (from <= t /\ t < to) <=> (from <= t /\ t < from + n)
  BY <1>2, <1>5, <1>6, <1>7a
<1>9. \A t \in Nat : (start <= t /\ t < through /\ Covers(p, t)) <=> (from <= t /\ t < to)
  BY <1>1, <1>2, <1>4, <1>5
<1>10. HeldTime(p, start, through).held = n
  BY <1>3 DEF n
<1>11. \A t \in Nat : (start <= t /\ t < through /\ Covers(p, t)) <=> (from <= t /\ t < from + n)
  BY <1>8, <1>9
<1> QED
  BY <1>2, <1>3, <1>8, <1>10, <1>11

\* So is the part of it that is certified.
LEMMA CertifiedInstants ==
    ASSUME NEW p \in Period, NEW start \in Nat, NEW through \in Nat
    PROVE  LET lo == CertifiedFrom(p, start)
               n == HeldTime(p, start, through).verified
           IN  /\ n \in Nat
               /\ p.verified # NoTime => lo \in Nat
               /\ p.verified = NoTime => n = 0
               /\ p.verified # NoTime =>
                    \A t \in Nat : (/\ start <= t /\ t < through
                                    /\ Covers(p, t) /\ Certified(p, t))
                                   <=> (lo <= t /\ t < lo + n)
<1> DEFINE a == p.started
           b == p.ended
           v == p.verified
           held == Max({a, start})
           from == Max({held, v})
           to == IF b = NoTime THEN through ELSE Min({b, through})
<1>1. a \in Nat /\ (b \in Nat \/ b = NoTime) /\ (v \in Nat \/ v = NoTime)
  BY DEF Period
<1>2. held \in Nat /\ held >= a /\ held >= start /\ (held = a \/ held = start)
  BY <1>1, LaterOf
<1>3. /\ HeldTime(p, start, through).verified = IF v = NoTime THEN 0 ELSE Max({0, to - from})
      /\ CertifiedFrom(p, start) = from
  BY DEF HeldTime, CertifiedFrom, HeldFrom
<1>4. CASE v = NoTime
  BY <1>3, <1>4
<1>5. CASE v # NoTime
  <2>1. v \in Nat
    BY <1>1, <1>5
  <2>2. from \in Nat /\ from >= held /\ from >= v /\ (from = held \/ from = v)
    <3> HIDE DEF held, v
    <3> QED
      BY <1>2, <2>1, LaterOf
  <2>3. \A t \in Nat : Covers(p, t) <=> a <= t /\ (b = NoTime \/ t < b)
    BY DEF Covers
  <2>4. \A t \in Nat : Certified(p, t) <=> v <= t
    BY <1>5 DEF Certified
  <2>5. to \in Nat /\ \A t \in Nat : t < to <=> t < through /\ (b = NoTime \/ t < b)
    <3>1. CASE b = NoTime
      BY <3>1
    <3>2. CASE b # NoTime
      <4>1. to = Min({b, through}) /\ b \in Nat
        BY <1>1, <3>2
      <4>2. /\ Min({b, through}) \in Nat /\ Min({b, through}) <= b /\ Min({b, through}) <= through
            /\ Min({b, through}) = b \/ Min({b, through}) = through
        BY <4>1, EarlierOf
      <4> HIDE DEF to
      <4> QED
        BY <3>2, <4>1, <4>2
    <3> QED
      BY <3>1, <3>2
  <2>6. HeldTime(p, start, through).verified = Max({0, to - from})
    BY <1>3, <1>5
  <2> HIDE DEF a, b, held, from, to, v
  <2>7. to - from \in Int
    BY <2>2, <2>5
  <2>8. Max({0, to - from}) = IF to - from > 0 THEN to - from ELSE 0
    BY <2>7, NotNegative
  <2> DEFINE n == Max({0, to - from})
  <2> HIDE DEF n
  <2>8a. n = IF to - from > 0 THEN to - from ELSE 0
    BY <2>8 DEF n
  <2>9. n \in Nat /\ \A t \in Nat : (from <= t /\ t < to) <=> (from <= t /\ t < from + n)
    BY <2>2, <2>5, <2>7, <2>8a
  <2>10. \A t \in Nat : (start <= t /\ t < through /\ Covers(p, t) /\ Certified(p, t))
                        <=> (from <= t /\ t < to)
    BY <1>1, <1>2, <2>1, <2>2, <2>3, <2>4, <2>5
  <2>11. \A t \in Nat : (/\ start <= t /\ t < through
                         /\ Covers(p, t) /\ Certified(p, t))
                        <=> (from <= t /\ t < from + n)
    BY <2>9, <2>10
  <2>12. HeldTime(p, start, through).verified = n /\ CertifiedFrom(p, start) = from
    BY <1>3, <2>6 DEF n
  <2> QED
    BY <1>5, <2>2, <2>9, <2>11, <2>12 DEF v
<1> QED
  BY <1>4, <1>5

\* Who the events f tell owns a site at an instant, the first b of them whenever
\* they happened.
ToldOwner(f, b, site, t) ==
    LET told == {i \in DOMAIN f : f[i].site = site /\ (i <= b \/ f[i].at <= t)}
    IN  IF told = {} THEN None ELSE [pet |-> f[Max(told)].pet, verified |-> f[Max(told)].verified]

\* The properties' owner of an instant is the one the policy's events tell.
LEMMA OwnerIsTold ==
    ASSUME NEW site, NEW t
    PROVE  OwnerAt(site, t) = ToldOwner(policy.events, BaseEvents, site, t)
  BY DEF OwnerAt, ToldOwner

\* At every instant of the season from start to before through, the periods and
\* the events tell the same owner.
Tells(f, b, periods, start, through) ==
    /\ \A p \in periods, t \in Nat :
         start <= t /\ t < through /\ t < Ends /\ Covers(p, t) =>
           ToldOwner(f, b, p.site, t) = [pet |-> p.pet, verified |-> Certified(p, t)]
    /\ \A s \in Sites, t \in Nat :
         start <= t /\ t < through /\ t < Ends /\ ToldOwner(f, b, s, t) # None =>
           \E p \in periods : p.site = s /\ Covers(p, t)

\* No two periods of a site meet.
Apart(periods) ==
    \A p, q \in periods, t \in Nat : p.site = q.site /\ Covers(p, t) /\ Covers(q, t) => p = q

\* Nothing is held past the season's end.
InSeason(periods, through) ==
    \A p \in periods, t \in Nat : t < through /\ Covers(p, t) => t < Ends

\* Rows that tell up to through what the events tell.
RowTells(f, b, periods, start, through) ==
    /\ start \in Nat /\ through \in Nat
    /\ IsFiniteSet(periods) /\ ArePeriods(periods) /\ Apart(periods)
    /\ InSeason(periods, through) /\ Tells(f, b, periods, start, through)

\* The instants at which the events tell that the pet owns a site, and those at
\* which it does with a certificate.
InstantsOwned(f, b, start, through, pet) ==
    {i \in Sites \X {t \in start..(through - 1) : t < Ends} :
       ToldOwner(f, b, i[1], i[2]) # None /\ ToldOwner(f, b, i[1], i[2]).pet = pet}

InstantsCertified(f, b, start, through, pet) ==
    {i \in Sites \X {t \in start..(through - 1) : t < Ends} :
       ToldOwner(f, b, i[1], i[2]) = [pet |-> pet, verified |-> TRUE]}

LEMMA PeriodOwner ==
    ASSUME NEW p \in Period, NEW t
    PROVE  /\ None # [pet |-> p.pet, verified |-> Certified(p, t)]
           /\ [pet |-> p.pet, verified |-> Certified(p, t)].pet = p.pet
           /\ p.site \in Sites
<1>1. p.pet \in Pets /\ Certified(p, t) \in BOOLEAN /\ p.site \in Sites
  BY DEF Period, Certified
<1> QED
  BY <1>1, NoneAssumption

\* The time a pet has held, summed over the rows, is the number of instants at
\* which the events tell it owned a site.
LEMMA HeldIsTold ==
    ASSUME NEW f, NEW b, NEW periods, NEW start, NEW through, RowTells(f, b, periods, start, through),
           NEW pet
    PROVE  SumFunction([p \in {q \in periods : q.pet = pet} |-> HeldTime(p, start, through).held])
             = Cardinality(InstantsOwned(f, b, start, through, pet))
<1> DEFINE mine == {q \in periods : q.pet = pet}
           n == [p \in mine |-> HeldTime(p, start, through).held]
           lo == [p \in mine |-> HeldFrom(p, start)]
           place == [p \in mine |-> p.site]
           T == InstantsOwned(f, b, start, through, pet)
<1>1. start \in Nat /\ through \in Nat /\ IsFiniteSet(periods)
      /\ \A p \in periods : p \in Period
  BY DEF RowTells, ArePeriods
<1>2. /\ \A p, q \in periods, t \in Nat : p.site = q.site /\ Covers(p, t) /\ Covers(q, t) => p = q
      /\ \A p \in periods, t \in Nat : t < through /\ Covers(p, t) => t < Ends
  BY DEF RowTells, Apart, InSeason
<1>3. \A p \in periods, t \in Nat :
        start <= t /\ t < through /\ t < Ends /\ Covers(p, t) =>
          ToldOwner(f, b, p.site, t) = [pet |-> p.pet, verified |-> Certified(p, t)]
  BY DEF RowTells, Tells
<1>4. \A s \in Sites, t \in Nat :
        start <= t /\ t < through /\ t < Ends /\ ToldOwner(f, b, s, t) # None =>
          \E p \in periods : p.site = s /\ Covers(p, t)
  BY DEF RowTells, Tells
<1>5. mine \subseteq periods /\ IsFiniteSet(mine)
  <2>1. mine \in SUBSET periods
    OBVIOUS
  <2> HIDE DEF mine
  <2> QED
    BY <1>1, <2>1, FS_Subset
<1>6. \A p \in mine : p.pet = pet /\ p \in periods /\ place[p] = p.site
  OBVIOUS
<1>7. \A p \in mine :
        /\ lo[p] \in Nat /\ n[p] \in Nat
        /\ \A t \in Nat : (start <= t /\ t < through /\ Covers(p, t)) <=> (lo[p] <= t /\ t < lo[p] + n[p])
  <2> SUFFICES ASSUME NEW p \in mine
               PROVE  /\ lo[p] \in Nat /\ n[p] \in Nat
                      /\ \A t \in Nat : (start <= t /\ t < through /\ Covers(p, t))
                                        <=> (lo[p] <= t /\ t < lo[p] + n[p])
    OBVIOUS
  <2>1. p \in Period
    BY <1>1
  <2>2. lo[p] = HeldFrom(p, start) /\ n[p] = HeldTime(p, start, through).held
    OBVIOUS
  <2> HIDE DEF lo, n, mine
  <2> QED
    BY <1>1, <2>1, <2>2, HeldInstants
<1>8. \A i : i \in T <=> /\ i \in Sites \X {t \in start..(through - 1) : t < Ends}
                         /\ ToldOwner(f, b, i[1], i[2]) # None
                         /\ ToldOwner(f, b, i[1], i[2]).pet = pet
  BY DEF InstantsOwned
<1>9. DOMAIN n = mine
  OBVIOUS
<1>9a. \A p \in periods : p.pet = pet => p \in mine
  OBVIOUS
<1> HIDE DEF mine, n, lo, place, T
<1>10. \A p \in mine, k \in Nat : 1 <= k /\ k <= n[p] =>
         LET t == lo[p] + k - 1
         IN  t \in Nat /\ start <= t /\ t < through /\ t < Ends /\ Covers(p, t)
  <2> SUFFICES ASSUME NEW p \in mine, NEW k \in Nat, 1 <= k /\ k <= n[p]
               PROVE  LET t == lo[p] + k - 1
                      IN  t \in Nat /\ start <= t /\ t < through /\ t < Ends /\ Covers(p, t)
    OBVIOUS
  <2> DEFINE t == lo[p] + k - 1
  <2>1. lo[p] \in Nat /\ n[p] \in Nat
    BY <1>7
  <2>2. t \in Nat /\ lo[p] <= t /\ t < lo[p] + n[p]
    BY <2>1
  <2> HIDE DEF t
  <2>3. start <= t /\ t < through /\ Covers(p, t)
    BY <1>7, <2>2
  <2>4. t < Ends
    BY <1>2, <1>6, <2>2, <2>3
  <2> QED
    BY <2>2, <2>3, <2>4 DEF t
<1>11. \A p \in mine, k \in Nat : 1 <= k /\ k <= n[p] => <<place[p], lo[p] + k - 1>> \in T
  <2> SUFFICES ASSUME NEW p \in mine, NEW k \in Nat, 1 <= k /\ k <= n[p]
               PROVE  <<place[p], lo[p] + k - 1>> \in T
    OBVIOUS
  <2> DEFINE t == lo[p] + k - 1
  <2>1. t \in Nat /\ start <= t /\ t < through /\ t < Ends /\ Covers(p, t)
    BY <1>10
  <2> HIDE DEF t
  <2>2. p \in periods /\ p.pet = pet /\ place[p] = p.site /\ p \in Period
    BY <1>1, <1>6
  <2>3. ToldOwner(f, b, p.site, t) = [pet |-> p.pet, verified |-> Certified(p, t)]
    BY <1>3, <2>1, <2>2
  <2>4. ToldOwner(f, b, p.site, t) # None /\ ToldOwner(f, b, p.site, t).pet = pet /\ p.site \in Sites
    BY <2>2, <2>3, PeriodOwner
  <2>5. t \in start..(through - 1)
    BY <1>1, <2>1
  <2>6. <<p.site, t>> \in Sites \X {x \in start..(through - 1) : x < Ends}
    BY <2>1, <2>4, <2>5
  <2>7. <<p.site, t>> \in T
    BY <1>8, <2>4, <2>6
  <2> QED
    BY <2>2, <2>7 DEF t
<1>12. \A i \in T : \E p \in mine, k \in Nat : 1 <= k /\ k <= n[p] /\ i = <<place[p], lo[p] + k - 1>>
  <2> SUFFICES ASSUME NEW i \in T
               PROVE  \E p \in mine, k \in Nat : 1 <= k /\ k <= n[p] /\ i = <<place[p], lo[p] + k - 1>>
    OBVIOUS
  <2>1. PICK s \in Sites, t \in {x \in start..(through - 1) : x < Ends} : i = <<s, t>>
    BY <1>8
  <2>2. t \in Nat /\ start <= t /\ t < through /\ t < Ends
    BY <1>1, <2>1
  <2>3. ToldOwner(f, b, s, t) # None /\ ToldOwner(f, b, s, t).pet = pet
    BY <1>8, <2>1
  <2>4. PICK p \in periods : p.site = s /\ Covers(p, t)
    BY <1>4, <2>2, <2>3
  <2>5. ToldOwner(f, b, s, t) = [pet |-> p.pet, verified |-> Certified(p, t)]
    BY <1>3, <2>2, <2>4
  <2>6. p.pet = pet
    BY <2>3, <2>5
  <2>7. p \in mine
    BY <1>9a, <2>6
  <2>8. lo[p] \in Nat /\ n[p] \in Nat /\ lo[p] <= t /\ t < lo[p] + n[p]
    BY <1>7, <2>2, <2>4, <2>7
  <2>9. (t - lo[p]) + 1 \in Nat /\ 1 <= (t - lo[p]) + 1 /\ (t - lo[p]) + 1 <= n[p]
        /\ t = lo[p] + ((t - lo[p]) + 1) - 1
    BY <2>2, <2>8
  <2>10. i = <<place[p], lo[p] + ((t - lo[p]) + 1) - 1>>
    BY <1>6, <2>1, <2>4, <2>7, <2>9
  <2> QED
    BY <2>7, <2>9, <2>10
<1>13. \A p, q \in mine, k, l \in Nat :
         /\ 1 <= k /\ k <= n[p] /\ 1 <= l /\ l <= n[q]
         /\ place[p] = place[q] /\ lo[p] + k - 1 = lo[q] + l - 1
         => p = q
  BY <1>2, <1>6, <1>10
<1>14. Tallies(n, lo, place, mine, T)
  BY <1>5, <1>7, <1>9, <1>11, <1>12, <1>13 DEF Tallies
<1>15. SumFunction(n) = Cardinality(T)
  BY <1>14, SumOfInstants
<1> QED
  BY <1>15 DEF n, mine, T

\* And the time that was certified.
LEMMA CertifiedIsTold ==
    ASSUME NEW f, NEW b, NEW periods, NEW start, NEW through, RowTells(f, b, periods, start, through),
           NEW pet \in Pets
    PROVE  SumFunction([p \in {q \in periods : q.pet = pet} |-> HeldTime(p, start, through).verified])
             = Cardinality(InstantsCertified(f, b, start, through, pet))
<1> DEFINE mine == {q \in periods : q.pet = pet}
           n == [p \in mine |-> HeldTime(p, start, through).verified]
           lo == [p \in mine |-> IF p.verified = NoTime THEN 0 ELSE CertifiedFrom(p, start)]
           place == [p \in mine |-> p.site]
           T == InstantsCertified(f, b, start, through, pet)
<1>1. start \in Nat /\ through \in Nat /\ IsFiniteSet(periods)
      /\ \A p \in periods : p \in Period
  BY DEF RowTells, ArePeriods
<1>2. /\ \A p, q \in periods, t \in Nat : p.site = q.site /\ Covers(p, t) /\ Covers(q, t) => p = q
      /\ \A p \in periods, t \in Nat : t < through /\ Covers(p, t) => t < Ends
  BY DEF RowTells, Apart, InSeason
<1>3. \A p \in periods, t \in Nat :
        start <= t /\ t < through /\ t < Ends /\ Covers(p, t) =>
          ToldOwner(f, b, p.site, t) = [pet |-> p.pet, verified |-> Certified(p, t)]
  BY DEF RowTells, Tells
<1>4. \A s \in Sites, t \in Nat :
        start <= t /\ t < through /\ t < Ends /\ ToldOwner(f, b, s, t) # None =>
          \E p \in periods : p.site = s /\ Covers(p, t)
  BY DEF RowTells, Tells
<1>5. mine \subseteq periods /\ IsFiniteSet(mine)
  <2>1. mine \in SUBSET periods
    OBVIOUS
  <2> HIDE DEF mine
  <2> QED
    BY <1>1, <2>1, FS_Subset
<1>6. \A p \in mine : p.pet = pet /\ p \in periods /\ place[p] = p.site
  OBVIOUS
<1>7. \A p \in mine :
        /\ lo[p] \in Nat /\ n[p] \in Nat
        /\ \A t \in Nat : (start <= t /\ t < through /\ Covers(p, t) /\ Certified(p, t))
                         <=> (lo[p] <= t /\ t < lo[p] + n[p])
  <2> SUFFICES ASSUME NEW p \in mine
               PROVE  /\ lo[p] \in Nat /\ n[p] \in Nat
                      /\ \A t \in Nat : (start <= t /\ t < through /\ Covers(p, t) /\ Certified(p, t))
                                        <=> (lo[p] <= t /\ t < lo[p] + n[p])
    OBVIOUS
  <2>1. p \in Period
    BY <1>1
  <2>2. /\ lo[p] = IF p.verified = NoTime THEN 0 ELSE CertifiedFrom(p, start)
        /\ n[p] = HeldTime(p, start, through).verified
    OBVIOUS
  <2> HIDE DEF lo, n, mine
  <2>3. CASE p.verified = NoTime
    <3>1. n[p] = 0 /\ lo[p] = 0 /\ \A t \in Nat : ~Certified(p, t)
      BY <1>1, <2>1, <2>2, <2>3, CertifiedInstants DEF Certified
    <3> QED
      BY <3>1
  <2>4. CASE p.verified # NoTime
    BY <1>1, <2>1, <2>2, <2>4, CertifiedInstants
  <2> QED
    BY <2>3, <2>4
<1>8. \A i : i \in T <=> /\ i \in Sites \X {t \in start..(through - 1) : t < Ends}
                         /\ ToldOwner(f, b, i[1], i[2]) = [pet |-> pet, verified |-> TRUE]
  BY DEF InstantsCertified
<1>9. DOMAIN n = mine
  OBVIOUS
<1>9a. \A p \in periods : p.pet = pet => p \in mine
  OBVIOUS
<1> HIDE DEF mine, n, lo, place, T
<1>10. \A p \in mine, k \in Nat : 1 <= k /\ k <= n[p] =>
         LET t == lo[p] + k - 1
         IN  t \in Nat /\ start <= t /\ t < through /\ t < Ends /\ Covers(p, t) /\ Certified(p, t)
  <2> SUFFICES ASSUME NEW p \in mine, NEW k \in Nat, 1 <= k /\ k <= n[p]
               PROVE  LET t == lo[p] + k - 1
                      IN  /\ t \in Nat /\ start <= t /\ t < through /\ t < Ends
                          /\ Covers(p, t) /\ Certified(p, t)
    OBVIOUS
  <2> DEFINE t == lo[p] + k - 1
  <2>1. lo[p] \in Nat /\ n[p] \in Nat
    BY <1>7
  <2>2. t \in Nat /\ lo[p] <= t /\ t < lo[p] + n[p]
    BY <2>1
  <2> HIDE DEF t
  <2>3. start <= t /\ t < through /\ Covers(p, t) /\ Certified(p, t)
    BY <1>7, <2>2
  <2>4. t < Ends
    BY <1>2, <1>6, <2>2, <2>3
  <2> QED
    BY <2>2, <2>3, <2>4 DEF t
<1>11. \A p \in mine, k \in Nat : 1 <= k /\ k <= n[p] => <<place[p], lo[p] + k - 1>> \in T
  <2> SUFFICES ASSUME NEW p \in mine, NEW k \in Nat, 1 <= k /\ k <= n[p]
               PROVE  <<place[p], lo[p] + k - 1>> \in T
    OBVIOUS
  <2> DEFINE t == lo[p] + k - 1
  <2>1. t \in Nat /\ start <= t /\ t < through /\ t < Ends /\ Covers(p, t) /\ Certified(p, t)
    BY <1>10
  <2> HIDE DEF t
  <2>2. p \in periods /\ p.pet = pet /\ place[p] = p.site /\ p \in Period
    BY <1>1, <1>6
  <2>3. ToldOwner(f, b, p.site, t) = [pet |-> p.pet, verified |-> Certified(p, t)]
    BY <1>3, <2>1, <2>2
  <2>4. ToldOwner(f, b, p.site, t) = [pet |-> pet, verified |-> TRUE] /\ p.site \in Sites
    BY <2>1, <2>2, <2>3, PeriodOwner DEF Certified
  <2>5. t \in start..(through - 1)
    BY <1>1, <2>1
  <2>6. <<p.site, t>> \in Sites \X {x \in start..(through - 1) : x < Ends}
    BY <2>1, <2>4, <2>5
  <2>7. <<p.site, t>> \in T
    BY <1>8, <2>4, <2>6
  <2> QED
    BY <2>2, <2>7 DEF t
<1>12. \A i \in T : \E p \in mine, k \in Nat : 1 <= k /\ k <= n[p] /\ i = <<place[p], lo[p] + k - 1>>
  <2> SUFFICES ASSUME NEW i \in T
               PROVE  \E p \in mine, k \in Nat : 1 <= k /\ k <= n[p] /\ i = <<place[p], lo[p] + k - 1>>
    OBVIOUS
  <2>1. PICK s \in Sites, t \in {x \in start..(through - 1) : x < Ends} : i = <<s, t>>
    BY <1>8
  <2>2. t \in Nat /\ start <= t /\ t < through /\ t < Ends
    BY <1>1, <2>1
  <2>3. ToldOwner(f, b, s, t) = [pet |-> pet, verified |-> TRUE]
    BY <1>8, <2>1
  <2>3a. ToldOwner(f, b, s, t) # None
    BY <2>3, NoneAssumption
  <2>4. PICK p \in periods : p.site = s /\ Covers(p, t)
    BY <1>4, <2>2, <2>3a
  <2>5. ToldOwner(f, b, s, t) = [pet |-> p.pet, verified |-> Certified(p, t)]
    BY <1>3, <2>2, <2>4
  <2>6. p.pet = pet
    BY <2>3, <2>5
  <2>6a. Certified(p, t)
    <3>1. [pet |-> p.pet, verified |-> Certified(p, t)].verified = Certified(p, t)
          /\ [pet |-> pet, verified |-> TRUE].verified = TRUE
      BY SMT
    <3>2. Certified(p, t) = TRUE
      BY <2>3, <2>5, <3>1
    <3> QED
      BY <3>2
  <2>7. p \in mine
    BY <1>9a, <2>6
  <2>8. lo[p] \in Nat /\ n[p] \in Nat /\ lo[p] <= t /\ t < lo[p] + n[p]
    BY <1>7, <2>2, <2>4, <2>6a, <2>7
  <2>9. (t - lo[p]) + 1 \in Nat /\ 1 <= (t - lo[p]) + 1 /\ (t - lo[p]) + 1 <= n[p]
        /\ t = lo[p] + ((t - lo[p]) + 1) - 1
    BY <2>2, <2>8
  <2>10. i = <<place[p], lo[p] + ((t - lo[p]) + 1) - 1>>
    BY <1>6, <2>1, <2>4, <2>7, <2>9
  <2> QED
    BY <2>7, <2>9, <2>10
<1>13. \A p, q \in mine, k, l \in Nat :
         /\ 1 <= k /\ k <= n[p] /\ 1 <= l /\ l <= n[q]
         /\ place[p] = place[q] /\ lo[p] + k - 1 = lo[q] + l - 1
         => p = q
  BY <1>2, <1>6, <1>10
<1>14. Tallies(n, lo, place, mine, T)
  BY <1>5, <1>7, <1>9, <1>11, <1>12, <1>13 DEF Tallies
<1>15. SumFunction(n) = Cardinality(T)
  BY <1>14, SumOfInstants
<1> QED
  BY <1>15 DEF n, mine, T

------------------------------------------------------------------------------
\* The events, one by one

\* A bounded set of numbers has a greatest.
LEMMA Greatest ==
    ASSUME NEW N \in Nat, NEW T, T \subseteq 0..N, T # {}
    PROVE  Max(T) \in T /\ \A y \in T : Max(T) >= y
<1> DEFINE D == {N - y : y \in T}
<1>1. D \subseteq Nat /\ D # {}
  <2>1. \A y \in T : N - y \in Nat
    OBVIOUS
  <2>2. \A d \in D : d \in Nat
    BY <2>1
  <2>3. PICK y \in T : TRUE
    OBVIOUS
  <2>4. N - y \in D
    OBVIOUS
  <2> HIDE DEF D
  <2> QED
    BY <2>2, <2>4
<1> HIDE DEF D
<1>2. PICK d \in D : \A m \in D : d <= m
  BY <1>1, Least
<1>3. PICK x \in T : d = N - x
  BY <1>2 DEF D
<1>4. ASSUME NEW y \in T PROVE x >= y
  <2>1. N - y \in D
    BY DEF D
  <2>2. N - x <= N - y
    BY <1>2, <1>3, <2>1
  <2> QED
    BY <2>2
<1>5. \E z \in T : \A y \in T : z >= y
  BY <1>4
<1> QED
  BY <1>5 DEF Max

\* One more event is told to the sites it is about, from its time on.
LEMMA ToldAppend ==
    ASSUME NEW f, IsSequence(f), NEW e, NEW b, NEW s, NEW t
    PROVE  ToldOwner(Append(f, e), b, s, t) =
             IF e.site = s /\ (Len(f) + 1 <= b \/ e.at <= t)
               THEN [pet |-> e.pet, verified |-> e.verified] ELSE ToldOwner(f, b, s, t)
<1> DEFINE n == Len(f)
           g == Append(f, e)
           Of(h) == {i \in DOMAIN h : h[i].site = s /\ (i <= b \/ h[i].at <= t)}
           old == Of(f)
           new == Of(g)
<1>1. /\ n \in Nat /\ Len(g) = n + 1 /\ g[n + 1] = e
      /\ \A i \in 1..n : g[i] = f[i]
  BY AppendKeeps DEF IsSequence
<1>2. DOMAIN f = 1..n /\ DOMAIN g = 1..(n + 1)
  <2>1. IsSequence(g)
    BY AppendIsSequence
  <2> HIDE DEF g
  <2> QED
    BY <1>1, <2>1, LenProperties DEF IsSequence
<1> HIDE DEF g, n
<1>3. /\ ToldOwner(f, b, s, t) = IF old = {} THEN None
                                 ELSE [pet |-> f[Max(old)].pet, verified |-> f[Max(old)].verified]
      /\ ToldOwner(g, b, s, t) = IF new = {} THEN None
                                 ELSE [pet |-> g[Max(new)].pet, verified |-> g[Max(new)].verified]
  BY DEF ToldOwner
<1>4. old \subseteq 0..n /\ new \subseteq 0..(n + 1) /\ n + 1 \in Nat
  BY <1>1, <1>2
<1>5. CASE e.site = s /\ (n + 1 <= b \/ e.at <= t)
  <2>1. n + 1 \in new
    <3>1. n + 1 \in DOMAIN g /\ g[n + 1].site = s /\ (n + 1 <= b \/ g[n + 1].at <= t)
      BY <1>1, <1>2, <1>5
    <3> QED
      BY <3>1
  <2> HIDE DEF new, old
  <2>2. Max(new) \in new /\ \A y \in new : Max(new) >= y
    BY <1>4, <2>1, Greatest
  <2> DEFINE m == Max(new)
  <2>2a. m \in 0..(n + 1) /\ m >= n + 1
    BY <1>4, <2>1, <2>2
  <2> HIDE DEF m
  <2>2b. m = n + 1
    BY <1>1, <2>2a
  <2>3. Max(new) = n + 1
    BY <2>2b DEF m
  <2> QED
    BY <1>1, <1>3, <1>5, <2>1, <2>3 DEF g, n
<1>6. CASE ~(e.site = s /\ (n + 1 <= b \/ e.at <= t))
  <2>1. \A i : i \in new <=> i \in old
    <3> SUFFICES ASSUME NEW i
                 PROVE  i \in new <=> i \in old
      OBVIOUS
    <3>1. i \in new <=> i \in 1..(n + 1) /\ g[i].site = s /\ (i <= b \/ g[i].at <= t)
      BY <1>2
    <3>2. i \in old <=> i \in 1..n /\ f[i].site = s /\ (i <= b \/ f[i].at <= t)
      BY <1>2
    <3> HIDE DEF old, new
    <3>3. CASE i \in 1..n
      BY <1>1, <3>1, <3>2, <3>3
    <3>4. CASE i = n + 1
      BY <1>1, <1>6, <3>1, <3>2, <3>4
    <3> QED
      BY <1>1, <3>1, <3>2, <3>3, <3>4
  <2> HIDE DEF new, old
  <2>2. new = old
    BY <2>1
  <2>3. CASE old = {}
    BY <1>3, <1>6, <2>2, <2>3 DEF g, n
  <2>4. CASE old # {}
    <3>1. Max(old) \in old
      BY <1>1, <1>4, <2>4, Greatest
    <3>2. Max(old) \in 1..n
      BY <1>2, <3>1 DEF old
    <3>3. g[Max(old)] = f[Max(old)]
      BY <1>1, <3>2
    <3> QED
      BY <1>3, <1>6, <2>2, <2>4, <3>3 DEF g, n
  <2> QED
    BY <2>3, <2>4
<1> QED
  BY <1>5, <1>6

\* When every event is told, it does not matter which instant is asked for.
LEMMA AllTold ==
    ASSUME NEW f, IsSequence(f), NEW s, NEW t, NEW u
    PROVE  ToldOwner(f, Len(f), s, t) = ToldOwner(f, Len(f), s, u)
<1>1. DOMAIN f = 1..Len(f) /\ Len(f) \in Nat
  BY LenProperties DEF IsSequence
<1>2. {i \in DOMAIN f : f[i].site = s /\ (i <= Len(f) \/ f[i].at <= t)}
        = {i \in DOMAIN f : f[i].site = s /\ (i <= Len(f) \/ f[i].at <= u)}
  BY <1>1
<1> QED
  BY <1>2 DEF ToldOwner

\* An event counts as told when it is among the first of them or more are.
LEMMA MoreTold ==
    ASSUME NEW f, IsSequence(f), NEW s, NEW t
    PROVE  ToldOwner(f, Len(f) + 1, s, t) = ToldOwner(f, Len(f), s, t)
<1>1. DOMAIN f = 1..Len(f) /\ Len(f) \in Nat
  BY LenProperties DEF IsSequence
<1>2. {i \in DOMAIN f : f[i].site = s /\ (i <= Len(f) \/ f[i].at <= t)}
        = {i \in DOMAIN f : f[i].site = s /\ (i <= Len(f) + 1 \/ f[i].at <= t)}
  BY <1>1
<1> QED
  BY <1>2 DEF ToldOwner

\* An owner is told by an event.
LEMMA OwnerHasEvent ==
    ASSUME NEW f, NEW b, NEW s, NEW t, ToldOwner(f, b, s, t) # None
    PROVE  \E i \in DOMAIN f : f[i].site = s
  BY DEF ToldOwner

\* Nothing an event says about a time after through changes what was told before it.
LEMMA TellsStands ==
    ASSUME NEW f, IsSequence(f), NEW e, e.at \in Nat, NEW b, b \in Nat, b <= Len(f),
           NEW periods, NEW start, NEW through \in Nat, through <= e.at,
           Tells(f, b, periods, start, through)
    PROVE  Tells(Append(f, e), b, periods, start, through)
<1>1. Len(f) \in Nat
  BY LenProperties DEF IsSequence
<1>2. ASSUME NEW s, NEW t \in Nat, t < through
      PROVE  ToldOwner(Append(f, e), b, s, t) = ToldOwner(f, b, s, t)
  <2>1. ~(Len(f) + 1 <= b \/ e.at <= t)
    BY <1>1, <1>2
  <2> QED
    BY <2>1, ToldAppend
<1> QED
  BY <1>2 DEF Tells

------------------------------------------------------------------------------
\* The periods of a replay in time

\* The periods of a replay that has come to last: finitely many, none meets
\* another of its site, nothing begins or ends later, and what was imported took
\* over from nobody.
Sound(periods, start, last) ==
    /\ start \in Nat /\ last \in Nat
    /\ IsFiniteSet(periods) /\ ArePeriods(periods) /\ Apart(periods)
    /\ \A p \in periods :
         /\ start <= p.started /\ p.started <= last
         /\ p.ended = NoTime \/ p.ended <= last
         /\ p.takeover => ~p.imported

ImageOf(m, S) == {m[x] : x \in S}

\* The image of a finite set is finite.
LEMMA ImageFinite ==
    ASSUME NEW S, IsFiniteSet(S), NEW m
    PROVE  IsFiniteSet(ImageOf(m, S))
<1> DEFINE h == [x \in S |-> m[x]]
           T == ImageOf(m, S)
<1>1. h \in [S -> T] /\ \A y \in T : \E x \in S : h[x] = y
  BY DEF ImageOf
<1>2. DOMAIN h = S
  OBVIOUS
<1> HIDE DEF h, T
<1>3. h \in Surjection(S, T)
  BY <1>1, <1>2 DEF Surjection
<1>4. IsFiniteSet(T)
  BY <1>3, FS_Surjection
<1> QED
  BY <1>4 DEF T

\* q is p, held at most until at when its site is one of sites.
Cut(p, q, sites, at) ==
    /\ q \in Period
    /\ q.site = p.site /\ q.pet = p.pet /\ q.started = p.started
    /\ q.imported = p.imported /\ q.takeover = p.takeover
    /\ q.ended = p.ended \/ q.ended = at
    /\ p.site \in sites => q.ended # NoTime
    /\ \A t \in Nat : Certified(q, t) = Certified(p, t)
    /\ \A t \in Nat : Covers(q, t) <=> Covers(p, t) /\ (p.site \in sites => t < at)

LEMMA PeriodCut ==
    ASSUME NEW p \in Period, NEW sites, NEW at \in Nat, p.ended = NoTime \/ p.ended <= at,
           NEW q, q = IF p.ended = NoTime /\ p.site \in sites THEN [p EXCEPT !.ended = at] ELSE p
    PROVE  Cut(p, q, sites, at)
<1>1. CASE p.ended = NoTime /\ p.site \in sites
  <2>1. /\ q \in Period /\ q.site = p.site /\ q.pet = p.pet /\ q.started = p.started
        /\ q.ended = at /\ q.verified = p.verified /\ at # NoTime
        /\ q.imported = p.imported /\ q.takeover = p.takeover
    BY <1>1 DEF Period, NoTime
  <2>2. p.started \in Nat
    BY DEF Period
  <2>3. \A t \in Nat : Covers(q, t) <=> Covers(p, t) /\ t < at
    BY <1>1, <2>1, <2>2 DEF Covers
  <2>4. \A t \in Nat : Certified(q, t) = Certified(p, t)
    BY <2>1 DEF Certified
  <2> QED
    BY <1>1, <2>1, <2>3, <2>4 DEF Cut
<1>2. CASE ~(p.ended = NoTime /\ p.site \in sites)
  <2>1. q = p
    BY <1>2
  <2>2. p.started \in Nat /\ (p.ended \in Nat \/ p.ended = NoTime)
    BY DEF Period
  <2>3. \A t \in Nat : Covers(p, t) <=> Covers(p, t) /\ (p.site \in sites => t < at)
    BY <1>2, <2>2 DEF Covers
  <2> QED
    BY <1>2, <2>1, <2>3 DEF Cut
<1> QED
  BY <1>1, <1>2

\* Periods that end.
LEMMA PeriodsCut ==
    ASSUME NEW periods, NEW start, NEW last, Sound(periods, start, last),
           NEW at \in Nat, last <= at, NEW sites,
           NEW after, after = ClosePeriods(periods, sites, at)
    PROVE  /\ Sound(after, start, at)
           /\ \A q \in after : \E p \in periods : Cut(p, q, sites, at)
           /\ \A p \in periods : \E q \in after : Cut(p, q, sites, at)
<1> DEFINE m == [p \in periods |->
                  IF p.ended = NoTime /\ p.site \in sites THEN [p EXCEPT !.ended = at] ELSE p]
<1>1. after = {m[p] : p \in periods}
  BY DEF ClosePeriods
<1>2. /\ start \in Nat /\ last \in Nat /\ IsFiniteSet(periods)
      /\ \A p \in periods : p \in Period
      /\ \A p, q \in periods, t \in Nat : p.site = q.site /\ Covers(p, t) /\ Covers(q, t) => p = q
      /\ \A p \in periods :
           /\ start <= p.started /\ p.started <= last
           /\ p.ended = NoTime \/ p.ended <= last
           /\ p.takeover => ~p.imported
  BY DEF Sound, ArePeriods, Apart
<1>3. \A p \in periods : /\ p.started \in Nat /\ (p.ended \in Nat \/ p.ended = NoTime)
                         /\ p.started <= at /\ (p.ended = NoTime \/ p.ended <= at)
  BY <1>2 DEF Period
<1>4. \A p \in periods : Cut(p, m[p], sites, at)
  BY <1>2, <1>3, PeriodCut
<1> HIDE DEF m
<1>6. IsFiniteSet(after)
  <2>1. after = ImageOf(m, periods)
    BY <1>1 DEF ImageOf
  <2> QED
    BY <1>2, <2>1, ImageFinite
<1>7. ArePeriods(after)
  BY <1>1, <1>4 DEF ArePeriods, Cut
<1>8. Apart(after)
  <2> SUFFICES ASSUME NEW p \in periods, NEW q \in periods, NEW t \in Nat,
                      m[p].site = m[q].site, Covers(m[p], t), Covers(m[q], t)
               PROVE  m[p] = m[q]
    BY <1>1 DEF Apart
  <2>1. p.site = q.site /\ Covers(p, t) /\ Covers(q, t)
    BY <1>4 DEF Cut
  <2> QED
    BY <1>2, <2>1
<1>9. ASSUME NEW p \in periods
      PROVE  /\ start <= m[p].started /\ m[p].started <= at
             /\ m[p].ended = NoTime \/ m[p].ended <= at
             /\ m[p].takeover => ~m[p].imported
  BY <1>2, <1>3, <1>4 DEF Cut
<1>10. Sound(after, start, at)
  BY <1>1, <1>2, <1>6, <1>7, <1>8, <1>9 DEF Sound
<1> QED
  BY <1>1, <1>4, <1>10

\* One more period, of a site nobody holds.
LEMMA PeriodAdded ==
    ASSUME NEW periods, NEW start, NEW at, Sound(periods, start, at),
           NEW new \in Period, new.started = at, new.ended = NoTime, ~new.imported, start <= at,
           \A p \in periods, t \in Nat : p.site = new.site /\ Covers(p, t) => t < at
    PROVE  Sound(periods \union {new}, start, at)
<1>1. /\ start \in Nat /\ at \in Nat /\ IsFiniteSet(periods)
      /\ \A p \in periods : p \in Period
      /\ \A p, q \in periods, t \in Nat : p.site = q.site /\ Covers(p, t) /\ Covers(q, t) => p = q
      /\ \A p \in periods :
           /\ start <= p.started /\ p.started <= at
           /\ p.ended = NoTime \/ p.ended <= at
           /\ p.takeover => ~p.imported
  BY DEF Sound, ArePeriods, Apart
<1>2. IsFiniteSet(periods \union {new})
  BY <1>1, FS_AddElement
<1>3. ArePeriods(periods \union {new})
  BY <1>1 DEF ArePeriods
<1>4. \A t \in Nat : Covers(new, t) => at <= t
  BY DEF Covers
<1>5. Apart(periods \union {new})
  <2> SUFFICES ASSUME NEW p \in periods \union {new}, NEW q \in periods \union {new}, NEW t \in Nat,
                      p.site = q.site, Covers(p, t), Covers(q, t)
               PROVE  p = q
    BY DEF Apart
  <2>1. CASE p \in periods /\ q \in periods
    BY <1>1, <2>1
  <2>2. CASE p \in periods /\ q = new
    <3>1. t < at /\ at <= t
      BY <1>4, <2>2
    <3> QED
      BY <1>1, <3>1
  <2>3. CASE p = new /\ q \in periods
    <3>1. t < at /\ at <= t
      BY <1>4, <2>3
    <3> QED
      BY <1>1, <3>1
  <2> QED
    BY <2>1, <2>2, <2>3
<1> QED
  BY <1>1, <1>2, <1>3, <1>5 DEF Sound

------------------------------------------------------------------------------
\* Changes of a stream and what it tells

\* A change of owner keeps the periods telling what the events tell.
LEMMA ChangeTells ==
    ASSUME NEW periods, NEW start, NEW last, Sound(periods, start, last),
           NEW at \in Nat, last <= at, start <= at, NEW site \in Sites,
           NEW new \in Period, new.site = site, new.started = at, new.ended = NoTime, ~new.imported,
           NEW f, IsSequence(f), NEW b \in Nat, b <= Len(f), Tells(f, b, periods, start, Ends),
           NEW e, e.site = site, e.at = at, e.pet = new.pet, e.verified \in BOOLEAN,
           new.verified = (IF e.verified THEN at ELSE NoTime),
           NEW after, after = ClosePeriods(periods, {site}, at) \union {new}
    PROVE  Sound(after, start, at) /\ Tells(Append(f, e), b, after, start, Ends)
<1> DEFINE closed == ClosePeriods(periods, {site}, at)
           g == Append(f, e)
           sites == {site}
<1>1. /\ Sound(closed, start, at)
      /\ \A q \in closed : \E p \in periods : Cut(p, q, sites, at)
      /\ \A p \in periods : \E q \in closed : Cut(p, q, sites, at)
  BY PeriodsCut
<1>2. \A s, t : ToldOwner(g, b, s, t) =
                  IF s = site /\ at <= t THEN [pet |-> e.pet, verified |-> e.verified]
                  ELSE ToldOwner(f, b, s, t)
  <2>1. Len(f) \in Nat
    BY LenProperties DEF IsSequence
  <2>2. ~(Len(f) + 1 <= b)
    BY <2>1
  <2> QED
    BY <2>2, ToldAppend
<1>3. \A s : s \in sites <=> s = site
  OBVIOUS
<1>4. after = closed \union {new}
  OBVIOUS
<1> HIDE DEF closed, g, sites
<1>5. \A q \in closed, t \in Nat : q.site = site /\ Covers(q, t) => t < at
  BY <1>1, <1>3 DEF Cut
<1>6. Sound(after, start, at)
  <2>1. \A p \in closed, t \in Nat : p.site = new.site /\ Covers(p, t) => t < at
    BY <1>5
  <2>2. Sound(closed \union {new}, start, at)
    BY <1>1, <2>1, PeriodAdded
  <2> QED
    BY <1>4, <2>2
<1>7. \A t \in Nat : /\ Covers(new, t) <=> at <= t
                     /\ Covers(new, t) => Certified(new, t) = e.verified
  <2>1. \A t \in Nat : Covers(new, t) <=> at <= t
    BY DEF Covers
  <2>2. CASE e.verified = TRUE
    BY <2>1, <2>2 DEF Certified, NoTime
  <2>3. CASE e.verified = FALSE
    BY <2>1, <2>3 DEF Certified
  <2> QED
    BY <2>1, <2>2, <2>3
<1>8. ASSUME NEW q \in after, NEW t \in Nat, start <= t, t < Ends, Covers(q, t)
      PROVE  ToldOwner(g, b, q.site, t) = [pet |-> q.pet, verified |-> Certified(q, t)]
  <2>1. CASE q = new
    BY <1>2, <1>7, <1>8, <2>1
  <2>2. CASE q \in closed
    <3>1. PICK p \in periods : Cut(p, q, sites, at)
      BY <1>1, <2>2
    <3>2. /\ Covers(p, t) /\ q.site = p.site /\ q.pet = p.pet /\ Certified(q, t) = Certified(p, t)
          /\ ~(q.site = site /\ at <= t)
      BY <1>3, <1>8, <3>1 DEF Cut
    <3>3. ToldOwner(f, b, p.site, t) = [pet |-> p.pet, verified |-> Certified(p, t)]
      BY <1>8, <3>2 DEF Tells
    <3> QED
      BY <1>2, <3>2, <3>3
  <2> QED
    BY <1>4, <2>1, <2>2
<1>9. ASSUME NEW s \in Sites, NEW t \in Nat, start <= t, t < Ends, ToldOwner(g, b, s, t) # None
      PROVE  \E q \in after : q.site = s /\ Covers(q, t)
  <2>1. CASE s = site /\ at <= t
    BY <1>4, <1>7, <2>1
  <2>2. CASE ~(s = site /\ at <= t)
    <3>1. ToldOwner(f, b, s, t) # None
      BY <1>2, <1>9, <2>2
    <3>2. PICK p \in periods : p.site = s /\ Covers(p, t)
      BY <1>9, <3>1 DEF Tells
    <3>3. PICK q \in closed : Cut(p, q, sites, at)
      BY <1>1
    <3>4. q.site = s /\ Covers(q, t)
      BY <1>3, <2>2, <3>2, <3>3 DEF Cut
    <3> QED
      BY <1>4, <3>4
  <2> QED
    BY <2>1, <2>2
<1>10. Tells(g, b, after, start, Ends)
  BY <1>8, <1>9 DEF Tells
<1> QED
  BY <1>6, <1>10 DEF g

\* So does the certificate of the period that is open.
LEMMA CertifyTells ==
    ASSUME NEW periods, NEW start, NEW last, Sound(periods, start, last),
           NEW at \in Nat, last <= at, NEW site \in Sites,
           NEW held \in periods, Open(periods, site) = {held}, held.verified = NoTime,
           NEW f, IsSequence(f), NEW b \in Nat, b <= Len(f), Tells(f, b, periods, start, Ends),
           NEW e, e.site = site, e.at = at, e.pet = held.pet, e.verified = TRUE,
           NEW after, after = CertifyPeriods(periods, site, at)
    PROVE  Sound(after, start, at) /\ Tells(Append(f, e), b, after, start, Ends)
<1> DEFINE new == [held EXCEPT !.verified = at]
           g == Append(f, e)
           rest == periods \ {held}
<1>1. /\ start \in Nat /\ last \in Nat /\ IsFiniteSet(periods)
      /\ \A p \in periods : p \in Period
      /\ \A p, q \in periods, t \in Nat : p.site = q.site /\ Covers(p, t) /\ Covers(q, t) => p = q
      /\ \A p \in periods :
           /\ start <= p.started /\ p.started <= last
           /\ p.ended = NoTime \/ p.ended <= last
           /\ p.takeover => ~p.imported
  BY DEF Sound, ArePeriods, Apart
<1>2. held.site = site /\ held.ended = NoTime /\ \A p \in rest : p.site = site => p.ended # NoTime
  BY DEF Open
<1>3. /\ new \in Period /\ new.site = site /\ new.pet = held.pet /\ new.started = held.started
      /\ new.ended = NoTime /\ new.verified = at /\ at # NoTime
      /\ new.imported = held.imported /\ new.takeover = held.takeover
  BY <1>1, <1>2 DEF Period, NoTime
<1>4. after = rest \union {new}
  <2>1. after = {IF p = held THEN new ELSE p : p \in periods}
    BY DEF CertifyPeriods
  <2> HIDE DEF new
  <2> QED
    BY <2>1
<1>5. \A s, t : ToldOwner(g, b, s, t) =
                  IF s = site /\ at <= t THEN [pet |-> e.pet, verified |-> e.verified]
                  ELSE ToldOwner(f, b, s, t)
  <2>1. Len(f) \in Nat
    BY LenProperties DEF IsSequence
  <2>2. ~(Len(f) + 1 <= b)
    BY <2>1
  <2> QED
    BY <2>2, ToldAppend
<1>6. \A p \in rest : p \in periods /\ p # held
  OBVIOUS
<1>6a. \A p \in periods : p = held \/ p \in rest
  OBVIOUS
<1>7. IsFiniteSet(after)
  <2>1. IsFiniteSet(rest)
    BY <1>1, FS_RemoveElement
  <2> HIDE DEF rest, new
  <2> QED
    BY <1>4, <2>1, FS_AddElement
<1> HIDE DEF new, g, rest
<1>8. \A t : Covers(new, t) = Covers(held, t)
  BY <1>2, <1>3 DEF Covers
<1>9. \A p \in rest, t \in Nat : p.site = site /\ Covers(p, t) => t < at
  <2> SUFFICES ASSUME NEW p \in rest, NEW t \in Nat, p.site = site, Covers(p, t)
               PROVE  t < at
    OBVIOUS
  <2>1. p.ended # NoTime /\ t < p.ended
    BY <1>2 DEF Covers
  <2>2. p.ended \in Nat /\ p.ended <= last
    BY <1>1, <1>6, <2>1 DEF Period
  <2> QED
    BY <1>1, <2>1, <2>2
<1>10. held.started \in Nat /\ held.started <= at
  BY <1>1 DEF Period
<1>11. \A t \in Nat : at <= t => Covers(held, t)
  BY <1>2, <1>10 DEF Covers
<1>12. \A t \in Nat : /\ at <= t => Certified(new, t) = TRUE
                      /\ ~(at <= t) => Certified(new, t) = FALSE
                      /\ Certified(held, t) = FALSE
  BY <1>3 DEF Certified
<1>13. ArePeriods(after)
  BY <1>1, <1>3, <1>4, <1>6 DEF ArePeriods
<1>14. Apart(after)
  <2> SUFFICES ASSUME NEW p \in after, NEW q \in after, NEW t \in Nat,
                      p.site = q.site, Covers(p, t), Covers(q, t)
               PROVE  p = q
    BY DEF Apart
  <2>1. CASE p = new /\ q = new
    BY <2>1
  <2>2. CASE p = new /\ q \in rest
    BY <1>1, <1>2, <1>3, <1>6, <1>8, <2>2
  <2>3. CASE p \in rest /\ q = new
    BY <1>1, <1>2, <1>3, <1>6, <1>8, <2>3
  <2>4. CASE p \in rest /\ q \in rest
    BY <1>1, <1>6, <2>4
  <2> QED
    BY <1>4, <2>1, <2>2, <2>3, <2>4
<1>15. ASSUME NEW p \in after
       PROVE  /\ start <= p.started /\ p.started <= at
              /\ p.ended = NoTime \/ p.ended <= at
              /\ p.takeover => ~p.imported
  <2>1. CASE p = new
    BY <1>1, <1>3, <1>10, <2>1
  <2>2. CASE p \in rest
    <3>1. p \in Period /\ p \in periods
      BY <1>1, <1>6, <2>2
    <3>2. p.started \in Nat /\ (p.ended \in Nat \/ p.ended = NoTime)
      BY <3>1 DEF Period
    <3> QED
      BY <1>1, <3>1, <3>2
  <2> QED
    BY <1>4, <2>1, <2>2
<1>16. Sound(after, start, at)
  BY <1>1, <1>7, <1>13, <1>14, <1>15 DEF Sound
<1>17. ASSUME NEW q \in after, NEW t \in Nat, start <= t, t < Ends, Covers(q, t)
       PROVE  ToldOwner(g, b, q.site, t) = [pet |-> q.pet, verified |-> Certified(q, t)]
  <2>1. CASE q = new /\ at <= t
    <3>1. Certified(new, t) = TRUE
      BY <1>12, <2>1
    <3> QED
      BY <1>3, <1>5, <2>1, <3>1
  <2>2. CASE q = new /\ ~(at <= t)
    <3>1. ToldOwner(f, b, held.site, t) = [pet |-> held.pet, verified |-> Certified(held, t)]
      BY <1>8, <1>17, <2>2 DEF Tells
    <3>2. Certified(new, t) = FALSE /\ Certified(held, t) = FALSE
      BY <1>12, <2>2
    <3>3. ToldOwner(g, b, site, t) = ToldOwner(f, b, site, t)
      BY <1>5, <2>2
    <3>4. ToldOwner(g, b, site, t) = [pet |-> held.pet, verified |-> FALSE]
      BY <1>2, <3>1, <3>2, <3>3
    <3> QED
      BY <1>3, <2>2, <3>2, <3>4
  <2>3. CASE q \in rest
    <3>1. ~(q.site = site /\ at <= t)
      BY <1>9, <1>17, <2>3
    <3>2. ToldOwner(f, b, q.site, t) = [pet |-> q.pet, verified |-> Certified(q, t)]
      BY <1>6, <1>17, <2>3 DEF Tells
    <3> QED
      BY <1>5, <3>1, <3>2
  <2> QED
    BY <1>4, <2>1, <2>2, <2>3
<1>18. ASSUME NEW s \in Sites, NEW t \in Nat, start <= t, t < Ends, ToldOwner(g, b, s, t) # None
       PROVE  \E q \in after : q.site = s /\ Covers(q, t)
  <2>1. CASE s = site /\ at <= t
    BY <1>3, <1>4, <1>8, <1>11, <2>1
  <2>2. CASE ~(s = site /\ at <= t)
    <3>1. ToldOwner(f, b, s, t) # None
      BY <1>5, <1>18, <2>2
    <3>2. PICK p \in periods : p.site = s /\ Covers(p, t)
      BY <1>18, <3>1 DEF Tells
    <3>3. CASE p = held
      BY <1>2, <1>3, <1>4, <1>8, <3>2, <3>3
    <3>4. CASE p \in rest
      BY <1>4, <3>2, <3>4
    <3> QED
      BY <1>6a, <3>3, <3>4
  <2> QED
    BY <2>1, <2>2
<1>19. Tells(g, b, after, start, Ends)
  BY <1>17, <1>18 DEF Tells
<1> QED
  BY <1>16, <1>19 DEF g

\* The close of the season ends what is open and tells nothing new.
LEMMA CloseTells ==
    ASSUME NEW periods, NEW start, NEW last, Sound(periods, start, last), last <= Ends,
           NEW f, NEW b, Tells(f, b, periods, start, Ends),
           NEW after, after = ClosePeriods(periods, Sites, Ends)
    PROVE  /\ Sound(after, start, Ends) /\ Tells(f, b, after, start, Ends)
           /\ \A q \in after : q.ended # NoTime
<1>0. Ends \in Nat
  BY ScopesAssumption
<1>1. /\ Sound(after, start, Ends)
      /\ \A q \in after : \E p \in periods : Cut(p, q, Sites, Ends)
      /\ \A p \in periods : \E q \in after : Cut(p, q, Sites, Ends)
  BY <1>0, PeriodsCut
<1>2. \A p \in periods : p.site \in Sites
  BY DEF Sound, ArePeriods, Period
<1>3. ASSUME NEW q \in after, NEW t \in Nat, start <= t, t < Ends, Covers(q, t)
      PROVE  ToldOwner(f, b, q.site, t) = [pet |-> q.pet, verified |-> Certified(q, t)]
  <2>1. PICK p \in periods : Cut(p, q, Sites, Ends)
    BY <1>1
  <2>2. Covers(p, t) /\ q.site = p.site /\ q.pet = p.pet /\ Certified(q, t) = Certified(p, t)
    BY <1>3, <2>1 DEF Cut
  <2>3. ToldOwner(f, b, p.site, t) = [pet |-> p.pet, verified |-> Certified(p, t)]
    BY <1>3, <2>2 DEF Tells
  <2> QED
    BY <2>2, <2>3
<1>4. ASSUME NEW s \in Sites, NEW t \in Nat, start <= t, t < Ends, ToldOwner(f, b, s, t) # None
      PROVE  \E q \in after : q.site = s /\ Covers(q, t)
  <2>1. PICK p \in periods : p.site = s /\ Covers(p, t)
    BY <1>4 DEF Tells
  <2>2. PICK q \in after : Cut(p, q, Sites, Ends)
    BY <1>1
  <2>3. q.site = s /\ Covers(q, t)
    BY <1>4, <2>1, <2>2 DEF Cut
  <2> QED
    BY <2>3
<1>5. Tells(f, b, after, start, Ends)
  BY <1>3, <1>4 DEF Tells
<1>6. \A q \in after : q.ended # NoTime
  BY <1>1, <1>2 DEF Cut
<1> QED
  BY <1>1, <1>5, <1>6

\* The sites events tell of are finitely many.
LEMMA ToldSites ==
    ASSUME NEW f, IsSequence(f), NEW H, \A s \in H : \E i \in DOMAIN f : f[i].site = s
    PROVE  IsFiniteSet(H)
<1> DEFINE n == Len(f)
           m == [i \in 1..n |-> f[i].site]
           T == ImageOf(m, 1..n)
<1>1. n \in Nat /\ DOMAIN f = 1..n
  BY LenProperties DEF IsSequence
<1>2. n \in Int /\ 1 \in Int
  BY <1>1
<1>3. IsFiniteSet(1..n)
  BY <1>2, FS_Interval
<1>4. IsFiniteSet(T)
  <2> HIDE DEF m, n
  <2> QED
    BY <1>3, ImageFinite
<1>5. H \subseteq T
  <2> SUFFICES ASSUME NEW s \in H
               PROVE  s \in T
    OBVIOUS
  <2>1. PICK i \in 1..n : f[i].site = s
    BY <1>1
  <2>2. m[i] = s
    BY <2>1
  <2> HIDE DEF m, n
  <2> QED
    BY <2>1, <2>2 DEF ImageOf
<1> HIDE DEF T
<1> QED
  BY <1>4, <1>5, FS_Subset

\* What is owned when the stream begins is what its events tell from then on.
LEMMA BeginTells ==
    ASSUME NEW at \in Nat, NEW owners, owners \in [Sites -> Owners],
           NEW f, IsSequence(f), \A s \in Sites, t \in Nat : owners[s] = ToldOwner(f, Len(f), s, t),
           NEW periods,
           periods = {NewPeriod(1, at, s, owners[s].pet, owners[s].verified, TRUE, FALSE) :
                        s \in {t \in Sites : owners[t] # None}}
    PROVE  /\ Sound(periods, at, at)
           /\ Tells(f, Len(f), periods, at, Ends)
<1> DEFINE Held == {t \in Sites : owners[t] # None}
           m == [s \in Held |-> NewPeriod(1, at, s, owners[s].pet, owners[s].verified, TRUE, FALSE)]
<1>1. \A s \in Held : /\ s \in Sites /\ owners[s].pet \in Pets /\ owners[s].verified \in BOOLEAN
                      /\ owners[s] = [pet |-> owners[s].pet, verified |-> owners[s].verified]
  BY DEF Owners
<1>2. periods = {m[s] : s \in Held}
  OBVIOUS
<1>3. \A s \in Sites : owners[s] # None => s \in Held
  OBVIOUS
<1>4. ASSUME NEW s \in Held
      PROVE  /\ m[s] \in Period /\ m[s].site = s /\ m[s].ended = NoTime /\ m[s].started = at
             /\ m[s].pet = owners[s].pet /\ ~m[s].takeover
             /\ \A t \in Nat : Covers(m[s], t) <=> at <= t
             /\ \A t \in Nat : at <= t => Certified(m[s], t) = owners[s].verified
  <2> DEFINE pet == owners[s].pet
             verified == owners[s].verified
             p == NewPeriod(1, at, s, pet, verified, TRUE, FALSE)
  <2>1. s \in Sites /\ pet \in Pets /\ verified \in BOOLEAN /\ m[s] = p
    BY <1>1
  <2> HIDE DEF pet, verified, m
  <2>2. /\ p \in Period /\ p.site = s /\ p.ended = NoTime /\ p.started = at
        /\ p.pet = pet /\ ~p.takeover /\ p.verified = IF verified THEN at ELSE NoTime
    BY <2>1 DEF NewPeriod, Period, NoTime
  <2> HIDE DEF p
  <2>3. \A t \in Nat : Covers(p, t) <=> at <= t
    BY <2>2 DEF Covers
  <2>4. \A t \in Nat : at <= t => Certified(p, t) = verified
    <3>1. CASE verified = TRUE
      <4>1. p.verified = at /\ at # NoTime
        BY <2>2, <3>1 DEF NoTime
      <4> QED
        BY <3>1, <4>1 DEF Certified
    <3>2. CASE verified = FALSE
      <4>1. p.verified = NoTime
        BY <2>2, <3>2
      <4> QED
        BY <3>2, <4>1 DEF Certified
    <3> QED
      BY <2>1, <3>1, <3>2
  <2> QED
    BY <2>1, <2>2, <2>3, <2>4 DEF pet, verified
<1>5. IsFiniteSet(Held)
  <2>1. ASSUME NEW s \in Held PROVE \E i \in DOMAIN f : f[i].site = s
    <3>1. ToldOwner(f, Len(f), s, at) # None
      OBVIOUS
    <3> QED
      BY <3>1, OwnerHasEvent
  <2> HIDE DEF Held
  <2> QED
    BY <2>1, ToldSites
<1> HIDE DEF Held, m
<1>6. IsFiniteSet(periods)
  <2>1. periods = ImageOf(m, Held)
    BY <1>2 DEF ImageOf
  <2> QED
    BY <1>5, <2>1, ImageFinite
<1>7. ASSUME NEW p \in periods
      PROVE  p.site \in Held /\ p = m[p.site]
  <2>1. PICK s \in Held : p = m[s]
    BY <1>2
  <2>2. m[s].site = s
    BY <1>4
  <2> QED
    BY <2>1, <2>2
<1>8. Sound(periods, at, at)
  <2>1. ArePeriods(periods)
    <3>1. \A s \in Held : m[s] \in Period
      BY <1>4
    <3> QED
      BY <1>7, <3>1 DEF ArePeriods
  <2>2. Apart(periods)
    BY <1>7 DEF Apart
  <2>3. \A p \in periods : /\ at <= p.started /\ p.started <= at
                           /\ p.ended = NoTime \/ p.ended <= at
                           /\ p.takeover => ~p.imported
    <3> SUFFICES ASSUME NEW p \in periods
                 PROVE  /\ at <= p.started /\ p.started <= at
                        /\ p.ended = NoTime \/ p.ended <= at
                        /\ p.takeover => ~p.imported
      OBVIOUS
    <3>1. \A s \in Held : m[s].started = at /\ m[s].ended = NoTime /\ ~m[s].takeover
      BY <1>4
    <3>2. p.started = at /\ p.ended = NoTime /\ ~p.takeover
      BY <1>7, <3>1
    <3> QED
      BY <3>2
  <2> QED
    BY <1>6, <2>1, <2>2, <2>3 DEF Sound
<1>9. ASSUME NEW p \in periods, NEW t \in Nat, Covers(p, t)
      PROVE  ToldOwner(f, Len(f), p.site, t) = [pet |-> p.pet, verified |-> Certified(p, t)]
  <2> DEFINE s == p.site
  <2>1. s \in Held /\ p = m[s]
    BY <1>7
  <2> HIDE DEF s
  <2>2. at <= t /\ Certified(p, t) = owners[s].verified /\ p.pet = owners[s].pet /\ p.site = s
    BY <1>4, <1>9, <2>1
  <2>3. ToldOwner(f, Len(f), s, t) = owners[s] /\ owners[s] = [pet |-> owners[s].pet, verified |-> owners[s].verified]
    BY <1>1, <2>1
  <2> QED
    BY <2>2, <2>3
<1>10. ASSUME NEW s \in Sites, NEW t \in Nat, at <= t, ToldOwner(f, Len(f), s, t) # None
       PROVE  \E p \in periods : p.site = s /\ Covers(p, t)
  <2>1. owners[s] # None
    BY <1>10
  <2>2. s \in Held
    BY <1>3, <2>1
  <2>3. m[s] \in periods /\ m[s].site = s /\ Covers(m[s], t)
    BY <1>2, <1>4, <1>10, <2>2
  <2> QED
    BY <2>3
<1>11. Tells(f, Len(f), periods, at, Ends)
  BY <1>9, <1>10 DEF Tells
<1> QED
  BY <1>8, <1>11

------------------------------------------------------------------------------
\* Peaks

\* The counts of a replay are bounded, and have the present number of each pet.
Bounded(counts) == \E N \in Nat : \A d \in counts : d[2] \in 0..N

Counted(periods, counts) ==
    Bounded(counts) /\ \A q \in Pets : <<q, OwnedCount(periods, q)>> \in counts

\* Counting once more keeps them so.
LEMMA CountsGrow ==
    ASSUME NEW counts, Bounded(counts), NEW periods, IsFiniteSet(periods)
    PROVE  Counted(periods, counts \union {<<p, OwnedCount(periods, p)>> : p \in Pets})
<1> DEFINE new == {<<p, OwnedCount(periods, p)>> : p \in Pets}
           M == Cardinality(periods)
<1>1. M \in Nat
  BY FS_CardinalityType
<1>2. PICK N \in Nat : \A d \in counts : d[2] \in 0..N
  BY DEF Bounded
<1>3. \A p \in Pets : OwnedCount(periods, p) \in 0..M
  <2> SUFFICES ASSUME NEW p \in Pets
               PROVE  OwnedCount(periods, p) \in 0..M
    OBVIOUS
  <2> DEFINE own == {q \in periods : q.pet = p /\ q.ended = NoTime}
  <2>1. own \in SUBSET periods /\ OwnedCount(periods, p) = Cardinality(own)
    BY DEF OwnedCount
  <2> HIDE DEF own
  <2>2. IsFiniteSet(own) /\ Cardinality(own) <= M
    BY <2>1, FS_Subset
  <2>3. Cardinality(own) \in Nat
    BY <2>2, FS_CardinalityType
  <2> QED
    BY <1>1, <2>1, <2>2, <2>3
<1> HIDE DEF M
<1>4. \A d \in new : d[2] \in 0..M
  BY <1>3
<1>5. \A p \in Pets : <<p, OwnedCount(periods, p)>> \in new
  OBVIOUS
<1> HIDE DEF new
<1>6. N + M \in Nat /\ \A d \in counts \union new : d[2] \in 0..(N + M)
  BY <1>1, <1>2, <1>4
<1>7. Bounded(counts \union new)
  BY <1>6 DEF Bounded
<1>8. Counted(periods, counts \union new)
  BY <1>5, <1>7 DEF Counted
<1> QED
  BY <1>8 DEF new

\* What is owned now was counted for the peak, and who took over acquired.
LEMMA PeaksHold ==
    ASSUME NEW periods, IsFiniteSet(periods), \A p \in periods : p.takeover => ~p.imported,
           NEW counts, Counted(periods, counts), NEW pet \in Pets
    PROVE  LET mine == {p \in periods : p.pet = pet}
           IN  /\ OwnedCount(mine, pet) <= Peak(counts, pet)
               /\ Cardinality({p \in mine : p.takeover}) <= Cardinality({p \in mine : ~p.imported})
<1> DEFINE mine == {p \in periods : p.pet = pet}
           taken == {p \in mine : p.takeover}
           acquired == {p \in mine : ~p.imported}
           T == {0} \union {c[2] : c \in {d \in counts : d[1] = pet}}
<1>1. OwnedCount(mine, pet) = OwnedCount(periods, pet)
  <2>1. {p \in mine : p.pet = pet /\ p.ended = NoTime} = {p \in periods : p.pet = pet /\ p.ended = NoTime}
    OBVIOUS
  <2> QED
    BY <2>1 DEF OwnedCount
<1>2. taken \in SUBSET acquired /\ acquired \in SUBSET periods
  OBVIOUS
<1>3. PICK N \in Nat : \A d \in counts : d[2] \in 0..N
  BY DEF Counted, Bounded
<1>4. T \subseteq 0..N
  BY <1>3
<1>5. <<pet, OwnedCount(periods, pet)>> \in counts
  BY DEF Counted
<1>6. OwnedCount(periods, pet) \in T
  BY <1>5
<1>7. Peak(counts, pet) = Max(T)
  BY DEF Peak
<1> HIDE DEF T
<1>8. Max(T) >= OwnedCount(periods, pet) /\ Max(T) \in 0..N /\ OwnedCount(periods, pet) \in 0..N
  BY <1>4, <1>6, Greatest
<1>9. OwnedCount(periods, pet) <= Max(T)
  BY <1>8
<1>10. Cardinality(taken) <= Cardinality(acquired)
  <2> HIDE DEF taken, acquired
  <2> QED
    BY <1>2, FS_Subset
<1> QED
  BY <1>1, <1>7, <1>9, <1>10

------------------------------------------------------------------------------
\* What the statistics tell of the season

\* The policy's owners are the ones its events tell.
OwnersTold ==
    \A s \in Sites, t \in Nat :
      policy.owner[s] = ToldOwner(policy.events, Len(policy.events), s, t)

\* The replay of the stream tells, at every instant of the season, the owners
\* the policy's events tell.
SeasonTold ==
    /\ Run.last <= Ends
    /\ Sound(Run.periods, stream[Season].start, Run.last)
    /\ Tells(policy.events, BaseEvents, Run.periods, stream[Season].start, Ends)
    /\ Run.closed => \A p \in Run.periods : p.ended # NoTime
    /\ Counted(Run.periods, Run.counts)

\* So do the rows of a checkpoint, up to its cut.
RowTold(row) ==
    /\ row.through <= stream[Season].through
    /\ RowTells(policy.events, BaseEvents, row.rows, row.start, row.through)
    /\ Counted(row.rows, row.counts)
    /\ \A p \in row.rows : p.takeover => ~p.imported

RowsTold ==
    \A g \in Generations :
      published[<<g, Season>>] # None => stream[Season] # None /\ RowTold(published[<<g, Season>>])

\* The inductive invariant behind the published totals.
TotalsInv == OwnersTold /\ (stream[Season] # None => SeasonTold) /\ RowsTold

\* A decision of the policy is an event that tells its owner.
LEMMA OwnersToldKept ==
    ASSUME Policies, OwnersTold, NEW j, Pending(j), policy' = PolicyAfter(j)
    PROVE  OwnersTold'
<1> DEFINE f == policy.events
           g == policy'.events
           n == Len(f)
<1>1. IsSequence(f) /\ n \in Nat
  BY LenProperties DEF Policies, IsSequence
<1>2. CASE j.op = "claim"
  <2> DEFINE e == EventOf(j)
             c == j.claim
             stored == [pet |-> c.pet, verified |-> c.verified]
  <2>1. g = Append(f, e) /\ policy'.owner = [policy.owner EXCEPT ![c.site] = stored]
    BY <1>2 DEF PolicyAfter
  <2>2. c.site \in Sites
    BY <1>2, ClaimsAssumption DEF Pending
  <2>3. e.site = c.site /\ [pet |-> e.pet, verified |-> e.verified] = stored
    BY DEF EventOf
  <2>4. Len(g) = n + 1
    BY <1>1, <2>1, AppendKeeps DEF IsSequence
  <2> HIDE DEF e, f, g, n, c, stored
  <2>5. ASSUME NEW s \in Sites, NEW t \in Nat
        PROVE  policy'.owner[s] = ToldOwner(g, Len(g), s, t)
    <3>1. ToldOwner(g, n + 1, s, t) =
            IF e.site = s /\ (n + 1 <= n + 1 \/ e.at <= t)
              THEN [pet |-> e.pet, verified |-> e.verified] ELSE ToldOwner(f, n + 1, s, t)
      BY <1>1, <2>1, ToldAppend DEF n
    <3>2. ToldOwner(f, n + 1, s, t) = ToldOwner(f, n, s, t)
      BY <1>1, MoreTold DEF n
    <3>3. policy.owner[s] = ToldOwner(f, n, s, t)
      BY DEF OwnersTold, f, n
    <3>4. n + 1 <= n + 1
      BY <1>1
    <3>5. ToldOwner(g, n + 1, s, t) = IF s = c.site THEN stored ELSE policy.owner[s]
      BY <2>3, <3>1, <3>2, <3>3, <3>4
    <3>6. policy'.owner[s] = IF s = c.site THEN stored ELSE policy.owner[s]
      BY <2>1, <2>2 DEF Policies
    <3> QED
      BY <2>4, <3>5, <3>6
  <2> QED
    BY <2>5 DEF OwnersTold, g
<1>3. CASE j.op # "claim"
  <2>1. policy'.owner = policy.owner
    <3> DEFINE a == policy.status
               b == policy.owner
    <3>1. policy = [status |-> a, owner |-> b, events |-> f]
      BY DEF Policies
    <3>2. policy' = [policy EXCEPT !.status = "FINALIZED"]
      BY <1>3 DEF PolicyAfter
    <3> HIDE DEF a, b, f
    <3>3. policy' = [status |-> "FINALIZED", owner |-> b, events |-> f]
      BY <3>1, <3>2
    <3>4. policy'.owner = b
      BY <3>3
    <3> QED
      BY <3>4 DEF b
  <2>2. policy'.events = policy.events
    BY <1>3, PolicyDecided
  <2> QED
    BY <2>1, <2>2 DEF OwnersTold
<1> QED
  BY <1>2, <1>3

\* What the stream has of its own does not move the policy's earlier events.
LEMMA BaseStands ==
    ASSUME Streams, stream[Season] # None, Told, Policies, policy.status = "ACTIVE", NEW e,
           stream'[Season].changes = Append(stream[Season].changes, e),
           NEW x, policy'.events = IF Closing(e) THEN policy.events ELSE Append(policy.events, x)
    PROVE  BaseEvents' = BaseEvents
<1> DEFINE c == stream[Season].changes
           d == stream'[Season].changes
           f == policy.events
           g == policy'.events
           n == Len(c) - 1
<1>1. IsSequence(c) /\ Len(c) \in Nat \ {0} /\ d = Append(c, e)
  BY SeasonRow
<1>2. Last(c).kind # "SEASON_CLOSED" /\ BaseEvents = Len(f) - Len(OwnedChanges(c))
      /\ BaseEvents' = Len(g) - Len(OwnedChanges(d))
  BY DEF Told, BaseEvents
<1>3. Len(f) \in Nat /\ Len(g) = IF Closing(e) THEN Len(f) ELSE Len(f) + 1
  <2>1. Len(f) \in Nat /\ Len(Append(f, x)) = Len(f) + 1
    BY AppendKeeps DEF Policies, IsSequence
  <2> QED
    BY <2>1
<1> HIDE DEF c, d, f, g
<1>4. /\ Len(OwnedChanges(c)) = n /\ n \in Nat
      /\ Len(OwnedChanges(d)) = IF Closing(e) THEN n ELSE n + 1
  <2>1. n \in Nat
    BY <1>1
  <2>2. CASE Closing(e)
    BY <1>1, <1>2, <2>1, <2>2, OwnedGrow
  <2>3. CASE ~Closing(e)
    BY <1>1, <1>2, <2>1, <2>3, OwnedGrow
  <2> QED
    BY <2>2, <2>3
<1> DEFINE a == Len(OwnedChanges(c))
           b == Len(OwnedChanges(d))
<1>5. a \in Nat /\ BaseEvents = Len(f) - a /\ BaseEvents' = Len(g) - b
      /\ b = IF Closing(e) THEN a ELSE a + 1
  BY <1>2, <1>4
<1> HIDE DEF a, b
<1>6. CASE Closing(e)
  BY <1>3, <1>5, <1>6
<1>7. CASE ~Closing(e)
  BY <1>3, <1>5, <1>7
<1> QED
  BY <1>6, <1>7

\* The base is a number of the policy's events.
LEMMA BaseIs ==
    ASSUME Streams, stream[Season] # None, Told, Policies
    PROVE  BaseEvents \in Nat /\ BaseEvents <= Len(policy.events) /\ IsSequence(policy.events)
<1> DEFINE owned == OwnedChanges(stream[Season].changes)
           c == stream[Season].changes
<1>1. IsSequence(c) /\ Len(c) \in Nat \ {0}
  BY SeasonRow
<1>2. Len(owned) \in Nat
  <2> DEFINE n == IF Last(c).kind = "SEASON_CLOSED" THEN Len(c) - 1 ELSE Len(c)
  <2>1. owned = SubSeq(c, 2, n) /\ n \in Nat /\ n <= Len(c)
    BY <1>1 DEF OwnedChanges
  <2> HIDE DEF n, owned, c
  <2>2. CASE n = 0
    <3>1. SubSeq(c, 2, 0) = <<>>
      BY <1>1 DEF IsSequence
    <3> QED
      BY <2>1, <2>2, <3>1, EmptySeq
  <2>3. CASE n # 0
    <3>1. n \in 1..Len(c)
      BY <1>1, <2>1, <2>3
    <3>2. Len(SubSeq(c, 2, n)) = n - 1
      BY <1>1, <3>1, Between
    <3> QED
      BY <2>1, <2>3, <3>2
  <2> QED
    BY <2>2, <2>3
<1>3. BaseEvents \in Nat /\ BaseEvents = Len(policy.events) - Len(owned)
  BY DEF Told, BaseEvents
<1>4. IsSequence(policy.events) /\ Len(policy.events) \in Nat
  BY LenProperties DEF Policies, IsSequence
<1> HIDE DEF owned
<1> QED
  BY <1>2, <1>3, <1>4

\* A claim's change keeps the replay telling what the policy's events tell.
LEMMA ClaimTells ==
    ASSUME NEW j, j.op = "claim", Pending(j), Policies, Streams, stream[Season] # None,
           Replayed, Mirrored, Told, SeasonTold, Appendable(ChangeOf(j))
    PROVE  LET e == ChangeOf(j)
           IN  /\ Sound(PeriodsAfter(Run, e), stream[Season].start, e.at)
               /\ Tells(Append(policy.events, EventOf(j)), BaseEvents, PeriodsAfter(Run, e),
                        stream[Season].start, Ends)
<1> DEFINE e == ChangeOf(j)
           x == EventOf(j)
           c == j.claim
           owner == policy.owner[c.site]
           start == stream[Season].start
           f == policy.events
           b == BaseEvents
           P == Run.periods
<1>1. /\ c \in Claims /\ c.site \in Sites /\ c.pet \in Pets /\ c.verified \in BOOLEAN
      /\ j.at \in Nat /\ j.at < Ends /\ j.kind = PlanKind(c) /\ j.kind # "UNCHANGED"
      /\ policy.status = "ACTIVE"
  BY ClaimsAssumption DEF Pending
<1>2. e = Owned(j.kind, j.at, c.site, c.pet, IF owner = None THEN None ELSE owner.pet, c.verified)
  BY DEF ChangeOf
<1>3. /\ e.kind = j.kind /\ e.at = j.at /\ e.site = c.site /\ e.pet = c.pet
      /\ e.verified = c.verified
  BY <1>2 DEF Owned
<1>4. x.site = c.site /\ x.at = j.at /\ x.pet = c.pet /\ x.verified = c.verified
  BY DEF EventOf
<1>5. b \in Nat /\ b <= Len(f) /\ IsSequence(f)
  BY BaseIs
<1>6. /\ Sound(P, start, Run.last) /\ Tells(f, b, P, start, Ends) /\ Run.last \in Nat
      /\ start \in Nat
  BY DEF SeasonTold, Sound
<1>7. Run.last <= j.at /\ start <= j.at /\ Run.revision \in Nat
  <2>1. stream[Season].through <= j.at
    BY <1>3 DEF Appendable
  <2>2. /\ Run.last <= stream[Season].through /\ stream[Season].through \in Nat
        /\ start <= stream[Season].through /\ Run.revision = Len(stream[Season].changes)
    BY DEF Replayed
  <2>3. Len(stream[Season].changes) \in Nat
    BY SeasonRow
  <2> QED
    BY <1>1, <1>6, <2>1, <2>2, <2>3
<1>8. Mirrors(P, c.site, owner)
  BY <1>1 DEF AllMirror, Mirrored
<1> HIDE DEF e, x, c, owner, start, f, b, P
<1>9. CASE j.kind = "OWNERSHIP_CHANGED"
  <2> DEFINE new == NewPeriod(Run.revision + 1, j.at, c.site, c.pet, c.verified, FALSE,
                              e.previous # None)
             after == PeriodsAfter(Run, e)
             revision == Run.revision + 1
             takeover == e.previous # None
  <2>1. after = ClosePeriods(P, {c.site}, j.at) \union {new}
    BY <1>3, <1>9 DEF PeriodsAfter, P
  <2>2. revision \in Nat /\ takeover \in BOOLEAN /\ new = NewPeriod(revision, j.at, c.site, c.pet, c.verified, FALSE, takeover)
    BY <1>7
  <2> HIDE DEF new, after, revision, takeover
  <2>3. /\ new \in Period /\ new.site = c.site /\ new.ended = NoTime /\ new.started = j.at
        /\ ~new.imported /\ new.pet = c.pet /\ new.verified = (IF c.verified THEN j.at ELSE NoTime)
    BY <1>1, <2>2 DEF NewPeriod, Period, NoTime
  <2>4. x.pet = new.pet /\ x.verified \in BOOLEAN
        /\ new.verified = (IF x.verified THEN j.at ELSE NoTime)
    BY <1>1, <1>4, <2>3
  <2>5. Sound(after, start, j.at) /\ Tells(Append(f, x), b, after, start, Ends)
    BY <1>1, <1>4, <1>5, <1>6, <1>7, <2>1, <2>3, <2>4, ChangeTells
  <2> QED
    BY <1>3, <2>5 DEF after, start, f, b, e, x
<1>10. CASE j.kind = "CERTIFIED"
  <2> DEFINE after == PeriodsAfter(Run, e)
  <2>1. owner # None /\ owner.pet = c.pet /\ ~owner.verified /\ c.verified
    BY <1>1, <1>10 DEF PlanKind, owner, c
  <2>2. PICK held \in P : Open(P, c.site) = {held}
                          /\ owner = [pet |-> held.pet, verified |-> held.verified # NoTime]
    BY <1>8, <2>1 DEF Mirrors
  <2>3. held.verified = NoTime /\ held.pet = c.pet
    BY <2>1, <2>2
  <2>4. after = CertifyPeriods(P, c.site, j.at)
    BY <1>3, <1>10 DEF PeriodsAfter, CertifyPeriods, P
  <2>5. x.verified = TRUE /\ x.pet = held.pet
    BY <1>1, <1>4, <2>1, <2>3
  <2> HIDE DEF after
  <2>6. Sound(after, start, j.at) /\ Tells(Append(f, x), b, after, start, Ends)
    BY <1>1, <1>4, <1>5, <1>6, <1>7, <2>2, <2>3, <2>4, <2>5, CertifyTells
  <2> QED
    BY <1>3, <2>6 DEF after, start, f, b, e, x
<1>11. j.kind \in {"OWNERSHIP_CHANGED", "CERTIFIED"}
  BY <1>1 DEF PlanKind
<1> QED
  BY <1>9, <1>10, <1>11

\* The counts of a replay go on.
LEMMA CountsApply ==
    ASSUME NEW r, NEW e, NEW P, Counted(P, r.counts), IsFiniteSet(PeriodsAfter(r, e))
    PROVE  Counted(Apply(r, e).periods, Apply(r, e).counts)
<1> DEFINE after == PeriodsAfter(r, e)
<1>1. /\ Apply(r, e).periods = after
      /\ Apply(r, e).counts = r.counts \union {<<p, OwnedCount(after, p)>> : p \in Pets}
  BY DEF Apply
<1>2. Bounded(r.counts)
  BY DEF Counted
<1> HIDE DEF after
<1>3. Counted(after, r.counts \union {<<p, OwnedCount(after, p)>> : p \in Pets})
  BY <1>2, CountsGrow DEF after
<1> QED
  BY <1>1, <1>3

\* What a change that was appended leaves.
LEMMA SeasonToldGrows ==
    ASSUME Streams, stream[Season] # None, Replayed, SeasonTold, NEW e,
           Fits(Run, stream[Season].start, e), e.at <= Ends,
           stream'[Season].start = stream[Season].start,
           stream'[Season].changes = Append(stream[Season].changes, e),
           Sound(PeriodsAfter(Run, e), stream[Season].start, e.at),
           Tells(policy'.events, BaseEvents', PeriodsAfter(Run, e), stream[Season].start, Ends),
           Closing(e) => \A p \in PeriodsAfter(Run, e) : p.ended # NoTime
    PROVE  SeasonTold'
<1> DEFINE r == Run
<1>1. IsSequence(stream[Season].changes)
  BY SeasonRow
<1>2. Run' = Apply(r, e)
  BY <1>1, ReplayGrows DEF Run, Replayed
<1>3. /\ Run'.last = e.at /\ Run'.closed = (e.kind = "SEASON_CLOSED")
      /\ Run'.periods = PeriodsAfter(r, e)
  BY <1>2, AppliedIs
<1>4. Counted(Run'.periods, Run'.counts)
  <2>1. Counted(r.periods, r.counts)
    BY DEF SeasonTold
  <2>2. IsFiniteSet(PeriodsAfter(r, e))
    BY DEF Sound
  <2> HIDE DEF r
  <2>3. Counted(Apply(r, e).periods, Apply(r, e).counts)
    BY <2>1, <2>2, CountsApply
  <2> QED
    BY <1>2, <2>3
<1> HIDE DEF r
<1>5. Run'.closed => \A p \in Run'.periods : p.ended # NoTime
  BY <1>3 DEF Closing, r
<1>6. Sound(Run'.periods, stream'[Season].start, Run'.last)
  BY <1>3 DEF r
<1>7. Tells(policy'.events, BaseEvents', Run'.periods, stream'[Season].start, Ends)
  BY <1>3 DEF r
<1>8. Run'.last <= Ends
  BY <1>3
<1> QED
  BY <1>4, <1>5, <1>6, <1>7, <1>8 DEF SeasonTold

\* A checkpoint's rows still tell the owners when the policy decides more.
LEMMA RowsStand ==
    ASSUME RowsTold, stream[Season] # None, published' = published,
           stream'[Season] # None, stream[Season].through \in Nat, stream'[Season].through \in Nat,
           stream[Season].through <= stream'[Season].through,
           BaseEvents' = BaseEvents, BaseEvents \in Nat, BaseEvents <= Len(policy.events),
           IsSequence(policy.events),
           \/ policy'.events = policy.events
           \/ \E e : /\ policy'.events = Append(policy.events, e)
                     /\ e.at \in Nat /\ stream[Season].through <= e.at
    PROVE  RowsTold'
<1> SUFFICES ASSUME NEW g \in Generations, published[<<g, Season>>] # None
             PROVE  RowTold(published[<<g, Season>>])'
  BY DEF RowsTold
<1> DEFINE row == published[<<g, Season>>]
           f == policy.events
           b == BaseEvents
<1>1. RowTold(row) /\ published'[<<g, Season>>] = row
  BY DEF RowsTold
<1> HIDE DEF row
<1>2. /\ RowTells(f, b, row.rows, row.start, row.through) /\ row.through <= stream[Season].through
      /\ Counted(row.rows, row.counts) /\ \A p \in row.rows : p.takeover => ~p.imported
  BY <1>1 DEF RowTold
<1>3. row.through \in Nat /\ row.through <= stream'[Season].through
      /\ Tells(f, b, row.rows, row.start, row.through)
  BY <1>2 DEF RowTells
<1>4. Tells(policy'.events, b, row.rows, row.start, row.through)
  <2>1. CASE policy'.events = f
    BY <1>3, <2>1
  <2>2. ASSUME NEW e, policy'.events = Append(f, e), e.at \in Nat, stream[Season].through <= e.at
        PROVE  Tells(policy'.events, b, row.rows, row.start, row.through)
    <3>1. row.through <= e.at
      BY <1>2, <1>3, <2>2
    <3> HIDE DEF f, b
    <3>2. IsSequence(f) /\ b \in Nat /\ b <= Len(f)
      BY DEF f, b
    <3>3. Tells(Append(f, e), b, row.rows, row.start, row.through)
      BY <1>3, <2>2, <3>1, <3>2, TellsStands
    <3> QED
      BY <2>2, <3>3
  <2> QED
    BY <2>1, <2>2
<1>5. RowTells(policy'.events, b, row.rows, row.start, row.through)
  BY <1>2, <1>4 DEF RowTells
<1> HIDE DEF b
<1>6. RowTells(policy'.events, BaseEvents', row.rows, row.start, row.through)
  BY <1>5 DEF b
<1> QED
  BY <1>1, <1>2, <1>3, <1>6 DEF RowTold

\* A step that leaves the policy, the season's stream and the checkpoints alone.
LEMMA SameTotals ==
    ASSUME TotalsInv, policy' = policy, stream'[Season] = stream[Season], published' = published
    PROVE  TotalsInv'
<1>1. Run' = Run /\ BaseEvents' = BaseEvents
  BY DEF Run, BaseEvents
<1>2. OwnersTold'
  BY DEF TotalsInv, OwnersTold
<1>3. stream'[Season] # None => SeasonTold'
  BY <1>1 DEF TotalsInv, SeasonTold
<1>4. RowsTold'
  BY <1>1 DEF TotalsInv, RowsTold, RowTold
<1> QED
  BY <1>2, <1>3, <1>4 DEF TotalsInv

\* The commits of the producers.
LEMMA CommitTotals ==
    ASSUME NEW w \in Workers, Commit(w), Streams, SeasonInv, TotalsInv
    PROVE  TotalsInv'
<1> DEFINE j == job[w]
           row == StreamAfter(j)
           old == stream[Season]
           new == stream'[Season]
<1>0. /\ Pending(j) /\ Policies /\ Season \in Scopes /\ stream = [s \in Scopes |-> stream[s]]
      /\ published' = published
  BY DEF Commit, SeasonInv, Decisions, Streams, Scopes
<1>1. CASE row = None
  <2>1. policy' = policy /\ stream' = stream
    BY <1>1 DEF Commit
  <2> QED
    BY <1>0, <2>1, SameTotals
<1>2. CASE row # None
  <2>1. /\ stream' = [stream EXCEPT ![Season] = row]
        /\ policy' = IF Writes(j) THEN PolicyAfter(j) ELSE policy
    BY <1>2 DEF Commit
  <2>2. new = row
    BY <1>0, <2>1
  <2>3. /\ old # None /\ new.start = old.start
        /\ new.changes = IF Writes(j) THEN Append(old.changes, ChangeOf(j)) ELSE old.changes
        /\ Writes(j) => Appendable(ChangeOf(j))
        /\ j.op = "claim" \/ j.op = "finalize" => new.through = ChangeOf(j).at
        /\ j.op = "cut" => /\ new.through = j.through
                           /\ Confirmable(new.changes, new.start, j.through)
                           /\ j.through >= IF Writes(j) THEN ChangeOf(j).at ELSE old.through
    BY <1>0, <1>2, <2>2, CommittedRow
  <2>4. Replayed /\ Mirrored /\ Told /\ SeasonTold /\ OwnersTold /\ RowsTold
    BY <2>3 DEF SeasonInv, TotalsInv
  <2>5. /\ BaseEvents \in Nat /\ BaseEvents <= Len(policy.events) /\ IsSequence(policy.events)
        /\ old.through \in Nat /\ old.start \in Nat
    BY <1>0, <2>3, <2>4, BaseIs DEF Replayed
  <2>6. new # None
    BY <1>2, <2>2
  <2> HIDE DEF row, old, new, j
  <2>7. CASE j.op = "claim"
    <3> DEFINE e == ChangeOf(j)
               x == EventOf(j)
               after == PeriodsAfter(Run, e)
    <3>1. /\ Writes(j) /\ Appendable(e) /\ new.through = e.at
          /\ new.changes = Append(old.changes, e) /\ policy' = PolicyAfter(j)
      BY <2>1, <2>3, <2>7 DEF Writes
    <3>2. /\ Fits(Run, old.start, e)
          /\ e.at \in Nat /\ e.at < Ends /\ e.kind # "SEASON_CLOSED"
      BY <1>0, <2>3, <2>4, <2>7, <3>1, ClaimFits DEF old
    <3>3. policy.status = "ACTIVE" /\ e.at = j.at /\ x.at = j.at
      BY <1>0, <2>7 DEF Pending, ChangeOf, EventOf, Owned
    <3>4. policy'.events = Append(policy.events, x)
      BY <2>7, <3>1 DEF PolicyAfter
    <3>5. /\ Sound(after, old.start, e.at)
          /\ Tells(Append(policy.events, x), BaseEvents, after, old.start, Ends)
      BY <1>0, <2>3, <2>4, <2>7, <3>1, ClaimTells DEF old
    <3>6. old.through <= e.at /\ ~Closing(e)
      BY <3>1, <3>2 DEF Appendable, old, Closing
    <3> HIDE DEF e, x
    <3>7. BaseEvents' = BaseEvents
      BY <1>0, <2>3, <2>4, <3>1, <3>3, <3>4, <3>6, BaseStands DEF old, new
    <3>8. SeasonTold'
      <4>1. Tells(policy'.events, BaseEvents', after, old.start, Ends)
        BY <3>4, <3>5, <3>7
      <4>2. e.at <= Ends
        BY <3>2, ScopesAssumption
      <4> HIDE DEF after
      <4>3. new.start = old.start
        BY <2>3
      <4> QED
        BY <1>0, <2>3, <2>4, <3>1, <3>2, <3>5, <3>6, <4>1, <4>2, <4>3, SeasonToldGrows
        DEF old, new, after
    <3>9. RowsTold'
      <4>1. policy'.events = Append(policy.events, x) /\ x.at \in Nat /\ old.through <= x.at
        BY <3>2, <3>3, <3>4, <3>6
      <4>2. new.through \in Nat /\ old.through <= new.through
        BY <3>1, <3>2, <3>6
      <4> QED
        BY <1>0, <2>3, <2>4, <2>5, <2>6, <3>7, <4>1, <4>2, RowsStand DEF old, new
    <3>10. OwnersTold'
      BY <1>0, <2>4, <3>1, OwnersToldKept
    <3> QED
      BY <3>8, <3>9, <3>10 DEF TotalsInv
  <2>8. ASSUME Writes(j), j.op # "claim", new.through \in Nat, new.through >= Ends,
               policy.status = "ACTIVE"
        PROVE  TotalsInv'
    <3> DEFINE e == SeasonClosed
               after == PeriodsAfter(Run, e)
    <3>1. ChangeOf(j) = e
      BY <2>8 DEF ChangeOf
    <3>2. Appendable(e) /\ new.changes = Append(old.changes, e)
      BY <2>3, <2>8, <3>1
    <3>3. /\ Fits(Run, old.start, e)
          /\ e.at = Ends /\ Ends \in Nat /\ old.through <= Ends /\ Closing(e)
      BY <2>3, <2>4, <2>8, <3>2, <1>0, CloseFits DEF old
    <3>4. policy' = PolicyAfter(j)
      BY <2>1, <2>8
    <3>5. policy'.events = policy.events
      BY <1>0, <2>8, <3>4, PolicyDecided
    <3>6. after = ClosePeriods(Run.periods, Sites, Ends)
      BY DEF PeriodsAfter, SeasonClosed
    <3> HIDE DEF e, after
    <3>7. /\ Sound(after, old.start, Ends)
          /\ Tells(policy.events, BaseEvents, after, old.start, Ends)
          /\ \A p \in after : p.ended # NoTime
      <4>1. /\ Sound(Run.periods, old.start, Run.last) /\ Run.last <= Ends
            /\ Tells(policy.events, BaseEvents, Run.periods, old.start, Ends)
        BY <2>4 DEF SeasonTold, old
      <4> QED
        BY <3>6, <4>1, CloseTells
    <3>8. BaseEvents' = BaseEvents
      BY <1>0, <2>3, <2>4, <2>8, <3>2, <3>3, <3>5, BaseStands DEF old, new
    <3>9. SeasonTold'
      <4>1. Tells(policy'.events, BaseEvents', after, old.start, Ends)
        BY <3>5, <3>7, <3>8
      <4>2. e.at <= Ends /\ Sound(after, old.start, e.at)
        BY <3>3, <3>7
      <4>3. new.start = old.start
        BY <2>3
      <4> QED
        BY <1>0, <2>3, <2>4, <3>2, <3>3, <3>7, <4>1, <4>2, <4>3, SeasonToldGrows DEF old, new, after
    <3>10. RowsTold'
      <4>1. old.through <= new.through
        BY <2>5, <2>8, <3>3
      <4> QED
        BY <1>0, <2>3, <2>4, <2>5, <2>6, <2>8, <3>5, <3>8, <4>1, RowsStand DEF old, new
    <3>11. OwnersTold'
      BY <1>0, <2>4, <3>4, OwnersToldKept
    <3> QED
      BY <3>9, <3>10, <3>11 DEF TotalsInv
  <2>9. CASE j.op = "finalize"
    <3>1. Writes(j) /\ ChangeOf(j) = SeasonClosed /\ policy.status = "ACTIVE"
      BY <1>0, <2>9 DEF Writes, Closes, ChangeOf, Pending
    <3>2. new.through = Ends /\ Ends \in Nat
      BY <2>3, <2>9, <3>1, ScopesAssumption DEF SeasonClosed
    <3> QED
      BY <2>8, <2>9, <3>1, <3>2
  <2>10. CASE j.op = "cut" /\ j.closing
    <3>1. Writes(j) /\ ChangeOf(j) = SeasonClosed /\ policy.status = "ACTIVE"
      BY <1>0, <2>10 DEF Writes, Closes, ChangeOf, Pending
    <3>2. SeasonClosed.at = Ends /\ Ends \in Nat
      BY ScopesAssumption DEF SeasonClosed
    <3>3. new.through \in Nat /\ new.through >= Ends
      BY <1>0, <2>3, <2>10, <3>1, <3>2 DEF Pending
    <3> QED
      BY <2>8, <2>10, <3>1, <3>3
  <2>11. CASE j.op = "cut" /\ ~j.closing
    <3>1. ~Writes(j)
      BY <2>11 DEF Writes, Closes
    <3>2. /\ policy' = policy /\ new.changes = old.changes /\ new.start = old.start
          /\ new.through = j.through /\ j.through \in Nat /\ old.through <= j.through
      BY <1>0, <2>1, <2>3, <2>5, <2>11, <3>1 DEF Pending
    <3>3. Run' = Run /\ BaseEvents' = BaseEvents
      BY <3>2 DEF Run, BaseEvents, old, new
    <3>4. SeasonTold'
      BY <2>4, <3>2, <3>3 DEF SeasonTold, old, new
    <3>5. RowsTold'
      <4>1. policy'.events = policy.events /\ new.through \in Nat /\ old.through <= new.through
        BY <3>2
      <4> QED
        BY <1>0, <2>3, <2>4, <2>5, <2>6, <3>3, <4>1, RowsStand DEF old, new
    <3>6. OwnersTold'
      BY <2>4, <3>2 DEF OwnersTold
    <3> QED
      BY <3>4, <3>5, <3>6 DEF TotalsInv
  <2> QED
    BY <1>0, <2>7, <2>9, <2>10, <2>11 DEF Pending
<1> QED
  BY <1>1, <1>2

LEMMA PlainTotals ==
    ASSUME NEW w \in Workers, CommitPlain(w), SeasonInv, TotalsInv
    PROVE  TotalsInv'
<1>1. stream' = stream /\ published' = published /\ Pending(job[w]) /\ Policies
  BY DEF CommitPlain, SeasonInv, Decisions
<1>2. CASE stream[Season] = None
  <2>1. policy' = PolicyAfter(job[w])
    BY <1>2 DEF CommitPlain
  <2>2. OwnersTold'
    BY <1>1, <2>1, OwnersToldKept DEF TotalsInv
  <2>3. \A g \in Generations : published[<<g, Season>>] = None
    BY <1>2 DEF TotalsInv, RowsTold
  <2>4. RowsTold'
    BY <1>1, <2>3 DEF RowsTold
  <2> QED
    BY <1>1, <1>2, <2>2, <2>4 DEF TotalsInv
<1>3. CASE stream[Season] # None
  <2>1. policy' = policy
    BY <1>3 DEF CommitPlain
  <2> QED
    BY <1>1, <2>1, SameTotals
<1> QED
  BY <1>2, <1>3

------------------------------------------------------------------------------
\* The totals

\* A stream begins with what the policy's events tell then.
LEMMA ActivateTotals ==
    ASSUME NEW now \in Times, NEW start \in Times, Activate(now, start), Streams, SeasonInv, TotalsInv
    PROVE  TotalsInv'
<1> DEFINE e == Initialized(start, policy.owner)
           new == stream'[Season]
           r == Blank(start)
           f == policy.events
           after == PeriodsAfter(r, e)
<1>1. /\ start \in Nat /\ start < Ends /\ policy' = policy /\ published' = published
      /\ stream[Season] = None /\ Season \in Scopes /\ Policies /\ Ends \in Nat
  BY ScopesAssumption DEF Activate, Times, Scopes, SeasonInv
<1>2. new.start = start /\ new.changes = <<e>>
  <2>1. new = [start |-> start, through |-> start, changes |-> <<e>>]
    BY <1>1 DEF Activate, Streams, Started
  <2> HIDE DEF new
  <2> QED BY <2>1
<1>3. e.kind = "INITIALIZED" /\ e.at = start /\ e.owners = policy.owner
  BY DEF Initialized
<1>4. /\ r.ok /\ r.revision = 0 /\ r.last = start /\ r.closed = FALSE /\ r.counts = {}
  BY DEF Blank
<1> HIDE DEF e, new, r, f
<1>5. after = {NewPeriod(1, start, s, policy.owner[s].pet, policy.owner[s].verified, TRUE, FALSE) :
                 s \in {t \in Sites : policy.owner[t] # None}}
  BY <1>3, <1>4 DEF PeriodsAfter
<1> HIDE DEF after
<1>6. <<e>> \in Seq({e}) /\ Len(<<e>>) = 1 /\ <<e>> = Append(<<>>, e) /\ <<>> \in Seq({e})
  OBVIOUS
<1>7. Run' = Apply(r, e)
  <2>1. Run' = Replay(Append(<<>>, e), start)
    BY <1>2, <1>6 DEF Run, new
  <2>2. Replay(Append(<<>>, e), start) = Advance(Replay(<<>>, start), start, e)
    BY <1>6, ReplayAppend
  <2>3. Replay(<<>>, start) = r
    BY ReplayNothing DEF r
  <2>4. Fits(r, start, e)
    BY <1>1, <1>3, <1>4 DEF Fits
  <2> QED
    BY <1>4, <2>1, <2>2, <2>3, <2>4 DEF Advance
<1>8. Run'.last = start /\ Run'.closed = FALSE /\ Run'.periods = after
  <2>1. /\ Run'.last = e.at /\ Run'.closed = (e.kind = "SEASON_CLOSED")
        /\ Run'.periods = after
    BY <1>7, AppliedIs DEF after
  <2>2. (e.kind = "SEASON_CLOSED") = FALSE
    BY <1>3
  <2> QED
    BY <1>3, <2>1, <2>2
<1>9. IsSequence(f) /\ Len(f) \in Nat
  BY <1>1, LenProperties DEF Policies, IsSequence, f
<1>10. BaseEvents' = Len(f)
  <2>1. IsSequence(<<e>>)
    BY <1>6, SequencesAre
  <2>2. Last(<<e>>) = e
    BY <1>6 DEF Last
  <2>3. OwnedChanges(<<e>>) = SubSeq(<<e>>, 2, 1)
    BY <1>3, <1>6, <2>2 DEF OwnedChanges
  <2>4. Len(OwnedChanges(<<e>>)) = 0
    <3>1. 1 \in 1..Len(<<e>>) /\ 1 - 1 = 0
      BY <1>6
    <3> QED
      BY <2>1, <2>3, <3>1, Between
  <2>5. BaseEvents' = Len(f) - Len(OwnedChanges(<<e>>))
    BY <1>1, <1>2 DEF BaseEvents, new, f
  <2> QED
    BY <1>9, <2>4, <2>5
<1>11. Sound(after, start, start) /\ Tells(f, Len(f), after, start, Ends)
  <2> DEFINE owners == policy.owner
  <2>1. owners \in [Sites -> Owners]
    BY <1>1 DEF Policies
  <2>2. \A s \in Sites, t \in Nat : owners[s] = ToldOwner(f, Len(f), s, t)
    BY DEF TotalsInv, OwnersTold, f
  <2>3. after = {NewPeriod(1, start, s, owners[s].pet, owners[s].verified, TRUE, FALSE) :
                   s \in {t \in Sites : owners[t] # None}}
    BY <1>5
  <2> HIDE DEF owners
  <2> QED
    BY <1>1, <1>9, <2>1, <2>2, <2>3, BeginTells
<1>12. Counted(Run'.periods, Run'.counts)
  <2>1. Run'.counts = {} \union {<<p, OwnedCount(after, p)>> : p \in Pets}
    BY <1>4, <1>7 DEF Apply, after
  <2>2. Bounded({})
    <3>1. 0 \in Nat /\ \A d \in {} : d[2] \in 0..0
      OBVIOUS
    <3> QED
      BY <3>1 DEF Bounded
  <2>3. IsFiniteSet(after)
    BY <1>11 DEF Sound
  <2>4. Counted(after, {} \union {<<p, OwnedCount(after, p)>> : p \in Pets})
    BY <2>2, <2>3, CountsGrow
  <2> QED
    BY <1>8, <2>1, <2>4
<1>13. SeasonTold'
  <2>1. Run'.last <= Ends
    BY <1>1, <1>8
  <2>2. Sound(Run'.periods, new.start, Run'.last)
    BY <1>2, <1>8, <1>11
  <2>3. Tells(policy'.events, BaseEvents', Run'.periods, new.start, Ends)
    BY <1>1, <1>2, <1>8, <1>10, <1>11 DEF f
  <2> QED
    BY <1>8, <1>12, <2>1, <2>2, <2>3 DEF SeasonTold, new
<1>14. RowsTold'
  <2>1. \A g \in Generations : published[<<g, Season>>] = None
    BY <1>1 DEF TotalsInv, RowsTold
  <2> QED
    BY <1>1, <2>1 DEF RowsTold
<1>15. OwnersTold'
  BY <1>1 DEF TotalsInv, OwnersTold
<1> QED
  BY <1>13, <1>14, <1>15 DEF TotalsInv

\* What a runner publishes of the season is what the stream tells up to its cut.
LEMMA JustTold ==
    ASSUME NEW g \in Generations, Streams, stream[Season] # None, Replayed, SeasonTold
    PROVE  RowTold(Projection(g, Season))
<1> DEFINE row == Projection(g, Season)
           start == stream[Season].start
           through == stream[Season].through
           P == Run.periods
           f == policy.events
           b == BaseEvents
<1>1. row.through = through /\ row.start = start /\ row.rows = P /\ row.counts = Run.counts
  BY DEF Projection, Run
<1>2. /\ start \in Nat /\ through \in Nat /\ Ends \in Nat /\ Run.last \in Nat /\ Run.last <= Ends
      /\ through < Ends \/ Run.closed
      /\ Run.closed => \A p \in P : p.ended # NoTime
  BY ScopesAssumption DEF Replayed, SeasonTold
<1>3. Sound(P, start, Run.last) /\ Tells(f, b, P, start, Ends) /\ Counted(P, Run.counts)
  BY DEF SeasonTold
<1> HIDE DEF row, start, through, P, f, b
<1>4. /\ IsFiniteSet(P) /\ ArePeriods(P) /\ Apart(P)
      /\ \A p \in P : p.ended = NoTime \/ p.ended <= Run.last
      /\ \A p \in P : p.takeover => ~p.imported
  BY <1>3 DEF Sound
<1>5. InSeason(P, through)
  <2> SUFFICES ASSUME NEW p \in P, NEW t \in Nat, t < through, Covers(p, t)
               PROVE  t < Ends
    BY DEF InSeason
  <2>1. CASE through < Ends
    BY <1>2, <2>1
  <2>2. CASE Run.closed
    <3>1. p.ended # NoTime /\ p.ended <= Run.last /\ p.ended \in Nat
      BY <1>2, <1>4, <2>2 DEF ArePeriods, Period
    <3>2. t < p.ended
      BY <3>1 DEF Covers
    <3> QED
      BY <1>2, <3>1, <3>2
  <2> QED
    BY <1>2, <2>1, <2>2
<1>6. Tells(f, b, P, start, through)
  <2>1. ASSUME NEW p \in P, NEW t \in Nat, start <= t, t < Ends, Covers(p, t)
        PROVE  ToldOwner(f, b, p.site, t) = [pet |-> p.pet, verified |-> Certified(p, t)]
    BY <1>3, <2>1 DEF Tells
  <2>2. ASSUME NEW s \in Sites, NEW t \in Nat, start <= t, t < Ends, ToldOwner(f, b, s, t) # None
        PROVE  \E p \in P : p.site = s /\ Covers(p, t)
    BY <1>3, <2>2 DEF Tells
  <2> QED
    BY <2>1, <2>2 DEF Tells
<1>7. RowTells(f, b, P, start, through)
  BY <1>2, <1>4, <1>5, <1>6 DEF RowTells
<1>8. through <= through
  BY <1>2
<1>9. /\ row.through <= through /\ RowTells(f, b, row.rows, row.start, row.through)
      /\ Counted(row.rows, row.counts) /\ \A p \in row.rows : p.takeover => ~p.imported
  BY <1>1, <1>3, <1>4, <1>7, <1>8
<1> QED
  BY <1>9 DEF RowTold, row, through, f, b

LEMMA RefreshTotals ==
    ASSUME NEW r \in Runners, Refresh(r), StatInv, SeasonInv, TotalsInv
    PROVE  TotalsInv'
<1> DEFINE g == GenerationOf[r]
           s == Head(run[r].todo)
<1>1. policy' = policy /\ stream' = stream
  BY DEF Refresh
<1>2. \/ published' = published
      \/ published' = [published EXCEPT ![<<g, s>>] = Projection(g, s)] /\ stream[s] # None
  BY DEF Refresh, Replayable
<1>3. published = [k \in Generations \X Scopes |-> published[k]] /\ Season \in Scopes
      /\ g \in Generations /\ Streams
  BY ScopesAssumption DEF StatInv, Published, Scopes
<1> HIDE DEF g, s
<1>4. Run' = Run /\ BaseEvents' = BaseEvents
  BY <1>1 DEF Run, BaseEvents
<1>5. ASSUME NEW h \in Generations, published'[<<h, Season>>] # None
      PROVE  stream[Season] # None /\ RowTold(published'[<<h, Season>>])
  <2>1. CASE published'[<<h, Season>>] = published[<<h, Season>>]
    BY <1>5, <2>1 DEF TotalsInv, RowsTold
  <2>2. CASE published'[<<h, Season>>] # published[<<h, Season>>]
    <3>1. <<h, Season>> \in Generations \X Scopes
      BY <1>3
    <3>2. <<h, Season>> = <<g, s>> /\ published'[<<h, Season>>] = Projection(g, s)
          /\ stream[s] # None
      BY <1>2, <1>3, <2>2, <3>1
    <3>3. h = g /\ s = Season
      BY <3>2
    <3>4. stream[Season] # None /\ Replayed /\ SeasonTold
      BY <3>2, <3>3 DEF SeasonInv, TotalsInv
    <3>5. RowTold(Projection(g, Season))
      BY <1>3, <3>4, JustTold
    <3> QED
      BY <3>2, <3>3, <3>4, <3>5
  <2> QED
    BY <2>1, <2>2
<1>6. RowsTold'
  <2> SUFFICES ASSUME NEW h \in Generations, published'[<<h, Season>>] # None
               PROVE  stream'[Season] # None /\ RowTold(published[<<h, Season>>])'
    BY DEF RowsTold
  <2> DEFINE row == published'[<<h, Season>>]
  <2>1. stream[Season] # None /\ RowTold(row)
    BY <1>5
  <2> HIDE DEF row
  <2>2. /\ row.through <= stream[Season].through
        /\ RowTells(policy.events, BaseEvents, row.rows, row.start, row.through)
        /\ Counted(row.rows, row.counts)
        /\ \A p \in row.rows : p.takeover => ~p.imported
    BY <2>1 DEF RowTold
  <2>3. /\ row.through <= stream'[Season].through
        /\ RowTells(policy'.events, BaseEvents', row.rows, row.start, row.through)
    BY <1>1, <1>4, <2>2
  <2> QED
    BY <1>1, <2>1, <2>2, <2>3 DEF RowTold, row
<1>7. OwnersTold' /\ (stream'[Season] # None => SeasonTold')
  BY <1>1, <1>4 DEF TotalsInv, OwnersTold, SeasonTold
<1> QED
  BY <1>6, <1>7 DEF TotalsInv

LEMMA TotalsInit == Init => TotalsInv
<1> SUFFICES ASSUME Init
             PROVE  TotalsInv
  OBVIOUS
<1>1. stream[Season] = None /\ \A g \in Generations : published[<<g, Season>>] = None
  BY DEF Init, Scopes
<1>2. policy.events = <<>> /\ \A s \in Sites : policy.owner[s] = None
  <2>1. policy = [status |-> "ACTIVE", owner |-> [s \in Sites |-> None], events |-> <<>>]
    BY DEF Init
  <2>2. policy.owner = [s \in Sites |-> None] /\ policy.events = <<>>
    BY <2>1
  <2> QED
    BY <2>2
<1>3. OwnersTold
  <2> SUFFICES ASSUME NEW s \in Sites, NEW t \in Nat
               PROVE  ToldOwner(<<>>, Len(<<>>), s, t) = None
    BY <1>2 DEF OwnersTold
  <2>1. DOMAIN <<>> = {}
    OBVIOUS
  <2>2. {i \in DOMAIN <<>> : <<>>[i].site = s /\ (i <= Len(<<>>) \/ <<>>[i].at <= t)} = {}
    BY <2>1
  <2> QED
    BY <2>2 DEF ToldOwner
<1>4. RowsTold
  BY <1>1 DEF RowsTold
<1> QED
  BY <1>1, <1>3, <1>4 DEF TotalsInv

LEMMA TotalsNext == StatInv /\ SeasonInv /\ TotalsInv /\ [Next]_vars => TotalsInv'
<1> SUFFICES ASSUME StatInv, SeasonInv, TotalsInv, [Next]_vars
             PROVE  TotalsInv'
  OBVIOUS
<1>1. Streams
  BY DEF StatInv
<1>2. ASSUME NEW w \in Workers, Commit(w)
      PROVE  TotalsInv'
  BY <1>1, <1>2, CommitTotals
<1>3. ASSUME NEW w \in Workers, CommitPlain(w)
      PROVE  TotalsInv'
  BY <1>3, PlainTotals
<1>4. ASSUME NEW now \in Times, NEW start \in Times, Activate(now, start)
      PROVE  TotalsInv'
  BY <1>1, <1>4, ActivateTotals
<1>5. ASSUME NEW s \in Selections, Select(s)
      PROVE  TotalsInv'
  <2>1. policy' = policy /\ published' = published
    BY <1>5 DEF Select
  <2>2. stream'[Season] = stream[Season]
    BY <1>1, <1>5, SelectGrows, ScopesAssumption DEF Scopes
  <2> QED
    BY <2>1, <2>2, SameTotals
<1>6. ASSUME NEW r \in Runners, Refresh(r)
      PROVE  TotalsInv'
  BY <1>6, RefreshTotals
<1>7. CASE UNCHANGED policy /\ UNCHANGED stream /\ UNCHANGED published
  BY <1>7, SameTotals
<1>8. published' = published \/ \E r \in Runners : Refresh(r)
  BY DEF vars, Next, Produce, Step, RunnerStep, Claim, Finalize, Capture, Commit, CommitPlain,
         EndRead, Activate, Select, Register, ListPending, LockGeneration, LockStream, Crash,
         BeginRead
<1> QED
  BY <1>2, <1>3, <1>4, <1>5, <1>6, <1>7, <1>8, WhoAppends, WhoDecides

\* The invariant gives the totals.
LEMMA TotalsFollow == StatInv /\ SeasonInv /\ TotalsInv => PublishedTotalsAreFinal
<1> SUFFICES ASSUME TotalsInv, NEW g \in Generations, NEW p \in Pets,
                    published[<<g, Season>>] # None
             PROVE  LET row == published[<<g, Season>>]
                        summary == Summary(row.rows, row.counts, p, row.start, row.through)
                    IN  /\ summary.held_ms =
                             Cardinality({i \in Instants(row) : OwnerAt(i[1], i[2]) # None
                                                                  /\ OwnerAt(i[1], i[2]).pet = p})
                        /\ summary.verified_ms =
                             Cardinality({i \in Instants(row) :
                                            OwnerAt(i[1], i[2]) = [pet |-> p, verified |-> TRUE]})
                        /\ summary.owned <= summary.peak
                        /\ summary.takeovers <= summary.acquisitions
  BY DEF PublishedTotalsAreFinal
<1> DEFINE row == published[<<g, Season>>]
           rows == row.rows
           counts == row.counts
           start == row.start
           through == row.through
           mine == {q \in rows : q.pet = p}
           summary == Summary(rows, counts, p, start, through)
           f == policy.events
           b == BaseEvents
<1>1. RowTold(row)
  BY DEF TotalsInv, RowsTold
<1>2. /\ RowTells(f, b, rows, start, through) /\ Counted(rows, counts)
      /\ \A q \in rows : q.takeover => ~q.imported
  BY <1>1 DEF RowTold
<1>3. IsFiniteSet(rows)
  BY <1>2 DEF RowTells
<1>4. Instants(row) = Sites \X {t \in start..(through - 1) : t < Ends}
  BY DEF Instants
<1>5. {i \in Instants(row) : OwnerAt(i[1], i[2]) # None /\ OwnerAt(i[1], i[2]).pet = p}
        = InstantsOwned(f, b, start, through, p)
  BY <1>4, OwnerIsTold DEF InstantsOwned
<1>6. {i \in Instants(row) : OwnerAt(i[1], i[2]) = [pet |-> p, verified |-> TRUE]}
        = InstantsCertified(f, b, start, through, p)
  BY <1>4, OwnerIsTold DEF InstantsCertified
<1>7. /\ summary.held_ms = SumFunction([q \in mine |-> HeldTime(q, start, through).held])
      /\ summary.verified_ms = SumFunction([q \in mine |-> HeldTime(q, start, through).verified])
      /\ summary.owned = OwnedCount(mine, p) /\ summary.peak = Peak(counts, p)
      /\ summary.takeovers = Cardinality({q \in mine : q.takeover})
      /\ summary.acquisitions = Cardinality({q \in mine : ~q.imported})
  BY DEF Summary
<1> HIDE DEF rows, counts, start, through, f, b
<1>8. summary.held_ms = Cardinality(InstantsOwned(f, b, start, through, p))
  <2>1. SumFunction([q \in mine |-> HeldTime(q, start, through).held])
          = Cardinality(InstantsOwned(f, b, start, through, p))
    BY <1>2, HeldIsTold
  <2> QED
    BY <1>7, <2>1
<1>9. summary.verified_ms = Cardinality(InstantsCertified(f, b, start, through, p))
  <2>1. SumFunction([q \in mine |-> HeldTime(q, start, through).verified])
          = Cardinality(InstantsCertified(f, b, start, through, p))
    BY <1>2, CertifiedIsTold
  <2> QED
    BY <1>7, <2>1
<1>10. summary.owned <= summary.peak /\ summary.takeovers <= summary.acquisitions
  <2>1. /\ OwnedCount(mine, p) <= Peak(counts, p)
        /\ Cardinality({q \in mine : q.takeover}) <= Cardinality({q \in mine : ~q.imported})
    BY <1>2, <1>3, PeaksHold
  <2> QED
    BY <1>7, <2>1
<1> HIDE DEF summary
<1> QED
  BY <1>5, <1>6, <1>8, <1>9, <1>10 DEF summary, rows, counts, start, through

LEMMA TotalsInvariant == Spec => [](StatInv /\ SeasonInv /\ TotalsInv)
<1>1. Init => TotalsInv
  BY TotalsInit
<1>2. StatInv /\ SeasonInv /\ TotalsInv /\ [Next]_vars => TotalsInv'
  BY TotalsNext
<1> QED
  BY <1>1, <1>2, SeasonInvariant, PTL DEF Spec

\* What a checkpoint tells of a pet, the time it held sites and the time they
\* were certified, is what the policy's own events tell instant by instant up to
\* the confirmed cut, and stays so whatever is claimed, activated or finalized
\* later, whichever clock shows which time (confirm_territory, refresh,
\* summarize_territory).
THEOREM TotalsAreFinal == Spec => []PublishedTotalsAreFinal
  BY TotalsInvariant, TotalsFollow, PTL

==============================================================================
