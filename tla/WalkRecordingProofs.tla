------------------------- MODULE WalkRecordingProofs -------------------------
(***************************************************************************)
(* What recording owes the walker, for every number of walks, positions,   *)
(* pauses, failed writes and deaths of the process.  The argument is the   *)
(* writer's queue: the commands of a walk are in it in the order open,     *)
(* positions, close, barrier, and what Room has of the walk is what came   *)
(* before them.  A step at one walk leaves the commands of the others as   *)
(* they are, at most one place further ahead (Aside).                      *)
(***************************************************************************)
EXTENDS WalkRecordingProperties, SequenceTheorems, FiniteSetTheorems, WellFoundedInduction, TLAPS

\* A position as the tracker reports it, and as the writer gets it.
Position == [n: Nat, walk: Jobs, leg: Nat]
Fixes == [client_seq: Nat, chain: Nat, sample: Position]
Queued == [op: {"open", "close"}, walk: Walks] \union [op: {"barrier"}, walk: Jobs]
            \union [op: {"append"}, walk: Walks, fix: Fixes]

Types ==
    /\ TypeOK
    /\ queue \in Seq(Queued) /\ lost \subseteq Queued
    /\ buffer \in Seq(Position)
    /\ room \in [Walks -> [state: {"none", "open", "closed"}, fixes: SUBSET Fixes]]
    /\ handed \in [Walks -> SUBSET Fixes]
    /\ begun \subseteq Walks /\ samples \in Nat
    /\ sent = [w \in Walks |-> sent[w]]
    /\ chainIndex = resumes

IsAppend(c, w) == c.op = "append" /\ c.walk = w

\* Positions wait in the order in which they were measured, and those of the
\* walk being recorded were measured in a leg that has begun.
Buffered ==
    /\ \A i \in DOMAIN buffer :
         /\ buffer[i].n < samples
         /\ buffer[i].walk \in begun \union {None}
         /\ buffer[i].walk = current /\ current # None => buffer[i].leg <= resumes
    /\ \A i, j \in DOMAIN buffer : i < j => buffer[i].n < buffer[j].n

\* A walk that was not begun has nothing anywhere.
Fresh(w) == w \notin begun =>
    /\ handed[w] = {} /\ room[w] = NoRow /\ current # w /\ stopping[w] = "none"
    /\ \A i \in DOMAIN queue : queue[i].walk # w

\* Nothing comes of a walk after the death of the process that recorded it.
Dead(w) == w \in died =>
    /\ w \in begun /\ current # w /\ stopping[w] = "none"
    /\ \A i \in DOMAIN queue : queue[i].walk # w

\* The positions handed to the writer are numbered without gaps, in the order
\* of their measurement, and no chain reaches back over a pause.
Numbers(w) ==
    /\ \A f, g \in handed[w] :
         /\ f.client_seq = g.client_seq => f = g
         /\ f.client_seq < g.client_seq => f.sample.n < g.sample.n /\ f.chain <= g.chain
    /\ \A f \in handed[w] :
         /\ \A n \in Nat : n < f.client_seq => \E g \in handed[w] : g.client_seq = n
         /\ f.sample.n < samples
         /\ f.sample.walk = w => f.chain >= f.sample.leg

\* The walk being recorded goes on where its last position was.
GoesOn(w) == current = w =>
    /\ \A f \in handed[w] :
         /\ f.client_seq < nextClientSeq /\ f.chain <= chainIndex
         /\ \A i \in DOMAIN buffer : f.sample.n < buffer[i].n
    /\ \A n \in Nat : n < nextClientSeq => \E g \in handed[w] : g.client_seq = n
    /\ stopping[w] = "none" /\ room[w].state # "closed"
    /\ \A i \in DOMAIN queue : queue[i] # Plain("close", w) /\ queue[i] # Plain("barrier", w)

\* Room has the first of the positions handed over, the queue the rest.
Stored(w) ==
    /\ room[w].fixes \subseteq handed[w] /\ IsFiniteSet(room[w].fixes)
    /\ room[w].state = "none" => room[w].fixes = {}
    /\ \A f \in handed[w] :
         \/ f \in room[w].fixes \/ LostOf(w) # {} \/ w \in died
         \/ \E i \in DOMAIN queue : IsAppend(queue[i], w) /\ queue[i].fix = f
    /\ LostOf(w) = {} =>
         \A f \in room[w].fixes, g \in handed[w] : g.client_seq < f.client_seq => g \in room[w].fixes
    /\ \A i \in DOMAIN queue : IsAppend(queue[i], w) =>
         /\ queue[i].fix \in handed[w] /\ room[w].state # "closed"
         /\ \A f \in room[w].fixes : f.client_seq < queue[i].fix.client_seq
         /\ \A j \in DOMAIN queue : IsAppend(queue[j], w) /\ i < j =>
              queue[i].fix.client_seq < queue[j].fix.client_seq

\* The close of a walk comes behind its open and its positions.
Closes(w) ==
    /\ \A i, j \in DOMAIN queue :
         queue[i] = Plain("close", w) /\ IsAppend(queue[j], w) => j < i
    /\ current = w \/ (\E i \in DOMAIN queue : queue[i] = Plain("close", w)) =>
         \/ LostOf(w) # {} \/ room[w].state # "none"
         \/ \E i \in DOMAIN queue :
              /\ queue[i] = Plain("open", w)
              /\ \A j \in DOMAIN queue : queue[j] = Plain("close", w) => i < j

\* A stop finds its walk closed, or the close is on its way before the barrier,
\* which is the last command of its walk.
Stops(w) ==
    /\ stopping[w] \in {"launched", "flushing", "flushed"} =>
         \/ LostOf(w) # {} \/ room[w].state = "closed"
         \/ \E i \in DOMAIN queue : queue[i] = Plain("close", w)
    /\ stopping[w] = "launched" => \A i \in DOMAIN queue : queue[i] # Plain("barrier", w)
    /\ \A i, j \in DOMAIN queue : queue[i] = Plain("barrier", w) /\ queue[j] = Plain("barrier", w) => i = j
    /\ stopping[w] = "flushing" =>
         \E i \in DOMAIN queue :
           /\ queue[i] = Plain("barrier", w)
           /\ \A k \in DOMAIN queue : queue[k].walk = w => k <= i
    /\ stopping[w] = "flushed" => \A i \in DOMAIN queue : queue[i].walk # w
    /\ stopping[w] = "sending" /\ LostOf(w) = {} => sent[w] = handed[w]

NoWalkStops == stopping[None] = "flushing" =>
    \E i \in DOMAIN queue : queue[i] = Plain("barrier", None)

WalkOK(w) == Fresh(w) /\ Dead(w) /\ Numbers(w) /\ GoesOn(w) /\ Stored(w) /\ Closes(w) /\ Stops(w)

\* The inductive invariant.
RecordingInv == Types /\ Buffered /\ NoWalkStops /\ \A w \in Walks : WalkOK(w)

------------------------------------------------------------------------------
\* The queue

LEMMA PlainParts ==
    ASSUME NEW op, NEW w
    PROVE  Plain(op, w).op = op /\ Plain(op, w).walk = w
  BY DEF Plain

\* A command behind the others.
Longer(n, c) ==
    /\ n \in Nat /\ DOMAIN queue' = DOMAIN queue \union {n} /\ queue'[n] = c
    /\ \A i \in DOMAIN queue : i \in Nat /\ i < n /\ queue'[i] = queue[i]

\* The first command is taken.
Shorter ==
    /\ 1 \in DOMAIN queue
    /\ \A i \in DOMAIN queue :
         i \in Nat /\ i >= 1 /\ (i # 1 => i - 1 \in DOMAIN queue' /\ queue'[i - 1] = queue[i])
    /\ \A i \in DOMAIN queue' :
         i \in Nat /\ i >= 1 /\ i + 1 \in DOMAIN queue /\ queue'[i] = queue[i + 1]

LEMMA EnqueueView ==
    ASSUME queue \in Seq(Queued), NEW c \in Queued, Enqueue(c)
    PROVE  queue' \in Seq(Queued) /\ \E n \in Nat : Longer(n, c)
<1> DEFINE n == Len(queue) + 1
<1>1. queue' = Append(queue, c)
  BY DEF Enqueue
<1>2. /\ queue' \in Seq(Queued) /\ Len(queue') = n
      /\ \A i \in 1 .. Len(queue) : queue'[i] = queue[i]
      /\ queue'[n] = c
  BY <1>1, AppendProperties
<1>3. Len(queue) \in Nat /\ DOMAIN queue = 1 .. Len(queue) /\ DOMAIN queue' = 1 .. n
  BY <1>2, LenProperties
<1>4. Longer(n, c) /\ n \in Nat
  BY <1>2, <1>3 DEF Longer
<1> QED
  BY <1>2, <1>4

LEMMA TailView ==
    ASSUME queue \in Seq(Queued), queue # <<>>, queue' = Tail(queue)
    PROVE  queue' \in Seq(Queued) /\ Shorter /\ Head(queue) = queue[1] /\ Head(queue) \in Queued
<1>1. /\ queue' \in Seq(Queued) /\ Len(queue) \in Nat /\ Len(queue) # 0
      /\ DOMAIN queue = 1 .. Len(queue) /\ DOMAIN queue' = 1 .. Len(queue')
      /\ Len(queue') = Len(queue) - 1 /\ \A i \in 1 .. Len(queue') : queue'[i] = queue[i + 1]
      /\ Head(queue) = queue[1] /\ Head(queue) \in Queued
  BY HeadTailProperties, EmptySeq, LenProperties
<1>2. Shorter
  BY <1>1 DEF Shorter
<1> QED
  BY <1>1, <1>2

\* The commands of a walk that a step is not about.
SameCommands(w, shift) ==
    /\ \A i \in DOMAIN queue :
         i \in Nat /\ (queue[i].walk = w => i - shift \in DOMAIN queue' /\ queue'[i - shift] = queue[i])
    /\ \A i \in DOMAIN queue' :
         i \in Nat /\ (queue'[i].walk = w => i + shift \in DOMAIN queue /\ queue'[i] = queue[i + shift])

\* A step that changes nothing of a walk but what it is waiting for, at most
\* to end its recording or its stop.
SameWalk(w) ==
    /\ room'[w] = room[w] /\ handed'[w] = handed[w] /\ LostOf(w)' = LostOf(w) /\ sent'[w] = sent[w]
    /\ (w \in begun' <=> w \in begun) /\ (w \in died' <=> w \in died)
    /\ samples \in Nat /\ samples' \in Nat /\ samples <= samples'
    /\ stopping'[w] \in {stopping[w], "none"}
    /\ current' = w =>
         /\ current = w /\ nextClientSeq' = nextClientSeq /\ stopping'[w] = stopping[w]
         /\ chainIndex \in Nat /\ chainIndex' \in Nat /\ chainIndex <= chainIndex'
         /\ \A i \in DOMAIN buffer' :
              /\ buffer'[i].n \in Nat
              /\ buffer'[i].n >= samples \/ \E j \in DOMAIN buffer : buffer'[i].n = buffer[j].n

LEMMA Aside ==
    ASSUME NEW w \in Walks, WalkOK(w), NEW shift \in {0, 1}, SameCommands(w, shift), SameWalk(w),
           room \in [Walks -> [state: {"none", "open", "closed"}, fixes: SUBSET Fixes]],
           handed \in [Walks -> SUBSET Fixes]
    PROVE  WalkOK(w)'
<1>1. Fresh(w)'
  BY DEF WalkOK, Fresh, SameWalk, SameCommands
<1>2. Dead(w)'
  BY DEF WalkOK, Dead, SameWalk, SameCommands
<1>3. handed[w] \subseteq Fixes
  OBVIOUS
<1>4. Numbers(w)'
  BY <1>3 DEF WalkOK, Numbers, SameWalk, Fixes, Position
<1>5. \A op : /\ Plain(op, w).walk = w
              /\ \A i \in DOMAIN queue : queue[i] = Plain(op, w) => queue[i].walk = w
              /\ \A i \in DOMAIN queue' : queue'[i] = Plain(op, w) => queue'[i].walk = w
  BY PlainParts
<1>6. GoesOn(w)'
  <2> SUFFICES ASSUME current' = w
               PROVE  GoesOn(w)'
    BY DEF GoesOn
  <2>1. GoesOn(w) /\ Numbers(w)
    BY DEF WalkOK
  <2>2. ASSUME NEW f \in handed'[w]
        PROVE  /\ f.client_seq < nextClientSeq' /\ f.chain <= chainIndex'
               /\ \A i \in DOMAIN buffer' : f.sample.n < buffer'[i].n
    <3>1. f \in handed[w] /\ f.chain \in Nat /\ f.sample.n \in Nat
      BY <1>3 DEF SameWalk, Fixes, Position
    <3>2. f.client_seq < nextClientSeq' /\ f.chain <= chainIndex'
      BY <2>1, <3>1 DEF GoesOn, SameWalk
    <3>3. \A i \in DOMAIN buffer' : f.sample.n < buffer'[i].n
      BY <2>1, <3>1 DEF GoesOn, Numbers, SameWalk
    <3> QED
      BY <3>2, <3>3
  <2>3. \A n \in Nat : n < nextClientSeq' => \E g \in handed'[w] : g.client_seq = n
    BY <2>1 DEF GoesOn, SameWalk
  <2>4. stopping'[w] = "none" /\ room'[w].state # "closed"
    BY <2>1 DEF GoesOn, SameWalk
  <2>5. \A i \in DOMAIN queue' : queue'[i] # Plain("close", w) /\ queue'[i] # Plain("barrier", w)
    BY <1>5, <2>1 DEF GoesOn, SameWalk, SameCommands
  <2> QED
    BY <2>2, <2>3, <2>4, <2>5 DEF GoesOn
<1>7. Stored(w)'
  <2>1. Stored(w)
    BY DEF WalkOK
  <2>2. \A f \in handed[w] :
          (\E i \in DOMAIN queue : IsAppend(queue[i], w) /\ queue[i].fix = f) =>
             \E i \in DOMAIN queue' : IsAppend(queue'[i], w) /\ queue'[i].fix = f
    BY DEF SameCommands, IsAppend
  <2>3. \A i \in DOMAIN queue' : IsAppend(queue'[i], w) =>
          /\ i + shift \in DOMAIN queue /\ IsAppend(queue[i + shift], w)
          /\ queue'[i].fix = queue[i + shift].fix /\ i \in Nat
    BY DEF SameCommands, IsAppend
  <2>4. \A i \in DOMAIN queue' : IsAppend(queue'[i], w) =>
         /\ queue'[i].fix \in handed'[w] /\ room'[w].state # "closed"
         /\ \A f \in room'[w].fixes : f.client_seq < queue'[i].fix.client_seq
         /\ \A j \in DOMAIN queue' : IsAppend(queue'[j], w) /\ i < j =>
              queue'[i].fix.client_seq < queue'[j].fix.client_seq
    BY <2>1, <2>3 DEF Stored, SameWalk
  <2>5. \A f \in handed'[w] :
         \/ f \in room'[w].fixes \/ LostOf(w)' # {} \/ w \in died'
         \/ \E i \in DOMAIN queue' : IsAppend(queue'[i], w) /\ queue'[i].fix = f
    BY <2>1, <2>2 DEF Stored, SameWalk
  <2> QED
    BY <2>1, <2>4, <2>5 DEF Stored, SameWalk, IsAppend
<1>8. Closes(w)'
  <2>1. Closes(w)
    BY DEF WalkOK
  <2>2. \A i, j \in DOMAIN queue' :
          queue'[i] = Plain("close", w) /\ IsAppend(queue'[j], w) => j < i
    BY <1>5, <2>1 DEF Closes, SameCommands, IsAppend
  <2>3. (\E i \in DOMAIN queue' : queue'[i] = Plain("close", w)) =>
           \E i \in DOMAIN queue : queue[i] = Plain("close", w)
    BY <1>5 DEF SameCommands
  <2>4. (\E i \in DOMAIN queue :
           /\ queue[i] = Plain("open", w)
           /\ \A j \in DOMAIN queue : queue[j] = Plain("close", w) => i < j) =>
         \E i \in DOMAIN queue' :
           /\ queue'[i] = Plain("open", w)
           /\ \A j \in DOMAIN queue' : queue'[j] = Plain("close", w) => i < j
    <3> SUFFICES ASSUME NEW i \in DOMAIN queue, queue[i] = Plain("open", w),
                        \A j \in DOMAIN queue : queue[j] = Plain("close", w) => i < j
                 PROVE  \E k \in DOMAIN queue' :
                          /\ queue'[k] = Plain("open", w)
                          /\ \A j \in DOMAIN queue' : queue'[j] = Plain("close", w) => k < j
      OBVIOUS
    <3>1. i - shift \in DOMAIN queue' /\ queue'[i - shift] = Plain("open", w) /\ i \in Nat
      BY <1>5 DEF SameCommands
    <3>2. \A j \in DOMAIN queue' : queue'[j] = Plain("close", w) => i - shift < j
      BY <1>5 DEF SameCommands
    <3> QED
      BY <3>1, <3>2
  <2> QED
    BY <2>1, <2>2, <2>3, <2>4 DEF Closes, SameWalk
<1>9. Stops(w)'
  <2>1. Stops(w)
    BY DEF WalkOK
  <2>2. (\E i \in DOMAIN queue : queue[i] = Plain("close", w)) =>
           \E i \in DOMAIN queue' : queue'[i] = Plain("close", w)
    BY <1>5 DEF SameCommands
  <2>3. stopping'[w] = "launched" => \A i \in DOMAIN queue' : queue'[i] # Plain("barrier", w)
    BY <1>5, <2>1 DEF Stops, SameCommands, SameWalk
  <2>4. \A i, j \in DOMAIN queue' :
          queue'[i] = Plain("barrier", w) /\ queue'[j] = Plain("barrier", w) => i = j
    BY <1>5, <2>1 DEF Stops, SameCommands
  <2>5. stopping'[w] = "flushing" =>
         \E i \in DOMAIN queue' :
           /\ queue'[i] = Plain("barrier", w)
           /\ \A k \in DOMAIN queue' : queue'[k].walk = w => k <= i
    <3> SUFFICES ASSUME stopping'[w] = "flushing"
                 PROVE  \E i \in DOMAIN queue' :
                          /\ queue'[i] = Plain("barrier", w)
                          /\ \A k \in DOMAIN queue' : queue'[k].walk = w => k <= i
      OBVIOUS
    <3>1. PICK i \in DOMAIN queue : /\ queue[i] = Plain("barrier", w)
                                    /\ \A k \in DOMAIN queue : queue[k].walk = w => k <= i
      BY <2>1 DEF Stops, SameWalk
    <3>2. i - shift \in DOMAIN queue' /\ queue'[i - shift] = Plain("barrier", w) /\ i \in Nat
      BY <1>5, <3>1 DEF SameCommands
    <3>3. \A k \in DOMAIN queue' : queue'[k].walk = w => k <= i - shift
      BY <3>1, <3>2 DEF SameCommands
    <3> QED
      BY <3>2, <3>3
  <2>6. stopping'[w] = "flushed" => \A i \in DOMAIN queue' : queue'[i].walk # w
    BY <2>1 DEF Stops, SameCommands, SameWalk
  <2> QED
    BY <2>1, <2>2, <2>3, <2>4, <2>5, <2>6 DEF Stops, SameWalk
<1> QED
  BY <1>1, <1>2, <1>4, <1>6, <1>7, <1>8, <1>9 DEF WalkOK

LEMMA QueueIndices ==
    ASSUME Types
    PROVE  /\ DOMAIN queue = 1 .. Len(queue) /\ Len(queue) \in Nat
           /\ \A i \in DOMAIN queue : i \in Nat /\ i >= 1 /\ queue[i] \in Queued
  BY LenProperties, ElementOfSeq DEF Types

LEMMA SameWhenLonger ==
    ASSUME NEW n, NEW c, Longer(n, c), NEW w, c.walk # w
    PROVE  SameCommands(w, 0)
  BY DEF Longer, SameCommands

LEMMA SameWhenShorter ==
    ASSUME Shorter, NEW w, queue[1].walk # w
    PROVE  SameCommands(w, 1)
<1>1. \A i \in DOMAIN queue : i \in Nat /\ (queue[i].walk = w => i # 1)
  BY DEF Shorter
<1> QED
  BY <1>1 DEF Shorter, SameCommands

LEMMA SameWhenSame ==
    ASSUME Types, UNCHANGED queue, NEW w
    PROVE  SameCommands(w, 0)
  BY QueueIndices DEF SameCommands

------------------------------------------------------------------------------
\* The flow of positions

LEMMA BufferView ==
    ASSUME Types
    PROVE  /\ DOMAIN buffer = 1 .. Len(buffer) /\ Len(buffer) \in Nat
           /\ \A i \in DOMAIN buffer : i \in Nat /\ buffer[i] \in Position
           /\ buffer # <<>> =>
                /\ Tail(buffer) \in Seq(Position) /\ Len(Tail(buffer)) <= Buffer
                /\ 1 \in DOMAIN buffer /\ Head(buffer) = buffer[1]
                /\ \A i \in DOMAIN Tail(buffer) :
                     i \in Nat /\ i >= 1 /\ i + 1 \in DOMAIN buffer /\ Tail(buffer)[i] = buffer[i + 1]
<1>1. buffer \in Seq(Position) /\ Len(buffer) <= Buffer /\ Buffer \in Nat
  BY BoundsAssumption DEF Types, TypeOK
<1>2. /\ DOMAIN buffer = 1 .. Len(buffer) /\ Len(buffer) \in Nat
      /\ \A i \in DOMAIN buffer : i \in Nat /\ buffer[i] \in Position
  BY <1>1, LenProperties, ElementOfSeq
<1>3. ASSUME buffer # <<>>
      PROVE  /\ Tail(buffer) \in Seq(Position) /\ Len(Tail(buffer)) = Len(buffer) - 1 /\ Len(buffer) # 0
             /\ Head(buffer) = buffer[1] /\ \A i \in 1 .. Len(Tail(buffer)) : Tail(buffer)[i] = buffer[i + 1]
             /\ DOMAIN Tail(buffer) = 1 .. Len(Tail(buffer))
  BY <1>1, <1>3, HeadTailProperties, EmptySeq, LenProperties
<1> QED
  BY <1>1, <1>2, <1>3

\* What is left of the buffer when a position was taken.
LEMMA TakenKeepsOrder ==
    ASSUME Types, Buffered, buffer # <<>>, buffer' = Tail(buffer),
           UNCHANGED <<samples, begun, current, resumes>>
    PROVE  Buffered'
<1>1. \A i \in DOMAIN buffer' :
         i \in Nat /\ i >= 1 /\ i + 1 \in DOMAIN buffer /\ buffer'[i] = buffer[i + 1]
  BY BufferView
<1> QED
  BY <1>1 DEF Buffered

LEMMA EmittedKeepsOrder ==
    ASSUME Types, Buffered, Emit, current # None => current \in begun
    PROVE  /\ Buffered' /\ buffer' \in Seq(Position) /\ Len(buffer') <= Buffer
           /\ \A i \in DOMAIN buffer' :
                /\ buffer'[i].n \in Nat
                /\ buffer'[i].n >= samples \/ \E j \in DOMAIN buffer : buffer'[i].n = buffer[j].n
<1> DEFINE new == [n |-> samples, walk |-> current, leg |-> resumes]
           m == Len(buffer) + 1
<1>1. /\ buffer' = Append(buffer, new) /\ samples' = samples + 1 /\ Len(buffer) < Buffer
      /\ UNCHANGED <<begun, current, resumes>>
  BY DEF Emit
<1>2. samples \in Nat /\ resumes \in Nat /\ current \in Walks \union {None} /\ buffer \in Seq(Position)
      /\ Buffer \in Nat
  BY BoundsAssumption DEF Types, TypeOK
<1>3. new \in Position
  BY <1>2 DEF Position, Jobs
<1>4. new.n = samples /\ new.walk = current /\ new.leg = resumes
  OBVIOUS
<1> HIDE DEF new
<1>5. /\ buffer' \in Seq(Position) /\ Len(buffer') = m /\ DOMAIN buffer' = 1 .. m
      /\ DOMAIN buffer = 1 .. Len(buffer) /\ Len(buffer) \in Nat
      /\ \A i \in 1 .. Len(buffer) : buffer'[i] = buffer[i]
      /\ buffer'[m] = new
  BY <1>1, <1>2, <1>3, AppendProperties, LenProperties
<1>6. \A i \in DOMAIN buffer : buffer[i] \in Position
  BY BufferView
<1>8. Buffered'
  BY <1>1, <1>2, <1>3, <1>4, <1>5, <1>6, SMTT(30) DEF Buffered, Position
<1> QED
  BY <1>1, <1>2, <1>3, <1>4, <1>5, <1>6, <1>8 DEF Position

------------------------------------------------------------------------------
\* The steps that neither write, hand over, start nor stop anything

LEMMA QuietKeeps ==
    ASSUME RecordingInv, Types', Buffered',
           UNCHANGED <<queue, room, handed, lost, begun, current, nextClientSeq, stopping, sent, died>>,
           samples <= samples', chainIndex <= chainIndex',
           \A i \in DOMAIN buffer' :
             /\ buffer'[i].n \in Nat
             /\ buffer'[i].n >= samples \/ \E j \in DOMAIN buffer : buffer'[i].n = buffer[j].n
    PROVE  RecordingInv'
<1>1. samples \in Nat /\ samples' \in Nat /\ chainIndex \in Nat /\ chainIndex' \in Nat
  BY DEF RecordingInv, Types, TypeOK
<1>2. ASSUME NEW w \in Walks
      PROVE  WalkOK(w)'
  <2>1. SameCommands(w, 0)
    BY SameWhenSame DEF RecordingInv
  <2>2. SameWalk(w)
    BY <1>1 DEF SameWalk, LostOf
  <2>3. WalkOK(w)
    BY DEF RecordingInv
  <2> QED
    BY <2>1, <2>2, <2>3, Aside DEF RecordingInv, Types
<1>3. NoWalkStops'
  BY DEF RecordingInv, NoWalkStops
<1> QED
  BY <1>2, <1>3 DEF RecordingInv

LEMMA EmitKeeps == ASSUME RecordingInv, Emit PROVE RecordingInv'
<1>1. current # None => current \in begun
  BY DEF RecordingInv, Types, TypeOK, WalkOK, Fresh
<1>2. /\ Buffered' /\ buffer' \in Seq(Position) /\ Len(buffer') <= Buffer
      /\ \A i \in DOMAIN buffer' :
           /\ buffer'[i].n \in Nat
           /\ buffer'[i].n >= samples \/ \E j \in DOMAIN buffer : buffer'[i].n = buffer[j].n
  BY <1>1, EmittedKeepsOrder DEF RecordingInv
<1>3. samples' = samples + 1 /\ samples \in Nat /\ chainIndex \in Nat
  BY DEF Emit, RecordingInv, Types, TypeOK
<1>4. [n: Nat, walk: Walks \union {None}, leg: Nat] = Position
  BY DEF Position, Jobs
<1>5. Types'
  BY <1>2, <1>3, <1>4 DEF Emit, RecordingInv, Types, TypeOK, LostOf
<1> QED
  BY <1>2, <1>3, <1>5, QuietKeeps DEF Emit

LEMMA ServiceStepKeeps ==
    ASSUME RecordingInv,
           PauseRecording \/ ResumeRecording \/ AddToTrail \/ FeedEnds \/ NoticeFeedEnd \/ UNCHANGED vars
    PROVE  RecordingInv'
<1>1. /\ UNCHANGED <<queue, room, handed, lost, begun, current, nextClientSeq, stopping, sent, died,
                     buffer, samples>>
      /\ (UNCHANGED <<chainIndex, resumes>>) \/ ResumeRecording
  BY DEF PauseRecording, ResumeRecording, AddToTrail, FeedEnds, NoticeFeedEnd, vars, service
<1>2. chainIndex \in Nat /\ resumes \in Nat /\ MaxResumes \in Nat /\ samples \in Nat
  BY BoundsAssumption DEF RecordingInv, Types, TypeOK
<1>3. /\ chainIndex <= chainIndex' /\ resumes <= resumes' /\ chainIndex' = resumes'
      /\ resumes' \in 0 .. MaxResumes /\ resumes' \in Nat
  BY <1>1, <1>2 DEF ResumeRecording, NextChain, RecordingInv, Types, TypeOK
<1>4. /\ recorder' \in States /\ shown' \in States /\ adding' \in States \union {None}
      /\ feed' \in {"idle", "running", "failed", "completed"}
  BY DEF PauseRecording, ResumeRecording, AddToTrail, FeedEnds, NoticeFeedEnd, vars, service,
         RecordingInv, Types, TypeOK, States
<1>5. TypeOK'
  BY <1>1, <1>3, <1>4 DEF RecordingInv, Types, TypeOK
<1>6. Types'
  BY <1>1, <1>3, <1>5 DEF RecordingInv, Types
<1>7. \A i \in DOMAIN buffer : buffer[i].n \in Nat /\ buffer[i].leg \in Nat
  BY BufferView DEF Position, RecordingInv
<1>8. Buffered'
  BY <1>1, <1>2, <1>3, <1>7 DEF RecordingInv, Buffered
<1> QED
  BY <1>1, <1>2, <1>3, <1>6, <1>7, <1>8, QuietKeeps

------------------------------------------------------------------------------
\* Starting and stopping

LEMMA NoWalkStopsStays ==
    ASSUME NoWalkStops, stopping'[None] = stopping[None],
           (UNCHANGED queue) \/ \E n, c : Longer(n, c)
    PROVE  NoWalkStops'
  BY DEF NoWalkStops, Longer

LEMMA CommandsTyped ==
    /\ \A w \in Walks : Plain("open", w) \in Queued /\ Plain("close", w) \in Queued
    /\ \A w \in Jobs : Plain("barrier", w) \in Queued
    /\ \A w \in Walks, f \in Fixes : [op |-> "append", walk |-> w, fix |-> f] \in Queued
  BY DEF Plain, Queued, Jobs

LEMMA QueuedWalks ==
    ASSUME NEW q \in Seq(Queued)
    PROVE  \A i \in DOMAIN q : q[i].walk \in Jobs
<1>1. \A c \in Queued : c.walk \in Jobs
  BY DEF Queued, Jobs
<1> QED
  BY <1>1, ElementOfSeq, LenProperties

LEMMA StartKeeps ==
    ASSUME RecordingInv, NEW w \in Walks, StartRecording(w)
    PROVE  RecordingInv'
<1>1. /\ w \notin begun /\ begun' = begun \union {w} /\ current' = w /\ nextClientSeq' = 0
      /\ chainIndex' = 0 /\ resumes' = 0 /\ Enqueue(Plain("open", w))
      /\ UNCHANGED <<buffer, adding, stopping, room, samples, handed, lost, sent, died>>
      /\ recorder' = "RECORDING" /\ shown' = "RECORDING" /\ feed' = "running"
  BY DEF StartRecording, FreshCounters
<1>2. queue' \in Seq(Queued) /\ \E n \in Nat : Longer(n, Plain("open", w))
  BY <1>1, EnqueueView, CommandsTyped DEF RecordingInv, Types
<1>3. PICK n \in Nat : Longer(n, Plain("open", w))
  BY <1>2
<1>4. WalkOK(w) /\ Fresh(w)
  BY DEF RecordingInv, WalkOK
<1>5. Types'
  <2>1. \A i \in DOMAIN queue' : queue'[i].walk \in Jobs
    BY <1>2, QueuedWalks
  <2>2. TypeOK'
    BY <1>1, <2>1, BoundsAssumption DEF RecordingInv, Types, TypeOK, States
  <2> QED
    BY <1>1, <1>2, <2>2 DEF RecordingInv, Types
<1>6. Buffered'
  BY <1>1, BoundsAssumption DEF RecordingInv, Buffered
<1>7. NoWalkStops'
  BY <1>1, <1>3, NoWalkStopsStays DEF RecordingInv
<1>8. ASSUME NEW v \in Walks \ {w}
      PROVE  WalkOK(v)'
  <2>1. SameCommands(v, 0)
    BY <1>3, SameWhenLonger, PlainParts
  <2>2. SameWalk(v)
    BY <1>1 DEF SameWalk, LostOf, RecordingInv, Types
  <2> QED
    BY <2>1, <2>2, Aside DEF RecordingInv, Types
<1>9. /\ handed[w] = {} /\ room[w] = NoRow /\ stopping[w] = "none"
      /\ \A i \in DOMAIN queue : queue[i].walk # w
      /\ w \notin died
  BY <1>1, <1>4 DEF Fresh, WalkOK, Dead
<1>10. /\ room[w].state = "none" /\ room[w].fixes = {}
  BY <1>9 DEF NoRow
<1>11. \A i \in DOMAIN queue' : queue'[i].walk = w => i = n /\ queue'[i] = Plain("open", w)
  BY <1>3, <1>9 DEF Longer
<1>12. \A i \in DOMAIN queue' :
         queue'[i] # Plain("close", w) /\ queue'[i] # Plain("barrier", w) /\ ~IsAppend(queue'[i], w)
  BY <1>11, PlainParts DEF IsAppend
<1>13. n \in DOMAIN queue' /\ queue'[n] = Plain("open", w)
  BY <1>3 DEF Longer
<1>14. Fresh(w)' /\ Dead(w)'
  BY <1>1, <1>9 DEF Fresh, Dead
<1>15. Numbers(w)'
  BY <1>1, <1>9 DEF Numbers
<1>16. GoesOn(w)'
  BY <1>1, <1>9, <1>10, <1>12 DEF GoesOn
<1>17. Stored(w)'
  BY <1>1, <1>9, <1>10, <1>12, FS_EmptySet DEF Stored
<1>18. Closes(w)'
  BY <1>12, <1>13 DEF Closes
<1>19. Stops(w)'
  BY <1>1, <1>9, <1>12 DEF Stops
<1>20. WalkOK(w)'
  BY <1>14, <1>15, <1>16, <1>17, <1>18, <1>19 DEF WalkOK
<1> QED
  BY <1>5, <1>6, <1>7, <1>8, <1>20 DEF RecordingInv

\* A command of the walk itself joins the queue: what the ones before it say
\* of the walk stays true.
LEMMA BehindTheRest ==
    ASSUME NEW w \in Walks, NEW n, NEW c, Longer(n, c), WalkOK(w),
           c.op # "append", LostOf(w)' = LostOf(w), UNCHANGED <<room, handed, died>>
    PROVE  Stored(w)'
<1>1. \A i \in DOMAIN queue' : IsAppend(queue'[i], w) =>
        i \in DOMAIN queue /\ i \in Nat /\ queue'[i] = queue[i] /\ IsAppend(queue[i], w)
  BY DEF Longer, IsAppend
<1>2. \A f : (\E i \in DOMAIN queue : IsAppend(queue[i], w) /\ queue[i].fix = f) =>
              \E i \in DOMAIN queue' : IsAppend(queue'[i], w) /\ queue'[i].fix = f
  BY DEF Longer, IsAppend
<1>3. Stored(w)
  BY DEF WalkOK
<1>4. \A f \in handed'[w] :
         \/ f \in room'[w].fixes \/ LostOf(w)' # {} \/ w \in died'
         \/ \E i \in DOMAIN queue' : IsAppend(queue'[i], w) /\ queue'[i].fix = f
  BY <1>2, <1>3 DEF Stored
<1>5. \A i \in DOMAIN queue' : IsAppend(queue'[i], w) =>
         /\ queue'[i].fix \in handed'[w] /\ room'[w].state # "closed"
         /\ \A f \in room'[w].fixes : f.client_seq < queue'[i].fix.client_seq
         /\ \A j \in DOMAIN queue' : IsAppend(queue'[j], w) /\ i < j =>
              queue'[i].fix.client_seq < queue'[j].fix.client_seq
  BY <1>1, <1>3 DEF Stored
<1> QED
  BY <1>3, <1>4, <1>5 DEF Stored

LEMMA StopKeeps == ASSUME RecordingInv, StopRecording PROVE RecordingInv'
<1> DEFINE w == current
<1>1. /\ stopping' = [stopping EXCEPT ![w] = "launched"] /\ current' = None
      /\ IF current = None THEN UNCHANGED queue ELSE Enqueue(Plain("close", w))
      /\ recorder' = "OFF" /\ shown' = "OFF" /\ feed' = "idle"
      /\ UNCHANGED <<nextClientSeq, chainIndex, resumes, buffer, adding, room, samples, begun,
                     handed, lost, sent, died>>
  BY DEF StopRecording, SessionGivenUp
<1>2. w \in Jobs /\ None \notin Walks /\ Jobs = Walks \union {None}
      /\ stopping \in [Jobs -> {"none", "launched", "flushing", "flushed", "sending"}]
  BY BoundsAssumption DEF RecordingInv, Types, TypeOK, Jobs
<1>3. stopping'[w] = "launched" /\ \A v \in Jobs \ {w} : stopping'[v] = stopping[v]
  BY <1>1, <1>2
<1>4. w # None => w \in Walks /\ Plain("close", w) \in Queued
  BY <1>2, CommandsTyped
<1>5. /\ queue' \in Seq(Queued)
      /\ w # None => \E n \in Nat : Longer(n, Plain("close", w))
  BY <1>1, <1>4, EnqueueView DEF RecordingInv, Types
<1>6. Types'
  <2>1. \A i \in DOMAIN queue' : queue'[i].walk \in Jobs
    BY <1>5, QueuedWalks
  <2>2. TypeOK'
    BY <1>1, <1>2, <2>1 DEF RecordingInv, Types, TypeOK, States
  <2> QED
    BY <1>1, <1>5, <2>2 DEF RecordingInv, Types
<1>7. Buffered'
  BY <1>1 DEF RecordingInv, Buffered
<1>8. NoWalkStops'
  <2>1. CASE w = None
    BY <1>3, <2>1 DEF NoWalkStops
  <2>2. CASE w # None
    BY <1>2, <1>3, <1>5, <2>2, NoWalkStopsStays DEF RecordingInv
  <2> QED
    BY <2>1, <2>2
<1>9. ASSUME NEW v \in Walks, v # w
      PROVE  WalkOK(v)'
  <2>1. SameCommands(v, 0)
    <3>1. CASE w = None
      BY <1>1, <3>1, SameWhenSame DEF RecordingInv
    <3>2. CASE w # None
      BY <1>5, <1>9, <3>2, SameWhenLonger, PlainParts
    <3> QED
      BY <3>1, <3>2
  <2>2. SameWalk(v)
    BY <1>1, <1>2, <1>3, <1>9 DEF SameWalk, LostOf, RecordingInv, Types
  <2> QED
    BY <2>1, <2>2, Aside DEF RecordingInv, Types
<1>10. ASSUME NEW u \in Walks, u = w
       PROVE  WalkOK(u)'
  <2>1. w # None
    BY <1>2, <1>10
  <2>2. PICK n \in Nat : Longer(n, Plain("close", w))
    BY <1>5, <2>1
  <2>4. /\ WalkOK(u) /\ Fresh(u) /\ Dead(u) /\ Numbers(u) /\ GoesOn(u) /\ Closes(u) /\ Stops(u)
        /\ current = u /\ Longer(n, Plain("close", u)) /\ stopping'[u] = "launched"
        /\ u # None
    BY <1>3, <1>10, <2>1, <2>2 DEF RecordingInv, WalkOK
  <2>5. u \in begun /\ u \notin died
    BY <2>4 DEF Fresh, Dead
  <2>6. \A op : Plain(op, u).op = op
    BY PlainParts
  <2>7. \A i \in DOMAIN queue' : i = n \/ (i \in DOMAIN queue /\ queue'[i] = queue[i] /\ i < n /\ i \in Nat)
    BY <2>4 DEF Longer
  <2>8. n \in DOMAIN queue' /\ queue'[n] = Plain("close", u)
    BY <2>4 DEF Longer
  <2>9. \A i \in DOMAIN queue : i \in DOMAIN queue' /\ queue'[i] = queue[i] /\ i < n
    BY <2>4 DEF Longer
  <2>10. /\ \A i \in DOMAIN queue : queue[i] # Plain("close", u) /\ queue[i] # Plain("barrier", u)
         /\ room[u].state # "closed"
    BY <2>4 DEF GoesOn
  <2>11. Fresh(u)' /\ Dead(u)'
    BY <1>1, <2>5 DEF Fresh, Dead
  <2>12. Numbers(u)'
    BY <1>1, <2>4 DEF Numbers
  <2>13. GoesOn(u)'
    BY <1>1, <2>4 DEF GoesOn
  <2>14. Stored(u)'
    BY <1>1, <2>4, <2>6, BehindTheRest DEF LostOf
  <2>15. Closes(u)'
    <3>1. \A i, j \in DOMAIN queue' :
            queue'[i] = Plain("close", u) /\ IsAppend(queue'[j], u) => j < i
      BY <2>6, <2>7, <2>10 DEF IsAppend
    <3>2. (\E i \in DOMAIN queue :
             /\ queue[i] = Plain("open", u)
             /\ \A j \in DOMAIN queue : queue[j] = Plain("close", u) => i < j) =>
          \E i \in DOMAIN queue' :
             /\ queue'[i] = Plain("open", u)
             /\ \A j \in DOMAIN queue' : queue'[j] = Plain("close", u) => i < j
      BY <2>7, <2>9, <2>10
    <3>3. LostOf(u)' = LostOf(u)
      BY <1>1 DEF LostOf
    <3> QED
      BY <1>1, <2>4, <3>1, <3>2, <3>3 DEF Closes
  <2>16. Stops(u)'
    <3>1. \A i \in DOMAIN queue' : queue'[i] # Plain("barrier", u)
      BY <2>6, <2>7, <2>8, <2>10
    <3> QED
      BY <2>4, <2>8, <3>1 DEF Stops
  <2> QED
    BY <2>11, <2>12, <2>13, <2>14, <2>15, <2>16 DEF WalkOK
<1>11. \A v \in Walks : WalkOK(v)'
  BY <1>9, <1>10
<1> QED
  BY <1>6, <1>7, <1>8, <1>11 DEF RecordingInv

LEMMA FlushKeeps ==
    ASSUME RecordingInv, NEW w \in Jobs, Flush(w)
    PROVE  RecordingInv'
<1>1. /\ stopping[w] = "launched" /\ stopping' = [stopping EXCEPT ![w] = "flushing"]
      /\ Enqueue(Plain("barrier", w))
      /\ UNCHANGED <<recorder, current, nextClientSeq, chainIndex, resumes, feed, buffer, adding, shown,
                     room, samples, begun, handed, lost, sent, died>>
  BY DEF Flush
<1>2. /\ None \notin Walks /\ Jobs = Walks \union {None}
      /\ stopping \in [Jobs -> {"none", "launched", "flushing", "flushed", "sending"}]
  BY BoundsAssumption DEF RecordingInv, Types, TypeOK, Jobs
<1>3. stopping'[w] = "flushing" /\ \A v \in Jobs \ {w} : stopping'[v] = stopping[v]
  BY <1>1, <1>2
<1>4. queue' \in Seq(Queued) /\ \E n \in Nat : Longer(n, Plain("barrier", w))
  BY <1>1, EnqueueView, CommandsTyped DEF RecordingInv, Types
<1>5. PICK n \in Nat : Longer(n, Plain("barrier", w))
  BY <1>4
<1>6. Types'
  <2>1. \A i \in DOMAIN queue' : queue'[i].walk \in Jobs
    BY <1>4, QueuedWalks
  <2>2. TypeOK'
    BY <1>1, <1>2, <2>1 DEF RecordingInv, Types, TypeOK
  <2> QED
    BY <1>1, <1>4, <2>2 DEF RecordingInv, Types
<1>7. Buffered'
  BY <1>1 DEF RecordingInv, Buffered
<1>8. NoWalkStops'
  <2>1. CASE w = None
    BY <1>5, <2>1 DEF NoWalkStops, Longer
  <2>2. CASE w # None
    BY <1>2, <1>3, <1>5, <2>2, NoWalkStopsStays DEF RecordingInv
  <2> QED
    BY <2>1, <2>2
<1>9. ASSUME NEW v \in Walks, v # w
      PROVE  WalkOK(v)'
  <2>1. SameCommands(v, 0)
    BY <1>5, <1>9, SameWhenLonger, PlainParts
  <2>2. SameWalk(v)
    <3>1. /\ samples \in Nat /\ chainIndex \in Nat
          /\ \A i \in DOMAIN buffer : buffer[i].n \in Nat
      BY BufferView, SMTT(30) DEF RecordingInv, Types, TypeOK, Position
    <3> QED
      BY <1>1, <1>2, <1>3, <1>9, <3>1 DEF SameWalk, LostOf
  <2> QED
    BY <2>1, <2>2, Aside DEF RecordingInv, Types
<1>10. ASSUME w \in Walks
       PROVE  WalkOK(w)'
  <2>1. /\ WalkOK(w) /\ Fresh(w) /\ Dead(w) /\ Numbers(w) /\ GoesOn(w) /\ Closes(w) /\ Stops(w)
    BY <1>10 DEF RecordingInv, WalkOK
  <2>2. w \in begun /\ w \notin died /\ current # w
    BY <1>1, <2>1 DEF Fresh, Dead, GoesOn
  <2>3. \A op : Plain(op, w).op = op /\ Plain(op, w).walk = w
    BY PlainParts
  <2>4. \A i \in DOMAIN queue' : i = n \/ (i \in DOMAIN queue /\ queue'[i] = queue[i] /\ i < n /\ i \in Nat)
    BY <1>5 DEF Longer
  <2>5. n \in DOMAIN queue' /\ queue'[n] = Plain("barrier", w)
    BY <1>5 DEF Longer
  <2>6. \A i \in DOMAIN queue : i \in DOMAIN queue' /\ queue'[i] = queue[i] /\ i < n
    BY <1>5 DEF Longer
  <2>7. Fresh(w)' /\ Dead(w)' /\ GoesOn(w)'
    BY <1>1, <2>2 DEF Fresh, Dead, GoesOn
  <2>8. Numbers(w)'
    BY <1>1, <2>1 DEF Numbers
  <2>9. Stored(w)'
    BY <1>1, <1>5, <1>10, <2>1, <2>3, BehindTheRest DEF LostOf
  <2>10. LostOf(w)' = LostOf(w)
    BY <1>1 DEF LostOf
  <2>11. Closes(w)'
    <3>1. \A i, j \in DOMAIN queue' :
            queue'[i] = Plain("close", w) /\ IsAppend(queue'[j], w) => j < i
      BY <2>1, <2>3, <2>4, <2>5 DEF IsAppend, Closes
    <3>2. (\E i \in DOMAIN queue :
             /\ queue[i] = Plain("open", w)
             /\ \A j \in DOMAIN queue : queue[j] = Plain("close", w) => i < j) =>
          \E i \in DOMAIN queue' :
             /\ queue'[i] = Plain("open", w)
             /\ \A j \in DOMAIN queue' : queue'[j] = Plain("close", w) => i < j
      BY <2>3, <2>4, <2>5, <2>6
    <3>3. (\E i \in DOMAIN queue' : queue'[i] = Plain("close", w)) =>
             \E i \in DOMAIN queue : queue[i] = Plain("close", w)
      BY <2>3, <2>4, <2>5
    <3> QED
      BY <1>1, <2>1, <2>2, <2>10, <3>1, <3>2, <3>3 DEF Closes
  <2>12. Stops(w)'
    <3>1. (\E i \in DOMAIN queue : queue[i] = Plain("close", w)) =>
             \E i \in DOMAIN queue' : queue'[i] = Plain("close", w)
      BY <2>6
    <3>2. \A i \in DOMAIN queue : queue[i] # Plain("barrier", w)
      BY <1>1, <2>1 DEF Stops
    <3>3. \A i, j \in DOMAIN queue' :
            queue'[i] = Plain("barrier", w) /\ queue'[j] = Plain("barrier", w) => i = j
      BY <2>4, <3>2
    <3>4. \E i \in DOMAIN queue' :
            /\ queue'[i] = Plain("barrier", w)
            /\ \A k \in DOMAIN queue' : queue'[k].walk = w => k <= i
      BY <2>4, <2>5
    <3>5. LostOf(w) # {} \/ room[w].state = "closed" \/ \E i \in DOMAIN queue : queue[i] = Plain("close", w)
      BY <1>1, <2>1 DEF Stops
    <3> QED
      BY <1>1, <1>3, <2>10, <3>1, <3>3, <3>4, <3>5 DEF Stops
  <2> QED
    BY <2>7, <2>8, <2>9, <2>11, <2>12 DEF WalkOK
<1>11. \A v \in Walks : WalkOK(v)'
  BY <1>9, <1>10
<1> QED
  BY <1>6, <1>7, <1>8, <1>11 DEF RecordingInv

------------------------------------------------------------------------------
\* A position is handed to the writer

LEMMA AcceptKeeps == ASSUME RecordingInv, AcceptLocation PROVE RecordingInv'
<1> DEFINE fix == [client_seq |-> nextClientSeq, chain |-> chainIndex, sample |-> Head(buffer)]
           command == [op |-> "append", walk |-> current, fix |-> fix]
<1>1. /\ buffer # <<>> /\ buffer' = Tail(buffer) /\ adding' = recorder
      /\ UNCHANGED <<recorder, current, chainIndex, resumes, feed, stopping, shown, room, samples,
                     begun, lost, sent, died>>
      /\ current = None => UNCHANGED <<nextClientSeq, queue, handed>>
      /\ current # None => /\ nextClientSeq' = nextClientSeq + 1 /\ Enqueue(command)
                            /\ handed' = [handed EXCEPT ![current] = @ \union {fix}]
  BY DEF AcceptLocation
<1>2. /\ None \notin Walks /\ current \in Walks \union {None}
      /\ nextClientSeq \in Nat /\ chainIndex \in Nat /\ samples \in Nat
  BY BoundsAssumption DEF RecordingInv, Types, TypeOK
<1>3. /\ buffer[1] \in Position /\ 1 \in DOMAIN buffer /\ Head(buffer) = buffer[1]
      /\ buffer' \in Seq(Position) /\ Len(buffer') <= Buffer
      /\ \A i \in DOMAIN buffer' :
           i \in Nat /\ i >= 1 /\ i + 1 \in DOMAIN buffer /\ buffer'[i] = buffer[i + 1]
      /\ \A i \in DOMAIN buffer : buffer[i].n \in Nat
  BY <1>1, BufferView DEF RecordingInv, Position
<1>4. fix \in Fixes /\ fix.client_seq = nextClientSeq /\ fix.chain = chainIndex /\ fix.sample = buffer[1]
  BY <1>2, <1>3 DEF Fixes
<1>5. command.op = "append" /\ command.walk = current /\ command.fix = fix
  OBVIOUS
<1>6. current # None => command \in Queued
  BY <1>2, <1>4, CommandsTyped
<1> HIDE DEF fix, command
<1>7. /\ queue' \in Seq(Queued)
      /\ current # None => \E n \in Nat : Longer(n, command)
  BY <1>1, <1>6, EnqueueView DEF RecordingInv, Types
<1>8. handed' \in [Walks -> SUBSET Fixes] /\ nextClientSeq' \in Nat
  <2>1. handed \in [Walks -> SUBSET Fixes]
    BY DEF RecordingInv, Types
  <2>2. CASE current = None
    BY <1>1, <1>2, <2>1, <2>2
  <2>3. CASE current # None
    <3>1. current \in Walks /\ handed[current] \union {fix} \in SUBSET Fixes
      BY <1>2, <1>4, <2>1, <2>3
    <3> QED
      BY <1>1, <1>2, <2>1, <2>3, <3>1
  <2> QED
    BY <2>2, <2>3
<1>9. Types'
  <2>1. \A i \in DOMAIN queue' : queue'[i].walk \in Jobs
    BY <1>7, QueuedWalks
  <2>2. [n: Nat, walk: Walks \union {None}, leg: Nat] = Position
    BY DEF Position, Jobs
  <2>3. TypeOK'
    BY <1>1, <1>3, <1>8, <2>1, <2>2 DEF RecordingInv, Types, TypeOK
  <2> QED
    BY <1>1, <1>3, <1>7, <1>8, <2>3 DEF RecordingInv, Types
<1>10. Buffered'
  BY <1>1, TakenKeepsOrder DEF RecordingInv
<1>11. NoWalkStops'
  BY <1>1, <1>7, NoWalkStopsStays DEF RecordingInv
<1>12. ASSUME NEW v \in Walks, v # current
       PROVE  WalkOK(v)'
  <2>1. SameCommands(v, 0)
    <3>1. CASE current = None
      BY <1>1, <3>1, SameWhenSame DEF RecordingInv
    <3>2. CASE current # None
      BY <1>5, <1>7, <1>12, <3>2, SameWhenLonger
    <3> QED
      BY <3>1, <3>2
  <2>2. handed'[v] = handed[v]
    BY <1>1, <1>2, <1>12 DEF RecordingInv, Types
  <2>3. SameWalk(v)
    BY <1>1, <1>2, <1>12, <2>2 DEF SameWalk, LostOf
  <2> QED
    BY <2>1, <2>3, Aside DEF RecordingInv, Types
<1>13. ASSUME NEW w \in Walks, w = current
       PROVE  WalkOK(w)'
  <2>1. current # None
    BY <1>2, <1>13
  <2>2. PICK n \in Nat : Longer(n, command)
    BY <1>7, <2>1
  <2>3. /\ WalkOK(w) /\ Fresh(w) /\ Dead(w) /\ Numbers(w) /\ GoesOn(w) /\ Stored(w) /\ Closes(w) /\ Stops(w)
        /\ handed'[w] = handed[w] \union {fix} /\ nextClientSeq' = nextClientSeq + 1
        /\ LostOf(w)' = LostOf(w) /\ handed[w] \subseteq Fixes
    BY <1>1, <1>13, <2>1 DEF RecordingInv, WalkOK, Types, LostOf
  <2>4. w \in begun /\ w \notin died
    BY <1>13, <2>3 DEF Fresh, Dead
  <2>5. /\ \A f \in handed[w] : /\ f.client_seq < nextClientSeq /\ f.chain <= chainIndex
                                 /\ f.sample.n < buffer[1].n /\ f.client_seq \in Nat
        /\ \A m \in Nat : m < nextClientSeq => \E g \in handed[w] : g.client_seq = m
        /\ stopping[w] = "none" /\ room[w].state # "closed"
        /\ \A i \in DOMAIN queue : queue[i] # Plain("close", w) /\ queue[i] # Plain("barrier", w)
    BY <1>3, <1>13, <2>3 DEF GoesOn, Fixes
  <2>6. /\ buffer[1].n < samples
        /\ buffer[1].walk = w => buffer[1].leg <= resumes
        /\ chainIndex = resumes
        /\ \A i \in DOMAIN buffer' : buffer[1].n < buffer'[i].n
    <3>1. \A i \in DOMAIN buffer' : i + 1 \in DOMAIN buffer /\ 1 < i + 1 /\ buffer'[i] = buffer[i + 1]
      BY <1>3
    <3> QED
      BY <1>3, <1>13, <2>1, <3>1 DEF RecordingInv, Buffered, Types
  <2>7. \A i \in DOMAIN queue' : i = n \/ (i \in DOMAIN queue /\ queue'[i] = queue[i] /\ i < n /\ i \in Nat)
    BY <2>2 DEF Longer
  <2>8. n \in DOMAIN queue' /\ queue'[n] = command /\ n \in Nat
    BY <2>2 DEF Longer
  <2>9. \A i \in DOMAIN queue : i \in DOMAIN queue' /\ queue'[i] = queue[i] /\ i < n /\ i \in Nat
    BY <2>2 DEF Longer
  <2>10. \A op : op # "append" => command # Plain(op, w)
    BY <1>5, PlainParts
  <2>11. Fresh(w)' /\ Dead(w)'
    BY <1>1, <2>4 DEF Fresh, Dead
  <2>12. Numbers(w)'
    <3>1. ASSUME NEW f \in handed'[w], NEW g \in handed'[w]
          PROVE  /\ f.client_seq = g.client_seq => f = g
                 /\ f.client_seq < g.client_seq => f.sample.n < g.sample.n /\ f.chain <= g.chain
      <4>1. CASE f \in handed[w] /\ g \in handed[w]
        BY <2>3, <4>1 DEF Numbers
      <4>2. CASE f \in handed[w] /\ g = fix
        BY <1>2, <1>4, <2>5, <4>2
      <4>3. CASE f = fix /\ g \in handed[w]
        BY <1>2, <1>4, <2>5, <4>3
      <4>4. CASE f = fix /\ g = fix
        BY <1>2, <1>4, <4>4
      <4> QED
        BY <2>3, <4>1, <4>2, <4>3, <4>4
    <3>2. ASSUME NEW f \in handed'[w]
          PROVE  /\ \A m \in Nat : m < f.client_seq => \E g \in handed'[w] : g.client_seq = m
                 /\ f.sample.n < samples'
                 /\ f.sample.walk = w => f.chain >= f.sample.leg
      <4>1. CASE f \in handed[w]
        BY <1>1, <2>3, <4>1 DEF Numbers
      <4>2. CASE f = fix
        BY <1>1, <1>3, <1>4, <2>3, <2>5, <2>6, <4>2 DEF Position
      <4> QED
        BY <2>3, <4>1, <4>2
    <3> QED
      BY <3>1, <3>2 DEF Numbers
  <2>13. GoesOn(w)'
    <3>1. ASSUME NEW f \in handed'[w]
          PROVE  /\ f.client_seq < nextClientSeq' /\ f.chain <= chainIndex'
                 /\ \A i \in DOMAIN buffer' : f.sample.n < buffer'[i].n
      <4>1. CASE f \in handed[w]
        <5>1. f.sample.n \in Nat
          BY <2>3, <4>1 DEF Fixes, Position
        <5> QED
          BY <1>1, <1>2, <1>3, <2>3, <2>5, <2>6, <4>1, <5>1, SMTT(30)
      <4>2. CASE f = fix
        BY <1>1, <1>2, <1>4, <2>3, <2>6, <4>2
      <4> QED
        BY <2>3, <4>1, <4>2
    <3>2. ASSUME NEW m \in Nat, m < nextClientSeq'
          PROVE  \E g \in handed'[w] : g.client_seq = m
      <4>1. CASE m < nextClientSeq
        BY <2>3, <2>5, <4>1
      <4>2. CASE m = nextClientSeq
        BY <1>4, <2>3, <4>2
      <4> QED
        BY <1>2, <2>3, <3>2, <4>1, <4>2
    <3>3. \A i \in DOMAIN queue' : queue'[i] # Plain("close", w) /\ queue'[i] # Plain("barrier", w)
      BY <2>5, <2>7, <2>8, <2>10
    <3> QED
      BY <1>1, <2>5, <3>1, <3>2, <3>3 DEF GoesOn
  <2>14. Stored(w)'
    <3>1. ASSUME NEW f \in handed'[w]
          PROVE  \/ f \in room'[w].fixes \/ LostOf(w)' # {} \/ w \in died'
                 \/ \E i \in DOMAIN queue' : IsAppend(queue'[i], w) /\ queue'[i].fix = f
      <4>1. CASE f \in handed[w]
        BY <1>1, <2>3, <2>9, <4>1 DEF Stored
      <4>2. CASE f = fix
        BY <1>5, <1>13, <2>8, <4>2 DEF IsAppend
      <4> QED
        BY <2>3, <4>1, <4>2
    <3>2. ASSUME LostOf(w)' = {}, NEW f \in room'[w].fixes, NEW g \in handed'[w],
                 g.client_seq < f.client_seq
          PROVE  g \in room'[w].fixes
      <4>1. f \in room[w].fixes /\ f \in handed[w]
        BY <1>1, <2>3 DEF Stored
      <4>2. g # fix
        BY <1>2, <1>4, <2>5, <3>2, <4>1
      <4> QED
        BY <1>1, <2>3, <3>2, <4>1, <4>2 DEF Stored
    <3>3. ASSUME NEW i \in DOMAIN queue', IsAppend(queue'[i], w)
          PROVE  /\ queue'[i].fix \in handed'[w] /\ room'[w].state # "closed"
                 /\ \A f \in room'[w].fixes : f.client_seq < queue'[i].fix.client_seq
                 /\ \A j \in DOMAIN queue' : IsAppend(queue'[j], w) /\ i < j =>
                      queue'[i].fix.client_seq < queue'[j].fix.client_seq
      <4>1. CASE i = n
        BY <1>1, <1>4, <1>5, <2>3, <2>5, <2>7, <2>8, <4>1 DEF Stored
      <4>2. CASE i # n
        <5>1. i \in DOMAIN queue /\ queue'[i] = queue[i] /\ IsAppend(queue[i], w) /\ i \in Nat
          BY <2>7, <3>3, <4>2
        <5>2. queue[i].fix \in handed[w]
          BY <2>3, <5>1 DEF Stored
        <5>3. \A j \in DOMAIN queue' : IsAppend(queue'[j], w) /\ i < j =>
                      queue'[i].fix.client_seq < queue'[j].fix.client_seq
          BY <1>4, <1>5, <2>3, <2>5, <2>7, <2>8, <5>1, <5>2 DEF Stored
        <5> QED
          BY <1>1, <2>3, <2>5, <5>1, <5>2, <5>3 DEF Stored
      <4> QED
        BY <4>1, <4>2
    <3>4. room[w].fixes \subseteq handed'[w] /\ IsFiniteSet(room[w].fixes)
          /\ (room[w].state = "none" => room[w].fixes = {})
      BY <2>3 DEF Stored
    <3> QED
      BY <1>1, <3>1, <3>2, <3>3, <3>4 DEF Stored
  <2>15. Closes(w)'
    <3>1. \A i \in DOMAIN queue' : queue'[i] # Plain("close", w)
      BY <2>5, <2>7, <2>8, <2>10
    <3>2. \/ LostOf(w) # {} \/ room[w].state # "none"
          \/ \E i \in DOMAIN queue : queue[i] = Plain("open", w)
      BY <1>13, <2>3 DEF Closes
    <3>3. \/ LostOf(w)' # {} \/ room'[w].state # "none"
          \/ \E i \in DOMAIN queue' : queue'[i] = Plain("open", w)
      BY <1>1, <2>3, <2>9, <3>2
    <3> QED
      BY <3>1, <3>3 DEF Closes
  <2>16. Stops(w)'
    <3>1. \A i \in DOMAIN queue' : queue'[i] # Plain("barrier", w)
      BY <2>5, <2>7, <2>8, <2>10
    <3> QED
      BY <1>1, <2>5, <3>1 DEF Stops
  <2> QED
    BY <2>11, <2>12, <2>13, <2>14, <2>15, <2>16 DEF WalkOK
<1>14. \A v \in Walks : WalkOK(v)'
  BY <1>12, <1>13
<1> QED
  BY <1>9, <1>10, <1>11, <1>14 DEF RecordingInv

------------------------------------------------------------------------------
\* The writer takes the next command

\* Which command of a walk it can be.
LEMMA HeadKinds ==
    ASSUME NEW c \in Queued
    PROVE  \/ c.op \in {"open", "close"} /\ c.walk \in Walks /\ c = Plain(c.op, c.walk)
           \/ c.op = "barrier" /\ c.walk \in Jobs /\ c = Plain(c.op, c.walk)
           \/ c.op = "append" /\ c.walk \in Walks /\ c.fix \in Fixes
<1>1. CASE c \in [op: {"open", "close"}, walk: Walks]
  BY <1>1 DEF Plain
<1>2. CASE c \in [op: {"barrier"}, walk: Jobs]
  BY <1>2 DEF Plain
<1>3. CASE c \in [op: {"append"}, walk: Walks, fix: Fixes]
  BY <1>3
<1> QED
  BY <1>1, <1>2, <1>3 DEF Queued

\* What the command does to the rows of its walk, and to nobody else's.
LEMMA WrittenRows ==
    ASSUME Types, NEW c \in Queued, room' = Written(c)
    PROVE  /\ room' \in [Walks -> [state: {"none", "open", "closed"}, fixes: SUBSET Fixes]]
           /\ \A v \in Walks : v # c.walk => room'[v] = room[v]
           /\ c.walk \in Walks =>
                /\ room'[c.walk].fixes =
                     IF c.op = "append" THEN room[c.walk].fixes \union {c.fix} ELSE room[c.walk].fixes
                /\ room'[c.walk].state =
                     IF c.op = "open" /\ room[c.walk].state = "none" THEN "open"
                     ELSE IF c.op = "close" /\ room[c.walk].state = "open" THEN "closed"
                     ELSE room[c.walk].state
<1> DEFINE w == c.walk
<1>1. room \in [Walks -> [state: {"none", "open", "closed"}, fixes: SUBSET Fixes]]
  BY DEF Types
<1>2. CASE c.op = "open" /\ room[w].state = "none" /\ w \in Walks
  <2>1. room' = [room EXCEPT ![w].state = "open"]
    BY <1>2 DEF Written
  <2> HIDE DEF w
  <2> QED
    BY <1>1, <1>2, <2>1 DEF w
<1>3. CASE c.op = "append" /\ w \in Walks
  <2>1. room' = [room EXCEPT ![w].fixes = @ \union {c.fix}] /\ c.fix \in Fixes
    BY <1>3, HeadKinds DEF Written
  <2> HIDE DEF w
  <2> QED
    BY <1>1, <1>3, <2>1 DEF w
<1>4. CASE c.op = "close" /\ room[w].state = "open" /\ w \in Walks
  <2>1. room' = [room EXCEPT ![w].state = "closed"]
    BY <1>4 DEF Written
  <2> HIDE DEF w
  <2> QED
    BY <1>1, <1>4, <2>1 DEF w
<1>5. CASE ~(/\ w \in Walks
             /\ \/ c.op = "open" /\ room[w].state = "none"
                \/ c.op = "append"
                \/ c.op = "close" /\ room[w].state = "open")
  <2>1. room' = room
    BY <1>5, HeadKinds DEF Written
  <2> QED
    BY <1>1, <1>5, <2>1
<1> QED
  BY <1>2, <1>3, <1>4, <1>5

\* The order of what is left of the queue.
LEMMA RestInOrder ==
    ASSUME NEW w, Shorter, Closes(w), Stops(w)
    PROVE  /\ \A i, j \in DOMAIN queue' :
                queue'[i] = Plain("close", w) /\ IsAppend(queue'[j], w) => j < i
           /\ \A i, j \in DOMAIN queue' :
                queue'[i] = Plain("barrier", w) /\ queue'[j] = Plain("barrier", w) => i = j
           /\ (\E i \in DOMAIN queue' : queue'[i] = Plain("close", w)) =>
                \E i \in DOMAIN queue : queue[i] = Plain("close", w)
           /\ (\E i \in DOMAIN queue' : queue'[i] = Plain("barrier", w)) =>
                \E i \in DOMAIN queue : queue[i] = Plain("barrier", w)
<1>1. \A i \in DOMAIN queue' : i \in Nat /\ i + 1 \in DOMAIN queue /\ queue'[i] = queue[i + 1]
  BY DEF Shorter
<1>2. \A i, j \in DOMAIN queue' : queue'[i] = Plain("close", w) /\ IsAppend(queue'[j], w) => j + 1 < i + 1
  BY <1>1 DEF Closes
<1>3. \A i, j \in DOMAIN queue' :
        queue'[i] = Plain("barrier", w) /\ queue'[j] = Plain("barrier", w) => i + 1 = j + 1
  BY <1>1 DEF Stops
<1> QED
  BY <1>1, <1>2, <1>3

\* The appends behind the head.
LEMMA RestOfAppends ==
    ASSUME NEW w \in Walks, Shorter, Stored(w), UNCHANGED handed, handed[w] \subseteq Fixes
    PROVE  \A i \in DOMAIN queue' : IsAppend(queue'[i], w) =>
             /\ queue'[i].fix \in handed'[w] /\ room[w].state # "closed"
             /\ \A f \in room[w].fixes : f.client_seq < queue'[i].fix.client_seq
             /\ \A j \in DOMAIN queue' : IsAppend(queue'[j], w) /\ i < j =>
                  queue'[i].fix.client_seq < queue'[j].fix.client_seq
             /\ IsAppend(queue[1], w) => queue[1].fix.client_seq < queue'[i].fix.client_seq
<1>1. 1 \in DOMAIN queue
      /\ \A i \in DOMAIN queue' : i \in Nat /\ i >= 1 /\ i + 1 \in DOMAIN queue /\ queue'[i] = queue[i + 1]
  BY DEF Shorter
<1>2. ASSUME NEW i \in DOMAIN queue', IsAppend(queue'[i], w)
      PROVE  /\ \A j \in DOMAIN queue' : IsAppend(queue'[j], w) /\ i < j =>
                  queue'[i].fix.client_seq < queue'[j].fix.client_seq
             /\ IsAppend(queue[1], w) => queue[1].fix.client_seq < queue'[i].fix.client_seq
  <2>1. 1 < i + 1 /\ i + 1 \in DOMAIN queue /\ IsAppend(queue[i + 1], w) /\ queue'[i] = queue[i + 1]
    BY <1>1, <1>2
  <2>2. \A j \in DOMAIN queue' : i < j => i + 1 < j + 1
    BY <1>1
  <2> QED
    BY <1>1, <2>1, <2>2 DEF Stored
<1> QED
  BY <1>1, <1>2 DEF Stored

LEMMA WriteKeeps == ASSUME RecordingInv, Write PROVE RecordingInv'
<1> DEFINE c == queue[1]
<1>1. /\ queue # <<>> /\ queue' = Tail(queue) /\ ForeignKeyHolds(Head(queue)) /\ room' = Written(Head(queue))
      /\ stopping' = IF Head(queue).op = "barrier" /\ stopping[Head(queue).walk] = "flushing"
                       THEN [stopping EXCEPT ![Head(queue).walk] = "flushed"] ELSE stopping
      /\ UNCHANGED <<recorder, current, nextClientSeq, chainIndex, resumes, feed, buffer, adding, shown,
                     samples, begun, handed, lost, sent, died>>
  BY DEF Write
<1>2. queue' \in Seq(Queued) /\ Shorter /\ Head(queue) = c /\ c \in Queued
  BY <1>1, TailView DEF RecordingInv, Types
<1>3. /\ None \notin Walks /\ Jobs = Walks \union {None}
      /\ stopping \in [Jobs -> {"none", "launched", "flushing", "flushed", "sending"}]
      /\ c.walk \in Jobs /\ 1 \in DOMAIN queue
  BY <1>2, HeadKinds, BoundsAssumption DEF RecordingInv, Types, TypeOK, Jobs, Shorter
<1> HIDE DEF c
<1>4. /\ \A v \in Jobs : v # c.walk => stopping'[v] = stopping[v]
      /\ stopping'[c.walk] =
           IF c.op = "barrier" /\ stopping[c.walk] = "flushing" THEN "flushed" ELSE stopping[c.walk]
      /\ stopping' \in [Jobs -> {"none", "launched", "flushing", "flushed", "sending"}]
  BY <1>1, <1>2, <1>3
<1>5. /\ room' \in [Walks -> [state: {"none", "open", "closed"}, fixes: SUBSET Fixes]]
      /\ \A v \in Walks : v # c.walk => room'[v] = room[v]
  BY <1>1, <1>2, WrittenRows DEF RecordingInv
<1>6. Types'
  <2>1. \A i \in DOMAIN queue' : queue'[i].walk \in Jobs
    BY <1>2, QueuedWalks
  <2>2. TypeOK'
    BY <1>1, <1>4, <1>5, <2>1 DEF RecordingInv, Types, TypeOK
  <2> QED
    BY <1>1, <1>2, <1>5, <2>2 DEF RecordingInv, Types
<1>7. Buffered'
  BY <1>1 DEF RecordingInv, Buffered
<1>8. NoWalkStops'
  <2> SUFFICES ASSUME stopping'[None] = "flushing"
               PROVE  \E i \in DOMAIN queue' : queue'[i] = Plain("barrier", None)
    BY DEF NoWalkStops
  <2>1. stopping[None] = "flushing" /\ (c.walk = None => c.op # "barrier")
    BY <1>3, <1>4
  <2>2. PICK i \in DOMAIN queue : queue[i] = Plain("barrier", None)
    BY <2>1 DEF RecordingInv, NoWalkStops
  <2>3. i # 1
    BY <2>1, <2>2, PlainParts DEF c
  <2> QED
    BY <1>2, <2>2, <2>3 DEF Shorter
<1>9. ASSUME NEW v \in Walks, v # c.walk
      PROVE  WalkOK(v)'
  <2>1. SameCommands(v, 1)
    BY <1>2, <1>9, SameWhenShorter DEF c
  <2>2. SameWalk(v)
    <3>1. /\ samples \in Nat /\ chainIndex \in Nat
          /\ \A i \in DOMAIN buffer : buffer[i].n \in Nat
      BY BufferView DEF RecordingInv, Types, TypeOK, Position
    <3> QED
      BY <1>1, <1>3, <1>4, <1>5, <1>9, <3>1 DEF SameWalk, LostOf
  <2> QED
    BY <2>1, <2>2, Aside DEF RecordingInv, Types
<1>10. ASSUME NEW w \in Walks, w = c.walk
       PROVE  WalkOK(w)'
  <2>1. /\ WalkOK(w) /\ Fresh(w) /\ Dead(w) /\ Numbers(w) /\ GoesOn(w) /\ Stored(w) /\ Closes(w) /\ Stops(w)
        /\ LostOf(w)' = LostOf(w) /\ handed[w] \subseteq Fixes
    BY <1>1 DEF RecordingInv, WalkOK, Types, LostOf
  <2>2. /\ room'[w].fixes = IF c.op = "append" THEN room[w].fixes \union {c.fix} ELSE room[w].fixes
        /\ room'[w].state =
             IF c.op = "open" /\ room[w].state = "none" THEN "open"
             ELSE IF c.op = "close" /\ room[w].state = "open" THEN "closed"
             ELSE room[w].state
        /\ c.op = "append" => room[w].state # "none"
    BY <1>1, <1>2, <1>10, WrittenRows DEF RecordingInv, ForeignKeyHolds
  <2>3. /\ c.op \in {"open", "close", "barrier"} => c = Plain(c.op, w)
        /\ c.op \in {"open", "close", "barrier", "append"}
        /\ c.op = "append" => IsAppend(c, w)
        /\ \A op : Plain(op, w).op = op /\ Plain(op, w).walk = w
    BY <1>2, <1>10, HeadKinds, PlainParts DEF IsAppend
  <2>4. w \in begun /\ w \notin died
    BY <1>3, <1>10, <2>1 DEF Fresh, Dead, c
  <2>5. /\ \A i \in DOMAIN queue :
             i \in Nat /\ i >= 1 /\ (i # 1 => i - 1 \in DOMAIN queue' /\ queue'[i - 1] = queue[i])
        /\ \A i \in DOMAIN queue' : i \in Nat /\ i >= 1 /\ i + 1 \in DOMAIN queue /\ queue'[i] = queue[i + 1]
        /\ queue[1] = c /\ 1 \in DOMAIN queue
    BY <1>2 DEF Shorter, c
  <2>6. Fresh(w)' /\ Dead(w)'
    BY <1>1, <2>4 DEF Fresh, Dead
  <2>7. Numbers(w)'
    BY <1>1, <2>1 DEF Numbers
  <2>8. GoesOn(w)'
    <3> SUFFICES ASSUME current' = w
                 PROVE  GoesOn(w)'
      BY DEF GoesOn
    <3>1. \A i \in DOMAIN queue' : queue'[i] # Plain("close", w) /\ queue'[i] # Plain("barrier", w)
      BY <1>1, <2>1, <2>5 DEF GoesOn
    <3>2. c # Plain("close", w) /\ stopping[w] = "none" /\ room[w].state # "closed"
      BY <1>1, <2>1, <2>5 DEF GoesOn
    <3>3. stopping'[w] = "none" /\ room'[w].state # "closed"
      BY <1>4, <1>10, <2>2, <2>3, <3>2
    <3> QED
      BY <1>1, <2>1, <3>1, <3>3 DEF GoesOn
  <2>9. Stored(w)'
    <3>1. ASSUME NEW f \in handed'[w]
          PROVE  \/ f \in room'[w].fixes \/ LostOf(w)' # {} \/ w \in died'
                 \/ \E i \in DOMAIN queue' : IsAppend(queue'[i], w) /\ queue'[i].fix = f
      <4>1. CASE \E i \in DOMAIN queue : IsAppend(queue[i], w) /\ queue[i].fix = f
        <5>1. PICK i \in DOMAIN queue : IsAppend(queue[i], w) /\ queue[i].fix = f
          BY <4>1
        <5>2. CASE i = 1
          BY <2>2, <2>5, <5>1, <5>2 DEF IsAppend
        <5>3. CASE i # 1
          BY <2>5, <5>1, <5>3
        <5> QED
          BY <5>2, <5>3
      <4>2. CASE ~\E i \in DOMAIN queue : IsAppend(queue[i], w) /\ queue[i].fix = f
        BY <1>1, <2>1, <2>2, <4>2 DEF Stored
      <4> QED
        BY <4>1, <4>2
    <3>2. ASSUME LostOf(w)' = {}, NEW f \in room'[w].fixes, NEW g \in handed'[w],
                 g.client_seq < f.client_seq
          PROVE  g \in room'[w].fixes
      <4>1. CASE f \in room[w].fixes
        BY <1>1, <2>1, <2>2, <3>2, <4>1 DEF Stored
      <4>2. CASE f \notin room[w].fixes
        <5>1. c.op = "append" /\ f = c.fix /\ IsAppend(queue[1], w)
          BY <2>2, <2>3, <2>5, <3>2, <4>2
        <5>2. \/ g \in room[w].fixes
              \/ \E i \in DOMAIN queue : IsAppend(queue[i], w) /\ queue[i].fix = g
          BY <1>1, <2>1, <2>4, <3>2 DEF Stored
        <5>3. ASSUME NEW i \in DOMAIN queue, IsAppend(queue[i], w), queue[i].fix = g
              PROVE  FALSE
          <6>1. i # 1 /\ f \in handed[w]
            BY <2>1, <2>5, <3>2, <5>1, <5>3 DEF Stored, Fixes
          <6>2. 1 < i
            BY <2>5, <6>1
          <6>3. f.client_seq < g.client_seq
            BY <2>1, <2>5, <5>1, <5>3, <6>2 DEF Stored
          <6> QED
            BY <1>1, <2>1, <3>2, <6>1, <6>3 DEF Fixes
        <5> QED
          BY <2>2, <5>2, <5>3
      <4> QED
        BY <4>1, <4>2
    <3>3. ASSUME NEW i \in DOMAIN queue', IsAppend(queue'[i], w)
          PROVE  /\ queue'[i].fix \in handed'[w] /\ room'[w].state # "closed"
                 /\ \A f \in room'[w].fixes : f.client_seq < queue'[i].fix.client_seq
                 /\ \A j \in DOMAIN queue' : IsAppend(queue'[j], w) /\ i < j =>
                      queue'[i].fix.client_seq < queue'[j].fix.client_seq
      <4>1. /\ queue'[i].fix \in handed'[w] /\ room[w].state # "closed"
            /\ \A f \in room[w].fixes : f.client_seq < queue'[i].fix.client_seq
            /\ \A j \in DOMAIN queue' : IsAppend(queue'[j], w) /\ i < j =>
                 queue'[i].fix.client_seq < queue'[j].fix.client_seq
            /\ IsAppend(queue[1], w) => queue[1].fix.client_seq < queue'[i].fix.client_seq
        BY <1>1, <1>2, <2>1, <3>3, RestOfAppends
      <4>2. c.op # "close"
        <5>1. c = Plain("close", w) => i + 1 < 1
          BY <2>1, <2>5, <3>3 DEF Closes
        <5> QED
          BY <2>3, <2>5, <5>1
      <4> QED
        BY <2>2, <2>3, <2>5, <4>1, <4>2
    <3>4. room'[w].fixes \subseteq handed'[w] /\ IsFiniteSet(room'[w].fixes)
          /\ (room'[w].state = "none" => room'[w].fixes = {})
      <4>1. c.op = "append" => c.fix \in handed[w]
        BY <2>1, <2>3, <2>5 DEF Stored
      <4> QED
        BY <1>1, <2>1, <2>2, <4>1, FS_AddElement DEF Stored
    <3> QED
      BY <3>1, <3>2, <3>3, <3>4 DEF Stored
  <2>10. /\ \A i, j \in DOMAIN queue' :
              queue'[i] = Plain("close", w) /\ IsAppend(queue'[j], w) => j < i
         /\ \A i, j \in DOMAIN queue' :
              queue'[i] = Plain("barrier", w) /\ queue'[j] = Plain("barrier", w) => i = j
         /\ (\E i \in DOMAIN queue' : queue'[i] = Plain("close", w)) =>
              \E i \in DOMAIN queue : queue[i] = Plain("close", w)
         /\ (\E i \in DOMAIN queue' : queue'[i] = Plain("barrier", w)) =>
              \E i \in DOMAIN queue : queue[i] = Plain("barrier", w)
    BY <1>2, <2>1, RestInOrder
  <2>11. room'[w].state = "none" => room[w].state = "none" /\ c.op # "open"
    BY <2>2
  <2>12. Closes(w)'
    <3>1. ASSUME NEW i \in DOMAIN queue, queue[i] = Plain("open", w),
                 \A j \in DOMAIN queue : queue[j] = Plain("close", w) => i < j,
                 c.op # "open"
          PROVE  \E k \in DOMAIN queue' :
                   /\ queue'[k] = Plain("open", w)
                   /\ \A j \in DOMAIN queue' : queue'[j] = Plain("close", w) => k < j
      <4>1. i # 1
        BY <2>3, <2>5, <3>1
      <4>2. i - 1 \in DOMAIN queue' /\ queue'[i - 1] = Plain("open", w) /\ i \in Nat
        BY <2>5, <3>1, <4>1
      <4>3. \A j \in DOMAIN queue' : queue'[j] = Plain("close", w) => i - 1 < j
        BY <2>5, <3>1, <4>2
      <4> QED
        BY <4>2, <4>3
    <3>2. current' = w \/ (\E i \in DOMAIN queue' : queue'[i] = Plain("close", w)) =>
             \/ LostOf(w) # {} \/ room[w].state # "none"
             \/ \E i \in DOMAIN queue :
                  /\ queue[i] = Plain("open", w)
                  /\ \A j \in DOMAIN queue : queue[j] = Plain("close", w) => i < j
      BY <1>1, <2>1, <2>10 DEF Closes
    <3> QED
      BY <2>1, <2>10, <2>11, <3>1, <3>2 DEF Closes
  <2>13. Stops(w)'
    <3>1. stopping'[w] = stopping[w] \/ (stopping'[w] = "flushed" /\ stopping[w] = "flushing" /\ c.op = "barrier")
      BY <1>4, <1>10
    <3>2. stopping[w] # "flushed"
      BY <1>10, <2>1, <2>5 DEF Stops
    <3>3. ASSUME stopping'[w] \in {"launched", "flushing", "flushed"}
          PROVE  \/ LostOf(w)' # {} \/ room'[w].state = "closed"
                 \/ \E i \in DOMAIN queue' : queue'[i] = Plain("close", w)
      <4>1. \/ LostOf(w) # {} \/ room[w].state = "closed"
            \/ \E i \in DOMAIN queue : queue[i] = Plain("close", w)
        BY <2>1, <3>1, <3>3 DEF Stops
      <4>2. ASSUME NEW i \in DOMAIN queue, queue[i] = Plain("close", w)
            PROVE  \/ LostOf(w)' # {} \/ room'[w].state = "closed"
                   \/ \E k \in DOMAIN queue' : queue'[k] = Plain("close", w)
        <5>1. CASE i = 1
          <6>1. c.op = "close" /\ c = Plain("close", w)
            BY <2>3, <2>5, <4>2, <5>1
          <6>2. ~\E k \in DOMAIN queue :
                    /\ queue[k] = Plain("open", w)
                    /\ \A j \in DOMAIN queue : queue[j] = Plain("close", w) => k < j
            BY <2>5, <6>1
          <6>3. LostOf(w) # {} \/ room[w].state # "none"
            BY <2>1, <4>2, <6>2 DEF Closes
          <6>4. room[w].state \in {"none", "open", "closed"}
            BY DEF RecordingInv, Types
          <6> QED
            BY <2>1, <2>2, <6>1, <6>3, <6>4
        <5>2. CASE i # 1
          BY <2>5, <4>2, <5>2
        <5> QED
          BY <5>1, <5>2
      <4>3. room[w].state = "closed" => room'[w].state = "closed"
        BY <2>2
      <4> QED
        BY <2>1, <4>1, <4>2, <4>3
    <3>4. stopping'[w] = "launched" => \A i \in DOMAIN queue' : queue'[i] # Plain("barrier", w)
      BY <2>1, <2>10, <3>1 DEF Stops
    <3>5. ASSUME stopping[w] = "flushing"
          PROVE  \E i \in DOMAIN queue :
                   /\ queue[i] = Plain("barrier", w)
                   /\ \A k \in DOMAIN queue : queue[k].walk = w => k <= i
      BY <2>1, <3>5 DEF Stops
    <3>6. ASSUME stopping'[w] = "flushing"
          PROVE  \E i \in DOMAIN queue' :
                   /\ queue'[i] = Plain("barrier", w)
                   /\ \A k \in DOMAIN queue' : queue'[k].walk = w => k <= i
      <4>1. stopping[w] = "flushing" /\ c.op # "barrier"
        BY <1>4, <1>10, <3>6
      <4>2. PICK i \in DOMAIN queue : /\ queue[i] = Plain("barrier", w)
                                      /\ \A k \in DOMAIN queue : queue[k].walk = w => k <= i
        BY <3>5, <4>1
      <4>3. i # 1
        BY <2>3, <2>5, <4>1, <4>2
      <4>4. i - 1 \in DOMAIN queue' /\ queue'[i - 1] = Plain("barrier", w) /\ i \in Nat
        BY <2>5, <4>2, <4>3
      <4>5. \A k \in DOMAIN queue' : queue'[k].walk = w => k <= i - 1
        BY <2>5, <4>2, <4>4
      <4> QED
        BY <4>4, <4>5
    <3>7. ASSUME stopping'[w] = "flushed", NEW k \in DOMAIN queue'
          PROVE  queue'[k].walk # w
      <4>1. stopping[w] = "flushing" /\ c = Plain("barrier", w)
        BY <2>3, <3>1, <3>2, <3>7
      <4>2. PICK i \in DOMAIN queue : /\ queue[i] = Plain("barrier", w)
                                      /\ \A j \in DOMAIN queue : queue[j].walk = w => j <= i
        BY <3>5, <4>1
      <4>3. i = 1
        BY <2>1, <2>5, <4>1, <4>2 DEF Stops
      <4> QED
        BY <2>5, <4>2, <4>3
    <3>8. stopping'[w] = "sending" /\ LostOf(w)' = {} => sent'[w] = handed'[w]
      BY <1>1, <2>1, <3>1 DEF Stops
    <3> QED
      BY <2>10, <3>3, <3>4, <3>6, <3>7, <3>8 DEF Stops
  <2> QED
    BY <2>6, <2>7, <2>8, <2>9, <2>12, <2>13 DEF WalkOK
<1>11. \A v \in Walks : WalkOK(v)'
  BY <1>9, <1>10
<1> QED
  BY <1>6, <1>7, <1>8, <1>11 DEF RecordingInv

\* After a failed write nothing is promised of its walk but the order of the rest.
LEMMA FailKeeps == ASSUME RecordingInv, WriteFails PROVE RecordingInv'
<1> DEFINE c == queue[1]
<1>1. /\ queue # <<>> /\ queue' = Tail(queue) /\ Head(queue).op # "barrier"
      /\ lost' = lost \union {Head(queue)}
      /\ UNCHANGED <<recorder, current, nextClientSeq, chainIndex, resumes, feed, buffer, adding, stopping,
                     shown, room, samples, begun, handed, sent, died>>
  BY DEF WriteFails, service
<1>2. queue' \in Seq(Queued) /\ Shorter /\ Head(queue) = c /\ c \in Queued
  BY <1>1, TailView DEF RecordingInv, Types
<1>3. 1 \in DOMAIN queue
  BY <1>2 DEF Shorter
<1> HIDE DEF c
<1>4. \A v : /\ v # c.walk => LostOf(v)' = LostOf(v)
             /\ v = c.walk => LostOf(v)' # {}
  BY <1>1, <1>2 DEF LostOf
<1>5. Types'
  <2>1. \A i \in DOMAIN queue' : queue'[i].walk \in Jobs
    BY <1>2, QueuedWalks
  <2>2. TypeOK'
    BY <1>1, <2>1 DEF RecordingInv, Types, TypeOK
  <2> QED
    BY <1>1, <1>2, <2>2 DEF RecordingInv, Types
<1>6. Buffered'
  BY <1>1 DEF RecordingInv, Buffered
<1>7. NoWalkStops'
  <2> SUFFICES ASSUME stopping[None] = "flushing"
               PROVE  \E i \in DOMAIN queue' : queue'[i] = Plain("barrier", None)
    BY <1>1 DEF NoWalkStops
  <2>1. PICK i \in DOMAIN queue : queue[i] = Plain("barrier", None)
    BY DEF RecordingInv, NoWalkStops
  <2>2. i # 1
    BY <1>1, <1>2, <2>1, PlainParts DEF c
  <2> QED
    BY <1>2, <2>1, <2>2 DEF Shorter
<1>8. ASSUME NEW v \in Walks, v # c.walk
      PROVE  WalkOK(v)'
  <2>1. SameCommands(v, 1)
    BY <1>2, <1>8, SameWhenShorter DEF c
  <2>2. SameWalk(v)
    <3>1. /\ samples \in Nat /\ chainIndex \in Nat
          /\ \A i \in DOMAIN buffer : buffer[i].n \in Nat
      BY BufferView DEF RecordingInv, Types, TypeOK, Position
    <3>2. LostOf(v)' = LostOf(v)
      BY <1>4, <1>8
    <3> QED
      BY <1>1, <3>1, <3>2 DEF SameWalk
  <2> QED
    BY <2>1, <2>2, Aside DEF RecordingInv, Types
<1>9. ASSUME NEW w \in Walks, w = c.walk
      PROVE  WalkOK(w)'
  <2>1. /\ WalkOK(w) /\ Fresh(w) /\ Dead(w) /\ Numbers(w) /\ GoesOn(w) /\ Stored(w) /\ Closes(w) /\ Stops(w)
        /\ LostOf(w)' # {} /\ handed[w] \subseteq Fixes
    BY <1>4, <1>9 DEF RecordingInv, WalkOK, Types
  <2>2. w \in begun /\ w \notin died
    BY <1>3, <1>9, <2>1 DEF Fresh, Dead, c
  <2>3. /\ \A i \in DOMAIN queue :
             i \in Nat /\ i >= 1 /\ (i # 1 => i - 1 \in DOMAIN queue' /\ queue'[i - 1] = queue[i])
        /\ \A i \in DOMAIN queue' : i \in Nat /\ i >= 1 /\ i + 1 \in DOMAIN queue /\ queue'[i] = queue[i + 1]
        /\ queue[1] = c /\ 1 \in DOMAIN queue /\ c # Plain("barrier", w)
    BY <1>1, <1>2, PlainParts DEF Shorter, c
  <2>4. Fresh(w)' /\ Dead(w)'
    BY <1>1, <2>2 DEF Fresh, Dead
  <2>5. Numbers(w)'
    BY <1>1, <2>1 DEF Numbers
  <2>6. GoesOn(w)'
    BY <1>1, <2>1, <2>3 DEF GoesOn
  <2>7. \A i \in DOMAIN queue' : IsAppend(queue'[i], w) =>
          /\ queue'[i].fix \in handed'[w] /\ room[w].state # "closed"
          /\ \A f \in room[w].fixes : f.client_seq < queue'[i].fix.client_seq
          /\ \A j \in DOMAIN queue' : IsAppend(queue'[j], w) /\ i < j =>
               queue'[i].fix.client_seq < queue'[j].fix.client_seq
    BY <1>1, <1>2, <2>1, RestOfAppends
  <2>8. Stored(w)'
    BY <1>1, <2>1, <2>7 DEF Stored
  <2>9. /\ \A i, j \in DOMAIN queue' :
             queue'[i] = Plain("close", w) /\ IsAppend(queue'[j], w) => j < i
        /\ \A i, j \in DOMAIN queue' :
             queue'[i] = Plain("barrier", w) /\ queue'[j] = Plain("barrier", w) => i = j
        /\ (\E i \in DOMAIN queue' : queue'[i] = Plain("barrier", w)) =>
             \E i \in DOMAIN queue : queue[i] = Plain("barrier", w)
    BY <1>2, <2>1, RestInOrder
  <2>10. Closes(w)'
    BY <2>1, <2>9 DEF Closes
  <2>11. Stops(w)'
    <3>1. stopping[w] = "launched" => \A i \in DOMAIN queue' : queue'[i] # Plain("barrier", w)
      BY <2>1, <2>9 DEF Stops
    <3>2. ASSUME stopping[w] = "flushing"
          PROVE  \E i \in DOMAIN queue' :
                   /\ queue'[i] = Plain("barrier", w)
                   /\ \A k \in DOMAIN queue' : queue'[k].walk = w => k <= i
      <4>1. PICK i \in DOMAIN queue : /\ queue[i] = Plain("barrier", w)
                                      /\ \A k \in DOMAIN queue : queue[k].walk = w => k <= i
        BY <2>1, <3>2 DEF Stops
      <4>2. i - 1 \in DOMAIN queue' /\ queue'[i - 1] = Plain("barrier", w) /\ i \in Nat
        BY <2>3, <4>1
      <4>3. \A k \in DOMAIN queue' : queue'[k].walk = w => k <= i - 1
        BY <2>3, <4>1, <4>2
      <4> QED
        BY <4>2, <4>3
    <3>3. stopping[w] # "flushed"
      BY <1>9, <2>1, <2>3 DEF Stops
    <3> QED
      BY <1>1, <2>1, <2>9, <3>1, <3>2, <3>3 DEF Stops
  <2> QED
    BY <2>4, <2>5, <2>6, <2>8, <2>10, <2>11 DEF WalkOK
<1>10. \A v \in Walks : WalkOK(v)'
  BY <1>8, <1>9
<1> QED
  BY <1>5, <1>6, <1>7, <1>10 DEF RecordingInv

------------------------------------------------------------------------------
\* The end of a stop, of the service and of the process

LEMMA ReadKeeps ==
    ASSUME RecordingInv, NEW w \in Jobs, ReadForUpload(w)
    PROVE  RecordingInv'
<1>1. /\ stopping[w] = "flushed" /\ stopping' = [stopping EXCEPT ![w] = "sending"]
      /\ sent' = IF w = None THEN sent
                 ELSE [sent EXCEPT ![w] = IF room[w].state = "closed" THEN room[w].fixes ELSE {}]
      /\ UNCHANGED <<recorder, current, nextClientSeq, chainIndex, resumes, feed, buffer, adding, shown,
                     queue, room, samples, begun, handed, lost, died>>
  BY DEF ReadForUpload
<1>2. /\ None \notin Walks /\ Jobs = Walks \union {None}
      /\ stopping \in [Jobs -> {"none", "launched", "flushing", "flushed", "sending"}]
      /\ sent = [v \in Walks |-> sent[v]]
  BY BoundsAssumption DEF RecordingInv, Types, TypeOK, Jobs
<1>3. /\ stopping'[w] = "sending" /\ \A v \in Jobs \ {w} : stopping'[v] = stopping[v]
      /\ \A v \in Walks : v # w => sent'[v] = sent[v]
      /\ w \in Walks => sent'[w] = IF room[w].state = "closed" THEN room[w].fixes ELSE {}
      /\ sent' = [v \in Walks |-> sent'[v]]
  BY <1>1, <1>2
<1>4. Types'
  <2>1. TypeOK'
    BY <1>1, <1>2 DEF RecordingInv, Types, TypeOK
  <2> QED
    BY <1>1, <1>3, <2>1 DEF RecordingInv, Types
<1>5. Buffered'
  BY <1>1 DEF RecordingInv, Buffered
<1>6. NoWalkStops'
  BY <1>1, <1>2, <1>3 DEF RecordingInv, NoWalkStops
<1>7. ASSUME NEW v \in Walks, v # w
      PROVE  WalkOK(v)'
  <2>1. SameCommands(v, 0)
    BY <1>1, SameWhenSame DEF RecordingInv
  <2>2. SameWalk(v)
    <3>1. /\ samples \in Nat /\ chainIndex \in Nat
          /\ \A i \in DOMAIN buffer : buffer[i].n \in Nat
      BY BufferView DEF RecordingInv, Types, TypeOK, Position
    <3> QED
      BY <1>1, <1>2, <1>3, <1>7, <3>1 DEF SameWalk, LostOf
  <2> QED
    BY <2>1, <2>2, Aside DEF RecordingInv, Types
<1>8. ASSUME w \in Walks
      PROVE  WalkOK(w)'
  <2>1. /\ Fresh(w) /\ Dead(w) /\ Numbers(w) /\ GoesOn(w) /\ Stored(w) /\ Closes(w) /\ Stops(w)
    BY <1>8 DEF RecordingInv, WalkOK
  <2>2. w \in begun /\ w \notin died /\ current # w
    BY <1>1, <2>1 DEF Fresh, Dead, GoesOn
  <2>3. LostOf(w)' = LostOf(w)
    BY <1>1 DEF LostOf
  <2>4. \A i \in DOMAIN queue : queue[i].walk # w
    BY <1>1, <2>1 DEF Stops
  <2>5. Fresh(w)' /\ Dead(w)' /\ GoesOn(w)'
    BY <1>1, <2>2 DEF Fresh, Dead, GoesOn
  <2>6. Numbers(w)' /\ Stored(w)' /\ Closes(w)'
    BY <1>1, <2>1, <2>3 DEF Numbers, Stored, Closes
  <2>7. LostOf(w) = {} => sent'[w] = handed[w]
    <3> SUFFICES ASSUME LostOf(w) = {} PROVE sent'[w] = handed[w]
      OBVIOUS
    <3>1. room[w].state = "closed"
      BY <1>1, <2>1, <2>4, PlainParts DEF Stops
    <3>2. \A f \in handed[w] : f \in room[w].fixes
      BY <2>1, <2>2, <2>4 DEF Stored, IsAppend
    <3> QED
      BY <1>3, <1>8, <2>1, <3>1, <3>2 DEF Stored
  <2>8. Stops(w)'
    BY <1>1, <1>3, <2>1, <2>3, <2>7 DEF Stops
  <2> QED
    BY <2>5, <2>6, <2>8 DEF WalkOK
<1>9. \A v \in Walks : WalkOK(v)'
  BY <1>7, <1>8
<1> QED
  BY <1>4, <1>5, <1>6, <1>9 DEF RecordingInv

LEMMA OffTypes ==
    ASSUME Types, ServiceOff, shown' \in States, queue' \in Seq(Queued),
           UNCHANGED <<room, samples, begun, handed, lost, sent>>
    PROVE  /\ Types' /\ Buffered' /\ current' = None /\ \A w \in Jobs : stopping'[w] = "none"
<1>1. /\ recorder' = "OFF" /\ current' = None /\ nextClientSeq' = 0 /\ chainIndex' = 0 /\ resumes' = 0
      /\ feed' = "idle" /\ buffer' = <<>> /\ adding' = None
      /\ stopping' = [w \in Jobs |-> "none"]
  BY DEF ServiceOff
<1>2. /\ <<>> \in Seq([n: Nat, walk: Walks \union {None}, leg: Nat]) /\ Len(<<>>) = 0
      /\ <<>> \in Seq(Position) /\ DOMAIN <<>> = {}
  BY EmptySeq
<1>3. \A i \in DOMAIN queue' : queue'[i].walk \in Jobs
  BY QueuedWalks
<1>4. TypeOK'
  BY <1>1, <1>2, <1>3, BoundsAssumption DEF Types, TypeOK, States
<1>5. Types'
  BY <1>1, <1>2, <1>4 DEF Types
<1>6. Buffered'
  BY <1>1, <1>2 DEF Buffered
<1> QED
  BY <1>1, <1>5, <1>6

LEMMA StopSelfKeeps ==
    ASSUME RecordingInv, NEW w \in Jobs, StopSelf(w)
    PROVE  RecordingInv'
<1>1. ServiceOff /\ UNCHANGED <<queue, room, samples, begun, handed, lost, sent, died>>
  BY DEF StopSelf
<1>2. shown' \in States
  BY DEF StopSelf, RecordingInv, Types, TypeOK, States
<1>3. queue' \in Seq(Queued)
  BY <1>1 DEF RecordingInv, Types
<1>4. /\ Types' /\ Buffered' /\ current' = None /\ \A v \in Jobs : stopping'[v] = "none"
  BY <1>1, <1>2, <1>3, OffTypes DEF RecordingInv
<1>5. None \in Jobs /\ None \notin Walks /\ Walks \subseteq Jobs /\ samples \in Nat
  BY BoundsAssumption DEF Jobs, RecordingInv, Types
<1>6. ASSUME NEW v \in Walks
      PROVE  WalkOK(v)'
  <2>1. SameCommands(v, 0)
    BY <1>1, SameWhenSame DEF RecordingInv
  <2>2. SameWalk(v)
    BY <1>1, <1>4, <1>5 DEF SameWalk, LostOf
  <2> QED
    BY <2>1, <2>2, Aside DEF RecordingInv, Types
<1>7. NoWalkStops'
  BY <1>4, <1>5 DEF NoWalkStops
<1> QED
  BY <1>4, <1>6, <1>7 DEF RecordingInv

LEMMA DeathKeeps == ASSUME RecordingInv, ProcessDies PROVE RecordingInv'
<1>1. /\ ServiceOff /\ shown' = "OFF" /\ queue' = <<>>
      /\ died' = died \union {w \in Walks : UnderWay(w)}
      /\ UNCHANGED <<room, samples, begun, handed, lost, sent>>
  BY DEF ProcessDies
<1>2. queue' \in Seq(Queued) /\ DOMAIN queue' = {} /\ shown' \in States
  BY <1>1, EmptySeq DEF States
<1>3. /\ Types' /\ Buffered' /\ current' = None /\ \A v \in Jobs : stopping'[v] = "none"
  BY <1>1, <1>2, OffTypes DEF RecordingInv
<1>4. None \in Jobs /\ None \notin Walks /\ Walks \subseteq Jobs
  BY BoundsAssumption DEF Jobs
<1>5. ASSUME NEW w \in Walks
      PROVE  WalkOK(w)'
  <2>1. Fresh(w) /\ Dead(w) /\ Numbers(w) /\ Stored(w) /\ LostOf(w)' = LostOf(w)
    BY <1>1 DEF RecordingInv, WalkOK, LostOf
  <2>2. stopping'[w] = "none" /\ current' # w
    BY <1>3, <1>4
  <2>3. w \in died' => w \in begun
    <3>1. UnderWay(w) => w \in begun
      BY <2>1 DEF UnderWay, Fresh
    <3> QED
      BY <1>1, <2>1, <3>1 DEF Dead
  <2>4. \A i \in DOMAIN queue : IsAppend(queue[i], w) => w \in died'
    BY <1>1 DEF UnderWay, IsAppend
  <2>5. Fresh(w)' /\ Dead(w)' /\ GoesOn(w)'
    BY <1>1, <1>2, <2>1, <2>2, <2>3 DEF Fresh, Dead, GoesOn
  <2>6. Numbers(w)'
    BY <1>1, <2>1 DEF Numbers
  <2>7. Stored(w)'
    <3>1. \A f \in handed'[w] : f \in room'[w].fixes \/ LostOf(w)' # {} \/ w \in died'
      BY <1>1, <2>1, <2>4 DEF Stored
    <3> QED
      BY <1>1, <1>2, <2>1, <3>1 DEF Stored
  <2>8. Closes(w)'
    BY <1>2, <2>2 DEF Closes
  <2>9. Stops(w)'
    BY <1>2, <2>2 DEF Stops
  <2> QED
    BY <2>5, <2>6, <2>7, <2>8, <2>9 DEF WalkOK
<1>6. NoWalkStops'
  BY <1>3, <1>4 DEF NoWalkStops
<1> QED
  BY <1>3, <1>5, <1>6 DEF RecordingInv

------------------------------------------------------------------------------
\* The theorems

LEMMA RecordingStarts == ASSUME Init PROVE RecordingInv
<1>1. /\ <<>> \in Seq([n: Nat, walk: Walks \union {None}, leg: Nat]) /\ Len(<<>>) = 0
      /\ <<>> \in Seq(Position) /\ DOMAIN <<>> = {} /\ <<>> \in Seq(Queued)
  BY EmptySeq
<1>2. None \in Jobs /\ None \notin Walks /\ Walks \subseteq Jobs
  BY BoundsAssumption DEF Jobs
<1>3. NoRow \in [state: {"none", "open", "closed"}, fixes: SUBSET Fixes]
      /\ NoRow.state = "none" /\ NoRow.fixes = {}
  BY DEF NoRow
<1>4. TypeOK
  BY <1>1, <1>3, BoundsAssumption DEF Init, TypeOK, States
<1>5. Types
  BY <1>1, <1>3, <1>4 DEF Init, Types
<1>6. Buffered /\ NoWalkStops
  BY <1>1, <1>2 DEF Init, Buffered, NoWalkStops
<1>7. ASSUME NEW w \in Walks
      PROVE  WalkOK(w)
  <2>1. /\ handed[w] = {} /\ room[w] = NoRow /\ current # w /\ stopping[w] = "none" /\ w \notin died
        /\ DOMAIN queue = {}
    BY <1>1, <1>2 DEF Init
  <2> QED
    BY <1>3, <2>1, FS_EmptySet DEF WalkOK, Fresh, Dead, Numbers, GoesOn, Stored, Closes, Stops
<1> QED
  BY <1>5, <1>6, <1>7 DEF RecordingInv

LEMMA RecordingInductive == ASSUME RecordingInv, [Next]_vars PROVE RecordingInv'
  BY StartKeeps, ServiceStepKeeps, StopKeeps, EmitKeeps, AcceptKeeps, WriteKeeps, FailKeeps, FlushKeeps,
     ReadKeeps, StopSelfKeeps, DeathKeeps DEF Next, StopStep

LEMMA RecordingAlways == Spec => []RecordingInv
  BY RecordingStarts, RecordingInductive, PTL DEF Spec

\* TypeOK: whatever the walker, the location source, the writer and the system
\* do, a chain is never numbered beyond the pauses of its walk, and what waits
\* is of its kind.
THEOREM RecordingTypes == Spec => []TypeOK
<1>1. RecordingInv => TypeOK
  BY DEF RecordingInv, Types
<1> QED
  BY <1>1, RecordingAlways, PTL

\* StopsAreServed: a stop finds everything that was handed to the writer in
\* Room, unless a write of that walk failed, and its barrier is never lost.
THEOREM StopsAlwaysServed == Spec => []StopsAreServed
<1>1. RecordingInv => StopsAreServed
  <2> SUFFICES ASSUME RecordingInv
               PROVE  StopsAreServed
    OBVIOUS
  <2>1. StoppedWalksAreSentWhole
    BY DEF RecordingInv, WalkOK, Stops, StoppedWalksAreSentWhole
  <2>2. BarriersArrive
    <3> SUFFICES ASSUME NEW w \in Jobs, stopping[w] = "flushing"
                 PROVE  \E i \in DOMAIN queue :
                          /\ queue[i] = Plain("barrier", w)
                          /\ \A k \in DOMAIN queue : w \in Walks /\ queue[k].walk = w => k <= i
      BY DEF BarriersArrive
    <3>1. CASE w \in Walks
      BY <3>1 DEF RecordingInv, WalkOK, Stops
    <3>2. CASE w \notin Walks
      BY <3>2 DEF RecordingInv, NoWalkStops, Jobs
    <3> QED
      BY <3>1, <3>2
  <2> QED
    BY <2>1, <2>2 DEF StopsAreServed
<1> QED
  BY <1>1, RecordingAlways, PTL

\* What Room has of a walk is numbered from 0 without a gap: the least number
\* that is missing is behind all that are there.
LEMMA NumberedFromZero ==
    ASSUME NEW w \in Walks, Types, WalkOK(w), LostOf(w) = {}
    PROVE  {f.client_seq : f \in room[w].fixes} = 0 .. (Cardinality(room[w].fixes) - 1)
<1> DEFINE fixes == room[w].fixes
           number(f) == f.client_seq
           S == {number(f) : f \in fixes}
<1>1. /\ fixes \subseteq Fixes /\ fixes \subseteq handed[w] /\ handed[w] \subseteq Fixes
      /\ IsFiniteSet(fixes)
      /\ \A f \in fixes, g \in handed[w] : g.client_seq < f.client_seq => g \in fixes
  BY DEF Types, WalkOK, Stored
<1>2. S \subseteq Nat
  BY <1>1 DEF Fixes
<1>3. \A n, m \in Nat : n \in S /\ m < n => m \in S
  <2> SUFFICES ASSUME NEW n \in Nat, NEW m \in Nat, n \in S, m < n
               PROVE  m \in S
    OBVIOUS
  <2>1. PICK f \in fixes : f.client_seq = n
    OBVIOUS
  <2>2. PICK g \in handed[w] : g.client_seq = m
    BY <1>1, <2>1 DEF WalkOK, Numbers
  <2> QED
    BY <1>1, <2>1, <2>2
<1>4. IsFiniteSet(S) /\ Cardinality(S) = Cardinality(fixes)
  <2> DEFINE F == [f \in fixes |-> number(f)]
  <2>1. \A f, g \in fixes : number(f) = number(g) => f = g
    BY <1>1 DEF WalkOK, Numbers
  <2> HIDE DEF number, fixes
  <2>2. F \in Injection(fixes, S) /\ F \in Surjection(fixes, S)
    BY <2>1 DEF Injection, IsInjective, Surjection
  <2> HIDE DEF F, S
  <2> QED
    BY <1>1, <2>2, FS_Surjection
<1>5. ~ IsFiniteSet(Nat)
  <2> SUFFICES ASSUME IsFiniteSet(Nat) PROVE FALSE
    OBVIOUS
  <2> DEFINE c == Cardinality(Nat)
             T == 0 .. c
  <2>1. c \in Nat
    BY FS_CardinalityType
  <2>2. Cardinality(T) = c + 1
    <3> HIDE DEF c
    <3> QED
      BY <2>1, FS_Interval
  <2>3. T \subseteq Nat
    BY <2>1
  <2> HIDE DEF T
  <2>4. Cardinality(T) <= c
    BY <2>3, FS_Subset
  <2> HIDE DEF c
  <2> QED
    BY <2>1, <2>2, <2>4
<1>6. \E n \in Nat : n \notin S /\ \A k \in Nat : k < n => k \in S
  <2> DEFINE Missing == Nat \ S
  <2>1. \E n \in Missing : \A k \in Missing : ~ (<<k, n>> \in OpToRel(<, Nat))
    <3>1. Missing \subseteq Nat /\ Missing # {}
      BY <1>2, <1>4, <1>5
    <3> HIDE DEF Missing
    <3> QED
      BY <3>1, WFMin, NatLessThanWellFounded
  <2> QED
    BY <2>1 DEF OpToRel
<1>7. PICK m \in Nat : m \notin S /\ \A k \in Nat : k < m => k \in S
  BY <1>6
<1>8. S = 0 .. (m - 1)
  <2> HIDE DEF S
  <2>1. ASSUME NEW n \in S
        PROVE  n \in Nat /\ n < m
    BY <1>2, <1>3, <1>7
  <2>2. ASSUME NEW n \in 0 .. (m - 1)
        PROVE  n \in S
    BY <1>7
  <2>3. S \subseteq 0 .. (m - 1)
    BY <1>7, <2>1
  <2> QED
    BY <2>2, <2>3
<1>9. Cardinality(S) = m
  <2> HIDE DEF S
  <2> QED
    BY <1>7, <1>8, FS_Interval
<1> HIDE DEF S
<1>10. S = 0 .. (Cardinality(fixes) - 1)
  BY <1>4, <1>8, <1>9
<1> QED
  BY <1>10 DEF S

\* RoomIsFaithful: what Room has of a walk is its beginning, and no chain joins
\* what a pause divides.
THEOREM RoomStaysFaithful == Spec => []RoomIsFaithful
<1>1. RecordingInv => RoomIsFaithful
  <2> SUFFICES ASSUME RecordingInv
               PROVE  RoomIsFaithful
    OBVIOUS
  <2>1. \A w \in Walks : WalkOK(w) /\ Types
    BY DEF RecordingInv
  <2>2. ChainsSplitAtPauses
    BY <2>1 DEF WalkOK, Numbers, ChainsSplitAtPauses
  <2>3. RoomHoldsABeginning
    <3> SUFFICES ASSUME NEW w \in Walks
                 PROVE  /\ room[w].state = "none" => room[w].fixes = {}
                        /\ LostOf(w) = {} =>
                             {f.client_seq : f \in room[w].fixes} = 0 .. (Cardinality(room[w].fixes) - 1)
                        /\ \A f, g \in room[w].fixes :
                             f.client_seq < g.client_seq => f.sample.n < g.sample.n /\ f.chain <= g.chain
      BY DEF RoomHoldsABeginning
    <3>1. room[w].state = "none" => room[w].fixes = {}
      BY <2>1 DEF WalkOK, Stored
    <3>2. LostOf(w) = {} =>
            {f.client_seq : f \in room[w].fixes} = 0 .. (Cardinality(room[w].fixes) - 1)
      BY <2>1, NumberedFromZero
    <3>3. \A f, g \in room[w].fixes :
            f.client_seq < g.client_seq => f.sample.n < g.sample.n /\ f.chain <= g.chain
      BY <2>1 DEF WalkOK, Stored, Numbers
    <3> QED
      BY <3>1, <3>2, <3>3
  <2> QED
    BY <2>2, <2>3 DEF RoomIsFaithful
<1> QED
  BY <1>1, RecordingAlways, PTL

\* ClosedWalksStand: no late position, failed write or second stop changes a
\* walk once it is closed.
THEOREM ClosedForGood == Spec => ClosedWalksStand
<1>1. ASSUME RecordingInv, [Next]_vars
      PROVE  [\A w \in Walks : room[w].state = "closed" => room'[w] = room[w]]_vars
  <2> SUFFICES ASSUME NEW w \in Walks, room[w].state = "closed"
               PROVE  room'[w] = room[w]
    OBVIOUS
  <2>1. CASE Write
    <3> DEFINE c == queue[1]
    <3>1. queue # <<>> /\ queue' = Tail(queue) /\ room' = Written(Head(queue))
      BY <2>1 DEF Write
    <3>2. Head(queue) = c /\ c \in Queued /\ 1 \in DOMAIN queue
      <4>1. queue \in Seq(Queued)
        BY <1>1 DEF RecordingInv, Types
      <4> QED
        BY <3>1, <4>1, TailView DEF Shorter
    <3>3. ~IsAppend(c, w)
      BY <1>1, <3>2 DEF RecordingInv, WalkOK, Stored
    <3> HIDE DEF c
    <3>4. CASE c.walk = w
      <4>1. /\ room'[w].fixes = room[w].fixes /\ room'[w].state = room[w].state
            /\ room' \in [Walks -> [state: {"none", "open", "closed"}, fixes: SUBSET Fixes]]
        BY <1>1, <3>1, <3>2, <3>3, <3>4, WrittenRows DEF RecordingInv, IsAppend
      <4> QED
        BY <1>1, <4>1 DEF RecordingInv, Types
    <3>5. CASE c.walk # w
      BY <1>1, <3>1, <3>2, <3>5, WrittenRows DEF RecordingInv
    <3> QED
      BY <3>4, <3>5
  <2>2. CASE ~Write
    <3>1. UNCHANGED room
      BY <1>1, <2>2 DEF Next, StopStep, StartRecording, PauseRecording, ResumeRecording, StopRecording,
         Emit, AcceptLocation, AddToTrail, FeedEnds, NoticeFeedEnd, WriteFails, Flush, ReadForUpload,
         StopSelf, ProcessDies, vars
    <3> QED
      BY <3>1
  <2> QED
    BY <2>1, <2>2
<1> QED
  BY <1>1, RecordingAlways, PTL DEF Spec, ClosedWalksStand

=============================================================================
