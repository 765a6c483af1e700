----------------------- MODULE WalkRecordingProperties -----------------------
(***************************************************************************)
(* What recording owes the walker: every position survives in order, a     *)
(* stopped walk is sent whole, and only the walker or the end of the       *)
(* process ends a walk.                                                    *)
(***************************************************************************)
EXTENDS WalkRecording

States == {"OFF", "RECORDING", "PAUSED"}

\* The service, the writer and the rows in Room have their types.
TypeOK ==
    /\ recorder \in States /\ shown \in States
    /\ current \in Walks \union {None}
    /\ nextClientSeq \in Nat /\ chainIndex \in 0 .. resumes /\ resumes \in 0 .. MaxResumes
    /\ feed \in {"idle", "running", "failed", "completed"}
    /\ buffer \in Seq([n: Nat, walk: Walks \union {None}, leg: Nat])
    /\ Len(buffer) <= Buffer
    /\ adding \in States \union {None}
    /\ stopping \in [Jobs -> {"none", "launched", "flushing", "flushed", "sending"}]
    /\ \A i \in DOMAIN queue : queue[i].walk \in Jobs
    /\ \A w \in Walks : room[w].state \in {"none", "open", "closed"}

LostOf(w) == {k \in lost : k.walk = w}

\* When a stopped walk is read for its upload every position handed to the
\* writer is there, except those whose own write failed: the barrier waits for
\* the last fix and for the close (stopRecording, flush).
StoppedWalksAreSentWhole ==
    \A w \in Walks : stopping[w] = "sending" /\ LostOf(w) = {} => sent[w] = handed[w]

\* Whatever crashed or is still queued, what Room has of a walk is its
\* beginning: positions numbered from 0 without a gap, in the order they were
\* reported, and never one without its session (WalkFixWriter, WalkDao).
RoomHoldsABeginning ==
    \A w \in Walks :
      /\ room[w].state = "none" => room[w].fixes = {}
      /\ LostOf(w) = {} =>
           {f.client_seq : f \in room[w].fixes} = 0 .. (Cardinality(room[w].fixes) - 1)
      /\ \A f, g \in room[w].fixes :
           f.client_seq < g.client_seq => f.sample.n < g.sample.n /\ f.chain <= g.chain

\* A closed walk never changes again: no late position reaches it and no
\* second stop reopens or moves it (closeSession, sessionLock).
ClosedWalksStand ==
    [][\A w \in Walks : room[w].state = "closed" => room'[w] = room[w]]_vars

\* A position measured after a pause never joins a chain from before it,
\* whenever it is collected (resumeRecording, acceptLocation).
ChainsSplitAtPauses ==
    \A w \in Walks : \A f \in handed[w] : f.sample.walk = w => f.chain >= f.sample.leg

\* A stop that waits for the writer is never forgotten: its barrier is still in
\* the queue, behind the close of its walk, whatever writes failed before it and
\* however many stops wait at once (flush).
BarriersArrive ==
    \A w \in Jobs : stopping[w] = "flushing" =>
      \E i \in DOMAIN queue :
        /\ queue[i] = Plain("barrier", w)
        /\ \A k \in DOMAIN queue : w \in Walks /\ queue[k].walk = w => k <= i

\* What a stop promises: its upload is reached, and finds the walk whole.
StopsAreServed == StoppedWalksAreSentWhole /\ BarriersArrive

\* What a row in Room promises: a beginning of the walk, split where it paused.
RoomIsFaithful == RoomHoldsABeginning /\ ChainsSplitAtPauses

------------------------------------------------------------------------------
\* What the documentation says and the code does not do

\* A walk left open in Room was cut short by the death of the process: nothing
\* else leaves a session without a close (WalkFixLog.unfinishedSessions).
OpenWalksWereCutShort ==
    \A w \in Walks :
      room[w].state = "open" /\ ~UnderWay(w) => w \in died \/ LostOf(w) # {}
==============================================================================
