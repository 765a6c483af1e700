----------------------------- MODULE WalkRecording -----------------------------
(***************************************************************************)
(* Recording a walk on the phone.  WalkTrackingService takes its commands  *)
(* on the main thread, collects positions on another, and hands every      *)
(* position to WalkFixWriter, whose single coroutine writes to Room in the *)
(* order of submission.  Stopping a walk closes its session, waits for the *)
(* writer, uploads once and takes the service down.  The service, the      *)
(* writer's queue and everything shown die with the process; Room stays.   *)
(***************************************************************************)
EXTENDS Integers, Sequences, FiniteSets

CONSTANTS
    Walks,          \* the session ids the phone will draw
    Buffer,         \* extraBufferCapacity of the tracker's flow of positions
    MaxSamples,     \* bound on the positions reported
    MaxResumes,     \* bound on the resumes of one walk
    MaxFailures,    \* bound on failing writes
    MaxDeaths,      \* bound on process deaths
    None

ASSUME BoundsAssumption ==
    /\ Buffer \in Nat \ {0}
    /\ MaxSamples \in Nat /\ MaxResumes \in Nat /\ MaxFailures \in Nat /\ MaxDeaths \in Nat
    /\ None \notin Walks

VARIABLES
    recorder,       \* the TrackingState of TrailRecorder
    current,        \* sessionId of the walk being recorded
    nextClientSeq, chainIndex,
    feed,           \* the status of LocationTracker
    buffer,         \* positions emitted and not collected yet
    adding,         \* the recorder state TrailRecorder.add has read, None outside of it
    shown,          \* the TrackingState published to the screen
    queue,          \* WalkFixWriter's commands
    room,           \* walk_session and walk_fix in Room
    stopping,       \* the coroutine stopRecording launched for each walk
    samples, failures, deaths,
    resumes,        \* history: the legs after the first of the walk being recorded
    begun,          \* history: walks that were started
    handed,         \* history: the fixes of each walk handed to the writer
    lost,           \* history: commands whose write failed
    sent,           \* history: what an upload has read from Room
    died            \* history: walks that were under way when the process died

service == <<recorder, current, nextClientSeq, chainIndex, resumes, feed, buffer, adding, stopping>>
vars == <<service, shown, queue, room, samples, failures, deaths, begun, handed, lost, sent, died>>

\* A position knows the walk and the leg of it during which it was measured.
Sample == [n: Nat, walk: Walks, leg: Nat]
Fix == [client_seq: Nat, chain: Nat, sample: Sample]

Command ==
         [op: {"open", "close", "barrier"}, walk: Walks \union {None}]
  \union [op: {"append"}, walk: Walks, fix: Fix]

\* A walk can be stopped after its session was given up; then nothing is sent.
Jobs == Walks \union {None}

NoRow == [state |-> "none", fixes |-> {}]

ServiceOff ==
    /\ recorder' = "OFF"
    /\ current' = None
    /\ nextClientSeq' = 0
    /\ chainIndex' = 0
    /\ resumes' = 0
    /\ feed' = "idle"
    /\ buffer' = <<>>
    /\ adding' = None
    /\ stopping' = [w \in Jobs |-> "none"]

Init ==
    /\ recorder = "OFF"
    /\ current = None
    /\ nextClientSeq = 0
    /\ chainIndex = 0
    /\ resumes = 0
    /\ feed = "idle"
    /\ buffer = <<>>
    /\ adding = None
    /\ stopping = [w \in Jobs |-> "none"]
    /\ shown = "OFF"
    /\ queue = <<>>
    /\ room = [w \in Walks |-> NoRow]
    /\ samples = 0
    /\ failures = 0
    /\ deaths = 0
    /\ begun = {}
    /\ handed = [w \in Walks |-> {}]
    /\ lost = {}
    /\ sent = [w \in Walks |-> None]
    /\ died = {}

\* Bug: a command replaces those not written yet.
Conflate(command) == queue' = <<command>>

Enqueue(command) == queue' = Append(queue, command)

Plain(op, w) == [op |-> op, walk |-> w]

------------------------------------------------------------------------------
\* Commands from the screen or the notification, one at a time on the main thread

\* Bug: the chains of a walk go on from those of the walk before.
ChainKept == nextClientSeq' = 0 /\ UNCHANGED chainIndex

FreshCounters == nextClientSeq' = 0 /\ chainIndex' = 0

\* The screen offers to start only what it shows as OFF.
StartRecording(w) ==
    /\ shown = "OFF" /\ recorder = "OFF"
    /\ w \notin begun
    /\ begun' = begun \union {w}
    /\ recorder' = "RECORDING"
    /\ current' = w
    /\ FreshCounters
    /\ resumes' = 0
    /\ Enqueue(Plain("open", w))
    /\ shown' = "RECORDING"
    /\ feed' = "running"
    /\ UNCHANGED <<buffer, adding, stopping, room, samples, failures, deaths, handed, lost,
                   sent, died>>

PauseRecording ==
    /\ recorder = "RECORDING"
    /\ feed' = "idle"
    /\ recorder' = "PAUSED"
    /\ shown' = "PAUSED"
    /\ UNCHANGED <<current, nextClientSeq, chainIndex, resumes, buffer, adding, stopping, queue, room,
                   samples, failures, deaths, begun, handed, lost, sent, died>>

NextChain == chainIndex + 1

ResumeRecording ==
    /\ recorder = "PAUSED" /\ resumes < MaxResumes
    /\ recorder' = "RECORDING"
    /\ chainIndex' = NextChain
    /\ resumes' = resumes + 1
    /\ shown' = "RECORDING"
    /\ feed' = "running"
    /\ UNCHANGED <<current, nextClientSeq, buffer, adding, stopping, queue, room,
                   samples, failures, deaths, begun, handed, lost, sent, died>>

\* Bug: the stopped session still takes positions.
SessionKept == UNCHANGED current

SessionGivenUp == current' = None

StopRecording ==
    /\ recorder # "OFF"
    /\ feed' = "idle"
    /\ IF current = None THEN UNCHANGED queue ELSE Enqueue(Plain("close", current))
    /\ SessionGivenUp
    /\ recorder' = "OFF"
    /\ shown' = "OFF"
    /\ stopping' = [stopping EXCEPT ![current] = "launched"]
    /\ UNCHANGED <<nextClientSeq, chainIndex, resumes, buffer, adding, room, samples, failures, deaths,
                   begun, handed, lost, sent, died>>

------------------------------------------------------------------------------
\* Positions

Emit ==
    /\ feed = "running" /\ samples < MaxSamples /\ Len(buffer) < Buffer
    /\ samples' = samples + 1
    /\ buffer' = Append(buffer, [n |-> samples, walk |-> current, leg |-> resumes])
    /\ UNCHANGED <<recorder, current, nextClientSeq, chainIndex, resumes, feed, adding, stopping, shown,
                   queue, room, failures, deaths, begun, handed, lost, sent, died>>

\* acceptLocation under sessionLock, up to TrailRecorder.add's first read.
AcceptLocation ==
    /\ buffer # <<>> /\ adding = None
    /\ buffer' = Tail(buffer)
    /\ adding' = recorder
    /\ LET fix == [client_seq |-> nextClientSeq, chain |-> chainIndex, sample |-> Head(buffer)]
       IN  IF current = None
             THEN UNCHANGED <<nextClientSeq, queue, handed>>
             ELSE /\ nextClientSeq' = nextClientSeq + 1
                  /\ Enqueue([op |-> "append", walk |-> current, fix |-> fix])
                  /\ handed' = [handed EXCEPT ![current] = @ \union {fix}]
    /\ UNCHANGED <<recorder, current, chainIndex, resumes, feed, stopping, shown, room, samples, failures,
                   deaths, begun, lost, sent, died>>

\* add() copies the snapshot it read; nothing keeps the main thread from
\* changing it in between.  The copy it writes back and what is published of it
\* are one step: nothing stored depends on the moment between them.
AddToTrail ==
    /\ adding # None
    /\ recorder' = IF adding = "RECORDING" THEN "RECORDING" ELSE recorder
    /\ shown' = recorder'
    /\ adding' = None
    /\ UNCHANGED <<current, nextClientSeq, chainIndex, resumes, feed, buffer, stopping, queue, room,
                   samples, failures, deaths, begun, handed, lost, sent, died>>

\* The location source fails, or a replay runs out.
FeedEnds ==
    /\ feed = "running"
    /\ feed' \in {"failed", "completed"}
    /\ UNCHANGED <<recorder, current, nextClientSeq, chainIndex, resumes, buffer, adding, stopping, shown,
                   queue, room, samples, failures, deaths, begun, handed, lost, sent, died>>

\* acceptFeedStatus, pauseAfterFeedProblem: taken as one step.  Its parts run beside the
\* main thread, but none of them writes anything that is stored.
NoticeFeedEnd ==
    /\ feed = "failed" \/ (feed = "completed" /\ recorder = "RECORDING")
    /\ feed' = "idle"
    /\ recorder' = IF recorder = "RECORDING" THEN "PAUSED" ELSE recorder
    /\ shown' = recorder'
    /\ UNCHANGED <<current, nextClientSeq, chainIndex, resumes, buffer, adding, stopping, queue, room,
                   samples, failures, deaths, begun, handed, lost, sent, died>>

------------------------------------------------------------------------------
\* WalkFixWriter and Room

\* INSERT OR IGNORE, the foreign key of a fix, and a close that only closes
\* what is open.
Written(command) ==
    LET w == command.walk
    IN  CASE command.op = "open" /\ room[w].state = "none" ->
               [room EXCEPT ![w].state = "open"]
          [] command.op = "append" ->
               [room EXCEPT ![w].fixes = @ \union {command.fix}]
          [] command.op = "close" /\ room[w].state = "open" ->
               [room EXCEPT ![w].state = "closed"]
          [] OTHER -> room

ForeignKeyHolds(command) == command.op = "append" => room[command.walk].state # "none"

Write ==
    /\ queue # <<>>
    /\ ForeignKeyHolds(Head(queue))
    /\ room' = Written(Head(queue))
    /\ queue' = Tail(queue)
    /\ stopping' = IF Head(queue).op = "barrier" /\ stopping[Head(queue).walk] = "flushing"
                     THEN [stopping EXCEPT ![Head(queue).walk] = "flushed"] ELSE stopping
    /\ UNCHANGED <<recorder, current, nextClientSeq, chainIndex, resumes, feed, buffer, adding, shown,
                   samples, failures, deaths, begun, handed, lost, sent, died>>

\* A failing command is reported and the next one is taken.
WriteFails ==
    /\ queue # <<>>
    /\ Head(queue).op # "barrier"
    /\ \/ ~ForeignKeyHolds(Head(queue)) /\ UNCHANGED failures
       \/ failures < MaxFailures /\ failures' = failures + 1
    /\ lost' = lost \union {Head(queue)}
    /\ queue' = Tail(queue)
    /\ UNCHANGED <<service, shown, room, samples, deaths, begun, handed, sent, died>>

------------------------------------------------------------------------------
\* The coroutine of stopRecording

\* Bug: the upload does not wait for the writer.
NoFlush(w) ==
    /\ stopping[w] = "launched"
    /\ stopping' = [stopping EXCEPT ![w] = "flushed"]
    /\ UNCHANGED <<recorder, current, nextClientSeq, chainIndex, resumes, feed, buffer, adding, shown,
                   queue, room, samples, failures, deaths, begun, handed, lost, sent, died>>

Flush(w) ==
    /\ stopping[w] = "launched"
    /\ stopping' = [stopping EXCEPT ![w] = "flushing"]
    /\ Enqueue(Plain("barrier", w))
    /\ UNCHANGED <<recorder, current, nextClientSeq, chainIndex, resumes, feed, buffer, adding, shown,
                   room, samples, failures, deaths, begun, handed, lost, sent, died>>

\* exportQuietly and uploadQuietly read the rows; an open or empty walk is not sent.
ReadForUpload(w) ==
    /\ stopping[w] = "flushed"
    /\ stopping' = [stopping EXCEPT ![w] = "sending"]
    /\ sent' = IF w = None THEN sent
               ELSE [sent EXCEPT ![w] = IF room[w].state = "closed" THEN room[w].fixes ELSE {}]
    /\ UNCHANGED <<recorder, current, nextClientSeq, chainIndex, resumes, feed, buffer, adding, shown,
                   queue, room, samples, failures, deaths, begun, handed, lost, died>>

\* However the upload ended: stopSelf, and with it onDestroy, which pauses
\* whatever is recorded and cancels the service's coroutines.
StopSelf(w) ==
    /\ stopping[w] = "sending"
    /\ shown' = IF recorder # "OFF" THEN "PAUSED" ELSE shown
    /\ ServiceOff
    /\ UNCHANGED <<queue, room, samples, failures, deaths, begun, handed, lost, sent, died>>

UnderWay(w) ==
    \/ current = w \/ stopping[w] # "none"
    \/ \E i \in DOMAIN queue : queue[i].walk = w

\* START_NOT_STICKY: nothing is restarted.
ProcessDies ==
    /\ deaths < MaxDeaths
    /\ deaths' = deaths + 1
    /\ died' = died \union {w \in Walks : UnderWay(w)}
    /\ ServiceOff
    /\ shown' = "OFF"
    /\ queue' = <<>>
    /\ UNCHANGED <<room, samples, failures, begun, handed, lost, sent>>

------------------------------------------------------------------------------
StopStep(w) == Flush(w) \/ ReadForUpload(w) \/ StopSelf(w)

Next ==
    \/ \E w \in Walks : StartRecording(w)
    \/ PauseRecording \/ ResumeRecording \/ StopRecording
    \/ Emit \/ AcceptLocation \/ AddToTrail \/ FeedEnds \/ NoticeFeedEnd
    \/ Write \/ WriteFails
    \/ \E w \in Jobs : StopStep(w)
    \/ ProcessDies

Spec == Init /\ [][Next]_vars
==============================================================================
