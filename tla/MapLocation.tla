------------------------------ MODULE MapLocation ------------------------------
(***************************************************************************)
(* Who subscribes to the phone's location.  The map screen and             *)
(* WalkTrackingService each have a LocationTracker; LocationFeedCoordinator *)
(* starts and stops the screen's by what LocationOwnershipPolicy says of   *)
(* the walk the service publishes.  Intents to the service and everything  *)
(* of the screen run on the main thread, one at a time; positions of the   *)
(* service, its feed's end and its storage failures run on other threads,  *)
(* and what those publish reaches the screen later.                        *)
(***************************************************************************)
EXTENDS Integers, Sequences

CONSTANTS
    MaxIntents,     \* bound on the intents sent and not delivered
    MaxFixes,       \* bound on the one-shot positions asked for at a time
    MaxStops,       \* bound on the coroutines of stopRecording under way
    None

\* A screen that has applied no owner yet, and a worker outside of acceptLocation.
ASSUME OwnersAssumption == None \notin {"NONE", "SCREEN_DEVICE", "SCREEN_REPLAY", "WALK_SERVICE_PENDING",
                                          "WALK_SERVICE", "OFF", "RECORDING", "PAUSED"}

ASSUME BoundsAssumption ==
    MaxIntents \in Nat \ {0} /\ MaxFixes \in Nat /\ MaxStops \in Nat \ {0}

VARIABLES
    screen,         \* LocationFeedCoordinator, its tracker and the screen's copy of the walk
    fixes,          \* calls of requestDeviceFix waiting for a position
    recorder,       \* the TrackingState of the service's TrailRecorder
    collecting,     \* the service's tracker is subscribed
    buffered,       \* it has emitted a position not collected yet
    adding,         \* the state TrailRecorder.add has read, None outside of it
    publishing,     \* what threads other than the main one are about to publish
    stopping,       \* coroutines launched by stopRecording
    intents,        \* what ActivityManager will deliver to the service
    shown,          \* WalkTrackingStore's state
    pending         \* the screen has been woken for a new state and has not run yet

service == <<recorder, collecting, buffered, adding, publishing, stopping>>
vars == <<screen, fixes, service, intents, shown, pending>>

TrackingState == {"OFF", "RECORDING", "PAUSED"}
Handoffs == {"NONE", "STARTING", "RESUMING"}
Owners == {"NONE", "SCREEN_DEVICE", "SCREEN_REPLAY", "WALK_SERVICE_PENDING", "WALK_SERVICE"}
ScreenOwners == {"SCREEN_DEVICE", "SCREEN_REPLAY"}

Screen == [visibility: {"FOREGROUND", "BACKGROUND"}, feed: {"DEVICE", "REPLAY"},
           source: {"none", "device", "replay"}, handoff: Handoffs,
           owner: Owners \union {None}, tracker: {"idle", "running", "ended"},
           walk: TrackingState]

\* errorMessage: whether there is one
Published == [state: TrackingState, error: BOOLEAN]

Intents == {"START", "PAUSE", "RESUME", "STOP", "DESTROY"}

------------------------------------------------------------------------------
\* LocationOwnershipPolicy and the coordinator's bookkeeping

Owner(s, walk) ==
    CASE s.handoff # "NONE" -> "WALK_SERVICE_PENDING"
      [] s.handoff = "NONE" /\ walk = "RECORDING" -> "WALK_SERVICE"
      [] s.handoff = "NONE" /\ walk # "RECORDING" ->
           IF \/ s.visibility = "BACKGROUND"
              \/ walk = "PAUSED" /\ s.feed = "REPLAY" THEN "NONE"
           ELSE IF s.feed = "DEVICE" THEN "SCREEN_DEVICE" ELSE "SCREEN_REPLAY"

\* Bug: a new owner that is not the screen leaves the subscription alone.
ReconciledStartsOnly(s, walk) ==
    LET owner == Owner(s, walk)
    IN  IF owner = s.owner THEN s
        ELSE [s EXCEPT !.owner = owner,
                       !.tracker = IF owner \in ScreenOwners /\ s.source # "none"
                                     THEN "running" ELSE s.tracker]

\* A screen owner without a source starts nothing, and stops nothing either.
Reconciled(s, walk) ==
    LET owner == Owner(s, walk)
    IN  IF owner = s.owner THEN s
        ELSE [s EXCEPT !.owner = owner,
                       !.tracker = IF owner \notin ScreenOwners THEN "idle"
                                   ELSE IF s.source # "none" THEN "running" ELSE s.tracker]

Switched(s, feed, source, walk) ==
    Reconciled([s EXCEPT !.tracker = "idle", !.source = source, !.owner = None, !.feed = feed], walk)

\* Whether anything was ended is told by the feed.
ReplayEnded(s, walk) ==
    IF s.feed = "REPLAY" THEN Switched(s, "DEVICE", "device", walk) ELSE s

\* acceptWalkState, and the copy of the walk MapViewModel keeps for the screen.
Accepted(s, state) ==
    Reconciled([s EXCEPT !.walk = state.state,
                         !.source = IF s.feed = "DEVICE" /\ state.state # "OFF" /\ @ = "none"
                                      THEN "device" ELSE @,
                         !.handoff = IF state.state = "RECORDING" \/ state.error
                                       THEN "NONE" ELSE @], state.state)

\* The view model is made in the background and collects the state at once.
Fresh(state) ==
    Accepted([visibility |-> "BACKGROUND", feed |-> "DEVICE",
              source |-> IF state.state = "OFF" THEN "none" ELSE "device",
              handoff |-> "NONE", owner |-> None, tracker |-> "idle", walk |-> "OFF"], state)

Quiet == [state |-> "OFF", error |-> FALSE]

Init ==
    /\ screen = Fresh(Quiet)
    /\ fixes = 0
    /\ recorder = "OFF"
    /\ collecting = FALSE
    /\ buffered = FALSE
    /\ adding = None
    /\ publishing = {}
    /\ stopping = 0
    /\ intents = <<>>
    /\ shown = Quiet
    /\ pending = FALSE

------------------------------------------------------------------------------
\* The screen, on the main thread

Walk == shown.state

Foreground ==
    /\ screen.visibility = "BACKGROUND"
    /\ screen' = Reconciled([screen EXCEPT !.visibility = "FOREGROUND"], Walk)
    /\ UNCHANGED <<fixes, service, intents, shown, pending>>

Background ==
    /\ screen.visibility = "FOREGROUND"
    /\ LET hidden == [screen EXCEPT !.visibility = "BACKGROUND"]
       IN  screen' = IF screen.feed = "REPLAY" THEN ReplayEnded(hidden, Walk)
                     ELSE Reconciled(hidden, Walk)
    /\ UNCHANGED <<fixes, service, intents, shown, pending>>

\* The activity is finished and opened again; its coroutines are cancelled.
Recreate ==
    /\ screen.visibility = "BACKGROUND"
    /\ screen' = Fresh(shown)
    /\ fixes' = 0
    /\ pending' = FALSE
    /\ UNCHANGED <<service, intents, shown>>

\* Bug: a replay may begin while a command to the service is under way.
StartReplayAnytime ==
    /\ screen.visibility = "FOREGROUND"
    /\ Walk = "OFF"
    /\ screen' = Switched(screen, "REPLAY", "replay", Walk)
    /\ UNCHANGED <<fixes, service, intents, shown, pending>>

StartReplay ==
    /\ screen.visibility = "FOREGROUND"
    /\ screen.handoff = "NONE" /\ Walk = "OFF"
    /\ screen' = Switched(screen, "REPLAY", "replay", Walk)
    /\ UNCHANGED <<fixes, service, intents, shown, pending>>

\* A replay runs out, or either feed fails; the status is collected in the
\* same turn of the main thread.
FeedEnds ==
    /\ screen.tracker = "running"
    /\ screen' = ReplayEnded([screen EXCEPT !.tracker = "ended"], Walk)
    /\ UNCHANGED <<fixes, service, intents, shown, pending>>

RequestFix ==
    /\ screen.visibility = "FOREGROUND" /\ fixes < MaxFixes
    /\ fixes' = fixes + 1
    /\ UNCHANGED <<screen, service, intents, shown, pending>>

\* Bug: a position that comes after the timeout is taken as well.
FixAnswersTwice ==
    /\ fixes' \in {fixes - 1, fixes}
    /\ screen' = Switched(screen, "DEVICE", "device", Walk)
    /\ UNCHANGED <<service, intents, shown, pending>>

\* A position ends whatever feed there is by now; a timeout changes nothing.
FixReturns ==
    /\ fixes > 0
    /\ fixes' = fixes - 1
    /\ screen' \in {screen, Switched(screen, "DEVICE", "device", Walk)}
    /\ UNCHANGED <<service, intents, shown, pending>>

Send(intent) == Len(intents) < MaxIntents /\ intents' = Append(intents, intent)

Reserved(handoff) == Reconciled([screen EXCEPT !.handoff = handoff], Walk)
Cancelled(s) == Reconciled([s EXCEPT !.handoff = "NONE"], Walk)

\* prepareWalkStart or prepareWalkResume, then the intent; one that cannot be
\* sent gives the reservation back.
Command(intent, handoff) ==
    /\ \/ screen' = Reserved(handoff) /\ Send(intent)
       \/ screen' = Cancelled(Reserved(handoff)) /\ UNCHANGED intents
    /\ UNCHANGED <<fixes, service, shown, pending>>

PressStart ==
    /\ screen.visibility = "FOREGROUND"
    /\ screen.handoff = "NONE" /\ Walk = "OFF" /\ screen.feed = "DEVICE"
    /\ Command("START", "STARTING")

PressResume ==
    /\ screen.visibility = "FOREGROUND"
    /\ screen.handoff = "NONE" /\ Walk = "PAUSED"
    /\ Command("RESUME", "RESUMING")

Offered(walk) == CASE walk = "OFF" -> {}
                   [] walk = "RECORDING" -> {"PAUSE", "STOP"}
                   [] walk = "PAUSED" -> {"RESUME", "STOP"}

\* The screen offers by its copy of the walk, the notification by the recorder.
PressOther(intent) ==
    /\ \/ screen.visibility = "FOREGROUND" /\ intent \in Offered(screen.walk) \ {"RESUME"}
       \/ intent \in Offered(recorder)
    /\ Send(intent)
    /\ UNCHANGED <<screen, fixes, service, shown, pending>>

\* The dispatcher runs what a worker's publication woke.
Collect ==
    /\ pending
    /\ pending' = FALSE
    /\ screen' = Accepted(screen, shown)
    /\ UNCHANGED <<fixes, service, intents, shown>>

------------------------------------------------------------------------------
\* WalkTrackingService on the main thread

\* On the main thread the screen runs inside of publish, unless it has been
\* woken already and waits for its turn.
PublishOnMain(state) ==
    /\ shown' = state
    /\ screen' = IF pending THEN screen ELSE Accepted(screen, state)
    /\ UNCHANGED pending

Plain(state) == [state |-> state, error |-> FALSE]
Failing(state) == [state |-> state, error |-> TRUE]

Deliver(intent) == intents # <<>> /\ Head(intents) = intent /\ intents' = Tail(intents)

StartRecording ==
    /\ Deliver("START")
    /\ recorder = "OFF"
    /\ recorder' = "RECORDING"
    /\ PublishOnMain(Plain("RECORDING"))
    /\ collecting' = TRUE
    /\ UNCHANGED <<fixes, buffered, adding, publishing, stopping>>

PauseRecording ==
    /\ Deliver("PAUSE")
    /\ recorder = "RECORDING"
    /\ collecting' = FALSE
    /\ recorder' = "PAUSED"
    /\ PublishOnMain(Plain("PAUSED"))
    /\ UNCHANGED <<fixes, buffered, adding, publishing, stopping>>

ResumeRecording ==
    /\ Deliver("RESUME")
    /\ recorder = "PAUSED"
    /\ recorder' = "RECORDING"
    /\ PublishOnMain(Plain("RECORDING"))
    /\ collecting' = TRUE
    /\ UNCHANGED <<fixes, buffered, adding, publishing, stopping>>

\* Bug: the tracker of the service is left running.
StopCollecting ==
    /\ Deliver("STOP")
    /\ recorder # "OFF" /\ stopping < MaxStops
    /\ recorder' = "OFF"
    /\ PublishOnMain(Plain("OFF"))
    /\ stopping' = stopping + 1
    /\ UNCHANGED <<fixes, collecting, buffered, adding, publishing>>

StopRecording ==
    /\ Deliver("STOP")
    /\ recorder # "OFF" /\ stopping < MaxStops
    /\ collecting' = FALSE
    /\ recorder' = "OFF"
    /\ PublishOnMain(Plain("OFF"))
    /\ stopping' = stopping + 1
    /\ UNCHANGED <<fixes, buffered, adding, publishing>>

\* A START of a service that is recording only promotes it again, the others
\* return; none of them publishes.
Ignore ==
    /\ \/ Deliver("START") /\ recorder # "OFF"
       \/ Deliver("PAUSE") /\ recorder # "RECORDING"
       \/ Deliver("RESUME") /\ recorder # "PAUSED"
       \/ Deliver("STOP") /\ recorder = "OFF"
    /\ UNCHANGED <<screen, fixes, service, shown, pending>>

\* onDestroy.  A worker inside of acceptLocation goes on, with a recorder that
\* nobody reads any more.
Destroy ==
    /\ Deliver("DESTROY")
    /\ IF recorder = "OFF" THEN UNCHANGED <<screen, shown, pending>>
       ELSE PublishOnMain(Failing("PAUSED"))
    /\ recorder' = "OFF"
    /\ collecting' = FALSE
    /\ buffered' = FALSE
    /\ adding' = None
    /\ publishing' = IF adding = None THEN publishing ELSE publishing \union {Plain(adding)}
    /\ stopping' = 0
    /\ UNCHANGED fixes

------------------------------------------------------------------------------
\* WalkTrackingService on its workers

Emit ==
    /\ collecting /\ ~buffered
    /\ buffered' = TRUE
    /\ UNCHANGED <<screen, fixes, recorder, collecting, adding, publishing, stopping, intents, shown,
                   pending>>

\* acceptLocation up to the read of TrailRecorder.add; one position at a time.
AddRead ==
    /\ buffered /\ adding = None /\ \A p \in publishing : p.error
    /\ buffered' = FALSE
    /\ adding' = recorder
    /\ UNCHANGED <<screen, fixes, recorder, collecting, publishing, stopping, intents, shown,
                   pending>>

\* A position added to a recording writes back the state it has read.
AddReturn ==
    /\ adding # None
    /\ recorder' = IF adding = "RECORDING" THEN "RECORDING" ELSE recorder
    /\ publishing' = publishing \union {Plain(adding)}
    /\ adding' = None
    /\ UNCHANGED <<screen, fixes, collecting, buffered, stopping, intents, shown, pending>>

\* pauseAfterFeedProblem up to its publication
FeedProblem ==
    /\ collecting
    /\ collecting' = FALSE
    /\ recorder' = IF recorder = "RECORDING" THEN "PAUSED" ELSE recorder
    /\ publishing' = publishing \union {Failing(recorder')}
    /\ UNCHANGED <<screen, fixes, buffered, adding, stopping, intents, shown, pending>>

\* acceptStorageFailure up to its publication
StorageFailure ==
    /\ recorder # "OFF"
    /\ publishing' = publishing \union {Failing(recorder)}
    /\ UNCHANGED <<screen, fixes, recorder, collecting, buffered, adding, stopping, intents, shown,
                   pending>>

Publish(state) ==
    /\ state \in publishing
    /\ publishing' = publishing \ {state}
    /\ shown' = state
    /\ pending' = TRUE
    /\ UNCHANGED <<screen, fixes, recorder, collecting, buffered, adding, stopping, intents>>

\* The end of a coroutine of stopRecording.  Intents sent from now on are for
\* a new instance; a second stopSelf finds the instance gone.
StopSelf ==
    /\ stopping > 0
    /\ stopping' = stopping - 1
    /\ IF \E i \in DOMAIN intents : intents[i] = "DESTROY" THEN UNCHANGED intents
       ELSE Send("DESTROY")
    /\ UNCHANGED <<screen, fixes, recorder, collecting, buffered, adding, publishing, shown, pending>>

------------------------------------------------------------------------------
OnScreen ==
    \/ Foreground \/ Background \/ Recreate
    \/ StartReplay \/ FeedEnds \/ RequestFix \/ FixReturns
    \/ PressStart \/ PressResume \/ \E i \in {"PAUSE", "RESUME", "STOP"} : PressOther(i)
    \/ Collect

InService ==
    \/ StartRecording \/ PauseRecording \/ ResumeRecording \/ StopRecording \/ Ignore \/ Destroy
    \/ Emit \/ AddRead \/ AddReturn \/ FeedProblem \/ StorageFailure
    \/ \E state \in Published : Publish(state)
    \/ StopSelf

Next == OnScreen \/ InService

Spec == Init /\ [][Next]_vars
==============================================================================
