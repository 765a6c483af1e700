------------------------------- MODULE MapProofs -------------------------------
(***************************************************************************)
(* The properties of the map screen, for every bound, first those of       *)
(* MapLocationProperties, then those of MapSearch.  What the               *)
(* coordinator keeps between two events is ScreenInv; every event rewrites *)
(* the screen into a Ready one and reconciles it, which restores ScreenInv *)
(* and applies the owner of the walk it was given.                         *)
(***************************************************************************)
EXTENDS MapLocationProperties, MapSearch, TLAPS

\* What reconcileOwnership needs of the screen it is called on.
Ready(s) ==
    /\ s \in Screen
    /\ s.tracker # "idle" => s.owner \in ScreenOwners
    /\ s.owner = "SCREEN_REPLAY" => s.tracker = "running" /\ s.feed = "REPLAY"
    /\ s.feed = "REPLAY" => s.source = "replay" /\ s.visibility = "FOREGROUND"
    /\ s.handoff = "STARTING" => s.feed = "DEVICE"

\* What holds of the screen between two events.
ScreenInv(s) ==
    /\ Ready(s)
    /\ s.handoff # "NONE" => s.owner = "WALK_SERVICE_PENDING"

\* The screen has applied what the policy says of this walk.
Applied(s, walk) == s.owner = Owner(s, walk)

\* The inductive invariant.
IInv ==
    /\ TypeOK
    /\ ScreenInv(screen)
    /\ ~pending => Applied(screen, Walk)
    /\ ~pending /\ Walk = "RECORDING" => screen.handoff = "NONE"
    /\ collecting => recorder = "RECORDING"

------------------------------------------------------------------------------
\* The bookkeeping of the coordinator

\* The policy names an owner, and reads only three fields of the screen: it
\* reserves exactly for a handoff, and gives a replay to the screen only.
LEMMA OwnerFacts ==
    ASSUME NEW s \in Screen, NEW walk \in TrackingState
    PROVE  /\ Owner(s, walk) \in Owners
           /\ Owner(s, walk) = "WALK_SERVICE_PENDING" <=> s.handoff # "NONE"
           /\ Owner(s, walk) = "SCREEN_REPLAY" => s.feed = "REPLAY"
           /\ walk = "RECORDING" => Owner(s, walk) \notin ScreenOwners
  BY DEF Owner, Owners, ScreenOwners, Screen, Handoffs, TrackingState

\* Reconciling changes the owner and the tracker only.
LEMMA ReconciledFields ==
    ASSUME NEW s \in Screen, NEW walk \in TrackingState
    PROVE  LET r == Reconciled(s, walk)
           IN  /\ r \in Screen
               /\ r.visibility = s.visibility /\ r.feed = s.feed /\ r.source = s.source
               /\ r.handoff = s.handoff /\ r.walk = s.walk
               /\ r.owner = Owner(s, walk)
               /\ r.tracker = IF Owner(s, walk) = s.owner THEN s.tracker
                              ELSE IF Owner(s, walk) \notin ScreenOwners THEN "idle"
                              ELSE IF s.source # "none" THEN "running" ELSE s.tracker
  BY OwnerFacts DEF Reconciled, Screen

\* A ready screen is settled by reconciling it (reconcileOwnership).
LEMMA ReconciledSettles ==
    ASSUME NEW s, Ready(s), NEW walk \in TrackingState
    PROVE  ScreenInv(Reconciled(s, walk)) /\ Applied(Reconciled(s, walk), walk)
  <1> DEFINE r == Reconciled(s, walk)
  <1>1. s \in Screen
    BY DEF Ready
  <1>2. r.owner = Owner(s, walk) /\ Owner(r, walk) = Owner(s, walk)
    BY <1>1, ReconciledFields DEF Owner
  <1>3. Ready(r)
    BY <1>1, ReconciledFields, OwnerFacts DEF Ready, ScreenOwners, Screen
  <1>4. r.handoff # "NONE" => r.owner = "WALK_SERVICE_PENDING"
    BY <1>1, <1>2, ReconciledFields, OwnerFacts
  <1> QED
    BY <1>2, <1>3, <1>4 DEF ScreenInv, Applied

\* Whatever was subscribed, a switched feed is settled, if a replay is switched
\* to in sight and outside of a handoff (switchFeed).
LEMMA SwitchedSettles ==
    ASSUME NEW s \in Screen, NEW walk \in TrackingState,
           NEW feed \in {"DEVICE", "REPLAY"}, NEW source \in {"device", "replay"},
           feed = "REPLAY" => /\ source = "replay"
                              /\ s.visibility = "FOREGROUND"
                              /\ s.handoff = "NONE"
    PROVE  LET r == Switched(s, feed, source, walk)
           IN  ScreenInv(r) /\ Applied(r, walk) /\ r.handoff = s.handoff
  <1> DEFINE t == [s EXCEPT !.tracker = "idle", !.source = source, !.owner = None, !.feed = feed]
  <1>1. t \in Screen /\ t.tracker = "idle" /\ t.source = source /\ t.feed = feed
        /\ t.owner = None /\ t.visibility = s.visibility /\ t.handoff = s.handoff
    BY DEF Screen
  <1>2. None # "SCREEN_REPLAY"
    BY OwnersAssumption DEF Owners
  <1>3. Ready(t)
    BY <1>1, <1>2 DEF Ready
  <1> QED
    BY <1>1, <1>3, ReconciledSettles, ReconciledFields DEF Switched

\* The screen after it has collected a state is settled, and reserves nothing
\* for a recording (acceptWalkState).
LEMMA AcceptedSettles ==
    ASSUME NEW s, Ready(s), NEW state \in Published
    PROVE  LET r == Accepted(s, state)
           IN  /\ ScreenInv(r) /\ Applied(r, state.state)
               /\ state.state = "RECORDING" => r.handoff = "NONE"
  <1> DEFINE t == [s EXCEPT !.walk = state.state,
                            !.source = IF s.feed = "DEVICE" /\ state.state # "OFF" /\ @ = "none"
                                         THEN "device" ELSE @,
                            !.handoff = IF state.state = "RECORDING" \/ state.error
                                          THEN "NONE" ELSE @]
  <1>1. state.state \in TrackingState
    BY DEF Published
  <1>2. /\ t \in Screen /\ t.tracker = s.tracker /\ t.feed = s.feed
        /\ t.owner = s.owner /\ t.visibility = s.visibility
        /\ t.source = IF s.feed = "DEVICE" /\ state.state # "OFF" /\ s.source = "none"
                        THEN "device" ELSE s.source
        /\ t.handoff = IF state.state = "RECORDING" \/ state.error THEN "NONE" ELSE s.handoff
    BY <1>1 DEF Ready, Screen, Handoffs
  <1>3. Ready(t)
    BY <1>2 DEF Ready
  <1>4. Accepted(s, state) = Reconciled(t, state.state)
    BY DEF Accepted
  <1> HIDE DEF t
  <1>5. /\ ScreenInv(Reconciled(t, state.state))
        /\ Applied(Reconciled(t, state.state), state.state)
    BY <1>1, <1>3, ReconciledSettles
  <1>6. Reconciled(t, state.state).handoff = t.handoff
    BY <1>1, <1>2, ReconciledFields
  <1> QED
    BY <1>2, <1>4, <1>5, <1>6

\* The view model starts out settled, whatever the walk it finds.
LEMMA FreshSettles ==
    ASSUME NEW state \in Published
    PROVE  /\ ScreenInv(Fresh(state)) /\ Applied(Fresh(state), state.state)
           /\ state.state = "RECORDING" => Fresh(state).handoff = "NONE"
  <1> DEFINE t == [visibility |-> "BACKGROUND", feed |-> "DEVICE",
                   source |-> IF state.state = "OFF" THEN "none" ELSE "device",
                   handoff |-> "NONE", owner |-> None, tracker |-> "idle", walk |-> "OFF"]
  <1>1. Ready(t)
    BY OwnersAssumption DEF Ready, Screen, Handoffs, Owners, TrackingState
  <1> QED
    BY <1>1, AcceptedSettles DEF Fresh

------------------------------------------------------------------------------
\* The inductive step

\* An event that leaves the published walk alone and settles the screen by it.
LEMMA ScreenEvent ==
    ASSUME TypeOK', UNCHANGED <<recorder, collecting, shown, pending>>,
           collecting => recorder = "RECORDING",
           ScreenInv(screen'), Applied(screen', Walk),
           ~pending /\ Walk = "RECORDING" => screen'.handoff = "NONE"
    PROVE  IInv'
  BY DEF IInv, Applied, Walk

\* An event that touches neither the screen nor what it is told.
LEMMA ServiceEvent ==
    ASSUME IInv, TypeOK', UNCHANGED <<screen, shown, pending>>,
           collecting' => recorder' = "RECORDING"
    PROVE  IInv'
  BY DEF IInv, Applied, Walk

\* A publication on the main thread keeps the screen settled, whether it is
\* collected at once or later.
LEMMA PublishedOnMain ==
    ASSUME IInv, TypeOK', NEW state \in Published, PublishOnMain(state),
           collecting' => recorder' = "RECORDING"
    PROVE  IInv'
  <1>1. Ready(screen)
    BY DEF IInv, ScreenInv
  <1>2. CASE pending
    BY <1>2 DEF PublishOnMain, IInv
  <1>3. CASE ~pending
    <2>1. screen' = Accepted(screen, state) /\ shown' = state
      BY <1>3 DEF PublishOnMain
    <2> QED
      BY <1>1, <2>1, AcceptedSettles DEF IInv, Walk, Applied
  <1> QED
    BY <1>2, <1>3

LEMMA Initially == Init => IInv
  <1> SUFFICES ASSUME Init PROVE IInv
    OBVIOUS
  <1>1. Quiet \in Published
    BY DEF Quiet, Published, TrackingState
  <1>2. ScreenInv(screen) /\ Applied(screen, Walk)
    BY <1>1, FreshSettles DEF Init, Walk, Quiet
  <1>3. intents \in Seq(Intents) /\ Len(intents) <= MaxIntents
    BY BoundsAssumption DEF Init
  <1>4. fixes \in 0 .. MaxFixes /\ stopping \in 0 .. MaxStops
    BY BoundsAssumption DEF Init
  <1>5. TypeOK
    BY <1>1, <1>2, <1>3, <1>4 DEF Init, TypeOK, ScreenInv, Ready, TrackingState
  <1> QED
    BY <1>2, <1>5 DEF IInv, Init, Walk, Quiet

\* Everything the screen does keeps the invariant.
LEMMA ScreenSteps == IInv /\ OnScreen => IInv'
  <1> SUFFICES ASSUME IInv, OnScreen PROVE IInv'
    OBVIOUS
  <1>1. /\ TypeOK /\ ScreenInv(screen) /\ Ready(screen) /\ screen \in Screen
        /\ Walk \in TrackingState /\ shown \in Published
        /\ collecting => recorder = "RECORDING"
        /\ ~pending => Applied(screen, Walk)
        /\ ~pending /\ Walk = "RECORDING" => screen.handoff = "NONE"
    BY DEF IInv, TypeOK, ScreenInv, Ready, Walk, Published
  <1>2. CASE Foreground
    <2> DEFINE t == [screen EXCEPT !.visibility = "FOREGROUND"]
    <2>1. Ready(t) /\ t.handoff = screen.handoff
      BY <1>1 DEF Ready, Screen
    <2> HIDE DEF t
    <2>2. screen' = Reconciled(t, Walk)
      BY <1>2 DEF Foreground, t
    <2>3. ScreenInv(screen') /\ Applied(screen', Walk) /\ screen'.handoff = screen.handoff
      BY <1>1, <2>1, <2>2, ReconciledSettles, ReconciledFields DEF Ready
    <2>4. TypeOK'
      BY <1>1, <1>2, <2>3 DEF Foreground, service, TypeOK, ScreenInv, Ready
    <2> QED
      BY <1>1, <1>2, <2>3, <2>4, ScreenEvent DEF Foreground, service
  <1>3. CASE Background
    <2> DEFINE t == [screen EXCEPT !.visibility = "BACKGROUND"]
    <2>1. t \in Screen /\ t.handoff = screen.handoff /\ t.feed = screen.feed
      BY <1>1 DEF Screen
    <2>2. screen.feed # "REPLAY" => Ready(t)
      BY <1>1 DEF Ready, Screen
    <2> HIDE DEF t
    <2>3. ScreenInv(screen') /\ Applied(screen', Walk) /\ screen'.handoff = screen.handoff
      <3>1. CASE screen.feed = "REPLAY"
        <4>1. screen' = Switched(t, "DEVICE", "device", Walk)
          BY <1>3, <2>1, <3>1 DEF Background, ReplayEnded, t
        <4> QED
          BY <1>1, <2>1, <4>1, SwitchedSettles
      <3>2. CASE screen.feed # "REPLAY"
        <4>1. screen' = Reconciled(t, Walk)
          BY <1>3, <3>2 DEF Background, t
        <4> QED
          BY <1>1, <2>1, <2>2, <3>2, <4>1, ReconciledSettles, ReconciledFields
      <3> QED
        BY <3>1, <3>2
    <2>4. TypeOK'
      BY <1>1, <1>3, <2>3 DEF Background, service, TypeOK, ScreenInv, Ready
    <2> QED
      BY <1>1, <1>3, <2>3, <2>4, ScreenEvent DEF Background, service
  <1>4. CASE Recreate
    <2>1. /\ ScreenInv(screen') /\ Applied(screen', Walk)
          /\ Walk = "RECORDING" => screen'.handoff = "NONE"
      BY <1>1, <1>4, FreshSettles DEF Recreate, Walk
    <2>2. TypeOK'
      <3>1. fixes' \in 0 .. MaxFixes
        BY <1>4, BoundsAssumption DEF Recreate
      <3>2. pending' \in BOOLEAN
        BY <1>4 DEF Recreate
      <3> QED
        BY <1>1, <1>4, <2>1, <3>1, <3>2 DEF Recreate, service, TypeOK, ScreenInv, Ready
    <2>3. Walk' = Walk /\ collecting' = collecting /\ recorder' = recorder
      BY <1>4 DEF Recreate, service, Walk
    <2> QED
      BY <1>1, <2>1, <2>2, <2>3 DEF IInv, Applied
  <1>5. CASE StartReplay
    <2>1. screen' = Switched(screen, "REPLAY", "replay", Walk)
          /\ screen.visibility = "FOREGROUND" /\ screen.handoff = "NONE"
      BY <1>5 DEF StartReplay
    <2>2. ScreenInv(screen') /\ Applied(screen', Walk) /\ screen'.handoff = screen.handoff
      BY <1>1, <2>1, SwitchedSettles
    <2>3. TypeOK'
      BY <1>1, <1>5, <2>2 DEF StartReplay, service, TypeOK, ScreenInv, Ready
    <2> QED
      BY <1>1, <1>5, <2>2, <2>3, ScreenEvent DEF StartReplay, service
  <1>6. CASE FeedEnds
    <2> DEFINE t == [screen EXCEPT !.tracker = "ended"]
    <2>1. /\ t \in Screen /\ t.feed = screen.feed /\ t.handoff = screen.handoff
          /\ screen.feed # "REPLAY" => /\ ScreenInv(t)
                                       /\ Owner(t, Walk) = Owner(screen, Walk)
                                       /\ t.owner = screen.owner
      BY <1>1, <1>6 DEF FeedEnds, ScreenInv, Ready, Screen, Owner
    <2> HIDE DEF t
    <2>2. screen' = ReplayEnded(t, Walk)
      BY <1>6 DEF FeedEnds, t
    <2>3. /\ ScreenInv(screen')
          /\ ~pending => Applied(screen', Walk)
          /\ screen'.handoff = screen.handoff
      BY <1>1, <2>1, <2>2, SwitchedSettles DEF ReplayEnded, Applied
    <2>4. TypeOK'
      BY <1>1, <1>6, <2>3 DEF FeedEnds, service, TypeOK, ScreenInv, Ready
    <2> QED
      BY <1>1, <1>6, <2>3, <2>4 DEF IInv, FeedEnds, service, Applied, Walk
  <1>7. CASE RequestFix
    <2>1. TypeOK'
      BY <1>1, <1>7, BoundsAssumption DEF RequestFix, service, TypeOK
    <2> QED
      BY <1>1, <1>7, <2>1, ServiceEvent DEF RequestFix, service
  <1>8. CASE FixReturns
    <2>1. CASE screen' = screen
      <3>1. TypeOK'
        BY <1>1, <1>8, <2>1, BoundsAssumption DEF FixReturns, service, TypeOK
      <3> QED
        BY <1>1, <1>8, <2>1, <3>1, ServiceEvent DEF FixReturns, service
    <2>2. CASE screen' = Switched(screen, "DEVICE", "device", Walk)
      <3>1. ScreenInv(screen') /\ Applied(screen', Walk) /\ screen'.handoff = screen.handoff
        BY <1>1, <2>2, SwitchedSettles
      <3>2. TypeOK'
        BY <1>1, <1>8, <3>1, BoundsAssumption DEF FixReturns, service, TypeOK, ScreenInv, Ready
      <3> QED
        BY <1>1, <1>8, <3>1, <3>2, ScreenEvent DEF FixReturns, service
    <2> QED
      BY <1>8, <2>1, <2>2 DEF FixReturns
  <1>9. CASE PressStart \/ PressResume
    <2>1. PICK handoff \in {"STARTING", "RESUMING"}, intent \in {"START", "RESUME"} :
            /\ Command(intent, handoff)
            /\ handoff = "STARTING" => screen.feed = "DEVICE"
            /\ Walk # "RECORDING"
      BY <1>9 DEF PressStart, PressResume
    <2>2. ScreenInv(Reserved(handoff)) /\ Applied(Reserved(handoff), Walk)
      <3> DEFINE t == [screen EXCEPT !.handoff = handoff]
      <3>1. Ready(t)
        BY <1>1, <2>1 DEF Ready, Screen, Handoffs
      <3> HIDE DEF t
      <3> QED
        BY <1>1, <3>1, ReconciledSettles DEF Reserved, t
    <2>3. ScreenInv(Cancelled(Reserved(handoff))) /\ Applied(Cancelled(Reserved(handoff)), Walk)
      <3> DEFINE u == Reserved(handoff)
                 t == [u EXCEPT !.handoff = "NONE"]
      <3> HIDE DEF u
      <3>1. Ready(t)
        BY <2>2 DEF u, ScreenInv, Ready, Screen, Handoffs
      <3>2. Cancelled(u) = Reconciled(t, Walk)
        BY DEF Cancelled
      <3> HIDE DEF t
      <3> QED
        BY <1>1, <3>1, <3>2, ReconciledSettles DEF u
    <2>4. ScreenInv(screen') /\ Applied(screen', Walk)
      BY <2>1, <2>2, <2>3 DEF Command
    <2>5. TypeOK'
      <3>1. intents' \in Seq(Intents) /\ Len(intents') <= MaxIntents
        BY <1>1, <2>1, BoundsAssumption DEF Command, Send, TypeOK, Intents
      <3> QED
        BY <1>1, <2>1, <2>4, <3>1 DEF Command, service, TypeOK, ScreenInv, Ready
    <2> QED
      BY <1>1, <2>1, <2>4, <2>5, ScreenEvent DEF Command, service
  <1>10. ASSUME NEW i \in {"PAUSE", "RESUME", "STOP"}, PressOther(i)
         PROVE  IInv'
    <2>1. intents' \in Seq(Intents) /\ Len(intents') <= MaxIntents
      BY <1>1, <1>10, BoundsAssumption DEF PressOther, Send, TypeOK, Intents
    <2>2. TypeOK'
      BY <1>1, <1>10, <2>1 DEF PressOther, service, TypeOK
    <2> QED
      BY <1>1, <1>10, <2>2, ServiceEvent DEF PressOther, service
  <1>11. CASE Collect
    <2>1. /\ ScreenInv(screen') /\ Applied(screen', Walk)
          /\ Walk = "RECORDING" => screen'.handoff = "NONE"
      BY <1>1, <1>11, AcceptedSettles DEF Collect, Walk
    <2>2. TypeOK'
      BY <1>1, <1>11, <2>1 DEF Collect, service, TypeOK, ScreenInv, Ready
    <2> QED
      BY <1>1, <1>11, <2>1, <2>2 DEF IInv, Collect, service, Applied, Walk
  <1> QED
    BY <1>2, <1>3, <1>4, <1>5, <1>6, <1>7, <1>8, <1>9, <1>10, <1>11 DEF OnScreen

\* Everything the service does keeps the invariant.
LEMMA ServiceSteps == IInv /\ InService => IInv'
  <1> SUFFICES ASSUME IInv, InService PROVE IInv'
    OBVIOUS
  <1>1. /\ TypeOK /\ ScreenInv(screen) /\ Ready(screen)
        /\ collecting => recorder = "RECORDING"
    BY DEF IInv, ScreenInv
  <1>2. ASSUME NEW state \in Published, PublishOnMain(state)
        PROVE  screen' \in Screen /\ shown' \in Published /\ pending' \in BOOLEAN
    BY <1>1, <1>2, AcceptedSettles DEF PublishOnMain, TypeOK, ScreenInv, Ready
  <1>3. ASSUME NEW intent, Deliver(intent)
        PROVE  intents' \in Seq(Intents) /\ Len(intents') <= MaxIntents
    BY <1>1, <1>3, BoundsAssumption DEF Deliver, TypeOK
  <1>4. \A state \in TrackingState : Plain(state) \in Published /\ Failing(state) \in Published
    BY DEF Plain, Failing, Published
  <1>5. CASE StartRecording
    <2>1. PublishOnMain(Plain("RECORDING")) /\ Deliver("START") /\ Plain("RECORDING") \in Published
      BY <1>4, <1>5 DEF StartRecording, TrackingState
    <2>2. TypeOK'
      BY <1>1, <1>2, <1>3, <1>5, <2>1 DEF StartRecording, TypeOK, TrackingState
    <2> QED
      BY <1>5, <2>1, <2>2, PublishedOnMain DEF StartRecording
  <1>6. CASE PauseRecording
    <2>1. PublishOnMain(Plain("PAUSED")) /\ Deliver("PAUSE") /\ Plain("PAUSED") \in Published
      BY <1>4, <1>6 DEF PauseRecording, TrackingState
    <2>2. TypeOK'
      BY <1>1, <1>2, <1>3, <1>6, <2>1 DEF PauseRecording, TypeOK, TrackingState
    <2> QED
      BY <1>6, <2>1, <2>2, PublishedOnMain DEF PauseRecording
  <1>7. CASE ResumeRecording
    <2>1. /\ PublishOnMain(Plain("RECORDING")) /\ Deliver("RESUME")
          /\ Plain("RECORDING") \in Published
      BY <1>4, <1>7 DEF ResumeRecording, TrackingState
    <2>2. TypeOK'
      BY <1>1, <1>2, <1>3, <1>7, <2>1 DEF ResumeRecording, TypeOK, TrackingState
    <2> QED
      BY <1>7, <2>1, <2>2, PublishedOnMain DEF ResumeRecording
  <1>8. CASE StopRecording
    <2>1. PublishOnMain(Plain("OFF")) /\ Deliver("STOP") /\ Plain("OFF") \in Published
      BY <1>4, <1>8 DEF StopRecording, TrackingState
    <2>2. stopping' \in 0 .. MaxStops
      BY <1>1, <1>8, BoundsAssumption DEF StopRecording, TypeOK
    <2>3. TypeOK'
      BY <1>1, <1>2, <1>3, <1>8, <2>1, <2>2 DEF StopRecording, TypeOK, TrackingState
    <2> QED
      BY <1>8, <2>1, <2>3, PublishedOnMain DEF StopRecording
  <1>9. CASE Ignore
    <2>1. intents' \in Seq(Intents) /\ Len(intents') <= MaxIntents
      BY <1>3, <1>9 DEF Ignore
    <2>2. TypeOK'
      BY <1>1, <1>9, <2>1 DEF Ignore, service, TypeOK
    <2> QED
      BY <1>1, <1>9, <2>2, ServiceEvent DEF Ignore, service
  <1>10. CASE Destroy
    <2>1. /\ intents' \in Seq(Intents) /\ Len(intents') <= MaxIntents
          /\ publishing' \subseteq Published /\ adding' = None
          /\ stopping' \in 0 .. MaxStops
      BY <1>1, <1>3, <1>4, <1>10, BoundsAssumption DEF Destroy, TypeOK
    <2>2. CASE recorder = "OFF"
      <3>1. TypeOK'
        BY <1>1, <1>10, <2>1, <2>2 DEF Destroy, TypeOK, TrackingState
      <3> QED
        BY <1>10, <2>2, <3>1, ServiceEvent DEF Destroy
    <2>3. CASE recorder # "OFF"
      <3>1. PublishOnMain(Failing("PAUSED")) /\ Failing("PAUSED") \in Published
        BY <1>4, <1>10, <2>3 DEF Destroy, TrackingState
      <3>2. TypeOK'
        BY <1>1, <1>2, <1>10, <2>1, <3>1 DEF Destroy, TypeOK, TrackingState
      <3> QED
        BY <1>10, <3>1, <3>2, PublishedOnMain DEF Destroy
    <2> QED
      BY <2>2, <2>3
  <1>11. CASE Emit \/ AddRead
    <2>1. TypeOK'
      BY <1>1, <1>11 DEF Emit, AddRead, TypeOK
    <2> QED
      BY <1>1, <1>11, <2>1, ServiceEvent DEF Emit, AddRead
  <1>12. CASE AddReturn
    <2>1. publishing' \subseteq Published
      BY <1>1, <1>4, <1>12 DEF AddReturn, TypeOK
    <2>2. TypeOK'
      BY <1>1, <1>12, <2>1 DEF AddReturn, TypeOK, TrackingState
    <2> QED
      BY <1>1, <1>12, <2>2, ServiceEvent DEF AddReturn
  <1>13. CASE FeedProblem \/ StorageFailure
    <2>1. recorder' \in TrackingState
      BY <1>1, <1>13 DEF FeedProblem, StorageFailure, TypeOK, TrackingState
    <2>2. publishing' \subseteq Published
      BY <1>1, <1>4, <1>13, <2>1 DEF FeedProblem, StorageFailure, TypeOK
    <2>3. TypeOK'
      BY <1>1, <1>13, <2>1, <2>2 DEF FeedProblem, StorageFailure, TypeOK
    <2> QED
      BY <1>1, <1>13, <2>3, ServiceEvent DEF FeedProblem, StorageFailure
  <1>14. ASSUME NEW state \in Published, Publish(state)
         PROVE  IInv'
    <2>1. TypeOK'
      BY <1>1, <1>14 DEF Publish, TypeOK
    <2> QED
      BY <1>1, <1>14, <2>1 DEF IInv, Publish
  <1>15. CASE StopSelf
    <2>1. /\ intents' \in Seq(Intents) /\ Len(intents') <= MaxIntents
          /\ stopping' \in 0 .. MaxStops
      BY <1>1, <1>15, BoundsAssumption DEF StopSelf, Send, TypeOK, Intents
    <2>2. TypeOK'
      BY <1>1, <1>15, <2>1 DEF StopSelf, TypeOK
    <2> QED
      BY <1>1, <1>15, <2>2, ServiceEvent DEF StopSelf
  <1> QED
    BY <1>5, <1>6, <1>7, <1>8, <1>9, <1>10, <1>11, <1>12, <1>13, <1>14, <1>15 DEF InService

\* Nothing happens, nothing changes.
LEMMA Stuttering == IInv /\ UNCHANGED vars => IInv'
  BY DEF IInv, vars, service, TypeOK, Applied, Walk

THEOREM Inductive == Spec => []IInv
  <1>1. Init => IInv
    BY Initially
  <1>2. IInv /\ [Next]_vars => IInv'
    BY ScreenSteps, ServiceSteps, Stuttering DEF Next
  <1> QED
    BY <1>1, <1>2, PTL DEF Spec

------------------------------------------------------------------------------
\* The properties

\* Every variable of the screen and the service holds what the code declares.
THEOREM TypesHold == Spec => []TypeOK
  <1>1. IInv => TypeOK
    BY DEF IInv
  <1> QED
    BY <1>1, Inductive, PTL

\* However the current walk came about, the subscription of the screen is what
\* LocationOwnershipPolicy decides on it (reconcileOwnership).
THEOREM PolicyIsApplied == Spec => []ScreenFollowsPolicy
  <1>1. IInv => ScreenFollowsPolicy
    BY DEF IInv, ScreenInv, Ready, Applied, ScreenFollowsPolicy
  <1> QED
    BY <1>1, Inductive, PTL

\* No event breaks a reservation, and a recording ends it (prepareWalkStart,
\* acceptWalkState).
THEOREM ReservationsHold == Spec => []ReservationHolds
  <1>1. IInv => ReservationHolds
    BY DEF IInv, ScreenInv, Ready, ReservationHolds, ScreenOwners
  <1> QED
    BY <1>1, Inductive, PTL

\* The contract of the two trackers, once the screen has seen what the recorder
\* says.
THEOREM OneSubscribes == Spec => []OneSubscriber
  <1>1. IInv => OneSubscriber
    <2> SUFFICES ASSUME IInv, ~pending, Walk = recorder, collecting
                 PROVE  screen.tracker # "running"
      BY DEF OneSubscriber
    <2>1. screen \in Screen /\ Walk = "RECORDING" /\ Walk \in TrackingState
      BY DEF IInv, ScreenInv, Ready, TrackingState
    <2>2. screen.owner \notin ScreenOwners
      BY <2>1, OwnerFacts DEF IInv, Applied
    <2> QED
      BY <2>2 DEF IInv, ScreenInv, Ready
  <1> QED
    BY <1>1, Inductive, PTL

------------------------------------------------------------------------------
(***************************************************************************)
(* The searches.  A call under way is newer than nothing the screen keeps, *)
(* and the newest one asks for what the screen says was asked.             *)
(***************************************************************************)

Ui == [device : Points \union {Nil}, camera : Points \union {Nil},
       wanted : Wishes \union {Nil}, locating : BOOLEAN]
Discovery == [asked : Request \union {Nil}, mode : {"DEVICE", "PINNED"},
              response : [asked : Request, places : Found] \union {Nil},
              selected : Places \union {Nil}, loading : BOOLEAN, error : BOOLEAN,
              generation : Nat]
WayShown == [dest : Places \union {Nil}, loading : BOOLEAN, item : Way \union {Nil},
             error : BOOLEAN, since : Nat]
Journey == [state : WayShown, last : Way \union {Nil}, generation : Nat]
Search == [request : Request, generation : Nat]
Route == [request : Way, since : Nat, generation : Nat]

SearchTypes ==
    /\ ui \in Ui /\ discovery \in Discovery /\ journey \in Journey
    /\ locates \in [Wishes \union {Nil} -> Nat]
    /\ searches \subseteq Search /\ routes \subseteq Route
    /\ chosen \in {"none", "device", "pinned"}
    /\ begun \in Nat

\* The list of places.
ListAsked ==
    /\ \A call \in searches :
         /\ call.generation <= discovery.generation
         /\ IsNewest(call, discovery.generation) => call.request = discovery.asked
    /\ discovery.loading => \E call \in searches : IsNewest(call, discovery.generation)
    /\ discovery.asked # Nil => discovery.loading \/ discovery.error \/ discovery.response # Nil
    /\ discovery.response # Nil =>
         /\ discovery.response.asked = discovery.asked
         /\ discovery.selected # Nil => Shows(discovery.selected)

\* The way to one of them.
WayAsked ==
    /\ \A call \in routes :
         /\ call.generation <= journey.generation
         /\ IsNewest(call, journey.generation) => call.request = journey.last /\ call.since = begun
    /\ journey.state.loading => \E call \in routes : IsNewest(call, journey.generation)
    /\ journey.state.dest # Nil =>
         /\ journey.state.since = begun
         /\ journey.state.loading \/ journey.state.error \/ journey.state.item # Nil
    /\ journey.state.item # Nil =>
         journey.state.item = journey.last /\ journey.state.dest = journey.state.item.place

\* The position waited for: the screen waits for what it wants now, and wants
\* nothing once a place was pinned.
PositionAwaited ==
    /\ ui.locating => locates[ui.wanted] > 0
    /\ chosen = "pinned" => discovery.mode = "PINNED" /\ ui.wanted = Nil

SearchInv == SearchTypes /\ ListAsked /\ WayAsked /\ PositionAwaited

\* A search sent: it is the newest, and nothing of an older one is shown.
LEMMA SubmitAsks ==
    ASSUME SearchTypes, ListAsked, NEW request \in Request, NEW mode \in {"DEVICE", "PINNED"},
           Submit(request, mode)
    PROVE  /\ searches' \subseteq Search
           /\ discovery' \in Discovery
           /\ discovery'.mode = mode
           /\ ListAsked'
  <1> DEFINE call == [request |-> request, generation |-> discovery.generation + 1]
  <1>1. /\ discovery' = [asked |-> request, mode |-> mode, response |-> Nil, selected |-> Nil,
                         loading |-> TRUE, error |-> FALSE, generation |-> discovery.generation + 1]
        /\ searches' = searches \union {call}
    BY DEF Submit
  <1>2. discovery.generation \in Nat
    BY DEF SearchTypes, Ui, Discovery, WayShown, Journey, Search, Route
  <1>3. call \in Search
    BY <1>2 DEF Search
  <1>4. \A c \in searches : c.generation \in Nat /\ c.generation <= discovery.generation
    BY DEF SearchTypes, Ui, Discovery, WayShown, Journey, Search, Route, ListAsked
  <1>5. ListAsked'
    BY <1>1, <1>2, <1>3, <1>4 DEF ListAsked, IsNewest
  <1> QED
    BY <1>1, <1>2, <1>3, <1>5 DEF SearchTypes, Ui, Discovery, WayShown, Journey, Search, Route

\* A search begun takes the journey and the wait for a position with it.
LEMMA BeginKeeps ==
    ASSUME SearchInv, NEW u, NEW origin \in Points, NEW wish \in Wishes,
           NEW mode \in {"DEVICE", "PINNED"},
           u \in Ui,
           Begin(u, origin, wish, mode), UNCHANGED routes,
           locates' \in [Wishes \union {Nil} -> Nat],
           chosen' \in {"none", "device", "pinned"}, chosen' = "pinned" => mode = "PINNED"
    PROVE  SearchInv'
  <1> USE DEF SearchInv
  <1>1. [origin |-> origin, wish |-> wish] \in Request
    BY DEF Request
  <1>2. /\ ui' = [u EXCEPT !.wanted = Nil, !.locating = FALSE]
        /\ journey' = [journey EXCEPT !.last = Nil, !.state = NoJourney,
                                     !.generation = journey.generation + 1]
        /\ begun' = begun + 1
        /\ Submit([origin |-> origin, wish |-> wish], mode)
    BY DEF Begin, Settled, Cleared
  <1>3. SearchTypes'
    <2>1. ui' \in Ui
      BY <1>2 DEF Ui
    <2>2. NoJourney \in WayShown
      BY DEF NoJourney, WayShown
    <2>3. journey' = [state |-> NoJourney, last |-> Nil, generation |-> journey.generation + 1]
      BY <1>2 DEF SearchTypes, Journey
    <2>4. journey' \in Journey
      BY <2>2, <2>3 DEF SearchTypes, Journey
    <2> QED
      BY <1>1, <1>2, <2>1, <2>4, SubmitAsks DEF SearchTypes
  <1>4. ListAsked'
    BY <1>1, <1>2, SubmitAsks
  <1>5. WayAsked'
    <2>1. \A call \in routes : call.generation \in Nat /\ call.generation <= journey.generation
      BY DEF SearchTypes, Ui, Discovery, WayShown, Journey, Search, Route, WayAsked
    <2>2. /\ journey'.generation = journey.generation + 1 /\ journey.generation \in Nat
          /\ journey'.state = NoJourney
      BY <1>2 DEF SearchTypes, Ui, Discovery, WayShown, Journey, Search, Route
    <2> QED
      BY <2>1, <2>2 DEF WayAsked, IsNewest, NoJourney
  <1>6. PositionAwaited'
    BY <1>1, <1>2, SubmitAsks DEF PositionAwaited
  <1> QED
    BY <1>3, <1>4, <1>5, <1>6

\* A position asked for is one that is wanted.
LEMMA LocateKeeps ==
    ASSUME SearchInv, NEW wish \in Wishes \union {Nil}, Locate(ui, wish), UNCHANGED routes,
           chosen' \in {"none", "device", "pinned"},
           chosen' = "pinned" => wish = Nil /\ chosen = "pinned"
    PROVE  SearchInv'
  <1> USE DEF SearchInv
  <1>1. /\ ui' = [ui EXCEPT !.wanted = wish, !.locating = TRUE]
        /\ locates' = [locates EXCEPT ![wish] = locates[wish] + 1]
        /\ UNCHANGED <<discovery, journey, searches, begun>>
    BY DEF Locate
  <1>2. SearchTypes'
    <2>1. ui' \in Ui
      BY <1>1 DEF SearchTypes, Ui
    <2>2. locates' \in [Wishes \union {Nil} -> Nat]
      BY <1>1 DEF SearchTypes
    <2> QED
      BY <1>1, <2>1, <2>2 DEF SearchTypes
  <1>3. ListAsked' /\ WayAsked'
    BY <1>1 DEF ListAsked, WayAsked, Shows
  <1>4. PositionAwaited'
    BY <1>1 DEF PositionAwaited, SearchTypes, Ui, Discovery, WayShown, Journey, Search, Route
  <1> QED
    BY <1>2, <1>3, <1>4

LEMMA SearchHereKeeps ==
    ASSUME SearchInv, NEW wish \in Wishes, SearchHere(wish)
    PROVE  SearchInv'
  <1>1. CASE ui.device # Nil
    <2>1. ui.device \in Points
      BY <1>1 DEF SearchInv, SearchTypes, Ui, Discovery, WayShown, Journey, Search, Route
    <2> QED
      BY <1>1, <2>1, BeginKeeps DEF SearchHere, SearchInv, SearchTypes, Ui, Discovery, WayShown, Journey, Search, Route
  <1>2. CASE ui.device = Nil
    BY <1>2, LocateKeeps DEF SearchHere
  <1> QED
    BY <1>1, <1>2

LEMMA LocateAndSearchKeeps ==
    ASSUME SearchInv, NEW wish \in Wishes, LocateAndSearch(wish)
    PROVE  SearchInv'
  BY LocateKeeps DEF LocateAndSearch

LEMMA UseDeviceKeeps == ASSUME SearchInv, UseDevice PROVE SearchInv'
  BY LocateKeeps DEF UseDevice, SearchInv, SearchTypes, Ui, Discovery, WayShown, Journey, Search, Route

LEMMA PinnedKeeps ==
    ASSUME SearchInv, NEW wish \in Wishes, SearchAtCamera(wish) \/ SearchAtOrigin(wish)
    PROVE  SearchInv'
  <1>1. CASE SearchAtCamera(wish)
    <2>1. ui.camera \in Points
      BY <1>1 DEF SearchInv, SearchTypes, Ui, Discovery, WayShown, Journey, Search, Route, SearchAtCamera
    <2> QED
      BY <1>1, <2>1, BeginKeeps DEF SearchAtCamera, SearchInv, SearchTypes, Ui, Discovery, WayShown, Journey, Search, Route
  <1>2. CASE SearchAtOrigin(wish) /\ discovery.mode = "PINNED" /\ discovery.asked # Nil
    <2>1. discovery.asked.origin \in Points
      BY <1>2 DEF SearchInv, SearchTypes, Ui, Discovery, WayShown, Journey, Search, Route, Request
    <2> QED
      BY <1>2, <2>1, BeginKeeps DEF SearchAtOrigin, SearchInv, SearchTypes, Ui, Discovery, WayShown, Journey, Search, Route
  <1>3. CASE SearchAtOrigin(wish) /\ ~(discovery.mode = "PINNED" /\ discovery.asked # Nil)
    BY <1>3, SearchHereKeeps DEF SearchAtOrigin
  <1> QED
    BY <1>1, <1>2, <1>3

LEMMA RetryKeeps == ASSUME SearchInv, Retry PROVE SearchInv'
  <1>1. ui.wanted # Nil => ui.wanted \in Wishes
    BY DEF SearchInv, SearchTypes, Ui, Discovery, WayShown, Journey, Search, Route
  <1> QED
    BY <1>1, UseDeviceKeeps, LocateAndSearchKeeps DEF Retry

LEMMA RetrySearchKeeps == ASSUME SearchInv, RetrySearch PROVE SearchInv'
  <1> USE DEF SearchInv
  <1>1. UNCHANGED <<ui, journey, locates, routes, chosen, begun>>
    BY DEF RetrySearch
  <1>2. CASE discovery.asked # Nil
    <2>1. Submit(discovery.asked, discovery.mode)
      BY <1>2 DEF RetrySearch
    <2>2. discovery.asked \in Request /\ discovery.mode \in {"DEVICE", "PINNED"}
      BY <1>2 DEF SearchTypes, Ui, Discovery, WayShown, Journey, Search, Route
    <2>3. SearchTypes' /\ ListAsked' /\ discovery'.mode = discovery.mode
      BY <1>1, <2>1, <2>2, SubmitAsks DEF SearchTypes, Ui, Discovery, WayShown, Journey, Search, Route
    <2> QED
      BY <1>1, <2>3 DEF WayAsked, PositionAwaited
  <1>3. CASE discovery.asked = Nil
    <2>1. discovery' = [discovery EXCEPT !.error = TRUE] /\ UNCHANGED searches
      BY <1>3 DEF RetrySearch
    <2>2. SearchTypes'
      BY <1>1, <2>1, ZenonT(30) DEF SearchTypes, Ui, Discovery, WayShown, Journey, Search, Route
    <2>3. ListAsked'
      BY <2>1 DEF ListAsked, SearchTypes, Ui, Discovery, WayShown, Journey, Search, Route, Shows, IsNewest
    <2> QED
      BY <1>1, <2>1, <2>2, <2>3 DEF WayAsked, PositionAwaited, SearchTypes, Ui, Discovery, WayShown, Journey, Search, Route
  <1> QED
    BY <1>2, <1>3

\* The screen's own events: nothing of the calls changes.
LEMMA ScreenKeeps ==
    ASSUME SearchInv,
           \/ ElsewhereFails
           \/ \E point \in Points : CameraIdle(point) \/ Feed(point)
           \/ \E place \in Places : Select(place)
    PROVE  SearchInv'
  <1> USE DEF SearchInv
  <1>1. CASE ElsewhereFails \/ \E point \in Points : CameraIdle(point) \/ Feed(point)
    <2>1. UNCHANGED <<discovery, journey, locates, searches, routes, chosen, begun>>
      BY <1>1 DEF ElsewhereFails, CameraIdle, Feed
    <2>2. /\ ui' \in Ui
          /\ ui'.wanted = ui.wanted /\ (ui'.locating => ui.locating)
      BY <1>1 DEF ElsewhereFails, CameraIdle, Feed, Failed, SearchTypes, Ui, Discovery, WayShown, Journey, Search, Route
    <2> QED
      BY <2>1, <2>2 DEF SearchTypes, Ui, Discovery, WayShown, Journey, Search, Route, ListAsked, WayAsked, PositionAwaited, Shows
  <1>2. ASSUME NEW place \in Places, Select(place)
        PROVE  SearchInv'
    <2>1. /\ discovery' = [discovery EXCEPT !.selected = place] /\ Shows(place)
          /\ UNCHANGED <<ui, journey, locates, searches, routes, chosen, begun>>
      BY <1>2 DEF Select
    <2>2. SearchTypes'
      BY <2>1 DEF SearchTypes, Ui, Discovery, WayShown, Journey, Search, Route
    <2>3. ListAsked'
      BY <2>1 DEF ListAsked, SearchTypes, Ui, Discovery, WayShown, Journey, Search, Route, Shows, IsNewest
    <2> QED
      BY <2>1, <2>2, <2>3 DEF WayAsked, PositionAwaited, SearchTypes, Ui, Discovery, WayShown, Journey, Search, Route
  <1> QED
    BY <1>1, <1>2

\* A journey loaded is the newest.
LEMMA SubmitRouteKeeps ==
    ASSUME SearchInv, NEW request \in Way, SubmitRoute(request),
           UNCHANGED <<ui, discovery, locates, searches, chosen, begun>>
    PROVE  SearchInv'
  <1> USE DEF SearchInv
  <1> DEFINE call == [request |-> request, since |-> begun, generation |-> journey.generation + 1]
  <1>1. /\ journey' = [last |-> request, generation |-> journey.generation + 1,
                       state |-> [NoJourney EXCEPT !.dest = request.place, !.loading = TRUE,
                                                   !.since = begun]]
        /\ routes' = routes \union {call}
    BY DEF SubmitRoute
  <1>2. journey.generation \in Nat /\ begun \in Nat /\ request.place \in Places
    BY DEF SearchTypes, Ui, Discovery, WayShown, Journey, Search, Route, Way
  <1>3. call \in Route
    BY <1>2 DEF Route
  <1>4. journey'.state = [dest |-> request.place, loading |-> TRUE, item |-> Nil,
                         error |-> FALSE, since |-> begun]
    BY <1>1 DEF NoJourney
  <1>5. SearchTypes'
    <2>1. journey'.state \in WayShown
      BY <1>2, <1>4 DEF WayShown
    <2>2. journey' \in Journey
      BY <1>1, <1>2, <2>1 DEF Journey
    <2> QED
      BY <1>1, <1>3, <2>2 DEF SearchTypes
  <1>6. \A c \in routes : c.generation \in Nat /\ c.generation <= journey.generation
    BY DEF SearchTypes, Ui, Discovery, WayShown, Journey, Search, Route, WayAsked
  <1>7. WayAsked'
    <2>1. journey'.generation = journey.generation + 1 /\ journey'.last = request
      BY <1>1
    <2>2. call \in routes' /\ IsNewest(call, journey'.generation)
      BY <1>1, <2>1 DEF IsNewest
    <2>3. \A c \in routes' : /\ c.generation <= journey'.generation
                             /\ IsNewest(c, journey'.generation) => c = call
      BY <1>1, <1>2, <1>6, <2>1 DEF IsNewest
    <2> QED
      <3>1. \A c \in routes' : /\ c.generation <= journey'.generation
                               /\ IsNewest(c, journey'.generation) =>
                                    c.request = journey'.last /\ c.since = begun'
        BY <2>1, <2>3
      <3>2. /\ journey'.state.since = begun' /\ journey'.state.loading
            /\ journey'.state.item = Nil
        BY <1>4
      <3> QED
        BY <2>2, <3>1, <3>2 DEF WayAsked, IsNewest
  <1> QED
    BY <1>5, <1>7 DEF ListAsked, PositionAwaited, Shows

LEMMA JourneyKeeps ==
    ASSUME SearchInv, RetryJourney \/ \E place \in Places : OpenJourney(place)
    PROVE  SearchInv'
  <1> USE DEF SearchInv
  <1>1. UNCHANGED <<ui, discovery, locates, searches, chosen, begun>>
    BY DEF RetryJourney, OpenJourney
  <1>2. CASE RetryJourney /\ journey.last # Nil
    BY <1>1, <1>2, SubmitRouteKeeps DEF RetryJourney, SearchTypes, Ui, Discovery, WayShown, Journey, Search, Route
  <1>3. CASE RetryJourney /\ journey.last = Nil
    <2>1. journey' = [journey EXCEPT !.state = [NoJourney EXCEPT !.error = TRUE]] /\ UNCHANGED routes
      BY <1>3 DEF RetryJourney
    <2>2. journey'.state = [dest |-> Nil, loading |-> FALSE, item |-> Nil, error |-> TRUE, since |-> 0]
      BY <2>1 DEF NoJourney, SearchTypes, Ui, Discovery, WayShown, Journey, Search, Route
    <2>3. SearchTypes'
      <3>1. journey'.state \in WayShown
        BY <2>2 DEF WayShown
      <3>2. journey' \in Journey
        BY <2>1, <3>1 DEF SearchTypes, Journey
      <3> QED
        BY <1>1, <2>1, <3>2 DEF SearchTypes
    <2>4. WayAsked'
      BY <1>1, <2>1, <2>2 DEF WayAsked, SearchTypes, Ui, Discovery, WayShown, Journey, Search, Route, IsNewest
    <2> QED
      BY <1>1, <2>3, <2>4 DEF ListAsked, PositionAwaited, Shows
  <1>4. ASSUME NEW place \in Places, OpenJourney(place), ui.device # Nil
        PROVE  SearchInv'
    <2>1. [origin |-> ui.device, place |-> place] \in Way
      BY <1>4 DEF Way, SearchTypes, Ui, Discovery, WayShown, Journey, Search, Route
    <2> QED
      BY <1>1, <1>4, <2>1, SubmitRouteKeeps DEF OpenJourney
  <1>5. ASSUME NEW place \in Places, OpenJourney(place), ui.device = Nil
        PROVE  SearchInv'
    <2>1. /\ journey' = [last |-> Nil, generation |-> journey.generation + 1,
                         state |-> [NoJourney EXCEPT !.dest = place, !.error = TRUE, !.since = begun]]
          /\ UNCHANGED routes
      BY <1>5 DEF OpenJourney
    <2>2. journey'.state = [dest |-> place, loading |-> FALSE, item |-> Nil,
                           error |-> TRUE, since |-> begun]
      BY <2>1 DEF NoJourney
    <2>3. SearchTypes'
      <3>1. journey'.state \in WayShown
        BY <1>5, <2>2 DEF SearchTypes, WayShown
      <3>2. journey' \in Journey
        BY <2>1, <3>1 DEF SearchTypes, Journey
      <3> QED
        BY <1>1, <2>1, <3>2 DEF SearchTypes
    <2>4. \A c \in routes : c.generation \in Nat /\ c.generation <= journey.generation
      BY DEF SearchTypes, Ui, Discovery, WayShown, Journey, Search, Route, WayAsked
    <2>5. journey'.generation = journey.generation + 1 /\ journey.generation \in Nat
      BY <2>1 DEF SearchTypes, Ui, Discovery, WayShown, Journey, Search, Route
    <2>6. WayAsked'
      <3>1. \A c \in routes : ~IsNewest(c, journey'.generation) /\ c.generation <= journey'.generation
        BY <2>4, <2>5 DEF IsNewest
      <3> QED
        BY <1>1, <2>1, <2>2, <3>1 DEF WayAsked, IsNewest
    <2> QED
      BY <1>1, <2>3, <2>6 DEF ListAsked, PositionAwaited, Shows
  <1> QED
    BY <1>2, <1>3, <1>4, <1>5

\* A wait for a position ends.  Another one goes on if the screen still wants
\* what is not answered here.
LEMMA FixKeeps ==
    ASSUME SearchInv, NEW wish \in Wishes \union {Nil},
           FixFails(wish) \/ \E point \in Points \union {Nil} : FixArrives(wish, point)
    PROVE  SearchInv'
  <1> USE DEF SearchInv
  <1>1. /\ locates[wish] > 0 /\ locates' = [locates EXCEPT ![wish] = locates[wish] - 1]
        /\ UNCHANGED <<routes, chosen>>
    BY DEF FixFails, FixArrives
  <1>2. /\ locates' \in [Wishes \union {Nil} -> Nat]
        /\ \A w \in Wishes \union {Nil} : w # wish => locates'[w] = locates[w]
    BY <1>1 DEF SearchTypes, Ui, Discovery, WayShown, Journey, Search, Route
  <1>3. ASSUME UNCHANGED <<discovery, journey, searches, begun>>,
               ui' \in Ui,
               ui'.wanted = ui.wanted,
               ui'.locating => ui.locating /\ wish # ui.wanted
        PROVE  SearchInv'
    <2>1. SearchTypes'
      BY <1>1, <1>2, <1>3 DEF SearchTypes, Ui, Discovery, WayShown, Journey, Search, Route
    <2>2. PositionAwaited'
      BY <1>1, <1>2, <1>3 DEF PositionAwaited, SearchTypes, Ui, Discovery, WayShown, Journey, Search, Route
    <2> QED
      BY <1>1, <1>3, <2>1, <2>2 DEF ListAsked, WayAsked, Shows
  <1>4. CASE FixFails(wish)
    <2>1. ui' = [ui EXCEPT !.locating = FALSE] /\ UNCHANGED <<discovery, journey, searches, begun>>
      BY <1>4 DEF FixFails, Failed
    <2> QED
      BY <1>3, <2>1 DEF SearchTypes, Ui, Discovery, WayShown, Journey, Search, Route
  <1>5. ASSUME NEW point \in Points \union {Nil}, FixArrives(wish, point)
        PROVE  SearchInv'
    <2> DEFINE u == [ui EXCEPT !.device = IF point = Nil THEN ui.device ELSE point]
    <2>1. /\ u \in Ui
          /\ u.wanted = ui.wanted /\ u.locating = ui.locating
      BY DEF SearchTypes, Ui, Discovery, WayShown, Journey, Search, Route
    <2>2. CASE wish # Nil /\ u.device # Nil /\ StillWanted(wish)
      <3>1. Begin(u, u.device, wish, "DEVICE")
        BY <1>5, <2>2 DEF FixArrives
      <3>2. u.device \in Points /\ wish \in Wishes
        BY <2>1, <2>2 DEF Ui
      <3>3. chosen \in {"none", "device", "pinned"} /\ chosen # "pinned"
        BY <2>2 DEF StillWanted, PositionAwaited, SearchTypes, Ui, Discovery, WayShown, Journey, Search, Route
      <3> HIDE DEF u
      <3> QED
        BY <1>1, <1>2, <2>1, <3>1, <3>2, <3>3, BeginKeeps
    <2>3. CASE ~(wish # Nil /\ u.device # Nil /\ StillWanted(wish))
      <3>1. /\ ui' = IF wish = Nil THEN [u EXCEPT !.locating = FALSE]
                     ELSE IF u.device = Nil THEN Failed(u) ELSE u
            /\ UNCHANGED <<discovery, journey, searches, begun>>
        BY <1>5, <2>3 DEF FixArrives
      <3> HIDE DEF u
      <3>2. /\ ui' \in Ui
            /\ ui'.wanted = u.wanted
        BY <2>1, <3>1 DEF Failed, Ui
      <3>3. ui'.locating => u.locating /\ wish # ui.wanted
        BY <2>1, <2>3, <3>1 DEF Failed, StillWanted, Ui
      <3> QED
        BY <1>3, <2>1, <3>1, <3>2, <3>3
    <2> QED
      BY <2>2, <2>3
  <1> QED
    BY <1>4, <1>5

\* A search is answered: shown if it is the newest, and the newest asks for
\* what the screen says.
LEMMA SearchAnswerKeeps ==
    ASSUME SearchInv, NEW call \in searches,
           SearchFails(call) \/ \E found \in Found : SearchAnswers(call, found)
    PROVE  SearchInv'
  <1> USE DEF SearchInv
  <1>1. /\ searches' = searches \ {call}
        /\ UNCHANGED <<ui, journey, locates, routes, chosen, begun>>
    BY DEF SearchFails, SearchAnswers
  <1>2. CASE ~IsNewest(call, discovery.generation)
    <2>1. discovery' = discovery
      BY <1>2 DEF SearchFails, SearchAnswers
    <2>2. SearchTypes'
      BY <1>1, <2>1 DEF SearchTypes, Ui, Discovery, WayShown, Journey, Search, Route
    <2>3. ListAsked'
      BY <1>1, <1>2, <2>1 DEF ListAsked, Shows, IsNewest
    <2> QED
      BY <1>1, <2>1, <2>2, <2>3 DEF WayAsked, PositionAwaited
  <1>3. CASE IsNewest(call, discovery.generation)
    <2>1. call.request = discovery.asked /\ call.request \in Request
      BY <1>3 DEF ListAsked, SearchTypes, Ui, Discovery, WayShown, Journey, Search, Route
    <2>2. CASE SearchFails(call)
      <3>1. discovery' = [discovery EXCEPT !.loading = FALSE, !.error = TRUE]
        BY <1>3, <2>2 DEF SearchFails
      <3>2. SearchTypes'
        <4>1. discovery' \in Discovery
          BY <3>1 DEF SearchTypes, Discovery
        <4> QED
          BY <1>1, <4>1 DEF SearchTypes
      <3>3. ListAsked'
        BY <1>1, <3>1 DEF ListAsked, SearchTypes, Ui, Discovery, WayShown, Journey, Search, Route, Shows, IsNewest
      <3> QED
        BY <1>1, <3>1, <3>2, <3>3 DEF WayAsked, PositionAwaited, SearchTypes, Ui, Discovery, WayShown, Journey, Search, Route
    <2>3. ASSUME NEW found \in Found, SearchAnswers(call, found)
          PROVE  SearchInv'
      <3> DEFINE first == IF found = <<>> THEN Nil ELSE found[1]
      <3> DEFINE answer == [asked |-> call.request, places |-> found]
      <3>1. discovery' = [discovery EXCEPT !.response = answer, !.selected = first,
                                           !.loading = FALSE, !.error = FALSE]
        BY <1>3, <2>3 DEF SearchAnswers
      <3>2. answer \in [asked : Request, places : Found] /\ answer # Nil
        BY <2>1, NilAssumption
      <3>3. first \in Places \union {Nil} /\ (first # Nil => first \in Range(found))
        BY DEF Found, Range
      <3>4. answer.asked = discovery.asked /\ answer.places = found
        BY <2>1
      <3> HIDE DEF first, answer
      <3>5. SearchTypes'
        <4>1. discovery' \in Discovery
          BY <3>1, <3>2, <3>3 DEF SearchTypes, Discovery
        <4> QED
          BY <1>1, <4>1 DEF SearchTypes
      <3>6. ListAsked'
        BY <1>1, <3>1, <3>2, <3>3, <3>4 DEF ListAsked, SearchTypes, Ui, Discovery, WayShown, Journey, Search, Route, Shows, IsNewest
      <3> QED
        BY <1>1, <3>1, <3>5, <3>6 DEF WayAsked, PositionAwaited, SearchTypes, Ui, Discovery, WayShown, Journey, Search, Route
    <2> QED
      BY <2>2, <2>3
  <1> QED
    BY <1>2, <1>3

LEMMA RouteAnswerKeeps ==
    ASSUME SearchInv, NEW call \in routes, NEW matches \in BOOLEAN, RouteAnswers(call, matches)
    PROVE  SearchInv'
  <1> USE DEF SearchInv
  <1>1. /\ routes' = routes \ {call}
        /\ UNCHANGED <<ui, discovery, locates, searches, chosen, begun>>
    BY DEF RouteAnswers
  <1>2. ListAsked' /\ PositionAwaited'
    BY <1>1 DEF ListAsked, PositionAwaited, Shows
  <1>3. CASE ~IsNewest(call, journey.generation)
    <2>1. journey' = journey
      BY <1>3 DEF RouteAnswers
    <2>2. SearchTypes'
      BY <1>1, <2>1 DEF SearchTypes, Ui, Discovery, WayShown, Journey, Search, Route
    <2>3. WayAsked'
      BY <1>1, <1>3, <2>1 DEF WayAsked, IsNewest
    <2> QED
      BY <1>2, <2>2, <2>3
  <1>4. CASE IsNewest(call, journey.generation)
    <2>1. /\ call.request = journey.last /\ call.since = begun
          /\ call.request \in Way /\ call.request # Nil /\ call.request.place \in Places
      BY <1>4, NilAssumption DEF WayAsked, SearchTypes, Ui, Discovery, WayShown, Journey, Search, Route, Way
    <2> DEFINE result == [dest |-> call.request.place, loading |-> FALSE,
                         since |-> begun,
                         item |-> IF matches THEN call.request ELSE Nil, error |-> ~matches]
    <2>2. journey' = [journey EXCEPT !.state = result] /\ result \in WayShown
      <3>1. journey' = [journey EXCEPT !.state = result]
        BY <1>4, <2>1 DEF RouteAnswers
      <3>2. result \in WayShown
        BY <2>1 DEF SearchTypes, WayShown
      <3> QED
        BY <3>1, <3>2
    <2>3. journey'.state = result /\ journey'.last = journey.last
          /\ journey'.generation = journey.generation
      BY <2>2 DEF SearchTypes, Journey
    <2>4. SearchTypes'
      <3>1. journey' \in Journey
        BY <2>2 DEF SearchTypes, Journey
      <3> QED
        BY <1>1, <3>1 DEF SearchTypes
    <2>5. WayAsked'
      <3>1. \A c \in routes' : c \in routes
        BY <1>1
      <3>2. result.item # Nil => result.item = call.request /\ result.dest = result.item.place
        OBVIOUS
      <3>3. result.error \/ result.item # Nil
        BY <2>1
      <3>4. ~result.loading /\ result.since = begun
        OBVIOUS
      <3> HIDE DEF result
      <3> QED
        BY <1>1, <2>1, <2>3, <3>1, <3>2, <3>3, <3>4 DEF WayAsked
    <2> QED
      BY <1>2, <2>4, <2>5
  <1> QED
    BY <1>3, <1>4

\* SearchInv holds throughout, whatever the bounds.
THEOREM SearchInductive == SearchSpec => []SearchInv
  <1>1. SearchInit => SearchInv
    BY DEF SearchInit, SearchInv, SearchTypes, Ui, Discovery, WayShown, Journey, Search, Route, ListAsked, WayAsked, PositionAwaited, NoJourney
  <1>2. SearchInv /\ [SearchNext]_searchVars => SearchInv'
    <2> SUFFICES ASSUME SearchInv, [SearchNext]_searchVars
                 PROVE  SearchInv'
      OBVIOUS
    <2>1. CASE \E wish \in Wishes : SearchHere(wish) \/ LocateAndSearch(wish)
                                    \/ SearchAtCamera(wish) \/ SearchAtOrigin(wish)
      BY <2>1, SearchHereKeeps, LocateAndSearchKeeps, PinnedKeeps
    <2>2. CASE UseDevice \/ Retry \/ RetrySearch
      BY <2>2, UseDeviceKeeps, RetryKeeps, RetrySearchKeeps
    <2>3. CASE \/ ElsewhereFails
               \/ \E point \in Points : CameraIdle(point) \/ Feed(point)
               \/ \E place \in Places : Select(place)
      BY <2>3, ScreenKeeps
    <2>4. CASE RetryJourney \/ \E place \in Places : OpenJourney(place)
      BY <2>4, JourneyKeeps
    <2>5. CASE \E wish \in Wishes \union {Nil} :
                 FixFails(wish) \/ \E point \in Points \union {Nil} : FixArrives(wish, point)
      BY <2>5, FixKeeps
    <2>6. CASE \E call \in searches :
                 SearchFails(call) \/ \E found \in Found : SearchAnswers(call, found)
      BY <2>6, SearchAnswerKeeps
    <2>7. CASE \E call \in routes, matches \in BOOLEAN : RouteAnswers(call, matches)
      BY <2>7, RouteAnswerKeeps
    <2>8. CASE UNCHANGED searchVars
      BY <2>8 DEF searchVars, SearchInv, SearchTypes, Ui, Discovery, WayShown, Journey, Search, Route, ListAsked, WayAsked, PositionAwaited, Shows
    <2> QED
      BY <2>1, <2>2, <2>3, <2>4, <2>5, <2>6, <2>7, <2>8 DEF SearchNext
  <1> QED
    BY <1>1, <1>2, PTL DEF SearchSpec

\* Places and ways shown answer what was asked last, and a pinned place stays
\* pinned, for every bound on the calls under way (submit, clear).
THEOREM ScreenIsCurrent == SearchSpec => []ScreenShowsWhatWasAsked
  <1>1. SearchInv => ScreenShowsWhatWasAsked
    BY DEF SearchInv, ListAsked, WayAsked, PositionAwaited, ScreenShowsWhatWasAsked
  <1> QED
    BY <1>1, SearchInductive, PTL

\* Whatever the screen waits for is under way, and what it no longer waits for
\* ended in a result or an error, for every bound (fetchDeviceFix, submit).
THEOREM NothingIsAwaitedInVain == SearchSpec => []WaitsHaveACause
  <1>1. SearchInv => WaitsHaveACause
    BY DEF SearchInv, SearchTypes, Ui, Discovery, WayShown, Journey, Search, Route, ListAsked, WayAsked, PositionAwaited, WaitsHaveACause
  <1> QED
    BY <1>1, SearchInductive, PTL
==============================================================================
