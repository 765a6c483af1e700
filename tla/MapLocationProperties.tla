------------------------- MODULE MapLocationProperties -------------------------
(***************************************************************************)
(* What docs/contracts/android-location-ownership.md asks of the screen    *)
(* and the service together.                                               *)
(***************************************************************************)
EXTENDS MapLocation

\* Every variable holds what the code declares.
TypeOK ==
    /\ screen \in Screen
    /\ fixes \in 0..MaxFixes
    /\ recorder \in TrackingState
    /\ collecting \in BOOLEAN /\ buffered \in BOOLEAN
    /\ adding \in TrackingState \union {None}
    /\ publishing \subseteq Published
    /\ stopping \in 0..MaxStops
    /\ intents \in Seq(Intents) /\ Len(intents) <= MaxIntents
    /\ shown \in Published
    /\ pending \in BOOLEAN

\* The decision of the policy is what is subscribed, whatever was seen of how
\* it came about: with nothing left to collect the applied owner is the current
\* one, the screen subscribes only as the owner, and as the owner of a replay it
\* does (reconcileOwnership, switchFeed).
ScreenFollowsPolicy ==
    ~pending =>
      /\ screen.owner = Owner(screen, Walk)
      /\ screen.tracker # "idle" => screen.owner \in ScreenOwners
      /\ screen.owner = "SCREEN_REPLAY" => screen.tracker = "running"

\* Whatever is under way: reserved for the service means no screen subscription,
\* nothing is replayed behind a hidden screen or while a walk is being started,
\* and a recording the screen has seen ends the reservation (prepareWalkStart,
\* startReplay, onAppBackground, acceptWalkState).
ReservationHolds ==
    /\ screen.handoff # "NONE" => screen.tracker = "idle"
    /\ screen.feed = "REPLAY" => screen.visibility = "FOREGROUND"
    /\ screen.handoff = "STARTING" => screen.feed = "DEVICE"
    /\ ~pending /\ Walk = "RECORDING" => screen.handoff = "NONE"

\* The screen and the service do not both subscribe once the screen has
\* collected what the recorder says (prepareWalkResume, acceptWalkState).
OneSubscriber ==
    ~pending /\ Walk = recorder => ~(screen.tracker = "running" /\ collecting)
==============================================================================
