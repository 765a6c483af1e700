------------------------------ MODULE MapSearch ------------------------------
(***************************************************************************)
(* The searches of the map screen: MapViewModel finds where to search      *)
(* around, PlaceDiscoveryController asks for places, and                   *)
(* PlaceJourneyController for the way to one of them.  Everything runs on  *)
(* the main thread; between the starting of a position, a search or a      *)
(* route and its answer the user does as they like, and answers come in    *)
(* any order.                                                              *)
(***************************************************************************)
EXTENDS Integers, Functions

CONSTANTS
    Points,         \* positions on the map
    Wishes,         \* PlaceSearchIntent: the kinds of places and the parking preference
    Places,         \* the places a search can find
    MaxLocates,     \* bound on the positions asked for at a time
    MaxSearches,    \* bound on the searches sent, retries included
    MaxRoutes,      \* bound on the journeys loaded, retried or rejected
    Nil

Request == [origin : Points, wish : Wishes]     \* a place search, PlaceSearchRequest
Way == [origin : Points, place : Places]        \* a journey, PlaceJourneyRequest
Found == {<<>>} \union {<<p>> : p \in Places}   \* what a search may find

ASSUME NilAssumption ==
    /\ Nil \notin Points \union Wishes \union Places
    /\ Nil \notin Request /\ Nil \notin Way /\ Nil \notin [asked : Request, places : Found]

VARIABLES
    ui,             \* what MapViewModel keeps for itself
    discovery,      \* PlaceDiscoveryController
    journey,        \* PlaceJourneyController
    locates,        \* how many coroutines wait for a position, by what for (Nil: only to show it)
    searches,       \* the searches not answered yet
    routes,         \* and the routes
    chosen,         \* history: whether the user last chose the device's place or the map's
    begun           \* history: the searches begun, retries not counted
searchVars == <<ui, discovery, journey, locates, searches, routes, chosen, begun>>

NoJourney == [dest |-> Nil, loading |-> FALSE, item |-> Nil, error |-> FALSE, since |-> 0]

SearchInit ==
    /\ ui = [device |-> Nil, camera |-> Nil, wanted |-> Nil, locating |-> FALSE]
    /\ discovery = [asked |-> Nil, mode |-> "DEVICE", response |-> Nil, selected |-> Nil,
                    loading |-> FALSE, error |-> FALSE, generation |-> 0]
    /\ journey = [state |-> NoJourney, last |-> Nil, generation |-> 0]
    /\ locates = [w \in Wishes \union {Nil} |-> 0]
    /\ searches = {}
    /\ routes = {}
    /\ chosen = "none"
    /\ begun = 0

\* Bug: any answer is taken.
AnyAnswer(call, generation) == TRUE

\* The stale-response rule of both controllers.
IsNewest(call, generation) == call.generation = generation

------------------------------------------------------------------------------
\* Asking

\* submit: what was shown goes at once.
Submit(request, mode) ==
    /\ discovery.generation < MaxSearches
    /\ discovery' = [asked |-> request, mode |-> mode, response |-> Nil, selected |-> Nil,
                     loading |-> TRUE, error |-> FALSE, generation |-> discovery.generation + 1]
    /\ searches' = searches \union {[request |-> request, generation |-> discovery.generation + 1]}

\* Bug: nothing tells that the position is no longer waited for.
SettledStillLocating(u) == [u EXCEPT !.wanted = Nil]

Settled(u) == [u EXCEPT !.wanted = Nil, !.locating = FALSE]

\* Bug: a cleared journey is still the newest.
ClearedInPlace(j) == [j EXCEPT !.last = Nil, !.state = NoJourney]

\* clear
Cleared(j) == [j EXCEPT !.last = Nil, !.state = NoJourney, !.generation = @ + 1]

\* beginPlaceDiscovery: a new search takes the way to an old place with it.
Begin(u, origin, wish, mode) ==
    /\ ui' = Settled(u)
    /\ journey' = Cleared(journey)
    /\ begun' = begun + 1
    /\ Submit([origin |-> origin, wish |-> wish], mode)

\* Positions are waited for without an end of their own but the timeout's.
Locate(u, wish) ==
    /\ FoldFunction(+, 0, locates) < MaxLocates
    /\ ui' = [u EXCEPT !.wanted = wish, !.locating = TRUE]
    /\ locates' = [locates EXCEPT ![wish] = @ + 1]
    /\ UNCHANGED <<discovery, journey, searches, begun>>

\* searchPlaces: around the last real position, or one asked for.
SearchHere(wish) ==
    /\ IF ui.device # Nil THEN Begin(ui, ui.device, wish, "DEVICE") /\ UNCHANGED locates
       ELSE Locate(ui, wish)
    /\ chosen' = "device"
    /\ UNCHANGED routes

\* locateAndSearchPlaces
LocateAndSearch(wish) ==
    /\ Locate(ui, wish)
    /\ chosen' = "device"
    /\ UNCHANGED routes

\* searchPlacesAtCamera; without a camera position only a message.
SearchAtCamera(wish) ==
    /\ ui.camera # Nil
    /\ Begin(ui, ui.camera, wish, "PINNED")
    /\ chosen' = "pinned"
    /\ UNCHANGED <<locates, routes>>

\* searchPlacesAtCurrentOrigin, openHospitalPlaces: a pinned place stays pinned.
SearchAtOrigin(wish) ==
    IF discovery.mode = "PINNED" /\ discovery.asked # Nil
    THEN /\ Begin(ui, discovery.asked.origin, wish, "PINNED")
         /\ chosen' = "pinned"
         /\ UNCHANGED <<locates, routes>>
    ELSE SearchHere(wish)

\* useDeviceLocation
UseDevice ==
    /\ Locate(ui, Nil)
    /\ UNCHANGED <<chosen, routes>>

\* retry, after a position was not found
Retry ==
    IF ui.wanted = Nil THEN UseDevice ELSE LocateAndSearch(ui.wanted)

\* retryPlaceSearch
RetrySearch ==
    /\ IF discovery.asked # Nil THEN Submit(discovery.asked, discovery.mode)
       ELSE discovery' = [discovery EXCEPT !.error = TRUE] /\ UNCHANGED searches
    /\ UNCHANGED <<ui, journey, locates, routes, chosen, begun>>

CameraIdle(point) ==
    /\ ui' = [ui EXCEPT !.camera = point]
    /\ UNCHANGED <<discovery, journey, locates, searches, routes, chosen, begun>>

\* A place of the list is picked.
Shows(place) == discovery.response # Nil /\ place \in Range(discovery.response.places)

Select(place) ==
    /\ Shows(place)
    /\ discovery' = [discovery EXCEPT !.selected = place]
    /\ UNCHANGED <<ui, journey, locates, searches, routes, chosen, begun>>

\* Besides the searches only loads and rejections number journeys.
MayLoad == journey.generation - begun < MaxRoutes

\* PlaceJourneyController.submit
SubmitRoute(request) ==
    /\ journey' = [last |-> request, generation |-> journey.generation + 1,
                   state |-> [NoJourney EXCEPT !.dest = request.place, !.loading = TRUE,
                                               !.since = begun]]
    /\ routes' = routes \union {[request |-> request, since |-> begun,
                                 generation |-> journey.generation + 1]}

\* openJourney: from the last real position, or not at all (reject).
OpenJourney(place) ==
    /\ Shows(place) /\ MayLoad
    /\ IF ui.device # Nil THEN SubmitRoute([origin |-> ui.device, place |-> place])
       ELSE /\ journey' = [last |-> Nil, generation |-> journey.generation + 1,
                           state |-> [NoJourney EXCEPT !.dest = place, !.error = TRUE, !.since = begun]]
            /\ UNCHANGED routes
    /\ UNCHANGED <<ui, discovery, locates, searches, chosen, begun>>

RetryJourney ==
    /\ MayLoad
    /\ IF journey.last # Nil THEN SubmitRoute(journey.last)
       ELSE journey' = [journey EXCEPT !.state = [NoJourney EXCEPT !.error = TRUE]] /\ UNCHANGED routes
    /\ UNCHANGED <<ui, discovery, locates, searches, chosen, begun>>

------------------------------------------------------------------------------
\* Answering

\* Another position of the feed, not a mock one (acceptLocationFeedState).
Feed(point) ==
    /\ ui' = [ui EXCEPT !.device = point]
    /\ UNCHANGED <<discovery, journey, locates, searches, routes, chosen, begun>>

\* showError
Failed(u) == [u EXCEPT !.locating = FALSE]

\* The feed or a button of the walk fails, whatever the screen waits for
\* (acceptLocationFeedEvent, startTracking).
ElsewhereFails ==
    /\ ui' = Failed(ui)
    /\ UNCHANGED <<discovery, journey, locates, searches, routes, chosen, begun>>

\* Bug: a position is good for whatever is searched now.
AnyWish(wish) == TRUE

StillWanted(wish) == ui.wanted = wish

\* fetchDeviceFix ends without a position, by an error or the timeout: what was
\* wanted stays for a retry.
FixFails(wish) ==
    /\ locates[wish] > 0
    /\ locates' = [locates EXCEPT ![wish] = @ - 1]
    /\ ui' = Failed(ui)
    /\ UNCHANGED <<discovery, journey, searches, routes, chosen, begun>>

\* It ends with one, a mock one for point Nil: that is shown, but the last real
\* one is searched around, for as long as it is what the user waits for.
FixArrives(wish, point) ==
    /\ locates[wish] > 0
    /\ locates' = [locates EXCEPT ![wish] = @ - 1]
    /\ LET u == [ui EXCEPT !.device = IF point = Nil THEN @ ELSE point] IN
       IF wish # Nil /\ u.device # Nil /\ StillWanted(wish)
       THEN Begin(u, u.device, wish, "DEVICE")
       ELSE /\ ui' = IF wish = Nil THEN [u EXCEPT !.locating = FALSE]
                     ELSE IF u.device = Nil THEN Failed(u) ELSE u
            /\ UNCHANGED <<discovery, journey, searches, begun>>
    /\ UNCHANGED <<routes, chosen>>

\* repository.search returns; the first place found is selected.
SearchAnswers(call, found) ==
    /\ call \in searches
    /\ searches' = searches \ {call}
    /\ discovery' =
         IF ~IsNewest(call, discovery.generation) THEN discovery
         ELSE [discovery EXCEPT !.response = [asked |-> call.request, places |-> found],
                                !.selected = IF found = <<>> THEN Nil ELSE found[1],
                                !.loading = FALSE, !.error = FALSE]
    /\ UNCHANGED <<ui, journey, locates, routes, chosen, begun>>

SearchFails(call) ==
    /\ call \in searches
    /\ searches' = searches \ {call}
    /\ discovery' = IF ~IsNewest(call, discovery.generation) THEN discovery
                    ELSE [discovery EXCEPT !.loading = FALSE, !.error = TRUE]
    /\ UNCHANGED <<ui, journey, locates, routes, chosen, begun>>

\* repository.load ends: with a way, with one to somewhere else, or not at all.
RouteAnswers(call, matches) ==
    /\ call \in routes
    /\ routes' = routes \ {call}
    /\ journey' =
         IF ~IsNewest(call, journey.generation) THEN journey
         ELSE [journey EXCEPT !.state =
                 [dest |-> call.request.place, loading |-> FALSE, since |-> call.since,
                  item |-> IF matches THEN call.request ELSE Nil, error |-> ~matches]]
    /\ UNCHANGED <<ui, discovery, locates, searches, chosen, begun>>

SearchNext ==
    \/ \E wish \in Wishes :
         \/ SearchHere(wish) \/ LocateAndSearch(wish) \/ SearchAtCamera(wish) \/ SearchAtOrigin(wish)
    \/ UseDevice \/ Retry \/ RetrySearch \/ RetryJourney \/ ElsewhereFails
    \/ \E point \in Points : CameraIdle(point) \/ Feed(point)
    \/ \E place \in Places : Select(place) \/ OpenJourney(place)
    \/ \E wish \in Wishes \union {Nil} :
         FixFails(wish) \/ \E point \in Points \union {Nil} : FixArrives(wish, point)
    \/ \E call \in searches :
         SearchFails(call) \/ \E found \in Found : SearchAnswers(call, found)
    \/ \E call \in routes, matches \in BOOLEAN : RouteAnswers(call, matches)

SearchSpec == SearchInit /\ [][SearchNext]_searchVars

------------------------------------------------------------------------------
\* What the screen promises

\* However late and in whatever order positions, searches and routes are answered:
\* the places shown are the answer to the request shown, the way shown is to a
\* place of this search and to the one picked last, and a place the user pinned
\* is not replaced by the device's (submit, clear, locateForPlaceDiscovery).
ScreenShowsWhatWasAsked ==
    /\ discovery.response # Nil =>
         /\ discovery.response.asked = discovery.asked
         /\ discovery.selected # Nil => Shows(discovery.selected)
    /\ LET shown == journey.state IN
         /\ shown.dest # Nil => shown.since = begun
         /\ shown.item # Nil => shown.item = journey.last /\ shown.dest = shown.item.place
    /\ chosen = "pinned" => discovery.mode = "PINNED"

\* The screen never waits for nothing: while it says that it locates or loads,
\* the coroutine that will say otherwise is at work, and a search or a way that
\* is no longer loading ended in a result or an error (fetchDeviceFix, submit).
WaitsHaveACause ==
    /\ ui.locating => \E wish \in DOMAIN locates : locates[wish] > 0
    /\ discovery.loading => \E call \in searches : IsNewest(call, discovery.generation)
    /\ journey.state.loading => \E call \in routes : IsNewest(call, journey.generation)
    /\ discovery.asked # Nil => discovery.loading \/ discovery.error \/ discovery.response # Nil
    /\ journey.state.dest # Nil =>
         journey.state.loading \/ journey.state.error \/ journey.state.item # Nil
==============================================================================
