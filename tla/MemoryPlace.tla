----------------------------- MODULE MemoryPlace -----------------------------
(***************************************************************************)
(* The two writes about memory places: put_memory_place turns pins of      *)
(* several walks into a place, put_memory_place_membership links one more  *)
(* pin to it.  As in the diary, a call is one repeatable-read transaction  *)
(* decided on the snapshot of its first SELECT.  It locks no row: its      *)
(* inserts take unique keys one after the other, and an insert waits for   *)
(* the end of a transaction that has inserted the same key before it.      *)
(* Pins are those of SpatialDiary, known here by number in the order of    *)
(* their ids; geometry is what it decides: which circles touch.            *)
(***************************************************************************)
EXTENDS Integers, FiniteSets, Functions

CONSTANTS
    PlaceHandlers,  \* calls that can be at work at once
    PlaceRequests,  \* the requests callers may send, any number of times
    Pins,           \* the pins of the diary
    PinWalk,        \* the walk of each pin
    PinDog,         \* and its dog
    Near,           \* <<seeds, pin>>: the pin touches the place of these seeds
    Scattered,      \* sets of seeds that no circle of 5 km covers
    MaxMembers      \* MAX_PLACE_MEMBERSHIPS

ASSUME PinsAssumption == Pins \subseteq Nat /\ IsFiniteSet(Pins)

VARIABLES
    places,   \* the committed rows of spatial_diary_memory_place
    members,  \* the committed rows of spatial_diary_memory_place_membership
    placing   \* each handler's transaction
placeVars == <<places, members, placing>>

NoRequest == [op |-> "none"]
NoPlacing == [at |-> "idle", req |-> NoRequest, places |-> {}, members |-> {},
              inserted |-> {}, answer |-> "none"]

PlaceInit ==
    /\ places = {}
    /\ members = {}
    /\ placing = [h \in PlaceHandlers |-> NoPlacing]

----------------------------------------------------------------------------
\* Rows and their keys.

\* The pins a request wants as members; the order of the seeds is no content.
Wanted(r) == IF r.op = "place" THEN Range(r.seeds) ELSE {r.pin}

PlaceRow(r) == [id |-> r.id, dog |-> r.dog, label |-> r.label, seeds |-> Wanted(r)]

MemberRow(r, pin) ==
    [place |-> r.id, pin |-> pin,
     origin |-> IF r.op = "place" THEN "seed" ELSE "user_linked"]

\* Primary key, and spatial_diary_place_seed_unique.
SamePlaceKey(p, q) == p.id = q.id \/ (p.dog = q.dog /\ p.seeds = q.seeds)

\* Bug: a pin is unique within a place only.
SamePair(m, n) == m.place = n.place /\ m.pin = n.pin

\* Primary key, and spatial_diary_place_pin_unique.
SameMemberKey(m, n) == m.pin = n.pin

----------------------------------------------------------------------------
\* What is answered from the first snapshot: "none" when the inserts begin.

MembersOf(id) == {m \in members : m.place = id}

\* The id is in use.  The answer to a repeated put lists the members.
ReplayAnswer(r) ==
    IF PlaceRow(r) \notin places THEN "409"
    ELSE IF Cardinality(MembersOf(r.id)) > MaxMembers THEN "413" ELSE "200"

\* A pin is missing or of another dog; two walks at least must support a place.
SeedsMissing(r) == ~\A p \in Wanted(r) : p \in Pins /\ PinDog[p] = r.dog
SeedsUnfit(r) ==
    \/ Cardinality({PinWalk[p] : p \in Wanted(r)}) < 2
    \/ Wanted(r) \in Scattered

PlaceAnswer(r) ==
    IF ~IsInjective(r.seeds) THEN "409"
    ELSE IF \E q \in places : q.id = r.id THEN ReplayAnswer(r)
    ELSE IF SeedsMissing(r) THEN "404"
    ELSE IF SeedsUnfit(r) THEN "409" ELSE "none"

\* _authorize_memory_place looks the place up first, on the same snapshot.
LinkAnswer(r) ==
    IF \A q \in places : q.id # r.id THEN "404"
    ELSE IF \E m \in members : m.pin = r.pin
         THEN IF \E m \in MembersOf(r.id) : m.pin = r.pin THEN "200" ELSE "409"
    ELSE IF ~\E q \in places : q.id = r.id /\ r.pin \in Pins /\ PinDog[r.pin] = q.dog
         THEN "404"
    ELSE IF ~\E q \in places : q.id = r.id /\ <<q.seeds, r.pin>> \in Near
         THEN "409" ELSE "none"

FirstAnswer(r) == IF r.op = "place" THEN PlaceAnswer(r) ELSE LinkAnswer(r)

----------------------------------------------------------------------------
\* Waiting for keys.

\* Bug: the pins are selected without ORDER BY.
AnyPin(h, pin) == pin \in Wanted(placing[h].req) \ placing[h].inserted

\* The pin whose membership is inserted next: ORDER BY pin.pin_id.
IsNext(h, pin) ==
    LET left == Wanted(placing[h].req) \ placing[h].inserted IN
    pin \in left /\ \A p \in left : pin <= p

\* Transactions that have inserted the same key and are still open.
PlaceRivals(h) ==
    {d \in PlaceHandlers \ {h} :
        /\ placing[d].at = "members" /\ placing[d].req.op = "place"
        /\ SamePlaceKey(PlaceRow(placing[d].req), PlaceRow(placing[h].req))}
MemberRivals(h, pin) ==
    {d \in PlaceHandlers \ {h} :
        /\ placing[d].at = "members"
        /\ \E p \in placing[d].inserted :
              SameMemberKey(MemberRow(placing[d].req, p), MemberRow(placing[h].req, pin))}

\* Committed rows that have the key.
PlaceLosses(h) == {q \in places : SamePlaceKey(q, PlaceRow(placing[h].req))}
MemberLosses(h, pin) ==
    {m \in members : SameMemberKey(m, MemberRow(placing[h].req, pin))}

WaitsFor(h, d) ==
    \/ placing[h].at = "place" /\ d \in PlaceRivals(h)
    \/ /\ placing[h].at = "members"
       /\ \E pin \in Pins : IsNext(h, pin) /\ d \in MemberRivals(h, pin)

----------------------------------------------------------------------------
\* The life of a call.

Told(h, status) ==
    placing' = [placing EXCEPT ![h] =
        [at |-> "done", req |-> placing[h].req, places |-> {}, members |-> {},
         inserted |-> {}, answer |-> status]]

Begin(h) ==
    /\ placing[h].at = "idle"
    /\ \E r \in PlaceRequests :
          placing' = [placing EXCEPT ![h].at = "open", ![h].req = r]
    /\ UNCHANGED <<places, members>>

\* The first SELECT fixes the snapshot, and with it every check.
TakeView(h) ==
    LET r == placing[h].req IN
    /\ placing[h].at = "open"
    /\ IF FirstAnswer(r) # "none" THEN Told(h, FirstAnswer(r))
       ELSE placing' = [placing EXCEPT
                ![h].at = IF r.op = "place" THEN "place" ELSE "members",
                ![h].places = places, ![h].members = members]
    /\ UNCHANGED <<places, members>>

InsertPlace(h) ==
    /\ placing[h].at = "place"
    /\ PlaceRivals(h) = {} /\ PlaceLosses(h) = {}
    /\ placing' = [placing EXCEPT ![h].at = "members"]
    /\ UNCHANGED <<places, members>>

InsertMember(h) ==
    /\ placing[h].at = "members"
    /\ \E pin \in Pins :
          /\ IsNext(h, pin)
          /\ MemberRivals(h, pin) = {} /\ MemberLosses(h, pin) = {}
          /\ placing' = [placing EXCEPT ![h].inserted = @ \union {pin}]
    /\ UNCHANGED <<places, members>>

\* ON CONFLICT DO NOTHING returns no row for one that the snapshot shows, and
\* raises 40001, which no handler catches, for one that it hides.
LoseKey(h) ==
    /\ \/ /\ placing[h].at = "place"
          /\ \E q \in PlaceLosses(h) :
                Told(h, IF q \in placing[h].places THEN "409" ELSE "500")
       \/ /\ placing[h].at = "members"
          /\ \E pin \in Pins : IsNext(h, pin) /\ \E m \in MemberLosses(h, pin) :
                Told(h, IF m \in placing[h].members THEN "409" ELSE "500")
    /\ UNCHANGED <<places, members>>

CommitPlace(h) ==
    LET r == placing[h].req IN
    /\ placing[h].at = "members"
    /\ placing[h].inserted = Wanted(r)
    /\ places' = places \union (IF r.op = "place" THEN {PlaceRow(r)} ELSE {})
    /\ members' = members \union {MemberRow(r, p) : p \in Wanted(r)}
    /\ Told(h, "200")

\* The handler dies or its caller goes away: nothing of it stays.
GiveUp(h) ==
    /\ placing[h].at \in {"open", "place", "members"}
    /\ placing' = [placing EXCEPT ![h] = NoPlacing]
    /\ UNCHANGED <<places, members>>

Leave(h) ==
    /\ placing[h].at = "done"
    /\ placing' = [placing EXCEPT ![h] = NoPlacing]
    /\ UNCHANGED <<places, members>>

PlaceNext ==
    \E h \in PlaceHandlers :
        \/ Begin(h)
        \/ TakeView(h)
        \/ InsertPlace(h)
        \/ InsertMember(h)
        \/ LoseKey(h)
        \/ CommitPlace(h)
        \/ GiveUp(h)
        \/ Leave(h)

PlaceSpec == PlaceInit /\ [][PlaceNext]_placeVars

----------------------------------------------------------------------------
\* What the callers may rely on.

PlacePositions == {"idle", "open", "place", "members", "done"}

\* The rows belong to each other however calls overlap: a place keeps exactly
\* the seeds it was made from, they are of its dog and of two walks at least; a
\* pin is in one place only, and a linked one touches it (put_memory_place,
\* put_memory_place_membership).  Who was told 200 finds the rows stored.
PlacesAreWhole ==
    /\ \A q \in places :
          /\ \A p \in places : SamePlaceKey(p, q) => p = q
          /\ {m.pin : m \in {n \in MembersOf(q.id) : n.origin = "seed"}} = q.seeds
          /\ Cardinality({PinWalk[p] : p \in q.seeds}) >= 2
    /\ \A m \in members :
          /\ \A n \in members : n.pin = m.pin => n = m
          /\ \E q \in places :
                /\ q.id = m.place /\ PinDog[m.pin] = q.dog
                /\ m.origin = "user_linked" => <<q.seeds, m.pin>> \in Near
    /\ \A h \in PlaceHandlers : placing[h].answer = "200" =>
          LET r == placing[h].req IN
          /\ r.op = "place" => PlaceRow(r) \in places
          /\ \A p \in Wanted(r) : \E m \in MembersOf(r.id) : m.pin = p

\* Calls that take several keys never wait for each other in a circle: in every
\* group of waiting calls one waits for nobody of the group, because seeds are
\* inserted in the order of their ids (put_memory_place).
NoCircularWait ==
    \A group \in SUBSET PlaceHandlers : group # {} =>
        \E h \in group : \A d \in group : ~WaitsFor(h, d)
==============================================================================
