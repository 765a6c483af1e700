------------------------------- MODULE MCDiary -------------------------------
(* The diary and its memory places for TLC.  They meet only in the pins, so   *)
(* each behaviour is one of either.                                           *)
EXTENDS MCSpatialDiary, MemoryPlace

CONSTANTS h3, l1, l2, d1, d2

VARIABLE part   \* whose behaviour it is

MCPlaceHandlers == {h1, h2, h3}

\* Pins 1 and 2 are of one walk, 3 of another, 4 of another dog, 5 far away.
MCPins == 1..5
MCPinWalk == [p \in MCPins |-> <<1, 1, 2, 3, 2>>[p]]
MCPinDog == [p \in MCPins |-> IF p = 4 THEN d2 ELSE d1]
MCNear == {{1, 3}} \X {1, 2, 3} \union {{1, 2, 3}} \X {1, 2, 3}
MCScattered == {{2, 3}}

Put(id, label, seeds) == [op |-> "place", id |-> id, dog |-> d1, label |-> label, seeds |-> seeds]
Link(id, pin) == [op |-> "link", id |-> id, pin |-> pin]

\* One place put twice in other orders of its seeds and once with another
\* label, a rival for the same seeds and one for two of its seeds, seeds that
\* make no place, and links of the free pin, of a seed, of a pin out of reach
\* and of another dog's.
Placing ==
    {Put(l1, "x", <<1, 3>>), Put(l1, "x", <<3, 1>>), Put(l1, "y", <<1, 3>>), Put(l2, "x", <<3, 1>>),
     Put(l2, "x", <<3, 2, 1>>), Put(l1, "x", <<1, 2>>), Put(l1, "x", <<1, 1>>), Put(l1, "x", <<1, 4>>),
     Put(l1, "x", <<2, 3>>), Link(l1, 2), Link(l1, 3), Link(l2, 1), Link(l1, 4),
     Link(l1, 5)}

MCInit == Init /\ PlaceInit /\ part \in {"diary", "places"}

MCNext ==
    \/ part = "diary" /\ Next /\ UNCHANGED <<placeVars, part>>
    \/ part = "places" /\ PlaceNext /\ UNCHANGED <<vars, part>>

MCSpec == MCInit /\ [][MCNext]_<<vars, placeVars, part>>
==============================================================================
