--------------------------------- MODULE MCMap ---------------------------------
(* The map screen for TLC: who may subscribe to the location, and what the     *)
(* searches show.  They meet only in the positions, so each behaviour is one   *)
(* of either.                                                                  *)
EXTENDS MapLocationProperties, MapSearch

VARIABLE part   \* whose behaviour it is

MCInit == Init /\ SearchInit /\ part \in {"location", "search"}

MCNext ==
    \/ part = "location" /\ Next /\ UNCHANGED <<searchVars, part>>
    \/ part = "search" /\ SearchNext /\ UNCHANGED <<vars, part>>

MCSpec == MCInit /\ [][MCNext]_<<vars, searchVars, part>>
================================================================================
