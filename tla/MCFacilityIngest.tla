--------------------------- MODULE MCFacilityIngest ---------------------------
\* A KTO item and two KCISA rows of its name; one of two texts has no axes.
EXTENDS FacilityIngest

CONSTANTS k1, k2, c1, c2, t1, t2

MCKto == {k1, k2}
MCKcisa == {c1, c2}
\* One file holds both rows; the other lost one and has a new text for the other.
MCFiles == {c1 :> t1 @@ c2 :> t1, c1 :> t2}
MCNear == [k \in MCKto |-> <<c1, c2>>]
==============================================================================
