------------------------- MODULE MCActivityStatistics -------------------------
(* A small instance of the statistics for TLC. *)
EXTENDS ActivityStatisticsProperties, TLC

CONSTANTS p1, p2, s1, season, k1, k2, c1, gen, r1, r2, w1, w2

MCGenerationOf == [r \in Runners |-> gen]

Asked(event, pet, verified) == [event |-> event, site |-> s1, pet |-> pet, verified |-> verified]

\* A free site is marked, certified by its owner and taken over by another.
MCClaims == {Asked(1, p1, FALSE), Asked(2, p1, TRUE), Asked(3, p2, TRUE)}

Source(analysis, client, pets, versions, origin) ==
    [analysis |-> analysis, client |-> client, span |-> 1, pets |-> pets,
     versions |-> versions, origin |-> origin, measured |-> TRUE]

Selected(walk, revision, source) == [walk |-> walk, revision |-> revision, source |-> source]

\* A walk is analysed, its pets are corrected or it is withdrawn.
MCSelections ==
    {Selected(k1, 1, Source(1, c1, {p1}, 1, "device")),
     Selected(k1, 2, Source(1, c1, {p1, p2}, 1, "device")), Selected(k1, 2, None)}

MCScopeOrder == <<season, k1>>

WorkerSymmetry == Permutations(Workers)
==============================================================================
