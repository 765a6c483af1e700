------------------------------- MODULE MCPolicy -------------------------------
(***************************************************************************)
(* Small instances of the policy service for TLC.  One tick stands for the *)
(* unit in which protections, days and seasons are measured, and the basis *)
(* points of the multiplier are scaled from 10_000 to 10.                  *)
(***************************************************************************)
EXTENDS PolicyProperties, TLC

CONSTANTS w1, w2, p1, p2, x1, x2, g1, g2, a1, a2, a3, a4, s1, s2, s3, e1, e2, e3, e4

TwoWorkers == {w1, w2}
OneWorker == {w1}
MCPets == {p1, p2}
MCSites == {x1, x2}
MCSessions == {g1, g2}
MCAttempts == {a1, a2, a3, a4}
MCEvents == {e1, e2, e3, e4}
OneSeason == {s1}

Balance(version, protection, repeat, unverified) ==
    [version |-> version, protection_ms |-> protection, claim_points |-> 2, takeover_points |-> 3,
     hourly_points |-> 1, base_bps |-> 10, extra_site_bps |-> 1, maximum_bps |-> 11,
     repeat_bonus |-> repeat, unverified_scores |-> unverified]

InstantRules == Balance("certified-protection-v2", 0, "every_change", TRUE)
QuickRules == Balance("certified-protection-v2", 1, "every_change", TRUE)
DraftRules == Balance("draft-2026-09-06", 1, "daily_pet_site", FALSE)

Claim(s, e, x, v, p, g, a, cause) ==
    [season |-> s, event |-> e, site |-> x, expected_version |-> v, pet |-> p,
     session |-> g, attempt |-> a, cause |-> cause]

\* p1 marks and certifies a site p2 photographs, in any order, while another
\* claim of p1 takes a second site.
Contest ==
    {Claim(s1, e1, x1, 0, p1, g1, a1, "MARK"),
     Claim(s1, e2, x1, 1, p1, g1, a1, "PHOTO_VERIFIED"),
     Claim(s1, e3, x1, 1, p2, g2, a2, "PHOTO_VERIFIED"),
     Claim(s1, e4, x2, 0, p1, g1, a3, "PHOTO_VERIFIED")}

\* p1 takes a site, loses it to p2 and takes it back from the walk it lost it on, and
\* gathers a second site meanwhile.
Course ==
         {Claim(s1, e1, x1, 0, p1, g1, a1, "MARK")}
  \union {Claim(s1, e2, x1, v, p2, g2, a2, "PHOTO_VERIFIED") : v \in 0 .. 1}
  \union {Claim(s1, e3, x1, 2, p1, g1, a3, "PHOTO_VERIFIED")}
  \union {Claim(s1, e4, x2, 0, p1, g1, a4, "PHOTO_VERIFIED")}

NoImport == [x \in MCSites |-> None]

Imported(pet, attempt, verified, occupied) ==
    [pet |-> pet, session |-> g1, attempt |-> attempt, verified |-> verified,
     occupied_ms |-> occupied, certified_ms |-> NoTime]

OneScope == [s \in Seasons |-> "scope"]
OneSeasonStarts == [s \in Seasons |-> 1]
TinySeasonEnds == [s \in Seasons |-> 2]
OneSeasonEnds == [s \in Seasons |-> 5]
AllSites == [s \in Seasons |-> MCSites]
FreshSeason == [s \in Seasons |-> {NoImport}]

WorkerSymmetry == Permutations(Workers)

\* Two seasons of one scope in a row and a third, of another scope, that wants
\* the same site: s1 and s3 exclude each other while active, s2 follows s1 and
\* may import an owner, under an attempt id that is free or was used in s1.
SeasonScopes == [s \in Seasons |-> IF s = s3 THEN "park" ELSE "river"]
SeasonStarts == [s \in Seasons |-> IF s = s2 THEN 2 ELSE 1]
SeasonEnds == [s \in Seasons |-> IF s = s1 THEN 2 ELSE 3]
SharedSite == [s \in Seasons |-> IF s = s3 THEN MCSites ELSE {x1}]
LateImports ==
    [s \in Seasons |->
       IF s = s2 THEN {NoImport,
                       [NoImport EXCEPT ![x1] = Imported(p2, a2, TRUE, 0)],
                       [NoImport EXCEPT ![x1] = Imported(p1, a1, TRUE, 1)]}
       ELSE {NoImport}]

\* A claim of s1 whose attempt comes back in s2, and a rival in s2.
Comebacks ==
    {Claim(s1, e1, x1, 0, p1, g1, a1, "MARK"),
     Claim(s2, e2, x1, 0, p1, g1, a1, "MARK"),
     Claim(s2, e3, x1, 1, p1, g1, a3, "PHOTO_VERIFIED")}

ThreeSeasons == {s1, s2, s3}
==============================================================================
