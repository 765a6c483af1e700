--------------------------- MODULE TerritoryPolicy ---------------------------
(***************************************************************************)
(* The pure territory policy: what one accepted claim does to a site and   *)
(* to the scores of the pets it touches, and what the end of a season does *)
(* to all of them.  Nothing here reads a clock or a table: the time of the *)
(* decision is a parameter, and a refused decision is a false predicate.   *)
(***************************************************************************)
EXTENDS Integers, FiniteSets

CONSTANTS
    Pets, Sites, Sessions, Attempts, Events,
    Seasons,            \* season identities
    Starts, Ends,       \* [Seasons -> Nat], the scoring window [Starts, Ends)
    Rules,              \* the balance a season is played under
    DayMs,              \* length of the UTC day that keys the daily bonus
    PointDenominator,   \* holding units in one point
    None                \* the null of the code: no owner, no row, no key

\* multiplier() starts from 10_000 basis points; the unit is kept abstract so
\* that a model can use small numbers.
RulesType ==
    [version: {"draft-2026-09-06", "certified-protection-v2"},
     protection_ms: Nat, claim_points: Nat, takeover_points: Nat,
     hourly_points: Nat, base_bps: Nat, extra_site_bps: Nat, maximum_bps: Nat,
     repeat_bonus: {"every_change", "daily_pet_site"},
     unverified_scores: BOOLEAN]

ASSUME RulesAssumption ==
    Rules \in RulesType /\ Rules.maximum_bps >= Rules.base_bps

ASSUME WindowAssumption ==
    /\ Starts \in [Seasons -> Nat]
    /\ Ends \in [Seasons -> Nat]
    /\ \A s \in Seasons : Starts[s] < Ends[s]

ASSUME UnitsAssumption == DayMs \in Nat \ {0} /\ PointDenominator \in Nat \ {0}

ASSUME FiniteAssumption == IsFiniteSet(Sites) /\ IsFiniteSet(Pets)

\* certified_ms is None in the code until a photo certifies the owner.
NoTime == -1

Owner == [pet: Pets, session: Sessions, attempt: Attempts, verified: BOOLEAN,
          occupied_ms: Nat, certified_ms: Nat \union {NoTime}]

SiteRow == [version: Nat, owner: Owner \union {None}]

Score == [bonus: Nat, holding_units: Nat, held_site_ms: Nat,
          current_count: Nat, scoring_count: Nat, peak: Nat,
          claims: Nat, takeovers: Nat, last_ms: Nat]

ASSUME NoneAssumption == None \notin Owner \union Pets \union Score

Candidate == [season: Seasons, event: Events, site: Sites,
              expected_version: Nat, pet: Pets, session: Sessions,
              attempt: Attempts, cause: {"MARK", "PHOTO_VERIFIED"}]

BonusKeys == [season: Seasons, pet: Pets, site: Sites, utc_day: Nat]

NewScore(at) ==
    [bonus |-> 0, holding_units |-> 0, held_site_ms |-> 0, current_count |-> 0,
     scoring_count |-> 0, peak |-> 0, claims |-> 0, takeovers |-> 0,
     last_ms |-> at]

\* The certification a candidate carries is fixed by its cause.
Verified(c) == c.cause = "PHOTO_VERIFIED"

Multiplier(count) ==
    LET extra == IF count > 1 THEN (count - 1) * Rules.extra_site_bps ELSE 0
    IN  IF Rules.base_bps + extra < Rules.maximum_bps
          THEN Rules.base_bps + extra ELSE Rules.maximum_bps

------------------------------------------------------------------------------
\* Scores

Settleable(score, at) ==
    /\ at >= score.last_ms
    /\ score.scoring_count <= score.current_count
    /\ score.current_count <= score.peak

\* Bug: the counters of an unverified site are given up as if they scored.
ReleaseScoring(score, verified) ==
    [score EXCEPT !.current_count = @ - 1, !.scoring_count = @ - 1]

\* What a pet earns in one unit of time while it holds n scoring sites.
Rate(n) == n * Rules.hourly_points * Multiplier(n)

Settle(score, at) ==
    LET elapsed == at - score.last_ms
    IN  [score EXCEPT
           !.holding_units = @ + elapsed * Rate(score.scoring_count),
           !.held_site_ms = @ + elapsed * score.current_count,
           !.last_ms = at]

Counted(verified) == IF Rules.unverified_scores \/ verified THEN 1 ELSE 0

Release(score, verified) ==
    [score EXCEPT !.current_count = @ - 1,
                  !.scoring_count = @ - Counted(verified)]

Acquire(score, verified) ==
    [score EXCEPT
       !.current_count = @ + 1,
       !.peak = IF score.current_count + 1 > @ THEN score.current_count + 1 ELSE @,
       !.scoring_count = @ + Counted(verified)]

Reward(score, points, takeover) ==
    [score EXCEPT !.bonus = @ + points,
                  !.claims = @ + 1,
                  !.takeovers = IF takeover THEN @ + 1 ELSE @]

------------------------------------------------------------------------------
\* Admission of a claim

\* Bug: a certification does not renew the protection.
ProtectedFromOccupation(owner) ==
    IF owner.verified THEN owner.occupied_ms + Rules.protection_ms ELSE NoTime

\* Bug: the season's end is not checked; its last instant is admitted.
OpenEnded(s, status, at) == status = "ACTIVE" /\ Starts[s] <= at
ClosedInterval(s, status, at) == status = "ACTIVE" /\ Starts[s] <= at /\ at <= Ends[s]

\* NoTime when the owner enjoys no protection at all.
ProtectedUntil(owner) ==
    IF Rules.version = "draft-2026-09-06" THEN owner.occupied_ms + Rules.protection_ms
    ELSE IF ~owner.verified THEN NoTime
    ELSE IF owner.certified_ms = NoTime THEN owner.occupied_ms + Rules.protection_ms
    ELSE owner.certified_ms + Rules.protection_ms

IsProtected(owner, pet, at) == owner.pet # pet /\ at < ProtectedUntil(owner)

InWindow(s, status, at) == status = "ACTIVE" /\ Starts[s] <= at /\ at < Ends[s]

TakeoverAllowed(owner, c) ==
    /\ Verified(c)
    /\ Rules.version = "certified-protection-v2" \/ owner.session # c.session

ContextValid(status, row, c, at) ==
    /\ InWindow(c.season, status, at)
    /\ row.version = c.expected_version
    /\ row.owner # None =>
         /\ ~IsProtected(row.owner, c.pet, at)
         /\ Starts[c.season] <= row.owner.occupied_ms
         /\ row.owner.occupied_ms <= at
         /\ row.owner.pet # c.pet => TakeoverAllowed(row.owner, c)

BonusKey(c, at) ==
    IF Rules.repeat_bonus = "daily_pet_site"
      THEN [season |-> c.season, pet |-> c.pet, site |-> c.site, utc_day |-> at \div DayMs]
      ELSE None

------------------------------------------------------------------------------
\* The effect of an admitted claim

SamePet(row, c) == row.owner # None /\ row.owner.pet = c.pet

Affected(row, c) == {c.pet} \union (IF row.owner = None THEN {} ELSE {row.owner.pet})

\* The owner marks again, or is certified already: nothing changes.
Unchanged(row, c) == SamePet(row, c) /\ (row.owner.verified \/ ~Verified(c))

ScoresValid(row, c, scores, at) ==
    /\ \A p \in Affected(row, c) :
         /\ Starts[c.season] <= scores[p].last_ms
         /\ Settleable(scores[p], at)
    /\ row.owner # None =>
         /\ scores[row.owner.pet].current_count >= 1
         /\ scores[row.owner.pet].scoring_count >= Counted(row.owner.verified)

\* Bug: a certification of one's own site is paid as well.
BonusForCertifying(row, c, paid) ==
    IF paid THEN 0
    ELSE IF row.owner = None THEN Rules.claim_points
    ELSE Rules.takeover_points

PlanBonus(row, c, paid) ==
    IF SamePet(row, c) \/ paid THEN 0
    ELSE IF row.owner = None THEN Rules.claim_points
    ELSE Rules.takeover_points

\* Bug: the scores are settled after the counters moved.
AccountSettledLast(row, c, score, p, at, paid) ==
    LET released == IF row.owner # None /\ row.owner.pet = p
                      THEN Release(score, row.owner.verified) ELSE score
        acquired == IF p = c.pet THEN Acquire(released, Verified(c)) ELSE released
        settled  == Settle(acquired, at)
    IN  IF p = c.pet /\ ~SamePet(row, c)
          THEN Reward(settled, PlanBonus(row, c, paid), row.owner # None)
          ELSE settled

\* The old owner gives the site up before the new one takes it, so that a
\* certification of one's own site leaves the peak alone.
PlanAccount(row, c, score, p, at, paid) ==
    LET settled  == Settle(score, at)
        released == IF row.owner # None /\ row.owner.pet = p
                      THEN Release(settled, row.owner.verified) ELSE settled
        acquired == IF p = c.pet THEN Acquire(released, Verified(c)) ELSE released
    IN  IF p = c.pet /\ ~SamePet(row, c)
          THEN Reward(acquired, PlanBonus(row, c, paid), row.owner # None)
          ELSE acquired

PlanOwner(row, c, at) ==
    IF SamePet(row, c)
      THEN [row.owner EXCEPT !.verified = Verified(c), !.certified_ms = at]
      ELSE [pet |-> c.pet, session |-> c.session, attempt |-> c.attempt,
            verified |-> Verified(c), occupied_ms |-> at,
            certified_ms |-> IF Verified(c) THEN at ELSE NoTime]

\* Bug: a certification leaves the version as it was.
SiteVersionPerOwner(row, c, at) ==
    [version |-> IF SamePet(row, c) THEN row.version ELSE row.version + 1,
     owner |-> PlanOwner(row, c, at)]

PlanSite(row, c, at) ==
    IF Unchanged(row, c) THEN row
    ELSE [version |-> row.version + 1, owner |-> PlanOwner(row, c, at)]

PlanKind(row, c) ==
    IF Unchanged(row, c) THEN "UNCHANGED"
    ELSE IF SamePet(row, c) THEN "CERTIFIED" ELSE "OWNERSHIP_CHANGED"

\* Bug: the bonus for a free site is paid without reserving the day.
KeyOfTakeover(row, c, at, paid) ==
    IF row.owner = None \/ SamePet(row, c) \/ paid THEN None ELSE BonusKey(c, at)

\* paid: the daily bonus of this pet on this site was granted before.  The key
\* to reserve is None when there is none to reserve.
PlanKey(row, c, at, paid) ==
    IF SamePet(row, c) \/ paid THEN None ELSE BonusKey(c, at)

------------------------------------------------------------------------------
\* The end of a season

Finalizable(s, status, scores, at) ==
    /\ status = "ACTIVE"
    /\ at >= Ends[s]
    /\ \A p \in DOMAIN scores :
         Starts[s] <= scores[p].last_ms /\ Settleable(scores[p], Ends[s])

TotalUnits(score) == score.bonus * PointDenominator + score.holding_units

\* Equal totals share a rank and the next rank skips the places they took.
PlanResults(s, scores) ==
    LET final == [p \in DOMAIN scores |-> Settle(scores[p], Ends[s])]
    IN  [p \in DOMAIN scores |->
           [score |-> final[p],
            total_units |-> TotalUnits(final[p]),
            rank |-> 1 + Cardinality({q \in DOMAIN scores :
                                        TotalUnits(final[q]) > TotalUnits(final[p])})]]

\* The account row a finalized season keeps: the final score, holding nothing.
Retired(score) == [score EXCEPT !.current_count = 0, !.scoring_count = 0]
==============================================================================
