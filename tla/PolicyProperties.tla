--------------------------- MODULE PolicyProperties ---------------------------
(***************************************************************************)
(* What the territory policy service owes its callers.  The reference for  *)
(* every score is the event table: who held which site at each instant is  *)
(* read off the committed plans, never off the running totals.             *)
(***************************************************************************)
EXTENDS PolicyService, FiniteSetsExt

\* The tables hold the rows their columns allow.
TablesTyped ==
    /\ status \in [Seasons -> {"NONE", "ACTIVE", "FINALIZED"}]
    /\ site \in [Seasons -> [Sites -> SiteRow]]
    /\ account \in [Seasons -> [Pets -> Score \union {None}]]
    /\ receipt \in [Seasons -> [Events -> Receipt \union {None}]]
    /\ eventTable \in [Seasons -> [Events -> Entry \union {None}]]
    /\ bonusTable \subseteq BonusKeys
    /\ attemptTable \in [Attempts -> AttemptRow \union {None}]
    /\ result \in [Seasons -> [Pets -> Standing \union {None}]]
    /\ opening \in [Seasons -> [Sites -> Owner \union {None}]]

\* So do the locks and the private variables of the transactions.
TransactionsTyped ==
    /\ lock \in [Seasons -> Workers \union {None}]
    /\ advisory \in Workers \union {None}
    /\ pc \in [Workers -> {"idle", "lock_season", "load", "decide", "save", "register",
                           "settle", "close", "read", "advisory_lock", "check_season",
                           "insert_season"}]
    /\ job \in [Workers -> Job \union {None}]
    /\ snap \in [Workers -> SiteRow]
    /\ scores \in [Workers -> [Pets -> Score \union {None}]]
    /\ plan = [w \in Workers |-> plan[w]]

\* Every table, every lock and every private variable of a transaction has its
\* type: no counter, score or version ever falls below zero (the CHECK
\* constraints of migration 0033 are never the ones to stop a transaction).
TypeOK ==
    /\ clock \in Nat /\ setBacks \in Nat
    /\ TablesTyped
    /\ TransactionsTyped
    /\ replies \subseteq Receipt

------------------------------------------------------------------------------
\* Accounts and sites

\* Whatever transactions commit, crash or race, the counters every score is
\* settled with equal what the site rows say, and every owner has an account:
\* score_state_inconsistent is never raised (lock_scores, all_scores).
CountsMatch == \A s \in Seasons : AllScoresAgree(s)

\* A season whose end has passed can be finalized, whatever the last claims
\* did and however the wall clock moved: no account is settled beyond the end
\* and no count is out of step (plan_finalization's requirements).
SeasonCanClose ==
    \A s \in Seasons : status[s] = "ACTIVE" /\ clock >= Ends[s] => CanSettle(s)

------------------------------------------------------------------------------
\* How a transaction's private state relates to the tables

\* Steps taken while the season row is locked.
Holding == {"load", "decide", "save", "register", "settle", "close", "read"}

\* The season lock has one holder, the worker between its SELECT ... FOR UPDATE
\* and the end of its transaction.
LockHeld ==
    \A s \in Seasons, w \in Workers :
      lock[s] = w <=> pc[w] \in Holding /\ job[w].season = s

\* A worker carries out the job it was given, and its plan has the shape its
\* next step writes.
WorkerOK(w) ==
    /\ pc[w] # "idle" => job[w] \in Job
    /\ pc[w] = "lock_season" => job[w].op # "create"
    /\ \/ pc[w] \in {"load", "decide", "save", "register"}
       \/ pc[w] = "lock_season" /\ job[w].op \in {"apply", "register"}
       => job[w].cand \in Candidate /\ job[w].cand.season = job[w].season
    /\ pc[w] \in Holding => status[job[w].season] # "NONE"
    /\ pc[w] \in {"advisory_lock", "check_season", "insert_season"} =>
         job[w].owners \in Imports[job[w].season]
    /\ pc[w] \in {"decide", "save"} =>
         \A p \in Affected(snap[w], job[w].cand) : scores[w][p] \in Score
    /\ pc[w] = "save" => plan[w] \in OwnershipPlan
    /\ pc[w] = "close" =>
         /\ DOMAIN plan[w] \subseteq Pets
         /\ \A p \in DOMAIN plan[w] : plan[w][p] \in Standing

WorkOK == \A w \in Workers : WorkerOK(w)

\* The tables under the lock are still what the transaction read.
SnapshotFresh ==
    \A w \in Workers : pc[w] \in {"decide", "save"} =>
      LET c == job[w].cand
      IN  /\ snap[w] = site[c.season][c.site]
          /\ \A p \in Affected(snap[w], c) :
               /\ account[c.season][p] # None => scores[w][p] = account[c.season][p]
               /\ CountsAgree(site[c.season], p, scores[w][p])

\* What one site row adds to the counts of a pet.
Held(row, p) == IF row.owner # None /\ row.owner.pet = p THEN 1 ELSE 0
HeldScoring(row, p) ==
    IF row.owner # None /\ row.owner.pet = p THEN Counted(row.owner.verified) ELSE 0

\* A plan waiting to be saved was made inside the window and moves the counts
\* of each pet by what the site's new row adds and its old one gave.
PlanFits ==
    \A w \in Workers : pc[w] = "save" =>
      LET c == job[w].cand
          row == snap[w]
          p == plan[w]
      IN  /\ Starts[c.season] <= p.at_ms /\ p.at_ms < Ends[c.season]
          /\ p.kind # "UNCHANGED" =>
               /\ p.after.owner # None /\ p.after.owner.pet = c.pet
               /\ \A q \in Pets :
                    IF q \notin Affected(row, c) THEN p.accounts[q] = None
                    ELSE /\ p.accounts[q] \in Score
                         /\ p.accounts[q].current_count =
                              scores[w][q].current_count - Held(row, q) + Held(p.after, q)
                         /\ p.accounts[q].scoring_count =
                              scores[w][q].scoring_count - HeldScoring(row, q)
                                                         + HeldScoring(p.after, q)

\* The advisory lock has one holder, the worker between taking it and the end
\* of its transaction.
AdvisoryHeld ==
    \A w \in Workers : advisory = w <=> pc[w] \in {"check_season", "insert_season"}

\* What a creator found free is still free when it inserts.
ChecksStand == \A w \in Workers : pc[w] = "insert_season" => SeasonFree(job[w].season)

\* A season about to be closed is active and its standings cover its accounts.
ClosingFits ==
    \A w \in Workers : pc[w] = "close" =>
      /\ status[job[w].season] = "ACTIVE"
      /\ DOMAIN plan[w] = AccountPets(job[w].season)

------------------------------------------------------------------------------
\* The ledger of committed plans

Ledger(s) == {eventTable[s][e] : e \in Events} \ {None}
EntriesAt(s, x) == {n \in Ledger(s) : n.cand.site = x}
Changes(s) == {n \in Ledger(s) : n.kind = "OWNERSHIP_CHANGED"}

OpeningRow(s, x) ==
    [version |-> IF opening[s][x] = None THEN 0 ELSE 1, owner |-> opening[s][x]]

\* Each site's history is one unbroken chain from the row the season opened
\* with to the present row: no version is skipped or taken twice, every plan
\* starts from the row its predecessor left, and time never runs backwards
\* along it, even when the wall clock does (save_site, settle).
SiteHistoryIsAChain ==
    \A s \in Seasons, x \in Sites : status[s] # "NONE" =>
      LET rows == {OpeningRow(s, x)} \union {n.after : n \in EntriesAt(s, x)}
      IN  /\ \A n \in EntriesAt(s, x) :
               /\ n.before \in rows
               /\ n.after.version = n.before.version + 1
               /\ \A m \in EntriesAt(s, x) :
                    m.after.version < n.after.version => m.at_ms <= n.at_ms
          /\ \A r1, r2 \in rows : r1.version = r2.version => r1 = r2
          /\ status[s] = "ACTIVE" =>
               /\ site[s][x] \in rows
               /\ \A r \in rows : r.version <= site[s][x].version

OwnerThen(s, x, t) ==
    LET past == {n \in EntriesAt(s, x) : n.at_ms <= t}
    IN  IF past = {} THEN opening[s][x]
        ELSE (CHOOSE n \in past : \A m \in past : m.after.version <= n.after.version).after.owner

HeldThen(s, p, t) == {x \in Sites : OwnerThen(s, x, t) # None /\ OwnerThen(s, x, t).pet = p}

\* Certified in the course of the same ownership: the owner at t was verified
\* by the last event up to t.
ScoringThen(s, p, t) == {x \in HeldThen(s, p, t) : Counted(OwnerThen(s, x, t).verified) = 1}

HeldUpTo(s, p, until) ==
    SumFunction([t \in Starts[s] .. (until - 1) |-> Cardinality(HeldThen(s, p, t))])

EarnedUpTo(s, p, until) ==
    SumFunction([t \in Starts[s] .. (until - 1) |-> Rate(Cardinality(ScoringThen(s, p, t)))])

\* Settling at each claim adds up to the same as integrating, instant by
\* instant, over the sites a pet held: in the stored rows, in a projection
\* read now, and in the final standings, which stop at the season's end
\* however late the finalization runs (settle, projected_scores, finalize).
HoldingMatchesLedger ==
    \A s \in Seasons, p \in Pets :
      LET Agrees(score, until) ==
              /\ score.last_ms = until
              /\ score.held_site_ms = HeldUpTo(s, p, until)
              /\ score.holding_units = EarnedUpTo(s, p, until)
          row == account[s][p]
      IN  IF row = None THEN HeldUpTo(s, p, Ends[s]) = 0
          ELSE CASE status[s] = "FINALIZED" -> Agrees(result[s][p].score, Ends[s])
                 [] status[s] = "ACTIVE" ->
                      /\ Agrees(row, row.last_ms)
                      /\ Clamp(s, clock) >= row.last_ms =>
                           Agrees(ProjectedScores(s, clock)[p], Clamp(s, clock))

\* The points the receipts of a pet announce.
ReceiptsOf(s, p) == {e \in Events : receipt[s][e] # None /\ receipt[s][e].cand.pet = p}

ReceiptPoints(s, p) == SumFunction([e \in ReceiptsOf(s, p) |-> receipt[s][e].bonus])

\* Points and tallies are exactly what the receipts of the season say: one
\* claim per change of owner, one takeover per owner displaced, the bonus each
\* receipt announced, and a peak no higher than the sites ever taken
\* (plan_ownership).
TalliesMatchReceipts ==
    \A s \in Seasons, p \in Pets : account[s][p] # None =>
      LET row == account[s][p]
          mine == {n \in Changes(s) : n.cand.pet = p}
          opened == {x \in Sites : opening[s][x] # None /\ opening[s][x].pet = p}
      IN  /\ row.claims = Cardinality(mine)
          /\ row.takeovers = Cardinality({n \in mine : n.before.owner # None})
          /\ row.bonus = ReceiptPoints(s, p)
          /\ row.peak <= Cardinality(opened) + row.claims

------------------------------------------------------------------------------
\* Claims

\* After a photo certified an owner, nobody takes the site over before the
\* protection has run out; under the draft rules the protection starts with
\* the occupation instead (is_protected, over the whole history).
ProtectionHolds ==
    \A s \in Seasons : \A m \in Ledger(s), n \in Changes(s) :
      /\ m.cand.site = n.cand.site
      /\ m.after.version < n.after.version
      /\ IF Rules.version = "draft-2026-09-06" THEN m \in Changes(s) ELSE Verified(m.cand)
      => n.at_ms >= m.at_ms + Rules.protection_ms

\* A caller that lost a reply and asks again, however often and however late,
\* gets the one receipt its claim has, and the claim took effect at most once:
\* the plan on record is the one the receipt reports (get_receipt, save_receipt).
RepliesStand ==
    /\ \A r \in replies : receipt[r.cand.season][r.cand.event] = r
    /\ \A s \in Seasons, e \in Events :
         LET r == receipt[s][e]
             n == eventTable[s][e]
         IN  IF r = None \/ r.kind = "UNCHANGED" THEN n = None
             ELSE /\ n # None
                  /\ n.cand = r.cand /\ n.at_ms = r.at_ms /\ n.bonus = r.bonus
                  /\ n.after.version = r.site_version /\ n.kind = r.kind

\* With the daily rule a pet is paid for a site at most once per UTC day,
\* even when it loses the site and takes it back the same day (bonus_paid).
DailyBonusOnce ==
    Rules.repeat_bonus = "daily_pet_site" =>
      \A s \in Seasons : \A m, n \in Ledger(s) :
        /\ m # n /\ m.bonus > 0 /\ n.bonus > 0
        /\ m.cand.pet = n.cand.pet /\ m.cand.site = n.cand.site
        => m.at_ms \div DayMs # n.at_ms \div DayMs

\* An attempt belongs to one season, site, pet and session for ever: neither a
\* late callback nor an import can carry it over to another (register_attempt).
AttemptsKeepIdentity ==
    /\ \A s \in Seasons, e \in Events : receipt[s][e] # None =>
         attemptTable[receipt[s][e].cand.attempt] = AttemptOf(receipt[s][e].cand)
    /\ \A s \in Seasons, x \in Sites : opening[s][x] # None =>
         attemptTable[opening[s][x].attempt] = ImportAttempt(s, x, opening[s][x])

------------------------------------------------------------------------------
\* Seasons

\* Claims take effect inside the season's window only, whenever they were
\* submitted, and a finalized season keeps its standings, its receipts and its
\* neutral sites for good (season_ended, FINALIZED is terminal).
SeasonStaysClosed ==
    [][\A s \in Seasons :
         /\ status[s] = "FINALIZED" =>
              /\ status'[s] = "FINALIZED"
              /\ <<site[s], account[s], receipt[s], eventTable[s], result[s]>>' =
                 <<site[s], account[s], receipt[s], eventTable[s], result[s]>>
         /\ \A e \in Events : eventTable'[s][e] # None =>
              Starts[s] <= eventTable'[s][e].at_ms /\ eventTable'[s][e].at_ms < Ends[s]]_vars

\* Final ranks are the ranks of the points the receipts and the ledger prove:
\* more points rank higher, equal points share a rank, and as many pets are
\* ahead of a rank as it says (plan_finalization).
RanksFollowPoints ==
    \A s \in Seasons : status[s] = "FINALIZED" =>
      LET ranked == AccountPets(s)
          Points(p) == ReceiptPoints(s, p) * PointDenominator + EarnedUpTo(s, p, Ends[s])
      IN  /\ \A x \in Sites : site[s][x].owner = None
          /\ \A p, q \in ranked :
               (Points(p) > Points(q)) <=> (result[s][p].rank < result[s][q].rank)
          /\ \A p \in ranked :
               result[s][p].rank = 1 + Cardinality({q \in ranked :
                                                      result[s][q].rank < result[s][p].rank})

\* From the first claim to the final rank, what the accounts accumulate is what
\* the recorded history proves: time and units held, points, tallies and ranks.
ScoresFollowHistory ==
    HoldingMatchesLedger /\ TalliesMatchReceipts /\ RanksFollowPoints

\* However seasons are created side by side, no two active seasons share a
\* site and the seasons of a scope do not overlap in time (create_season).
ActiveSeasonsDisjoint ==
    \A r, s \in Seasons : r # s /\ status[r] # "NONE" /\ status[s] # "NONE" =>
      /\ status[r] = "ACTIVE" /\ status[s] = "ACTIVE" =>
           SeasonSites[r] \intersect SeasonSites[s] = {}
      /\ Scope[r] = Scope[s] => Ends[r] <= Starts[s] \/ Ends[s] <= Starts[r]

\* Seasons share nothing: neither sites nor days nor attempts.
SeasonsStayApart == ActiveSeasonsDisjoint /\ AttemptsKeepIdentity

\* What the committed tables say in the ledger's terms: who holds a site and
\* how, what was decided about an event, and the points a pet was paid.
HolderOf(row) ==
    IF row.owner = None THEN None ELSE [pet |-> row.owner.pet, verified |-> row.owner.verified]
DecidedOf(r) == IF r = None THEN None ELSE [pet |-> r.cand.pet, bonus |-> r.bonus]
PointsOf(row) == IF row = None THEN 0 ELSE row.bonus

Holders == [s \in Seasons |-> [x \in Sites |-> HolderOf(site[s][x])]]
Decided == [s \in Seasons |-> [e \in Events |-> DecidedOf(receipt[s][e])]]
Paid == [s \in Seasons |-> [p \in Pets |-> PointsOf(account[s][p])]]

ASSUME HolderAssumption == None \notin [pet: Pets, verified: BOOLEAN]

\* Seen through the committed tables alone, the concurrent service is the
\* atomic ledger: no interleaving, crash or retry shows a caller anything that
\* deciding one claim at a time could not.
Promise == INSTANCE OwnershipLedger WITH
    ClaimPoints <- Rules.claim_points,
    TakeoverPoints <- Rules.takeover_points,
    phase <- status, holder <- Holders, decided <- Decided, points <- Paid

ImplementsLedger == Promise!Spec

\* No transaction waits for ever: every one that started commits, is refused
\* or is rolled back, so the season lock is always given back.
TransactionsEnd == \A w \in Workers : pc[w] # "idle" ~> pc[w] = "idle"
==============================================================================
