---------------------------- MODULE PolicyService ----------------------------
(***************************************************************************)
(* The territory policy served from PostgreSQL.  Workers run transactions  *)
(* (apply a claim, register an attempt, finalize, project, create a        *)
(* season) one step at a time against committed tables.  A transaction     *)
(* keeps what it read in private variables and publishes all its writes in *)
(* one committing step; a crash or a refusal publishes nothing.  The clock *)
(* is the database's wall clock: it moves between any two steps and may be *)
(* set back.                                                               *)
(***************************************************************************)
EXTENDS TerritoryPolicy

CONSTANTS
    Workers,          \* database sessions, each running one transaction at a time
    Candidates,       \* the ownership decisions the claim service may submit
    Scope,            \* [Seasons -> the scope a season belongs to]
    SeasonSites,      \* [Seasons -> SUBSET Sites]
    Imports,          \* [Seasons -> the initial_owners a caller may pass]
    MaxTime,          \* bound on the clock
    MaxSetBacks       \* bound on how often the wall clock is set back

ImportedOwners == [Sites -> Owner \union {None}]

ASSUME CandidatesAssumption == Candidates \subseteq Candidate

ASSUME ImportsAssumption ==
    /\ SeasonSites \in [Seasons -> SUBSET Sites]
    /\ \A s \in Seasons :
         /\ Imports[s] \subseteq ImportedOwners
         /\ \A owners \in Imports[s] : \A x \in Sites \ SeasonSites[s] : owners[x] = None

ASSUME BoundsAssumption == MaxTime \in Nat /\ MaxSetBacks \in Nat

VARIABLES
    clock, setBacks,
    status,           \* territory_policy_season.status, "NONE" before the insert
    site,             \* territory_policy_site
    account,          \* territory_policy_account
    receipt,          \* territory_policy_receipt
    eventTable,       \* territory_policy_event: the plans that changed a site
    bonusTable,       \* territory_policy_bonus
    attemptTable,     \* territory_policy_attempt, keyed by the global attempt id
    result,           \* territory_policy_result
    lock,             \* row lock on the season, held until the transaction ends
    advisory,         \* pg_advisory_xact_lock(260, 33)
    pc, job,          \* where each worker is and what it was asked to do
    snap, scores, plan,  \* what its transaction has read and decided
    opening,          \* history: the owners a season was created with
    replies           \* history: the receipts handed back to callers

tables == <<status, site, account, receipt, eventTable, bonusTable,
            attemptTable, result, opening>>
work == <<pc, job, snap, scores, plan>>
vars == <<clock, setBacks, tables, lock, advisory, work, replies>>

Time == 0 .. MaxTime

Receipt == [cand: Candidate, at_ms: Nat, site_version: Nat, bonus: Nat,
            kind: {"OWNERSHIP_CHANGED", "CERTIFIED", "UNCHANGED"}]

Entry == [cand: Candidate, at_ms: Nat, before: SiteRow, after: SiteRow, bonus: Nat,
          kind: {"OWNERSHIP_CHANGED", "CERTIFIED"}]

AttemptRow == [season: Seasons, site: Sites, pet: Pets, session: Sessions]

Standing == [score: Score, total_units: Nat, rank: Nat]

OwnershipPlan == [at_ms: Nat, after: SiteRow, accounts: [Pets -> Score \union {None}],
                  bonus: Nat, key: BonusKeys \union {None},
                  kind: {"OWNERSHIP_CHANGED", "CERTIFIED", "UNCHANGED"}]

Job == [op: {"apply", "register", "finalize", "project", "create"},
        season: Seasons, cand: Candidate \union {None},
        owners: ImportedOwners \union {None}]

ASSUME NullAssumption ==
    /\ None \notin Workers
    /\ None \notin Candidate \union Receipt \union Entry \union Standing \union AttemptRow
                   \union BonusKeys

EmptySite == [version |-> 0, owner |-> None]
NoScores == [p \in Pets |-> None]

Init ==
    /\ clock = 0 /\ setBacks = 0
    /\ status = [s \in Seasons |-> "NONE"]
    /\ site = [s \in Seasons |-> [x \in Sites |-> EmptySite]]
    /\ account = [s \in Seasons |-> NoScores]
    /\ receipt = [s \in Seasons |-> [e \in Events |-> None]]
    /\ eventTable = [s \in Seasons |-> [e \in Events |-> None]]
    /\ bonusTable = {}
    /\ attemptTable = [a \in Attempts |-> None]
    /\ result = [s \in Seasons |-> NoScores]
    /\ lock = [s \in Seasons |-> None]
    /\ advisory = None
    /\ pc = [w \in Workers |-> "idle"]
    /\ job = [w \in Workers |-> None]
    /\ snap = [w \in Workers |-> EmptySite]
    /\ scores = [w \in Workers |-> NoScores]
    /\ plan = [w \in Workers |-> None]
    /\ opening = [s \in Seasons |-> [x \in Sites |-> None]]
    /\ replies = {}

------------------------------------------------------------------------------
\* The environment: wall clock and callers

Tick ==
    /\ clock < MaxTime
    /\ clock' = clock + 1
    /\ UNCHANGED <<setBacks, tables, lock, advisory, work, replies>>

SetBack ==
    /\ clock > 0 /\ setBacks < MaxSetBacks
    /\ clock' = clock - 1
    /\ setBacks' = setBacks + 1
    /\ UNCHANGED <<tables, lock, advisory, work, replies>>

Start(w, op, s, c, owners, at) ==
    /\ pc[w] = "idle"
    /\ job' = [job EXCEPT ![w] = [op |-> op, season |-> s, cand |-> c, owners |-> owners]]
    /\ pc' = [pc EXCEPT ![w] = at]
    /\ UNCHANGED <<clock, setBacks, tables, lock, advisory, snap, scores, plan, replies>>

\* A candidate may be submitted at any time and again after any outcome: the
\* caller of a lost reply cannot tell whether its transaction committed.
Submit(w) == \E c \in Candidates : Start(w, "apply", c.season, c, None, "lock_season")

Admit(w) == \E c \in Candidates : Start(w, "register", c.season, c, None, "lock_season")

Ask(w) ==
    \E s \in Seasons, op \in {"finalize", "project"} : Start(w, op, s, None, None, "lock_season")

AskSeason(w) ==
    \E s \in Seasons : \E owners \in Imports[s] :
      Start(w, "create", s, None, owners, "advisory_lock")

------------------------------------------------------------------------------
\* Common to every transaction

\* Commit and rollback both end the transaction and with it its locks.
EndTransaction(w) ==
    /\ pc' = [pc EXCEPT ![w] = "idle"]
    /\ job' = [job EXCEPT ![w] = None]
    /\ snap' = [snap EXCEPT ![w] = EmptySite]
    /\ scores' = [scores EXCEPT ![w] = NoScores]
    /\ plan' = [plan EXCEPT ![w] = None]
    /\ lock' = [s \in Seasons |-> IF lock[s] = w THEN None ELSE lock[s]]
    /\ advisory' = IF advisory = w THEN None ELSE advisory
    /\ UNCHANGED <<clock, setBacks>>

\* Bug: a transaction that fails keeps its locks.
RollbackKeepingLocks(w) ==
    /\ pc' = [pc EXCEPT ![w] = "idle"]
    /\ job' = [job EXCEPT ![w] = None]
    /\ snap' = [snap EXCEPT ![w] = EmptySite]
    /\ scores' = [scores EXCEPT ![w] = NoScores]
    /\ plan' = [plan EXCEPT ![w] = None]
    /\ UNCHANGED <<clock, setBacks, lock, advisory, tables, replies>>

\* A requirement that fails raises, and the caller's transaction block rolls back.
Rollback(w) == EndTransaction(w) /\ UNCHANGED <<tables, replies>>

Goto(w, at) == pc' = [pc EXCEPT ![w] = at]

\* Bug: the season row is read without FOR UPDATE.
NeverLocked(s) == TRUE

\* SELECT ... FOR UPDATE waits for the season row.
Unlocked(s) == lock[s] = None

LockSeason(w) ==
    LET s == job[w].season
    IN  /\ pc[w] = "lock_season"
        /\ status[s] # "NONE"
        /\ Unlocked(s)
        /\ lock' = [lock EXCEPT ![s] = w]
        /\ Goto(w, CASE job[w].op = "apply" -> "load"
                     [] job[w].op = "register" -> "register"
                     [] job[w].op = "finalize" -> "settle"
                     [] job[w].op = "project" -> "read")
        /\ UNCHANGED <<clock, setBacks, tables, advisory, job, snap, scores, plan, replies>>

UnknownSeason(w) ==
    /\ pc[w] = "lock_season"
    /\ status[job[w].season] = "NONE"
    /\ Rollback(w)

\* The process or its connection dies: PostgreSQL rolls the transaction back.
Crash(w) == pc[w] # "idle" /\ Rollback(w)

------------------------------------------------------------------------------
\* What the site rows say a pet holds (_counts)

OwnedSites(rows, p) == {x \in Sites : rows[x].owner # None /\ rows[x].owner.pet = p}
ScoringSites(rows, p) == {x \in OwnedSites(rows, p) : Counted(rows[x].owner.verified) = 1}

CountsAgree(rows, p, score) ==
    /\ score.current_count = Cardinality(OwnedSites(rows, p))
    /\ score.scoring_count = Cardinality(ScoringSites(rows, p))

\* lock_scores: a pet without a row gets a fresh score that is not written yet.
LoadedScores(s, pets) ==
    [p \in Pets |-> IF p \notin pets THEN None
                    ELSE IF account[s][p] = None THEN NewScore(clock)
                    ELSE account[s][p]]

------------------------------------------------------------------------------
\* apply_ownership_in_transaction

Replay(w) ==
    LET c == job[w].cand
    IN  /\ pc[w] = "load"
        /\ receipt[c.season][c.event] # None
        /\ receipt[c.season][c.event].cand = c
        /\ replies' = replies \union {receipt[c.season][c.event]}
        /\ EndTransaction(w)
        /\ UNCHANGED tables

CanLoad(c) ==
    /\ receipt[c.season][c.event] = None
    /\ c.site \in SeasonSites[c.season]
    /\ LET pets == Affected(site[c.season][c.site], c)
       IN  \A p \in pets : CountsAgree(site[c.season], p, LoadedScores(c.season, pets)[p])

Load(w) ==
    LET c == job[w].cand
    IN  /\ pc[w] = "load"
        /\ CanLoad(c)
        /\ snap' = [snap EXCEPT ![w] = site[c.season][c.site]]
        /\ scores' = [scores EXCEPT ![w] =
                        LoadedScores(c.season, Affected(site[c.season][c.site], c))]
        /\ Goto(w, "decide")
        /\ UNCHANGED <<clock, setBacks, tables, lock, advisory, job, plan, replies>>

\* event_identity_conflict, unknown_site, score_state_missing, score_state_inconsistent
LoadFails(w) ==
    LET c == job[w].cand
    IN  /\ pc[w] = "load"
        /\ ~CanLoad(c)
        /\ receipt[c.season][c.event] = None \/ receipt[c.season][c.event].cand # c
        /\ Rollback(w)

Admissible(w) ==
    LET c == job[w].cand
    IN  /\ ContextValid(status[c.season], snap[w], c, clock)
        /\ Unchanged(snap[w], c) \/ ScoresValid(snap[w], c, scores[w], clock)

BonusPaid(c, at) == BonusKey(c, at) \in bonusTable

Decide(w) ==
    LET c == job[w].cand
        paid == BonusPaid(c, clock)
        row == snap[w]
    IN  /\ pc[w] = "decide"
        /\ Admissible(w)
        /\ plan' = [plan EXCEPT ![w] =
              [at_ms |-> clock,
               after |-> PlanSite(row, c, clock),
               accounts |-> [p \in Pets |->
                  IF p \in Affected(row, c) /\ ~Unchanged(row, c)
                    THEN PlanAccount(row, c, scores[w][p], p, clock, paid) ELSE None],
               bonus |-> PlanBonus(row, c, paid),
               key |-> PlanKey(row, c, clock, paid),
               kind |-> PlanKind(row, c)]]
        /\ Goto(w, "save")
        /\ UNCHANGED <<clock, setBacks, tables, lock, advisory, job, snap, scores, replies>>

Refuse(w) ==
    /\ pc[w] = "decide"
    /\ ~Admissible(w)
    /\ Rollback(w)

AttemptOf(c) == [season |-> c.season, site |-> c.site, pet |-> c.pet, session |-> c.session]

\* INSERT ... ON CONFLICT DO NOTHING, then compare the row that is there.
Registrable(a, row) == attemptTable[a] \in {None, row}

\* save_site's compare-and-set on the version and the primary keys of the
\* bonus, event and receipt tables.  That the new row is the next version of the
\* same site (invalid_site_update) is so for every plan.
CanSave(w) ==
    LET c == job[w].cand
        p == plan[w]
    IN  /\ p.kind # "UNCHANGED" =>
             /\ site[c.season][c.site].version = snap[w].version
             /\ p.key # None => p.key \notin bonusTable
             /\ eventTable[c.season][c.event] = None
        /\ status[c.season] = "ACTIVE"
        /\ Registrable(c.attempt, AttemptOf(c))
        /\ receipt[c.season][c.event] = None

SaveAccounts(s, accounts) ==
    [p \in Pets |-> IF accounts[p] = None THEN account[s][p] ELSE accounts[p]]

\* Bug: the receipt reports the version the claim started from.
ReceiptOfBefore(c, p, before) ==
    [cand |-> c, at_ms |-> p.at_ms, site_version |-> before.version,
     bonus |-> p.bonus, kind |-> p.kind]

ReceiptOf(c, p, before) ==
    [cand |-> c, at_ms |-> p.at_ms, site_version |-> p.after.version,
     bonus |-> p.bonus, kind |-> p.kind]

Save(w) ==
    LET c == job[w].cand
        s == c.season
        p == plan[w]
        written == ReceiptOf(c, p, snap[w])
    IN  /\ pc[w] = "save"
        /\ CanSave(w)
        /\ IF p.kind = "UNCHANGED"
             THEN UNCHANGED <<site, account, eventTable, bonusTable>>
             ELSE /\ site' = [site EXCEPT ![s][c.site] = p.after]
                  /\ account' = [account EXCEPT ![s] = SaveAccounts(s, p.accounts)]
                  /\ eventTable' = [eventTable EXCEPT ![s][c.event] =
                        [cand |-> c, at_ms |-> p.at_ms, before |-> snap[w],
                         after |-> p.after, bonus |-> p.bonus, kind |-> p.kind]]
                  /\ bonusTable' = bonusTable \union ({p.key} \ {None})
        /\ attemptTable' = [attemptTable EXCEPT ![c.attempt] = AttemptOf(c)]
        /\ receipt' = [receipt EXCEPT ![s][c.event] = written]
        /\ replies' = replies \union {written}
        /\ EndTransaction(w)
        /\ UNCHANGED <<status, result, opening>>

SaveFails(w) ==
    /\ pc[w] = "save"
    /\ ~CanSave(w)
    /\ Rollback(w)

------------------------------------------------------------------------------
\* register_attempt, called by the host when it admits a claim

CanRegister(c) == status[c.season] = "ACTIVE" /\ Registrable(c.attempt, AttemptOf(c))

Register(w) ==
    LET c == job[w].cand
    IN  /\ pc[w] = "register"
        /\ CanRegister(c)
        /\ attemptTable' = [attemptTable EXCEPT ![c.attempt] = AttemptOf(c)]
        /\ EndTransaction(w)
        /\ UNCHANGED <<status, site, account, receipt, eventTable, bonusTable, result,
                       opening, replies>>

RegisterFails(w) ==
    /\ pc[w] = "register"
    /\ ~CanRegister(job[w].cand)
    /\ Rollback(w)

------------------------------------------------------------------------------
\* finalize_in_transaction

AccountPets(s) == {p \in Pets : account[s][p] # None}
Scores(s) == [p \in AccountPets(s) |-> account[s][p]]

\* all_scores: every owner has an account and every account counts its sites.
AllScoresAgree(s) ==
    /\ \A x \in Sites : site[s][x].owner # None => site[s][x].owner.pet \in AccountPets(s)
    /\ \A p \in AccountPets(s) : CountsAgree(site[s], p, account[s][p])

CanSettle(s) ==
    /\ status[s] # "FINALIZED"
    /\ AllScoresAgree(s)
    /\ Finalizable(s, status[s], Scores(s), clock)

PlanFinalization(w) ==
    LET s == job[w].season
    IN  /\ pc[w] = "settle"
        /\ CanSettle(s)
        /\ plan' = [plan EXCEPT ![w] = PlanResults(s, Scores(s))]
        /\ Goto(w, "close")
        /\ UNCHANGED <<clock, setBacks, tables, lock, advisory, job, snap, scores, replies>>

\* An earlier finalization is returned, an early one refused: neither writes.
FinalizeReturns(w) ==
    /\ pc[w] = "settle"
    /\ ~CanSettle(job[w].season)
    /\ Rollback(w)

Finalize(w) ==
    LET s == job[w].season
        standings == plan[w]
    IN  /\ pc[w] = "close"
        /\ result' = [result EXCEPT ![s] =
              [p \in Pets |-> IF p \in DOMAIN standings THEN standings[p] ELSE None]]
        /\ account' = [account EXCEPT ![s] =
              [p \in Pets |-> IF p \in DOMAIN standings THEN Retired(standings[p].score)
                              ELSE account[s][p]]]
        /\ site' = [site EXCEPT ![s] =
              [x \in Sites |-> IF site[s][x].owner = None THEN site[s][x]
                               ELSE [version |-> site[s][x].version + 1, owner |-> None]]]
        /\ status' = [status EXCEPT ![s] = "FINALIZED"]
        /\ EndTransaction(w)
        /\ UNCHANGED <<receipt, eventTable, bonusTable, attemptTable, opening, replies>>

------------------------------------------------------------------------------
\* projected_scores: a read under the season lock that writes nothing

Clamp(s, at) == IF at < Starts[s] THEN Starts[s] ELSE IF at > Ends[s] THEN Ends[s] ELSE at

ProjectedScores(s, at) ==
    IF status[s] = "FINALIZED"
      THEN [p \in AccountPets(s) |-> result[s][p].score]
      ELSE [p \in AccountPets(s) |-> Settle(account[s][p], Clamp(s, at))]

Project(w) ==
    /\ pc[w] = "read"
    /\ Rollback(w)

------------------------------------------------------------------------------
\* create_season

\* Bug: creators do not wait for each other.
NoAdvisoryLock(w) ==
    /\ pc[w] = "advisory_lock"
    /\ Goto(w, "check_season")
    /\ UNCHANGED <<clock, setBacks, tables, lock, advisory, job, snap, scores, plan, replies>>

AdvisoryLock(w) ==
    /\ pc[w] = "advisory_lock"
    /\ advisory = None
    /\ advisory' = w
    /\ Goto(w, "check_season")
    /\ UNCHANGED <<clock, setBacks, tables, lock, job, snap, scores, plan, replies>>

\* Reads what is committed now: no active season on these sites, and the
\* scope's earlier seasons end before this one starts.
SeasonFree(s) ==
    /\ \A r \in Seasons : status[r] = "ACTIVE" => SeasonSites[r] \intersect SeasonSites[s] = {}
    /\ \A r \in Seasons :
         status[r] # "NONE" /\ Scope[r] = Scope[s] => Starts[s] >= Ends[r]

CheckSeason(w) ==
    /\ pc[w] = "check_season"
    /\ SeasonFree(job[w].season)
    /\ Goto(w, "insert_season")
    /\ UNCHANGED <<clock, setBacks, tables, lock, advisory, job, snap, scores, plan, replies>>

SeasonTaken(w) ==
    /\ pc[w] = "check_season"
    /\ ~SeasonFree(job[w].season)
    /\ Rollback(w)

\* Scoring starts with the season; protection keeps its original clock.
ImportRow(s, owner) ==
    IF owner = None THEN EmptySite
    ELSE [version |-> 1,
          owner |-> [owner EXCEPT
                       !.occupied_ms = Starts[s],
                       !.certified_ms = IF owner.verified /\ @ = NoTime
                                          THEN owner.occupied_ms ELSE @]]

ImportAccount(s, owners, p) ==
    LET held == {x \in Sites : owners[x] # None /\ owners[x].pet = p}
    IN  IF held = {} THEN None
        ELSE [NewScore(Starts[s]) EXCEPT
                !.current_count = Cardinality(held),
                !.scoring_count = Cardinality({x \in held : Counted(owners[x].verified) = 1}),
                !.peak = Cardinality(held)]

ImportAttempt(s, x, owner) ==
    [season |-> s, site |-> x, pet |-> owner.pet, session |-> owner.session]

\* invalid_import_time, the season's primary key, one active season per scope,
\* and every imported attempt unused, or used by this very import.
CanInsert(s, owners) ==
    /\ status[s] = "NONE"
    /\ \A r \in Seasons : Scope[r] = Scope[s] => status[r] # "ACTIVE"
    /\ \A x \in Sites : owners[x] # None =>
         /\ owners[x].occupied_ms <= Starts[s]
         /\ Registrable(owners[x].attempt, ImportAttempt(s, x, owners[x]))
         /\ \A y \in Sites \ {x} : owners[y] # None => owners[y].attempt # owners[x].attempt

InsertSeason(w) ==
    LET s == job[w].season
        owners == job[w].owners
        imported == {x \in Sites : owners[x] # None}
    IN  /\ pc[w] = "insert_season"
        /\ CanInsert(s, owners)
        /\ status' = [status EXCEPT ![s] = "ACTIVE"]
        /\ site' = [site EXCEPT ![s] = [x \in Sites |-> ImportRow(s, owners[x])]]
        /\ account' = [account EXCEPT ![s] = [p \in Pets |-> ImportAccount(s, owners, p)]]
        /\ attemptTable' = [a \in Attempts |->
              IF \E x \in imported : owners[x].attempt = a
                THEN LET x == CHOOSE x \in imported : owners[x].attempt = a
                     IN  ImportAttempt(s, x, owners[x])
                ELSE attemptTable[a]]
        /\ opening' = [opening EXCEPT ![s] = [x \in Sites |-> ImportRow(s, owners[x]).owner]]
        /\ EndTransaction(w)
        /\ UNCHANGED <<receipt, eventTable, bonusTable, result, replies>>

InsertFails(w) ==
    /\ pc[w] = "insert_season"
    /\ ~CanInsert(job[w].season, job[w].owners)
    /\ Rollback(w)

------------------------------------------------------------------------------
\* The steps a running transaction takes on its own
Progress(w) ==
    \/ UnknownSeason(w)
    \/ Replay(w) \/ Load(w) \/ LoadFails(w) \/ Decide(w) \/ Refuse(w) \/ Save(w) \/ SaveFails(w)
    \/ Register(w) \/ RegisterFails(w)
    \/ PlanFinalization(w) \/ FinalizeReturns(w) \/ Finalize(w)
    \/ Project(w)
    \/ CheckSeason(w) \/ SeasonTaken(w) \/ InsertSeason(w) \/ InsertFails(w)

WorkerStep(w) ==
    \/ Submit(w) \/ Admit(w) \/ Ask(w) \/ AskSeason(w)
    \/ LockSeason(w) \/ AdvisoryLock(w)
    \/ Progress(w)
    \/ Crash(w)

Next == Tick \/ SetBack \/ \E w \in Workers : WorkerStep(w)

Spec == Init /\ [][Next]_vars

\* A connected transaction keeps executing, and PostgreSQL serves the waiters
\* of a row or advisory lock in turn.
FairSpec ==
    /\ Spec
    /\ \A w \in Workers :
         WF_vars(Progress(w)) /\ SF_vars(LockSeason(w)) /\ SF_vars(AdvisoryLock(w))
==============================================================================
