-------------------------- MODULE PolicySafetyProofs --------------------------
(***************************************************************************)
(* The safety of the territory policy service for every number of workers, *)
(* sites, pets, seasons and candidates, and for every balance.  First its  *)
(* types and the policy's arithmetic; then the argument: the season row has*)
(* one holder; what the holder read under it is therefore still true when  *)
(* it writes; so each write moves the counts of a site and of its pets by  *)
(* the same amount.                                                        *)
(* Seasons share nothing either: sites and days stay apart because the     *)
(* advisory lock has one holder, so what it found free is still free when  *)
(* it inserts, and attempts because no row of theirs is ever rewritten.    *)
(***************************************************************************)
EXTENDS PolicyProperties, FiniteSetTheorems, TLAPS

------------------------------------------------------------------------------
\* The policy's arithmetic stays within its types

LEMMA ProductNat == ASSUME NEW a \in Nat, NEW b \in Nat PROVE a * b \in Nat
  OBVIOUS

LEMMA RulesTyped ==
    /\ Rules \in RulesType
    /\ Rules.protection_ms \in Nat /\ Rules.claim_points \in Nat
    /\ Rules.takeover_points \in Nat /\ Rules.hourly_points \in Nat
    /\ Rules.base_bps \in Nat /\ Rules.extra_site_bps \in Nat /\ Rules.maximum_bps \in Nat
  BY RulesAssumption DEF RulesType

LEMMA MultiplierNat == ASSUME NEW n \in Nat PROVE Multiplier(n) \in Nat
  <1>1. CASE n > 1
    <2>1. n - 1 \in Nat
      BY <1>1
    <2>2. (n - 1) * Rules.extra_site_bps \in Nat
      BY <2>1, ProductNat, RulesTyped
    <2>3. QED
      BY <1>1, <2>2, RulesTyped DEF Multiplier
  <1>2. CASE ~(n > 1)
    BY <1>2, RulesTyped DEF Multiplier
  <1>3. QED
    BY <1>1, <1>2

LEMMA RateNat == ASSUME NEW n \in Nat PROVE Rate(n) \in Nat
  <1>1. n * Rules.hourly_points \in Nat
    BY ProductNat, RulesTyped
  <1>2. QED
    BY <1>1, ProductNat, MultiplierNat DEF Rate

\* Settling keeps a score a score, moves its clock to the settling time and
\* leaves every counter alone.
LEMMA SettleType ==
    ASSUME NEW score \in Score, NEW at \in Nat, at >= score.last_ms
    PROVE  /\ Settle(score, at) \in Score
           /\ Settle(score, at).last_ms = at
           /\ Settle(score, at).current_count = score.current_count
           /\ Settle(score, at).scoring_count = score.scoring_count
           /\ Settle(score, at).peak = score.peak
           /\ Settle(score, at).bonus = score.bonus
  <1> DEFINE elapsed == at - score.last_ms
  <1>1. elapsed \in Nat /\ score.scoring_count \in Nat /\ score.current_count \in Nat
    BY DEF Score
  <1>2. elapsed * Rate(score.scoring_count) \in Nat
    BY <1>1, ProductNat, RateNat
  <1>3. elapsed * score.current_count \in Nat
    BY <1>1, ProductNat
  <1>4. /\ score.holding_units + elapsed * Rate(score.scoring_count) \in Nat
        /\ score.held_site_ms + elapsed * score.current_count \in Nat
    <2>1. score.holding_units \in Nat /\ score.held_site_ms \in Nat
      BY DEF Score
    <2>2. QED
      BY <1>2, <1>3, <2>1
  <1>5. Settle(score, at) =
          [score EXCEPT !.holding_units = score.holding_units
                                            + elapsed * Rate(score.scoring_count),
                        !.held_site_ms = score.held_site_ms + elapsed * score.current_count,
                        !.last_ms = at]
    BY DEF Settle, Score
  <1> HIDE DEF elapsed
  <1>6. QED
    BY <1>4, <1>5 DEF Score

LEMMA CountedType == ASSUME NEW v PROVE Counted(v) \in {0, 1}
  BY DEF Counted

LEMMA ReleaseType ==
    ASSUME NEW score \in Score, NEW v,
           score.current_count >= 1, score.scoring_count >= Counted(v)
    PROVE  /\ Release(score, v) \in Score
           /\ Release(score, v).current_count = score.current_count - 1
           /\ Release(score, v).scoring_count = score.scoring_count - Counted(v)
           /\ Release(score, v).last_ms = score.last_ms
           /\ Release(score, v).peak = score.peak
  <1>1. PICK k \in {0, 1} : Counted(v) = k
    BY CountedType
  <1>2. score.current_count - 1 \in Nat /\ score.scoring_count - k \in Nat
    BY <1>1 DEF Score
  <1>3. Release(score, v) = [score EXCEPT !.current_count = score.current_count - 1,
                                          !.scoring_count = score.scoring_count - k]
    BY <1>1 DEF Release, Score
  <1>4. QED
    BY <1>1, <1>2, <1>3 DEF Score

LEMMA AcquireType ==
    ASSUME NEW score \in Score, NEW v
    PROVE  /\ Acquire(score, v) \in Score
           /\ Acquire(score, v).current_count = score.current_count + 1
           /\ Acquire(score, v).scoring_count = score.scoring_count + Counted(v)
           /\ Acquire(score, v).last_ms = score.last_ms
  <1> DEFINE count == score.current_count + 1
  <1> DEFINE peak == IF count > score.peak THEN count ELSE score.peak
  <1> DEFINE scoring == score.scoring_count + Counted(v)
  <1>1. count \in Nat /\ peak \in Nat
    BY DEF Score
  <1>2. scoring \in Nat
    BY CountedType DEF Score
  <1>3. Acquire(score, v) = [score EXCEPT !.current_count = count,
                                          !.peak = peak,
                                          !.scoring_count = scoring]
    BY DEF Acquire, Score
  <1> HIDE DEF count, peak, scoring
  <1>4. /\ Acquire(score, v) \in Score
        /\ Acquire(score, v).current_count = count
        /\ Acquire(score, v).scoring_count = scoring
        /\ Acquire(score, v).last_ms = score.last_ms
    BY <1>1, <1>2, <1>3 DEF Score
  <1>5. QED
    BY <1>4 DEF count, scoring

LEMMA RewardType ==
    ASSUME NEW score \in Score, NEW points \in Nat, NEW takeover \in BOOLEAN
    PROVE  /\ Reward(score, points, takeover) \in Score
           /\ Reward(score, points, takeover).current_count = score.current_count
           /\ Reward(score, points, takeover).scoring_count = score.scoring_count
           /\ Reward(score, points, takeover).last_ms = score.last_ms
  <1> DEFINE bonus == score.bonus + points
  <1> DEFINE claims == score.claims + 1
  <1> DEFINE takeovers == IF takeover THEN score.takeovers + 1 ELSE score.takeovers
  <1>1. bonus \in Nat /\ claims \in Nat /\ takeovers \in Nat
    BY DEF Score
  <1>2. Reward(score, points, takeover) =
          [score EXCEPT !.bonus = bonus, !.claims = claims, !.takeovers = takeovers]
    BY DEF Reward, Score
  <1> HIDE DEF bonus, claims, takeovers
  <1>3. QED
    BY <1>1, <1>2 DEF Score

LEMMA PlanBonusNat == ASSUME NEW row, NEW c, NEW paid PROVE PlanBonus(row, c, paid) \in Nat
  BY RulesTyped DEF PlanBonus

\* What planning needs of the scores it starts from, and what it makes of them.
LEMMA PlanAccountType ==
    ASSUME NEW row \in SiteRow, NEW c \in Candidate, NEW score \in Score, NEW p \in Pets,
           NEW at \in Nat, NEW paid, at >= score.last_ms,
           row.owner # None /\ row.owner.pet = p =>
             score.current_count >= 1 /\ score.scoring_count >= Counted(row.owner.verified)
    PROVE  PlanAccount(row, c, score, p, at, paid) \in Score
  <1> DEFINE settled == Settle(score, at)
  <1> DEFINE released == IF row.owner # None /\ row.owner.pet = p
                           THEN Release(settled, row.owner.verified) ELSE settled
  <1> DEFINE acquired == IF p = c.pet THEN Acquire(released, Verified(c)) ELSE released
  <1>1. /\ settled \in Score
        /\ settled.current_count = score.current_count
        /\ settled.scoring_count = score.scoring_count
    BY SettleType
  <1> HIDE DEF settled
  <1>2. released \in Score
    BY <1>1, ReleaseType
  <1> HIDE DEF released
  <1>3. acquired \in Score
    BY <1>2, AcquireType
  <1>4. Reward(acquired, PlanBonus(row, c, paid), row.owner # None) \in Score
    BY <1>3, RewardType, PlanBonusNat
  <1>5. PlanAccount(row, c, score, p, at, paid) =
          IF p = c.pet /\ ~SamePet(row, c)
            THEN Reward(acquired, PlanBonus(row, c, paid), row.owner # None) ELSE acquired
    BY DEF PlanAccount, acquired, released, settled
  <1> HIDE DEF acquired
  <1>6. QED
    BY <1>3, <1>4, <1>5

LEMMA PlanOwnerType ==
    ASSUME NEW row \in SiteRow, NEW c \in Candidate, NEW at \in Nat
    PROVE  PlanOwner(row, c, at) \in Owner
  <1>1. Verified(c) \in BOOLEAN
    BY DEF Verified
  <1>2. CASE SamePet(row, c)
    <2>1. row.owner \in Owner
      BY <1>2 DEF SamePet, SiteRow
    <2>2. [row.owner EXCEPT !.verified = Verified(c), !.certified_ms = at] \in Owner
      BY <1>1, <2>1 DEF Owner
    <2>3. QED
      BY <1>2, <2>2 DEF PlanOwner
  <1>3. CASE ~SamePet(row, c)
    <2>1. /\ c.pet \in Pets /\ c.session \in Sessions /\ c.attempt \in Attempts
          /\ (IF Verified(c) THEN at ELSE NoTime) \in Nat \union {NoTime}
      BY DEF Candidate
    <2>2. QED
      BY <1>1, <1>3, <2>1 DEF PlanOwner, Owner
  <1>4. QED
    BY <1>2, <1>3

LEMMA PlanSiteType ==
    ASSUME NEW row \in SiteRow, NEW c \in Candidate, NEW at \in Nat
    PROVE  PlanSite(row, c, at) \in SiteRow
  <1>1. row.version \in Nat /\ row.version + 1 \in Nat
    BY DEF SiteRow
  <1>2. QED
    BY <1>1, PlanOwnerType DEF PlanSite, SiteRow

LEMMA BonusKeyType ==
    ASSUME NEW c \in Candidate, NEW at \in Nat
    PROVE  BonusKey(c, at) \in BonusKeys \union {None}
  <1>1. at \div DayMs \in Nat
    BY UnitsAssumption
  <1>2. c.season \in Seasons /\ c.pet \in Pets /\ c.site \in Sites
    BY DEF Candidate
  <1>3. QED
    BY <1>1, <1>2 DEF BonusKey, BonusKeys

LEMMA AffectedPets ==
    ASSUME NEW row \in SiteRow, NEW c \in Candidate
    PROVE  Affected(row, c) \subseteq Pets
  BY DEF Affected, SiteRow, Owner, Candidate

LEMMA TotalUnitsNat == ASSUME NEW score \in Score PROVE TotalUnits(score) \in Nat
  <1>1. score.bonus \in Nat /\ score.holding_units \in Nat
    BY DEF Score
  <1>2. score.bonus * PointDenominator \in Nat
    BY <1>1, ProductNat, UnitsAssumption
  <1>3. QED
    BY <1>1, <1>2 DEF TotalUnits

\* The standings of a season that can be settled, whatever pets it has.
LEMMA PlanResultsType ==
    ASSUME NEW s \in Seasons, NEW pets \in SUBSET Pets, NEW rows \in [pets -> Score],
           \A p \in pets : Ends[s] >= rows[p].last_ms
    PROVE  PlanResults(s, rows) \in [pets -> Standing]
  <1> DEFINE final == [p \in pets |-> Settle(rows[p], Ends[s])]
  <1> DEFINE ahead(p) == {q \in pets : TotalUnits(final[q]) > TotalUnits(final[p])}
  <1>1. Ends[s] \in Nat
    BY WindowAssumption
  <1>2. \A p \in pets : final[p] \in Score
    BY <1>1, SettleType
  <1>3. \A p \in pets : 1 + Cardinality(ahead(p)) \in Nat
    <2>1. IsFiniteSet(pets)
      BY FiniteAssumption, FS_Subset
    <2>2. TAKE p \in pets
    <2>3. IsFiniteSet(ahead(p))
      BY <2>1, FS_Subset
    <2>4. QED
      BY <2>3, FS_CardinalityType
  <1>4. PlanResults(s, rows) =
          [p \in pets |-> [score |-> final[p], total_units |-> TotalUnits(final[p]),
                           rank |-> 1 + Cardinality(ahead(p))]]
    BY DEF PlanResults
  <1> HIDE DEF final, ahead
  <1>5. \A p \in pets : TotalUnits(final[p]) \in Nat
    BY <1>2, TotalUnitsNat
  <1>6. QED
    BY <1>2, <1>3, <1>4, <1>5 DEF Standing

------------------------------------------------------------------------------
\* Type correctness

TypeInv == TypeOK /\ WorkOK

LEMMA TypeInit == Init => TypeInv
  <1> SUFFICES ASSUME Init PROVE TypeInv
    OBVIOUS
  <1> USE DEF Init
  <1>1. TablesTyped
    BY DEF TablesTyped, EmptySite, NoScores, SiteRow
  <1>2. TransactionsTyped
    BY DEF TransactionsTyped, EmptySite, NoScores, SiteRow
  <1>3. WorkOK
    BY DEF WorkOK, WorkerOK, Holding
  <1>4. QED
    BY <1>1, <1>2, <1>3 DEF TypeInv, TypeOK

\* No season row is ever deleted.
SeasonsStay == \A s \in Seasons : status[s] # "NONE" => status'[s] # "NONE"

\* A worker's own variables, which the steps of the others leave alone.
Idle(w) == UNCHANGED <<pc[w], job[w], snap[w], scores[w], plan[w]>>

LEMMA OtherWorkerOK ==
    ASSUME TypeInv, SeasonsStay, NEW v \in Workers, Idle(v)
    PROVE  WorkerOK(v)'
  <1>1. WorkerOK(v)
    BY DEF TypeInv, WorkOK
  <1>2. pc[v] \in Holding => job[v].season \in Seasons
    BY <1>1 DEF WorkerOK, Holding, Job
  <1>3. QED
    BY <1>1, <1>2 DEF WorkerOK, Idle, SeasonsStay, Holding

LEMMA EndTransactionType ==
    ASSUME TypeInv, SeasonsStay, NEW w \in Workers, EndTransaction(w)
    PROVE  TransactionsTyped' /\ WorkOK' /\ clock' \in Nat /\ setBacks' \in Nat
  <1> USE DEF TypeInv, TypeOK
  <1>1. TransactionsTyped'
    BY DEF TransactionsTyped, EndTransaction, EmptySite, NoScores, SiteRow
  <1>2. ASSUME NEW v \in Workers PROVE WorkerOK(v)'
    <2>1. CASE v = w
      <3>1. pc'[v] = "idle"
        BY <2>1 DEF EndTransaction, TransactionsTyped
      <3>2. QED
        BY <3>1 DEF WorkerOK, Holding
    <2>2. CASE v # w
      <3>1. Idle(v)
        BY <2>2 DEF Idle, EndTransaction, TransactionsTyped
      <3>2. QED
        BY <3>1, OtherWorkerOK
    <2>3. QED
      BY <2>1, <2>2
  <1>3. clock' \in Nat /\ setBacks' \in Nat
    BY DEF EndTransaction
  <1>4. QED
    BY <1>1, <1>2, <1>3 DEF WorkOK

LEMMA RollbackType ==
    ASSUME TypeInv, NEW w \in Workers, Rollback(w)
    PROVE  TypeInv'
  <1>1. SeasonsStay /\ EndTransaction(w)
    BY DEF SeasonsStay, Rollback, tables
  <1>2. TablesTyped' /\ (replies \subseteq Receipt)'
    BY DEF TypeInv, TypeOK, TablesTyped, Rollback, tables
  <1>3. QED
    BY <1>1, <1>2, EndTransactionType DEF TypeInv, TypeOK

\* A step that only moves one worker on leaves the tables alone.
LEMMA WorkerType ==
    ASSUME TypeInv, NEW w \in Workers,
           UNCHANGED <<clock, setBacks, tables, replies>>,
           \A v \in Workers : v # w => Idle(v),
           TransactionsTyped', WorkerOK(w)'
    PROVE  TypeInv'
  <1>1. SeasonsStay
    BY DEF SeasonsStay, tables
  <1>2. WorkOK'
    BY <1>1, OtherWorkerOK DEF WorkOK
  <1>3. TablesTyped' /\ (replies \subseteq Receipt)' /\ clock' \in Nat /\ setBacks' \in Nat
    BY DEF TypeInv, TypeOK, TablesTyped, tables
  <1>4. QED
    BY <1>2, <1>3 DEF TypeInv, TypeOK

\* The two environment steps touch the clock only.
LEMMA ClockType == ASSUME TypeInv, Tick \/ SetBack PROVE TypeInv'
  <1>1. clock' \in Nat /\ setBacks' \in Nat
    BY DEF Tick, SetBack, TypeInv, TypeOK
  <1>2. UNCHANGED <<tables, lock, advisory, work, replies>>
    BY DEF Tick, SetBack
  <1>3. TablesTyped' /\ TransactionsTyped' /\ (replies \subseteq Receipt)'
    BY <1>2 DEF TypeInv, TypeOK, TablesTyped, TransactionsTyped, tables, work
  <1>4. WorkOK'
    BY <1>2, OtherWorkerOK DEF WorkOK, SeasonsStay, Idle, tables, work
  <1>5. QED
    BY <1>1, <1>3, <1>4 DEF TypeInv, TypeOK

LEMMA StartType ==
    ASSUME TypeInv, NEW w \in Workers, NEW s \in Seasons,
           NEW op \in {"apply", "register", "finalize", "project", "create"},
           NEW c \in Candidate \union {None}, NEW owners \in ImportedOwners \union {None},
           NEW at, Start(w, op, s, c, owners, at),
           \/ /\ at = "lock_season" /\ op # "create"
              /\ op \in {"apply", "register"} => c \in Candidate /\ c.season = s
           \/ at = "advisory_lock" /\ op = "create" /\ owners \in Imports[s]
    PROVE  TypeInv'
  <1> USE DEF TypeInv, TypeOK
  <1> DEFINE j == [op |-> op, season |-> s, cand |-> c, owners |-> owners]
  <1>1. j \in Job
    BY DEF Job
  <1>2. /\ pc' = [pc EXCEPT ![w] = at]
        /\ job' = [job EXCEPT ![w] = j]
        /\ UNCHANGED <<clock, setBacks, tables, lock, advisory, snap, scores, plan, replies>>
    BY DEF Start
  <1>3. j.op = op /\ j.season = s /\ j.cand = c /\ j.owners = owners
    OBVIOUS
  <1> HIDE DEF j
  <1>4. TransactionsTyped'
    BY <1>1, <1>2 DEF TransactionsTyped
  <1>5. \A v \in Workers : v # w => Idle(v)
    BY <1>2 DEF Idle, TransactionsTyped
  <1>6. WorkerOK(w)'
    <2>1. pc'[w] = at /\ job'[w] = j
      BY <1>2 DEF TransactionsTyped
    <2>2. QED
      BY <1>1, <1>3, <2>1 DEF WorkerOK, Holding
  <1>7. QED
    BY <1>2, <1>4, <1>5, <1>6, WorkerType

LEMMA CandidateTyped ==
    ASSUME NEW c \in Candidates PROVE c \in Candidate /\ c.season \in Seasons
  BY CandidatesAssumption DEF Candidate

LEMMA CallType ==
    ASSUME TypeInv, NEW w \in Workers, Submit(w) \/ Admit(w) \/ Ask(w) \/ AskSeason(w)
    PROVE  TypeInv'
  <1>1. CASE Submit(w)
    <2>1. PICK c \in Candidates : Start(w, "apply", c.season, c, None, "lock_season")
      BY <1>1 DEF Submit
    <2>2. QED
      BY <2>1, CandidateTyped, StartType
  <1>2. CASE Admit(w)
    <2>1. PICK c \in Candidates : Start(w, "register", c.season, c, None, "lock_season")
      BY <1>2 DEF Admit
    <2>2. QED
      BY <2>1, CandidateTyped, StartType
  <1>3. CASE Ask(w)
    <2>1. PICK s \in Seasons, op \in {"finalize", "project"} :
            Start(w, op, s, None, None, "lock_season")
      BY <1>3 DEF Ask
    <2>2. QED
      BY <2>1, StartType
  <1>4. CASE AskSeason(w)
    <2>1. PICK s \in Seasons : \E owners \in Imports[s] :
            Start(w, "create", s, None, owners, "advisory_lock")
      BY <1>4 DEF AskSeason
    <2>2. PICK owners \in Imports[s] : Start(w, "create", s, None, owners, "advisory_lock")
      BY <2>1
    <2>3. owners \in ImportedOwners
      BY ImportsAssumption
    <2>4. QED
      BY <2>2, <2>3, StartType
  <1>5. QED
    BY <1>1, <1>2, <1>3, <1>4

LEMMA WaitType ==
    ASSUME TypeInv, NEW w \in Workers, LockSeason(w) \/ AdvisoryLock(w) \/ CheckSeason(w)
    PROVE  TypeInv'
  <1> USE DEF TypeInv, TypeOK
  <1>1. WorkerOK(w) /\ pc[w] # "idle" => job[w].season \in Seasons
    BY DEF WorkerOK, Job
  <1>2. WorkerOK(w)
    BY DEF WorkOK
  <1>3. CASE LockSeason(w)
    <2> DEFINE s == job[w].season
    <2> DEFINE next == CASE job[w].op = "apply" -> "load"
                         [] job[w].op = "register" -> "register"
                         [] job[w].op = "finalize" -> "settle"
                         [] job[w].op = "project" -> "read"
    <2>1. /\ pc[w] = "lock_season" /\ status[s] # "NONE"
          /\ lock' = [lock EXCEPT ![s] = w]
          /\ pc' = [pc EXCEPT ![w] = next]
          /\ UNCHANGED <<clock, setBacks, tables, advisory, job, snap, scores, plan, replies>>
      BY <1>3 DEF LockSeason, Goto
    <2>2. /\ job[w].op \in {"apply", "register", "finalize", "project"}
          /\ next \in {"load", "register", "settle", "read"}
          /\ next \in {"load", "register"} => job[w].op \in {"apply", "register"}
      BY <1>2, <2>1 DEF WorkerOK, Job
    <2> HIDE DEF next
    <2>3. TransactionsTyped'
      BY <1>1, <1>2, <2>1, <2>2 DEF TransactionsTyped
    <2>4. \A v \in Workers : v # w => Idle(v)
      BY <2>1 DEF Idle, TransactionsTyped
    <2>5. pc'[w] = next /\ job'[w] = job[w] /\ status' = status
      BY <2>1 DEF TransactionsTyped, tables
    <2>6. WorkerOK(w)'
      BY <1>2, <2>1, <2>2, <2>5 DEF WorkerOK, Holding
    <2>7. QED
      BY <2>1, <2>3, <2>4, <2>6, WorkerType
  <1>4. CASE AdvisoryLock(w) \/ CheckSeason(w)
    <2>1. PICK next \in {"check_season", "insert_season"} :
            /\ pc' = [pc EXCEPT ![w] = next]
            /\ advisory' \in {advisory, w}
            /\ pc[w] \in {"advisory_lock", "check_season"}
            /\ UNCHANGED <<clock, setBacks, tables, lock, job, snap, scores, plan, replies>>
      BY <1>4 DEF AdvisoryLock, CheckSeason, Goto
    <2>2. TransactionsTyped'
      BY <2>1 DEF TransactionsTyped
    <2>3. \A v \in Workers : v # w => Idle(v)
      BY <2>1 DEF Idle, TransactionsTyped
    <2>4. pc'[w] = next /\ job'[w] = job[w]
      BY <2>1 DEF TransactionsTyped
    <2>5. WorkerOK(w)'
      BY <1>2, <2>1, <2>4 DEF WorkerOK, Holding
    <2>6. QED
      BY <2>1, <2>2, <2>3, <2>5, WorkerType
  <1>5. QED
    BY <1>3, <1>4

LEMMA LoadType == ASSUME TypeInv, NEW w \in Workers, Load(w) PROVE TypeInv'
  <1> USE DEF TypeInv, TypeOK
  <1> DEFINE c == job[w].cand
  <1> DEFINE row == site[c.season][c.site]
  <1> DEFINE loaded == LoadedScores(c.season, Affected(row, c))
  <1>1. /\ WorkerOK(w) /\ pc[w] = "load"
        /\ c \in Candidate /\ c.season \in Seasons /\ c.site \in Sites
    BY DEF WorkOK, WorkerOK, Load, Candidate
  <1>2. row \in SiteRow /\ Affected(row, c) \subseteq Pets
    BY <1>1, AffectedPets DEF TablesTyped
  <1>3. NewScore(clock) \in Score
    BY DEF NewScore, Score
  <1>4. /\ loaded \in [Pets -> Score \union {None}]
        /\ \A p \in Affected(row, c) : loaded[p] \in Score
    <2>1. \A p \in Pets : account[c.season][p] \in Score \union {None}
      BY <1>1 DEF TablesTyped
    <2> HIDE DEF c, row
    <2>2. QED
      BY <1>2, <1>3, <2>1 DEF LoadedScores
  <1>5. /\ snap' = [snap EXCEPT ![w] = row]
        /\ scores' = [scores EXCEPT ![w] = loaded]
        /\ pc' = [pc EXCEPT ![w] = "decide"]
        /\ UNCHANGED <<clock, setBacks, tables, lock, advisory, job, plan, replies>>
    BY DEF Load, Goto
  <1> HIDE DEF row, loaded
  <1>6. TransactionsTyped'
    BY <1>2, <1>4, <1>5 DEF TransactionsTyped
  <1>7. \A v \in Workers : v # w => Idle(v)
    BY <1>5 DEF Idle, TransactionsTyped
  <1>8. /\ pc'[w] = "decide" /\ job'[w] = job[w] /\ snap'[w] = row /\ scores'[w] = loaded
        /\ status' = status
    BY <1>5 DEF TransactionsTyped, tables
  <1>9. WorkerOK(w)'
    BY <1>1, <1>4, <1>8 DEF WorkerOK, Holding
  <1>10. QED
    BY <1>5, <1>6, <1>7, <1>9, WorkerType

LEMMA DecideType == ASSUME TypeInv, NEW w \in Workers, Decide(w) PROVE TypeInv'
  <1> USE DEF TypeInv, TypeOK
  <1> DEFINE c == job[w].cand
  <1> DEFINE row == snap[w]
  <1> DEFINE paid == BonusPaid(c, clock)
  <1> DEFINE accounts == [p \in Pets |->
               IF p \in Affected(row, c) /\ ~Unchanged(row, c)
                 THEN PlanAccount(row, c, scores[w][p], p, clock, paid) ELSE None]
  <1> DEFINE decided == [at_ms |-> clock, after |-> PlanSite(row, c, clock),
                         accounts |-> accounts, bonus |-> PlanBonus(row, c, paid),
                         key |-> PlanKey(row, c, clock, paid), kind |-> PlanKind(row, c)]
  <1>1. /\ WorkerOK(w) /\ pc[w] = "decide" /\ c \in Candidate
        /\ row \in SiteRow /\ clock \in Nat
    BY DEF WorkOK, WorkerOK, Decide, TransactionsTyped
  <1>2. /\ Affected(row, c) \subseteq Pets
        /\ \A p \in Affected(row, c) : scores[w][p] \in Score
    BY <1>1, AffectedPets DEF WorkerOK
  <1>3. accounts \in [Pets -> Score \union {None}]
    <2> SUFFICES ASSUME NEW p \in Affected(row, c), ~Unchanged(row, c)
                 PROVE  PlanAccount(row, c, scores[w][p], p, clock, paid) \in Score
      OBVIOUS
    <2>1. ScoresValid(row, c, scores[w], clock)
      BY DEF Decide, Admissible
    <2>2. clock >= scores[w][p].last_ms
      BY <2>1 DEF ScoresValid, Settleable
    <2>3. row.owner # None /\ row.owner.pet = p =>
            /\ scores[w][p].current_count >= 1
            /\ scores[w][p].scoring_count >= Counted(row.owner.verified)
      BY <2>1 DEF ScoresValid
    <2>4. QED
      BY <1>1, <1>2, <2>2, <2>3, PlanAccountType
  <1>4. /\ PlanSite(row, c, clock) \in SiteRow
        /\ PlanBonus(row, c, paid) \in Nat
        /\ PlanKey(row, c, clock, paid) \in BonusKeys \union {None}
        /\ PlanKind(row, c) \in {"OWNERSHIP_CHANGED", "CERTIFIED", "UNCHANGED"}
    BY <1>1, PlanSiteType, PlanBonusNat, BonusKeyType DEF PlanKey, PlanKind
  <1>5. decided \in OwnershipPlan
    BY <1>1, <1>3, <1>4 DEF OwnershipPlan
  <1>6. /\ plan' = [plan EXCEPT ![w] = decided]
        /\ pc' = [pc EXCEPT ![w] = "save"]
        /\ UNCHANGED <<clock, setBacks, tables, lock, advisory, job, snap, scores, replies>>
    BY DEF Decide, Goto
  <1> HIDE DEF decided
  <1>7. TransactionsTyped'
    BY <1>6 DEF TransactionsTyped
  <1>8. \A v \in Workers : v # w => Idle(v)
    BY <1>6 DEF Idle, TransactionsTyped
  <1>9. /\ pc'[w] = "save" /\ plan'[w] = decided /\ status' = status
        /\ UNCHANGED <<job, snap, scores>>
    BY <1>6 DEF TransactionsTyped, tables
  <1>10. WorkerOK(w)'
    BY <1>1, <1>5, <1>9 DEF WorkerOK, Holding
  <1>11. QED
    BY <1>6, <1>7, <1>8, <1>10, WorkerType

LEMMA PlanFinalizationType ==
    ASSUME TypeInv, NEW w \in Workers, PlanFinalization(w) PROVE TypeInv'
  <1> USE DEF TypeInv, TypeOK
  <1> DEFINE s == job[w].season
  <1> DEFINE standings == PlanResults(s, Scores(s))
  <1>1. WorkerOK(w) /\ pc[w] = "settle" /\ s \in Seasons
    BY DEF WorkOK, WorkerOK, PlanFinalization, Job
  <1>2. AccountPets(s) \in SUBSET Pets /\ Scores(s) \in [AccountPets(s) -> Score]
    BY <1>1 DEF AccountPets, Scores, TablesTyped
  <1>3. \A p \in AccountPets(s) : Ends[s] >= Scores(s)[p].last_ms
    BY <1>2 DEF PlanFinalization, CanSettle, Finalizable, Settleable
  <1>4. standings \in [AccountPets(s) -> Standing]
    BY <1>1, <1>2, <1>3, PlanResultsType
  <1>5. /\ plan' = [plan EXCEPT ![w] = standings]
        /\ pc' = [pc EXCEPT ![w] = "close"]
        /\ UNCHANGED <<clock, setBacks, tables, lock, advisory, job, snap, scores, replies>>
    BY DEF PlanFinalization, Goto
  <1> HIDE DEF standings
  <1>6. TransactionsTyped'
    BY <1>5 DEF TransactionsTyped
  <1>7. \A v \in Workers : v # w => Idle(v)
    BY <1>5 DEF Idle, TransactionsTyped
  <1>8. pc'[w] = "close" /\ plan'[w] = standings /\ status' = status /\ job' = job
    BY <1>5 DEF TransactionsTyped, tables
  <1>9. WorkerOK(w)'
    BY <1>1, <1>2, <1>4, <1>8 DEF WorkerOK, Holding
  <1>10. QED
    BY <1>5, <1>6, <1>7, <1>9, WorkerType

\* What a job's candidate names, in the steps that use it.
LEMMA JobTyped ==
    ASSUME TypeInv, NEW w \in Workers, pc[w] # "idle"
    PROVE  /\ WorkerOK(w) /\ job[w].season \in Seasons
           /\ job[w].owners \in ImportedOwners \union {None}
           /\ pc[w] \in {"load", "decide", "save", "register"} =>
                LET c == job[w].cand
                IN  /\ c \in Candidate
                    /\ c.season \in Seasons /\ c.event \in Events /\ c.site \in Sites
                    /\ c.pet \in Pets /\ c.session \in Sessions /\ c.attempt \in Attempts
  BY DEF TypeInv, WorkOK, WorkerOK, Job, Candidate

LEMMA ReplayType == ASSUME TypeInv, NEW w \in Workers, Replay(w) PROVE TypeInv'
  <1> DEFINE c == job[w].cand
  <1>1. pc[w] = "load" /\ receipt[c.season][c.event] # None
    BY DEF Replay
  <1>2. receipt[c.season][c.event] \in Receipt
    BY <1>1, JobTyped DEF TypeInv, TypeOK, TablesTyped
  <1>3. UNCHANGED tables /\ replies' = replies \union {receipt[c.season][c.event]}
    BY DEF Replay
  <1>4. TablesTyped' /\ (replies \subseteq Receipt)' /\ SeasonsStay
    BY <1>2, <1>3 DEF TypeInv, TypeOK, TablesTyped, tables, SeasonsStay
  <1>5. EndTransaction(w)
    BY DEF Replay
  <1>6. QED
    BY <1>4, <1>5, EndTransactionType DEF TypeInv, TypeOK

LEMMA RegisterType == ASSUME TypeInv, NEW w \in Workers, Register(w) PROVE TypeInv'
  <1> DEFINE c == job[w].cand
  <1>1. pc[w] = "register"
    BY DEF Register
  <1>2. AttemptOf(c) \in AttemptRow /\ c.attempt \in Attempts
    BY <1>1, JobTyped DEF AttemptOf, AttemptRow
  <1>3. /\ attemptTable' = [attemptTable EXCEPT ![c.attempt] = AttemptOf(c)]
        /\ UNCHANGED <<status, site, account, receipt, eventTable, bonusTable, result,
                       opening, replies>>
    BY DEF Register
  <1>4. TablesTyped' /\ (replies \subseteq Receipt)' /\ SeasonsStay
    BY <1>2, <1>3 DEF TypeInv, TypeOK, TablesTyped, SeasonsStay
  <1>5. EndTransaction(w)
    BY DEF Register
  <1>6. QED
    BY <1>4, <1>5, EndTransactionType DEF TypeInv, TypeOK

\* The rows a save writes.
LEMMA SavedRows ==
    ASSUME TypeInv, NEW w \in Workers, pc[w] = "save"
    PROVE  LET c == job[w].cand
               p == plan[w]
           IN  /\ c \in Candidate /\ AttemptOf(c) \in AttemptRow
               /\ c.season \in Seasons /\ c.event \in Events /\ c.site \in Sites
               /\ c.pet \in Pets /\ c.attempt \in Attempts
               /\ snap[w] \in SiteRow /\ p.after \in SiteRow
               /\ p.key \in BonusKeys \union {None}
               /\ SaveAccounts(c.season, p.accounts) \in [Pets -> Score \union {None}]
               /\ ReceiptOf(c, p, snap[w]) \in Receipt
               /\ p.kind # "UNCHANGED" =>
                    [cand |-> c, at_ms |-> p.at_ms, before |-> snap[w],
                     after |-> p.after, bonus |-> p.bonus, kind |-> p.kind] \in Entry
  <1> USE DEF TypeInv, TypeOK
  <1> DEFINE c == job[w].cand
  <1> DEFINE p == plan[w]
  <1>1. /\ c \in Candidate
        /\ c.season \in Seasons /\ c.event \in Events /\ c.site \in Sites
        /\ c.pet \in Pets /\ c.attempt \in Attempts
        /\ AttemptOf(c) \in AttemptRow
    BY JobTyped DEF AttemptOf, AttemptRow
  <1>2. p \in OwnershipPlan /\ snap[w] \in SiteRow
    BY JobTyped DEF WorkerOK, TransactionsTyped
  <1>3. /\ p.after \in SiteRow /\ p.key \in BonusKeys \union {None}
        /\ SaveAccounts(c.season, p.accounts) \in [Pets -> Score \union {None}]
    BY <1>1, <1>2 DEF OwnershipPlan, SaveAccounts, TablesTyped
  <1>4. p.after.version \in Nat
    BY <1>3 DEF SiteRow
  <1>5. ReceiptOf(c, p, snap[w]) \in Receipt
    BY <1>1, <1>2, <1>4 DEF ReceiptOf, Receipt, OwnershipPlan
  <1>6. p.kind # "UNCHANGED" =>
          [cand |-> c, at_ms |-> p.at_ms, before |-> snap[w],
           after |-> p.after, bonus |-> p.bonus, kind |-> p.kind] \in Entry
    BY <1>1, <1>2 DEF Entry, OwnershipPlan
  <1>7. QED
    BY <1>1, <1>2, <1>3, <1>5, <1>6

LEMMA SaveType == ASSUME TypeInv, NEW w \in Workers, Save(w) PROVE TypeInv'
  <1> USE DEF TypeInv, TypeOK
  <1> DEFINE c == job[w].cand
  <1> DEFINE s == c.season
  <1> DEFINE p == plan[w]
  <1> DEFINE written == ReceiptOf(c, p, snap[w])
  <1> DEFINE entry == [cand |-> c, at_ms |-> p.at_ms, before |-> snap[w],
                       after |-> p.after, bonus |-> p.bonus, kind |-> p.kind]
  <1> DEFINE saved == SaveAccounts(s, p.accounts)
  <1>1. /\ pc[w] = "save" /\ c \in Candidate
        /\ s \in Seasons /\ c.event \in Events /\ c.site \in Sites /\ c.attempt \in Attempts
        /\ AttemptOf(c) \in AttemptRow
    BY SavedRows DEF Save
  <1>3. /\ p.after \in SiteRow /\ p.key \in BonusKeys \union {None}
        /\ saved \in [Pets -> Score \union {None}]
    BY <1>1, SavedRows
  <1>5. written \in Receipt
    BY <1>1, SavedRows
  <1>6. p.kind # "UNCHANGED" => entry \in Entry
    BY <1>1, SavedRows
  <1>7. /\ IF p.kind = "UNCHANGED"
             THEN UNCHANGED <<site, account, eventTable, bonusTable>>
             ELSE /\ site' = [site EXCEPT ![s][c.site] = p.after]
                  /\ account' = [account EXCEPT ![s] = saved]
                  /\ eventTable' = [eventTable EXCEPT ![s][c.event] = entry]
                  /\ bonusTable' = bonusTable \union ({p.key} \ {None})
        /\ attemptTable' = [attemptTable EXCEPT ![c.attempt] = AttemptOf(c)]
        /\ receipt' = [receipt EXCEPT ![s][c.event] = written]
        /\ replies' = replies \union {written}
        /\ EndTransaction(w)
        /\ UNCHANGED <<status, result, opening>>
    BY DEF Save
  <1> HIDE DEF written, entry, saved, p, s
  <1>8. /\ site' \in [Seasons -> [Sites -> SiteRow]]
        /\ account' \in [Seasons -> [Pets -> Score \union {None}]]
    <2>1. CASE p.kind = "UNCHANGED"
      BY <1>7, <2>1 DEF TablesTyped
    <2>2. CASE p.kind # "UNCHANGED"
      <3>1. /\ site' = [site EXCEPT ![s][c.site] = p.after]
            /\ account' = [account EXCEPT ![s] = saved]
        BY <1>7, <2>2
      <3>2. p.after \in SiteRow /\ saved \in [Pets -> Score \union {None}]
        BY <1>3
      <3>3. site' \in [Seasons -> [Sites -> SiteRow]]
        BY <1>1, <3>1, <3>2 DEF TablesTyped
      <3>4. account' \in [Seasons -> [Pets -> Score \union {None}]]
        BY <1>1, <3>1, <3>2 DEF TablesTyped
      <3>5. QED
        BY <3>3, <3>4
    <2>3. QED
      BY <2>1, <2>2
  <1>9. /\ eventTable' \in [Seasons -> [Events -> Entry \union {None}]]
        /\ bonusTable' \subseteq BonusKeys
    <2>1. CASE p.kind = "UNCHANGED"
      BY <1>7, <2>1 DEF TablesTyped
    <2>2. CASE p.kind # "UNCHANGED"
      <3>1. entry \in Entry /\ {p.key} \ {None} \subseteq BonusKeys
        BY <1>3, <1>6, <2>2
      <3>2. /\ eventTable' = [eventTable EXCEPT ![s][c.event] = entry]
            /\ bonusTable' = bonusTable \union ({p.key} \ {None})
        BY <1>7, <2>2
      <3>3. QED
        BY <1>1, <3>1, <3>2 DEF TablesTyped
    <2>3. QED
      BY <2>1, <2>2
  <1>10. /\ attemptTable' \in [Attempts -> AttemptRow \union {None}]
         /\ receipt' \in [Seasons -> [Events -> Receipt \union {None}]]
         /\ (replies \subseteq Receipt)'
    BY <1>1, <1>5, <1>7 DEF TablesTyped
  <1>11. TablesTyped' /\ SeasonsStay
    BY <1>7, <1>8, <1>9, <1>10 DEF TablesTyped, SeasonsStay
  <1>12. QED
    BY <1>7, <1>10, <1>11, EndTransactionType

LEMMA FinalizeType == ASSUME TypeInv, NEW w \in Workers, Finalize(w) PROVE TypeInv'
  <1> USE DEF TypeInv, TypeOK
  <1> DEFINE s == job[w].season
  <1> DEFINE standings == plan[w]
  <1> DEFINE rows == [p \in Pets |-> IF p \in DOMAIN standings THEN standings[p] ELSE None]
  <1> DEFINE left == [p \in Pets |->
               IF p \in DOMAIN standings THEN Retired(standings[p].score) ELSE account[s][p]]
  <1> DEFINE freed == [x \in Sites |->
               IF site[s][x].owner = None THEN site[s][x]
               ELSE [version |-> site[s][x].version + 1, owner |-> None]]
  <1>1. pc[w] = "close" /\ s \in Seasons /\ WorkerOK(w)
    BY JobTyped DEF Finalize
  <1>2. \A p \in DOMAIN standings : standings[p] \in Standing /\ standings[p].score \in Score
    BY <1>1 DEF WorkerOK, Standing
  <1>3. ASSUME NEW score \in Score PROVE Retired(score) \in Score
    BY DEF Retired, Score
  <1>4. rows \in [Pets -> Standing \union {None}]
    BY <1>2
  <1>5. left \in [Pets -> Score \union {None}]
    BY <1>1, <1>2, <1>3 DEF TablesTyped
  <1>6. freed \in [Sites -> SiteRow]
    <2>1. \A x \in Sites : site[s][x] \in SiteRow /\ site[s][x].version + 1 \in Nat
      BY <1>1 DEF TablesTyped, SiteRow
    <2>2. QED
      BY <2>1 DEF SiteRow
  <1>7. /\ result' = [result EXCEPT ![s] = rows]
        /\ account' = [account EXCEPT ![s] = left]
        /\ site' = [site EXCEPT ![s] = freed]
        /\ status' = [status EXCEPT ![s] = "FINALIZED"]
        /\ EndTransaction(w)
        /\ UNCHANGED <<receipt, eventTable, bonusTable, attemptTable, opening, replies>>
    BY DEF Finalize
  <1> HIDE DEF rows, left, freed
  <1>8. TablesTyped' /\ SeasonsStay
    BY <1>1, <1>4, <1>5, <1>6, <1>7 DEF TablesTyped, SeasonsStay
  <1>9. QED
    BY <1>7, <1>8, EndTransactionType

LEMMA ImportRowType ==
    ASSUME NEW s \in Seasons, NEW owner \in Owner \union {None}
    PROVE  ImportRow(s, owner) \in SiteRow
  <1>1. Starts[s] \in Nat
    BY WindowAssumption
  <1>2. CASE owner = None
    BY <1>2 DEF ImportRow, EmptySite, SiteRow
  <1>3. CASE owner \in Owner
    <2> DEFINE certified == IF owner.verified /\ owner.certified_ms = NoTime
                              THEN owner.occupied_ms ELSE owner.certified_ms
    <2> DEFINE started == [owner EXCEPT !.occupied_ms = Starts[s], !.certified_ms = certified]
    <2>1. certified \in Nat \union {NoTime}
      BY <1>3 DEF Owner
    <2>2. ImportRow(s, owner) = [version |-> 1, owner |-> started]
      BY <1>3, NoneAssumption DEF ImportRow, Owner
    <2> HIDE DEF certified
    <2>3. started \in Owner
      BY <1>1, <1>3, <2>1 DEF Owner
    <2> HIDE DEF started
    <2>4. QED
      BY <2>2, <2>3 DEF SiteRow
  <1>4. QED
    BY <1>2, <1>3

LEMMA ImportAccountType ==
    ASSUME NEW s \in Seasons, NEW owners \in ImportedOwners, NEW p \in Pets
    PROVE  ImportAccount(s, owners, p) \in Score \union {None}
  <1> DEFINE held == {x \in Sites : owners[x] # None /\ owners[x].pet = p}
  <1> DEFINE scoring == {x \in held : Counted(owners[x].verified) = 1}
  <1> DEFINE n == Cardinality(held)
  <1> DEFINE k == Cardinality(scoring)
  <1>1. n \in Nat /\ k \in Nat
    <2>1. IsFiniteSet(held) /\ IsFiniteSet(scoring)
      BY FiniteAssumption, FS_Subset
    <2>2. QED
      BY <2>1, FS_CardinalityType
  <1>2. Starts[s] \in Nat
    BY WindowAssumption
  <1>3. NewScore(Starts[s]) \in Score
    BY <1>2 DEF NewScore, Score
  <1>4. ImportAccount(s, owners, p) =
          IF held = {} THEN None
          ELSE [NewScore(Starts[s]) EXCEPT !.current_count = n, !.scoring_count = k, !.peak = n]
    BY DEF ImportAccount
  <1> HIDE DEF n, k, held
  <1>5. [NewScore(Starts[s]) EXCEPT !.current_count = n, !.scoring_count = k, !.peak = n]
          \in Score
    BY <1>1, <1>3 DEF Score
  <1>6. QED
    BY <1>4, <1>5

LEMMA InsertSeasonType == ASSUME TypeInv, NEW w \in Workers, InsertSeason(w) PROVE TypeInv'
  <1> USE DEF TypeInv, TypeOK
  <1> DEFINE s == job[w].season
  <1> DEFINE owners == job[w].owners
  <1> DEFINE imported == {x \in Sites : owners[x] # None}
  <1> DEFINE rows == [x \in Sites |-> ImportRow(s, owners[x])]
  <1> DEFINE first == [p \in Pets |-> ImportAccount(s, owners, p)]
  <1> DEFINE held == [x \in Sites |-> ImportRow(s, owners[x]).owner]
  <1> DEFINE attempts == [a \in Attempts |->
              IF \E x \in imported : owners[x].attempt = a
                THEN LET x == CHOOSE x \in imported : owners[x].attempt = a
                     IN  ImportAttempt(s, x, owners[x])
                ELSE attemptTable[a]]
  <1>1. pc[w] = "insert_season" /\ s \in Seasons /\ WorkerOK(w)
    BY JobTyped DEF InsertSeason
  <1>2. owners \in ImportedOwners
    BY <1>1, ImportsAssumption DEF WorkerOK
  <1>3. \A x \in Sites : owners[x] \in Owner \union {None}
    BY <1>2 DEF ImportedOwners
  <1>4. rows \in [Sites -> SiteRow]
    BY <1>1, <1>3, ImportRowType
  <1>5. held \in [Sites -> Owner \union {None}]
    BY <1>1, <1>3, ImportRowType DEF SiteRow
  <1>6. first \in [Pets -> Score \union {None}]
    BY <1>1, <1>2, ImportAccountType
  <1>7. attempts \in [Attempts -> AttemptRow \union {None}]
    <2>1. \A x \in imported : ImportAttempt(s, x, owners[x]) \in AttemptRow
      BY <1>1, <1>3 DEF ImportAttempt, AttemptRow, Owner
    <2>2. \A a \in Attempts : attemptTable[a] \in AttemptRow \union {None}
      BY DEF TablesTyped
    <2>3. QED
      BY <2>1, <2>2
  <1>8. /\ status' = [status EXCEPT ![s] = "ACTIVE"]
        /\ site' = [site EXCEPT ![s] = rows]
        /\ account' = [account EXCEPT ![s] = first]
        /\ attemptTable' = attempts
        /\ opening' = [opening EXCEPT ![s] = held]
        /\ EndTransaction(w)
        /\ UNCHANGED <<receipt, eventTable, bonusTable, result, replies>>
    BY DEF InsertSeason
  <1> HIDE DEF rows, first, held, attempts
  <1>9. TablesTyped' /\ SeasonsStay
    BY <1>1, <1>4, <1>5, <1>6, <1>7, <1>8 DEF TablesTyped, SeasonsStay
  <1>10. QED
    BY <1>8, <1>9, EndTransactionType

LEMMA TypeNext == ASSUME TypeInv, [Next]_vars PROVE TypeInv'
  <1>1. CASE Tick \/ SetBack
    BY <1>1, ClockType
  <1>2. ASSUME NEW w \in Workers, WorkerStep(w) PROVE TypeInv'
    <2>1. CASE Submit(w) \/ Admit(w) \/ Ask(w) \/ AskSeason(w)
      BY <2>1, CallType
    <2>2. CASE LockSeason(w) \/ AdvisoryLock(w) \/ CheckSeason(w)
      BY <2>2, WaitType
    <2>3. CASE Load(w) \/ Decide(w) \/ PlanFinalization(w)
      BY <2>3, LoadType, DecideType, PlanFinalizationType
    <2>4. CASE Replay(w) \/ Register(w) \/ Save(w) \/ Finalize(w) \/ InsertSeason(w)
      BY <2>4, ReplayType, RegisterType, SaveType, FinalizeType, InsertSeasonType
    <2>5. CASE \/ UnknownSeason(w) \/ LoadFails(w) \/ Refuse(w) \/ SaveFails(w)
               \/ RegisterFails(w) \/ FinalizeReturns(w) \/ Project(w)
               \/ SeasonTaken(w) \/ InsertFails(w) \/ Crash(w)
      <3>1. Rollback(w)
        BY <2>5 DEF UnknownSeason, LoadFails, Refuse, SaveFails, RegisterFails,
                    FinalizeReturns, Project, SeasonTaken, InsertFails, Crash
      <3>2. QED
        BY <3>1, RollbackType
    <2>6. QED
      BY <1>2, <2>1, <2>2, <2>3, <2>4, <2>5 DEF WorkerStep, Progress
  <1>3. CASE UNCHANGED vars
    <2>1. UNCHANGED <<clock, setBacks, tables, replies>> /\ \A v \in Workers : Idle(v)
      BY <1>3 DEF vars, work, Idle
    <2>2. TransactionsTyped' /\ TablesTyped' /\ (replies \subseteq Receipt)' /\ SeasonsStay
      BY <1>3 DEF vars, work, tables, TypeInv, TypeOK, TransactionsTyped, TablesTyped,
                  SeasonsStay
    <2>3. QED
      BY <2>1, <2>2, OtherWorkerOK DEF TypeInv, TypeOK, WorkOK
  <1>4. QED
    BY <1>1, <1>2, <1>3 DEF Next

\* Whatever the balance, the candidates and the interleaving, every counter,
\* score and version stays a natural number: the policy never takes from a pet
\* what it does not hold, never settles backwards, and no CHECK constraint of
\* the schema is what stops a transaction (plan_ownership, settle).
THEOREM TypeCorrect == Spec => []TypeOK
  <1>1. Init => TypeInv
    BY TypeInit
  <1>2. TypeInv /\ [Next]_vars => TypeInv'
    BY TypeNext
  <1>3. TypeInv => TypeOK
    BY DEF TypeInv
  <1>4. QED
    BY <1>1, <1>2, <1>3, PTL DEF Spec

------------------------------------------------------------------------------
\* The season lock

\* The steps that leave every lock, and every holder, as it was.
LEMMA KeepLocks ==
    ASSUME TypeInv, LockHeld, NEW w \in Workers,
           UNCHANGED lock, UNCHANGED job, pc[w] \in Holding, pc'[w] \in Holding,
           \A v \in Workers : v # w => pc'[v] = pc[v]
    PROVE  LockHeld'
  BY DEF LockHeld

LEMMA EndTransactionLocks ==
    ASSUME TypeInv, LockHeld, NEW w \in Workers, EndTransaction(w)
    PROVE  LockHeld'
  <1> SUFFICES ASSUME NEW s \in Seasons, NEW v \in Workers
               PROVE  (lock[s] = v <=> pc[v] \in Holding /\ job[v].season = s)'
    BY DEF LockHeld
  <1>1. /\ lock'[s] = IF lock[s] = w THEN None ELSE lock[s]
        /\ pc'[w] = "idle"
        /\ v # w => pc'[v] = pc[v] /\ job'[v] = job[v]
    BY DEF EndTransaction, TypeInv, TypeOK, TransactionsTyped
  <1>2. None \notin Workers
    BY NullAssumption
  <1>3. CASE v = w
    BY <1>1, <1>2, <1>3 DEF Holding
  <1>4. CASE v # w
    BY <1>1, <1>2, <1>4 DEF LockHeld
  <1>5. QED
    BY <1>3, <1>4

\* A worker outside the lock that stays outside it.
LEMMA OutsideLocks ==
    ASSUME TypeInv, LockHeld, NEW w \in Workers,
           UNCHANGED lock, pc[w] \notin Holding, pc'[w] \notin Holding,
           \A v \in Workers : v # w => pc'[v] = pc[v] /\ job'[v] = job[v]
    PROVE  LockHeld'
  BY DEF LockHeld

LEMMA LockSeasonLocks ==
    ASSUME TypeInv, LockHeld, NEW w \in Workers, LockSeason(w)
    PROVE  LockHeld'
  <1> DEFINE t == job[w].season
  <1>1. /\ pc[w] = "lock_season" /\ lock[t] = None /\ t \in Seasons
        /\ lock' = [lock EXCEPT ![t] = w] /\ UNCHANGED job
    BY JobTyped DEF LockSeason, Unlocked
  <1>2. job[w].op \in {"apply", "register", "finalize", "project"}
    BY <1>1, JobTyped DEF WorkerOK, Job
  <1>3. pc'[w] \in Holding /\ \A v \in Workers : v # w => pc'[v] = pc[v]
    BY <1>2 DEF LockSeason, Goto, Holding, TypeInv, TypeOK, TransactionsTyped
  <1>4. None \notin Workers
    BY NullAssumption
  <1> HIDE DEF t
  <1> SUFFICES ASSUME NEW s \in Seasons, NEW v \in Workers
               PROVE  (lock[s] = v <=> pc[v] \in Holding /\ job[v].season = s)'
    BY DEF LockHeld
  <1>5. lock'[s] = IF s = t THEN w ELSE lock[s]
    BY <1>1 DEF TypeInv, TypeOK, TransactionsTyped
  <1>6. CASE v = w
    <2>1. job'[w].season = t /\ lock[s] # w
      BY <1>1 DEF LockHeld, Holding, t
    <2>2. QED
      BY <1>3, <1>5, <1>6, <2>1
  <1>7. CASE v # w
    BY <1>1, <1>3, <1>4, <1>5, <1>7 DEF LockHeld
  <1>8. QED
    BY <1>6, <1>7

LEMMA LockNext == ASSUME TypeInv, LockHeld, [Next]_vars PROVE LockHeld'
  <1>1. CASE Tick \/ SetBack \/ UNCHANGED vars
    BY <1>1 DEF Tick, SetBack, vars, work, LockHeld
  <1>2. ASSUME NEW w \in Workers, WorkerStep(w) PROVE LockHeld'
    <2>1. CASE Submit(w) \/ Admit(w) \/ Ask(w) \/ AskSeason(w)
      <3>1. /\ pc[w] = "idle" /\ pc'[w] \in {"lock_season", "advisory_lock"}
            /\ UNCHANGED lock
            /\ \A v \in Workers : v # w => pc'[v] = pc[v] /\ job'[v] = job[v]
        BY <2>1 DEF Submit, Admit, Ask, AskSeason, Start, TypeInv, TypeOK, TransactionsTyped
      <3>2. QED
        BY <3>1, OutsideLocks DEF Holding
    <2>2. CASE LockSeason(w)
      BY <2>2, LockSeasonLocks
    <2>3. CASE AdvisoryLock(w) \/ CheckSeason(w)
      <3>1. /\ pc[w] \in {"advisory_lock", "check_season"}
            /\ pc'[w] \in {"check_season", "insert_season"}
            /\ UNCHANGED <<lock, job>>
            /\ \A v \in Workers : v # w => pc'[v] = pc[v]
        BY <2>3 DEF AdvisoryLock, CheckSeason, Goto, TypeInv, TypeOK, TransactionsTyped
      <3>2. QED
        BY <3>1, OutsideLocks DEF Holding
    <2>4. CASE Load(w) \/ Decide(w) \/ PlanFinalization(w)
      <3>1. /\ pc[w] \in {"load", "decide", "settle"}
            /\ pc'[w] \in {"decide", "save", "close"}
            /\ UNCHANGED <<lock, job>>
            /\ \A v \in Workers : v # w => pc'[v] = pc[v]
        BY <2>4 DEF Load, Decide, PlanFinalization, Goto, TypeInv, TypeOK, TransactionsTyped
      <3>2. QED
        BY <3>1, KeepLocks DEF Holding
    <2>5. CASE \/ UnknownSeason(w) \/ Replay(w) \/ LoadFails(w) \/ Refuse(w)
               \/ Save(w) \/ SaveFails(w) \/ Register(w) \/ RegisterFails(w)
               \/ FinalizeReturns(w) \/ Finalize(w) \/ Project(w)
               \/ SeasonTaken(w) \/ InsertSeason(w) \/ InsertFails(w) \/ Crash(w)
      <3>1. EndTransaction(w)
        BY <2>5 DEF UnknownSeason, Replay, LoadFails, Refuse, Save, SaveFails, Register,
                    RegisterFails, FinalizeReturns, Finalize, Project, SeasonTaken,
                    InsertSeason, InsertFails, Crash, Rollback
      <3>2. QED
        BY <3>1, EndTransactionLocks
    <2>6. QED
      BY <1>2, <2>1, <2>2, <2>3, <2>4, <2>5 DEF WorkerStep, Progress
  <1>3. QED
    BY <1>1, <1>2 DEF Next

\* A season row is locked by at most one transaction, from its SELECT ... FOR
\* UPDATE to its end (lock_season).
THEOREM OneLockHolder == Spec => []LockHeld
  <1>1. Init => TypeInv /\ LockHeld
    <2>1. Init => LockHeld
      BY NullAssumption DEF Init, LockHeld, Holding
    <2>2. QED
      BY <2>1, TypeInit
  <1>2. TypeInv /\ LockHeld /\ [Next]_vars => (TypeInv /\ LockHeld)'
    BY TypeNext, LockNext
  <1>3. QED
    BY <1>1, <1>2, PTL DEF Spec

------------------------------------------------------------------------------
\* What a step can change

\* The steps that write to the tables.
Writes(w) == Save(w) \/ Register(w) \/ Finalize(w) \/ InsertSeason(w)

LEMMA ReadersLeaveTables ==
    ASSUME NEW w \in Workers, WorkerStep(w), ~Writes(w)
    PROVE  UNCHANGED tables
  <1>1. CASE Submit(w) \/ Admit(w) \/ Ask(w) \/ AskSeason(w)
    BY <1>1 DEF Submit, Admit, Ask, AskSeason, Start
  <1>2. CASE LockSeason(w) \/ AdvisoryLock(w) \/ CheckSeason(w)
    BY <1>2 DEF LockSeason, AdvisoryLock, CheckSeason
  <1>3. CASE Load(w) \/ Decide(w) \/ PlanFinalization(w) \/ Replay(w)
    BY <1>3 DEF Load, Decide, PlanFinalization, Replay
  <1>4. CASE \/ UnknownSeason(w) \/ LoadFails(w) \/ Refuse(w) \/ SaveFails(w)
             \/ RegisterFails(w) \/ FinalizeReturns(w) \/ Project(w)
             \/ SeasonTaken(w) \/ InsertFails(w) \/ Crash(w)
    BY <1>4 DEF UnknownSeason, LoadFails, Refuse, SaveFails, RegisterFails,
                FinalizeReturns, Project, SeasonTaken, InsertFails, Crash, Rollback
  <1>5. QED
    BY <1>1, <1>2, <1>3, <1>4 DEF WorkerStep, Progress, Writes

\* A worker's step leaves the private variables of the others alone.
LEMMA OthersIdle ==
    ASSUME TypeInv, NEW w \in Workers, WorkerStep(w), NEW v \in Workers, v # w
    PROVE  Idle(v)
  <1> USE DEF TypeInv, TypeOK, TransactionsTyped, Idle
  <1>1. CASE Submit(w) \/ Admit(w) \/ Ask(w) \/ AskSeason(w)
    BY <1>1 DEF Submit, Admit, Ask, AskSeason, Start
  <1>2. CASE LockSeason(w) \/ AdvisoryLock(w) \/ CheckSeason(w)
    BY <1>2 DEF LockSeason, AdvisoryLock, CheckSeason, Goto
  <1>3. CASE Load(w) \/ Decide(w) \/ PlanFinalization(w)
    BY <1>3 DEF Load, Decide, PlanFinalization, Goto
  <1>4. ASSUME EndTransaction(w) PROVE Idle(v)
    BY <1>4 DEF EndTransaction
  <1>5. CASE \/ UnknownSeason(w) \/ Replay(w) \/ LoadFails(w) \/ Refuse(w)
             \/ Save(w) \/ SaveFails(w) \/ Register(w) \/ RegisterFails(w)
             \/ FinalizeReturns(w) \/ Finalize(w) \/ Project(w)
             \/ SeasonTaken(w) \/ InsertSeason(w) \/ InsertFails(w) \/ Crash(w)
    BY <1>4, <1>5 DEF UnknownSeason, Replay, LoadFails, Refuse, Save, SaveFails, Register,
                      RegisterFails, FinalizeReturns, Finalize, Project, SeasonTaken,
                      InsertSeason, InsertFails, Crash, Rollback
  <1>6. QED
    BY <1>1, <1>2, <1>3, <1>5 DEF WorkerStep, Progress

\* The steps that bring a worker to a given place.
LEMMA ArrivesBy ==
    ASSUME TypeInv, NEW w \in Workers, WorkerStep(w)
    PROVE  /\ pc'[w] = "decide" => Load(w)
           /\ pc'[w] = "save" => Decide(w)
           /\ pc'[w] = "close" => PlanFinalization(w)
           /\ pc'[w] = "insert_season" => CheckSeason(w)
           /\ pc'[w] = "check_season" => AdvisoryLock(w)
  <1> USE DEF TypeInv, TypeOK, TransactionsTyped
  <1>1. CASE Submit(w) \/ Admit(w) \/ Ask(w) \/ AskSeason(w)
    BY <1>1 DEF Submit, Admit, Ask, AskSeason, Start
  <1>2. CASE AdvisoryLock(w) \/ CheckSeason(w)
    BY <1>2 DEF AdvisoryLock, CheckSeason, Goto
  <1>3. CASE Load(w) \/ Decide(w) \/ PlanFinalization(w)
    BY <1>3 DEF Load, Decide, PlanFinalization, Goto
  <1>4. CASE LockSeason(w)
    <2>1. pc[w] = "lock_season"
      BY <1>4 DEF LockSeason
    <2>2. job[w].op \in {"apply", "register", "finalize", "project"}
      BY <2>1, JobTyped DEF WorkerOK, Job
    <2>3. QED
      BY <1>4, <2>2 DEF LockSeason, Goto
  <1>5. ASSUME EndTransaction(w) PROVE pc'[w] = "idle"
    BY <1>5 DEF EndTransaction
  <1>6. CASE \/ UnknownSeason(w) \/ Replay(w) \/ LoadFails(w) \/ Refuse(w)
             \/ Save(w) \/ SaveFails(w) \/ Register(w) \/ RegisterFails(w)
             \/ FinalizeReturns(w) \/ Finalize(w) \/ Project(w)
             \/ SeasonTaken(w) \/ InsertSeason(w) \/ InsertFails(w) \/ Crash(w)
    <2>1. EndTransaction(w)
      BY <1>6 DEF UnknownSeason, Replay, LoadFails, Refuse, Save, SaveFails, Register,
                  RegisterFails, FinalizeReturns, Finalize, Project, SeasonTaken,
                  InsertSeason, InsertFails, Crash, Rollback
    <2>2. QED
      BY <1>5, <2>1
  <1>7. QED
    BY <1>1, <1>2, <1>3, <1>4, <1>6 DEF WorkerStep, Progress

\* The rows of a season that the counts and the standings are read from.
SeasonRows(s) == <<status[s], site[s], account[s], receipt[s], eventTable[s], result[s]>>

LEMMA SaveRows ==
    ASSUME TypeInv, NEW w \in Workers, Save(w), NEW s \in Seasons, s # job[w].cand.season
    PROVE  UNCHANGED SeasonRows(s)
  <1> USE DEF TypeInv, TypeOK, TablesTyped
  <1>1. /\ UNCHANGED <<status[s], result[s]>>
        /\ UNCHANGED <<site[s], account[s], eventTable[s]>>
    BY DEF Save
  <1>2. UNCHANGED receipt[s]
    BY DEF Save
  <1>3. QED
    BY <1>1, <1>2 DEF SeasonRows

LEMMA FinalizeRows ==
    ASSUME TypeInv, NEW w \in Workers, Finalize(w), NEW s \in Seasons, s # job[w].season
    PROVE  UNCHANGED SeasonRows(s)
  BY DEF TypeInv, TypeOK, TablesTyped, Finalize, SeasonRows

LEMMA InsertSeasonRows ==
    ASSUME TypeInv, NEW w \in Workers, InsertSeason(w), NEW s \in Seasons, s # job[w].season
    PROVE  UNCHANGED SeasonRows(s)
  BY DEF TypeInv, TypeOK, TablesTyped, InsertSeason, SeasonRows

\* Nobody else touches a season while a worker holds its row.
LEMMA Undisturbed ==
    ASSUME TypeInv, LockHeld, NEW w \in Workers, WorkerStep(w),
           NEW v \in Workers, v # w, pc[v] \in Holding,
           NEW s \in Seasons, job[v].season = s
    PROVE  UNCHANGED SeasonRows(s)
  <1>1. lock[s] = v /\ status[s] # "NONE"
    BY JobTyped DEF LockHeld, Holding, WorkerOK
  <1>2. ~(pc[w] \in Holding /\ job[w].season = s)
    BY <1>1 DEF LockHeld
  <1>3. CASE ~Writes(w) \/ Register(w)
    BY <1>3, ReadersLeaveTables DEF tables, SeasonRows, Register
  <1>4. CASE Save(w)
    <2>1. pc[w] = "save" /\ job[w].cand.season = job[w].season
      BY <1>4, JobTyped DEF Save, WorkerOK
    <2>2. QED
      BY <1>1, <1>2, <1>4, <2>1, SaveRows DEF Holding
  <1>5. CASE Finalize(w)
    <2>1. pc[w] = "close"
      BY <1>5 DEF Finalize
    <2>2. QED
      BY <1>1, <1>2, <1>5, <2>1, FinalizeRows DEF Holding
  <1>6. CASE InsertSeason(w)
    <2>1. status[job[w].season] = "NONE"
      BY <1>6 DEF InsertSeason, CanInsert
    <2>2. QED
      BY <1>1, <1>6, <2>1, InsertSeasonRows
  <1>7. QED
    BY <1>3, <1>4, <1>5, <1>6 DEF Writes

------------------------------------------------------------------------------
\* Receipts

LEMMA SaveReplies ==
    ASSUME TypeInv, RepliesStand, NEW w \in Workers, Save(w)
    PROVE  RepliesStand'
  <1> DEFINE c == job[w].cand
  <1> DEFINE p == plan[w]
  <1> DEFINE written == ReceiptOf(c, p, snap[w])
  <1> DEFINE entry == [cand |-> c, at_ms |-> p.at_ms, before |-> snap[w],
                       after |-> p.after, bonus |-> p.bonus, kind |-> p.kind]
  <1>1. /\ pc[w] = "save" /\ c.season \in Seasons /\ c.event \in Events
        /\ receipt[c.season][c.event] = None
    BY SavedRows DEF Save, CanSave
  <1>2. /\ receipt' = [receipt EXCEPT ![c.season][c.event] = written]
        /\ replies' = replies \union {written}
        /\ IF p.kind = "UNCHANGED" THEN UNCHANGED eventTable
           ELSE eventTable' = [eventTable EXCEPT ![c.season][c.event] = entry]
    BY DEF Save
  <1>3. /\ written.cand = c /\ written.kind = p.kind /\ written.at_ms = p.at_ms
        /\ written.bonus = p.bonus /\ written.site_version = p.after.version
    BY DEF ReceiptOf
  <1>4. /\ entry.cand = c /\ entry.kind = p.kind /\ entry.at_ms = p.at_ms
        /\ entry.bonus = p.bonus /\ entry.after = p.after
    OBVIOUS
  <1>5. written # None /\ (p.kind # "UNCHANGED" => entry # None)
    BY <1>1, SavedRows, NullAssumption
  <1> HIDE DEF written, entry, p
  <1>6. ASSUME NEW s \in Seasons, NEW e \in Events
        PROVE  /\ receipt'[s][e] = IF s = c.season /\ e = c.event THEN written
                                   ELSE receipt[s][e]
               /\ eventTable'[s][e] = IF s = c.season /\ e = c.event /\ p.kind # "UNCHANGED"
                                        THEN entry ELSE eventTable[s][e]
    BY <1>1, <1>2 DEF TypeInv, TypeOK, TablesTyped
  <1>7. ASSUME NEW r \in replies'
        PROVE  receipt'[r.cand.season][r.cand.event] = r
    <2>1. CASE r = written
      BY <1>1, <1>3, <1>6, <2>1
    <2>2. CASE r # written
      <3>1. r \in replies /\ receipt[r.cand.season][r.cand.event] = r
        BY <1>2, <2>2 DEF RepliesStand
      <3>2. r \in Receipt /\ r # None
        BY <3>1, NullAssumption DEF TypeInv, TypeOK
      <3>3. r.cand.season \in Seasons /\ r.cand.event \in Events
        BY <3>2 DEF Receipt, Candidate
      <3>4. ~(r.cand.season = c.season /\ r.cand.event = c.event)
        BY <1>1, <3>1, <3>2
      <3>5. receipt'[r.cand.season][r.cand.event] = receipt[r.cand.season][r.cand.event]
        BY <1>6, <3>3, <3>4
      <3>6. QED
        BY <3>1, <3>5
    <2>3. QED
      BY <2>1, <2>2
  <1>8. ASSUME NEW s \in Seasons, NEW e \in Events
        PROVE  LET r == receipt'[s][e]
                   n == eventTable'[s][e]
               IN  IF r = None \/ r.kind = "UNCHANGED" THEN n = None
                   ELSE /\ n # None
                        /\ n.cand = r.cand /\ n.at_ms = r.at_ms /\ n.bonus = r.bonus
                        /\ n.after.version = r.site_version /\ n.kind = r.kind
    <2>1. CASE s = c.season /\ e = c.event
      <3>1. eventTable[s][e] = None
        BY <1>1, <2>1 DEF RepliesStand
      <3>2. receipt'[s][e] = written
        BY <1>6, <2>1
      <3>3. eventTable'[s][e] = IF p.kind # "UNCHANGED" THEN entry ELSE None
        BY <1>6, <2>1, <3>1
      <3>4. CASE p.kind = "UNCHANGED"
        BY <1>3, <3>2, <3>3, <3>4
      <3>5. CASE p.kind # "UNCHANGED"
        <4>1. eventTable'[s][e] = entry
          BY <3>3, <3>5
        <4>2. /\ entry.cand = written.cand /\ entry.at_ms = written.at_ms
              /\ entry.bonus = written.bonus /\ entry.kind = written.kind
              /\ entry.after.version = written.site_version
          BY <1>3, <1>4
        <4>3. QED
          BY <1>3, <1>5, <3>2, <3>5, <4>1, <4>2
      <3>6. QED
        BY <3>4, <3>5
    <2>2. CASE ~(s = c.season /\ e = c.event)
      BY <1>6, <2>2, SMTT(30) DEF RepliesStand
    <2>3. QED
      BY <2>1, <2>2
  <1>9. QED
    BY <1>7, <1>8 DEF RepliesStand

LEMMA RepliesNext == ASSUME TypeInv, RepliesStand, [Next]_vars PROVE RepliesStand'
  <1>1. ASSUME UNCHANGED <<receipt, eventTable, replies>> PROVE RepliesStand'
    BY <1>1 DEF RepliesStand
  <1>2. CASE Tick \/ SetBack \/ UNCHANGED vars
    BY <1>1, <1>2 DEF Tick, SetBack, vars, tables
  <1>3. ASSUME NEW w \in Workers, WorkerStep(w) PROVE RepliesStand'
    <2>1. CASE Save(w)
      BY <2>1, SaveReplies
    <2>2. CASE Register(w) \/ Finalize(w) \/ InsertSeason(w)
      BY <1>1, <2>2 DEF Register, Finalize, InsertSeason
    <2>3. CASE Replay(w)
      <3>1. UNCHANGED <<receipt, eventTable>>
        BY <2>3 DEF Replay, tables
      <3>2. PICK r : /\ replies' = replies \union {r}
                     /\ r = receipt[job[w].cand.season][job[w].cand.event]
                     /\ r.cand = job[w].cand
        BY <2>3 DEF Replay
      <3>3. QED
        BY <3>1, <3>2, ZenonT(30) DEF RepliesStand
    <2>4. CASE ~Writes(w) /\ ~Replay(w)
      <3>1. UNCHANGED tables
        BY <1>3, <2>4, ReadersLeaveTables
      <3>2. UNCHANGED replies
        BY <1>3, <2>4 DEF WorkerStep, Progress, Writes, Submit, Admit, Ask, AskSeason, Start,
             LockSeason, AdvisoryLock, CheckSeason, Load, Decide, PlanFinalization,
             UnknownSeason, LoadFails, Refuse, SaveFails, RegisterFails, FinalizeReturns,
             Project, SeasonTaken, InsertFails, Crash, Rollback
      <3>3. QED
        BY <1>1, <3>1, <3>2 DEF tables
    <2>5. QED
      BY <2>1, <2>2, <2>3, <2>4 DEF Writes
  <1>4. QED
    BY <1>2, <1>3 DEF Next

\* A claim takes effect at most once and has one receipt for ever: whatever is
\* retried, refused, lost or raced, every reply ever handed out is the receipt
\* on record, and the plan on record is the one it reports (get_receipt,
\* save_receipt).
THEOREM ReceiptsStand == Spec => []RepliesStand
  <1>1. Init => TypeInv /\ RepliesStand
    <2>1. Init => RepliesStand
      BY DEF Init, RepliesStand
    <2>2. QED
      BY <2>1, TypeInit
  <1>2. TypeInv /\ RepliesStand /\ [Next]_vars => (TypeInv /\ RepliesStand)'
    BY TypeNext, RepliesNext
  <1>3. QED
    BY <1>1, <1>2, PTL DEF Spec

------------------------------------------------------------------------------
\* What the lock holder has read

FreshInv == TypeInv /\ LockHeld /\ SnapshotFresh

\* The snapshot of one worker is what the tables say.
FreshFor(v) ==
    LET c == job[v].cand
    IN  /\ snap[v] = site[c.season][c.site]
        /\ \A p \in Affected(snap[v], c) :
             /\ account[c.season][p] # None => scores[v][p] = account[c.season][p]
             /\ CountsAgree(site[c.season], p, scores[v][p])

\* It stays so as long as neither the worker's variables nor its season move.
LEMMA FreshKept ==
    ASSUME NEW v \in Workers, FreshFor(v),
           UNCHANGED <<job[v], snap[v], scores[v]>>,
           NEW s, s = job[v].cand.season, UNCHANGED <<site[s], account[s]>>
    PROVE  FreshFor(v)'
  BY DEF FreshFor

LEMMA LoadFresh ==
    ASSUME TypeInv, NEW w \in Workers, Load(w) PROVE FreshFor(w)'
  <1> DEFINE c == job[w].cand
  <1> DEFINE row == site[c.season][c.site]
  <1> DEFINE loaded == LoadedScores(c.season, Affected(row, c))
  <1>1. c \in Candidate /\ c.season \in Seasons /\ c.site \in Sites
    BY JobTyped DEF Load
  <1>2. Affected(row, c) \subseteq Pets
    BY <1>1, AffectedPets DEF TypeInv, TypeOK, TablesTyped
  <1>3. /\ \A p \in Affected(row, c) : CountsAgree(site[c.season], p, loaded[p])
        /\ \A p \in Affected(row, c) :
             account[c.season][p] # None => loaded[p] = account[c.season][p]
    BY <1>2 DEF Load, CanLoad, LoadedScores
  <1>4. /\ snap'[w] = row /\ scores'[w] = loaded /\ UNCHANGED <<job, site, account>>
    BY DEF Load, tables, TypeInv, TypeOK, TransactionsTyped
  <1> HIDE DEF loaded
  <1>5. QED
    BY <1>3, <1>4 DEF FreshFor

LEMMA FreshNext == ASSUME FreshInv, [Next]_vars PROVE SnapshotFresh'
  <1> SUFFICES ASSUME NEW v \in Workers, pc'[v] \in {"decide", "save"}
               PROVE  FreshFor(v)'
    BY DEF SnapshotFresh, FreshFor
  <1> USE DEF FreshInv
  <1>1. pc[v] \in {"decide", "save"} => FreshFor(v)
    BY DEF SnapshotFresh, FreshFor
  <1>2. CASE Tick \/ SetBack \/ UNCHANGED vars
    <2>1. UNCHANGED <<pc, job, snap, scores, site, account>>
      BY <1>2 DEF Tick, SetBack, vars, work, tables
    <2>2. QED
      BY <1>1, <2>1, FreshKept
  <1>3. ASSUME NEW w \in Workers, WorkerStep(w) PROVE FreshFor(v)'
    <2>1. CASE v # w
      <3>1. Idle(v)
        BY <1>3, <2>1, OthersIdle
      <3>2. /\ pc[v] \in {"decide", "save"}
            /\ job[v].season \in Seasons /\ job[v].cand.season = job[v].season
        BY <3>1, JobTyped DEF Idle, WorkerOK
      <3>3. UNCHANGED SeasonRows(job[v].cand.season)
        <4>1. PICK s \in Seasons : s = job[v].season
          BY <3>2
        <4>2. UNCHANGED SeasonRows(s)
          BY <1>3, <2>1, <3>2, <4>1, Undisturbed DEF Holding
        <4>3. QED
          BY <3>1, <3>2, <4>1, <4>2 DEF Idle
      <3>4. PICK s : s = job[v].cand.season
        OBVIOUS
      <3>5. UNCHANGED <<site[s], account[s]>>
        BY <3>1, <3>3, <3>4 DEF SeasonRows, Idle
      <3>6. QED
        BY <1>1, <3>1, <3>2, <3>4, <3>5, FreshKept DEF Idle
    <2>2. CASE v = w /\ Load(w)
      BY <2>2, LoadFresh
    <2>3. CASE v = w /\ Decide(w)
      <3>1. pc[v] = "decide" /\ UNCHANGED <<job, snap, scores, site, account>>
        BY <2>3 DEF Decide, tables
      <3>2. QED
        BY <1>1, <3>1, FreshKept
    <2>4. CASE v = w /\ ~Load(w) /\ ~Decide(w)
      <3>1. pc'[w] \notin {"decide", "save"}
        BY <1>3, <2>4, ArrivesBy
      <3>2. QED
        BY <2>4, <3>1
    <2>5. QED
      BY <2>1, <2>2, <2>3, <2>4
  <1>4. QED
    BY <1>2, <1>3 DEF Next

------------------------------------------------------------------------------
\* What a plan does to the counts

LEMMA PlanAccountCounts ==
    ASSUME NEW row \in SiteRow, NEW c \in Candidate, NEW score \in Score, NEW p \in Pets,
           NEW at \in Nat, NEW paid, at >= score.last_ms,
           row.owner # None /\ row.owner.pet = p =>
             score.current_count >= 1 /\ score.scoring_count >= Counted(row.owner.verified)
    PROVE  LET after == PlanAccount(row, c, score, p, at, paid)
           IN  /\ after.current_count =
                    score.current_count - Held(row, p) + (IF p = c.pet THEN 1 ELSE 0)
               /\ after.scoring_count =
                    score.scoring_count - HeldScoring(row, p)
                                        + (IF p = c.pet THEN Counted(Verified(c)) ELSE 0)
  <1> DEFINE settled == Settle(score, at)
  <1> DEFINE released == IF row.owner # None /\ row.owner.pet = p
                           THEN Release(settled, row.owner.verified) ELSE settled
  <1> DEFINE acquired == IF p = c.pet THEN Acquire(released, Verified(c)) ELSE released
  <1>1. /\ settled \in Score
        /\ settled.current_count = score.current_count
        /\ settled.scoring_count = score.scoring_count
    BY SettleType
  <1> HIDE DEF settled
  <1>2. /\ released \in Score
        /\ released.current_count = score.current_count - Held(row, p)
        /\ released.scoring_count = score.scoring_count - HeldScoring(row, p)
    <2>1. CASE row.owner # None /\ row.owner.pet = p
      BY <1>1, <2>1, ReleaseType DEF Held, HeldScoring
    <2>2. CASE ~(row.owner # None /\ row.owner.pet = p)
      BY <1>1, <2>2 DEF Held, HeldScoring, Score
    <2>3. QED
      BY <2>1, <2>2
  <1> HIDE DEF released
  <1>3. /\ acquired \in Score
        /\ acquired.current_count = released.current_count + (IF p = c.pet THEN 1 ELSE 0)
        /\ acquired.scoring_count =
             released.scoring_count + (IF p = c.pet THEN Counted(Verified(c)) ELSE 0)
    <2>1. CASE p = c.pet
      BY <1>2, <2>1, AcquireType
    <2>2. CASE p # c.pet
      BY <1>2, <2>2 DEF Score
    <2>3. QED
      BY <2>1, <2>2
  <1>4. LET rewarded == Reward(acquired, PlanBonus(row, c, paid), row.owner # None)
        IN  /\ rewarded.current_count = acquired.current_count
            /\ rewarded.scoring_count = acquired.scoring_count
    BY <1>3, RewardType, PlanBonusNat, ZenonT(30)
  <1>5. PlanAccount(row, c, score, p, at, paid) =
          IF p = c.pet /\ ~SamePet(row, c)
            THEN Reward(acquired, PlanBonus(row, c, paid), row.owner # None) ELSE acquired
    BY DEF PlanAccount, acquired, released, settled
  <1> HIDE DEF acquired
  <1>6. QED
    BY <1>2, <1>3, <1>4, <1>5

\* After the claim the site is the claiming pet's, certified as the claim was.
LEMMA PlanSiteHeld ==
    ASSUME NEW row \in SiteRow, NEW c \in Candidate, NEW at \in Nat, ~Unchanged(row, c)
    PROVE  LET after == PlanSite(row, c, at)
           IN  /\ after.owner \in Owner /\ after.owner # None
               /\ after.owner.pet = c.pet
               /\ \A p : /\ Held(after, p) = IF p = c.pet THEN 1 ELSE 0
                         /\ HeldScoring(after, p) =
                              IF p = c.pet THEN Counted(Verified(c)) ELSE 0
  <1> DEFINE owner == PlanOwner(row, c, at)
  <1>1. owner \in Owner
    BY PlanOwnerType
  <1>2. owner # None
    BY <1>1, NoneAssumption
  <1>3. owner.pet = c.pet /\ owner.verified = Verified(c)
    <2>1. CASE SamePet(row, c)
      <3>1. row.owner \in Owner /\ row.owner.pet = c.pet
        BY <2>1 DEF SamePet, SiteRow
      <3>2. owner = [row.owner EXCEPT !.verified = Verified(c), !.certified_ms = at]
        BY <2>1 DEF PlanOwner
      <3>3. QED
        BY <3>1, <3>2 DEF Owner
    <2>2. CASE ~SamePet(row, c)
      BY <2>2 DEF PlanOwner
    <2>3. QED
      BY <2>1, <2>2
  <1>4. PlanSite(row, c, at).owner = owner
    BY DEF PlanSite
  <1> HIDE DEF owner
  <1>5. QED
    BY <1>1, <1>2, <1>3, <1>4 DEF Held, HeldScoring

------------------------------------------------------------------------------
\* Plans that wait to be written

FitsFor(v) ==
    LET c == job[v].cand
        row == snap[v]
        p == plan[v]
    IN  /\ Starts[c.season] <= p.at_ms /\ p.at_ms < Ends[c.season]
        /\ p.kind # "UNCHANGED" =>
             /\ p.after.owner # None /\ p.after.owner.pet = c.pet
             /\ \A q \in Pets :
                  IF q \notin Affected(row, c) THEN p.accounts[q] = None
                  ELSE /\ p.accounts[q] \in Score
                       /\ p.accounts[q].current_count =
                            scores[v][q].current_count - Held(row, q) + Held(p.after, q)
                       /\ p.accounts[q].scoring_count =
                            scores[v][q].scoring_count - HeldScoring(row, q)
                                                       + HeldScoring(p.after, q)

LEMMA DecideFits == ASSUME TypeInv, NEW w \in Workers, Decide(w) PROVE FitsFor(w)'
  <1> DEFINE c == job[w].cand
  <1> DEFINE row == snap[w]
  <1> DEFINE paid == BonusPaid(c, clock)
  <1> DEFINE accounts == [q \in Pets |->
               IF q \in Affected(row, c) /\ ~Unchanged(row, c)
                 THEN PlanAccount(row, c, scores[w][q], q, clock, paid) ELSE None]
  <1> DEFINE after == PlanSite(row, c, clock)
  <1>1. /\ WorkerOK(w) /\ pc[w] = "decide" /\ c \in Candidate
        /\ row \in SiteRow /\ clock \in Nat
        /\ \A q \in Affected(row, c) : scores[w][q] \in Score
    BY JobTyped DEF Decide, TypeInv, TypeOK, TransactionsTyped, WorkerOK
  <1>2. PICK bonus, key :
          plan'[w] = [at_ms |-> clock, after |-> after, accounts |-> accounts,
                      bonus |-> bonus, key |-> key, kind |-> PlanKind(row, c)]
    BY DEF Decide, TypeInv, TypeOK, TransactionsTyped
  <1>3. /\ plan'[w].at_ms = clock /\ plan'[w].after = after
        /\ plan'[w].accounts = accounts /\ plan'[w].kind = PlanKind(row, c)
    BY <1>2
  <1>4. UNCHANGED <<job, snap, scores>>
    BY DEF Decide
  <1>5. Starts[c.season] <= clock /\ clock < Ends[c.season]
    BY DEF Decide, Admissible, ContextValid, InWindow
  <1>6. ASSUME ~Unchanged(row, c)
        PROVE  /\ after.owner # None /\ after.owner.pet = c.pet
               /\ \A q \in Pets :
                    IF q \notin Affected(row, c) THEN accounts[q] = None
                    ELSE /\ accounts[q] \in Score
                         /\ accounts[q].current_count =
                              scores[w][q].current_count - Held(row, q) + Held(after, q)
                         /\ accounts[q].scoring_count =
                              scores[w][q].scoring_count - HeldScoring(row, q)
                                                         + HeldScoring(after, q)
    <2>1. ScoresValid(row, c, scores[w], clock)
      BY <1>6 DEF Decide, Admissible
    <2>2. /\ after.owner # None /\ after.owner.pet = c.pet
          /\ \A q : /\ Held(after, q) = IF q = c.pet THEN 1 ELSE 0
                    /\ HeldScoring(after, q) = IF q = c.pet THEN Counted(Verified(c)) ELSE 0
      BY <1>1, <1>6, PlanSiteHeld
    <2> HIDE DEF after
    <2>3. ASSUME NEW q \in Pets, q \in Affected(row, c)
          PROVE  /\ accounts[q] \in Score
                 /\ accounts[q].current_count =
                      scores[w][q].current_count - Held(row, q) + Held(after, q)
                 /\ accounts[q].scoring_count =
                      scores[w][q].scoring_count - HeldScoring(row, q) + HeldScoring(after, q)
      <3>1. clock >= scores[w][q].last_ms
        BY <2>1, <2>3 DEF ScoresValid, Settleable
      <3>2. row.owner # None /\ row.owner.pet = q =>
              /\ scores[w][q].current_count >= 1
              /\ scores[w][q].scoring_count >= Counted(row.owner.verified)
        BY <2>1 DEF ScoresValid
      <3>3. accounts[q] = PlanAccount(row, c, scores[w][q], q, clock, paid)
        BY <1>6, <2>3
      <3>4. accounts[q] \in Score
        BY <1>1, <2>3, <3>1, <3>2, <3>3, PlanAccountType
      <3>5. /\ accounts[q].current_count =
                 scores[w][q].current_count - Held(row, q) + (IF q = c.pet THEN 1 ELSE 0)
            /\ accounts[q].scoring_count =
                 scores[w][q].scoring_count - HeldScoring(row, q)
                                     + (IF q = c.pet THEN Counted(Verified(c)) ELSE 0)
        BY <1>1, <2>3, <3>1, <3>2, <3>3, PlanAccountCounts
      <3> HIDE DEF accounts
      <3>6. QED
        BY <2>2, <3>4, <3>5
    <2>4. QED
      BY <2>2, <2>3
  <1>7. PlanKind(row, c) # "UNCHANGED" => ~Unchanged(row, c)
    BY DEF PlanKind
  <1> HIDE DEF accounts, after, row
  <1>8. QED
    BY <1>3, <1>4, <1>5, <1>6, <1>7 DEF FitsFor, row

LEMMA FitsNext == ASSUME TypeInv, PlanFits, [Next]_vars PROVE PlanFits'
  <1> SUFFICES ASSUME NEW v \in Workers, pc'[v] = "save" PROVE FitsFor(v)'
    BY DEF PlanFits, FitsFor
  <1>1. pc[v] = "save" => FitsFor(v)
    BY DEF PlanFits, FitsFor
  <1>2. CASE Tick \/ SetBack \/ UNCHANGED vars
    <2>1. UNCHANGED <<pc, job, snap, scores, plan>>
      BY <1>2 DEF Tick, SetBack, vars, work
    <2>2. QED
      BY <1>1, <2>1 DEF FitsFor
  <1>3. ASSUME NEW w \in Workers, WorkerStep(w) PROVE FitsFor(v)'
    <2>1. CASE v = w
      BY <1>3, <2>1, ArrivesBy, DecideFits
    <2>2. CASE v # w
      <3>1. Idle(v)
        BY <1>3, <2>2, OthersIdle
      <3>2. QED
        BY <1>1, <3>1 DEF FitsFor, Idle
    <2>3. QED
      BY <2>1, <2>2
  <1>4. QED
    BY <1>2, <1>3 DEF Next

LEMMA ClosingNext ==
    ASSUME TypeInv, LockHeld, ClosingFits, [Next]_vars PROVE ClosingFits'
  <1> DEFINE Closing(v) == /\ status[job[v].season] = "ACTIVE"
                           /\ DOMAIN plan[v] = AccountPets(job[v].season)
  <1> SUFFICES ASSUME NEW v \in Workers, pc'[v] = "close" PROVE Closing(v)'
    BY DEF ClosingFits
  <1>1. pc[v] = "close" => Closing(v)
    BY DEF ClosingFits
  <1>2. CASE Tick \/ SetBack \/ UNCHANGED vars
    <2>1. UNCHANGED <<pc, job, plan, status, account>>
      BY <1>2 DEF Tick, SetBack, vars, work, tables
    <2>2. QED
      BY <1>1, <2>1 DEF AccountPets
  <1>3. ASSUME NEW w \in Workers, WorkerStep(w) PROVE Closing(v)'
    <2>1. CASE v = w
      <3>1. PlanFinalization(w)
        BY <1>3, <2>1, ArrivesBy
      <3>2. pc[w] = "settle" /\ job[w].season \in Seasons
        BY <3>1, JobTyped DEF PlanFinalization
      <3>3. status[job[w].season] = "ACTIVE"
        BY <3>1 DEF PlanFinalization, CanSettle, Finalizable
      <3>4. plan'[w] = PlanResults(job[w].season, Scores(job[w].season))
        BY <3>1 DEF PlanFinalization, TypeInv, TypeOK, TransactionsTyped
      <3>5. DOMAIN plan'[w] = AccountPets(job[w].season)
        BY <3>4 DEF PlanResults, Scores
      <3>6. UNCHANGED <<job, status, account>>
        BY <3>1 DEF PlanFinalization, tables
      <3>7. QED
        BY <2>1, <3>3, <3>5, <3>6 DEF AccountPets
    <2>2. CASE v # w
      <3>1. Idle(v)
        BY <1>3, <2>2, OthersIdle
      <3>2. pc[v] = "close"
        BY <3>1 DEF Idle
      <3>3. PICK s \in Seasons : s = job[v].season
        BY <3>2, JobTyped
      <3>4. UNCHANGED SeasonRows(s)
        BY <1>3, <2>2, <3>2, <3>3, Undisturbed DEF Holding
      <3>5. UNCHANGED <<status[s], account[s]>>
        BY <3>4 DEF SeasonRows
      <3>6. AccountPets(s)' = AccountPets(s)
        BY <3>5 DEF AccountPets
      <3>7. job'[v].season = s /\ plan'[v] = plan[v]
        BY <3>1, <3>3 DEF Idle
      <3>8. status[s] = "ACTIVE" /\ DOMAIN plan[v] = AccountPets(s)
        BY <1>1, <3>2, <3>3
      <3>9. QED
        BY <3>5, <3>7, <3>8 DEF AccountPets
    <2>3. QED
      BY <2>1, <2>2
  <1>4. QED
    BY <1>2, <1>3 DEF Next

------------------------------------------------------------------------------
\* Counting sites

\* Two sets that differ in one element at most.
LEMMA DifferInOne ==
    ASSUME NEW S, NEW T, IsFiniteSet(S), IsFiniteSet(T), NEW x, S \ {x} = T \ {x}
    PROVE  Cardinality(T) = Cardinality(S) - (IF x \in S THEN 1 ELSE 0)
                                           + (IF x \in T THEN 1 ELSE 0)
  <1>1. Cardinality(S \ {x}) = Cardinality(S) - (IF x \in S THEN 1 ELSE 0)
    <2>1. CASE x \in S
      BY <2>1, FS_RemoveElement, FS_CardinalityType
    <2>2. CASE x \notin S
      BY <2>2, FS_RemoveElement, FS_CardinalityType
    <2>3. QED
      BY <2>1, <2>2
  <1>2. Cardinality(T \ {x}) = Cardinality(T) - (IF x \in T THEN 1 ELSE 0)
    <2>1. CASE x \in T
      BY <2>1, FS_RemoveElement, FS_CardinalityType
    <2>2. CASE x \notin T
      BY <2>2, FS_RemoveElement, FS_CardinalityType
    <2>3. QED
      BY <2>1, <2>2
  <1>3. Cardinality(S) \in Nat /\ Cardinality(T) \in Nat
    BY FS_CardinalityType
  <1>4. Cardinality(S \ {x}) = Cardinality(T \ {x})
    OBVIOUS
  <1> DEFINE s == IF x \in S THEN 1 ELSE 0
  <1> DEFINE t == IF x \in T THEN 1 ELSE 0
  <1>5. s \in Nat /\ t \in Nat
    OBVIOUS
  <1> HIDE DEF s, t
  <1>6. Cardinality(T) = Cardinality(S) - s + t
    <2>1. Cardinality(S) - s = Cardinality(T) - t
      BY <1>1, <1>2, <1>4 DEF s, t
    <2>2. QED
      BY <1>3, <1>5, <2>1
  <1>7. QED
    BY <1>6 DEF s, t

LEMMA SitesFinite ==
    ASSUME NEW rows, NEW p
    PROVE  IsFiniteSet(OwnedSites(rows, p)) /\ IsFiniteSet(ScoringSites(rows, p))
  <1>1. OwnedSites(rows, p) \subseteq Sites /\ ScoringSites(rows, p) \subseteq Sites
    BY DEF OwnedSites, ScoringSites
  <1>2. QED
    BY <1>1, FiniteAssumption, FS_Subset

\* One row of a season changes: the counts of a pet move by what the new row
\* adds and the old one gave.
LEMMA OneRowChanges ==
    ASSUME NEW rows \in [Sites -> SiteRow], NEW x \in Sites, NEW row \in SiteRow, NEW p
    PROVE  LET changed == [rows EXCEPT ![x] = row]
           IN  /\ Cardinality(OwnedSites(changed, p)) =
                    Cardinality(OwnedSites(rows, p)) - Held(rows[x], p) + Held(row, p)
               /\ Cardinality(ScoringSites(changed, p)) =
                    Cardinality(ScoringSites(rows, p)) - HeldScoring(rows[x], p)
                                                       + HeldScoring(row, p)
  <1> DEFINE changed == [rows EXCEPT ![x] = row]
  <1>1. \A y \in Sites : changed[y] = IF y = x THEN row ELSE rows[y]
    OBVIOUS
  <1> HIDE DEF changed
  <1>2. OwnedSites(rows, p) \ {x} = OwnedSites(changed, p) \ {x}
    BY <1>1 DEF OwnedSites
  <1>3. ScoringSites(rows, p) \ {x} = ScoringSites(changed, p) \ {x}
    BY <1>1 DEF ScoringSites, OwnedSites
  <1>4. /\ Cardinality(OwnedSites(changed, p)) =
             Cardinality(OwnedSites(rows, p)) - (IF x \in OwnedSites(rows, p) THEN 1 ELSE 0)
                                              + (IF x \in OwnedSites(changed, p) THEN 1 ELSE 0)
        /\ Cardinality(ScoringSites(changed, p)) =
             Cardinality(ScoringSites(rows, p))
               - (IF x \in ScoringSites(rows, p) THEN 1 ELSE 0)
               + (IF x \in ScoringSites(changed, p) THEN 1 ELSE 0)
    BY <1>2, <1>3, SitesFinite, DifferInOne
  <1>5. /\ Held(rows[x], p) = IF x \in OwnedSites(rows, p) THEN 1 ELSE 0
        /\ Held(row, p) = IF x \in OwnedSites(changed, p) THEN 1 ELSE 0
    BY <1>1 DEF Held, OwnedSites
  <1>6. /\ HeldScoring(rows[x], p) = IF x \in ScoringSites(rows, p) THEN 1 ELSE 0
        /\ HeldScoring(row, p) = IF x \in ScoringSites(changed, p) THEN 1 ELSE 0
    BY <1>1, CountedType DEF HeldScoring, ScoringSites, OwnedSites
  <1>7. QED
    BY <1>4, <1>5, <1>6 DEF changed

------------------------------------------------------------------------------
\* The counters every score is settled with

\* all_scores, for one season's rows.
RowsAgree(rows, accounts) ==
    /\ \A x \in Sites : rows[x].owner # None => accounts[rows[x].owner.pet] # None
    /\ \A p \in Pets : accounts[p] # None => CountsAgree(rows, p, accounts[p])

LEMMA AgreeBySeason ==
    ASSUME TablesTyped
    PROVE  CountsMatch <=> \A s \in Seasons : RowsAgree(site[s], account[s])
  <1>1. \A s \in Seasons, x \in Sites : site[s][x].owner # None => site[s][x].owner.pet \in Pets
    BY DEF TablesTyped, SiteRow, Owner
  <1>2. QED
    BY <1>1 DEF CountsMatch, AllScoresAgree, AccountPets, RowsAgree

LEMMA SaveAgrees ==
    ASSUME FreshInv, PlanFits, CountsMatch, NEW w \in Workers, Save(w),
           NEW s \in Seasons, s = job[w].cand.season
    PROVE  RowsAgree(site'[s], account'[s])
  <1> DEFINE c == job[w].cand
  <1> DEFINE x == c.site
  <1> DEFINE p == plan[w]
  <1> DEFINE rows == site[s]
  <1> USE DEF FreshInv, TypeInv, TypeOK
  <1>1. /\ pc[w] = "save" /\ c \in Candidate /\ x \in Sites /\ c.pet \in Pets
        /\ rows \in [Sites -> SiteRow] /\ p.after \in SiteRow /\ rows[x] \in SiteRow
    <2>1. pc[w] = "save"
      BY DEF Save
    <2>2. c \in Candidate /\ x \in Sites /\ c.pet \in Pets /\ p.after \in SiteRow
      BY <2>1, SavedRows
    <2>3. rows \in [Sites -> SiteRow]
      BY DEF TablesTyped
    <2>4. QED
      BY <2>1, <2>2, <2>3
  <1>2. RowsAgree(rows, account[s])
    BY AgreeBySeason
  <1>3. CASE p.kind = "UNCHANGED"
    <2>1. site'[s] = rows /\ account'[s] = account[s]
      BY <1>3 DEF Save
    <2>2. QED
      BY <1>2, <2>1
  <1>4. CASE p.kind # "UNCHANGED"
    <2>1. /\ site'[s] = [rows EXCEPT ![x] = p.after]
          /\ account'[s] = SaveAccounts(s, p.accounts)
      BY <1>4 DEF Save, TablesTyped
    <2>2. snap[w] = rows[x] /\ FreshFor(w)
      BY <1>1 DEF SnapshotFresh, FreshFor
    <2>3. /\ p.after.owner # None /\ p.after.owner.pet = c.pet
          /\ \A q \in Pets :
               IF q \notin Affected(rows[x], c) THEN p.accounts[q] = None
               ELSE /\ p.accounts[q] \in Score
                    /\ p.accounts[q].current_count =
                         scores[w][q].current_count - Held(rows[x], q) + Held(p.after, q)
                    /\ p.accounts[q].scoring_count =
                         scores[w][q].scoring_count - HeldScoring(rows[x], q)
                                                    + HeldScoring(p.after, q)
      BY <1>1, <1>4, <2>2 DEF PlanFits
    <2>4. \A q \in Affected(rows[x], c) : CountsAgree(rows, q, scores[w][q])
      BY <2>2 DEF FreshFor
    <2>5. /\ c.pet \in Affected(rows[x], c)
          /\ \A q : q \notin Affected(rows[x], c) => Held(rows[x], q) = 0 /\ q # c.pet
          /\ \A q : q \notin Affected(rows[x], c) => HeldScoring(rows[x], q) = 0
      BY DEF Affected, Held, HeldScoring
    <2>6. \A q : q # c.pet => Held(p.after, q) = 0 /\ HeldScoring(p.after, q) = 0
      BY <2>3 DEF Held, HeldScoring
    <2>7. \A q \in Pets : account'[s][q] = IF p.accounts[q] = None THEN account[s][q]
                                           ELSE p.accounts[q]
      BY <2>1 DEF SaveAccounts
    <2>8. None \notin Score
      BY NoneAssumption
    <2> DEFINE changed == [rows EXCEPT ![x] = p.after]
    <2>9. ASSUME NEW y \in Sites, changed[y].owner # None
          PROVE  account'[s][changed[y].owner.pet] # None
      <3>1. CASE y = x
        <4>1. changed[y].owner.pet = c.pet
          BY <1>1, <2>3, <3>1
        <4>2. QED
          BY <1>1, <2>3, <2>5, <2>7, <2>8, <4>1, ZenonT(30)
      <3>2. CASE y # x
        <4>1. changed[y] = rows[y]
          BY <1>1, <3>2
        <4>2. account[s][rows[y].owner.pet] # None /\ rows[y].owner.pet \in Pets
          BY <1>1, <1>2, <2>9, <4>1 DEF RowsAgree, SiteRow, Owner
        <4>3. QED
          BY <2>7, <4>1, <4>2
      <3>3. QED
        BY <3>1, <3>2
    <2>10. ASSUME NEW q \in Pets, account'[s][q] # None
           PROVE  CountsAgree(changed, q, account'[s][q])
      <3>1. /\ Cardinality(OwnedSites(changed, q)) =
                 Cardinality(OwnedSites(rows, q)) - Held(rows[x], q) + Held(p.after, q)
            /\ Cardinality(ScoringSites(changed, q)) =
                 Cardinality(ScoringSites(rows, q)) - HeldScoring(rows[x], q)
                                                    + HeldScoring(p.after, q)
        BY <1>1, OneRowChanges
      <3> HIDE DEF changed, rows
      <3>2. CASE q \in Affected(rows[x], c)
        <4>1. account'[s][q] = p.accounts[q]
          BY <2>3, <2>7, <2>8, <3>2
        <4>2. /\ scores[w][q].current_count = Cardinality(OwnedSites(rows, q))
              /\ scores[w][q].scoring_count = Cardinality(ScoringSites(rows, q))
          BY <2>4, <3>2 DEF CountsAgree
        <4>3. QED
          BY <2>3, <3>1, <3>2, <4>1, <4>2 DEF CountsAgree
      <3>3. CASE q \notin Affected(rows[x], c)
        <4>1. account'[s][q] = account[s][q] /\ account[s][q] # None
          BY <2>3, <2>7, <2>10, <3>3
        <4>2. /\ account[s][q].current_count = Cardinality(OwnedSites(rows, q))
              /\ account[s][q].scoring_count = Cardinality(ScoringSites(rows, q))
          BY <1>2, <4>1 DEF RowsAgree, CountsAgree
        <4>3. /\ Held(rows[x], q) = 0 /\ Held(p.after, q) = 0
              /\ HeldScoring(rows[x], q) = 0 /\ HeldScoring(p.after, q) = 0
          BY <2>5, <2>6, <3>3
        <4>4. Cardinality(OwnedSites(rows, q)) \in Nat /\ Cardinality(ScoringSites(rows, q)) \in Nat
          BY SitesFinite, FS_CardinalityType
        <4>5. QED
          BY <3>1, <4>1, <4>2, <4>3, <4>4 DEF CountsAgree
      <3>4. QED
        BY <3>2, <3>3
    <2>11. QED
      BY <2>1, <2>9, <2>10 DEF RowsAgree
  <1>5. QED
    BY <1>3, <1>4

LEMMA FinalizeAgrees ==
    ASSUME TypeInv, ClosingFits, CountsMatch, NEW w \in Workers, Finalize(w),
           NEW s \in Seasons, s = job[w].season
    PROVE  RowsAgree(site'[s], account'[s])
  <1> DEFINE standings == plan[w]
  <1>1. /\ pc[w] = "close" /\ DOMAIN standings = AccountPets(s)
        /\ \A p \in DOMAIN standings : standings[p] \in Standing
    BY JobTyped DEF Finalize, ClosingFits, WorkerOK
  <1>2. /\ site'[s] = [x \in Sites |->
              IF site[s][x].owner = None THEN site[s][x]
              ELSE [version |-> site[s][x].version + 1, owner |-> None]]
        /\ account'[s] = [p \in Pets |-> IF p \in DOMAIN standings
                                           THEN Retired(standings[p].score) ELSE account[s][p]]
    BY DEF Finalize, TypeInv, TypeOK, TablesTyped
  <1>3. \A x \in Sites : site'[s][x].owner = None
    BY <1>2
  <1>4. \A p : OwnedSites(site'[s], p) = {} /\ ScoringSites(site'[s], p) = {}
    BY <1>3 DEF OwnedSites, ScoringSites
  <1>5. Cardinality({}) = 0
    BY FS_EmptySet
  <1>6. ASSUME NEW p \in Pets, account'[s][p] # None
        PROVE  CountsAgree(site'[s], p, account'[s][p])
    <2>1. p \in DOMAIN standings
      BY <1>1, <1>2, <1>6 DEF AccountPets
    <2>2. account'[s][p] = Retired(standings[p].score) /\ standings[p].score \in Score
      BY <1>1, <1>2, <2>1 DEF Standing
    <2>3. account'[s][p].current_count = 0 /\ account'[s][p].scoring_count = 0
      BY <2>2 DEF Retired, Score
    <2>4. QED
      BY <1>4, <1>5, <2>3 DEF CountsAgree
  <1>7. QED
    BY <1>3, <1>6 DEF RowsAgree

LEMMA InsertSeasonAgrees ==
    ASSUME TypeInv, NEW w \in Workers, InsertSeason(w),
           NEW s \in Seasons, s = job[w].season
    PROVE  RowsAgree(site'[s], account'[s])
  <1> DEFINE owners == job[w].owners
  <1> DEFINE rows == [x \in Sites |-> ImportRow(s, owners[x])]
  <1> DEFINE held(p) == {x \in Sites : owners[x] # None /\ owners[x].pet = p}
  <1> DEFINE scoring(p) == {x \in held(p) : Counted(owners[x].verified) = 1}
  <1>1. pc[w] = "insert_season" /\ WorkerOK(w)
    BY JobTyped DEF InsertSeason
  <1>2. \A x \in Sites : owners[x] \in Owner \union {None}
    BY <1>1, ImportsAssumption DEF WorkerOK, ImportedOwners
  <1>3. /\ site'[s] = rows
        /\ account'[s] = [p \in Pets |-> ImportAccount(s, owners, p)]
    BY DEF InsertSeason, TypeInv, TypeOK, TablesTyped
  <1>4. ASSUME NEW x \in Sites
        PROVE  /\ rows[x].owner # None <=> owners[x] # None
               /\ owners[x] # None => /\ owners[x] \in Owner
                                      /\ rows[x].owner.pet = owners[x].pet
                                      /\ rows[x].owner.verified = owners[x].verified
    <2>1. CASE owners[x] = None
      BY <2>1 DEF ImportRow, EmptySite
    <2>2. CASE owners[x] # None
      <3>1. owners[x] \in Owner
        BY <1>2, <2>2
      <3> DEFINE certified == IF owners[x].verified /\ owners[x].certified_ms = NoTime
                                THEN owners[x].occupied_ms ELSE owners[x].certified_ms
      <3> DEFINE started == [owners[x] EXCEPT !.occupied_ms = Starts[s],
                                              !.certified_ms = certified]
      <3>2. rows[x] = [version |-> 1, owner |-> started]
        BY <2>2, <3>1 DEF ImportRow, Owner
      <3>3. started.pet = owners[x].pet /\ started.verified = owners[x].verified
        BY <3>1 DEF Owner
      <3>4. started # None
        <4>1. ImportRow(s, owners[x]) \in SiteRow
          BY <3>1, ImportRowType
        <4>2. started \in Owner
          <5>1. certified \in Nat \union {NoTime} /\ Starts[s] \in Nat
            BY <3>1, WindowAssumption DEF Owner
          <5> HIDE DEF certified
          <5>2. QED
            BY <3>1, <5>1 DEF Owner
        <4>3. QED
          BY <4>2, NoneAssumption
      <3> HIDE DEF started
      <3>5. QED
        BY <2>2, <3>1, <3>2, <3>3, <3>4
    <2>3. QED
      BY <2>1, <2>2
  <1> HIDE DEF rows
  <1>5. \A p : held(p) = OwnedSites(rows, p)
    BY <1>4 DEF OwnedSites
  <1>6. \A p : scoring(p) = ScoringSites(rows, p)
    BY <1>4 DEF OwnedSites, ScoringSites
  <1>7. ASSUME NEW p \in Pets
        PROVE  ImportAccount(s, owners, p) =
                 IF held(p) = {} THEN None
                 ELSE [NewScore(Starts[s]) EXCEPT
                         !.current_count = Cardinality(held(p)),
                         !.scoring_count = Cardinality(scoring(p)),
                         !.peak = Cardinality(held(p))]
    BY DEF ImportAccount
  <1>8. ASSUME NEW p \in Pets, account'[s][p] # None
        PROVE  CountsAgree(rows, p, account'[s][p])
    <2>1. account'[s][p] = [NewScore(Starts[s]) EXCEPT
                              !.current_count = Cardinality(held(p)),
                              !.scoring_count = Cardinality(scoring(p)),
                              !.peak = Cardinality(held(p))]
      BY <1>3, <1>7, <1>8
    <2> HIDE DEF held, scoring
    <2>2. /\ account'[s][p].current_count = Cardinality(held(p))
          /\ account'[s][p].scoring_count = Cardinality(scoring(p))
      BY <2>1 DEF NewScore
    <2>3. QED
      BY <1>5, <1>6, <2>2 DEF CountsAgree
  <1>9. ASSUME NEW x \in Sites, rows[x].owner # None
        PROVE  account'[s][rows[x].owner.pet] # None
    <2>1. owners[x] \in Owner /\ rows[x].owner.pet = owners[x].pet /\ owners[x] # None
      BY <1>4, <1>9
    <2>2. PICK p \in Pets : p = owners[x].pet
      BY <2>1 DEF Owner
    <2>3. held(p) # {}
      BY <2>1, <2>2
    <2>4. account'[s][p] # None
      <3>1. ImportAccount(s, owners, p) \in Score
        <4> DEFINE n == Cardinality(held(p))
        <4> DEFINE k == Cardinality(scoring(p))
        <4>1. n \in Nat /\ k \in Nat
          <5>1. IsFiniteSet(held(p)) /\ IsFiniteSet(scoring(p))
            BY FiniteAssumption, FS_Subset
          <5>2. QED
            BY <5>1, FS_CardinalityType
        <4>2. Starts[s] \in Nat
          BY WindowAssumption
        <4>3. NewScore(Starts[s]) \in Score
          BY <4>2 DEF NewScore, Score
        <4>4. ImportAccount(s, owners, p) =
                [NewScore(Starts[s]) EXCEPT !.current_count = n, !.scoring_count = k,
                                            !.peak = n]
          BY <1>7, <2>3
        <4> HIDE DEF n, k
        <4>5. QED
          BY <4>1, <4>3, <4>4 DEF Score
      <3>2. QED
        BY <1>3, <3>1, NoneAssumption
    <2>5. QED
      BY <2>1, <2>2, <2>4
  <1>10. QED
    BY <1>3, <1>8, <1>9 DEF RowsAgree

LEMMA CountsNext ==
    ASSUME FreshInv, PlanFits, ClosingFits, CountsMatch, [Next]_vars PROVE CountsMatch'
  <1> USE DEF FreshInv
  <1>1. TablesTyped /\ TablesTyped'
    BY TypeNext DEF TypeInv, TypeOK
  <1>2. \A s \in Seasons : RowsAgree(site[s], account[s])
    BY <1>1, AgreeBySeason
  <1>3. (\A s \in Seasons : RowsAgree(site'[s], account'[s])) => CountsMatch'
    <2>1. \A s \in Seasons, x \in Sites :
            site'[s][x].owner # None => site'[s][x].owner.pet \in Pets
      BY <1>1 DEF TablesTyped, SiteRow, Owner
    <2>2. QED
      BY <2>1 DEF CountsMatch, AllScoresAgree, AccountPets, RowsAgree
  <1>4. SUFFICES ASSUME NEW s \in Seasons PROVE RowsAgree(site'[s], account'[s])
    BY <1>3
  <1>5. CASE UNCHANGED <<site[s], account[s]>>
    BY <1>2, <1>5
  <1>6. CASE Tick \/ SetBack \/ UNCHANGED vars
    BY <1>5, <1>6 DEF Tick, SetBack, vars, tables
  <1>7. ASSUME NEW w \in Workers, WorkerStep(w) PROVE RowsAgree(site'[s], account'[s])
    <2>1. CASE ~Writes(w) \/ Register(w)
      BY <1>5, <1>7, <2>1, ReadersLeaveTables DEF tables, Register
    <2>2. CASE Save(w)
      BY <1>5, <2>2, SaveAgrees, SaveRows DEF SeasonRows
    <2>3. CASE Finalize(w)
      BY <1>5, <2>3, FinalizeAgrees, FinalizeRows DEF SeasonRows
    <2>4. CASE InsertSeason(w)
      BY <1>5, <2>4, InsertSeasonAgrees, InsertSeasonRows DEF SeasonRows
    <2>5. QED
      BY <2>1, <2>2, <2>3, <2>4 DEF Writes
  <1>8. QED
    BY <1>6, <1>7 DEF Next

PolicyInv == FreshInv /\ PlanFits /\ ClosingFits /\ CountsMatch

LEMMA PolicyInit == Init => PolicyInv
  <1> SUFFICES ASSUME Init PROVE PolicyInv
    OBVIOUS
  <1>1. TypeInv
    BY TypeInit
  <1>2. LockHeld
    BY NullAssumption DEF Init, LockHeld, Holding
  <1>3. SnapshotFresh /\ PlanFits /\ ClosingFits
    BY DEF Init, SnapshotFresh, PlanFits, ClosingFits
  <1>4. CountsMatch
    BY DEF Init, CountsMatch, AllScoresAgree, AccountPets, EmptySite, NoScores
  <1>5. QED
    BY <1>1, <1>2, <1>3, <1>4 DEF PolicyInv, FreshInv

LEMMA PolicyNext == ASSUME PolicyInv, [Next]_vars PROVE PolicyInv'
  BY TypeNext, LockNext, FreshNext, FitsNext, ClosingNext, CountsNext DEF PolicyInv, FreshInv

LEMMA PolicyInvariant == Spec => []PolicyInv
  BY PolicyInit, PolicyNext, PTL DEF Spec

\* The counters a score is settled with always equal what the site rows say,
\* however many transactions race, crash and retry: score_state_inconsistent
\* can never be raised (lock_scores, all_scores).
THEOREM CountsAlwaysMatch == Spec => []CountsMatch
  <1>1. PolicyInv => CountsMatch
    BY DEF PolicyInv
  <1>2. QED
    BY <1>1, PolicyInvariant, PTL

------------------------------------------------------------------------------
\* The season's window

InWindowAt(s, e) ==
    eventTable[s][e] # None =>
      Starts[s] <= eventTable[s][e].at_ms /\ eventTable[s][e].at_ms < Ends[s]

EventsInWindow == \A s \in Seasons, e \in Events : InWindowAt(s, e)

\* What one step does to the events of every season and to a finalized one.
StaysClosed ==
    \A s \in Seasons :
      /\ status[s] = "FINALIZED" =>
           /\ status'[s] = "FINALIZED"
           /\ <<site[s], account[s], receipt[s], eventTable[s], result[s]>>' =
              <<site[s], account[s], receipt[s], eventTable[s], result[s]>>
      /\ \A e \in Events : eventTable'[s][e] # None =>
           Starts[s] <= eventTable'[s][e].at_ms /\ eventTable'[s][e].at_ms < Ends[s]

LEMMA SaveInWindow ==
    ASSUME TypeInv, PlanFits, EventsInWindow, NEW w \in Workers, Save(w)
    PROVE  EventsInWindow'
  <1> SUFFICES ASSUME NEW s \in Seasons, NEW e \in Events PROVE InWindowAt(s, e)'
    BY DEF EventsInWindow
  <1> DEFINE c == job[w].cand
  <1> DEFINE p == plan[w]
  <1>1. pc[w] = "save" /\ c.season \in Seasons /\ c.event \in Events
    BY JobTyped DEF Save
  <1>2. Starts[c.season] <= p.at_ms /\ p.at_ms < Ends[c.season]
    BY <1>1 DEF PlanFits
  <1>3. \/ eventTable'[s][e] = eventTable[s][e]
        \/ s = c.season /\ eventTable'[s][e].at_ms = p.at_ms
    <2>1. CASE p.kind = "UNCHANGED"
      BY <2>1 DEF Save
    <2>2. CASE p.kind # "UNCHANGED"
      <3>1. PICK entry : /\ entry.at_ms = p.at_ms
                         /\ eventTable' = [eventTable EXCEPT ![c.season][c.event] = entry]
        BY <2>2 DEF Save
      <3>2. QED
        BY <1>1, <3>1 DEF TypeInv, TypeOK, TablesTyped
    <2>3. QED
      BY <2>1, <2>2
  <1>4. QED
    BY <1>2, <1>3 DEF EventsInWindow, InWindowAt

LEMMA WindowNext ==
    ASSUME PolicyInv, EventsInWindow, [Next]_vars
    PROVE  EventsInWindow' /\ StaysClosed
  <1> USE DEF PolicyInv, FreshInv
  <1>1. EventsInWindow'
    <2>1. ASSUME UNCHANGED eventTable PROVE EventsInWindow'
      BY <2>1 DEF EventsInWindow, InWindowAt
    <2>2. CASE Tick \/ SetBack \/ UNCHANGED vars
      BY <2>1, <2>2 DEF Tick, SetBack, vars, tables
    <2>3. ASSUME NEW w \in Workers, WorkerStep(w) PROVE EventsInWindow'
      <3>1. CASE ~Writes(w)
        BY <2>1, <2>3, <3>1, ReadersLeaveTables DEF tables
      <3>2. CASE Register(w) \/ Finalize(w) \/ InsertSeason(w)
        BY <2>1, <3>2 DEF Register, Finalize, InsertSeason
      <3>3. CASE Save(w)
        BY <3>3, SaveInWindow
      <3>4. QED
        BY <3>1, <3>2, <3>3 DEF Writes
    <2>4. QED
      BY <2>2, <2>3 DEF Next
  <1>2. ASSUME NEW s \in Seasons, status[s] = "FINALIZED" PROVE UNCHANGED SeasonRows(s)
    <2>1. CASE Tick \/ SetBack \/ UNCHANGED vars
      BY <2>1 DEF Tick, SetBack, vars, tables, SeasonRows
    <2>2. ASSUME NEW w \in Workers, WorkerStep(w) PROVE UNCHANGED SeasonRows(s)
      <3>1. CASE ~Writes(w) \/ Register(w)
        BY <2>2, <3>1, ReadersLeaveTables DEF tables, SeasonRows, Register
      <3>2. CASE Save(w)
        <4>1. status[job[w].cand.season] = "ACTIVE"
          BY <3>2 DEF Save, CanSave
        <4>2. QED
          BY <1>2, <3>2, <4>1, SaveRows
      <3>3. CASE Finalize(w)
        <4>1. pc[w] = "close"
          BY <3>3 DEF Finalize
        <4>2. status[job[w].season] = "ACTIVE"
          BY <4>1 DEF ClosingFits
        <4>3. QED
          BY <1>2, <3>3, <4>2, FinalizeRows
      <3>4. CASE InsertSeason(w)
        <4>1. status[job[w].season] = "NONE"
          BY <3>4 DEF InsertSeason, CanInsert
        <4>2. QED
          BY <1>2, <3>4, <4>1, InsertSeasonRows
      <3>5. QED
        BY <3>1, <3>2, <3>3, <3>4 DEF Writes
    <2>3. QED
      BY <2>1, <2>2 DEF Next
  <1>3. QED
    BY <1>1, <1>2 DEF StaysClosed, SeasonRows, EventsInWindow, InWindowAt

\* No claim takes effect outside its season's window, and what a finalized
\* season shows never changes again, whatever was still running when it closed
\* (validate_context, finalize).
THEOREM ClosedForGood == Spec => SeasonStaysClosed
  <1>1. Init => EventsInWindow
    BY DEF Init, EventsInWindow, InWindowAt
  <1>2. PolicyInv /\ EventsInWindow /\ [Next]_vars => EventsInWindow' /\ [StaysClosed]_vars
    BY WindowNext
  <1>3. Spec => [][StaysClosed]_vars
    BY <1>1, <1>2, PolicyInvariant, PTL DEF Spec
  <1>4. QED
    BY <1>3 DEF SeasonStaysClosed, StaysClosed

------------------------------------------------------------------------------
\* The advisory lock

LEMMA EndTransactionAdvisory ==
    ASSUME TypeInv, AdvisoryHeld, NEW w \in Workers, EndTransaction(w)
    PROVE  AdvisoryHeld'
  <1> SUFFICES ASSUME NEW v \in Workers
               PROVE  (advisory = v <=> pc[v] \in {"check_season", "insert_season"})'
    BY DEF AdvisoryHeld
  <1>1. /\ advisory' = IF advisory = w THEN None ELSE advisory
        /\ pc'[w] = "idle"
        /\ v # w => pc'[v] = pc[v]
    BY DEF EndTransaction, TypeInv, TypeOK, TransactionsTyped
  <1>2. None \notin Workers
    BY NullAssumption
  <1>3. QED
    BY <1>1, <1>2 DEF AdvisoryHeld

LEMMA AdvisoryNext == ASSUME TypeInv, AdvisoryHeld, [Next]_vars PROVE AdvisoryHeld'
  <1> DEFINE inside == {"check_season", "insert_season"}
  <1>1. CASE Tick \/ SetBack \/ UNCHANGED vars
    BY <1>1 DEF Tick, SetBack, vars, work, AdvisoryHeld
  <1>2. ASSUME NEW w \in Workers, WorkerStep(w) PROVE AdvisoryHeld'
    <2>1. ASSUME UNCHANGED advisory, pc[w] \in inside <=> pc'[w] \in inside,
                 \A v \in Workers : v # w => pc'[v] = pc[v]
          PROVE  AdvisoryHeld'
      BY <2>1 DEF AdvisoryHeld
    <2>2. CASE Submit(w) \/ Admit(w) \/ Ask(w) \/ AskSeason(w)
      <3>1. /\ pc[w] = "idle" /\ pc'[w] \in {"lock_season", "advisory_lock"}
            /\ UNCHANGED advisory
            /\ \A v \in Workers : v # w => pc'[v] = pc[v]
        BY <2>2 DEF Submit, Admit, Ask, AskSeason, Start, TypeInv, TypeOK, TransactionsTyped
      <3>2. QED
        BY <2>1, <3>1
    <2>3. CASE LockSeason(w)
      <3>1. pc[w] = "lock_season" /\ pc'[w] \notin inside
        <4>1. pc[w] = "lock_season"
          BY <2>3 DEF LockSeason
        <4>2. job[w].op \in {"apply", "register", "finalize", "project"}
          BY <4>1, JobTyped DEF WorkerOK, Job
        <4>3. QED
          BY <2>3, <4>1, <4>2 DEF LockSeason, Goto, TypeInv, TypeOK, TransactionsTyped
      <3>2. UNCHANGED advisory /\ \A v \in Workers : v # w => pc'[v] = pc[v]
        BY <2>3 DEF LockSeason, Goto, TypeInv, TypeOK, TransactionsTyped
      <3>3. QED
        BY <2>1, <3>1, <3>2
    <2>4. CASE AdvisoryLock(w)
      <3>1. /\ advisory = None /\ advisory' = w /\ pc'[w] = "check_season"
            /\ \A v \in Workers : v # w => pc'[v] = pc[v]
        BY <2>4 DEF AdvisoryLock, Goto, TypeInv, TypeOK, TransactionsTyped
      <3>2. None \notin Workers
        BY NullAssumption
      <3>3. QED
        BY <3>1, <3>2 DEF AdvisoryHeld
    <2>5. CASE CheckSeason(w)
      <3>1. /\ UNCHANGED advisory /\ pc[w] = "check_season" /\ pc'[w] = "insert_season"
            /\ \A v \in Workers : v # w => pc'[v] = pc[v]
        BY <2>5 DEF CheckSeason, Goto, TypeInv, TypeOK, TransactionsTyped
      <3>2. QED
        BY <2>1, <3>1
    <2>6. CASE Load(w) \/ Decide(w) \/ PlanFinalization(w)
      <3>1. /\ pc[w] \in {"load", "decide", "settle"}
            /\ pc'[w] \in {"decide", "save", "close"}
            /\ UNCHANGED advisory
            /\ \A v \in Workers : v # w => pc'[v] = pc[v]
        BY <2>6 DEF Load, Decide, PlanFinalization, Goto, TypeInv, TypeOK, TransactionsTyped
      <3>2. QED
        BY <2>1, <3>1
    <2>7. CASE \/ UnknownSeason(w) \/ Replay(w) \/ LoadFails(w) \/ Refuse(w)
               \/ Save(w) \/ SaveFails(w) \/ Register(w) \/ RegisterFails(w)
               \/ FinalizeReturns(w) \/ Finalize(w) \/ Project(w)
               \/ SeasonTaken(w) \/ InsertSeason(w) \/ InsertFails(w) \/ Crash(w)
      <3>1. EndTransaction(w)
        BY <2>7 DEF UnknownSeason, Replay, LoadFails, Refuse, Save, SaveFails, Register,
                    RegisterFails, FinalizeReturns, Finalize, Project, SeasonTaken,
                    InsertSeason, InsertFails, Crash, Rollback
      <3>2. QED
        BY <3>1, EndTransactionAdvisory
    <2>8. QED
      BY <1>2, <2>2, <2>3, <2>4, <2>5, <2>6, <2>7 DEF WorkerStep, Progress
  <1>3. QED
    BY <1>1, <1>2 DEF Next

------------------------------------------------------------------------------
\* How the status of a season moves

\* A worker's step leaves the status of every season alone, or closes one that
\* was there, or opens the one its job names.
LEMMA StatusMoves ==
    ASSUME TypeInv, NEW w \in Workers, WorkerStep(w), NEW s \in Seasons
    PROVE  \/ status'[s] = status[s]
           \/ status[s] # "NONE" /\ status'[s] = "FINALIZED"
           \/ InsertSeason(w) /\ s = job[w].season
  <1>1. CASE ~Writes(w) \/ Register(w) \/ Save(w)
    BY <1>1, ReadersLeaveTables DEF tables, Register, Save
  <1>2. CASE Finalize(w)
    <2>1. pc[w] = "close" /\ status' = [status EXCEPT ![job[w].season] = "FINALIZED"]
      BY <1>2 DEF Finalize
    <2>2. status[job[w].season] # "NONE"
      BY <2>1, JobTyped DEF WorkerOK, Holding
    <2>3. QED
      BY <2>1, <2>2 DEF TypeInv, TypeOK, TablesTyped
  <1>3. CASE InsertSeason(w)
    BY <1>3 DEF InsertSeason, TypeInv, TypeOK, TablesTyped
  <1>4. QED
    BY <1>1, <1>2, <1>3 DEF Writes

\* Seasons that are only closed leave a free place free.
LEMMA StaysFree ==
    ASSUME NEW t \in Seasons, SeasonFree(t),
           \A s \in Seasons : \/ status'[s] = status[s]
                              \/ status[s] # "NONE" /\ status'[s] = "FINALIZED"
    PROVE  SeasonFree(t)'
  BY DEF SeasonFree

LEMMA ChecksNext ==
    ASSUME TypeInv, AdvisoryHeld, ChecksStand, [Next]_vars PROVE ChecksStand'
  <1> SUFFICES ASSUME NEW v \in Workers, pc'[v] = "insert_season"
               PROVE  SeasonFree(job[v].season)'
    BY DEF ChecksStand
  <1>1. CASE Tick \/ SetBack \/ UNCHANGED vars
    <2>1. UNCHANGED <<pc, job, status>>
      BY <1>1 DEF Tick, SetBack, vars, work, tables
    <2>2. QED
      BY <2>1 DEF ChecksStand, SeasonFree
  <1>2. ASSUME NEW w \in Workers, WorkerStep(w) PROVE SeasonFree(job[v].season)'
    <2>1. CASE v # w
      <3>1. Idle(v)
        BY <1>2, <2>1, OthersIdle
      <3>2. pc[v] = "insert_season" /\ job'[v] = job[v] /\ job[v].season \in Seasons
        BY <3>1, JobTyped DEF Idle
      <3>3. pc[w] # "insert_season"
        BY <2>1, <3>2 DEF AdvisoryHeld
      <3>4. ~InsertSeason(w)
        BY <3>3 DEF InsertSeason
      <3>5. SeasonFree(job[v].season)
        BY <3>2 DEF ChecksStand
      <3>6. PICK t \in Seasons : t = job[v].season
        BY <3>2
      <3>7. SeasonFree(t)'
        BY <1>2, <3>4, <3>5, <3>6, StatusMoves, StaysFree
      <3>8. QED
        BY <3>2, <3>6, <3>7
    <2>2. CASE v = w
      <3>1. CheckSeason(w)
        BY <1>2, <2>2, ArrivesBy
      <3>2. SeasonFree(job[w].season) /\ UNCHANGED <<status, job>>
        BY <3>1 DEF CheckSeason, tables
      <3>3. QED
        BY <2>2, <3>2 DEF SeasonFree
    <2>3. QED
      BY <2>1, <2>2
  <1>3. QED
    BY <1>1, <1>2 DEF Next

------------------------------------------------------------------------------
\* Sites and days

LEMMA DisjointNext ==
    ASSUME TypeInv, ChecksStand, ActiveSeasonsDisjoint, [Next]_vars
    PROVE  ActiveSeasonsDisjoint'
  <1>1. ASSUME \A s \in Seasons : \/ status'[s] = status[s]
                                  \/ status[s] # "NONE" /\ status'[s] = "FINALIZED"
        PROVE  ActiveSeasonsDisjoint'
    BY <1>1 DEF ActiveSeasonsDisjoint
  <1>2. CASE Tick \/ SetBack \/ UNCHANGED vars
    BY <1>1, <1>2 DEF Tick, SetBack, vars, tables
  <1>3. ASSUME NEW w \in Workers, WorkerStep(w) PROVE ActiveSeasonsDisjoint'
    <2>1. CASE ~InsertSeason(w)
      BY <1>1, <1>3, <2>1, StatusMoves
    <2>2. CASE InsertSeason(w)
      <3> DEFINE t == job[w].season
      <3>1. pc[w] = "insert_season" /\ status[t] = "NONE" /\ t \in Seasons
        BY <2>2, JobTyped DEF InsertSeason, CanInsert
      <3>2. SeasonFree(t)
        BY <3>1 DEF ChecksStand
      <3>3. \A s \in Seasons : status'[s] = IF s = t THEN "ACTIVE" ELSE status[s]
        BY <2>2 DEF InsertSeason, TypeInv, TypeOK, TablesTyped
      <3> HIDE DEF t
      <3>4. ASSUME NEW r \in Seasons, r # t, status[r] # "NONE"
            PROVE  /\ status[r] = "ACTIVE" => SeasonSites[r] \intersect SeasonSites[t] = {}
                   /\ Scope[r] = Scope[t] => Ends[r] <= Starts[t]
        <4>1. Starts[t] \in Nat /\ Ends[r] \in Nat
          BY <3>1, WindowAssumption
        <4>2. QED
          BY <3>2, <3>4, <4>1 DEF SeasonFree
      <3>5. SUFFICES ASSUME NEW r \in Seasons, NEW s \in Seasons, r # s,
                            status'[r] # "NONE", status'[s] # "NONE"
                     PROVE  /\ status'[r] = "ACTIVE" /\ status'[s] = "ACTIVE" =>
                                 SeasonSites[r] \intersect SeasonSites[s] = {}
                            /\ Scope[r] = Scope[s] => Ends[r] <= Starts[s] \/ Ends[s] <= Starts[r]
        BY DEF ActiveSeasonsDisjoint
      <3>6. CASE r = t
        BY <3>3, <3>4, <3>5, <3>6
      <3>7. CASE s = t
        BY <3>3, <3>4, <3>5, <3>7
      <3>8. CASE r # t /\ s # t
        BY <3>3, <3>5, <3>8 DEF ActiveSeasonsDisjoint
      <3>9. QED
        BY <3>6, <3>7, <3>8
    <2>3. QED
      BY <2>1, <2>2
  <1>4. QED
    BY <1>2, <1>3 DEF Next

------------------------------------------------------------------------------
\* Attempts

\* A row of the attempt table is never rewritten.
AttemptsGrow == \A a \in Attempts : attemptTable[a] # None => attemptTable'[a] = attemptTable[a]

LEMMA RegisteredOnce ==
    ASSUME TypeInv, NEW c \in Candidate, Registrable(c.attempt, AttemptOf(c)),
           attemptTable' = [attemptTable EXCEPT ![c.attempt] = AttemptOf(c)]
    PROVE  AttemptsGrow
  BY DEF AttemptsGrow, Registrable, TypeInv, TypeOK, TablesTyped

\* An import is put at the attempt its owner names, which names no other site.
LEMMA ImportedAttempts ==
    ASSUME TypeInv, NEW w \in Workers, InsertSeason(w), NEW a \in Attempts
    PROVE  LET s == job[w].season
               owners == job[w].owners
           IN  \/ attemptTable'[a] = attemptTable[a] /\ \A x \in Sites :
                    owners[x] # None => owners[x].attempt # a
               \/ \E x \in Sites : /\ owners[x] # None /\ owners[x].attempt = a
                                   /\ attemptTable'[a] = ImportAttempt(s, x, owners[x])
                                   /\ attemptTable[a] \in {None, attemptTable'[a]}
  <1> DEFINE s == job[w].season
  <1> DEFINE owners == job[w].owners
  <1> DEFINE imported == {x \in Sites : owners[x] # None}
  <1>1. attemptTable'[a] =
          IF \E x \in imported : owners[x].attempt = a
            THEN LET x == CHOOSE x \in imported : owners[x].attempt = a
                 IN  ImportAttempt(s, x, owners[x])
            ELSE attemptTable[a]
    BY DEF InsertSeason
  <1>2. CanInsert(s, owners)
    BY DEF InsertSeason
  <1>3. CASE \E x \in imported : owners[x].attempt = a
    <2> DEFINE y == CHOOSE x \in imported : owners[x].attempt = a
    <2>1. y \in imported /\ owners[y].attempt = a
      BY <1>3
    <2>2. attemptTable'[a] = ImportAttempt(s, y, owners[y])
      BY <1>1, <1>3
    <2> HIDE DEF y
    <2>3. attemptTable[a] \in {None, attemptTable'[a]}
      BY <1>2, <2>1, <2>2 DEF CanInsert, Registrable
    <2>4. QED
      BY <2>1, <2>2, <2>3
  <1>4. CASE ~ \E x \in imported : owners[x].attempt = a
    BY <1>1, <1>4
  <1>5. QED
    BY <1>3, <1>4

LEMMA AttemptsNext == ASSUME TypeInv, [Next]_vars PROVE AttemptsGrow
  <1>1. ASSUME UNCHANGED attemptTable PROVE AttemptsGrow
    BY <1>1 DEF AttemptsGrow
  <1>2. CASE Tick \/ SetBack \/ UNCHANGED vars
    BY <1>1, <1>2 DEF Tick, SetBack, vars, tables
  <1>3. ASSUME NEW w \in Workers, WorkerStep(w) PROVE AttemptsGrow
    <2>1. CASE ~Writes(w)
      BY <1>1, <1>3, <2>1, ReadersLeaveTables DEF tables
    <2>2. CASE Save(w)
      <3>1. pc[w] = "save" /\ job[w].cand \in Candidate
        BY <2>2, JobTyped DEF Save
      <3>2. QED
        BY <2>2, <3>1, RegisteredOnce DEF Save, CanSave
    <2>3. CASE Register(w)
      <3>1. pc[w] = "register" /\ job[w].cand \in Candidate
        BY <2>3, JobTyped DEF Register
      <3>2. QED
        BY <2>3, <3>1, RegisteredOnce DEF Register, CanRegister
    <2>4. CASE Finalize(w)
      BY <1>1, <2>4 DEF Finalize
    <2>5. CASE InsertSeason(w)
      BY <2>5, ImportedAttempts DEF AttemptsGrow
    <2>6. QED
      BY <2>1, <2>2, <2>3, <2>4, <2>5 DEF Writes
  <1>4. QED
    BY <1>2, <1>3 DEF Next

\* The attempt of a receipt is that of the claim it answers.
AttemptOfReceipt(s, e) ==
    receipt[s][e] # None =>
      attemptTable[receipt[s][e].cand.attempt] = AttemptOf(receipt[s][e].cand)

AttemptOfOpening(s, x) ==
    opening[s][x] # None =>
      attemptTable[opening[s][x].attempt] = ImportAttempt(s, x, opening[s][x])

\* What is on record stays so while rows are only added to the attempts.
LEMMA ReceiptKept ==
    ASSUME TypeInv, AttemptsGrow, NEW s \in Seasons, NEW e \in Events,
           receipt'[s][e] = receipt[s][e], AttemptOfReceipt(s, e)
    PROVE  AttemptOfReceipt(s, e)'
  <1> SUFFICES ASSUME receipt[s][e] # None
               PROVE  attemptTable'[receipt[s][e].cand.attempt] = AttemptOf(receipt[s][e].cand)
    BY DEF AttemptOfReceipt
  <1>1. receipt[s][e].cand \in Candidate
    BY DEF TypeInv, TypeOK, TablesTyped, Receipt
  <1>2. /\ receipt[s][e].cand.attempt \in Attempts
        /\ AttemptOf(receipt[s][e].cand) \in AttemptRow
    BY <1>1 DEF Candidate, AttemptOf, AttemptRow
  <1>3. AttemptOf(receipt[s][e].cand) # None
    BY <1>2, NullAssumption
  <1>4. QED
    BY <1>2, <1>3 DEF AttemptOfReceipt, AttemptsGrow

LEMMA OpeningKept ==
    ASSUME TypeInv, AttemptsGrow, NEW s \in Seasons, NEW x \in Sites,
           opening'[s][x] = opening[s][x], AttemptOfOpening(s, x)
    PROVE  AttemptOfOpening(s, x)'
  <1> SUFFICES ASSUME opening[s][x] # None
               PROVE  attemptTable'[opening[s][x].attempt] = ImportAttempt(s, x, opening[s][x])
    BY DEF AttemptOfOpening
  <1>1. opening[s][x] \in Owner
    BY DEF TypeInv, TypeOK, TablesTyped
  <1>2. opening[s][x].attempt \in Attempts /\ ImportAttempt(s, x, opening[s][x]) \in AttemptRow
    BY <1>1 DEF Owner, ImportAttempt, AttemptRow
  <1>3. ImportAttempt(s, x, opening[s][x]) # None
    BY <1>2, NullAssumption
  <1>4. QED
    BY <1>2, <1>3 DEF AttemptOfOpening, AttemptsGrow

\* An opening owner is the imported one with its clock moved to the season's start.
LEMMA ImportedOwner ==
    ASSUME NEW s \in Seasons, NEW owner \in Owner, owner # None
    PROVE  /\ ImportRow(s, owner).owner.attempt = owner.attempt
           /\ ImportRow(s, owner).owner.pet = owner.pet
           /\ ImportRow(s, owner).owner.session = owner.session
  <1> DEFINE certified == IF owner.verified /\ owner.certified_ms = NoTime
                            THEN owner.occupied_ms ELSE owner.certified_ms
  <1> DEFINE started == [owner EXCEPT !.occupied_ms = Starts[s], !.certified_ms = certified]
  <1>1. ImportRow(s, owner) = [version |-> 1, owner |-> started]
    BY DEF ImportRow, Owner
  <1> HIDE DEF certified
  <1>2. /\ started.attempt = owner.attempt /\ started.pet = owner.pet
        /\ started.session = owner.session
    BY DEF Owner
  <1> HIDE DEF started
  <1>3. QED
    BY <1>1, <1>2

LEMMA IdentityNext ==
    ASSUME TypeInv, AttemptsKeepIdentity, [Next]_vars
    PROVE  AttemptsKeepIdentity'
  <1>1. AttemptsGrow
    BY AttemptsNext
  <1>2. /\ \A s \in Seasons, e \in Events : AttemptOfReceipt(s, e)
        /\ \A s \in Seasons, x \in Sites : AttemptOfOpening(s, x)
    BY DEF AttemptsKeepIdentity, AttemptOfReceipt, AttemptOfOpening
  <1>3. ASSUME NEW s \in Seasons, NEW e \in Events PROVE AttemptOfReceipt(s, e)'
    <2>1. CASE receipt'[s][e] = receipt[s][e]
      BY <1>1, <1>2, <2>1, ReceiptKept
    <2>2. ASSUME NEW w \in Workers, Save(w), receipt'[s][e] # receipt[s][e]
          PROVE  AttemptOfReceipt(s, e)'
      <3> DEFINE c == job[w].cand
      <3>1. pc[w] = "save" /\ c.season \in Seasons /\ c.event \in Events /\ c.attempt \in Attempts
        BY <2>2, JobTyped DEF Save
      <3>2. PICK r : /\ r.cand = c
                     /\ receipt' = [receipt EXCEPT ![c.season][c.event] = r]
        BY <2>2 DEF Save, ReceiptOf
      <3>3. receipt'[s][e] = r
        BY <2>2, <3>1, <3>2 DEF TypeInv, TypeOK, TablesTyped
      <3>4. attemptTable'[c.attempt] = AttemptOf(c)
        BY <2>2, <3>1 DEF Save, TypeInv, TypeOK, TablesTyped
      <3>5. QED
        BY <3>2, <3>3, <3>4 DEF AttemptOfReceipt, AttemptOf
    <2>3. CASE Tick \/ SetBack \/ UNCHANGED vars
      <3>1. UNCHANGED receipt
        BY <2>3 DEF Tick, SetBack, vars, tables
      <3>2. QED
        BY <2>1, <3>1
    <2>4. ASSUME NEW w \in Workers, WorkerStep(w), ~Save(w) PROVE UNCHANGED receipt
      BY <2>4, ReadersLeaveTables DEF Writes, tables, Register, Finalize, InsertSeason
    <2>5. QED
      BY <2>1, <2>2, <2>3, <2>4 DEF Next
  <1>4. ASSUME NEW s \in Seasons, NEW x \in Sites PROVE AttemptOfOpening(s, x)'
    <2>1. CASE opening'[s][x] = opening[s][x]
      BY <1>1, <1>2, <2>1, OpeningKept
    <2>2. ASSUME NEW w \in Workers, InsertSeason(w), opening'[s][x] # opening[s][x]
          PROVE  AttemptOfOpening(s, x)'
      <3> DEFINE owners == job[w].owners
      <3>1. s = job[w].season /\ opening'[s][x] = ImportRow(s, owners[x]).owner
        BY <2>2 DEF InsertSeason, TypeInv, TypeOK, TablesTyped
      <3>2. owners \in ImportedOwners
        <4>1. pc[w] = "insert_season"
          BY <2>2 DEF InsertSeason
        <4>2. owners \in Imports[job[w].season] /\ job[w].season \in Seasons
          BY <4>1, JobTyped DEF WorkerOK
        <4>3. QED
          BY <4>2, ImportsAssumption
      <3>3. owners[x] \in Owner \union {None}
        BY <3>2 DEF ImportedOwners
      <3>4. CASE owners[x] = None
        BY <3>1, <3>4 DEF AttemptOfOpening, ImportRow, EmptySite
      <3>5. CASE owners[x] # None
        <4> DEFINE o == opening'[s][x]
        <4>1. /\ o.attempt = owners[x].attempt /\ o.pet = owners[x].pet
              /\ o.session = owners[x].session
          BY <3>1, <3>3, <3>5, ImportedOwner
        <4>2. owners[x].attempt \in Attempts
          BY <3>3, <3>5 DEF Owner
        <4>3. PICK y \in Sites : /\ owners[y] # None /\ owners[y].attempt = owners[x].attempt
                                 /\ attemptTable'[owners[x].attempt] = ImportAttempt(s, y, owners[y])
          BY <2>2, <3>1, <3>5, <4>2, ImportedAttempts
        <4>4. y = x
          BY <2>2, <3>5, <4>3 DEF InsertSeason, CanInsert
        <4>5. QED
          BY <4>1, <4>3, <4>4 DEF AttemptOfOpening, ImportAttempt
      <3>6. QED
        BY <3>4, <3>5
    <2>3. CASE Tick \/ SetBack \/ UNCHANGED vars
      <3>1. UNCHANGED opening
        BY <2>3 DEF Tick, SetBack, vars, tables
      <3>2. QED
        BY <2>1, <3>1
    <2>4. ASSUME NEW w \in Workers, WorkerStep(w), ~InsertSeason(w) PROVE UNCHANGED opening
      BY <2>4, ReadersLeaveTables DEF Writes, tables, Register, Finalize, Save
    <2>5. QED
      BY <2>1, <2>2, <2>3, <2>4 DEF Next
  <1>5. QED
    BY <1>3, <1>4 DEF AttemptsKeepIdentity, AttemptOfReceipt, AttemptOfOpening

------------------------------------------------------------------------------
\* The theorem

SeasonInv == TypeInv /\ AdvisoryHeld /\ ChecksStand /\ SeasonsStayApart

\* However seasons are created, imported and closed side by side, active ones
\* share no site, those of a scope share no day, and an attempt belongs to the
\* one it was first met in (create_season, register_attempt).
THEOREM SeasonsApart == Spec => []SeasonsStayApart
  <1>1. Init => SeasonInv
    <2> SUFFICES ASSUME Init PROVE SeasonInv
      OBVIOUS
    <2>1. AdvisoryHeld
      BY NullAssumption DEF Init, AdvisoryHeld
    <2>2. ChecksStand /\ ActiveSeasonsDisjoint /\ AttemptsKeepIdentity
      BY DEF Init, ChecksStand, ActiveSeasonsDisjoint, AttemptsKeepIdentity
    <2>3. QED
      BY <2>1, <2>2, TypeInit DEF SeasonInv, SeasonsStayApart
  <1>2. SeasonInv /\ [Next]_vars => SeasonInv'
    BY TypeNext, AdvisoryNext, ChecksNext, DisjointNext, IdentityNext
       DEF SeasonInv, SeasonsStayApart
  <1>3. SeasonInv => SeasonsStayApart
    BY DEF SeasonInv
  <1>4. QED
    BY <1>1, <1>2, <1>3, PTL DEF Spec
==============================================================================
