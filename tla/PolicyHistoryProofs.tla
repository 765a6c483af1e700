-------------------------- MODULE PolicyHistoryProofs --------------------------
(***************************************************************************)
(* What the policy service does in time, for every number of workers,      *)
(* sites, pets, seasons and candidates.                                    *)
(*                                                                         *)
(* First the table of committed plans: each site's plans form one chain in *)
(* time, nobody displaces an owner inside its protection, a day's bonus is *)
(* paid once, and a season past its end can be settled.  The argument: a   *)
(* waiting plan was made from the row that is still there (PlanMade with   *)
(* SnapshotFresh), the row is the last of its chain, and the owner's       *)
(* account was settled when that row was written (Reached), so the wall    *)
(* clock cannot take a plan behind it.                                     *)
(*                                                                         *)
(* Then that the concurrent service implements the atomic ledger: a plan   *)
(* fits the atomic step it stands for from the moment it is made           *)
(* (PlanPays), so the one committing step of a claim is Take, Certify or   *)
(* Keep, inserting a season is Open, finalizing it is Close, and every     *)
(* other step is invisible to the ledger.                                  *)
(*                                                                         *)
(* Last that every score is what the table of plans proves.  A sum is the  *)
(* number of its units (SumIsCount), so a history one instant longer adds  *)
(* what is held at that instant; between two settlements a pet holds what  *)
(* it holds now (StillHolds), so settling by the elapsed time adds the     *)
(* same (Accrued).  Tallies and points grow with the plans and receipts    *)
(* they count (Tallied), and a closed season's standings settle exactly    *)
(* the accounts it had (Ranked).                                           *)
(***************************************************************************)
EXTENDS PolicySafetyProofs, WellFoundedInduction

------------------------------------------------------------------------------
\* What is known of a plan that waits to be written

\* The accounts a plan writes are settled at its own time.
DatedFor(v) ==
    LET c == job[v].cand
        p == plan[v]
    IN  \A q \in Pets : q \in Affected(snap[v], c) =>
          /\ p.accounts[q] \in Score
          /\ p.accounts[q].last_ms = p.at_ms
          /\ p.accounts[q].current_count <= p.accounts[q].peak
          /\ scores[v][q].last_ms <= p.at_ms

MadeFor(v) ==
    LET c == job[v].cand
        row == snap[v]
        p == plan[v]
    IN  /\ p.at_ms \in Nat
        /\ p.kind = PlanKind(row, c)
        /\ p.after = PlanSite(row, c, p.at_ms)
        /\ p.bonus > 0 => p.key = BonusKey(c, p.at_ms)
        /\ ContextValid("ACTIVE", row, c, p.at_ms)
        /\ p.kind # "UNCHANGED" => DatedFor(v)

PlanMade == \A w \in Workers : pc[w] = "save" => MadeFor(w)

\* Settling, giving up and taking a site keep the count below the peak.
LEMMA PlanAccountPeak ==
    ASSUME NEW row \in SiteRow, NEW c \in Candidate, NEW score \in Score, NEW p \in Pets,
           NEW at \in Nat, NEW paid, at >= score.last_ms, score.current_count <= score.peak,
           row.owner # None /\ row.owner.pet = p =>
             score.current_count >= 1 /\ score.scoring_count >= Counted(row.owner.verified)
    PROVE  LET after == PlanAccount(row, c, score, p, at, paid)
           IN  after.last_ms = at /\ after.current_count <= after.peak
  <1> DEFINE settled == Settle(score, at)
  <1> DEFINE released == IF row.owner # None /\ row.owner.pet = p
                           THEN Release(settled, row.owner.verified) ELSE settled
  <1> DEFINE acquired == IF p = c.pet THEN Acquire(released, Verified(c)) ELSE released
  <1>1. /\ settled \in Score /\ settled.last_ms = at
        /\ settled.current_count = score.current_count
        /\ settled.scoring_count = score.scoring_count
        /\ settled.peak = score.peak
    BY SettleType
  <1> HIDE DEF settled
  <1>2. /\ released \in Score /\ released.last_ms = at
        /\ released.current_count <= released.peak
    <2>1. CASE row.owner # None /\ row.owner.pet = p
      <3>1. /\ released.current_count = score.current_count - 1
            /\ released.peak = score.peak /\ released.last_ms = at /\ released \in Score
        BY <1>1, <2>1, ReleaseType
      <3>2. score.current_count \in Nat /\ score.peak \in Nat
        BY DEF Score
      <3>3. QED
        BY <3>1, <3>2
    <2>2. CASE ~(row.owner # None /\ row.owner.pet = p)
      BY <1>1, <2>2
    <2>3. QED
      BY <2>1, <2>2
  <1> HIDE DEF released
  <1>3. /\ acquired \in Score /\ acquired.last_ms = at
        /\ acquired.current_count <= acquired.peak
    <2>1. CASE p = c.pet
      <3>1. /\ acquired \in Score /\ acquired.last_ms = at
            /\ acquired.current_count = released.current_count + 1
        BY <1>2, <2>1, AcquireType
      <3>2. acquired.peak = IF released.current_count + 1 > released.peak
                              THEN released.current_count + 1 ELSE released.peak
        BY <1>2, <2>1 DEF Acquire, Score
      <3>3. released.current_count \in Nat /\ released.peak \in Nat
        BY <1>2 DEF Score
      <3>4. QED
        BY <3>1, <3>2, <3>3
    <2>2. CASE p # c.pet
      BY <1>2, <2>2
    <2>3. QED
      BY <2>1, <2>2
  <1> HIDE DEF acquired
  <1> DEFINE rewarded == Reward(acquired, PlanBonus(row, c, paid), row.owner # None)
  <1>4. /\ rewarded.last_ms = at /\ rewarded.current_count <= rewarded.peak
    <2>1. /\ rewarded.last_ms = acquired.last_ms
          /\ rewarded.current_count = acquired.current_count
      BY <1>3, RewardType, PlanBonusNat
    <2>2. rewarded.peak = acquired.peak
      BY <1>3 DEF Reward, Score
    <2>3. QED
      BY <1>3, <2>1, <2>2
  <1> HIDE DEF rewarded
  <1>5. PlanAccount(row, c, score, p, at, paid) =
          IF p = c.pet /\ ~SamePet(row, c) THEN rewarded ELSE acquired
    BY DEF PlanAccount, rewarded, acquired, released, settled
  <1>6. QED
    BY <1>3, <1>4, <1>5

LEMMA DecideMade == ASSUME TypeInv, NEW w \in Workers, Decide(w) PROVE MadeFor(w)'
  <1> DEFINE c == job[w].cand
  <1> DEFINE row == snap[w]
  <1> DEFINE paid == BonusPaid(c, clock)
  <1> DEFINE accounts == [q \in Pets |->
               IF q \in Affected(row, c) /\ ~Unchanged(row, c)
                 THEN PlanAccount(row, c, scores[w][q], q, clock, paid) ELSE None]
  <1>1. /\ WorkerOK(w) /\ pc[w] = "decide" /\ c \in Candidate
        /\ row \in SiteRow /\ clock \in Nat
        /\ \A q \in Affected(row, c) : scores[w][q] \in Score
    BY JobTyped DEF Decide, TypeInv, TypeOK, TransactionsTyped, WorkerOK
  <1>2. plan'[w] = [at_ms |-> clock, after |-> PlanSite(row, c, clock),
                    accounts |-> accounts, bonus |-> PlanBonus(row, c, paid),
                    key |-> PlanKey(row, c, clock, paid), kind |-> PlanKind(row, c)]
    BY DEF Decide, TypeInv, TypeOK, TransactionsTyped
  <1>3. /\ plan'[w].at_ms = clock /\ plan'[w].after = PlanSite(row, c, clock)
        /\ plan'[w].accounts = accounts /\ plan'[w].kind = PlanKind(row, c)
        /\ plan'[w].bonus = PlanBonus(row, c, paid)
        /\ plan'[w].key = PlanKey(row, c, clock, paid)
    BY <1>2
  <1>4. UNCHANGED <<job, snap, scores>>
    BY DEF Decide
  <1>5. ContextValid("ACTIVE", row, c, clock)
    BY DEF Decide, Admissible, ContextValid, InWindow
  <1>6. PlanBonus(row, c, paid) > 0 => PlanKey(row, c, clock, paid) = BonusKey(c, clock)
    BY DEF PlanBonus, PlanKey
  <1>7. ASSUME ~Unchanged(row, c), NEW q \in Pets, q \in Affected(row, c)
        PROVE  /\ accounts[q] \in Score
               /\ accounts[q].last_ms = clock
               /\ accounts[q].current_count <= accounts[q].peak
               /\ scores[w][q].last_ms <= clock
    <2>1. ScoresValid(row, c, scores[w], clock)
      BY <1>7 DEF Decide, Admissible
    <2>2. scores[w][q] \in Score
      BY <1>1, <1>7
    <2>3. clock >= scores[w][q].last_ms /\ scores[w][q].current_count <= scores[w][q].peak
      BY <1>7, <2>1 DEF ScoresValid, Settleable
    <2>4. row.owner # None /\ row.owner.pet = q =>
            /\ scores[w][q].current_count >= 1
            /\ scores[w][q].scoring_count >= Counted(row.owner.verified)
      BY <2>1 DEF ScoresValid
    <2>5. accounts[q] = PlanAccount(row, c, scores[w][q], q, clock, paid)
      BY <1>7
    <2> HIDE DEF accounts
    <2>6. accounts[q] \in Score
      BY <1>1, <2>2, <2>3, <2>4, <2>5, PlanAccountType
    <2>7. accounts[q].last_ms = clock /\ accounts[q].current_count <= accounts[q].peak
      BY <1>1, <2>2, <2>3, <2>4, <2>5, PlanAccountPeak
    <2>8. scores[w][q].last_ms \in Nat
      BY <2>2 DEF Score
    <2>9. QED
      BY <1>1, <2>3, <2>6, <2>7, <2>8
  <1>8. PlanKind(row, c) # "UNCHANGED" => ~Unchanged(row, c)
    BY DEF PlanKind
  <1> HIDE DEF accounts
  <1>9. plan'[w].kind # "UNCHANGED" => DatedFor(w)'
    BY <1>3, <1>4, <1>7, <1>8 DEF DatedFor
  <1>10. QED
    BY <1>1, <1>3, <1>4, <1>5, <1>6, <1>9 DEF MadeFor

LEMMA MadeNext == ASSUME TypeInv, PlanMade, [Next]_vars PROVE PlanMade'
  <1> SUFFICES ASSUME NEW v \in Workers, pc'[v] = "save" PROVE MadeFor(v)'
    BY DEF PlanMade
  <1>1. pc[v] = "save" => MadeFor(v)
    BY DEF PlanMade
  <1>2. CASE Tick \/ SetBack \/ UNCHANGED vars
    <2>1. UNCHANGED <<pc, job, snap, scores, plan>>
      BY <1>2 DEF Tick, SetBack, vars, work
    <2>2. QED
      BY <1>1, <2>1 DEF MadeFor, DatedFor
  <1>3. ASSUME NEW w \in Workers, WorkerStep(w) PROVE MadeFor(v)'
    <2>1. CASE v = w
      BY <1>3, <2>1, ArrivesBy, DecideMade
    <2>2. CASE v # w
      <3>1. Idle(v)
        BY <1>3, <2>2, OthersIdle
      <3>2. QED
        BY <1>1, <3>1 DEF MadeFor, DatedFor, Idle
    <2>3. QED
      BY <2>1, <2>2
  <1>4. QED
    BY <1>2, <1>3 DEF Next

------------------------------------------------------------------------------
\* The table of events grows by one plan at a time

\* The event a saving transaction writes.
EntryOf(w) ==
    [cand |-> job[w].cand, at_ms |-> plan[w].at_ms, before |-> snap[w],
     after |-> plan[w].after, bonus |-> plan[w].bonus, kind |-> plan[w].kind]

Moves(w) == Save(w) /\ plan[w].kind # "UNCHANGED"

\* An event is filed under its own season and identity.
Filed(s, e) ==
    LET n == eventTable[s][e]
    IN  n # None => n \in Entry /\ n.cand.season = s /\ n.cand.event = e

EventsFiled == \A s \in Seasons, e \in Events : Filed(s, e)

\* What a save writes to the accounts of its season.
LEMMA AccountsSaved ==
    ASSUME TypeInv, NEW w \in Workers, Save(w), plan[w].kind # "UNCHANGED",
           job[w].cand.season \in Seasons, NEW q \in Pets
    PROVE  LET s == job[w].cand.season
           IN  account'[s][q] = IF plan[w].accounts[q] = None THEN account[s][q]
                                ELSE plan[w].accounts[q]
  <1> DEFINE s == job[w].cand.season
  <1> DEFINE new == plan[w].accounts
  <1>1. account' = [account EXCEPT ![s] = SaveAccounts(s, new)]
    BY DEF Save
  <1>2. s \in DOMAIN account
    BY DEF TypeInv, TypeOK, TablesTyped
  <1>3. SaveAccounts(s, new)[q] = IF new[q] = None THEN account[s][q] ELSE new[q]
    BY DEF SaveAccounts
  <1> HIDE DEF s, new
  <1>4. account'[s] = SaveAccounts(s, new)
    BY <1>1, <1>2
  <1>5. QED
    BY <1>3, <1>4 DEF s, new

LEMMA MoveFacts ==
    ASSUME PolicyInv, PlanMade, NEW w \in Workers, Moves(w)
    PROVE  LET c == job[w].cand
               n == EntryOf(w)
           IN  /\ pc[w] = "save" /\ c \in Candidate /\ MadeFor(w) /\ DatedFor(w)
               /\ c.season \in Seasons /\ c.event \in Events /\ c.site \in Sites
               /\ c.pet \in Pets
               /\ n \in Entry /\ n # None
               /\ n.cand = c /\ n.at_ms = plan[w].at_ms /\ n.before = snap[w]
               /\ n.after = plan[w].after /\ n.bonus = plan[w].bonus /\ n.kind = plan[w].kind
               /\ snap[w] = site[c.season][c.site] /\ snap[w] \in SiteRow
               /\ plan[w].after \in SiteRow
               /\ status[c.season] = "ACTIVE"
               /\ eventTable[c.season][c.event] = None
               /\ eventTable' = [eventTable EXCEPT ![c.season][c.event] = n]
               /\ site' = [site EXCEPT ![c.season][c.site] = plan[w].after]
  <1> DEFINE c == job[w].cand
  <1> USE DEF PolicyInv, FreshInv
  <1>1. pc[w] = "save" /\ MadeFor(w) /\ plan[w].kind # "UNCHANGED"
    BY DEF Moves, Save, PlanMade
  <1>2. DatedFor(w)
    BY <1>1 DEF MadeFor
  <1>3. /\ c \in Candidate
        /\ c.season \in Seasons /\ c.event \in Events /\ c.site \in Sites /\ c.pet \in Pets
        /\ snap[w] \in SiteRow /\ plan[w].after \in SiteRow /\ EntryOf(w) \in Entry
    BY <1>1, SavedRows DEF EntryOf
  <1>4. snap[w] = site[c.season][c.site]
    BY <1>1 DEF SnapshotFresh
  <1>5. status[c.season] = "ACTIVE" /\ eventTable[c.season][c.event] = None
    BY <1>1 DEF Moves, Save, CanSave
  <1>6. /\ eventTable' = [eventTable EXCEPT ![c.season][c.event] = EntryOf(w)]
        /\ site' = [site EXCEPT ![c.season][c.site] = plan[w].after]
    BY <1>1 DEF Moves, Save, EntryOf
  <1>7. EntryOf(w) # None
    BY <1>3, NullAssumption
  <1>8. QED
    BY <1>1, <1>2, <1>3, <1>4, <1>5, <1>6, <1>7 DEF EntryOf

\* The other steps leave the events and the granted days as they are.
LEMMA EventsStay ==
    ASSUME NEW w \in Workers, WorkerStep(w), ~Moves(w)
    PROVE  UNCHANGED <<eventTable, bonusTable>>
  <1>1. CASE ~Writes(w)
    BY <1>1, ReadersLeaveTables DEF tables
  <1>2. CASE Register(w) \/ Finalize(w) \/ InsertSeason(w)
    BY <1>2 DEF Register, Finalize, InsertSeason
  <1>3. CASE Save(w)
    BY <1>3 DEF Save, Moves
  <1>4. QED
    BY <1>1, <1>2, <1>3 DEF Writes

LEMMA LedgerGrows ==
    ASSUME PolicyInv, PlanMade, NEW w \in Workers, Moves(w), NEW s \in Seasons
    PROVE  Ledger(s)' = IF s = job[w].cand.season THEN Ledger(s) \union {EntryOf(w)}
                        ELSE Ledger(s)
  <1> DEFINE c == job[w].cand
  <1> DEFINE n == EntryOf(w)
  <1>1. /\ c.season \in Seasons /\ c.event \in Events /\ n # None
        /\ eventTable[c.season][c.event] = None
        /\ eventTable' = [eventTable EXCEPT ![c.season][c.event] = n]
    BY MoveFacts
  <1>2. eventTable \in [Seasons -> [Events -> Entry \union {None}]]
    BY DEF PolicyInv, FreshInv, TypeInv, TypeOK, TablesTyped
  <1> HIDE DEF n
  <1>3. \A e \in Events : eventTable'[s][e] = IF s = c.season /\ e = c.event THEN n
                                               ELSE eventTable[s][e]
    BY <1>1, <1>2
  <1>4. CASE s # c.season
    BY <1>3, <1>4 DEF Ledger
  <1>5. CASE s = c.season
    <2>1. \A m : m \in Ledger(s)' <=> m \in Ledger(s) \union {n}
      BY <1>1, <1>3, <1>5 DEF Ledger
    <2>2. QED
      BY <1>5, <2>1 DEF n
  <1>6. QED
    BY <1>4, <1>5

LEMMA EntriesGrow ==
    ASSUME PolicyInv, PlanMade, NEW w \in Workers, Moves(w), NEW s \in Seasons, NEW x \in Sites
    PROVE  LET c == job[w].cand
           IN  EntriesAt(s, x)' = IF s = c.season /\ x = c.site
                                    THEN EntriesAt(s, x) \union {EntryOf(w)}
                                    ELSE EntriesAt(s, x)
  <1> DEFINE c == job[w].cand
  <1> DEFINE n == EntryOf(w)
  <1>1. n.cand = c
    BY MoveFacts
  <1>2. EntriesAt(s, x)' = {m \in Ledger(s)' : m.cand.site = x}
    BY DEF EntriesAt
  <1>3. Ledger(s)' = IF s = c.season THEN Ledger(s) \union {n} ELSE Ledger(s)
    BY LedgerGrows
  <1> HIDE DEF n
  <1>4. QED
    BY <1>1, <1>2, <1>3 DEF EntriesAt, n

LEMMA FiledNext ==
    ASSUME PolicyInv, PlanMade, EventsFiled, [Next]_vars PROVE EventsFiled'
  <1>1. CASE UNCHANGED eventTable
    BY <1>1 DEF EventsFiled, Filed
  <1>2. CASE Tick \/ SetBack \/ UNCHANGED vars
    BY <1>1, <1>2 DEF Tick, SetBack, vars, tables
  <1>3. ASSUME NEW w \in Workers, WorkerStep(w) PROVE EventsFiled'
    <2>1. CASE ~Moves(w)
      BY <1>1, <1>3, <2>1, EventsStay
    <2>2. CASE Moves(w)
      <3> DEFINE c == job[w].cand
      <3> DEFINE n == EntryOf(w)
      <3>1. /\ c.season \in Seasons /\ c.event \in Events /\ n \in Entry /\ n.cand = c
            /\ eventTable' = [eventTable EXCEPT ![c.season][c.event] = n]
        BY <2>2, MoveFacts
      <3>2. eventTable \in [Seasons -> [Events -> Entry \union {None}]]
        BY DEF PolicyInv, FreshInv, TypeInv, TypeOK, TablesTyped
      <3> HIDE DEF n
      <3>3. SUFFICES ASSUME NEW s \in Seasons, NEW e \in Events PROVE Filed(s, e)'
        BY DEF EventsFiled
      <3>4. eventTable'[s][e] = IF s = c.season /\ e = c.event THEN n ELSE eventTable[s][e]
        BY <3>1, <3>2
      <3>5. Filed(s, e)
        BY DEF EventsFiled
      <3> HIDE DEF c
      <3>6. CASE s = c.season /\ e = c.event
        BY <3>1, <3>4, <3>6 DEF Filed
      <3>7. CASE ~(s = c.season /\ e = c.event)
        BY <3>4, <3>5, <3>7 DEF Filed
      <3>8. QED
        BY <3>6, <3>7
    <2>3. QED
      BY <2>1, <2>2
  <1>4. QED
    BY <1>2, <1>3 DEF Next

------------------------------------------------------------------------------
\* The chain of a site

RowsOf(entries, first) == {first} \union {n.after : n \in entries}

ChainOf(entries, first) ==
    /\ \A n \in entries :
         /\ n.before \in RowsOf(entries, first)
         /\ n.after.version = n.before.version + 1
         /\ \A m \in entries : m.after.version < n.after.version => m.at_ms <= n.at_ms
    /\ \A r1, r2 \in RowsOf(entries, first) : r1.version = r2.version => r1 = r2

LastOf(entries, first, row) ==
    /\ row \in RowsOf(entries, first)
    /\ \A r \in RowsOf(entries, first) : r.version <= row.version

\* A plan made from the last row, and later than all before it, extends the chain.
LEMMA ChainGrows ==
    ASSUME NEW E, \A m \in E : m \in Entry, NEW first \in SiteRow,
           NEW row \in SiteRow, NEW n \in Entry,
           ChainOf(E, first), LastOf(E, first, row),
           n.before = row, n.after.version = row.version + 1,
           \A m \in E : m.at_ms <= n.at_ms
    PROVE  /\ ChainOf(E \union {n}, first)
           /\ LastOf(E \union {n}, first, n.after)
  <1> DEFINE old == RowsOf(E, first)
  <1> DEFINE all == RowsOf(E \union {n}, first)
  <1>1. all = old \union {n.after}
    BY DEF RowsOf
  <1>2. \A r \in all : r \in SiteRow /\ r.version \in Nat
    <2>1. \A m \in Entry : m.after \in SiteRow
      BY DEF Entry
    <2>2. \A r \in SiteRow : r.version \in Nat
      BY DEF SiteRow
    <2>3. QED
      BY <2>1, <2>2 DEF RowsOf
  <1>3. \A m \in E : m.after \in old
    BY DEF RowsOf
  <1>4. /\ row \in old /\ row.version \in Nat
        /\ \A r \in old : r.version <= row.version
    BY DEF LastOf, SiteRow
  <1>5. /\ \A m \in E : /\ m.before \in old /\ m.after.version = m.before.version + 1
                        /\ \A l \in E : l.after.version < m.after.version => l.at_ms <= m.at_ms
        /\ \A r1, r2 \in old : r1.version = r2.version => r1 = r2
    BY DEF ChainOf
  <1> HIDE DEF old, all
  <1>6. ASSUME NEW r \in old
        PROVE  r \in all /\ r.version \in Nat /\ n.after.version \in Nat
               /\ r.version < n.after.version
    <2>1. r \in all /\ n.after \in all
      BY <1>1
    <2>2. r.version \in Nat /\ n.after.version \in Nat
      BY <1>2, <2>1
    <2>3. r.version <= row.version
      BY <1>4
    <2>4. QED
      BY <1>4, <2>1, <2>2, <2>3
  <1>7. ASSUME NEW m \in E \union {n}
        PROVE  /\ m.before \in all
               /\ m.after.version = m.before.version + 1
               /\ \A l \in E \union {n} : l.after.version < m.after.version => l.at_ms <= m.at_ms
    <2>1. CASE m = n
      <3>1. n.at_ms <= n.at_ms
        BY DEF Entry
      <3>2. QED
        BY <1>1, <1>4, <2>1, <3>1
    <2>2. CASE m \in E
      <3>1. ~(n.after.version < m.after.version)
        BY <1>3, <1>6, <2>2
      <3>2. QED
        BY <1>1, <1>5, <2>2, <3>1
    <2>3. QED
      BY <2>1, <2>2
  <1>8. ASSUME NEW r1 \in all, NEW r2 \in all, r1.version = r2.version PROVE r1 = r2
    <2>1. \A r \in old : r.version # n.after.version
      BY <1>6
    <2>2. QED
      BY <1>1, <1>5, <1>8, <2>1
  <1>9. n.after \in all /\ \A r \in all : r.version <= n.after.version
    <2>1. n.after \in all
      BY <1>1
    <2>2. n.after.version <= n.after.version
      BY <1>2, <2>1
    <2>3. \A r \in old : r.version <= n.after.version
      BY <1>6
    <2>4. QED
      BY <1>1, <2>1, <2>2, <2>3
  <1>10. ChainOf(E \union {n}, first)
    BY <1>7, <1>8 DEF ChainOf, all
  <1>11. QED
    BY <1>9, <1>10 DEF LastOf, all

ChainedAt(s, x) ==
    status[s] # "NONE" =>
      /\ ChainOf(EntriesAt(s, x), OpeningRow(s, x))
      /\ status[s] = "ACTIVE" => LastOf(EntriesAt(s, x), OpeningRow(s, x), site[s][x])

\* The owner of a site has been settled up to the site's last plan.
ReachedAt(s, x) ==
    status[s] = "ACTIVE" =>
      \A n \in EntriesAt(s, x) :
        /\ site[s][x].owner # None
        /\ n.at_ms <= account[s][site[s][x].owner.pet].last_ms

\* A season that was never created has no events.
Blank(s) == status[s] = "NONE" => Ledger(s) = {}

Chained == \A s \in Seasons, x \in Sites : ChainedAt(s, x)
Reached == \A s \in Seasons, x \in Sites : ReachedAt(s, x)
Blanks == \A s \in Seasons : Blank(s)

\* What the history of a season is read from.
HistoryRows(s) == <<status[s], site[s], account[s], eventTable[s], opening[s]>>

LEMMA SeasonSteps ==
    ASSUME PolicyInv, NEW w \in Workers, WorkerStep(w), NEW s \in Seasons
    PROVE  \/ UNCHANGED HistoryRows(s)
           \/ Moves(w) /\ s = job[w].cand.season
           \/ Finalize(w) /\ s = job[w].season
           \/ InsertSeason(w) /\ s = job[w].season
  <1> USE DEF PolicyInv, FreshInv
  <1>1. CASE ~Writes(w) \/ Register(w)
    BY <1>1, ReadersLeaveTables DEF tables, HistoryRows, Register
  <1>2. CASE Save(w) /\ ~Moves(w)
    BY <1>2 DEF Save, Moves, HistoryRows
  <1>3. CASE Moves(w) /\ s # job[w].cand.season
    <2>1. UNCHANGED opening
      BY <1>3 DEF Save, Moves
    <2>2. QED
      BY <1>3, <2>1, SaveRows DEF SeasonRows, HistoryRows, Moves
  <1>4. CASE Finalize(w) /\ s # job[w].season
    <2>1. UNCHANGED opening
      BY <1>4 DEF Finalize
    <2>2. QED
      BY <1>4, <2>1, FinalizeRows DEF SeasonRows, HistoryRows
  <1>5. CASE InsertSeason(w) /\ s # job[w].season
    <2>1. opening'[s] = opening[s]
      BY <1>5 DEF InsertSeason, TypeInv, TypeOK, TablesTyped
    <2>2. QED
      BY <1>5, <2>1, InsertSeasonRows DEF SeasonRows, HistoryRows
  <1>6. QED
    BY <1>1, <1>2, <1>3, <1>4, <1>5 DEF Writes

\* While nothing it is read from moves, a season's history stays as it is.
LEMMA HistoryKept ==
    ASSUME NEW s \in Seasons, UNCHANGED HistoryRows(s)
    PROVE  /\ Ledger(s)' = Ledger(s)
           /\ \A x \in Sites : EntriesAt(s, x)' = EntriesAt(s, x)
           /\ \A x \in Sites : OpeningRow(s, x)' = OpeningRow(s, x)
           /\ UNCHANGED <<status[s], site[s], account[s]>>
  BY DEF HistoryRows, Ledger, EntriesAt, OpeningRow

------------------------------------------------------------------------------
\* A new plan comes after all the site has seen

\* The account of the pet a site belongs to, as the saving transaction read it.
LEMMA OwnerSettled ==
    ASSUME PolicyInv, PlanMade, NEW w \in Workers, Moves(w), snap[w].owner # None
    PROVE  LET s == job[w].cand.season
               q == snap[w].owner.pet
           IN  /\ q \in Pets /\ q \in Affected(snap[w], job[w].cand)
               /\ account[s][q] \in Score /\ account[s][q].last_ms <= plan[w].at_ms
  <1> DEFINE c == job[w].cand
  <1> DEFINE q == snap[w].owner.pet
  <1> USE DEF PolicyInv, FreshInv
  <1>1. /\ pc[w] = "save" /\ DatedFor(w) /\ c.season \in Seasons /\ c.site \in Sites
        /\ snap[w] = site[c.season][c.site] /\ snap[w] \in SiteRow
    BY MoveFacts
  <1>2. q \in Pets /\ q \in Affected(snap[w], c)
    BY <1>1 DEF SiteRow, Owner, Affected
  <1>3. account[c.season][q] # None
    <2>1. RowsAgree(site[c.season], account[c.season])
      BY <1>1, AgreeBySeason DEF TypeInv, TypeOK
    <2>2. QED
      BY <1>1, <2>1 DEF RowsAgree
  <1>4. scores[w][q] = account[c.season][q]
    BY <1>1, <1>2, <1>3 DEF SnapshotFresh
  <1>5. account[c.season][q] \in Score
    <2>1. account \in [Seasons -> [Pets -> Score \union {None}]]
      BY DEF TypeInv, TypeOK, TablesTyped
    <2> HIDE DEF c, q
    <2>2. QED
      BY <1>1, <1>2, <1>3, <2>1
  <1>6. scores[w][q].last_ms <= plan[w].at_ms
    BY <1>1, <1>2 DEF DatedFor
  <1>7. QED
    BY <1>2, <1>4, <1>5, <1>6

LEMMA MoveIsLater ==
    ASSUME PolicyInv, PlanMade, Reached, NEW w \in Workers, Moves(w),
           NEW m, m \in EntriesAt(job[w].cand.season, job[w].cand.site), m \in Entry
    PROVE  m.at_ms <= plan[w].at_ms
  <1> DEFINE s == job[w].cand.season
  <1> DEFINE x == job[w].cand.site
  <1>1. /\ s \in Seasons /\ x \in Sites /\ status[s] = "ACTIVE" /\ snap[w] = site[s][x]
        /\ MadeFor(w)
    BY MoveFacts
  <1>2. ReachedAt(s, x)
    BY <1>1 DEF Reached
  <1>3. snap[w].owner # None /\ m.at_ms <= account[s][snap[w].owner.pet].last_ms
    BY <1>1, <1>2 DEF ReachedAt
  <1>4. /\ account[s][snap[w].owner.pet] \in Score
        /\ account[s][snap[w].owner.pet].last_ms <= plan[w].at_ms
    BY <1>3, OwnerSettled
  <1>5. /\ account[s][snap[w].owner.pet].last_ms \in Nat /\ m.at_ms \in Nat
        /\ plan[w].at_ms \in Nat
    <2>1. account[s][snap[w].owner.pet].last_ms \in Nat
      BY <1>4 DEF Score
    <2>2. m.at_ms \in Nat
      BY DEF Entry
    <2>3. plan[w].at_ms \in Nat
      BY <1>1 DEF MadeFor
    <2>4. QED
      BY <2>1, <2>2, <2>3
  <1> DEFINE last == account[s][snap[w].owner.pet].last_ms
  <1>6. /\ m.at_ms <= last /\ last <= plan[w].at_ms
        /\ last \in Nat /\ m.at_ms \in Nat /\ plan[w].at_ms \in Nat
    BY <1>3, <1>4, <1>5
  <1> HIDE DEF last
  <1>7. QED
    BY <1>6

\* The clock of an account never runs backwards.
LEMMA AccountsForward ==
    ASSUME PolicyInv, PlanMade, NEW w \in Workers, Moves(w), NEW q \in Pets,
           account[job[w].cand.season][q] # None
    PROVE  LET s == job[w].cand.season
           IN  /\ account[s][q] \in Score /\ account'[s][q] \in Score
               /\ account[s][q].last_ms <= account'[s][q].last_ms
  <1> DEFINE c == job[w].cand
  <1> DEFINE s == c.season
  <1> DEFINE p == plan[w]
  <1> USE DEF PolicyInv, FreshInv
  <1>1. /\ pc[w] = "save" /\ DatedFor(w) /\ s \in Seasons /\ p.kind # "UNCHANGED"
        /\ account[s][q] \in Score
    <2>1. pc[w] = "save" /\ DatedFor(w) /\ s \in Seasons
      BY MoveFacts
    <2>2. account[s][q] \in Score \union {None}
      BY <2>1 DEF TypeInv, TypeOK, TablesTyped
    <2>3. QED
      BY <2>1, <2>2 DEF Moves
  <1>2. account'[s][q] = IF p.accounts[q] = None THEN account[s][q] ELSE p.accounts[q]
    BY <1>1, AccountsSaved DEF Moves
  <1> DEFINE Goal == /\ account'[s][q] \in Score
                     /\ account[s][q].last_ms <= account'[s][q].last_ms
  <1>3. ASSUME q \in Affected(snap[w], c) PROVE Goal
    <2>1. /\ p.accounts[q] \in Score /\ p.accounts[q].last_ms = p.at_ms
          /\ scores[w][q].last_ms <= p.at_ms
      BY <1>1, <1>3 DEF DatedFor
    <2>2. scores[w][q] = account[s][q]
      BY <1>1, <1>3 DEF SnapshotFresh
    <2>3. p.accounts[q] # None
      BY <2>1, NoneAssumption
    <2>4. QED
      BY <1>2, <2>1, <2>2, <2>3
  <1>4. ASSUME q \notin Affected(snap[w], c) PROVE Goal
    <2>1. p.accounts[q] = None
      BY <1>1, <1>4 DEF PlanFits
    <2>2. account[s][q].last_ms <= account[s][q].last_ms
      BY <1>1 DEF Score
    <2>3. account'[s][q] = account[s][q]
      BY <1>2, <2>1
    <2>4. QED
      BY <1>1, <2>2, <2>3
  <1>5. QED
    BY <1>1, <1>3, <1>4

LEMMA BlankNext ==
    ASSUME PolicyInv, PlanMade, Blanks, [Next]_vars PROVE Blanks'
  <1> USE DEF PolicyInv, FreshInv
  <1> SUFFICES ASSUME NEW s \in Seasons PROVE Blank(s)'
    BY DEF Blanks
  <1>1. CASE UNCHANGED HistoryRows(s)
    BY <1>1, HistoryKept DEF Blanks, Blank
  <1>2. CASE Tick \/ SetBack \/ UNCHANGED vars
    BY <1>1, <1>2 DEF Tick, SetBack, vars, tables, HistoryRows
  <1>3. ASSUME NEW w \in Workers, WorkerStep(w) PROVE Blank(s)'
    <2>1. CASE Moves(w) /\ s = job[w].cand.season
      BY <2>1, MoveFacts DEF Moves, Save, Blank
    <2>2. CASE Finalize(w) /\ s = job[w].season
      BY <2>2 DEF Finalize, Blank, TypeInv, TypeOK, TablesTyped
    <2>3. CASE InsertSeason(w) /\ s = job[w].season
      BY <2>3 DEF InsertSeason, Blank, TypeInv, TypeOK, TablesTyped
    <2>4. QED
      BY <1>1, <1>3, <2>1, <2>2, <2>3, SeasonSteps
  <1>4. QED
    BY <1>2, <1>3 DEF Next

\* The rows of a season that has just been inserted.
LEMMA InsertedRows ==
    ASSUME PolicyInv, Blanks, NEW w \in Workers, InsertSeason(w), NEW x \in Sites,
           NEW s \in Seasons, s = job[w].season
    PROVE  /\ status'[s] = "ACTIVE" /\ Ledger(s)' = {}
           /\ EntriesAt(s, x)' = {} /\ site'[s][x] = OpeningRow(s, x)'
           /\ OpeningRow(s, x)' \in SiteRow
  <1> DEFINE row == ImportRow(s, job[w].owners[x])
  <1> USE DEF PolicyInv, FreshInv
  <1>1. /\ pc[w] = "insert_season" /\ status[s] = "NONE"
    BY DEF InsertSeason, CanInsert
  <1>2. job[w].owners[x] \in Owner \union {None}
    <2>1. job[w].owners \in Imports[s]
      BY <1>1, JobTyped DEF WorkerOK
    <2>2. QED
      BY <2>1, ImportsAssumption DEF ImportedOwners
  <1>3. row \in SiteRow
    BY <1>2, ImportRowType
  <1>4. status'[s] = "ACTIVE" /\ UNCHANGED eventTable
    BY <1>2 DEF InsertSeason, TypeInv, TypeOK, TablesTyped
  <1>5. Ledger(s)' = {} /\ EntriesAt(s, x)' = {}
    <2>1. Ledger(s) = {}
      BY <1>1 DEF Blanks, Blank
    <2>2. Ledger(s)' = Ledger(s)
      BY <1>4 DEF Ledger
    <2>3. QED
      BY <2>1, <2>2 DEF EntriesAt
  <1>6. site'[s][x] = row
    BY <1>2 DEF InsertSeason, TypeInv, TypeOK, TablesTyped
  <1>7. opening'[s][x] = row.owner
    BY <1>2 DEF InsertSeason, TypeInv, TypeOK, TablesTyped
  <1>8. row = [version |-> IF row.owner = None THEN 0 ELSE 1, owner |-> row.owner]
    <2>1. CASE job[w].owners[x] = None
      BY <2>1 DEF ImportRow, EmptySite
    <2>2. CASE job[w].owners[x] # None
      <3>1. row.version = 1
        BY <2>2 DEF ImportRow
      <3>2. row.owner # None
        <4>1. PICK owner : row = [version |-> 1, owner |-> [owner EXCEPT
                !.occupied_ms = Starts[s],
                !.certified_ms = IF owner.verified /\ @ = NoTime
                                   THEN owner.occupied_ms ELSE @]] /\ owner \in Owner
          BY <1>2, <2>2 DEF ImportRow
        <4> DEFINE certified == IF owner.verified /\ owner.certified_ms = NoTime
                                  THEN owner.occupied_ms ELSE owner.certified_ms
        <4> DEFINE started == [owner EXCEPT !.occupied_ms = Starts[s],
                                            !.certified_ms = certified]
        <4>2. row.owner = started
          BY <4>1 DEF Owner
        <4>3. certified \in Nat \union {NoTime} /\ Starts[s] \in Nat
          BY <1>2, <4>1, WindowAssumption DEF Owner
        <4> HIDE DEF certified, row
        <4>4. started \in Owner
          BY <4>1, <4>3 DEF Owner
        <4> HIDE DEF started
        <4>5. QED
          BY <4>2, <4>4, NoneAssumption
      <3> HIDE DEF row
      <3>3. QED
        BY <1>3, <3>1, <3>2 DEF SiteRow
    <2>3. QED
      BY <2>1, <2>2
  <1> HIDE DEF row
  <1>9. OpeningRow(s, x)' = row
    BY <1>7, <1>8 DEF OpeningRow
  <1>10. QED
    BY <1>2, <1>3, <1>4, <1>5, <1>6, <1>9

\* The site a plan writes belongs to the pet that claimed it.
LEMMA PlannedOwner ==
    ASSUME PolicyInv, PlanMade, NEW w \in Workers, Moves(w)
    PROVE  LET n == EntryOf(w)
           IN  /\ n.after = [version |-> snap[w].version + 1,
                             owner |-> PlanOwner(snap[w], job[w].cand, n.at_ms)]
               /\ n.after.version = snap[w].version + 1
               /\ n.after.owner \in Owner /\ n.after.owner # None
               /\ n.after.owner.pet = job[w].cand.pet
  <1> DEFINE c == job[w].cand
  <1> DEFINE n == EntryOf(w)
  <1> DEFINE owner == PlanOwner(snap[w], c, n.at_ms)
  <1>1. /\ c \in Candidate /\ snap[w] \in SiteRow /\ MadeFor(w)
        /\ n.after = plan[w].after /\ n.at_ms = plan[w].at_ms
    BY MoveFacts
  <1>2. ~Unchanged(snap[w], c)
    BY <1>1 DEF Moves, MadeFor, PlanKind
  <1>3. n.at_ms \in Nat
    BY <1>1 DEF MadeFor
  <1>4. n.after = [version |-> snap[w].version + 1, owner |-> owner]
    BY <1>1, <1>2 DEF MadeFor, PlanSite
  <1>5. owner \in Owner
    BY <1>1, <1>3, PlanOwnerType
  <1>6. owner.pet = c.pet
    <2>1. CASE SamePet(snap[w], c)
      BY <1>1, <2>1 DEF PlanOwner, SamePet, SiteRow, Owner
    <2>2. CASE ~SamePet(snap[w], c)
      BY <2>2 DEF PlanOwner
    <2>3. QED
      BY <2>1, <2>2
  <1> HIDE DEF owner, n
  <1>7. n.after.version = snap[w].version + 1 /\ n.after.owner = owner
    BY <1>4
  <1>8. n.after.owner # None
    BY <1>5, <1>7, NoneAssumption
  <1>9. QED
    BY <1>4, <1>5, <1>6, <1>7, <1>8 DEF n, owner

\* A transaction that fits nothing into the chain leaves it as it is; a plan
\* extends it, and a closing or a new season starts from what it finds.
LEMMA ChainedNext ==
    ASSUME PolicyInv, PlanMade, EventsFiled, Blanks, Chained, Reached, [Next]_vars
    PROVE  Chained'
  <1> USE DEF PolicyInv, FreshInv
  <1> SUFFICES ASSUME NEW s \in Seasons, NEW x \in Sites PROVE ChainedAt(s, x)'
    BY DEF Chained
  <1>1. ChainedAt(s, x)
    BY DEF Chained
  <1>2. CASE UNCHANGED HistoryRows(s)
    BY <1>1, <1>2, HistoryKept DEF ChainedAt
  <1>3. CASE Tick \/ SetBack \/ UNCHANGED vars
    BY <1>2, <1>3 DEF Tick, SetBack, vars, tables, HistoryRows
  <1>4. ASSUME NEW w \in Workers, WorkerStep(w) PROVE ChainedAt(s, x)'
    <2>1. CASE Moves(w) /\ s = job[w].cand.season
      <3> DEFINE c == job[w].cand
      <3> DEFINE n == EntryOf(w)
      <3>1. /\ status[s] = "ACTIVE" /\ UNCHANGED <<status, opening>>
            /\ n \in Entry /\ snap[w] = site[s][c.site] /\ snap[w] \in SiteRow
            /\ n.before = snap[w] /\ n.after = plan[w].after /\ n.at_ms = plan[w].at_ms
            /\ c.site \in Sites /\ MadeFor(w)
            /\ site' = [site EXCEPT ![s][c.site] = n.after]
        BY <2>1, MoveFacts DEF Moves, Save
      <3>2. EntriesAt(s, x)' = IF x = c.site THEN EntriesAt(s, x) \union {n} ELSE EntriesAt(s, x)
        BY <2>1, EntriesGrow
      <3>3. OpeningRow(s, x)' = OpeningRow(s, x)
        BY <3>1 DEF OpeningRow
      <3>4. site \in [Seasons -> [Sites -> SiteRow]] /\ opening \in [Seasons -> [Sites -> Owner \union {None}]]
        BY DEF TypeInv, TypeOK, TablesTyped
      <3>5. OpeningRow(s, x) \in SiteRow
        BY <3>4 DEF OpeningRow, SiteRow
      <3>6. site'[s][x] = IF x = c.site THEN n.after ELSE site[s][x]
        BY <3>1, <3>4
      <3>7. CASE x # c.site
        BY <1>1, <3>1, <3>2, <3>3, <3>6, <3>7 DEF ChainedAt
      <3>8. CASE x = c.site
        <4>1. /\ ChainOf(EntriesAt(s, x), OpeningRow(s, x))
              /\ LastOf(EntriesAt(s, x), OpeningRow(s, x), snap[w])
          BY <1>1, <3>1, <3>8 DEF ChainedAt
        <4>2. \A m \in EntriesAt(s, x) : m \in Entry
          BY DEF EventsFiled, Filed, EntriesAt, Ledger
        <4>3. n.after.version = snap[w].version + 1
          BY <2>1, PlannedOwner
        <4>4. \A m \in EntriesAt(s, x) : m.at_ms <= n.at_ms
          BY <2>1, <3>1, <3>8, <4>2, MoveIsLater
        <4> HIDE DEF n
        <4>5. /\ ChainOf(EntriesAt(s, x) \union {n}, OpeningRow(s, x))
              /\ LastOf(EntriesAt(s, x) \union {n}, OpeningRow(s, x), n.after)
          BY <3>1, <3>5, <4>1, <4>2, <4>3, <4>4, ChainGrows
        <4>6. QED
          BY <3>2, <3>3, <3>6, <3>8, <4>5 DEF ChainedAt
      <3>9. QED
        BY <3>7, <3>8
    <2>2. CASE Finalize(w) /\ s = job[w].season
      <3>1. status[s] # "NONE" /\ status'[s] = "FINALIZED" /\ UNCHANGED <<eventTable, opening>>
        <4>1. WorkerOK(w) /\ pc[w] \in Holding
          BY <2>2 DEF Finalize, TypeInv, WorkOK, Holding
        <4>2. status[s] # "NONE"
          BY <2>2, <4>1 DEF WorkerOK
        <4>3. QED
          BY <2>2, <4>2 DEF Finalize, TypeInv, TypeOK, TablesTyped
      <3>2. EntriesAt(s, x)' = EntriesAt(s, x) /\ OpeningRow(s, x)' = OpeningRow(s, x)
        BY <3>1 DEF EntriesAt, Ledger, OpeningRow
      <3>3. QED
        BY <1>1, <3>1, <3>2 DEF ChainedAt
    <2>3. CASE InsertSeason(w) /\ s = job[w].season
      <3>1. /\ EntriesAt(s, x)' = {} /\ site'[s][x] = OpeningRow(s, x)'
            /\ OpeningRow(s, x)' \in SiteRow
        BY <2>3, InsertedRows
      <3>2. RowsOf(EntriesAt(s, x)', OpeningRow(s, x)') = {OpeningRow(s, x)'}
        BY <3>1 DEF RowsOf
      <3>3. (OpeningRow(s, x)').version <= (OpeningRow(s, x)').version
        BY <3>1 DEF SiteRow
      <3>4. /\ ChainOf(EntriesAt(s, x)', OpeningRow(s, x)')
            /\ LastOf(EntriesAt(s, x)', OpeningRow(s, x)', OpeningRow(s, x)')
        BY <3>1, <3>2, <3>3 DEF ChainOf, LastOf
      <3>5. QED
        BY <3>1, <3>4 DEF ChainedAt
    <2>4. QED
      BY <1>2, <1>4, <2>1, <2>2, <2>3, SeasonSteps
  <1>5. QED
    BY <1>3, <1>4 DEF Next

LEMMA ReachedNext ==
    ASSUME PolicyInv, PlanMade, EventsFiled, Blanks, Reached, [Next]_vars
    PROVE  Reached'
  <1> USE DEF PolicyInv, FreshInv
  <1> SUFFICES ASSUME NEW s \in Seasons, NEW x \in Sites PROVE ReachedAt(s, x)'
    BY DEF Reached
  <1>1. ReachedAt(s, x)
    BY DEF Reached
  <1>2. CASE UNCHANGED HistoryRows(s)
    BY <1>1, <1>2, HistoryKept DEF ReachedAt
  <1>3. CASE Tick \/ SetBack \/ UNCHANGED vars
    BY <1>2, <1>3 DEF Tick, SetBack, vars, tables, HistoryRows
  <1>4. ASSUME NEW w \in Workers, WorkerStep(w) PROVE ReachedAt(s, x)'
    <2>1. CASE Moves(w) /\ s = job[w].cand.season
      <3> DEFINE c == job[w].cand
      <3> DEFINE n == EntryOf(w)
      <3>1. /\ pc[w] = "save" /\ status[s] = "ACTIVE" /\ status' = status
            /\ n.after = plan[w].after /\ n.at_ms = plan[w].at_ms /\ plan[w].at_ms \in Nat
            /\ c.site \in Sites /\ c.pet \in Pets /\ MadeFor(w) /\ DatedFor(w)
            /\ site' = [site EXCEPT ![s][c.site] = n.after]
        BY <2>1, MoveFacts DEF Moves, Save, MadeFor
      <3>2. EntriesAt(s, x)' = IF x = c.site THEN EntriesAt(s, x) \union {n} ELSE EntriesAt(s, x)
        BY <2>1, EntriesGrow
      <3>3. site \in [Seasons -> [Sites -> SiteRow]]
            /\ account \in [Seasons -> [Pets -> Score \union {None}]]
        BY DEF TypeInv, TypeOK, TablesTyped
      <3>4. site'[s][x] = IF x = c.site THEN n.after ELSE site[s][x]
        BY <3>1, <3>3
      <3>5. \A m \in EntriesAt(s, x) : m.at_ms \in Nat
        BY DEF EventsFiled, Filed, EntriesAt, Ledger, Entry
      <3>6. CASE x # c.site
        <4>1. EntriesAt(s, x)' = EntriesAt(s, x) /\ site'[s][x] = site[s][x]
          BY <3>2, <3>4, <3>6
        <4>2. SUFFICES ASSUME NEW m \in EntriesAt(s, x)
                       PROVE  /\ site[s][x].owner # None
                              /\ m.at_ms <= account'[s][site[s][x].owner.pet].last_ms
          BY <4>1 DEF ReachedAt
        <4> DEFINE q == site[s][x].owner.pet
        <4>3. site[s][x].owner # None /\ m.at_ms <= account[s][q].last_ms
          BY <1>1, <3>1 DEF ReachedAt
        <4>4. q \in Pets
          BY <3>3, <4>3 DEF SiteRow, Owner
        <4>5. account[s][q] # None /\ account[s][q] \in Score
          <5>1. RowsAgree(site[s], account[s])
            BY AgreeBySeason DEF TypeInv, TypeOK
          <5>2. account[s][q] # None
            BY <4>3, <5>1 DEF RowsAgree
          <5> HIDE DEF q
          <5>3. QED
            BY <3>3, <4>4, <5>2
        <4>6. account[s][q].last_ms <= account'[s][q].last_ms
          BY <2>1, <4>4, <4>5, AccountsForward
        <4>7. /\ m.at_ms \in Nat /\ account[s][q].last_ms \in Nat
              /\ account'[s][q].last_ms \in Nat
          <5>1. account[s][q] \in Score /\ account'[s][q] \in Score
            BY <2>1, <4>4, <4>5, AccountsForward
          <5>2. QED
            BY <3>5, <5>1 DEF Score
        <4> HIDE DEF q
        <4>8. m.at_ms <= account'[s][q].last_ms
          BY <4>3, <4>6, <4>7
        <4>9. QED
          BY <4>3, <4>8 DEF q
      <3>7. CASE x = c.site
        <4>1. n.after.owner # None /\ n.after.owner.pet = c.pet
          BY <2>1, PlannedOwner
        <4>2. account'[s][c.pet].last_ms = n.at_ms
          <5>1. c.pet \in Affected(snap[w], c)
            BY DEF Affected
          <5>2. plan[w].accounts[c.pet] \in Score /\ plan[w].accounts[c.pet].last_ms = n.at_ms
            BY <3>1, <5>1 DEF DatedFor
          <5>3. plan[w].accounts[c.pet] # None
            BY <5>2, NoneAssumption
          <5>4. account'[s][c.pet] = plan[w].accounts[c.pet]
            BY <2>1, <3>1, <5>3, AccountsSaved DEF Moves, PolicyInv, FreshInv
          <5>5. QED
            BY <5>2, <5>4
        <4>3. \A m \in EntriesAt(s, x) : m.at_ms <= n.at_ms
          <5>1. \A m \in EntriesAt(s, x) : m \in Entry
            BY DEF EventsFiled, Filed, EntriesAt, Ledger
          <5>2. QED
            BY <2>1, <3>1, <3>7, <5>1, MoveIsLater
        <4>4. n.at_ms <= n.at_ms
          BY <3>1
        <4> HIDE DEF n
        <4>5. \A m \in EntriesAt(s, x) \union {n} : m.at_ms <= n.at_ms
          BY <4>3, <4>4
        <4>6. QED
          BY <3>2, <3>4, <3>7, <4>1, <4>2, <4>5 DEF ReachedAt
      <3>8. QED
        BY <3>6, <3>7
    <2>2. CASE Finalize(w) /\ s = job[w].season
      BY <2>2 DEF Finalize, ReachedAt, TypeInv, TypeOK, TablesTyped
    <2>3. CASE InsertSeason(w) /\ s = job[w].season
      <3>1. EntriesAt(s, x)' = {}
        BY <2>3, InsertedRows
      <3>2. QED
        BY <3>1 DEF ReachedAt
    <2>4. QED
      BY <1>2, <1>4, <2>1, <2>2, <2>3, SeasonSteps
  <1>5. QED
    BY <1>3, <1>4 DEF Next

------------------------------------------------------------------------------
\* The history of every season, together with what is waiting to join it.
HistoryInv ==
    /\ PolicyInv /\ PlanMade /\ EventsFiled /\ Blanks /\ Chained /\ Reached

LEMMA HistoryInit == Init => HistoryInv
  <1> SUFFICES ASSUME Init PROVE HistoryInv
    OBVIOUS
  <1>1. PolicyInv
    BY PolicyInit
  <1>2. \A s \in Seasons : Ledger(s) = {} /\ status[s] = "NONE"
    BY DEF Init, Ledger
  <1>3. Blanks /\ Chained /\ Reached
    BY <1>2 DEF Blanks, Blank, Chained, ChainedAt, Reached, ReachedAt
  <1>4. PlanMade /\ EventsFiled
    BY DEF Init, PlanMade, EventsFiled, Filed
  <1>5. QED
    BY <1>1, <1>3, <1>4 DEF HistoryInv

LEMMA HistoryNext == ASSUME HistoryInv, [Next]_vars PROVE HistoryInv'
  <1> USE DEF HistoryInv
  <1>1. PolicyInv'
    BY PolicyNext
  <1>2. PlanMade'
    BY MadeNext DEF PolicyInv, FreshInv
  <1>3. EventsFiled' /\ Blanks' /\ Chained' /\ Reached'
    BY FiledNext, BlankNext, ChainedNext, ReachedNext
  <1>4. QED
    BY <1>1, <1>2, <1>3

LEMMA HistoryHolds == Spec => []HistoryInv
  BY HistoryInit, HistoryNext, PTL DEF Spec

\* Whatever transactions race, crash or are repeated and wherever the wall
\* clock goes, the committed plans of a site are one chain in time that ends in
\* the row the site has now (lock_site, plan_ownership, save_transition).
THEOREM ChainsOfSites == Spec => []SiteHistoryIsAChain
  <1>1. ASSUME HistoryInv PROVE SiteHistoryIsAChain
    <2>1. \A s \in Seasons, x \in Sites : ChainedAt(s, x)
      BY <1>1 DEF HistoryInv, Chained
    <2>2. QED
      BY <2>1 DEF SiteHistoryIsAChain, ChainedAt, ChainOf, LastOf, RowsOf
  <1>2. QED
    BY <1>1, HistoryHolds, PTL

------------------------------------------------------------------------------
\* A day's bonus

\* Every bonus on record has its day reserved.
KeyKept(s, e) ==
    LET n == eventTable[s][e]
    IN  Rules.repeat_bonus = "daily_pet_site" /\ n # None =>
          (n.bonus > 0 => BonusKey(n.cand, n.at_ms) \in bonusTable)

KeysKept == \A s \in Seasons, e \in Events : KeyKept(s, e)

\* A plan that pays for a day reserves a day nobody reserved before.
LEMMA PaidMove ==
    ASSUME PolicyInv, PlanMade, NEW w \in Workers, Moves(w), EntryOf(w).bonus > 0,
           Rules.repeat_bonus = "daily_pet_site"
    PROVE  LET n == EntryOf(w)
           IN  /\ BonusKey(n.cand, n.at_ms) \notin bonusTable
               /\ BonusKey(n.cand, n.at_ms) \in bonusTable'
  <1> DEFINE c == job[w].cand
  <1> DEFINE p == plan[w]
  <1>1. /\ c \in Candidate /\ MadeFor(w) /\ EntryOf(w).cand = c
        /\ EntryOf(w).at_ms = p.at_ms /\ EntryOf(w).bonus = p.bonus
    BY MoveFacts
  <1>2. p.key = BonusKey(c, p.at_ms) /\ p.at_ms \in Nat
    BY <1>1 DEF MadeFor
  <1>3. p.key \in BonusKeys
    <2>1. p.at_ms \div DayMs \in Nat
      BY <1>2, UnitsAssumption
    <2>2. c.season \in Seasons /\ c.pet \in Pets /\ c.site \in Sites
      BY <1>1 DEF Candidate
    <2>3. QED
      BY <1>2, <2>1, <2>2 DEF BonusKey, BonusKeys
  <1>4. p.key # None
    BY <1>3, NullAssumption
  <1>5. p.key \notin bonusTable /\ bonusTable' = bonusTable \union ({p.key} \ {None})
    BY <1>4 DEF Moves, Save, CanSave
  <1>6. QED
    BY <1>1, <1>2, <1>4, <1>5

LEMMA KeysNext ==
    ASSUME PolicyInv, PlanMade, KeysKept, [Next]_vars PROVE KeysKept'
  <1>1. CASE UNCHANGED <<eventTable, bonusTable>>
    BY <1>1 DEF KeysKept, KeyKept
  <1>2. CASE Tick \/ SetBack \/ UNCHANGED vars
    BY <1>1, <1>2 DEF Tick, SetBack, vars, tables
  <1>3. ASSUME NEW w \in Workers, WorkerStep(w) PROVE KeysKept'
    <2>1. CASE ~Moves(w)
      BY <1>1, <1>3, <2>1, EventsStay
    <2>2. CASE Moves(w)
      <3> DEFINE c == job[w].cand
      <3> DEFINE n == EntryOf(w)
      <3>1. /\ c.season \in Seasons /\ c.event \in Events
            /\ eventTable' = [eventTable EXCEPT ![c.season][c.event] = n]
        BY <2>2, MoveFacts
      <3>2. eventTable \in [Seasons -> [Events -> Entry \union {None}]]
        BY DEF PolicyInv, FreshInv, TypeInv, TypeOK, TablesTyped
      <3>3. bonusTable \subseteq bonusTable'
        BY <2>2 DEF Moves, Save
      <3>4. Rules.repeat_bonus = "daily_pet_site" /\ n.bonus > 0 =>
              BonusKey(n.cand, n.at_ms) \in bonusTable'
        BY <2>2, PaidMove
      <3> HIDE DEF n
      <3>5. SUFFICES ASSUME NEW s \in Seasons, NEW e \in Events PROVE KeyKept(s, e)'
        BY DEF KeysKept
      <3>6. eventTable'[s][e] = IF s = c.season /\ e = c.event THEN n ELSE eventTable[s][e]
        BY <3>1, <3>2
      <3>7. CASE s = c.season /\ e = c.event
        BY <3>4, <3>6, <3>7 DEF KeyKept, BonusKey
      <3>8. CASE ~(s = c.season /\ e = c.event)
        BY <3>3, <3>6, <3>8 DEF KeysKept, KeyKept, BonusKey
      <3>9. QED
        BY <3>7, <3>8
    <2>3. QED
      BY <2>1, <2>2
  <1>4. QED
    BY <1>2, <1>3 DEF Next

LEMMA BonusNext ==
    ASSUME HistoryInv, KeysKept, DailyBonusOnce, [Next]_vars PROVE DailyBonusOnce'
  <1> USE DEF HistoryInv
  <1>1. CASE UNCHANGED eventTable
    BY <1>1 DEF DailyBonusOnce, Ledger
  <1>2. CASE Tick \/ SetBack \/ UNCHANGED vars
    BY <1>1, <1>2 DEF Tick, SetBack, vars, tables
  <1>3. ASSUME NEW w \in Workers, WorkerStep(w) PROVE DailyBonusOnce'
    <2>1. CASE ~Moves(w)
      BY <1>1, <1>3, <2>1, EventsStay
    <2>2. CASE Moves(w)
      <3> DEFINE n == EntryOf(w)
      <3>1. SUFFICES ASSUME Rules.repeat_bonus = "daily_pet_site", NEW s \in Seasons,
                            NEW a \in Ledger(s)', NEW b \in Ledger(s)', a # b,
                            a.bonus > 0, b.bonus > 0, a.cand.pet = b.cand.pet,
                            a.cand.site = b.cand.site
                     PROVE  a.at_ms \div DayMs # b.at_ms \div DayMs
        BY DEF DailyBonusOnce
      <3>2. Ledger(s)' = IF s = job[w].cand.season THEN Ledger(s) \union {n} ELSE Ledger(s)
        BY <2>2, LedgerGrows
      <3>3. n.cand = job[w].cand
        BY <2>2, MoveFacts
      <3>4. n.bonus > 0 => BonusKey(n.cand, n.at_ms) \notin bonusTable
        BY <2>2, <3>1, PaidMove
      <3>5. \A m \in Ledger(s) : /\ m.cand.season = s
                                 /\ m.bonus > 0 => BonusKey(m.cand, m.at_ms) \in bonusTable
        BY <3>1 DEF EventsFiled, Filed, KeysKept, KeyKept, Ledger
      <3> HIDE DEF n
      <3>6. ASSUME NEW m \in Ledger(s), s = job[w].cand.season, m.bonus > 0, n.bonus > 0,
                   m.cand.pet = n.cand.pet, m.cand.site = n.cand.site
            PROVE  m.at_ms \div DayMs # n.at_ms \div DayMs
        <4>1. BonusKey(m.cand, m.at_ms) # BonusKey(n.cand, n.at_ms)
          BY <3>4, <3>5, <3>6
        <4>2. m.cand.season = n.cand.season
          BY <3>3, <3>5, <3>6
        <4>3. QED
          BY <3>1, <3>6, <4>1, <4>2 DEF BonusKey
      <3>7. CASE a \in Ledger(s) /\ b \in Ledger(s)
        BY <3>1, <3>7 DEF DailyBonusOnce
      <3>8. CASE a = n /\ b \in Ledger(s) /\ s = job[w].cand.season
        BY <3>1, <3>6, <3>8
      <3>9. CASE b = n /\ a \in Ledger(s) /\ s = job[w].cand.season
        BY <3>1, <3>6, <3>9
      <3>10. QED
        BY <3>1, <3>2, <3>7, <3>8, <3>9
    <2>3. QED
      BY <2>1, <2>2
  <1>4. QED
    BY <1>2, <1>3 DEF Next

\* Wherever the wall clock goes and however often a site changes hands, a pet
\* is paid for a site once a day (bonus_paid, the bonus table's primary key).
THEOREM OneBonusADay == Spec => []DailyBonusOnce
  <1>1. Init => KeysKept /\ DailyBonusOnce
    BY DEF Init, KeysKept, KeyKept, DailyBonusOnce, Ledger
  <1>2. HistoryInv /\ KeysKept /\ [Next]_vars => KeysKept'
    BY KeysNext DEF HistoryInv
  <1>3. HistoryInv /\ KeysKept /\ DailyBonusOnce /\ [Next]_vars => DailyBonusOnce'
    BY BonusNext
  <1>4. QED
    BY <1>1, <1>2, <1>3, HistoryHolds, PTL DEF Spec

------------------------------------------------------------------------------
\* Protection

Draft == Rules.version = "draft-2026-09-06"

\* The plans a protection starts with: the occupation under the draft rules, a
\* certifying photo otherwise.
Shields(m) == IF Draft THEN m.kind = "OWNERSHIP_CHANGED" ELSE Verified(m.cand)

\* A protection still binds through the owner of the site, or somebody took the
\* site after it had run out.
Bound(row, entries, m) ==
    \/ m.at_ms + Rules.protection_ms <= ProtectedUntil(row.owner)
    \/ \E n \in entries : n.kind = "OWNERSHIP_CHANGED"
                           /\ m.at_ms + Rules.protection_ms <= n.at_ms

GuardedAt(s, x) ==
    status[s] = "ACTIVE" =>
      \A m \in EntriesAt(s, x) : Shields(m) => Bound(site[s][x], EntriesAt(s, x), m)

Guarded == \A s \in Seasons, x \in Sites : GuardedAt(s, x)

LEMMA ProtectionTyped ==
    ASSUME NEW owner \in Owner
    PROVE  Rules.protection_ms \in Nat /\ ProtectedUntil(owner) \in Int
  <1>1. Rules.protection_ms \in Nat
    BY RulesAssumption DEF RulesType
  <1>2. QED
    BY <1>1 DEF ProtectedUntil, Owner, NoTime

\* A change of owner waits for the protection of the owner it displaces.
LEMMA ChangeWaits ==
    ASSUME PolicyInv, PlanMade, NEW w \in Workers, Moves(w), snap[w].owner # None,
           EntryOf(w).kind = "OWNERSHIP_CHANGED"
    PROVE  ProtectedUntil(snap[w].owner) <= EntryOf(w).at_ms
  <1> DEFINE c == job[w].cand
  <1> DEFINE n == EntryOf(w)
  <1>1. /\ MadeFor(w) /\ n.kind = plan[w].kind /\ n.at_ms = plan[w].at_ms
        /\ snap[w] \in SiteRow
    BY MoveFacts
  <1>2. ~SamePet(snap[w], c)
    BY <1>1 DEF MadeFor, PlanKind
  <1>3. snap[w].owner \in Owner /\ snap[w].owner.pet # c.pet
    BY <1>1, <1>2 DEF SamePet, SiteRow
  <1>4. ~IsProtected(snap[w].owner, c.pet, plan[w].at_ms)
    BY <1>1 DEF MadeFor, ContextValid
  <1>5. ~(plan[w].at_ms < ProtectedUntil(snap[w].owner))
    BY <1>3, <1>4 DEF IsProtected
  <1>6. plan[w].at_ms \in Nat /\ ProtectedUntil(snap[w].owner) \in Int
    BY <1>1, <1>3, ProtectionTyped DEF MadeFor
  <1>7. QED
    BY <1>1, <1>5, <1>6

\* The owner a plan writes is protected for as long as the plan promises, and a
\* certification never shortens what its own pet had.
LEMMA PlanProtects ==
    ASSUME PolicyInv, PlanMade, NEW w \in Workers, Moves(w)
    PROVE  LET n == EntryOf(w)
           IN  /\ Shields(n) => n.at_ms + Rules.protection_ms <= ProtectedUntil(n.after.owner)
               /\ n.kind # "OWNERSHIP_CHANGED" =>
                    /\ snap[w].owner # None
                    /\ \/ ProtectedUntil(n.after.owner) = ProtectedUntil(snap[w].owner)
                       \/ ProtectedUntil(n.after.owner) = n.at_ms + Rules.protection_ms
  <1> DEFINE c == job[w].cand
  <1> DEFINE n == EntryOf(w)
  <1> DEFINE row == snap[w]
  <1> DEFINE owner == PlanOwner(row, c, n.at_ms)
  <1>1. /\ c \in Candidate /\ MadeFor(w) /\ n.kind = plan[w].kind /\ n.at_ms = plan[w].at_ms
        /\ row \in SiteRow /\ n.cand = c
    BY MoveFacts
  <1>2. n.at_ms \in Nat /\ ~Unchanged(row, c) /\ n.kind = PlanKind(row, c)
    BY <1>1 DEF MadeFor, Moves, PlanKind
  <1>3. n.after.owner = owner /\ owner \in Owner
    <2>1. n.after = [version |-> snap[w].version + 1, owner |-> owner]
      BY PlannedOwner
    <2>2. owner \in Owner
      BY <1>1, <1>2, PlanOwnerType
    <2> HIDE DEF owner, n
    <2>3. QED
      BY <2>1, <2>2
  <1>4. Rules.protection_ms \in Nat
    BY <1>3, ProtectionTyped
  <1>5. n.at_ms # NoTime /\ n.at_ms + Rules.protection_ms <= n.at_ms + Rules.protection_ms
    BY <1>2, <1>4 DEF NoTime
  <1>6. CASE SamePet(row, c)
    <2>1. row.owner # None /\ row.owner \in Owner
      BY <1>1, <1>6 DEF SamePet, SiteRow
    <2>2. Verified(c) /\ n.kind = "CERTIFIED"
      BY <1>2, <1>6 DEF Unchanged, PlanKind
    <2>3. owner = [row.owner EXCEPT !.verified = Verified(c), !.certified_ms = n.at_ms]
      BY <1>6 DEF PlanOwner
    <2> HIDE DEF owner, n
    <2>4. /\ owner.verified /\ owner.certified_ms = n.at_ms
          /\ owner.occupied_ms = row.owner.occupied_ms
      BY <2>1, <2>2, <2>3 DEF Owner
    <2>5. IF Draft THEN ProtectedUntil(owner) = ProtectedUntil(row.owner)
          ELSE ProtectedUntil(owner) = n.at_ms + Rules.protection_ms
      BY <1>5, <2>4 DEF Draft, ProtectedUntil
    <2>6. QED
      BY <1>3, <1>5, <2>1, <2>2, <2>5 DEF Shields, n
  <1>7. CASE ~SamePet(row, c)
    <2>1. n.kind = "OWNERSHIP_CHANGED"
      BY <1>2, <1>7 DEF PlanKind
    <2>2. /\ owner.verified = Verified(c) /\ owner.occupied_ms = n.at_ms
          /\ Verified(c) => owner.certified_ms = n.at_ms
      BY <1>7 DEF PlanOwner
    <2> HIDE DEF owner, n
    <2>3. Shields(n) => ProtectedUntil(owner) = n.at_ms + Rules.protection_ms
      BY <1>1, <1>5, <2>2 DEF Shields, Draft, ProtectedUntil
    <2>4. QED
      BY <1>3, <1>5, <2>1, <2>3 DEF n
  <1>8. QED
    BY <1>6, <1>7

LEMMA GuardedNext ==
    ASSUME HistoryInv, Guarded, [Next]_vars PROVE Guarded'
  <1> USE DEF HistoryInv
  <1> SUFFICES ASSUME NEW s \in Seasons, NEW x \in Sites PROVE GuardedAt(s, x)'
    BY DEF Guarded
  <1>1. GuardedAt(s, x)
    BY DEF Guarded
  <1>2. CASE UNCHANGED HistoryRows(s)
    BY <1>1, <1>2, HistoryKept DEF GuardedAt, Bound, Shields, ProtectedUntil
  <1>3. CASE Tick \/ SetBack \/ UNCHANGED vars
    BY <1>2, <1>3 DEF Tick, SetBack, vars, tables, HistoryRows
  <1>4. ASSUME NEW w \in Workers, WorkerStep(w) PROVE GuardedAt(s, x)'
    <2>1. CASE Moves(w) /\ s = job[w].cand.season
      <3> DEFINE c == job[w].cand
      <3> DEFINE n == EntryOf(w)
      <3> DEFINE E == EntriesAt(s, x)
      <3>1. /\ status[s] = "ACTIVE" /\ c.site \in Sites /\ n.at_ms \in Nat
            /\ n.at_ms = plan[w].at_ms /\ snap[w] = site[s][c.site] /\ snap[w] \in SiteRow
            /\ n.after \in SiteRow /\ site' = [site EXCEPT ![s][c.site] = n.after]
        <4>1. plan[w].at_ms \in Nat
          BY <2>1, MoveFacts DEF MadeFor
        <4>2. /\ n.at_ms = plan[w].at_ms /\ n.after = plan[w].after
              /\ plan[w].after \in SiteRow /\ c.site \in Sites
          BY <2>1, MoveFacts
        <4>3. /\ status[s] = "ACTIVE" /\ snap[w] = site[s][c.site] /\ snap[w] \in SiteRow
              /\ site' = [site EXCEPT ![s][c.site] = plan[w].after]
          BY <2>1, MoveFacts
        <4> HIDE DEF n, c
        <4>4. QED
          BY <4>1, <4>2, <4>3
      <3>2. E' = IF x = c.site THEN E \union {n} ELSE E
        BY <2>1, EntriesGrow
      <3>3. site'[s][x] = IF x = c.site THEN n.after ELSE site[s][x]
        <4>1. site \in [Seasons -> [Sites -> SiteRow]]
          BY DEF PolicyInv, FreshInv, TypeInv, TypeOK, TablesTyped
        <4>2. QED
          BY <3>1, <4>1
      <3>4. \A m \in E : m \in Entry /\ m.at_ms \in Nat
        BY DEF EventsFiled, Filed, EntriesAt, Ledger, Entry
      <3>5. CASE x # c.site
        <4>1. E' = E /\ site'[s][x] = site[s][x]
          BY <3>2, <3>3, <3>5
        <4> HIDE DEF E
        <4>2. \A m \in E : Shields(m) => Bound(site[s][x], E, m)
          BY <1>1, <3>1 DEF GuardedAt, E
        <4>3. QED
          BY <4>1, <4>2 DEF GuardedAt, Bound, Shields, ProtectedUntil, E
      <3>6. CASE x = c.site
        <4>1. \A m \in E : m.at_ms <= n.at_ms
          BY <2>1, <3>1, <3>4, <3>6, MoveIsLater
        <4>2. \A m \in E : Shields(m) => Bound(snap[w], E, m)
          BY <1>1, <3>1, <3>6 DEF GuardedAt
        <4>3. E # {} => snap[w].owner # None
          BY <3>1, <3>6 DEF Reached, ReachedAt
        <4>4. /\ Shields(n) => n.at_ms + Rules.protection_ms <= ProtectedUntil(n.after.owner)
              /\ n.kind # "OWNERSHIP_CHANGED" =>
                   \/ ProtectedUntil(n.after.owner) = ProtectedUntil(snap[w].owner)
                   \/ ProtectedUntil(n.after.owner) = n.at_ms + Rules.protection_ms
          BY <2>1, PlanProtects
        <4>5. n.kind = "OWNERSHIP_CHANGED" /\ snap[w].owner # None =>
                ProtectedUntil(snap[w].owner) <= n.at_ms
          BY <2>1, ChangeWaits
        <4>6. Rules.protection_ms \in Nat
          BY RulesAssumption DEF RulesType
        <4>7. snap[w].owner # None => ProtectedUntil(snap[w].owner) \in Int
          BY <3>1, ProtectionTyped DEF SiteRow
        <4> HIDE DEF n, E
        <4>8. ASSUME NEW m \in E \union {n}, Shields(m) PROVE Bound(n.after, E \union {n}, m)
          <5>1. CASE m = n
            BY <4>4, <4>8, <5>1 DEF Bound
          <5>2. CASE m \in E
            <6>1. /\ m.at_ms \in Nat /\ m.at_ms <= n.at_ms /\ snap[w].owner # None
                  /\ Bound(snap[w], E, m)
              BY <3>4, <4>1, <4>2, <4>3, <4>8, <5>2
            <6>2. CASE \E l \in E : l.kind = "OWNERSHIP_CHANGED"
                                    /\ m.at_ms + Rules.protection_ms <= l.at_ms
              BY <6>2 DEF Bound
            <6>3. CASE m.at_ms + Rules.protection_ms <= ProtectedUntil(snap[w].owner)
              <7>1. CASE n.kind = "OWNERSHIP_CHANGED"
                <8>1. m.at_ms + Rules.protection_ms <= n.at_ms
                  <9>1. ProtectedUntil(snap[w].owner) <= n.at_ms
                    BY <4>5, <6>1, <7>1
                  <9>2. n.at_ms \in Nat
                    BY <3>1
                  <9>3. QED
                    BY <4>6, <4>7, <6>1, <6>3, <9>1, <9>2
                <8>2. QED
                  BY <7>1, <8>1 DEF Bound
              <7>2. CASE n.kind # "OWNERSHIP_CHANGED"
                <8>1. m.at_ms + Rules.protection_ms <= n.at_ms + Rules.protection_ms
                  BY <3>1, <4>6, <6>1
                <8>2. m.at_ms + Rules.protection_ms <= ProtectedUntil(n.after.owner)
                  BY <4>4, <6>3, <7>2, <8>1
                <8>3. QED
                  BY <8>2 DEF Bound
              <7>3. QED
                BY <7>1, <7>2
            <6>4. QED
              BY <6>1, <6>2, <6>3 DEF Bound
          <5>3. QED
            BY <5>1, <5>2
        <4>9. E' = E \union {n} /\ site'[s][x] = n.after
          BY <3>2, <3>3, <3>6
        <4>10. QED
          BY <4>8, <4>9 DEF GuardedAt, Bound, Shields, ProtectedUntil, E
      <3>7. QED
        BY <3>5, <3>6
    <2>2. CASE Finalize(w) /\ s = job[w].season
      BY <2>2 DEF Finalize, GuardedAt, PolicyInv, FreshInv, TypeInv, TypeOK, TablesTyped
    <2>3. CASE InsertSeason(w) /\ s = job[w].season
      <3>1. EntriesAt(s, x)' = {}
        BY <2>3, InsertedRows
      <3>2. QED
        BY <3>1 DEF GuardedAt
    <2>4. QED
      BY <1>2, <1>4, <2>1, <2>2, <2>3, SeasonSteps
  <1>5. QED
    BY <1>3, <1>4 DEF Next

\* A change that joins a site's plans comes after all the protections on record.
LEMMA MoveRespects ==
    ASSUME HistoryInv, Guarded, NEW w \in Workers, Moves(w),
           NEW m \in EntriesAt(job[w].cand.season, job[w].cand.site), Shields(m),
           EntryOf(w).kind = "OWNERSHIP_CHANGED"
    PROVE  m.at_ms + Rules.protection_ms <= EntryOf(w).at_ms
  <1> USE DEF HistoryInv
  <1> DEFINE n == EntryOf(w)
  <1> DEFINE s == job[w].cand.season
  <1> DEFINE x == job[w].cand.site
  <1>1. /\ s \in Seasons /\ x \in Sites /\ status[s] = "ACTIVE" /\ n.at_ms \in Nat
        /\ n.at_ms = plan[w].at_ms /\ snap[w] = site[s][x] /\ snap[w] \in SiteRow
    BY MoveFacts DEF MadeFor
  <1>2. Bound(snap[w], EntriesAt(s, x), m)
    BY <1>1 DEF Guarded, GuardedAt
  <1>3. \A l \in EntriesAt(s, x) : l \in Entry /\ l.at_ms \in Nat
    BY <1>1 DEF EventsFiled, Filed, EntriesAt, Ledger, Entry
  <1>4. \A l \in EntriesAt(s, x) : l.at_ms <= n.at_ms
    BY <1>1, <1>3, MoveIsLater
  <1>5. snap[w].owner # None
    BY <1>1 DEF Reached, ReachedAt
  <1>6. ProtectedUntil(snap[w].owner) <= n.at_ms
    BY <1>5, ChangeWaits
  <1>7. Rules.protection_ms \in Nat /\ ProtectedUntil(snap[w].owner) \in Int
    BY <1>1, <1>5, ProtectionTyped DEF SiteRow
  <1> HIDE DEF n, s, x
  <1>8. m.at_ms \in Nat
    BY <1>3 DEF s, x
  <1>9. m.at_ms + Rules.protection_ms <= n.at_ms
    BY <1>1, <1>2, <1>3, <1>4, <1>6, <1>7, <1>8 DEF Bound
  <1>10. QED
    BY <1>9 DEF n

LEMMA ProtectionNext ==
    ASSUME HistoryInv, Guarded, ProtectionHolds, [Next]_vars PROVE ProtectionHolds'
  <1> USE DEF HistoryInv
  <1>1. CASE UNCHANGED eventTable
    BY <1>1 DEF ProtectionHolds, Changes, Ledger
  <1>2. CASE Tick \/ SetBack \/ UNCHANGED vars
    BY <1>1, <1>2 DEF Tick, SetBack, vars, tables
  <1>3. ASSUME NEW w \in Workers, WorkerStep(w) PROVE ProtectionHolds'
    <2>1. CASE ~Moves(w)
      BY <1>1, <1>3, <2>1, EventsStay
    <2>2. CASE Moves(w)
      <3> DEFINE n == EntryOf(w)
      <3> DEFINE c == job[w].cand
      <3>1. SUFFICES ASSUME NEW s \in Seasons, NEW a \in Ledger(s)', NEW b \in Ledger(s)',
                            b.kind = "OWNERSHIP_CHANGED", a.cand.site = b.cand.site,
                            a.after.version < b.after.version, Shields(a)
                     PROVE  b.at_ms >= a.at_ms + Rules.protection_ms
        BY DEF ProtectionHolds, Changes, Shields, Draft
      <3>2. Ledger(s)' = IF s = c.season THEN Ledger(s) \union {n} ELSE Ledger(s)
        BY <2>2, LedgerGrows
      <3>3. CASE a \in Ledger(s) /\ b \in Ledger(s)
        BY <3>1, <3>3 DEF ProtectionHolds, Changes, Shields, Draft
      <3>4. CASE s = c.season /\ b = n /\ a \in Ledger(s)
        <4>1. n.cand.site = c.site
          BY <2>2, MoveFacts
        <4>2. a \in EntriesAt(c.season, c.site)
          BY <3>1, <3>4, <4>1 DEF EntriesAt
        <4>3. a.at_ms + Rules.protection_ms <= n.at_ms
          BY <2>2, <3>1, <3>4, <4>2, MoveRespects
        <4>4. a.at_ms \in Nat /\ n.at_ms \in Nat /\ Rules.protection_ms \in Nat
          <5>1. a \in Entry
            BY <3>4 DEF EventsFiled, Filed, Ledger
          <5>2. n.at_ms \in Nat
            BY <2>2, MoveFacts DEF Entry
          <5>3. QED
            BY <5>1, <5>2, RulesAssumption DEF RulesType, Entry
        <4> HIDE DEF n
        <4>5. QED
          BY <3>4, <4>3, <4>4
      <3>5. CASE s = c.season /\ a = n /\ b \in Ledger(s)
        <4>1. /\ n.cand.site = c.site /\ c.season \in Seasons /\ c.site \in Sites
              /\ status[s] = "ACTIVE" /\ snap[w] = site[s][c.site] /\ snap[w] \in SiteRow
          BY <2>2, <3>5, MoveFacts
        <4>2. b \in EntriesAt(s, c.site) /\ b \in Entry
          BY <3>1, <3>5, <4>1 DEF EntriesAt, EventsFiled, Filed, Ledger
        <4>3. b.after.version <= snap[w].version
          BY <3>5, <4>1, <4>2 DEF Chained, ChainedAt, LastOf, RowsOf
        <4>4. n.after.version = snap[w].version + 1
          BY <2>2, PlannedOwner
        <4>5. b.after.version \in Nat /\ snap[w].version \in Nat
          BY <4>1, <4>2 DEF Entry, SiteRow
        <4> HIDE DEF n
        <4>6. ~(n.after.version < b.after.version)
          BY <4>3, <4>4, <4>5
        <4>7. QED
          BY <3>1, <3>5, <4>6
      <3>6. CASE a = n /\ b = n
        <4>1. n.after.version \in Nat
          BY <2>2, MoveFacts DEF SiteRow
        <4> HIDE DEF n
        <4>2. ~(n.after.version < n.after.version)
          BY <4>1
        <4>3. QED
          BY <3>1, <3>6, <4>2
      <3>7. QED
        BY <3>2, <3>3, <3>4, <3>5, <3>6
    <2>3. QED
      BY <2>1, <2>2
  <1>4. QED
    BY <1>2, <1>3 DEF Next

\* However claims race for a site and however the wall clock is set, nobody
\* displaces an owner inside its protection (is_protected, plan_ownership).
THEOREM OwnersAreProtected == Spec => []ProtectionHolds
  <1>1. Init => Guarded /\ ProtectionHolds
    BY DEF Init, Guarded, GuardedAt, ProtectionHolds, Ledger
  <1>2. HistoryInv /\ Guarded /\ [Next]_vars => Guarded'
    BY GuardedNext
  <1>3. HistoryInv /\ Guarded /\ ProtectionHolds /\ [Next]_vars => ProtectionHolds'
    BY ProtectionNext
  <1>4. QED
    BY <1>1, <1>2, <1>3, HistoryHolds, PTL DEF Spec

------------------------------------------------------------------------------
\* Closing a season

\* The accounts of an active season are settled inside its window.
SettledAt(s, q) ==
    status[s] = "ACTIVE" /\ account[s][q] # None =>
      /\ Starts[s] <= account[s][q].last_ms /\ account[s][q].last_ms <= Ends[s]
      /\ account[s][q].current_count <= account[s][q].peak

Settled == \A s \in Seasons, q \in Pets : SettledAt(s, q)

LEMMA SettledNext ==
    ASSUME PolicyInv, PlanMade, Settled, [Next]_vars PROVE Settled'
  <1> USE DEF PolicyInv, FreshInv
  <1> SUFFICES ASSUME NEW s \in Seasons, NEW q \in Pets PROVE SettledAt(s, q)'
    BY DEF Settled
  <1>1. SettledAt(s, q)
    BY DEF Settled
  <1>2. CASE UNCHANGED HistoryRows(s)
    BY <1>1, <1>2 DEF HistoryRows, SettledAt
  <1>3. CASE Tick \/ SetBack \/ UNCHANGED vars
    BY <1>2, <1>3 DEF Tick, SetBack, vars, tables, HistoryRows
  <1>4. Starts[s] \in Nat /\ Ends[s] \in Nat /\ Starts[s] < Ends[s]
    BY WindowAssumption
  <1>5. ASSUME NEW w \in Workers, WorkerStep(w) PROVE SettledAt(s, q)'
    <2>1. CASE Moves(w) /\ s = job[w].cand.season
      <3> DEFINE c == job[w].cand
      <3> DEFINE p == plan[w]
      <3>1. /\ pc[w] = "save" /\ MadeFor(w) /\ DatedFor(w) /\ status[s] = "ACTIVE"
            /\ p.kind # "UNCHANGED"
        BY <2>1, MoveFacts DEF Moves
      <3>2. account'[s][q] = IF p.accounts[q] = None THEN account[s][q] ELSE p.accounts[q]
        <4>1. job[w].cand.season \in Seasons /\ s = job[w].cand.season
          BY <2>1, MoveFacts
        <4>2. QED
          BY <2>1, <4>1, AccountsSaved DEF Moves, PolicyInv, FreshInv
      <3>3. CASE q \in Affected(snap[w], c)
        <4>1. /\ p.accounts[q] \in Score /\ p.accounts[q].last_ms = p.at_ms
              /\ p.accounts[q].current_count <= p.accounts[q].peak
          BY <3>1, <3>3 DEF DatedFor
        <4>2. Starts[s] <= p.at_ms /\ p.at_ms < Ends[s] /\ p.at_ms \in Nat
          BY <2>1, <3>1 DEF MadeFor, ContextValid, InWindow
        <4>3. account'[s][q] = p.accounts[q]
          BY <3>2, <4>1, NoneAssumption
        <4>4. p.at_ms <= Ends[s]
          BY <1>4, <4>2
        <4>5. QED
          BY <4>1, <4>2, <4>3, <4>4 DEF SettledAt
      <3>4. CASE q \notin Affected(snap[w], c)
        <4>1. p.accounts[q] = None
          BY <3>1, <3>4 DEF PlanFits
        <4>2. account'[s][q] = account[s][q]
          BY <3>2, <4>1
        <4>3. QED
          BY <1>1, <3>1, <4>2 DEF SettledAt
      <3>5. QED
        BY <3>3, <3>4
    <2>2. CASE Finalize(w) /\ s = job[w].season
      BY <2>2 DEF Finalize, SettledAt, TypeInv, TypeOK, TablesTyped
    <2>3. CASE InsertSeason(w) /\ s = job[w].season
      <3> DEFINE held == {x \in Sites : job[w].owners[x] # None /\ job[w].owners[x].pet = q}
      <3> DEFINE n == Cardinality(held)
      <3> DEFINE k == Cardinality({x \in held : Counted(job[w].owners[x].verified) = 1})
      <3>1. account'[s][q] = ImportAccount(s, job[w].owners, q)
        BY <2>3 DEF InsertSeason, TypeInv, TypeOK, TablesTyped
      <3>2. ImportAccount(s, job[w].owners, q) =
              IF held = {} THEN None
              ELSE [NewScore(Starts[s]) EXCEPT
                      !.current_count = n, !.scoring_count = k, !.peak = n]
        BY DEF ImportAccount
      <3>3. n \in Nat
        BY FiniteAssumption, FS_Subset, FS_CardinalityType
      <3>4. NewScore(Starts[s]) \in Score /\ NewScore(Starts[s]).last_ms = Starts[s]
        BY <1>4 DEF NewScore, Score
      <3> HIDE DEF held, n, k
      <3>5. account'[s][q] # None =>
              /\ account'[s][q].last_ms = Starts[s]
              /\ account'[s][q].current_count = n /\ account'[s][q].peak = n
        BY <3>1, <3>2, <3>4 DEF Score
      <3>6. n <= n /\ Starts[s] <= Starts[s] /\ Starts[s] <= Ends[s]
        BY <1>4, <3>3
      <3>7. QED
        BY <3>5, <3>6 DEF SettledAt
    <2>4. QED
      BY <1>2, <1>5, <2>1, <2>2, <2>3, SeasonSteps
  <1>6. QED
    BY <1>3, <1>5 DEF Next

\* Whatever the last claims did and wherever the wall clock went, a season past
\* its end can be finalized (plan_finalization, all_scores).
THEOREM SeasonsCanClose == Spec => []SeasonCanClose
  <1>1. Init => Settled
    BY DEF Init, Settled, SettledAt
  <1>2. HistoryInv /\ Settled /\ [Next]_vars => Settled'
    BY SettledNext DEF HistoryInv
  <1>3. HistoryInv /\ Settled => SeasonCanClose
    <2> SUFFICES ASSUME HistoryInv, Settled, NEW s \in Seasons, status[s] = "ACTIVE",
                        clock >= Ends[s]
                 PROVE  CanSettle(s)
      BY DEF SeasonCanClose
    <2>1. AllScoresAgree(s)
      BY DEF HistoryInv, PolicyInv, CountsMatch
    <2>2. ASSUME NEW q \in AccountPets(s)
          PROVE  /\ Starts[s] <= account[s][q].last_ms
                 /\ Settleable(account[s][q], Ends[s])
      <3>1. q \in Pets /\ account[s][q] # None
        BY <2>2 DEF AccountPets
      <3>2. account[s][q] \in Score
        BY <3>1 DEF HistoryInv, PolicyInv, FreshInv, TypeInv, TypeOK, TablesTyped
      <3>3. /\ Starts[s] <= account[s][q].last_ms /\ account[s][q].last_ms <= Ends[s]
            /\ account[s][q].current_count <= account[s][q].peak
        BY <3>1 DEF Settled, SettledAt
      <3>4. account[s][q].scoring_count <= account[s][q].current_count
        <4> DEFINE held == OwnedSites(site[s], q)
        <4> DEFINE scoring == ScoringSites(site[s], q)
        <4>1. IsFiniteSet(held) /\ scoring \subseteq held
          BY FiniteAssumption, FS_Subset DEF OwnedSites, ScoringSites
        <4>2. Cardinality(scoring) <= Cardinality(held)
          BY <4>1, FS_Subset
        <4>3. QED
          BY <2>1, <2>2, <4>2 DEF AllScoresAgree, CountsAgree
      <3>5. account[s][q].last_ms \in Nat /\ Ends[s] \in Nat
        BY <3>2, WindowAssumption DEF Score
      <3>6. QED
        BY <3>3, <3>4, <3>5 DEF Settleable
    <2>3. Finalizable(s, status[s], Scores(s), clock)
      BY <2>2 DEF Finalizable, Scores
    <2>4. QED
      BY <2>1, <2>3 DEF CanSettle
  <1>4. QED
    BY <1>1, <1>2, <1>3, HistoryHolds, PTL DEF Spec


------------------------------------------------------------------------------
\* What a plan pays

LEMMA MovesKeepBonus ==
    ASSUME NEW score \in Score, NEW v
    PROVE  /\ Release(score, v).bonus = score.bonus
           /\ Acquire(score, v).bonus = score.bonus
  BY DEF Release, Acquire, Score

LEMMA RewardPays ==
    ASSUME NEW score \in Score, NEW points \in Nat, NEW takeover
    PROVE  Reward(score, points, takeover).bonus = score.bonus + points
  BY DEF Reward, Score

LEMMA PlanAccountPays ==
    ASSUME NEW row \in SiteRow, NEW c \in Candidate, NEW score \in Score, NEW p \in Pets,
           NEW at \in Nat, NEW paid, at >= score.last_ms,
           row.owner # None /\ row.owner.pet = p =>
             score.current_count >= 1 /\ score.scoring_count >= Counted(row.owner.verified)
    PROVE  PlanAccount(row, c, score, p, at, paid).bonus =
             score.bonus + (IF p = c.pet THEN PlanBonus(row, c, paid) ELSE 0)
  <1> DEFINE settled == Settle(score, at)
  <1> DEFINE released == IF row.owner # None /\ row.owner.pet = p
                           THEN Release(settled, row.owner.verified) ELSE settled
  <1> DEFINE acquired == IF p = c.pet THEN Acquire(released, Verified(c)) ELSE released
  <1>1. /\ settled \in Score /\ settled.bonus = score.bonus
        /\ settled.current_count = score.current_count
        /\ settled.scoring_count = score.scoring_count
    BY SettleType
  <1> HIDE DEF settled
  <1>2. released \in Score /\ released.bonus = score.bonus
    BY <1>1, ReleaseType, MovesKeepBonus
  <1> HIDE DEF released
  <1>3. acquired \in Score /\ acquired.bonus = score.bonus
    BY <1>2, AcquireType, MovesKeepBonus
  <1>4. Reward(acquired, PlanBonus(row, c, paid), row.owner # None).bonus =
          acquired.bonus + PlanBonus(row, c, paid)
    BY <1>3, RewardPays, PlanBonusNat
  <1>5. PlanAccount(row, c, score, p, at, paid) =
          IF p = c.pet /\ ~SamePet(row, c)
            THEN Reward(acquired, PlanBonus(row, c, paid), row.owner # None) ELSE acquired
    BY DEF PlanAccount, acquired, released, settled
  <1> HIDE DEF acquired
  <1>6. SamePet(row, c) => PlanBonus(row, c, paid) = 0
    BY DEF PlanBonus
  <1>7. score.bonus \in Nat
    BY DEF Score
  <1>8. QED
    BY <1>3, <1>4, <1>5, <1>6, <1>7

------------------------------------------------------------------------------
\* Plans that wait to be written

\* A plan is one of the three things the ledger allows a claim to do.
PaysFor(v) ==
    LET c == job[v].cand
        row == snap[v]
        p == plan[v]
    IN  /\ p.kind = PlanKind(row, c)
        /\ p.bonus \in {0, IF row.owner = None THEN Rules.claim_points
                           ELSE Rules.takeover_points}
        /\ SamePet(row, c) => p.bonus = 0
        /\ row.owner # None /\ row.owner.pet # c.pet => Verified(c)
        /\ p.kind # "UNCHANGED" =>
             /\ p.after.owner # None /\ p.after.owner.pet = c.pet
             /\ p.after.owner.verified = Verified(c)
             /\ \A q \in Pets : q \in Affected(row, c) =>
                  /\ p.accounts[q] # None
                  /\ p.accounts[q].bonus =
                       scores[v][q].bonus + (IF q = c.pet THEN p.bonus ELSE 0)

PlanPays == \A w \in Workers : pc[w] = "save" => PaysFor(w)

\* The points a transaction has read are the points on record.
ReadsFor(v) ==
    LET c == job[v].cand
    IN  \A p \in Affected(snap[v], c) : scores[v][p].bonus = PointsOf(account[c.season][p])

PointsRead == \A w \in Workers : pc[w] \in {"decide", "save"} => ReadsFor(w)

\* The standings about to be written carry the points on record.
KeepsFor(v) ==
    \A p \in AccountPets(job[v].season) :
      plan[v][p].score.bonus = account[job[v].season][p].bonus

StandingsKeepPoints == \A w \in Workers : pc[w] = "close" => KeepsFor(w)

\* A season that was never created has no accounts.
Unopened == \A s \in Seasons : status[s] = "NONE" => account[s] = NoScores

LedgerInv == PolicyInv /\ PlanPays /\ PointsRead /\ StandingsKeepPoints /\ Unopened

LEMMA PlanOwnerHolds ==
    ASSUME NEW row \in SiteRow, NEW c \in Candidate, NEW at \in Nat, ~Unchanged(row, c)
    PROVE  LET owner == PlanSite(row, c, at).owner
           IN  owner # None /\ owner.pet = c.pet /\ owner.verified = Verified(c)
  <1> DEFINE owner == PlanOwner(row, c, at)
  <1>1. owner \in Owner /\ owner # None
    BY PlanOwnerType, NoneAssumption
  <1>2. owner.pet = c.pet /\ owner.verified = Verified(c)
    <2>1. CASE SamePet(row, c)
      <3>1. row.owner \in Owner /\ row.owner.pet = c.pet
        BY <2>1 DEF SamePet, SiteRow
      <3>2. owner = [row.owner EXCEPT !.verified = Verified(c), !.certified_ms = at]
        BY <2>1 DEF PlanOwner
      <3>3. QED
        BY <3>1, <3>2 DEF Owner
    <2>2. CASE ~SamePet(row, c)
      BY <2>2 DEF PlanOwner
    <2>3. QED
      BY <2>1, <2>2
  <1>3. PlanSite(row, c, at).owner = owner
    BY DEF PlanSite
  <1> HIDE DEF owner
  <1>4. QED
    BY <1>1, <1>2, <1>3

LEMMA DecidePays == ASSUME TypeInv, NEW w \in Workers, Decide(w) PROVE PaysFor(w)'
  <1> DEFINE c == job[w].cand
  <1> DEFINE row == snap[w]
  <1> DEFINE paid == BonusPaid(c, clock)
  <1> DEFINE accounts == [q \in Pets |->
               IF q \in Affected(row, c) /\ ~Unchanged(row, c)
                 THEN PlanAccount(row, c, scores[w][q], q, clock, paid) ELSE None]
  <1> DEFINE after == PlanSite(row, c, clock)
  <1> DEFINE bonus == PlanBonus(row, c, paid)
  <1>1. /\ WorkerOK(w) /\ pc[w] = "decide" /\ c \in Candidate
        /\ row \in SiteRow /\ clock \in Nat
        /\ \A q \in Affected(row, c) : scores[w][q] \in Score
    BY JobTyped DEF Decide, TypeInv, TypeOK, TransactionsTyped, WorkerOK
  <1>2. PICK key :
          plan'[w] = [at_ms |-> clock, after |-> after, accounts |-> accounts,
                      bonus |-> bonus, key |-> key, kind |-> PlanKind(row, c)]
    BY DEF Decide, TypeInv, TypeOK, TransactionsTyped
  <1>3. /\ plan'[w].after = after /\ plan'[w].accounts = accounts
        /\ plan'[w].bonus = bonus /\ plan'[w].kind = PlanKind(row, c)
    BY <1>2
  <1>4. UNCHANGED <<job, snap, scores>>
    BY DEF Decide
  <1>5. row.owner # None /\ row.owner.pet # c.pet => Verified(c)
    BY DEF Decide, Admissible, ContextValid, TakeoverAllowed
  <1>6. /\ bonus \in {0, IF row.owner = None THEN Rules.claim_points
                         ELSE Rules.takeover_points}
        /\ SamePet(row, c) => bonus = 0
    BY DEF PlanBonus
  <1>7. ASSUME ~Unchanged(row, c)
        PROVE  /\ after.owner # None /\ after.owner.pet = c.pet
               /\ after.owner.verified = Verified(c)
               /\ \A q \in Pets : q \in Affected(row, c) =>
                    /\ accounts[q] # None
                    /\ accounts[q].bonus =
                         scores[w][q].bonus + (IF q = c.pet THEN bonus ELSE 0)
    <2>1. ScoresValid(row, c, scores[w], clock)
      BY <1>7 DEF Decide, Admissible
    <2>2. ASSUME NEW q \in Pets, q \in Affected(row, c)
          PROVE  /\ accounts[q] # None
                 /\ accounts[q].bonus = scores[w][q].bonus + (IF q = c.pet THEN bonus ELSE 0)
      <3>1. clock >= scores[w][q].last_ms
        BY <2>1, <2>2 DEF ScoresValid, Settleable
      <3>2. row.owner # None /\ row.owner.pet = q =>
              /\ scores[w][q].current_count >= 1
              /\ scores[w][q].scoring_count >= Counted(row.owner.verified)
        BY <2>1 DEF ScoresValid
      <3>3. accounts[q] = PlanAccount(row, c, scores[w][q], q, clock, paid)
        BY <1>7, <2>2
      <3>4. accounts[q] \in Score /\ accounts[q] # None
        BY <1>1, <2>2, <3>1, <3>2, <3>3, PlanAccountType, NoneAssumption
      <3>5. accounts[q].bonus = scores[w][q].bonus + (IF q = c.pet THEN bonus ELSE 0)
        BY <1>1, <2>2, <3>1, <3>2, <3>3, PlanAccountPays
      <3>6. QED
        BY <3>4, <3>5
    <2>3. after.owner # None /\ after.owner.pet = c.pet /\ after.owner.verified = Verified(c)
      BY <1>1, <1>7, PlanOwnerHolds
    <2> HIDE DEF accounts, after, bonus
    <2>4. QED
      BY <2>2, <2>3
  <1>8. PlanKind(row, c) # "UNCHANGED" => ~Unchanged(row, c)
    BY DEF PlanKind
  <1> HIDE DEF accounts, after, bonus, row
  <1>9. QED
    BY <1>3, <1>4, <1>5, <1>6, <1>7, <1>8 DEF PaysFor, row

LEMMA PaysNext == ASSUME TypeInv, PlanPays, [Next]_vars PROVE PlanPays'
  <1> SUFFICES ASSUME NEW v \in Workers, pc'[v] = "save" PROVE PaysFor(v)'
    BY DEF PlanPays
  <1>1. pc[v] = "save" => PaysFor(v)
    BY DEF PlanPays
  <1>2. CASE Tick \/ SetBack \/ UNCHANGED vars
    <2>1. UNCHANGED <<pc, job, snap, scores, plan>>
      BY <1>2 DEF Tick, SetBack, vars, work
    <2>2. QED
      BY <1>1, <2>1 DEF PaysFor
  <1>3. ASSUME NEW w \in Workers, WorkerStep(w) PROVE PaysFor(v)'
    <2>1. CASE v = w
      BY <1>3, <2>1, ArrivesBy, DecidePays
    <2>2. CASE v # w
      <3>1. Idle(v)
        BY <1>3, <2>2, OthersIdle
      <3>2. QED
        BY <1>1, <3>1 DEF PaysFor, Idle
    <2>3. QED
      BY <2>1, <2>2
  <1>4. QED
    BY <1>2, <1>3 DEF Next

------------------------------------------------------------------------------
\* What is read under the lock stays on record

LEMMA LoadReads == ASSUME TypeInv, NEW w \in Workers, Load(w) PROVE ReadsFor(w)'
  <1> DEFINE c == job[w].cand
  <1> DEFINE row == site[c.season][c.site]
  <1> DEFINE loaded == LoadedScores(c.season, Affected(row, c))
  <1>1. c \in Candidate /\ c.season \in Seasons /\ c.site \in Sites
    BY JobTyped DEF Load
  <1>2. Affected(row, c) \subseteq Pets
    BY <1>1, AffectedPets DEF TypeInv, TypeOK, TablesTyped
  <1>3. \A p \in Affected(row, c) : loaded[p].bonus = PointsOf(account[c.season][p])
    BY <1>2 DEF LoadedScores, NewScore, PointsOf
  <1>4. /\ snap'[w] = row /\ scores'[w] = loaded /\ UNCHANGED <<job, account>>
    BY DEF Load, tables, TypeInv, TypeOK, TransactionsTyped
  <1> HIDE DEF loaded
  <1>5. QED
    BY <1>3, <1>4 DEF ReadsFor, PointsOf

LEMMA ReadsKept ==
    ASSUME NEW v \in Workers, ReadsFor(v),
           UNCHANGED <<job[v], snap[v], scores[v]>>,
           NEW s, s = job[v].cand.season, UNCHANGED account[s]
    PROVE  ReadsFor(v)'
  BY DEF ReadsFor, PointsOf

LEMMA ReadsNext == ASSUME TypeInv, LockHeld, PointsRead, [Next]_vars PROVE PointsRead'
  <1> SUFFICES ASSUME NEW v \in Workers, pc'[v] \in {"decide", "save"}
               PROVE  ReadsFor(v)'
    BY DEF PointsRead
  <1>1. pc[v] \in {"decide", "save"} => ReadsFor(v)
    BY DEF PointsRead
  <1>2. CASE Tick \/ SetBack \/ UNCHANGED vars
    <2>1. UNCHANGED <<pc, job, snap, scores, account>>
      BY <1>2 DEF Tick, SetBack, vars, work, tables
    <2>2. QED
      BY <1>1, <2>1, ReadsKept
  <1>3. ASSUME NEW w \in Workers, WorkerStep(w) PROVE ReadsFor(v)'
    <2>1. CASE v # w
      <3>1. Idle(v)
        BY <1>3, <2>1, OthersIdle
      <3>2. /\ pc[v] \in {"decide", "save"}
            /\ job[v].season \in Seasons /\ job[v].cand.season = job[v].season
        BY <3>1, JobTyped DEF Idle, WorkerOK
      <3>3. PICK s \in Seasons : s = job[v].season
        BY <3>2
      <3>4. UNCHANGED SeasonRows(s)
        BY <1>3, <2>1, <3>2, <3>3, Undisturbed DEF Holding
      <3>5. UNCHANGED account[s] /\ s = job[v].cand.season
        BY <3>2, <3>3, <3>4 DEF SeasonRows
      <3>6. QED
        BY <1>1, <3>1, <3>2, <3>5, ReadsKept DEF Idle
    <2>2. CASE v = w /\ Load(w)
      BY <2>2, LoadReads
    <2>3. CASE v = w /\ Decide(w)
      <3>1. pc[v] = "decide" /\ UNCHANGED <<job, snap, scores, account>>
        BY <2>3 DEF Decide, tables
      <3>2. QED
        BY <1>1, <3>1, ReadsKept
    <2>4. CASE v = w /\ ~Load(w) /\ ~Decide(w)
      <3>1. pc'[w] \notin {"decide", "save"}
        BY <1>3, <2>4, ArrivesBy
      <3>2. QED
        BY <2>4, <3>1
    <2>5. QED
      BY <2>1, <2>2, <2>3, <2>4
  <1>4. QED
    BY <1>2, <1>3 DEF Next

LEMMA PlanFinalizationKeeps ==
    ASSUME TypeInv, NEW w \in Workers, PlanFinalization(w) PROVE KeepsFor(w)'
  <1> DEFINE s == job[w].season
  <1>1. pc[w] = "settle" /\ s \in Seasons
    BY JobTyped DEF PlanFinalization
  <1>2. CanSettle(s)
    BY DEF PlanFinalization
  <1>3. plan'[w] = PlanResults(s, Scores(s)) /\ UNCHANGED <<job, account>>
    BY DEF PlanFinalization, tables, TypeInv, TypeOK, TransactionsTyped
  <1>4. ASSUME NEW p \in AccountPets(s)
        PROVE  plan'[w][p].score.bonus = account[s][p].bonus
    <2>1. /\ DOMAIN Scores(s) = AccountPets(s) /\ Scores(s)[p] = account[s][p]
      BY <1>4 DEF Scores
    <2>2. account[s][p] \in Score
      BY <1>1, <1>4 DEF AccountPets, TypeInv, TypeOK, TablesTyped
    <2>3. Ends[s] >= account[s][p].last_ms /\ Ends[s] \in Nat
      BY <1>1, <1>2, <2>1, WindowAssumption DEF CanSettle, Finalizable, Settleable
    <2>4. plan'[w][p].score = Settle(account[s][p], Ends[s])
      <3>1. plan'[w][p] = PlanResults(s, Scores(s))[p]
        BY <1>3
      <3>2. QED
        BY <1>4, <2>1, <3>1 DEF PlanResults
    <2>5. QED
      BY <2>2, <2>3, <2>4, SettleType
  <1>5. QED
    BY <1>3, <1>4 DEF KeepsFor, AccountPets

LEMMA KeepsNext ==
    ASSUME TypeInv, LockHeld, StandingsKeepPoints, [Next]_vars PROVE StandingsKeepPoints'
  <1> SUFFICES ASSUME NEW v \in Workers, pc'[v] = "close" PROVE KeepsFor(v)'
    BY DEF StandingsKeepPoints
  <1>1. pc[v] = "close" => KeepsFor(v)
    BY DEF StandingsKeepPoints
  <1>2. CASE Tick \/ SetBack \/ UNCHANGED vars
    <2>1. UNCHANGED <<pc, job, plan, account>>
      BY <1>2 DEF Tick, SetBack, vars, work, tables
    <2>2. QED
      BY <1>1, <2>1 DEF KeepsFor, AccountPets
  <1>3. ASSUME NEW w \in Workers, WorkerStep(w) PROVE KeepsFor(v)'
    <2>1. CASE v = w
      BY <1>3, <2>1, ArrivesBy, PlanFinalizationKeeps
    <2>2. CASE v # w
      <3>1. Idle(v) /\ pc[v] = "close"
        BY <1>3, <2>2, OthersIdle DEF Idle
      <3>2. PICK s \in Seasons : s = job[v].season
        BY <3>1, JobTyped
      <3>3. UNCHANGED SeasonRows(s)
        BY <1>3, <2>2, <3>1, <3>2, Undisturbed DEF Holding
      <3>4. UNCHANGED <<account[s], plan[v]>> /\ job'[v].season = s
        BY <3>1, <3>2, <3>3 DEF SeasonRows, Idle
      <3>5. KeepsFor(v)
        BY <1>1, <3>1
      <3>6. QED
        BY <3>2, <3>4, <3>5 DEF KeepsFor, AccountPets
    <2>3. QED
      BY <2>1, <2>2
  <1>4. QED
    BY <1>2, <1>3 DEF Next

LEMMA UnopenedNext ==
    ASSUME PolicyInv, Unopened, [Next]_vars PROVE Unopened'
  <1> USE DEF PolicyInv, FreshInv
  <1> SUFFICES ASSUME NEW s \in Seasons, status'[s] = "NONE" PROVE account'[s] = NoScores
    BY DEF Unopened, NoScores
  <1>1. CASE UNCHANGED <<status[s], account[s]>>
    BY <1>1 DEF Unopened
  <1>2. CASE Tick \/ SetBack \/ UNCHANGED vars
    BY <1>1, <1>2 DEF Tick, SetBack, vars, tables
  <1>3. ASSUME NEW w \in Workers, WorkerStep(w) PROVE account'[s] = NoScores
    <2>1. CASE ~Writes(w) \/ Register(w)
      BY <1>1, <1>3, <2>1, ReadersLeaveTables DEF tables, Register
    <2>2. CASE Save(w)
      <3>1. status[job[w].cand.season] = "ACTIVE" /\ UNCHANGED status
        BY <2>2 DEF Save, CanSave
      <3>2. QED
        BY <1>1, <2>2, <3>1, SaveRows DEF SeasonRows
    <2>3. CASE Finalize(w)
      <3>1. job[w].season \in Seasons /\ status'[job[w].season] = "FINALIZED"
        BY <2>3, JobTyped DEF Finalize, TypeInv, TypeOK, TablesTyped
      <3>2. QED
        BY <1>1, <2>3, <3>1, FinalizeRows DEF SeasonRows
    <2>4. CASE InsertSeason(w)
      <3>1. job[w].season \in Seasons /\ status'[job[w].season] = "ACTIVE"
        BY <2>4, JobTyped DEF InsertSeason, TypeInv, TypeOK, TablesTyped
      <3>2. QED
        BY <1>1, <2>4, <3>1, InsertSeasonRows DEF SeasonRows
    <2>5. QED
      BY <2>1, <2>2, <2>3, <2>4 DEF Writes
  <1>4. QED
    BY <1>2, <1>3 DEF Next

LEMMA LedgerInvInit == Init => LedgerInv
  <1> SUFFICES ASSUME Init PROVE LedgerInv
    OBVIOUS
  <1>1. PlanPays /\ PointsRead /\ StandingsKeepPoints
    BY DEF Init, PlanPays, PointsRead, StandingsKeepPoints
  <1>2. Unopened
    BY DEF Init, Unopened
  <1>3. QED
    BY <1>1, <1>2, PolicyInit DEF LedgerInv

LEMMA LedgerInvNext == ASSUME LedgerInv, [Next]_vars PROVE LedgerInv'
  BY PolicyNext, PaysNext, ReadsNext, KeepsNext, UnopenedNext
     DEF LedgerInv, PolicyInv, FreshInv

------------------------------------------------------------------------------
\* The tables in the ledger's terms

LEMMA HolderOfType ==
    ASSUME NEW row \in SiteRow
    PROVE  /\ HolderOf(row) = None <=> row.owner = None
           /\ row.owner # None => /\ HolderOf(row) \in [pet: Pets, verified: BOOLEAN]
                                  /\ HolderOf(row).pet = row.owner.pet
                                  /\ HolderOf(row).verified = row.owner.verified
                                  /\ HolderOf(row) = [pet |-> row.owner.pet,
                                                      verified |-> row.owner.verified]
  BY HolderAssumption DEF HolderOf, SiteRow, Owner

\* One row of one season changes.
LEMMA HoldersMove ==
    ASSUME TablesTyped, NEW s \in Seasons, NEW x \in Sites, NEW row,
           site' = [site EXCEPT ![s][x] = row]
    PROVE  Holders' = [Holders EXCEPT ![s][x] = HolderOf(row)]
  <1>1. \A r \in Seasons, y \in Sites :
          site'[r][y] = IF r = s /\ y = x THEN row ELSE site[r][y]
    BY DEF TablesTyped
  <1>2. Holders' = [r \in Seasons |-> [y \in Sites |-> HolderOf(site'[r][y])]]
    BY DEF Holders, HolderOf
  <1>3. \A r \in Seasons, y \in Sites :
          Holders'[r][y] = IF r = s /\ y = x THEN HolderOf(row) ELSE Holders[r][y]
    BY <1>1, <1>2 DEF Holders
  <1> DEFINE moved == [Holders EXCEPT ![s][x] = HolderOf(row)]
  <1>4. /\ moved = [r \in Seasons |-> moved[r]]
        /\ \A r \in Seasons : moved[r] = [y \in Sites |-> moved[r][y]]
        /\ \A r \in Seasons, y \in Sites :
             moved[r][y] = IF r = s /\ y = x THEN HolderOf(row) ELSE Holders[r][y]
    BY DEF Holders
  <1> HIDE DEF moved
  <1>5. \A r \in Seasons : Holders'[r] = moved[r]
    BY <1>2, <1>3, <1>4
  <1>6. Holders' = moved
    BY <1>2, <1>4, <1>5
  <1>7. QED
    BY <1>6 DEF moved

LEMMA DecidedMove ==
    ASSUME TablesTyped, NEW s \in Seasons, NEW e \in Events, NEW r,
           receipt' = [receipt EXCEPT ![s][e] = r]
    PROVE  Decided' = [Decided EXCEPT ![s][e] = DecidedOf(r)]
  <1>1. \A t \in Seasons, f \in Events :
          receipt'[t][f] = IF t = s /\ f = e THEN r ELSE receipt[t][f]
    BY DEF TablesTyped
  <1>2. Decided' = [t \in Seasons |-> [f \in Events |-> DecidedOf(receipt'[t][f])]]
    BY DEF Decided, DecidedOf
  <1>3. \A t \in Seasons, f \in Events :
          Decided'[t][f] = IF t = s /\ f = e THEN DecidedOf(r) ELSE Decided[t][f]
    BY <1>1, <1>2 DEF Decided
  <1> DEFINE moved == [Decided EXCEPT ![s][e] = DecidedOf(r)]
  <1>4. /\ moved = [t \in Seasons |-> moved[t]]
        /\ \A t \in Seasons : moved[t] = [f \in Events |-> moved[t][f]]
        /\ \A t \in Seasons, f \in Events :
             moved[t][f] = IF t = s /\ f = e THEN DecidedOf(r) ELSE Decided[t][f]
    BY DEF Decided
  <1> HIDE DEF moved
  <1>5. \A t \in Seasons : Decided'[t] = moved[t]
    BY <1>2, <1>3, <1>4
  <1>6. Decided' = moved
    BY <1>2, <1>4, <1>5
  <1>7. QED
    BY <1>6 DEF moved

\* One pet of one season is paid, and nobody else is.
LEMMA SeasonPaid ==
    ASSUME NEW s \in Seasons, NEW p \in Pets, NEW bonus,
           \A r \in Seasons, q \in Pets :
             PointsOf(account'[r][q]) = IF r = s /\ q = p THEN PointsOf(account[r][q]) + bonus
                                        ELSE PointsOf(account[r][q])
    PROVE  Paid' = [Paid EXCEPT ![s][p] = @ + bonus]
  <1>1. Paid' = [r \in Seasons |-> [q \in Pets |-> PointsOf(account'[r][q])]]
    BY DEF Paid, PointsOf
  <1>2. \A r \in Seasons, q \in Pets :
          Paid'[r][q] = IF r = s /\ q = p THEN Paid[r][q] + bonus ELSE Paid[r][q]
    BY <1>1 DEF Paid
  <1> DEFINE moved == [Paid EXCEPT ![s][p] = @ + bonus]
  <1>3. /\ moved = [r \in Seasons |-> moved[r]]
        /\ \A r \in Seasons : moved[r] = [q \in Pets |-> moved[r][q]]
        /\ \A r \in Seasons, q \in Pets :
             moved[r][q] = IF r = s /\ q = p THEN Paid[r][q] + bonus ELSE Paid[r][q]
    BY DEF Paid
  <1> HIDE DEF moved
  <1>4. \A r \in Seasons : Paid'[r] = moved[r]
    BY <1>1, <1>2, <1>3
  <1>5. Paid' = moved
    BY <1>1, <1>3, <1>4
  <1>6. QED
    BY <1>5 DEF moved

LEMMA PaidStays ==
    ASSUME \A r \in Seasons, q \in Pets : PointsOf(account'[r][q]) = PointsOf(account[r][q])
    PROVE  UNCHANGED Paid
  BY DEF Paid, PointsOf

------------------------------------------------------------------------------
\* Every step is one of the ledger's, or none

\* The row a saving transaction replaces, and what its plan says of it.
LEMMA SavingRow ==
    ASSUME LedgerInv, NEW w \in Workers, Save(w)
    PROVE  LET c == job[w].cand
           IN  /\ pc[w] = "save" /\ PaysFor(w) /\ ReadsFor(w)
               /\ c.season \in Seasons /\ c.event \in Events /\ c.site \in Sites
               /\ c.pet \in Pets
               /\ snap[w] = site[c.season][c.site] /\ snap[w] \in SiteRow
               /\ plan[w].after \in SiteRow
  <1> USE DEF LedgerInv, PolicyInv, FreshInv
  <1>1. pc[w] = "save"
    BY DEF Save
  <1>2. PaysFor(w) /\ ReadsFor(w)
    BY <1>1 DEF PlanPays, PointsRead
  <1>3. snap[w] = site[job[w].cand.season][job[w].cand.site]
    BY <1>1 DEF SnapshotFresh
  <1>4. QED
    BY <1>1, <1>2, <1>3, SavedRows

LEMMA SavePays ==
    ASSUME LedgerInv, NEW w \in Workers, Save(w)
    PROVE  Paid' = [Paid EXCEPT ![job[w].cand.season][job[w].cand.pet] = @ + plan[w].bonus]
  <1> DEFINE c == job[w].cand
  <1> DEFINE p == plan[w]
  <1> DEFINE row == snap[w]
  <1> USE DEF LedgerInv, PolicyInv, FreshInv
  <1>1. /\ pc[w] = "save" /\ PaysFor(w) /\ ReadsFor(w)
        /\ c.season \in Seasons /\ c.pet \in Pets
    BY SavingRow
  <1>2. account \in [Seasons -> [Pets -> Score \union {None}]]
    BY DEF TypeInv, TypeOK, TablesTyped
  <1>3. \A r \in Seasons, q \in Pets : PointsOf(account[r][q]) \in Nat
    BY <1>2 DEF PointsOf, Score
  <1>4. ASSUME NEW r \in Seasons, NEW q \in Pets
        PROVE  PointsOf(account'[r][q]) =
                 IF r = c.season /\ q = c.pet THEN PointsOf(account[r][q]) + p.bonus
                 ELSE PointsOf(account[r][q])
    <2>1. CASE p.kind = "UNCHANGED"
      <3>1. p.bonus = 0
        BY <1>1, <2>1 DEF PaysFor, PlanKind, Unchanged
      <3>2. UNCHANGED account
        BY <2>1 DEF Save
      <3>3. QED
        BY <1>3, <3>1, <3>2 DEF PointsOf
    <2>2. CASE p.kind # "UNCHANGED" /\ r # c.season
      <3>1. account'[r] = account[r]
        BY <1>1, <1>2, <2>2 DEF Save
      <3>2. QED
        BY <2>2, <3>1 DEF PointsOf
    <2>3. CASE p.kind # "UNCHANGED" /\ r = c.season
      <3>1. account'[r][q] = IF p.accounts[q] = None THEN account[r][q] ELSE p.accounts[q]
        BY <1>1, <2>3, AccountsSaved
      <3>2. CASE q \in Affected(row, c)
        <4>1. /\ p.accounts[q] # None
              /\ p.accounts[q].bonus =
                   scores[w][q].bonus + (IF q = c.pet THEN p.bonus ELSE 0)
          BY <1>1, <2>3, <3>2 DEF PaysFor
        <4>2. scores[w][q].bonus = PointsOf(account[r][q])
          BY <1>1, <2>3, <3>2 DEF ReadsFor
        <4>3. PointsOf(account'[r][q]) = p.accounts[q].bonus
          BY <3>1, <4>1 DEF PointsOf
        <4>4. QED
          BY <1>3, <2>3, <4>1, <4>2, <4>3
      <3>3. CASE q \notin Affected(row, c)
        <4>1. p.accounts[q] = None
          BY <1>1, <2>3, <3>3 DEF PlanFits
        <4>2. q # c.pet
          BY <3>3 DEF Affected
        <4>3. QED
          BY <3>1, <4>1, <4>2 DEF PointsOf
      <3>4. QED
        BY <3>2, <3>3
    <2>4. QED
      BY <2>1, <2>2, <2>3
  <1>5. PICK s \in Seasons, pet \in Pets, bonus \in {p.bonus} :
          s = c.season /\ pet = c.pet /\ bonus = p.bonus
    BY <1>1
  <1>6. \A r \in Seasons, q \in Pets :
          PointsOf(account'[r][q]) = IF r = s /\ q = pet THEN PointsOf(account[r][q]) + bonus
                                     ELSE PointsOf(account[r][q])
    BY <1>4, <1>5
  <1>7. Paid' = [Paid EXCEPT ![s][pet] = @ + bonus]
    BY <1>6, SeasonPaid
  <1>8. QED
    BY <1>5, <1>7

\* Whatever a claim does, it puts one decision and one payment on record.
LEMMA SaveRecords ==
    ASSUME LedgerInv, NEW w \in Workers, Save(w)
    PROVE  LET c == job[w].cand
           IN  Promise!Record(c.season, c.event, c.pet, plan[w].bonus)
  <1> DEFINE c == job[w].cand
  <1> DEFINE p == plan[w]
  <1> DEFINE written == ReceiptOf(c, p, snap[w])
  <1> USE DEF LedgerInv, PolicyInv, FreshInv
  <1>1. /\ pc[w] = "save"
        /\ c.season \in Seasons /\ c.event \in Events /\ c.pet \in Pets
    BY SavingRow
  <1>2. status[c.season] = "ACTIVE" /\ UNCHANGED status
    BY DEF Save, CanSave
  <1>3. Decided[c.season][c.event] = None
    BY <1>1 DEF Save, CanSave, Decided, DecidedOf
  <1>4. Decided' = [Decided EXCEPT ![c.season][c.event] = [pet |-> c.pet, bonus |-> p.bonus]]
    <2>1. receipt' = [receipt EXCEPT ![c.season][c.event] = written]
      BY DEF Save
    <2>2. written # None
      BY <1>1, SavedRows, NullAssumption
    <2>3. DecidedOf(written) = [pet |-> c.pet, bonus |-> p.bonus]
      BY <2>2 DEF DecidedOf, ReceiptOf
    <2> HIDE DEF written
    <2>4. QED
      BY <1>1, <2>1, <2>3, DecidedMove DEF TypeInv, TypeOK
  <1>5. Paid' = [Paid EXCEPT ![c.season][c.pet] = @ + p.bonus]
    BY SavePays
  <1>6. QED
    BY <1>2, <1>3, <1>4, <1>5 DEF Promise!Record

LEMMA Certified ==
    ASSUME NEW p \in Pets, NEW h, h = [pet |-> p, verified |-> FALSE]
    PROVE  [h EXCEPT !.verified = TRUE] = [pet |-> p, verified |-> TRUE]
  <1> DEFINE certified == [h EXCEPT !.verified = TRUE]
  <1>1. h \in [pet: Pets, verified: BOOLEAN] /\ h.pet = p
    OBVIOUS
  <1>2. /\ certified \in [pet: Pets, verified: BOOLEAN]
        /\ certified.pet = p /\ certified.verified = TRUE
    BY <1>1
  <1> HIDE DEF certified
  <1>3. certified = [pet |-> p, verified |-> TRUE]
    BY <1>2
  <1>4. QED
    BY <1>3 DEF certified

LEMMA SaveIsALedgerStep ==
    ASSUME LedgerInv, NEW w \in Workers, Save(w) PROVE Promise!Next
  <1> DEFINE c == job[w].cand
  <1> DEFINE p == plan[w]
  <1> DEFINE row == snap[w]
  <1> USE DEF LedgerInv, PolicyInv, FreshInv
  <1>1. /\ pc[w] = "save" /\ PaysFor(w)
        /\ c.season \in Seasons /\ c.event \in Events /\ c.site \in Sites
        /\ c.pet \in Pets
        /\ row = site[c.season][c.site] /\ row \in SiteRow
        /\ p.after \in SiteRow
    BY SavingRow
  <1>2. Promise!Record(c.season, c.event, c.pet, p.bonus)
    BY SaveRecords
  <1>3. Holders[c.season][c.site] = HolderOf(row)
    BY <1>1 DEF Holders
  <1>4. Verified(c) \in BOOLEAN
    BY DEF Verified
  <1>5. ASSUME p.kind # "UNCHANGED"
        PROVE  Holders' = [Holders EXCEPT ![c.season][c.site] =
                             [pet |-> c.pet, verified |-> Verified(c)]]
    <2>1. HolderOf(p.after) = [pet |-> c.pet, verified |-> Verified(c)]
      BY <1>1, <1>5, HolderOfType DEF PaysFor
    <2>2. site' = [site EXCEPT ![c.season][c.site] = p.after]
      BY <1>5 DEF Save
    <2>3. QED
      BY <1>1, <2>1, <2>2, HoldersMove DEF TypeInv, TypeOK
  <1>6. CASE Unchanged(row, c)
    <2>1. p.kind = "UNCHANGED" /\ SamePet(row, c) /\ p.bonus = 0
      BY <1>1, <1>6 DEF PaysFor, PlanKind, Unchanged
    <2>2. UNCHANGED Holders
      BY <2>1 DEF Save, Holders, HolderOf
    <2>3. Holders[c.season][c.site] # None /\ Holders[c.season][c.site].pet = c.pet
      BY <1>1, <1>3, <2>1, HolderOfType DEF SamePet
    <2>4. Promise!Keep(c.season, c.event, c.site, c.pet)
      BY <1>2, <2>1, <2>2, <2>3 DEF Promise!Keep
    <2>5. QED
      BY <1>1, <2>4 DEF Promise!Next
  <1>7. CASE ~Unchanged(row, c) /\ SamePet(row, c)
    <2>1. /\ p.kind # "UNCHANGED" /\ p.bonus = 0
          /\ row.owner # None /\ row.owner.pet = c.pet
          /\ ~row.owner.verified /\ Verified(c)
      BY <1>1, <1>7 DEF PaysFor, PlanKind, Unchanged, SamePet
    <2>2. row.owner.verified \in BOOLEAN
      BY <1>1, <2>1 DEF SiteRow, Owner
    <2>3. Holders[c.season][c.site] = [pet |-> c.pet, verified |-> FALSE]
      BY <1>1, <1>3, <2>1, <2>2, HolderOfType
    <2>4. Holders' = [Holders EXCEPT ![c.season][c.site].verified = TRUE]
      <3>1. Holders' = [Holders EXCEPT ![c.season][c.site] =
                          [pet |-> c.pet, verified |-> TRUE]]
        BY <1>4, <1>5, <2>1
      <3>2. [Holders[c.season][c.site] EXCEPT !.verified = TRUE] =
              [pet |-> c.pet, verified |-> TRUE]
        BY <1>1, <2>3, Certified
      <3>3. QED
        BY <3>1, <3>2
    <2>5. Promise!Certify(c.season, c.event, c.site, c.pet)
      BY <1>2, <2>1, <2>3, <2>4 DEF Promise!Certify
    <2>6. QED
      BY <1>1, <2>5 DEF Promise!Next
  <1>8. CASE ~SamePet(row, c)
    <2>1. p.kind # "UNCHANGED"
      BY <1>1, <1>8 DEF PaysFor, PlanKind, Unchanged
    <2>2. Holders[c.season][c.site] = None <=> row.owner = None
      BY <1>1, <1>3, HolderOfType
    <2>3. Holders[c.season][c.site] # None =>
            Holders[c.season][c.site].pet # c.pet /\ Verified(c)
      BY <1>1, <1>3, <1>8, <2>2, HolderOfType DEF SamePet, PaysFor
    <2>4. p.bonus \in {0, IF Holders[c.season][c.site] = None
                            THEN Rules.claim_points ELSE Rules.takeover_points}
      BY <1>1, <2>2 DEF PaysFor
    <2>5. Holders' = [Holders EXCEPT ![c.season][c.site] =
                        [pet |-> c.pet, verified |-> Verified(c)]]
      BY <1>5, <2>1
    <2>6. Promise!Take(c.season, c.event, c.site, c.pet)
      BY <1>2, <1>4, <2>3, <2>4, <2>5 DEF Promise!Take
    <2>7. QED
      BY <1>1, <2>6 DEF Promise!Next
  <1>9. QED
    BY <1>6, <1>7, <1>8

\* All the rows of one season change.
LEMMA HoldersOfSeason ==
    ASSUME TablesTyped, NEW s \in Seasons, NEW rows, site' = [site EXCEPT ![s] = rows]
    PROVE  Holders' = [Holders EXCEPT ![s] = [x \in Sites |-> HolderOf(rows[x])]]
  <1> DEFINE held == [x \in Sites |-> HolderOf(rows[x])]
  <1> DEFINE moved == [Holders EXCEPT ![s] = held]
  <1>1. Holders' = [r \in Seasons |-> [y \in Sites |-> HolderOf(site'[r][y])]]
    BY DEF Holders, HolderOf
  <1>2. \A r \in Seasons : site'[r] = IF r = s THEN rows ELSE site[r]
    BY DEF TablesTyped
  <1>3. \A r \in Seasons : Holders'[r] = IF r = s THEN held ELSE Holders[r]
    BY <1>1, <1>2 DEF Holders
  <1>4. /\ moved = [r \in Seasons |-> moved[r]]
        /\ \A r \in Seasons : moved[r] = IF r = s THEN held ELSE Holders[r]
    BY DEF Holders
  <1> HIDE DEF moved, held
  <1> DEFINE after == [r \in Seasons |-> Holders'[r]]
  <1>5. Holders' = after
    BY <1>1
  <1>6. \A r \in Seasons : after[r] = moved[r]
    BY <1>3, <1>4
  <1>7. after = [r \in Seasons |-> moved[r]]
    BY <1>6
  <1>8. after = moved
    BY <1>4, <1>7
  <1>9. QED
    BY <1>5, <1>8 DEF moved, held

LEMMA FinalizeIsALedgerStep ==
    ASSUME LedgerInv, NEW w \in Workers, Finalize(w) PROVE Promise!Next
  <1> DEFINE s == job[w].season
  <1> DEFINE standings == plan[w]
  <1> DEFINE freed == [x \in Sites |->
               IF site[s][x].owner = None THEN site[s][x]
               ELSE [version |-> site[s][x].version + 1, owner |-> None]]
  <1> USE DEF LedgerInv, PolicyInv, FreshInv
  <1>1. /\ pc[w] = "close" /\ s \in Seasons /\ status[s] = "ACTIVE"
        /\ DOMAIN standings = AccountPets(s) /\ KeepsFor(w)
        /\ \A p \in AccountPets(s) : standings[p] \in Standing
    BY JobTyped DEF Finalize, ClosingFits, StandingsKeepPoints, WorkerOK
  <1>2. status' = [status EXCEPT ![s] = "FINALIZED"] /\ UNCHANGED receipt
    BY DEF Finalize
  <1>3. UNCHANGED Decided
    BY <1>2 DEF Decided, DecidedOf
  <1>4. Holders' = [Holders EXCEPT ![s] = [x \in Sites |-> None]]
    <2>1. site' = [site EXCEPT ![s] = freed]
      BY DEF Finalize
    <2>2. \A x \in Sites : HolderOf(freed[x]) = None
      BY DEF HolderOf
    <2> HIDE DEF freed
    <2>3. [x \in Sites |-> HolderOf(freed[x])] = [x \in Sites |-> None]
      BY <2>2
    <2>4. Holders' = [Holders EXCEPT ![s] = [x \in Sites |-> HolderOf(freed[x])]]
      BY <1>1, <2>1, HoldersOfSeason DEF TypeInv, TypeOK
    <2>5. QED
      BY <2>3, <2>4
  <1>5. UNCHANGED Paid
    <2>1. account \in [Seasons -> [Pets -> Score \union {None}]]
      BY DEF TypeInv, TypeOK, TablesTyped
    <2>2. ASSUME NEW r \in Seasons, NEW p \in Pets
          PROVE  PointsOf(account'[r][p]) = PointsOf(account[r][p])
      <3>1. CASE r # s \/ p \notin AccountPets(s)
        <4>1. account'[r][p] = account[r][p]
          BY <1>1, <2>1, <3>1 DEF Finalize
        <4>2. QED
          BY <4>1 DEF PointsOf
      <3>2. CASE r = s /\ p \in AccountPets(s)
        <4>1. account'[r][p] = Retired(standings[p].score)
          BY <1>1, <2>1, <3>2 DEF Finalize
        <4>2. standings[p].score \in Score
          BY <1>1, <3>2 DEF Standing
        <4>3. /\ Retired(standings[p].score) \in Score
              /\ Retired(standings[p].score).bonus = standings[p].score.bonus
          BY <4>2 DEF Retired, Score
        <4>4. standings[p].score.bonus = account[s][p].bonus /\ account[s][p] # None
          BY <1>1, <3>2 DEF KeepsFor, AccountPets
        <4>5. QED
          BY <3>2, <4>1, <4>3, <4>4, NoneAssumption DEF PointsOf
      <3>3. QED
        BY <3>1, <3>2
    <2>3. QED
      BY <2>2, PaidStays
  <1>6. Promise!Close(s)
    BY <1>1, <1>2, <1>3, <1>4, <1>5 DEF Promise!Close
  <1>7. QED
    BY <1>1, <1>6 DEF Promise!Next

LEMMA InsertIsALedgerStep ==
    ASSUME LedgerInv, NEW w \in Workers, InsertSeason(w) PROVE Promise!Next
  <1> DEFINE s == job[w].season
  <1> DEFINE owners == job[w].owners
  <1> DEFINE rows == [x \in Sites |-> ImportRow(s, owners[x])]
  <1> DEFINE carried == [x \in Sites |-> HolderOf(rows[x])]
  <1> USE DEF LedgerInv, PolicyInv, FreshInv
  <1>1. /\ s \in Seasons /\ status[s] = "NONE"
        /\ \A x \in Sites : owners[x] \in Owner \union {None}
    <2>1. pc[w] = "insert_season" /\ status[s] = "NONE"
      BY DEF InsertSeason, CanInsert
    <2>2. s \in Seasons /\ owners \in Imports[s]
      BY <2>1, JobTyped DEF WorkerOK
    <2>3. QED
      BY <2>1, <2>2, ImportsAssumption DEF ImportedOwners
  <1>2. status' = [status EXCEPT ![s] = "ACTIVE"] /\ UNCHANGED receipt
    BY DEF InsertSeason
  <1>3. UNCHANGED Decided
    BY <1>2 DEF Decided, DecidedOf
  <1>4. Holders' = [Holders EXCEPT ![s] = carried]
    <2>1. site' = [site EXCEPT ![s] = rows]
      BY DEF InsertSeason
    <2> HIDE DEF rows
    <2>2. QED
      BY <1>1, <2>1, HoldersOfSeason DEF TypeInv, TypeOK
  <1>5. carried \in [Sites -> Promise!Holder \union {None}]
    <2>1. ASSUME NEW x \in Sites
          PROVE  HolderOf(rows[x]) \in [pet: Pets, verified: BOOLEAN] \union {None}
      <3>1. rows[x] \in SiteRow
        BY <1>1, ImportRowType
      <3> HIDE DEF rows
      <3>2. QED
        BY <3>1, HolderOfType
    <2> HIDE DEF rows
    <2>2. QED
      BY <2>1 DEF Promise!Holder
  <1>6. UNCHANGED Paid
    <2>1. account' = [account EXCEPT ![s] = [p \in Pets |-> ImportAccount(s, owners, p)]]
      BY DEF InsertSeason
    <2>2. account[s] = NoScores
      BY <1>1 DEF Unopened
    <2>3. ASSUME NEW p \in Pets PROVE PointsOf(ImportAccount(s, owners, p)) = 0
      BY DEF ImportAccount, NewScore, PointsOf
    <2>4. ASSUME NEW r \in Seasons, NEW p \in Pets
          PROVE  PointsOf(account'[r][p]) = PointsOf(account[r][p])
      <3>1. CASE r # s
        BY <2>1, <3>1 DEF PointsOf, TypeInv, TypeOK, TablesTyped
      <3>2. CASE r = s
        <4>1. account'[r][p] = ImportAccount(s, owners, p)
          BY <1>1, <2>1, <3>2 DEF TypeInv, TypeOK, TablesTyped
        <4>2. account[r][p] = None
          BY <2>2, <3>2 DEF NoScores
        <4>3. QED
          BY <2>3, <4>1, <4>2 DEF PointsOf
      <3>3. QED
        BY <3>1, <3>2
    <2>5. QED
      BY <2>4, PaidStays
  <1> HIDE DEF carried
  <1>7. Promise!Open(s)
    BY <1>1, <1>2, <1>3, <1>4, <1>5, <1>6 DEF Promise!Open
  <1>8. QED
    BY <1>1, <1>7 DEF Promise!Next

\* A step that writes none of the four tables is invisible to the ledger.
LEMMA InvisibleStep ==
    ASSUME UNCHANGED <<status, site, receipt, account>> PROVE UNCHANGED Promise!vars
  BY DEF Promise!vars, Holders, HolderOf, Decided, DecidedOf, Paid, PointsOf

LEMMA LedgerStep == ASSUME LedgerInv, [Next]_vars PROVE [Promise!Next]_(Promise!vars)
  <1>1. CASE Tick \/ SetBack \/ UNCHANGED vars
    BY <1>1, InvisibleStep DEF Tick, SetBack, vars, tables
  <1>2. ASSUME NEW w \in Workers, WorkerStep(w) PROVE [Promise!Next]_(Promise!vars)
    <2>1. CASE ~Writes(w) \/ Register(w)
      <3>1. UNCHANGED <<status, site, receipt, account>>
        BY <1>2, <2>1, ReadersLeaveTables DEF tables, Register
      <3>2. QED
        BY <3>1, InvisibleStep
    <2>2. CASE Save(w)
      BY <2>2, SaveIsALedgerStep
    <2>3. CASE Finalize(w)
      BY <2>3, FinalizeIsALedgerStep
    <2>4. CASE InsertSeason(w)
      BY <2>4, InsertIsALedgerStep
    <2>5. QED
      BY <2>1, <2>2, <2>3, <2>4 DEF Writes
  <1>3. QED
    BY <1>1, <1>2 DEF Next

LEMMA LedgerInit == Init => Promise!Init
  BY DEF Init, Promise!Init, Holders, HolderOf, EmptySite, Decided, DecidedOf,
         Paid, PointsOf, NoScores

\* The tables of the concurrent service, read between its transactions, show
\* a season opened once, claims decided one at a time and at most once, each
\* moving one site and paying one pet, and a season closed once: whatever the
\* number of workers, races, crashes, retries and wall-clock jumps
\* (apply_ownership_in_transaction, create_season, finalize_in_transaction).
THEOREM ServiceIsTheLedger == Spec => ImplementsLedger
  <1>1. Init => LedgerInv /\ Promise!Init
    BY LedgerInvInit, LedgerInit
  <1>2. LedgerInv /\ [Next]_vars => LedgerInv' /\ [Promise!Next]_(Promise!vars)
    BY LedgerInvNext, LedgerStep
  <1>3. QED
    BY <1>1, <1>2, PTL DEF Spec, ImplementsLedger, Promise!Spec

------------------------------------------------------------------------------
\* Sums over finite sets

LEMMA Least ==
    ASSUME NEW T, T \subseteq Nat, T # {}
    PROVE  \E n \in T : \A m \in T : n <= m
  <1>1. PICK n \in T : \A m \in T : <<m, n>> \notin OpToRel(<, Nat)
    BY WFMin, NatLessThanWellFounded
  <1>2. \A m \in T : ~ (m < n)
    BY <1>1 DEF OpToRel
  <1> QED
    BY <1>2

FirstOf(T) == CHOOSE x \in T : TRUE

\* The function a sum recurses on.
Summing(h, f) ==
    h = [T \in SUBSET DOMAIN f |->
           IF T = {} THEN 0 ELSE f[FirstOf(T)] + h[T \ {FirstOf(T)}]]

LEMMA SumUnrolled ==
    ASSUME NEW f
    PROVE  SumFunction(f) = (CHOOSE h : Summing(h, f))[DOMAIN f]
  BY DEF SumFunction, SumFunctionOnSet, FoldFunctionOnSet, MapThenFoldSet, Summing, FirstOf

\* One pair per unit of each summand of T.
Units(f, T) == {u \in T \X Nat : 1 <= u[2] /\ u[2] <= f[u[1]]}

LEMMA FirstIsIn == \A T : T # {} => FirstOf(T) \in T
  BY DEF FirstOf

\* A finite set loses its first element: one unit fewer per unit of its summand.
LEMMA UnitsSplit ==
    ASSUME NEW f, NEW T, NEW x \in T, IsFiniteSet(T), \A y \in T : f[y] \in Nat
    PROVE  /\ Units(f, T) = Units(f, T \ {x}) \union ({x} \X (1..f[x]))
           /\ Units(f, T \ {x}) \intersect ({x} \X (1..f[x])) = {}
  BY DEF Units

\* There are n numbers from 1 to n.
LEMMA NumbersUpTo ==
    ASSUME NEW n \in Nat
    PROVE  IsFiniteSet(1..n) /\ Cardinality(1..n) = n
  <1>1. 1 \in Int /\ n \in Int
    OBVIOUS
  <1>2. /\ IsFiniteSet(1..n)
        /\ Cardinality(1..n) = IF 1 > n THEN 0 ELSE n - 1 + 1
    BY <1>1, FS_Interval
  <1>3. Cardinality(1..n) = n
    <2>1. CASE n = 0
      BY <1>2, <2>1
    <2>2. CASE n # 0
      <3>1. ~(1 > n) /\ n - 1 + 1 = n
        BY <2>2
      <3>2. QED
        BY <1>2, <3>1
    <2>3. QED
      BY <2>1, <2>2
  <1>4. QED
    BY <1>2, <1>3

\* Units are counted one summand after the other.
LEMMA FewerUnits ==
    ASSUME NEW f, NEW T, NEW x \in T, IsFiniteSet(T), \A y \in T : f[y] \in Nat,
           IsFiniteSet(Units(f, T \ {x}))
    PROVE  /\ IsFiniteSet(Units(f, T))
           /\ Cardinality(Units(f, T)) = f[x] + Cardinality(Units(f, T \ {x}))
  <1> DEFINE old == Units(f, T \ {x})
             new == {x} \X (1..f[x])
  <1>1. Units(f, T) = old \union new /\ old \intersect new = {}
    BY UnitsSplit
  <1>2. IsFiniteSet({x}) /\ Cardinality({x}) = 1
    BY FS_Singleton
  <1>3. f[x] \in Nat
    OBVIOUS
  <1>4. IsFiniteSet(1..f[x]) /\ Cardinality(1..f[x]) = f[x]
    BY <1>3, NumbersUpTo
  <1>5. IsFiniteSet(new) /\ Cardinality(new) = f[x]
    <2>1. IsFiniteSet(new) /\ Cardinality(new) = Cardinality({x}) * Cardinality(1..f[x])
      BY <1>2, <1>4, FS_Product, Zenon
    <2> QED
      BY <1>2, <1>3, <1>4, <2>1
  <1>6. IsFiniteSet(old)
    OBVIOUS
  <1> HIDE DEF old, new
  <1>7. /\ IsFiniteSet(old \union new)
        /\ Cardinality(old \union new) = Cardinality(old) + Cardinality(new) - Cardinality({})
    BY <1>1, <1>5, <1>6, FS_Union
  <1>8. Cardinality({}) = 0 /\ Cardinality(old) \in Nat
    BY <1>6, FS_EmptySet, FS_CardinalityType
  <1>9. Cardinality(old \union new) = f[x] + Cardinality(old)
    BY <1>3, <1>5, <1>7, <1>8
  <1> QED
    BY <1>1, <1>7, <1>9 DEF old

\* Sizes of the subsets of T of which something is not true.
LEMMA SmallestSubset ==
    ASSUME NEW S, IsFiniteSet(S), NEW W, W \subseteq SUBSET S, W # {}
    PROVE  \E T \in W : \A x \in T : T \ {x} \notin W
  <1> DEFINE sizes == {n \in Nat : \E T \in W : n = Cardinality(T)}
  <1>1. \A T \in W : IsFiniteSet(T) /\ Cardinality(T) \in Nat
    BY FS_Subset, FS_CardinalityType
  <1>2. sizes \subseteq Nat /\ sizes # {}
    BY <1>1
  <1> HIDE DEF sizes
  <1>3. PICK n \in sizes : \A m \in sizes : n <= m
    BY <1>2, Least
  <1>4. PICK T \in W : n = Cardinality(T)
    BY <1>3 DEF sizes
  <1>5. ASSUME NEW x \in T, T \ {x} \in W PROVE FALSE
    <2>1. Cardinality(T \ {x}) = Cardinality(T) - 1
      BY <1>1, <1>4, FS_RemoveElement
    <2>2. Cardinality(T \ {x}) \in sizes
      BY <1>1, <1>5 DEF sizes
    <2>3. n \in Nat /\ n <= Cardinality(T \ {x})
      BY <1>2, <1>3, <2>2
    <2> QED
      BY <1>4, <2>1, <2>3
  <1> QED
    BY <1>4, <1>5

LEMMA UnitsFinite ==
    ASSUME NEW f, NEW S, IsFiniteSet(S), \A x \in S : f[x] \in Nat
    PROVE  \A T \in SUBSET S : IsFiniteSet(Units(f, T))
  <1> DEFINE W == {T \in SUBSET S : ~ IsFiniteSet(Units(f, T))}
  <1> SUFFICES ASSUME W # {} PROVE FALSE
    OBVIOUS
  <1>1. PICK T \in W : \A x \in T : T \ {x} \notin W
    BY SmallestSubset
  <1>2. T # {}
    BY FS_EmptySet DEF Units
  <1>3. PICK x \in T : TRUE
    BY <1>2
  <1>4. IsFiniteSet(T) /\ \A y \in T : f[y] \in Nat
    BY FS_Subset
  <1>5. IsFiniteSet(Units(f, T \ {x}))
    BY <1>1, <1>3
  <1> QED
    BY <1>3, <1>4, <1>5, FewerUnits

\* A recursion that adds the summands one by one counts the units.
LEMMA SummingCounts ==
    ASSUME NEW f, IsFiniteSet(DOMAIN f), \A x \in DOMAIN f : f[x] \in Nat,
           NEW h, Summing(h, f)
    PROVE  \A T \in SUBSET DOMAIN f : h[T] = Cardinality(Units(f, T))
  <1> DEFINE W == {T \in SUBSET DOMAIN f : h[T] # Cardinality(Units(f, T))}
  <1> SUFFICES ASSUME W # {} PROVE FALSE
    OBVIOUS
  <1>1. PICK T \in W : \A x \in T : T \ {x} \notin W
    BY SmallestSubset
  <1>2. T \in SUBSET DOMAIN f /\ IsFiniteSet(T) /\ \A y \in T : f[y] \in Nat
    BY FS_Subset
  <1>3. h[T] = IF T = {} THEN 0 ELSE f[FirstOf(T)] + h[T \ {FirstOf(T)}]
    BY <1>2 DEF Summing
  <1>4. CASE T = {}
    BY <1>1, <1>3, <1>4, FS_EmptySet DEF Units
  <1>5. CASE T # {}
    <2> DEFINE x == FirstOf(T)
    <2>1. x \in T
      BY <1>5, FirstIsIn
    <2> HIDE DEF x
    <2>2. h[T] = f[x] + h[T \ {x}]
      BY <1>3, <1>5 DEF x
    <2>3. h[T \ {x}] = Cardinality(Units(f, T \ {x}))
      BY <1>1, <1>2, <2>1
    <2>4. IsFiniteSet(Units(f, T \ {x}))
      BY <1>2, UnitsFinite
    <2>5. Cardinality(Units(f, T)) = f[x] + Cardinality(Units(f, T \ {x}))
      BY <1>2, <2>1, <2>4, FewerUnits
    <2> QED
      BY <1>1, <2>2, <2>3, <2>5
  <1> QED
    BY <1>4, <1>5

LEMMA SummingExists ==
    ASSUME NEW f, IsFiniteSet(DOMAIN f), \A x \in DOMAIN f : f[x] \in Nat
    PROVE  \E h : Summing(h, f)
  <1> DEFINE h == [T \in SUBSET DOMAIN f |-> Cardinality(Units(f, T))]
  <1>1. ASSUME NEW T \in SUBSET DOMAIN f
        PROVE  h[T] = IF T = {} THEN 0 ELSE f[FirstOf(T)] + h[T \ {FirstOf(T)}]
    <2>1. CASE T = {}
      BY <2>1, FS_EmptySet DEF Units
    <2>2. CASE T # {}
      <3>1. FirstOf(T) \in T
        BY <2>2, FirstIsIn
      <3>2. IsFiniteSet(T) /\ IsFiniteSet(Units(f, T \ {FirstOf(T)}))
        BY UnitsFinite, FS_Subset
      <3>3. Cardinality(Units(f, T)) = f[FirstOf(T)] + Cardinality(Units(f, T \ {FirstOf(T)}))
        BY <3>1, <3>2, FewerUnits
      <3> QED
        BY <2>2, <3>3
    <2> QED
      BY <2>1, <2>2
  <1>2. h = [T \in SUBSET DOMAIN f |-> h[T]]
    OBVIOUS
  <1> HIDE DEF h
  <1>3. Summing(h, f)
    BY <1>1, <1>2 DEF Summing
  <1> QED
    BY <1>3

\* A sum of naturals over a finite set is the number of its units.
LEMMA SumIsCount ==
    ASSUME NEW f, IsFiniteSet(DOMAIN f), \A x \in DOMAIN f : f[x] \in Nat
    PROVE  /\ SumFunction(f) = Cardinality(Units(f, DOMAIN f))
           /\ SumFunction(f) \in Nat
  <1> DEFINE h == CHOOSE h : Summing(h, f)
  <1>1. Summing(h, f)
    BY SummingExists
  <1> HIDE DEF h
  <1>2. h[DOMAIN f] = Cardinality(Units(f, DOMAIN f))
    BY <1>1, SummingCounts
  <1>3. IsFiniteSet(Units(f, DOMAIN f))
    BY UnitsFinite
  <1> QED
    BY <1>2, <1>3, SumUnrolled, FS_CardinalityType DEF h

LEMMA SumOfNothing == ASSUME NEW f, DOMAIN f = {} PROVE SumFunction(f) = 0
  <1>1. IsFiniteSet(DOMAIN f) /\ Cardinality({}) = 0
    BY FS_EmptySet
  <1>2. Units(f, DOMAIN f) = {}
    BY DEF Units
  <1> QED
    BY <1>1, <1>2, SumIsCount

LEMMA SumOfZeros ==
    ASSUME NEW f, IsFiniteSet(DOMAIN f), \A x \in DOMAIN f : f[x] = 0
    PROVE  SumFunction(f) = 0
  <1>1. \A x \in DOMAIN f : f[x] \in Nat
    OBVIOUS
  <1>2. Units(f, DOMAIN f) = {}
    BY DEF Units
  <1> QED
    BY <1>1, <1>2, SumIsCount, FS_EmptySet

\* g continues f by the constant k on D.
Continues(g, f, D, k) ==
    /\ k \in Nat
    /\ IsFiniteSet(DOMAIN f) /\ IsFiniteSet(D)
    /\ DOMAIN g = DOMAIN f \union D
    /\ DOMAIN f \intersect D = {}
    /\ \A x \in DOMAIN f : f[x] \in Nat /\ g[x] = f[x]
    /\ \A x \in D : g[x] = k

\* A sum continued by a constant.
LEMMA SumContinued ==
    ASSUME NEW f, NEW g, NEW D, NEW k, Continues(g, f, D, k)
    PROVE  SumFunction(g) = SumFunction(f) + Cardinality(D) * k
  <1> USE DEF Continues
  <1> DEFINE old == Units(f, DOMAIN f)
             new == D \X (1..k)
  <1>1. Units(g, DOMAIN g) = old \union new
    <2>1. Units(g, DOMAIN g) \subseteq old \union new
      BY DEF Units
    <2>2. old \union new \subseteq Units(g, DOMAIN g)
      BY DEF Units
    <2> QED
      BY <2>1, <2>2
  <1>2. old \intersect new = {}
    BY DEF Units
  <1>3. /\ IsFiniteSet(DOMAIN g)
        /\ \A x \in DOMAIN g : g[x] \in Nat
    BY FS_Union
  <1>4. IsFiniteSet(old) /\ SumFunction(f) = Cardinality(old)
    BY UnitsFinite, SumIsCount
  <1>5. IsFiniteSet(new) /\ Cardinality(new) = Cardinality(D) * k
    <2>1. k \in Int /\ 1 \in Int
      OBVIOUS
    <2>2. IsFiniteSet(1..k) /\ Cardinality(1..k) = k
      BY <2>1, FS_Interval
    <2>3. IsFiniteSet(new) /\ Cardinality(new) = Cardinality(D) * Cardinality(1..k)
      BY <2>2, FS_Product, Zenon
    <2> QED
      BY <2>2, <2>3
  <1>6. SumFunction(g) = Cardinality(Units(g, DOMAIN g))
    BY <1>3, SumIsCount
  <1> HIDE DEF old, new
  <1>7. Cardinality(old \union new) = Cardinality(old) + Cardinality(new) - Cardinality({})
    BY <1>2, <1>4, <1>5, FS_Union
  <1>8. Cardinality({}) = 0 /\ Cardinality(old) \in Nat /\ Cardinality(new) \in Nat
    BY <1>4, <1>5, FS_EmptySet, FS_CardinalityType
  <1>9. Cardinality(old \union new) = Cardinality(old) + Cardinality(new)
    BY <1>7, <1>8
  <1> QED
    BY <1>1, <1>4, <1>5, <1>6, <1>9

\* A sum over an interval whose last values are constant.
Steady(g, f, a, m, b, k) ==
    /\ a \in Int /\ m \in Int /\ b \in Int /\ k \in Nat
    /\ a <= m /\ m <= b
    /\ DOMAIN f = a..(m - 1) /\ DOMAIN g = a..(b - 1)
    /\ \A t \in a..(m - 1) : f[t] \in Nat /\ g[t] = f[t]
    /\ \A t \in m..(b - 1) : g[t] = k

LEMMA SumSteady ==
    ASSUME NEW g, NEW f, NEW a, NEW m, NEW b, NEW k, Steady(g, f, a, m, b, k)
    PROVE  SumFunction(g) = SumFunction(f) + (b - m) * k
  <1> USE DEF Steady
  <1>1. m - 1 \in Int /\ b - 1 \in Int
    OBVIOUS
  <1>2. IsFiniteSet(a..(m - 1)) /\ IsFiniteSet(m..(b - 1))
    BY <1>1, FS_Interval
  <1>3. Cardinality(m..(b - 1)) = b - m
    <2>1. Cardinality(m..(b - 1)) = IF m > b - 1 THEN 0 ELSE (b - 1) - m + 1
      BY <1>1, FS_Interval
    <2> QED
      BY <2>1
  <1>4. /\ DOMAIN g = DOMAIN f \union (m..(b - 1))
        /\ DOMAIN f \intersect (m..(b - 1)) = {}
    OBVIOUS
  <1>5. /\ IsFiniteSet(DOMAIN f)
        /\ \A t \in DOMAIN f : f[t] \in Nat /\ g[t] = f[t]
    BY <1>2
  <1>6. SumFunction(g) = SumFunction(f) + Cardinality(m..(b - 1)) * k
    <2> DEFINE D == m..(b - 1)
    <2>1. Continues(g, f, D, k)
      BY <1>2, <1>4, <1>5 DEF Continues
    <2>2. SumFunction(g) = SumFunction(f) + Cardinality(D) * k
      BY <2>1, SumContinued
    <2> QED
      BY <2>2 DEF D
  <1> QED
    BY <1>3, <1>6

------------------------------------------------------------------------------
\* Who held a site at an instant

\* The owner the last of some plans left, or the one the site opened with.
OwnerOf(past, first) ==
    IF past = {} THEN first
    ELSE (CHOOSE n \in past : \A m \in past : m.after.version <= n.after.version).after.owner

PastOf(s, x, t) == {n \in EntriesAt(s, x) : n.at_ms <= t}

LEMMA OwnerThenOf ==
    ASSUME NEW s, NEW x, NEW t
    PROVE  OwnerThen(s, x, t) = OwnerOf(PastOf(s, x, t), opening[s][x])
  BY DEF OwnerThen, OwnerOf, PastOf

\* The last plan of a chain left the row at its end.
LEMMA LastOwner ==
    ASSUME NEW E, \A m \in E : m \in Entry, NEW first \in SiteRow, first.version \in {0, 1},
           NEW row, ChainOf(E, first), LastOf(E, first, row)
    PROVE  OwnerOf(E, first.owner) = row.owner
  <1> DEFINE rows == RowsOf(E, first)
  <1> DEFINE Last(n) == \A m \in E : m.after.version <= n.after.version
  <1>1. CASE E = {}
    BY <1>1 DEF LastOf, RowsOf, OwnerOf
  <1>2. CASE E # {}
    <2>1. \A m \in E : /\ m.after \in rows /\ m.before \in rows
                       /\ m.after.version = m.before.version + 1
      BY DEF ChainOf, RowsOf
    <2>2. \A r \in rows : r.version \in Nat /\ r.version <= row.version
      BY DEF LastOf, RowsOf, Entry, SiteRow
    <2>3. row \in rows /\ row.version \in Nat
      BY <2>2 DEF LastOf
    <2>4. \A r1, r2 \in rows : r1.version = r2.version => r1 = r2
      BY DEF ChainOf
    <2>5. row = first \/ \E m \in E : row = m.after
      BY <2>3 DEF RowsOf
    <2> HIDE DEF rows
    <2>6. \E m \in E : m.after.version = row.version
      <3>1. CASE row = first
        <4>1. PICK m \in E : TRUE
          BY <1>2
        <4>2. m.after.version <= row.version /\ m.before.version \in Nat
          BY <2>1, <2>2
        <4>3. QED
          BY <2>1, <3>1, <4>2
      <3>2. QED
        BY <2>5, <3>1
    <2>7. \E n \in E : Last(n)
      <3>1. PICK m \in E : m.after.version = row.version
        BY <2>6
      <3>2. Last(m)
        BY <2>1, <2>2, <3>1
      <3>3. QED
        BY <3>2
    <2> DEFINE n == CHOOSE n \in E : Last(n)
    <2>8. n \in E /\ Last(n)
      BY <2>7
    <2>9. OwnerOf(E, first.owner) = n.after.owner
      BY <1>2 DEF OwnerOf
    <2> HIDE DEF n
    <2>10. n.after.version = row.version
      <3>1. PICK m \in E : m.after.version = row.version
        BY <2>6
      <3>2. row.version <= n.after.version
        BY <2>8, <3>1
      <3>3. n.after.version <= row.version /\ n.after.version \in Nat
        BY <2>1, <2>2, <2>8
      <3>4. QED
        BY <2>3, <3>2, <3>3
    <2>11. n.after = row
      BY <2>1, <2>3, <2>4, <2>8, <2>10
    <2>12. QED
      BY <2>9, <2>11
  <1>3. QED
    BY <1>1, <1>2

\* Once all the plans of a site are past, its owner is the present one.
LEMMA OwnerNow ==
    ASSUME HistoryInv, NEW s \in Seasons, NEW x \in Sites, status[s] = "ACTIVE",
           NEW t, \A m \in EntriesAt(s, x) : m.at_ms <= t
    PROVE  OwnerThen(s, x, t) = site[s][x].owner
  <1> USE DEF HistoryInv, PolicyInv, FreshInv
  <1>1. /\ ChainOf(EntriesAt(s, x), OpeningRow(s, x))
        /\ LastOf(EntriesAt(s, x), OpeningRow(s, x), site[s][x])
    BY DEF Chained, ChainedAt
  <1>2. \A m \in EntriesAt(s, x) : m \in Entry
    BY DEF EventsFiled, Filed, EntriesAt, Ledger
  <1>3. /\ OpeningRow(s, x) \in SiteRow /\ OpeningRow(s, x).version \in {0, 1}
        /\ OpeningRow(s, x).owner = opening[s][x]
    BY DEF OpeningRow, SiteRow, TypeInv, TypeOK, TablesTyped
  <1>4. PastOf(s, x, t) = EntriesAt(s, x)
    BY DEF PastOf
  <1>5. OwnerOf(EntriesAt(s, x), opening[s][x]) = site[s][x].owner
    BY <1>1, <1>2, <1>3, LastOwner
  <1>6. QED
    BY <1>4, <1>5, OwnerThenOf

\* A plan takes effect at its time: from then on the site is the claimer's, and
\* nothing that was held before changes.
LEMMA OwnersMove ==
    ASSUME HistoryInv, HistoryInv', NEW w \in Workers, Moves(w), NEW s, s = job[w].cand.season,
           NEW x \in Sites, NEW t \in Nat
    PROVE  IF x = job[w].cand.site /\ plan[w].at_ms <= t
             THEN /\ OwnerThen(s, x, t) = site[s][x].owner
                  /\ OwnerThen(s, x, t)' = site'[s][x].owner
             ELSE OwnerThen(s, x, t)' = OwnerThen(s, x, t)
  <1> DEFINE c == job[w].cand
  <1> DEFINE n == EntryOf(w)
  <1> USE DEF HistoryInv
  <1>1. /\ s \in Seasons /\ status[s] = "ACTIVE" /\ UNCHANGED <<status, opening>>
        /\ n.at_ms = plan[w].at_ms /\ plan[w].at_ms \in Nat
    BY MoveFacts DEF Moves, Save, MadeFor
  <1>2. EntriesAt(s, x)' = IF x = c.site THEN EntriesAt(s, x) \union {n} ELSE EntriesAt(s, x)
    BY <1>1, EntriesGrow
  <1>3. \A m \in EntriesAt(s, x) : m \in Entry /\ m.at_ms \in Nat
    BY <1>1 DEF EventsFiled, Filed, EntriesAt, Ledger, Entry
  <1> HIDE DEF n
  <1>4. CASE x = c.site /\ plan[w].at_ms <= t
    <2>1. \A m \in EntriesAt(s, x) : m.at_ms <= plan[w].at_ms
      BY <1>3, <1>4, MoveIsLater
    <2>2. \A m \in EntriesAt(s, x) \union {n} : m.at_ms <= t
      BY <1>1, <1>3, <1>4, <2>1
    <2>3. OwnerThen(s, x, t) = site[s][x].owner
      BY <1>1, <2>2, OwnerNow
    <2>4. OwnerThen(s, x, t)' = site'[s][x].owner
      <3>1. status'[s] = "ACTIVE"
        BY <1>1
      <3>2. /\ ChainOf(EntriesAt(s, x)', OpeningRow(s, x)')
            /\ LastOf(EntriesAt(s, x)', OpeningRow(s, x)', site'[s][x])
        BY <1>1, <3>1 DEF Chained, ChainedAt
      <3>3. \A m \in EntriesAt(s, x)' : m \in Entry
        BY <1>1 DEF EventsFiled, Filed, EntriesAt, Ledger
      <3>4. /\ OpeningRow(s, x)' \in SiteRow /\ (OpeningRow(s, x)').version \in {0, 1}
            /\ (OpeningRow(s, x)').owner = opening'[s][x]
        BY <1>1 DEF OpeningRow, SiteRow, TypeInv, TypeOK, TablesTyped, PolicyInv, FreshInv
      <3>5. OwnerOf(EntriesAt(s, x)', opening'[s][x]) = site'[s][x].owner
        BY <3>2, <3>3, <3>4, LastOwner
      <3>6. PastOf(s, x, t)' = EntriesAt(s, x)'
        BY <1>2, <1>4, <2>2 DEF PastOf
      <3>7. OwnerThen(s, x, t)' = OwnerOf(PastOf(s, x, t)', opening'[s][x])
        BY DEF OwnerThen, OwnerOf, PastOf
      <3>8. QED
        BY <3>5, <3>6, <3>7
    <2>5. QED
      BY <1>4, <2>3, <2>4
  <1>5. CASE ~(x = c.site /\ plan[w].at_ms <= t)
    <2>1. PastOf(s, x, t)' = {m \in EntriesAt(s, x)' : m.at_ms <= t}
      BY DEF PastOf
    <2>2. PastOf(s, x, t)' = PastOf(s, x, t)
      BY <1>1, <1>2, <1>5, <2>1 DEF PastOf
    <2>3. OwnerThen(s, x, t)' = OwnerOf(PastOf(s, x, t)', opening'[s][x])
      BY DEF OwnerThen, OwnerOf, PastOf
    <2>4. QED
      BY <1>1, <1>5, <2>2, <2>3, OwnerThenOf
  <1>6. QED
    BY <1>4, <1>5

------------------------------------------------------------------------------
\* Who held what, pet by pet

Owns(owner, q) == owner # None /\ owner.pet = q
OwnsScoring(owner, q) == Owns(owner, q) /\ Counted(owner.verified) = 1

NeverHeld(s, q) == \A t \in Nat : HeldThen(s, q, t) = {}

\* From some instant on, the pet holds what it holds now.
StillHolds(s, q, from) ==
    \A t \in Nat : from <= t =>
      /\ HeldThen(s, q, t) = OwnedSites(site[s], q)
      /\ ScoringThen(s, q, t) = ScoringSites(site[s], q)

SameThen(s, q, t) ==
    /\ HeldThen(s, q, t)' = HeldThen(s, q, t)
    /\ ScoringThen(s, q, t)' = ScoringThen(s, q, t)

LEMMA HeldSites ==
    ASSUME NEW s, NEW q, NEW t
    PROVE  /\ HeldThen(s, q, t) \subseteq Sites /\ ScoringThen(s, q, t) \subseteq Sites
           /\ OwnedSites(site[s], q) \subseteq Sites /\ ScoringSites(site[s], q) \subseteq Sites
           /\ \A x \in Sites :
                /\ x \in HeldThen(s, q, t) <=> Owns(OwnerThen(s, x, t), q)
                /\ x \in ScoringThen(s, q, t) <=> OwnsScoring(OwnerThen(s, x, t), q)
                /\ x \in OwnedSites(site[s], q) <=> Owns(site[s][x].owner, q)
                /\ x \in ScoringSites(site[s], q) <=> OwnsScoring(site[s][x].owner, q)
  BY DEF HeldThen, ScoringThen, OwnedSites, ScoringSites, Owns, OwnsScoring

LEMMA HeldSitesNext ==
    ASSUME NEW s, NEW q, NEW t
    PROVE  /\ HeldThen(s, q, t)' \subseteq Sites /\ ScoringThen(s, q, t)' \subseteq Sites
           /\ OwnedSites(site'[s], q) \subseteq Sites /\ ScoringSites(site'[s], q) \subseteq Sites
           /\ \A x \in Sites :
                /\ x \in HeldThen(s, q, t)' <=> Owns(OwnerThen(s, x, t)', q)
                /\ x \in ScoringThen(s, q, t)' <=> OwnsScoring(OwnerThen(s, x, t)', q)
                /\ x \in OwnedSites(site'[s], q) <=> Owns(site'[s][x].owner, q)
                /\ x \in ScoringSites(site'[s], q) <=> OwnsScoring(site'[s][x].owner, q)
  BY DEF HeldThen, ScoringThen, OwnedSites, ScoringSites, Owns, OwnsScoring

LEMMA FewSites ==
    ASSUME NEW s, NEW q, NEW t
    PROVE  /\ Cardinality(HeldThen(s, q, t)) \in Nat
           /\ Cardinality(ScoringThen(s, q, t)) \in Nat
           /\ Cardinality(OwnedSites(site[s], q)) \in Nat
           /\ Cardinality(ScoringSites(site[s], q)) \in Nat
  <1>1. /\ HeldThen(s, q, t) \subseteq Sites /\ ScoringThen(s, q, t) \subseteq Sites
        /\ OwnedSites(site[s], q) \subseteq Sites /\ ScoringSites(site[s], q) \subseteq Sites
    BY HeldSites
  <1>2. QED
    BY <1>1, FiniteAssumption, FS_Subset, FS_CardinalityType

\* Before the plan's time nothing changes, and nothing ever for a pet the plan
\* does not touch; a pet it touches holds from then on what the rows say.
LEMMA HeldMoves ==
    ASSUME HistoryInv, HistoryInv', NEW w \in Workers, Moves(w), NEW s, s = job[w].cand.season,
           NEW q \in Pets, NEW at \in Nat, at = plan[w].at_ms
    PROVE  /\ \A t \in Nat : t < at => SameThen(s, q, t)
           /\ q \notin Affected(snap[w], job[w].cand) =>
                /\ \A t \in Nat : SameThen(s, q, t)
                /\ OwnedSites(site'[s], q) = OwnedSites(site[s], q)
                /\ ScoringSites(site'[s], q) = ScoringSites(site[s], q)
           /\ StillHolds(s, q, at) => StillHolds(s, q, at)'
  <1> DEFINE c == job[w].cand
  <1> USE DEF HistoryInv
  <1>1. /\ s \in Seasons /\ c.site \in Sites
        /\ snap[w] = site[s][c.site]
        /\ site' = [site EXCEPT ![s][c.site] = plan[w].after]
        /\ site \in [Seasons -> [Sites -> SiteRow]]
    BY MoveFacts DEF PolicyInv, FreshInv, TypeInv, TypeOK, TablesTyped
  <1>2. \A x \in Sites : site'[s][x] = IF x = c.site THEN plan[w].after ELSE site[s][x]
    BY <1>1
  <1>3. \A x \in Sites, t \in Nat :
          IF x = c.site /\ at <= t
            THEN OwnerThen(s, x, t) = site[s][x].owner /\ OwnerThen(s, x, t)' = site'[s][x].owner
            ELSE OwnerThen(s, x, t)' = OwnerThen(s, x, t)
    BY OwnersMove
  <1>4. ASSUME NEW t \in Nat, t < at PROVE SameThen(s, q, t)
    <2>1. \A x \in Sites : OwnerThen(s, x, t)' = OwnerThen(s, x, t)
      <3>1. ~(at <= t)
        BY <1>4
      <3>2. QED
        BY <1>3, <1>4, <3>1
    <2>2. /\ \A x \in Sites : x \in HeldThen(s, q, t)' <=> x \in HeldThen(s, q, t)
          /\ \A x \in Sites : x \in ScoringThen(s, q, t)' <=> x \in ScoringThen(s, q, t)
          /\ HeldThen(s, q, t)' \subseteq Sites /\ ScoringThen(s, q, t)' \subseteq Sites
          /\ HeldThen(s, q, t) \subseteq Sites /\ ScoringThen(s, q, t) \subseteq Sites
      BY <2>1, HeldSites, HeldSitesNext
    <2>3. HeldThen(s, q, t)' = HeldThen(s, q, t)
      BY <2>2
    <2>4. ScoringThen(s, q, t)' = ScoringThen(s, q, t)
      BY <2>2
    <2>5. QED
      BY <2>3, <2>4 DEF SameThen
  <1>5. ASSUME q \notin Affected(snap[w], c)
        PROVE  /\ \A t \in Nat : SameThen(s, q, t)
               /\ OwnedSites(site'[s], q) = OwnedSites(site[s], q)
               /\ ScoringSites(site'[s], q) = ScoringSites(site[s], q)
    <2>1. ~Owns(site[s][c.site].owner, q) /\ ~Owns(site'[s][c.site].owner, q)
      <3>1. ~Owns(snap[w].owner, q)
        BY <1>5 DEF Affected, Owns
      <3>2. plan[w].after.owner.pet = c.pet
        <4>1. EntryOf(w).after.owner.pet = c.pet
          BY PlannedOwner
        <4>2. EntryOf(w).after = plan[w].after
          BY DEF EntryOf
        <4>3. QED
          BY <4>1, <4>2
      <3>3. c.pet # q
        BY <1>5 DEF Affected
      <3>4. QED
        BY <1>1, <1>2, <3>1, <3>2, <3>3 DEF Owns
    <2>2. \A x \in Sites : /\ Owns(site'[s][x].owner, q) <=> Owns(site[s][x].owner, q)
                           /\ OwnsScoring(site'[s][x].owner, q) <=> OwnsScoring(site[s][x].owner, q)
      BY <1>2, <2>1 DEF OwnsScoring
    <2>3. ASSUME NEW t \in Nat, NEW x \in Sites
          PROVE  /\ Owns(OwnerThen(s, x, t)', q) <=> Owns(OwnerThen(s, x, t), q)
                 /\ OwnsScoring(OwnerThen(s, x, t)', q) <=> OwnsScoring(OwnerThen(s, x, t), q)
      BY <1>3, <2>2, <2>3
    <2>4. /\ OwnedSites(site'[s], q) = OwnedSites(site[s], q)
          /\ ScoringSites(site'[s], q) = ScoringSites(site[s], q)
      <3>1. /\ \A x \in Sites :
                 /\ x \in OwnedSites(site'[s], q) <=> x \in OwnedSites(site[s], q)
                 /\ x \in ScoringSites(site'[s], q) <=> x \in ScoringSites(site[s], q)
            /\ OwnedSites(site'[s], q) \subseteq Sites /\ ScoringSites(site'[s], q) \subseteq Sites
            /\ OwnedSites(site[s], q) \subseteq Sites /\ ScoringSites(site[s], q) \subseteq Sites
        BY <2>2, HeldSites, HeldSitesNext
      <3>2. QED
        BY <3>1, ZenonT(30)
    <2>5. ASSUME NEW t \in Nat PROVE SameThen(s, q, t)
      <3>1. /\ \A x \in Sites : x \in HeldThen(s, q, t)' <=> x \in HeldThen(s, q, t)
            /\ \A x \in Sites : x \in ScoringThen(s, q, t)' <=> x \in ScoringThen(s, q, t)
            /\ HeldThen(s, q, t)' \subseteq Sites /\ ScoringThen(s, q, t)' \subseteq Sites
            /\ HeldThen(s, q, t) \subseteq Sites /\ ScoringThen(s, q, t) \subseteq Sites
        BY <2>3, HeldSites, HeldSitesNext
      <3>2. HeldThen(s, q, t)' = HeldThen(s, q, t)
        BY <3>1
      <3>3. ScoringThen(s, q, t)' = ScoringThen(s, q, t)
        BY <3>1
      <3>4. QED
        BY <3>2, <3>3 DEF SameThen
    <2>6. QED
      BY <2>4, <2>5
  <1>6. ASSUME StillHolds(s, q, at) PROVE StillHolds(s, q, at)'
    <2>1. SUFFICES ASSUME NEW t \in Nat, at <= t
                   PROVE  /\ HeldThen(s, q, t)' = OwnedSites(site'[s], q)
                          /\ ScoringThen(s, q, t)' = ScoringSites(site'[s], q)
      BY DEF StillHolds
    <2>2. /\ HeldThen(s, q, t) = OwnedSites(site[s], q)
          /\ ScoringThen(s, q, t) = ScoringSites(site[s], q)
      BY <1>6, <2>1 DEF StillHolds
    <2>3. ASSUME NEW x \in Sites
          PROVE  /\ Owns(OwnerThen(s, x, t)', q) <=> Owns(site'[s][x].owner, q)
                 /\ OwnsScoring(OwnerThen(s, x, t)', q) <=> OwnsScoring(site'[s][x].owner, q)
      <3>1. CASE x = c.site
        BY <1>3, <2>1, <3>1
      <3>2. CASE x # c.site
        <4>1. OwnerThen(s, x, t)' = OwnerThen(s, x, t) /\ site'[s][x] = site[s][x]
          BY <1>2, <1>3, <3>2
        <4>2. /\ Owns(OwnerThen(s, x, t), q) <=> Owns(site[s][x].owner, q)
              /\ OwnsScoring(OwnerThen(s, x, t), q) <=> OwnsScoring(site[s][x].owner, q)
          BY <2>2, HeldSites
        <4>3. QED
          BY <4>1, <4>2
      <3>3. QED
        BY <3>1, <3>2
    <2>4. /\ \A x \in Sites : x \in HeldThen(s, q, t)' <=> x \in OwnedSites(site'[s], q)
          /\ \A x \in Sites : x \in ScoringThen(s, q, t)' <=> x \in ScoringSites(site'[s], q)
          /\ HeldThen(s, q, t)' \subseteq Sites /\ ScoringThen(s, q, t)' \subseteq Sites
          /\ OwnedSites(site'[s], q) \subseteq Sites /\ ScoringSites(site'[s], q) \subseteq Sites
      BY <2>3, HeldSitesNext
    <2>5. HeldThen(s, q, t)' = OwnedSites(site'[s], q)
      BY <2>4
    <2>6. ScoringThen(s, q, t)' = ScoringSites(site'[s], q)
      BY <2>4
    <2>7. QED
      BY <2>5, <2>6
  <1>7. QED
    BY <1>4, <1>5, <1>6

------------------------------------------------------------------------------
\* What was held adds up

LEMMA RateOfNone == Rate(0) = 0
  <1>1. Rules.hourly_points \in Nat /\ Multiplier(0) \in Nat
    BY RulesTyped, MultiplierNat
  <1>2. \A a, b \in Nat : 0 * a * b = 0
    OBVIOUS
  <1>3. QED
    BY <1>1, <1>2 DEF Rate

LEMMA InstantsFinite ==
    ASSUME NEW a \in Nat, NEW b \in Nat
    PROVE  IsFiniteSet(a .. (b - 1)) /\ a .. (b - 1) \subseteq Nat
  <1>1. a \in Int /\ b - 1 \in Int
    OBVIOUS
  <1>2. QED
    BY <1>1, FS_Interval

\* Nothing held, nothing earned.
LEMMA NothingAdds ==
    ASSUME NEW s \in Seasons, NEW q, NEW until \in Nat, NeverHeld(s, q)
    PROVE  HeldUpTo(s, q, until) = 0 /\ EarnedUpTo(s, q, until) = 0
  <1> DEFINE instants == Starts[s] .. (until - 1)
  <1> DEFINE held == [t \in instants |-> Cardinality(HeldThen(s, q, t))]
  <1> DEFINE earned == [t \in instants |-> Rate(Cardinality(ScoringThen(s, q, t)))]
  <1>1. IsFiniteSet(instants) /\ instants \subseteq Nat
    BY WindowAssumption, InstantsFinite
  <1> HIDE DEF instants
  <1>2. ASSUME NEW t \in instants PROVE held[t] = 0 /\ earned[t] = 0
    <2>1. HeldThen(s, q, t) = {} /\ ScoringThen(s, q, t) = {}
      BY <1>1, <1>2 DEF NeverHeld, ScoringThen
    <2>2. QED
      BY <2>1, FS_EmptySet, RateOfNone
  <1>3. DOMAIN held = instants /\ DOMAIN earned = instants
    OBVIOUS
  <1> HIDE DEF held, earned
  <1>4. SumFunction(held) = 0 /\ SumFunction(earned) = 0
    BY <1>1, <1>2, <1>3, SumOfZeros
  <1>5. QED
    BY <1>4 DEF HeldUpTo, EarnedUpTo, held, earned, instants

\* An empty stretch of time.
LEMMA NoTimeAdds ==
    ASSUME NEW s \in Seasons, NEW q
    PROVE  HeldUpTo(s, q, Starts[s]) = 0 /\ EarnedUpTo(s, q, Starts[s]) = 0
  <1>1. Starts[s] .. (Starts[s] - 1) = {}
    BY WindowAssumption
  <1>2. QED
    BY <1>1, SumOfNothing DEF HeldUpTo, EarnedUpTo

\* While a pet holds what it holds, each instant adds the same.
LEMMA SteadyAdds ==
    ASSUME NEW s \in Seasons, NEW q, NEW from \in Nat, NEW until \in Nat,
           Starts[s] <= from, from <= until, StillHolds(s, q, from)
    PROVE  /\ HeldUpTo(s, q, until) =
                HeldUpTo(s, q, from) + (until - from) * Cardinality(OwnedSites(site[s], q))
           /\ EarnedUpTo(s, q, until) =
                EarnedUpTo(s, q, from)
                  + (until - from) * Rate(Cardinality(ScoringSites(site[s], q)))
  <1> DEFINE Held1(t) == Cardinality(HeldThen(s, q, t))
  <1> DEFINE Earned1(t) == Rate(Cardinality(ScoringThen(s, q, t)))
  <1> DEFINE h == Cardinality(OwnedSites(site[s], q))
  <1> DEFINE e == Rate(Cardinality(ScoringSites(site[s], q)))
  <1> DEFINE a == Starts[s]
  <1>1. /\ a \in Int /\ from \in Int /\ until \in Int /\ a <= from /\ from <= until
        /\ h \in Nat /\ e \in Nat
    <2>1. Cardinality(OwnedSites(site[s], q)) \in Nat /\ Cardinality(ScoringSites(site[s], q)) \in Nat
      BY FewSites
    <2>2. QED
      BY <2>1, WindowAssumption, RateNat
  <1>2. \A t : Held1(t) \in Nat /\ Earned1(t) \in Nat
    BY FewSites, RateNat
  <1>3. \A t \in from .. (until - 1) : Held1(t) = h /\ Earned1(t) = e
    BY <1>1 DEF StillHolds
  <1> HIDE DEF Held1, Earned1, h, e, a
  <1> DEFINE H(b) == [t \in a .. (b - 1) |-> Held1(t)]
  <1> DEFINE E(b) == [t \in a .. (b - 1) |-> Earned1(t)]
  <1>4. SumFunction(H(until)) = SumFunction(H(from)) + (until - from) * h
    <2>1. Steady(H(until), H(from), a, from, until, h)
      BY <1>1, <1>2, <1>3 DEF Steady
    <2>2. QED
      BY <2>1, SumSteady
  <1>5. SumFunction(E(until)) = SumFunction(E(from)) + (until - from) * e
    <2>1. Steady(E(until), E(from), a, from, until, e)
      BY <1>1, <1>2, <1>3 DEF Steady
    <2>2. QED
      BY <2>1, SumSteady
  <1>6. QED
    BY <1>4, <1>5 DEF HeldUpTo, EarnedUpTo, Held1, Earned1, h, e, a

\* What was the same at every instant adds up to the same.
LEMMA SameAdds ==
    ASSUME NEW s \in Seasons, NEW q, NEW until \in Nat,
           \A t \in Nat : t < until => SameThen(s, q, t)
    PROVE  /\ HeldUpTo(s, q, until)' = HeldUpTo(s, q, until)
           /\ EarnedUpTo(s, q, until)' = EarnedUpTo(s, q, until)
  <1>1. \A t \in Starts[s] .. (until - 1) : SameThen(s, q, t)
    BY WindowAssumption
  <1>2. /\ HeldUpTo(s, q, until)' =
             SumFunction([t \in Starts[s] .. (until - 1) |-> Cardinality(HeldThen(s, q, t)')])
        /\ EarnedUpTo(s, q, until)' =
             SumFunction([t \in Starts[s] .. (until - 1) |-> Rate(Cardinality(ScoringThen(s, q, t)'))])
    BY DEF HeldUpTo, EarnedUpTo
  <1>3. [t \in Starts[s] .. (until - 1) |-> Cardinality(HeldThen(s, q, t)')] =
        [t \in Starts[s] .. (until - 1) |-> Cardinality(HeldThen(s, q, t))]
    BY <1>1 DEF SameThen
  <1>4. [t \in Starts[s] .. (until - 1) |-> Rate(Cardinality(ScoringThen(s, q, t)'))] =
        [t \in Starts[s] .. (until - 1) |-> Rate(Cardinality(ScoringThen(s, q, t)))]
    BY <1>1 DEF SameThen
  <1>5. QED
    BY <1>2, <1>3, <1>4 DEF HeldUpTo, EarnedUpTo

------------------------------------------------------------------------------
\* What a plan adds to the accounts it touches

\* The time a score accrues by being settled at an instant.
AccruesTo(new, old, at) ==
    /\ new.held_site_ms = old.held_site_ms + (at - old.last_ms) * old.current_count
    /\ new.holding_units = old.holding_units + (at - old.last_ms) * Rate(old.scoring_count)

\* Claims, takeovers and peak of a score that may have won a site.
CountsWin(new, old, won, taken) ==
    /\ new.claims = old.claims + won
    /\ new.takeovers = old.takeovers + taken
    /\ new.peak <= old.peak + won

Won(row, c, q) == IF q = c.pet /\ ~SamePet(row, c) THEN 1 ELSE 0
Taken(row, c, q) == IF row.owner # None THEN Won(row, c, q) ELSE 0

PlannedFor(v) ==
    LET c == job[v].cand
        row == snap[v]
        p == plan[v]
    IN  p.kind # "UNCHANGED" =>
          \A q \in Affected(row, c) :
            /\ AccruesTo(p.accounts[q], scores[v][q], p.at_ms)
            /\ CountsWin(p.accounts[q], scores[v][q], Won(row, c, q), Taken(row, c, q))

Planned == \A w \in Workers : pc[w] = "save" => PlannedFor(w)

LEMMA SettleAccrues ==
    ASSUME NEW score \in Score, NEW at \in Nat, at >= score.last_ms
    PROVE  /\ AccruesTo(Settle(score, at), score, at)
           /\ Settle(score, at).claims = score.claims
           /\ Settle(score, at).takeovers = score.takeovers
  BY DEF Settle, Score, AccruesTo

LEMMA MovesKeepTime ==
    ASSUME NEW score \in Score, NEW v
    PROVE  /\ Release(score, v).held_site_ms = score.held_site_ms
           /\ Release(score, v).holding_units = score.holding_units
           /\ Release(score, v).claims = score.claims
           /\ Release(score, v).takeovers = score.takeovers
           /\ Acquire(score, v).held_site_ms = score.held_site_ms
           /\ Acquire(score, v).holding_units = score.holding_units
           /\ Acquire(score, v).claims = score.claims
           /\ Acquire(score, v).takeovers = score.takeovers
           /\ Acquire(score, v).peak =
                IF score.current_count + 1 > score.peak THEN score.current_count + 1
                ELSE score.peak
  BY DEF Release, Acquire, Score

LEMMA PlanAccountAccrues ==
    ASSUME NEW row \in SiteRow, NEW c \in Candidate, NEW score \in Score, NEW p \in Pets,
           NEW at \in Nat, NEW paid, at >= score.last_ms, score.current_count <= score.peak,
           row.owner # None /\ row.owner.pet = p =>
             score.current_count >= 1 /\ score.scoring_count >= Counted(row.owner.verified)
    PROVE  LET after == PlanAccount(row, c, score, p, at, paid)
           IN  /\ AccruesTo(after, score, at)
               /\ CountsWin(after, score, Won(row, c, p), Taken(row, c, p))
  <1> DEFINE mine == row.owner # None /\ row.owner.pet = p
  <1> DEFINE settled == Settle(score, at)
  <1> DEFINE released == IF mine THEN Release(settled, row.owner.verified) ELSE settled
  <1> DEFINE acquired == IF p = c.pet THEN Acquire(released, Verified(c)) ELSE released
  <1> DEFINE rewarded == Reward(acquired, PlanBonus(row, c, paid), row.owner # None)
  <1> DEFINE Same(a, b) == /\ a.held_site_ms = b.held_site_ms
                           /\ a.holding_units = b.holding_units
  <1> DEFINE Tally(a, b) == a.claims = b.claims /\ a.takeovers = b.takeovers
  <1>1. /\ settled \in Score /\ settled.current_count = score.current_count
        /\ settled.scoring_count = score.scoring_count
        /\ settled.peak = score.peak
    BY SettleType
  <1>2. AccruesTo(settled, score, at) /\ Tally(settled, score)
    BY SettleAccrues
  <1> HIDE DEF settled
  <1>3. /\ released \in Score /\ Same(released, settled) /\ Tally(released, settled)
        /\ released.peak = score.peak
        /\ released.current_count = IF mine THEN score.current_count - 1
                                    ELSE score.current_count
    BY <1>1, ReleaseType, MovesKeepTime
  <1> HIDE DEF released
  <1>4. /\ acquired \in Score /\ Same(acquired, released) /\ Tally(acquired, released)
        /\ acquired.peak <= score.peak + 1
        /\ p # c.pet \/ mine => acquired.peak <= score.peak
    <2>1. score.current_count \in Nat /\ score.peak \in Nat
      BY DEF Score
    <2>2. CASE p = c.pet
      <3>1. /\ acquired \in Score /\ Same(acquired, released) /\ Tally(acquired, released)
            /\ acquired.peak =
                 IF released.current_count + 1 > released.peak THEN released.current_count + 1
                 ELSE released.peak
        BY <1>3, <2>2, AcquireType, MovesKeepTime
      <3>2. QED
        BY <1>3, <2>1, <2>2, <3>1
    <2>3. CASE p # c.pet
      BY <1>3, <2>1, <2>3
    <2>4. QED
      BY <2>2, <2>3
  <1> HIDE DEF acquired
  <1>5. /\ Same(rewarded, acquired) /\ rewarded.peak = acquired.peak
        /\ rewarded.claims = acquired.claims + 1
        /\ rewarded.takeovers = IF row.owner # None THEN acquired.takeovers + 1
                                ELSE acquired.takeovers
    BY <1>4 DEF Reward, Score
  <1> HIDE DEF rewarded
  <1> DEFINE after == PlanAccount(row, c, score, p, at, paid)
  <1>6. after = IF p = c.pet /\ ~SamePet(row, c) THEN rewarded ELSE acquired
    BY DEF PlanAccount, rewarded, acquired, released, settled
  <1> HIDE DEF after
  <1>7. Same(after, settled)
    BY <1>3, <1>4, <1>5, <1>6
  <1>8. AccruesTo(after, score, at)
    BY <1>2, <1>7 DEF AccruesTo
  <1>9. CountsWin(after, score, Won(row, c, p), Taken(row, c, p))
    <2>1. score.claims \in Nat /\ score.takeovers \in Nat /\ score.peak \in Nat
      BY DEF Score
    <2>2. acquired.claims = score.claims /\ acquired.takeovers = score.takeovers
      BY <1>2, <1>3, <1>4
    <2>3. acquired.peak \in Nat
      BY <1>4 DEF Score
    <2>4. CASE p = c.pet /\ ~SamePet(row, c)
      <3>1. Won(row, c, p) = 1 /\ Taken(row, c, p) = IF row.owner # None THEN 1 ELSE 0
        BY <2>4 DEF Won, Taken
      <3>2. QED
        BY <1>4, <1>5, <1>6, <2>1, <2>2, <2>4, <3>1 DEF CountsWin
    <2>5. CASE ~(p = c.pet /\ ~SamePet(row, c))
      <3>1. Won(row, c, p) = 0 /\ Taken(row, c, p) = 0
        BY <2>5 DEF Won, Taken
      <3>2. p # c.pet \/ mine
        BY <2>5 DEF SamePet
      <3>3. after = acquired /\ acquired.peak <= score.peak
        BY <1>4, <1>6, <2>5, <3>2
      <3>4. QED
        BY <2>1, <2>2, <2>3, <3>1, <3>3 DEF CountsWin
    <2>6. QED
      BY <2>4, <2>5
  <1>10. QED
    BY <1>8, <1>9 DEF after

LEMMA DecidePlans == ASSUME TypeInv, NEW w \in Workers, Decide(w) PROVE PlannedFor(w)'
  <1> DEFINE c == job[w].cand
  <1> DEFINE row == snap[w]
  <1> DEFINE paid == BonusPaid(c, clock)
  <1> DEFINE accounts == [q \in Pets |->
               IF q \in Affected(row, c) /\ ~Unchanged(row, c)
                 THEN PlanAccount(row, c, scores[w][q], q, clock, paid) ELSE None]
  <1>1. /\ WorkerOK(w) /\ pc[w] = "decide" /\ c \in Candidate
        /\ row \in SiteRow /\ clock \in Nat
        /\ \A q \in Affected(row, c) : scores[w][q] \in Score
    BY JobTyped DEF Decide, TypeInv, TypeOK, TransactionsTyped, WorkerOK
  <1>2. PICK after, bonus, key :
          plan'[w] = [at_ms |-> clock, after |-> after, accounts |-> accounts,
                      bonus |-> bonus, key |-> key, kind |-> PlanKind(row, c)]
    BY DEF Decide, TypeInv, TypeOK, TransactionsTyped
  <1>3. /\ plan'[w].at_ms = clock /\ plan'[w].accounts = accounts
        /\ plan'[w].kind = PlanKind(row, c)
    BY <1>2
  <1>4. UNCHANGED <<job, snap, scores>>
    BY DEF Decide
  <1>5. ASSUME ~Unchanged(row, c), NEW q \in Affected(row, c)
        PROVE  /\ AccruesTo(accounts[q], scores[w][q], clock)
               /\ CountsWin(accounts[q], scores[w][q], Won(row, c, q), Taken(row, c, q))
    <2>1. ScoresValid(row, c, scores[w], clock)
      BY <1>5 DEF Decide, Admissible
    <2>2. q \in Pets
      BY <1>1, <1>5, AffectedPets
    <2>3. clock >= scores[w][q].last_ms /\ scores[w][q].current_count <= scores[w][q].peak
      BY <2>1, <1>5 DEF ScoresValid, Settleable
    <2>4. row.owner # None /\ row.owner.pet = q =>
            /\ scores[w][q].current_count >= 1
            /\ scores[w][q].scoring_count >= Counted(row.owner.verified)
      BY <2>1 DEF ScoresValid
    <2>5. accounts[q] = PlanAccount(row, c, scores[w][q], q, clock, paid)
      BY <1>5, <2>2
    <2>6. QED
      BY <1>1, <1>5, <2>2, <2>3, <2>4, <2>5, PlanAccountAccrues
  <1>6. PlanKind(row, c) # "UNCHANGED" => ~Unchanged(row, c)
    BY DEF PlanKind
  <1> HIDE DEF accounts, row
  <1>7. QED
    BY <1>3, <1>4, <1>5, <1>6 DEF PlannedFor, row

LEMMA PlannedNext == ASSUME TypeInv, Planned, [Next]_vars PROVE Planned'
  <1> SUFFICES ASSUME NEW v \in Workers, pc'[v] = "save" PROVE PlannedFor(v)'
    BY DEF Planned
  <1>1. pc[v] = "save" => PlannedFor(v)
    BY DEF Planned
  <1>2. CASE Tick \/ SetBack \/ UNCHANGED vars
    <2>1. UNCHANGED <<pc, job, snap, scores, plan>>
      BY <1>2 DEF Tick, SetBack, vars, work
    <2>2. QED
      BY <1>1, <2>1 DEF PlannedFor
  <1>3. ASSUME NEW w \in Workers, WorkerStep(w) PROVE PlannedFor(v)'
    <2>1. CASE v = w
      BY <1>3, <2>1, ArrivesBy, DecidePlans
    <2>2. CASE v # w
      <3>1. Idle(v)
        BY <1>3, <2>2, OthersIdle
      <3>2. QED
        BY <1>1, <3>1 DEF PlannedFor, Idle
    <2>3. QED
      BY <2>1, <2>2
  <1>4. QED
    BY <1>2, <1>3 DEF Next

------------------------------------------------------------------------------
\* What is read and ranked under the lock

\* A pet without a row is read as a fresh score.
NewFor(v) ==
    LET c == job[v].cand
    IN  \A p \in Affected(snap[v], c) :
          account[c.season][p] = None => scores[v][p] = NewScore(scores[v][p].last_ms)

NewReads == \A w \in Workers : pc[w] \in {"decide", "save"} => NewFor(w)

LEMMA LoadNew == ASSUME TypeInv, NEW w \in Workers, Load(w) PROVE NewFor(w)'
  <1> DEFINE c == job[w].cand
  <1> DEFINE row == site[c.season][c.site]
  <1> DEFINE loaded == LoadedScores(c.season, Affected(row, c))
  <1>1. c \in Candidate /\ c.season \in Seasons /\ c.site \in Sites
    BY JobTyped DEF Load
  <1>2. Affected(row, c) \subseteq Pets
    BY <1>1, AffectedPets DEF TypeInv, TypeOK, TablesTyped
  <1>3. \A p \in Affected(row, c) :
          account[c.season][p] = None => loaded[p] = NewScore(clock)
    BY <1>2 DEF LoadedScores
  <1>4. NewScore(clock).last_ms = clock
    BY DEF NewScore
  <1>5. /\ snap'[w] = row /\ scores'[w] = loaded /\ UNCHANGED <<job, account>>
    BY DEF Load, tables, TypeInv, TypeOK, TransactionsTyped
  <1> HIDE DEF loaded
  <1>6. QED
    BY <1>3, <1>4, <1>5 DEF NewFor

LEMMA NewKept ==
    ASSUME NEW v \in Workers, NewFor(v),
           UNCHANGED <<job[v], snap[v], scores[v]>>,
           NEW s, s = job[v].cand.season, UNCHANGED account[s]
    PROVE  NewFor(v)'
  BY DEF NewFor

LEMMA NewReadsNext == ASSUME TypeInv, LockHeld, NewReads, [Next]_vars PROVE NewReads'
  <1> SUFFICES ASSUME NEW v \in Workers, pc'[v] \in {"decide", "save"}
               PROVE  NewFor(v)'
    BY DEF NewReads
  <1>1. pc[v] \in {"decide", "save"} => NewFor(v)
    BY DEF NewReads
  <1>2. CASE Tick \/ SetBack \/ UNCHANGED vars
    <2>1. UNCHANGED <<pc, job, snap, scores, account>>
      BY <1>2 DEF Tick, SetBack, vars, work, tables
    <2>2. QED
      BY <1>1, <2>1, NewKept
  <1>3. ASSUME NEW w \in Workers, WorkerStep(w) PROVE NewFor(v)'
    <2>1. CASE v # w
      <3>1. Idle(v)
        BY <1>3, <2>1, OthersIdle
      <3>2. /\ pc[v] \in {"decide", "save"}
            /\ job[v].season \in Seasons /\ job[v].cand.season = job[v].season
        BY <3>1, JobTyped DEF Idle, WorkerOK
      <3>3. PICK s \in Seasons : s = job[v].season
        BY <3>2
      <3>4. UNCHANGED SeasonRows(s)
        BY <1>3, <2>1, <3>2, <3>3, Undisturbed DEF Holding
      <3>5. UNCHANGED account[s] /\ s = job[v].cand.season
        BY <3>2, <3>3, <3>4 DEF SeasonRows
      <3>6. QED
        BY <1>1, <3>1, <3>2, <3>5, NewKept DEF Idle
    <2>2. CASE v = w /\ Load(w)
      BY <2>2, LoadNew
    <2>3. CASE v = w /\ Decide(w)
      <3>1. pc[v] = "decide" /\ UNCHANGED <<job, snap, scores, account>>
        BY <2>3 DEF Decide, tables
      <3>2. QED
        BY <1>1, <3>1, NewKept
    <2>4. CASE v = w /\ ~Load(w) /\ ~Decide(w)
      <3>1. pc'[w] \notin {"decide", "save"}
        BY <1>3, <2>4, ArrivesBy
      <3>2. QED
        BY <2>4, <3>1
    <2>5. QED
      BY <2>1, <2>2, <2>3, <2>4
  <1>4. QED
    BY <1>2, <1>3 DEF Next

\* The standings about to be written settle the accounts on record.
RanksFor(v) == plan[v] = PlanResults(job[v].season, Scores(job[v].season))

StandingsExact == \A w \in Workers : pc[w] = "close" => RanksFor(w)

LEMMA StandingsNext ==
    ASSUME TypeInv, LockHeld, StandingsExact, [Next]_vars PROVE StandingsExact'
  <1> SUFFICES ASSUME NEW v \in Workers, pc'[v] = "close" PROVE RanksFor(v)'
    BY DEF StandingsExact
  <1>1. pc[v] = "close" => RanksFor(v)
    BY DEF StandingsExact
  <1>2. ASSUME NEW s, s = job[v].season, UNCHANGED <<job[v], plan[v], account[s]>>, RanksFor(v)
        PROVE  RanksFor(v)'
    <2>1. Scores(s)' = Scores(s)
      BY <1>2 DEF Scores, AccountPets
    <2>2. job'[v].season = s
      BY <1>2
    <2>3. QED
      BY <1>2, <2>1, <2>2 DEF RanksFor
  <1>3. CASE Tick \/ SetBack \/ UNCHANGED vars
    <2>1. UNCHANGED <<pc, job, plan, account>>
      BY <1>3 DEF Tick, SetBack, vars, work, tables
    <2>2. QED
      BY <1>1, <1>2, <2>1
  <1>4. ASSUME NEW w \in Workers, WorkerStep(w) PROVE RanksFor(v)'
    <2>1. CASE v = w
      <3>1. PlanFinalization(w)
        BY <1>4, <2>1, ArrivesBy
      <3>2. /\ plan'[w] = PlanResults(job[w].season, Scores(job[w].season))
            /\ UNCHANGED <<job, account>>
        BY <3>1 DEF PlanFinalization, tables, TypeInv, TypeOK, TransactionsTyped
      <3>3. Scores(job[w].season)' = Scores(job[w].season)
        BY <3>2 DEF Scores, AccountPets
      <3>4. QED
        BY <2>1, <3>2, <3>3 DEF RanksFor
    <2>2. CASE v # w
      <3>1. Idle(v) /\ pc[v] = "close"
        BY <1>4, <2>2, OthersIdle DEF Idle
      <3>2. PICK s \in Seasons : s = job[v].season
        BY <3>1, JobTyped
      <3>3. UNCHANGED SeasonRows(s)
        BY <1>4, <2>2, <3>1, <3>2, Undisturbed DEF Holding
      <3>4. UNCHANGED <<job[v], plan[v], account[s]>>
        BY <3>1, <3>3 DEF SeasonRows, Idle
      <3>5. QED
        BY <1>1, <1>2, <3>1, <3>2, <3>4
    <2>3. QED
      BY <2>1, <2>2
  <1>5. QED
    BY <1>3, <1>4 DEF Next

------------------------------------------------------------------------------
\* The accounts accrue what the history says

AgreesUpTo(s, q, score, until) ==
    /\ score.held_site_ms = HeldUpTo(s, q, until)
    /\ score.holding_units = EarnedUpTo(s, q, until)

\* A pet without an account never held a site; one with an account holds, ever
\* since it was settled, what it holds now, and was paid for all before.
AccruedAt(s, q) ==
    IF account[s][q] = None THEN NeverHeld(s, q)
    ELSE status[s] = "ACTIVE" =>
           /\ StillHolds(s, q, account[s][q].last_ms)
           /\ AgreesUpTo(s, q, account[s][q], account[s][q].last_ms)

Accrued == \A s \in Seasons, q \in Pets : AccruedAt(s, q)

LEMMA ThenKept ==
    ASSUME NEW s \in Seasons, UNCHANGED <<eventTable[s], opening[s]>>, NEW q
    PROVE  \A t \in Nat : SameThen(s, q, t)
  <1> SUFFICES ASSUME NEW t \in Nat PROVE SameThen(s, q, t)
    OBVIOUS
  <1>1. Ledger(s)' = Ledger(s)
    BY DEF Ledger
  <1>2. ASSUME NEW x \in Sites PROVE OwnerThen(s, x, t)' = OwnerThen(s, x, t)
    <2>1. EntriesAt(s, x)' = EntriesAt(s, x)
      BY <1>1 DEF EntriesAt
    <2>2. OwnerThen(s, x, t)' = OwnerOf(PastOf(s, x, t)', opening'[s][x])
      BY DEF OwnerThen, OwnerOf, PastOf
    <2>3. PastOf(s, x, t)' = PastOf(s, x, t)
      BY <2>1 DEF PastOf
    <2>4. QED
      BY <2>2, <2>3, OwnerThenOf
  <1>3. /\ \A x \in Sites : x \in HeldThen(s, q, t)' <=> x \in HeldThen(s, q, t)
        /\ \A x \in Sites : x \in ScoringThen(s, q, t)' <=> x \in ScoringThen(s, q, t)
        /\ HeldThen(s, q, t)' \subseteq Sites /\ ScoringThen(s, q, t)' \subseteq Sites
        /\ HeldThen(s, q, t) \subseteq Sites /\ ScoringThen(s, q, t) \subseteq Sites
    BY <1>2, HeldSites, HeldSitesNext
  <1>4. HeldThen(s, q, t)' = HeldThen(s, q, t)
    BY <1>3
  <1>5. ScoringThen(s, q, t)' = ScoringThen(s, q, t)
    BY <1>3
  <1>6. QED
    BY <1>4, <1>5 DEF SameThen

\* An account that is not touched stays right while the rest does.
LEMMA AccruedKept ==
    ASSUME TypeInv, NEW s \in Seasons, NEW q \in Pets, AccruedAt(s, q),
           \A t \in Nat : SameThen(s, q, t),
           OwnedSites(site'[s], q) = OwnedSites(site[s], q),
           ScoringSites(site'[s], q) = ScoringSites(site[s], q),
           account'[s][q] = account[s][q], status'[s] = status[s]
    PROVE  AccruedAt(s, q)'
  <1>1. CASE account[s][q] = None
    BY <1>1 DEF AccruedAt, NeverHeld, SameThen
  <1>2. CASE account[s][q] # None /\ status[s] = "ACTIVE"
    <2> DEFINE last == account[s][q].last_ms
    <2>1. last \in Nat
      BY <1>2 DEF TypeInv, TypeOK, TablesTyped, Score
    <2>2. StillHolds(s, q, last) /\ AgreesUpTo(s, q, account[s][q], last)
      BY <1>2 DEF AccruedAt
    <2>3. PICK at \in Nat : at = last
      BY <2>1
    <2>4. StillHolds(s, q, at)'
      BY <2>2, <2>3 DEF StillHolds, SameThen
    <2>5. HeldUpTo(s, q, at)' = HeldUpTo(s, q, at) /\ EarnedUpTo(s, q, at)' = EarnedUpTo(s, q, at)
      BY SameAdds
    <2>6. AgreesUpTo(s, q, account[s][q], at)'
      BY <2>2, <2>3, <2>5 DEF AgreesUpTo
    <2>7. account'[s][q].last_ms = at /\ account'[s][q] # None
      BY <1>2, <2>3
    <2>8. QED
      BY <2>4, <2>6, <2>7 DEF AccruedAt
  <1>3. CASE account[s][q] # None /\ status[s] # "ACTIVE"
    BY <1>3 DEF AccruedAt
  <1>4. QED
    BY <1>1, <1>2, <1>3

\* A pet without an account owns nothing.
LEMMA OwnsNothing ==
    ASSUME PolicyInv, NEW s \in Seasons, NEW q, account[s][q] = None
    PROVE  OwnedSites(site[s], q) = {} /\ ScoringSites(site[s], q) = {}
  <1>1. RowsAgree(site[s], account[s])
    BY AgreeBySeason DEF PolicyInv, FreshInv, TypeInv, TypeOK
  <1>2. QED
    BY <1>1 DEF RowsAgree, OwnedSites, ScoringSites

\* What an affected account has accrued when the plan takes effect.
LEMMA MoveSettles ==
    ASSUME HistoryInv, Settled, Planned, NewReads, Accrued, NEW w \in Workers, Moves(w),
           NEW s, s = job[w].cand.season, NEW q \in Affected(snap[w], job[w].cand),
           NEW at \in Nat, at = plan[w].at_ms
    PROVE  StillHolds(s, q, at) /\ AgreesUpTo(s, q, plan[w].accounts[q], at)
  <1> DEFINE old == scores[w][q]
  <1> DEFINE new == plan[w].accounts[q]
  <1> DEFINE h == Cardinality(OwnedSites(site[s], q))
  <1> DEFINE k == Cardinality(ScoringSites(site[s], q))
  <1> USE DEF HistoryInv, PolicyInv, FreshInv
  <1>1. /\ s \in Seasons /\ pc[w] = "save" /\ q \in Pets /\ status[s] = "ACTIVE"
        /\ MadeFor(w) /\ DatedFor(w) /\ plan[w].kind # "UNCHANGED"
    <2>1. /\ s \in Seasons /\ pc[w] = "save" /\ status[s] = "ACTIVE"
          /\ MadeFor(w) /\ DatedFor(w) /\ snap[w] \in SiteRow /\ job[w].cand \in Candidate
      BY MoveFacts
    <2>2. q \in Pets
      BY <2>1, AffectedPets
    <2>3. QED
      BY <2>1, <2>2 DEF Moves
  <1>2. /\ AccruesTo(new, old, at)
        /\ old \in Score /\ old.last_ms <= at
        /\ account[s][q] # None => old = account[s][q]
        /\ account[s][q] = None => old = NewScore(old.last_ms)
        /\ old.current_count = h /\ old.scoring_count = k
    <2>1. AccruesTo(new, old, at)
      BY <1>1 DEF Planned, PlannedFor
    <2>2. old.last_ms <= at
      BY <1>1 DEF DatedFor
    <2>3. old \in Score
      BY <1>1 DEF TypeInv, WorkOK, WorkerOK
    <2>4. /\ account[s][q] # None => old = account[s][q]
          /\ old.current_count = h /\ old.scoring_count = k
      BY <1>1 DEF SnapshotFresh, CountsAgree
    <2>5. account[s][q] = None => old = NewScore(old.last_ms)
      BY <1>1 DEF NewReads, NewFor
    <2>6. QED
      BY <2>1, <2>2, <2>3, <2>4, <2>5
  <1> HIDE DEF old, new
  <1>3. CASE account[s][q] = None
    <2>1. NeverHeld(s, q)
      BY <1>1, <1>3 DEF Accrued, AccruedAt
    <2>2. OwnedSites(site[s], q) = {} /\ ScoringSites(site[s], q) = {}
      BY <1>1, <1>3, OwnsNothing
    <2>3. StillHolds(s, q, at)
      BY <2>1, <2>2 DEF StillHolds, NeverHeld, ScoringThen
    <2>4. HeldUpTo(s, q, at) = 0 /\ EarnedUpTo(s, q, at) = 0
      BY <1>1, <2>1, NothingAdds
    <2>5. /\ old.held_site_ms = 0 /\ old.holding_units = 0
          /\ old.current_count = 0 /\ old.scoring_count = 0 /\ old.last_ms \in Nat
      BY <1>2, <1>3 DEF NewScore, Score
    <2>6. at - old.last_ms \in Nat
      BY <1>2, <2>5
    <2>7. (at - old.last_ms) * old.current_count = 0 /\ (at - old.last_ms) * Rate(old.scoring_count) = 0
      BY <2>5, <2>6, RateOfNone
    <2>8. QED
      BY <1>2, <2>3, <2>4, <2>5, <2>7 DEF AgreesUpTo, AccruesTo, new
  <1>4. CASE account[s][q] # None
    <2>1. /\ StillHolds(s, q, old.last_ms) /\ AgreesUpTo(s, q, old, old.last_ms)
          /\ Starts[s] <= old.last_ms
      BY <1>1, <1>2, <1>4 DEF Accrued, AccruedAt, Settled, SettledAt
    <2>2. PICK from \in Nat : from = old.last_ms
      BY <1>2 DEF Score
    <2>3. StillHolds(s, q, at)
      BY <1>2, <2>1, <2>2 DEF StillHolds
    <2>4. /\ HeldUpTo(s, q, at) = HeldUpTo(s, q, from) + (at - from) * h
          /\ EarnedUpTo(s, q, at) = EarnedUpTo(s, q, from) + (at - from) * Rate(k)
      BY <1>1, <1>2, <2>1, <2>2, SteadyAdds
    <2> HIDE DEF h, k
    <2>5. QED
      BY <1>2, <2>1, <2>2, <2>3, <2>4 DEF AgreesUpTo, AccruesTo, new
  <1>5. QED
    BY <1>3, <1>4

LEMMA MoveAccrues ==
    ASSUME HistoryInv, HistoryInv', Settled, Planned, NewReads, Accrued,
           NEW w \in Workers, Moves(w), NEW s, s = job[w].cand.season, NEW q \in Pets
    PROVE  AccruedAt(s, q)'
  <1> DEFINE c == job[w].cand
  <1> USE DEF HistoryInv, PolicyInv, FreshInv
  <1>1. /\ s \in Seasons /\ pc[w] = "save" /\ MadeFor(w) /\ DatedFor(w) /\ plan[w].at_ms \in Nat
        /\ UNCHANGED status /\ plan[w].kind # "UNCHANGED"
    BY MoveFacts DEF MadeFor, Moves, Save
  <1>2. PICK at \in Nat : at = plan[w].at_ms
    BY <1>1
  <1>3. account'[s][q] = IF plan[w].accounts[q] = None THEN account[s][q] ELSE plan[w].accounts[q]
    BY <1>1, AccountsSaved DEF Moves
  <1>4. /\ \A t \in Nat : t < at => SameThen(s, q, t)
        /\ q \notin Affected(snap[w], c) =>
             /\ \A t \in Nat : SameThen(s, q, t)
             /\ OwnedSites(site'[s], q) = OwnedSites(site[s], q)
             /\ ScoringSites(site'[s], q) = ScoringSites(site[s], q)
        /\ StillHolds(s, q, at) => StillHolds(s, q, at)'
    BY <1>2, HeldMoves
  <1>5. CASE q \notin Affected(snap[w], c)
    <2>1. plan[w].accounts[q] = None
      BY <1>1, <1>5 DEF PlanFits
    <2>2. AccruedAt(s, q) /\ account'[s][q] = account[s][q]
      BY <1>1, <1>3, <2>1 DEF Accrued
    <2>3. QED
      BY <1>1, <1>4, <1>5, <2>2, AccruedKept
  <1>6. CASE q \in Affected(snap[w], c)
    <2>1. StillHolds(s, q, at) /\ AgreesUpTo(s, q, plan[w].accounts[q], at)
      BY <1>2, <1>6, MoveSettles
    <2>2. plan[w].accounts[q] \in Score /\ plan[w].accounts[q].last_ms = at
      BY <1>1, <1>2, <1>6 DEF DatedFor
    <2>3. account'[s][q] = plan[w].accounts[q] /\ account'[s][q] # None
      BY <1>3, <2>2, NoneAssumption
    <2>4. HeldUpTo(s, q, at)' = HeldUpTo(s, q, at) /\ EarnedUpTo(s, q, at)' = EarnedUpTo(s, q, at)
      BY <1>1, <1>4, SameAdds
    <2>5. StillHolds(s, q, at)'
      BY <1>4, <2>1
    <2>6. AgreesUpTo(s, q, account[s][q], at)'
      BY <2>1, <2>3, <2>4 DEF AgreesUpTo
    <2>7. account'[s][q].last_ms = at
      BY <2>2, <2>3
    <2>8. QED
      BY <2>3, <2>5, <2>6, <2>7 DEF AccruedAt
  <1>7. QED
    BY <1>5, <1>6

\* All that the scores of a season are read from.
ScoreRows(s) == <<SeasonRows(s), opening[s]>>

LEMMA ScoreSteps ==
    ASSUME PolicyInv, NEW w \in Workers, WorkerStep(w), NEW s \in Seasons
    PROVE  \/ UNCHANGED ScoreRows(s)
           \/ Save(w) /\ s = job[w].cand.season
           \/ Finalize(w) /\ s = job[w].season
           \/ InsertSeason(w) /\ s = job[w].season
  <1> USE DEF PolicyInv, FreshInv
  <1>1. CASE ~Writes(w) \/ Register(w)
    BY <1>1, ReadersLeaveTables DEF tables, ScoreRows, SeasonRows, Register
  <1>2. CASE Save(w) /\ s # job[w].cand.season
    <2>1. UNCHANGED opening
      BY <1>2 DEF Save
    <2>2. QED
      BY <1>2, <2>1, SaveRows DEF ScoreRows
  <1>3. CASE Finalize(w) /\ s # job[w].season
    <2>1. UNCHANGED opening
      BY <1>3 DEF Finalize
    <2>2. QED
      BY <1>3, <2>1, FinalizeRows DEF ScoreRows
  <1>4. CASE InsertSeason(w) /\ s # job[w].season
    <2>1. opening'[s] = opening[s]
      BY <1>4 DEF InsertSeason, TypeInv, TypeOK, TablesTyped
    <2>2. QED
      BY <1>4, <2>1, InsertSeasonRows DEF ScoreRows
  <1>5. QED
    BY <1>1, <1>2, <1>3, <1>4 DEF Writes

\* A season opens with its imported owners holding what they brought, unpaid.
LEMMA InsertAccrues ==
    ASSUME HistoryInv, HistoryInv', NEW w \in Workers, InsertSeason(w),
           NEW s \in Seasons, s = job[w].season, NEW q \in Pets
    PROVE  AccruedAt(s, q)'
  <1> DEFINE owners == job[w].owners
  <1> DEFINE held == {x \in Sites : owners[x] # None /\ owners[x].pet = q}
  <1> DEFINE n == Cardinality(held)
  <1> DEFINE k == Cardinality({x \in held : Counted(owners[x].verified) = 1})
  <1> USE DEF HistoryInv, PolicyInv, FreshInv
  <1>1. \A x \in Sites : EntriesAt(s, x)' = {} /\ site'[s][x].owner = opening'[s][x]
    <2>1. ASSUME NEW x \in Sites PROVE EntriesAt(s, x)' = {} /\ site'[s][x] = OpeningRow(s, x)'
      BY InsertedRows
    <2>2. \A x \in Sites : (OpeningRow(s, x)').owner = opening'[s][x]
      BY DEF OpeningRow
    <2>3. QED
      BY <2>1, <2>2
  <1>2. ASSUME NEW t \in Nat, NEW x \in Sites PROVE OwnerThen(s, x, t)' = site'[s][x].owner
    <2>1. PastOf(s, x, t)' = {}
      BY <1>1 DEF PastOf
    <2>2. OwnerThen(s, x, t)' = OwnerOf(PastOf(s, x, t)', opening'[s][x])
      BY DEF OwnerThen, OwnerOf, PastOf
    <2>3. QED
      BY <1>1, <2>1, <2>2 DEF OwnerOf
  <1>3. ASSUME NEW t \in Nat
        PROVE  /\ HeldThen(s, q, t)' = OwnedSites(site'[s], q)
               /\ ScoringThen(s, q, t)' = ScoringSites(site'[s], q)
    <2>1. /\ \A x \in Sites : x \in HeldThen(s, q, t)' <=> x \in OwnedSites(site'[s], q)
          /\ \A x \in Sites : x \in ScoringThen(s, q, t)' <=> x \in ScoringSites(site'[s], q)
          /\ HeldThen(s, q, t)' \subseteq Sites /\ ScoringThen(s, q, t)' \subseteq Sites
          /\ OwnedSites(site'[s], q) \subseteq Sites /\ ScoringSites(site'[s], q) \subseteq Sites
      BY <1>2, HeldSitesNext
    <2>2. HeldThen(s, q, t)' = OwnedSites(site'[s], q)
      BY <2>1
    <2>3. ScoringThen(s, q, t)' = ScoringSites(site'[s], q)
      BY <2>1
    <2>4. QED
      BY <2>2, <2>3
  <1>4. CASE account'[s][q] = None
    <2>1. \A x \in Sites : ~Owns(site'[s][x].owner, q)
      BY <1>4 DEF CountsMatch, AllScoresAgree, AccountPets, Owns
    <2>2. OwnedSites(site'[s], q) = {}
      BY <2>1 DEF OwnedSites, Owns
    <2>3. QED
      BY <1>3, <1>4, <2>2 DEF AccruedAt, NeverHeld
  <1>5. CASE account'[s][q] # None
    <2>1. Starts[s] \in Nat
      BY WindowAssumption
    <2>2. account'[s][q] = ImportAccount(s, owners, q)
      BY DEF InsertSeason, TypeInv, TypeOK, TablesTyped
    <2>3. ImportAccount(s, owners, q) =
            IF held = {} THEN None
            ELSE [NewScore(Starts[s]) EXCEPT
                    !.current_count = n, !.scoring_count = k, !.peak = n]
      BY DEF ImportAccount
    <2>4. NewScore(Starts[s]) \in Score /\ NewScore(Starts[s]).last_ms = Starts[s]
          /\ NewScore(Starts[s]).held_site_ms = 0 /\ NewScore(Starts[s]).holding_units = 0
      BY <2>1 DEF NewScore, Score
    <2> HIDE DEF held, n, k
    <2>5. /\ account'[s][q].last_ms = Starts[s]
          /\ account'[s][q].held_site_ms = 0 /\ account'[s][q].holding_units = 0
      BY <1>5, <2>2, <2>3, <2>4 DEF Score
    <2>6. HeldUpTo(s, q, Starts[s])' = 0 /\ EarnedUpTo(s, q, Starts[s])' = 0
      <3>1. Starts[s] .. (Starts[s] - 1) = {}
        BY <2>1
      <3>2. QED
        BY <3>1, SumOfNothing DEF HeldUpTo, EarnedUpTo
    <2>7. StillHolds(s, q, Starts[s])'
      BY <1>3 DEF StillHolds
    <2>8. AgreesUpTo(s, q, account[s][q], Starts[s])'
      BY <2>5, <2>6 DEF AgreesUpTo
    <2>9. QED
      BY <1>5, <2>5, <2>7, <2>8 DEF AccruedAt
  <1>6. QED
    BY <1>4, <1>5

\* Closing a season gives its pets no account they did not have.
LEMMA FinalizeAccounts ==
    ASSUME PolicyInv, StandingsExact, NEW w \in Workers, Finalize(w),
           NEW s \in Seasons, s = job[w].season
    PROVE  /\ pc[w] = "close" /\ status[s] = "ACTIVE" /\ status'[s] = "FINALIZED"
           /\ plan[w] = PlanResults(s, Scores(s)) /\ DOMAIN plan[w] = AccountPets(s)
           /\ UNCHANGED <<eventTable, receipt, opening>>
           /\ \A x \in Sites : site'[s][x].owner = None
           /\ \A q \in Pets :
                IF q \in AccountPets(s)
                  THEN /\ plan[w][q] \in Standing
                       /\ account'[s][q] = Retired(plan[w][q].score) /\ account'[s][q] \in Score
                       /\ result'[s][q] = plan[w][q]
                  ELSE account'[s][q] = None
           /\ AccountPets(s)' = AccountPets(s)
  <1> USE DEF PolicyInv, FreshInv
  <1>1. /\ pc[w] = "close" /\ status[s] = "ACTIVE" /\ DOMAIN plan[w] = AccountPets(s)
        /\ plan[w] = PlanResults(s, Scores(s))
        /\ \A q \in AccountPets(s) : plan[w][q] \in Standing
    BY DEF Finalize, ClosingFits, StandingsExact, RanksFor, TypeInv, WorkOK, WorkerOK
  <1>2. status'[s] = "FINALIZED" /\ UNCHANGED <<eventTable, receipt, opening>>
    BY DEF Finalize, TypeInv, TypeOK, TablesTyped
  <1>3. \A x \in Sites : site'[s][x].owner = None
    BY DEF Finalize, TypeInv, TypeOK, TablesTyped
  <1>4. ASSUME NEW q \in Pets, q \in AccountPets(s)
        PROVE  /\ account'[s][q] = Retired(plan[w][q].score) /\ account'[s][q] \in Score
               /\ result'[s][q] = plan[w][q]
    <2>1. account'[s][q] = Retired(plan[w][q].score) /\ result'[s][q] = plan[w][q]
      BY <1>1, <1>4 DEF Finalize, TypeInv, TypeOK, TablesTyped
    <2>2. plan[w][q].score \in Score
      BY <1>1, <1>4 DEF Standing
    <2>3. Retired(plan[w][q].score) \in Score
      BY <2>2 DEF Retired, Score
    <2>4. QED
      BY <2>1, <2>3
  <1>5. ASSUME NEW q \in Pets, q \notin AccountPets(s) PROVE account'[s][q] = None
    BY <1>1, <1>5 DEF Finalize, AccountPets, TypeInv, TypeOK, TablesTyped
  <1>6. AccountPets(s)' = AccountPets(s)
    <2>1. \A q \in Pets : account'[s][q] # None <=> q \in AccountPets(s)
      BY <1>4, <1>5, NoneAssumption
    <2>2. QED
      BY <2>1 DEF AccountPets
  <1>7. QED
    BY <1>1, <1>2, <1>3, <1>4, <1>5, <1>6

LEMMA AccruedNext ==
    ASSUME HistoryInv, HistoryInv', Settled, Planned, NewReads, StandingsExact, Accrued, [Next]_vars
    PROVE  Accrued'
  <1> USE DEF HistoryInv, PolicyInv, FreshInv
  <1> SUFFICES ASSUME NEW s \in Seasons, NEW q \in Pets PROVE AccruedAt(s, q)'
    BY DEF Accrued
  <1>1. AccruedAt(s, q)
    BY DEF Accrued
  <1>2. CASE UNCHANGED <<status[s], site[s], account[s], eventTable[s], opening[s]>>
    BY <1>1, <1>2, ThenKept, AccruedKept
  <1>3. CASE Tick \/ SetBack \/ UNCHANGED vars
    BY <1>2, <1>3 DEF Tick, SetBack, vars, tables
  <1>4. ASSUME NEW w \in Workers, WorkerStep(w) PROVE AccruedAt(s, q)'
    <2>1. CASE Moves(w) /\ s = job[w].cand.season
      BY <2>1, MoveAccrues
    <2>2. CASE Finalize(w) /\ s = job[w].season
      <3>1. /\ status'[s] # "ACTIVE" /\ UNCHANGED <<eventTable, opening>>
            /\ account'[s][q] = None <=> account[s][q] = None
        BY <2>2, FinalizeAccounts, NoneAssumption DEF AccountPets
      <3>2. \A t \in Nat : SameThen(s, q, t)
        BY <3>1, ThenKept
      <3>3. QED
        BY <1>1, <3>1, <3>2 DEF AccruedAt, NeverHeld, SameThen
    <2>3. CASE InsertSeason(w) /\ s = job[w].season
      BY <2>3, InsertAccrues
    <2>4. QED
      BY <1>2, <1>4, <2>1, <2>2, <2>3, SeasonSteps DEF HistoryRows
  <1>5. QED
    BY <1>3, <1>4 DEF Next

------------------------------------------------------------------------------
\* The standings of a closed season

\* A standing settles its account at the season's end and ranks its total.
StandsFor(s, q) ==
    LET r == result[s][q]
    IN  /\ r \in Standing
        /\ r.score.last_ms = Ends[s] /\ AgreesUpTo(s, q, r.score, Ends[s])
        /\ r.score.bonus = account[s][q].bonus
        /\ r.total_units = TotalUnits(r.score)
        /\ r.rank = 1 + Cardinality({p \in AccountPets(s) :
                                       result[s][p].total_units > r.total_units})

RankedAt(s) ==
    status[s] = "FINALIZED" =>
      /\ \A x \in Sites : site[s][x].owner = None
      /\ \A q \in AccountPets(s) : StandsFor(s, q)

Ranked == \A s \in Seasons : RankedAt(s)

\* What settling an account at a later instant gives.
LEMMA SettledAgrees ==
    ASSUME PolicyInv, Settled, Accrued, NEW s \in Seasons, status[s] = "ACTIVE",
           NEW q \in AccountPets(s), NEW at \in Nat, account[s][q].last_ms <= at
    PROVE  LET score == Settle(account[s][q], at)
           IN  /\ score \in Score /\ score.last_ms = at /\ AgreesUpTo(s, q, score, at)
               /\ score.bonus = account[s][q].bonus
  <1> DEFINE old == account[s][q]
  <1> DEFINE score == Settle(old, at)
  <1> DEFINE h == Cardinality(OwnedSites(site[s], q))
  <1> DEFINE k == Cardinality(ScoringSites(site[s], q))
  <1> USE DEF PolicyInv, FreshInv
  <1>1. q \in Pets /\ old # None /\ old \in Score
    BY DEF AccountPets, TypeInv, TypeOK, TablesTyped
  <1>2. old.current_count = h /\ old.scoring_count = k
    BY <1>1 DEF CountsMatch, AllScoresAgree, CountsAgree
  <1>3. /\ StillHolds(s, q, old.last_ms) /\ AgreesUpTo(s, q, old, old.last_ms)
        /\ Starts[s] <= old.last_ms
    BY <1>1 DEF Accrued, AccruedAt, Settled, SettledAt
  <1> HIDE DEF old
  <1>4. PICK from \in Nat : from = old.last_ms
    BY <1>1 DEF Score
  <1>5. from <= at /\ at >= old.last_ms
    BY <1>4 DEF old
  <1>6. /\ score \in Score /\ score.last_ms = at /\ score.bonus = old.bonus
        /\ AccruesTo(score, old, at)
    BY <1>1, <1>5, SettleType, SettleAccrues
  <1>7. /\ HeldUpTo(s, q, at) = HeldUpTo(s, q, from) + (at - from) * h
        /\ EarnedUpTo(s, q, at) = EarnedUpTo(s, q, from) + (at - from) * Rate(k)
    BY <1>3, <1>4, <1>5, SteadyAdds
  <1> HIDE DEF score, h, k
  <1>8. AgreesUpTo(s, q, score, at)
    BY <1>2, <1>3, <1>4, <1>6, <1>7 DEF AgreesUpTo, AccruesTo
  <1>9. QED
    BY <1>6, <1>8 DEF score, old

\* A pet's place in the standings planned for a season's end.
PlannedPlace(s, q, standings) ==
    LET r == standings[q]
    IN  /\ r.score \in Score /\ r.score.last_ms = Ends[s]
        /\ AgreesUpTo(s, q, r.score, Ends[s])
        /\ r.score.bonus = account[s][q].bonus
        /\ r.total_units = TotalUnits(r.score)
        /\ r.rank = 1 + Cardinality({p \in AccountPets(s) :
                                       standings[p].total_units > r.total_units})

LEMMA PlannedStanding ==
    ASSUME PolicyInv, Settled, Accrued, NEW s \in Seasons, status[s] = "ACTIVE",
           NEW standings, standings = PlanResults(s, Scores(s)), NEW q \in AccountPets(s)
    PROVE  PlannedPlace(s, q, standings)
  <1> DEFINE final == [p \in AccountPets(s) |-> Settle(account[s][p], Ends[s])]
  <1> DEFINE Units1(p) == TotalUnits(final[p])
  <1>1. q \in Pets /\ account[s][q] # None /\ Ends[s] \in Nat
    BY WindowAssumption DEF AccountPets
  <1>2. DOMAIN Scores(s) = AccountPets(s) /\ \A p \in AccountPets(s) : Scores(s)[p] = account[s][p]
    BY DEF Scores
  <1>3. [p \in DOMAIN Scores(s) |-> Settle(Scores(s)[p], Ends[s])] = final
    BY <1>2
  <1>4. standings = [p \in AccountPets(s) |->
           [score |-> final[p], total_units |-> TotalUnits(final[p]),
            rank |-> 1 + Cardinality({m \in AccountPets(s) : TotalUnits(final[m]) > TotalUnits(final[p])})]]
    BY <1>2, <1>3 DEF PlanResults
  <1>5. final[q] = Settle(account[s][q], Ends[s])
    OBVIOUS
  <1>6. /\ final[q] \in Score /\ final[q].last_ms = Ends[s] /\ AgreesUpTo(s, q, final[q], Ends[s])
        /\ final[q].bonus = account[s][q].bonus
    <2>1. account[s][q].last_ms <= Ends[s]
      BY <1>1 DEF Settled, SettledAt
    <2>2. QED
      BY <1>1, <1>5, <2>1, SettledAgrees
  <1> HIDE DEF final
  <1>7. \A p \in AccountPets(s) :
          /\ standings[p].score = final[p] /\ standings[p].total_units = Units1(p)
          /\ standings[p].rank = 1 + Cardinality({m \in AccountPets(s) : Units1(m) > Units1(p)})
    BY <1>4
  <1> HIDE DEF Units1
  <1>8. {m \in AccountPets(s) : Units1(m) > Units1(q)} =
        {m \in AccountPets(s) : standings[m].total_units > standings[q].total_units}
    BY <1>7
  <1>9. QED
    BY <1>6, <1>7, <1>8 DEF Units1, PlannedPlace

LEMMA FinalizeRanks ==
    ASSUME PolicyInv, Settled, Accrued, StandingsExact, NEW w \in Workers, Finalize(w),
           NEW s \in Seasons, s = job[w].season
    PROVE  RankedAt(s)'
  <1> DEFINE standings == plan[w]
  <1>1. /\ status[s] = "ACTIVE" /\ standings = PlanResults(s, Scores(s))
        /\ UNCHANGED <<eventTable, opening>> /\ \A x \in Sites : site'[s][x].owner = None
        /\ AccountPets(s)' = AccountPets(s)
    BY FinalizeAccounts
  <1>2. \A q \in AccountPets(s) :
          /\ q \in Pets /\ standings[q] \in Standing /\ result'[s][q] = standings[q]
          /\ account'[s][q] = Retired(standings[q].score)
    BY FinalizeAccounts DEF AccountPets
  <1> HIDE DEF standings
  <1>3. ASSUME NEW q \in AccountPets(s) PROVE StandsFor(s, q)'
    <2> DEFINE r == standings[q]
    <2>0. PlannedPlace(s, q, standings)
      BY <1>1, PlannedStanding
    <2>1. /\ r.score \in Score /\ r.score.last_ms = Ends[s]
          /\ AgreesUpTo(s, q, r.score, Ends[s])
          /\ r.score.bonus = account[s][q].bonus
          /\ r.total_units = TotalUnits(r.score)
          /\ r.rank = 1 + Cardinality({p \in AccountPets(s) :
                                         standings[p].total_units > r.total_units})
      BY <2>0 DEF PlannedPlace
    <2>2. r \in Standing /\ result'[s][q] = r
      BY <1>2
    <2>3. {p \in AccountPets(s) : standings[p].total_units > r.total_units} =
          {p \in AccountPets(s)' : result'[s][p].total_units > r.total_units}
      BY <1>1, <1>2
    <2>4. account'[s][q].bonus = r.score.bonus
      BY <1>2, <2>1 DEF Retired, Score
    <2>5. Ends[s] \in Nat /\ \A t \in Nat : SameThen(s, q, t)
      BY <1>1, ThenKept, WindowAssumption
    <2>6. /\ HeldUpTo(s, q, Ends[s])' = HeldUpTo(s, q, Ends[s])
          /\ EarnedUpTo(s, q, Ends[s])' = EarnedUpTo(s, q, Ends[s])
      BY <2>5, SameAdds
    <2>7. /\ r.score.held_site_ms = HeldUpTo(s, q, Ends[s])'
          /\ r.score.holding_units = EarnedUpTo(s, q, Ends[s])'
      BY <2>1, <2>6 DEF AgreesUpTo
    <2> HIDE DEF r
    <2>8. AgreesUpTo(s, q, result[s][q].score, Ends[s])'
      BY <2>2, <2>7 DEF AgreesUpTo
    <2>9. QED
      BY <2>1, <2>2, <2>3, <2>4, <2>8 DEF StandsFor
  <1>4. QED
    BY <1>1, <1>3 DEF RankedAt

LEMMA RankedNext ==
    ASSUME PolicyInv, Settled, Accrued, StandingsExact, Ranked, [Next]_vars
    PROVE  Ranked'
  <1> USE DEF PolicyInv, FreshInv
  <1> SUFFICES ASSUME NEW s \in Seasons PROVE RankedAt(s)'
    BY DEF Ranked
  <1>1. RankedAt(s)
    BY DEF Ranked
  <1>2. CASE UNCHANGED ScoreRows(s)
    <2>1. UNCHANGED <<status[s], site[s], account[s], eventTable[s], opening[s], result[s]>>
      BY <1>2 DEF ScoreRows, SeasonRows
    <2>2. AccountPets(s)' = AccountPets(s)
      BY <2>1 DEF AccountPets
    <2>3. ASSUME NEW q \in AccountPets(s), StandsFor(s, q) PROVE StandsFor(s, q)'
      <3>1. /\ HeldUpTo(s, q, Ends[s])' = HeldUpTo(s, q, Ends[s])
            /\ EarnedUpTo(s, q, Ends[s])' = EarnedUpTo(s, q, Ends[s])
        <4>1. Ends[s] \in Nat /\ q \in Pets
          BY WindowAssumption DEF AccountPets
        <4>2. \A t \in Nat : SameThen(s, q, t)
          BY <2>1, ThenKept
        <4>3. QED
          BY <4>1, <4>2, SameAdds
      <3>2. AgreesUpTo(s, q, result[s][q].score, Ends[s])'
        BY <2>1, <2>3, <3>1 DEF AgreesUpTo, StandsFor
      <3>3. {p \in AccountPets(s)' : result'[s][p].total_units > result'[s][q].total_units} =
            {p \in AccountPets(s) : result[s][p].total_units > result[s][q].total_units}
        BY <2>1, <2>2
      <3>4. QED
        BY <2>1, <2>3, <3>2, <3>3 DEF StandsFor
    <2>4. QED
      BY <1>1, <2>1, <2>2, <2>3 DEF RankedAt
  <1>3. CASE Tick \/ SetBack \/ UNCHANGED vars
    BY <1>2, <1>3 DEF Tick, SetBack, vars, tables, ScoreRows, SeasonRows
  <1>4. ASSUME NEW w \in Workers, WorkerStep(w) PROVE RankedAt(s)'
    <2>1. CASE Save(w) /\ s = job[w].cand.season
      <3>1. status[s] = "ACTIVE" /\ UNCHANGED status
        BY <2>1 DEF Save, CanSave
      <3>2. QED
        BY <3>1 DEF RankedAt
    <2>2. CASE Finalize(w) /\ s = job[w].season
      BY <2>2, FinalizeRanks
    <2>3. CASE InsertSeason(w) /\ s = job[w].season
      <3>1. status'[s] = "ACTIVE"
        BY <2>3 DEF InsertSeason, TypeInv, TypeOK, TablesTyped
      <3>2. QED
        BY <3>1 DEF RankedAt
    <2>4. QED
      BY <1>2, <1>4, <2>1, <2>2, <2>3, ScoreSteps
  <1>5. QED
    BY <1>3, <1>4 DEF Next

------------------------------------------------------------------------------
\* Points and tallies

Mine(s, q) == {n \in Changes(s) : n.cand.pet = q}
Takeovers(s, q) == {n \in Mine(s, q) : n.before.owner # None}
OpenedWith(s, q) == {x \in Sites : opening[s][x] # None /\ opening[s][x].pet = q}

\* Claims, takeovers, points and peak are those of the recorded history.
Tallies(s, q, score) ==
    /\ score.claims = Cardinality(Mine(s, q))
    /\ score.takeovers = Cardinality(Takeovers(s, q))
    /\ score.bonus = ReceiptPoints(s, q)
    /\ score.peak <= Cardinality(OpenedWith(s, q)) + score.claims

\* A pet without an account has neither made a claim nor been answered.
TallyAt(s, q) ==
    IF account[s][q] = None THEN Mine(s, q) = {} /\ ReceiptsOf(s, q) = {}
    ELSE Tallies(s, q, account[s][q])

Tallied == \A s \in Seasons, q \in Pets : TallyAt(s, q)

\* What was recorded so far is finite, however many identities events may have.
FewRecords ==
    \A s \in Seasons :
      IsFiniteSet(Ledger(s)) /\ IsFiniteSet({e \in Events : receipt[s][e] # None})

LEMMA RecordsNext ==
    ASSUME PolicyInv, PlanMade, FewRecords, [Next]_vars PROVE FewRecords'
  <1> USE DEF PolicyInv, FreshInv
  <1> SUFFICES ASSUME NEW s \in Seasons
               PROVE  /\ IsFiniteSet(Ledger(s)')
                      /\ IsFiniteSet({e \in Events : receipt'[s][e] # None})
    BY DEF FewRecords
  <1>1. IsFiniteSet(Ledger(s)) /\ IsFiniteSet({e \in Events : receipt[s][e] # None})
    BY DEF FewRecords
  <1>2. ASSUME UNCHANGED eventTable[s] PROVE Ledger(s)' = Ledger(s)
    BY <1>2 DEF Ledger
  <1>3. CASE UNCHANGED <<eventTable[s], receipt[s]>>
    BY <1>1, <1>2, <1>3
  <1>4. CASE Tick \/ SetBack \/ UNCHANGED vars
    BY <1>3, <1>4 DEF Tick, SetBack, vars, tables
  <1>5. ASSUME NEW w \in Workers, WorkerStep(w)
        PROVE  /\ IsFiniteSet(Ledger(s)')
               /\ IsFiniteSet({e \in Events : receipt'[s][e] # None})
    <2>1. CASE Save(w)
      <3> DEFINE c == job[w].cand
      <3>1. /\ receipt' = [receipt EXCEPT ![c.season][c.event] = ReceiptOf(c, plan[w], snap[w])]
            /\ receipt \in [Seasons -> [Events -> Receipt \union {None}]]
        BY <2>1 DEF Save, TypeInv, TypeOK, TablesTyped
      <3>2. {e \in Events : receipt'[s][e] # None} \subseteq
              {e \in Events : receipt[s][e] # None} \union {c.event}
        BY <3>1
      <3>3. IsFiniteSet({e \in Events : receipt[s][e] # None} \union {c.event})
        BY <1>1, FS_AddElement
      <3>4. IsFiniteSet({e \in Events : receipt'[s][e] # None})
        BY <3>2, <3>3, FS_Subset
      <3>5. IsFiniteSet(Ledger(s)')
        <4>1. CASE Moves(w)
          <5>1. IsFiniteSet(Ledger(s) \union {EntryOf(w)})
            BY <1>1, FS_AddElement
          <5>2. \/ Ledger(s)' = Ledger(s)
                \/ Ledger(s)' = Ledger(s) \union {EntryOf(w)}
            BY <4>1, LedgerGrows
          <5>3. QED
            BY <1>1, <5>1, <5>2
        <4>2. CASE ~Moves(w)
          BY <1>1, <1>2, <1>5, <4>2, EventsStay
        <4>3. QED
          BY <4>1, <4>2
      <3>6. QED
        BY <3>4, <3>5
    <2>2. CASE ~Save(w)
      <3>1. UNCHANGED <<eventTable, receipt>>
        <4>1. CASE ~Writes(w)
          BY <4>1, <1>5, ReadersLeaveTables DEF tables
        <4>2. CASE Register(w) \/ Finalize(w) \/ InsertSeason(w)
          BY <4>2 DEF Register, Finalize, InsertSeason
        <4>3. QED
          BY <2>2, <4>1, <4>2 DEF Writes
      <3>2. QED
        BY <1>3, <3>1
    <2>3. QED
      BY <2>1, <2>2
  <1>6. QED
    BY <1>4, <1>5 DEF Next

\* The tallies of an account that keeps its claims, its points and its peak.
SameTally(s, q) ==
    /\ account'[s][q] = None <=> account[s][q] = None
    /\ account[s][q] # None =>
         /\ account'[s][q].claims = account[s][q].claims
         /\ account'[s][q].takeovers = account[s][q].takeovers
         /\ account'[s][q].bonus = account[s][q].bonus
         /\ account'[s][q].peak = account[s][q].peak

LEMMA TallyKept ==
    ASSUME NEW s \in Seasons, NEW q \in Pets, TallyAt(s, q), SameTally(s, q),
           UNCHANGED <<eventTable[s], receipt[s], opening[s]>>
    PROVE  TallyAt(s, q)'
  <1>1. Mine(s, q)' = Mine(s, q)
    BY DEF Mine, Changes, Ledger
  <1>2. Takeovers(s, q)' = Takeovers(s, q)
    BY <1>1 DEF Takeovers
  <1>3. ReceiptsOf(s, q)' = ReceiptsOf(s, q)
    BY DEF ReceiptsOf
  <1>4. ReceiptPoints(s, q)' = ReceiptPoints(s, q)
    BY <1>3 DEF ReceiptPoints
  <1>5. OpenedWith(s, q)' = OpenedWith(s, q)
    BY DEF OpenedWith
  <1>6. CASE account[s][q] = None
    BY <1>1, <1>3, <1>6 DEF TallyAt, SameTally
  <1>7. CASE account[s][q] # None
    BY <1>1, <1>2, <1>4, <1>5, <1>7 DEF TallyAt, SameTally, Tallies
  <1>8. QED
    BY <1>6, <1>7

\* A receipt adds what it announces to the points of its pet.
LEMMA PointsMove ==
    ASSUME PolicyInv, FewRecords, NEW w \in Workers, Save(w),
           NEW s, s = job[w].cand.season, NEW q \in Pets
    PROVE  LET c == job[w].cand
           IN  /\ ReceiptsOf(s, q)' = IF q = c.pet THEN ReceiptsOf(s, q) \union {c.event}
                                      ELSE ReceiptsOf(s, q)
               /\ ReceiptPoints(s, q)' =
                    ReceiptPoints(s, q) + (IF q = c.pet THEN plan[w].bonus ELSE 0)
               /\ ReceiptPoints(s, q) \in Nat
  <1> DEFINE c == job[w].cand
  <1> DEFINE written == ReceiptOf(c, plan[w], snap[w])
  <1> DEFINE f == [e \in ReceiptsOf(s, q) |-> receipt[s][e].bonus]
  <1> DEFINE g == [e \in ReceiptsOf(s, q)' |-> receipt'[s][e].bonus]
  <1> USE DEF PolicyInv, FreshInv
  <1>1. /\ s \in Seasons /\ c.event \in Events /\ written \in Receipt
        /\ written.cand = c /\ written.bonus = plan[w].bonus /\ plan[w].bonus \in Nat
    <2>1. /\ pc[w] = "save" /\ c \in Candidate /\ plan[w] \in OwnershipPlan
          /\ s \in Seasons /\ c.event \in Events /\ written \in Receipt
      BY SavedRows DEF Save, TypeInv, WorkOK, WorkerOK
    <2>2. QED
      BY <2>1 DEF ReceiptOf, OwnershipPlan
  <1>2. written # None
    BY <1>1, NullAssumption
  <1>3. /\ receipt[s][c.event] = None
        /\ \A e \in Events : receipt'[s][e] = IF e = c.event THEN written ELSE receipt[s][e]
    <2>1. receipt[s][c.event] = None /\ receipt' = [receipt EXCEPT ![s][c.event] = written]
      BY DEF Save, CanSave
    <2>2. receipt \in [Seasons -> [Events -> Receipt \union {None}]]
      BY DEF TypeInv, TypeOK, TablesTyped
    <2> HIDE DEF written
    <2>3. QED
      BY <1>1, <2>1, <2>2
  <1> HIDE DEF written
  <1>4. /\ \A e : e \in ReceiptsOf(s, q) <=> e \in Events /\ receipt[s][e] # None /\ receipt[s][e].cand.pet = q
        /\ \A e : e \in ReceiptsOf(s, q)' <=> e \in Events /\ receipt'[s][e] # None /\ receipt'[s][e].cand.pet = q
    BY DEF ReceiptsOf
  <1>5. /\ ReceiptsOf(s, q)' = IF q = c.pet THEN ReceiptsOf(s, q) \union {c.event}
                               ELSE ReceiptsOf(s, q)
        /\ c.event \notin ReceiptsOf(s, q) /\ ReceiptsOf(s, q) \subseteq Events
    <2>1. c.event \notin ReceiptsOf(s, q) /\ ReceiptsOf(s, q) \subseteq Events
      BY <1>3, <1>4
    <2>2. CASE q = c.pet
      <3>1. \A e : e \in ReceiptsOf(s, q)' <=> e \in ReceiptsOf(s, q) \union {c.event}
        BY <1>1, <1>2, <1>3, <1>4, <2>2
      <3>2. QED
        BY <2>1, <2>2, <3>1
    <2>3. CASE q # c.pet
      <3>1. \A e : e \in ReceiptsOf(s, q)' <=> e \in ReceiptsOf(s, q)
        BY <1>1, <1>2, <1>3, <1>4, <2>3
      <3>2. QED
        BY <2>1, <2>3, <3>1
    <2>4. QED
      BY <2>2, <2>3
  <1>6. \A e \in ReceiptsOf(s, q) : receipt[s][e].bonus \in Nat /\ receipt'[s][e] = receipt[s][e]
    <2>1. \A e \in ReceiptsOf(s, q) :
            e \in Events /\ e # c.event /\ receipt[s][e] # None
      BY <1>4, <1>5
    <2>2. receipt \in [Seasons -> [Events -> Receipt \union {None}]]
      BY DEF TypeInv, TypeOK, TablesTyped
    <2>3. \A e \in ReceiptsOf(s, q) : receipt[s][e] \in Receipt
      BY <1>1, <2>1, <2>2
    <2>4. \A e \in ReceiptsOf(s, q) : receipt[s][e].bonus \in Nat
      BY <2>3 DEF Receipt
    <2>5. \A e \in ReceiptsOf(s, q) : receipt'[s][e] = receipt[s][e]
      BY <1>3, <2>1
    <2>6. QED
      BY <2>4, <2>5
  <1>7. IsFiniteSet(ReceiptsOf(s, q))
    <2>1. ReceiptsOf(s, q) \subseteq {e \in Events : receipt[s][e] # None}
      BY DEF ReceiptsOf
    <2>2. QED
      BY <1>1, <2>1, FS_Subset DEF FewRecords
  <1>8. ReceiptPoints(s, q) = SumFunction(f) /\ ReceiptPoints(s, q)' = SumFunction(g)
    BY DEF ReceiptPoints
  <1>9. ReceiptPoints(s, q) \in Nat
    <2>1. DOMAIN f = ReceiptsOf(s, q) /\ \A e \in DOMAIN f : f[e] \in Nat
      BY <1>6
    <2> HIDE DEF f
    <2>2. QED
      BY <1>7, <1>8, <2>1, SumIsCount
  <1>10. CASE q = c.pet
    <2> DEFINE D == {c.event}
    <2>1. Continues(g, f, D, plan[w].bonus)
      <3>1. IsFiniteSet(D) /\ DOMAIN f = ReceiptsOf(s, q) /\ DOMAIN g = ReceiptsOf(s, q)'
        BY FS_Singleton
      <3>2. DOMAIN g = DOMAIN f \union D /\ DOMAIN f \intersect D = {}
        BY <1>5, <1>10, <3>1
      <3>3. \A x \in DOMAIN f : f[x] \in Nat /\ g[x] = f[x]
        BY <1>6, <3>1, <3>2
      <3>4. \A x \in D : g[x] = plan[w].bonus
        BY <1>1, <1>3, <3>1, <3>2
      <3> HIDE DEF f, g, D
      <3>5. QED
        BY <1>1, <1>7, <3>1, <3>2, <3>3, <3>4 DEF Continues
    <2>2. Cardinality(D) = 1
      BY FS_Singleton
    <2> HIDE DEF f, g, D
    <2>3. SumFunction(g) = SumFunction(f) + Cardinality(D) * plan[w].bonus
      BY <2>1, SumContinued
    <2>4. SumFunction(g) = SumFunction(f) + plan[w].bonus
      BY <1>1, <2>2, <2>3
    <2>5. QED
      BY <1>5, <1>8, <1>9, <1>10, <2>4
  <1>11. CASE q # c.pet
    <2>1. g = f
      BY <1>5, <1>6, <1>11
    <2> HIDE DEF f, g
    <2>2. ReceiptPoints(s, q)' = ReceiptPoints(s, q) + 0
      BY <1>8, <1>9, <2>1
    <2>3. QED
      BY <1>5, <1>9, <1>11, <2>2
  <1>12. QED
    BY <1>10, <1>11

\* A change of owner adds to the claims of its winner, and to nobody else's.
LEMMA ClaimsMove ==
    ASSUME HistoryInv, FewRecords, NEW w \in Workers, Moves(w),
           NEW s, s = job[w].cand.season, NEW q \in Pets
    PROVE  LET c == job[w].cand
           IN  /\ Cardinality(Mine(s, q)') = Cardinality(Mine(s, q)) + Won(snap[w], c, q)
               /\ Cardinality(Takeovers(s, q)') =
                    Cardinality(Takeovers(s, q)) + Taken(snap[w], c, q)
               /\ Cardinality(Mine(s, q)) \in Nat /\ Cardinality(Takeovers(s, q)) \in Nat
               /\ Won(snap[w], c, q) = 0 => Mine(s, q)' = Mine(s, q)
  <1> DEFINE c == job[w].cand
  <1> DEFINE n == EntryOf(w)
  <1> DEFINE row == snap[w]
  <1> USE DEF HistoryInv
  <1>1. /\ s \in Seasons /\ c.event \in Events /\ n # None
        /\ n.cand = c /\ n.before = row /\ n.kind = PlanKind(row, c)
        /\ plan[w].kind # "UNCHANGED" /\ n.kind # "UNCHANGED"
        /\ eventTable[s][c.event] = None
    <2>1. /\ s \in Seasons /\ c.event \in Events /\ n # None /\ MadeFor(w)
          /\ n.cand = c /\ n.before = row /\ n.kind = plan[w].kind
          /\ eventTable[s][c.event] = None
      BY MoveFacts
    <2>2. plan[w].kind # "UNCHANGED" /\ plan[w].kind = PlanKind(row, c)
      BY <2>1 DEF MadeFor, Moves
    <2>3. QED
      BY <2>1, <2>2
  <1>2. Ledger(s)' = Ledger(s) \union {n}
    BY <1>1, LedgerGrows
  <1>3. n \notin Ledger(s)
    <2>1. SUFFICES ASSUME n \in Ledger(s) PROVE FALSE
      OBVIOUS
    <2>2. PICK e \in Events : n = eventTable[s][e]
      BY <2>1 DEF Ledger
    <2>3. n.cand.event = e
      BY <1>1, <2>2 DEF EventsFiled, Filed
    <2>4. QED
      BY <1>1, <2>2, <2>3
  <1>4. n.kind = "OWNERSHIP_CHANGED" <=> ~SamePet(row, c)
    BY <1>1 DEF PlanKind
  <1> HIDE DEF n
  <1>5. /\ \A m : m \in Mine(s, q) <=> m \in Ledger(s) /\ m.kind = "OWNERSHIP_CHANGED" /\ m.cand.pet = q
        /\ \A m : m \in Mine(s, q)' <=> m \in Ledger(s)' /\ m.kind = "OWNERSHIP_CHANGED" /\ m.cand.pet = q
        /\ \A m : m \in Takeovers(s, q) <=> m \in Mine(s, q) /\ m.before.owner # None
        /\ \A m : m \in Takeovers(s, q)' <=> m \in Mine(s, q)' /\ m.before.owner # None
    BY DEF Mine, Changes, Takeovers
  <1>6. IsFiniteSet(Mine(s, q)) /\ IsFiniteSet(Takeovers(s, q))
    <2>1. IsFiniteSet(Ledger(s))
      BY <1>1 DEF FewRecords
    <2>2. Mine(s, q) \subseteq Ledger(s) /\ Takeovers(s, q) \subseteq Ledger(s)
      BY <1>5
    <2>3. QED
      BY <2>1, <2>2, FS_Subset
  <1>7. Cardinality(Mine(s, q)) \in Nat /\ Cardinality(Takeovers(s, q)) \in Nat
    BY <1>6, FS_CardinalityType
  <1>8. n \notin Mine(s, q) /\ n \notin Takeovers(s, q)
    BY <1>3, <1>5
  <1>9. CASE q = c.pet /\ ~SamePet(row, c)
    <2>1. \A m : m \in Mine(s, q)' <=> m \in Mine(s, q) \union {n}
      BY <1>1, <1>2, <1>4, <1>5, <1>9
    <2>2. Mine(s, q)' = Mine(s, q) \union {n}
      BY <2>1
    <2>3. Cardinality(Mine(s, q)') = Cardinality(Mine(s, q)) + 1
      BY <1>6, <1>8, <2>2, FS_AddElement
    <2>4. Takeovers(s, q)' = IF row.owner # None THEN Takeovers(s, q) \union {n}
                             ELSE Takeovers(s, q)
      <3>1. CASE row.owner # None
        <4>1. \A m : m \in Takeovers(s, q)' <=> m \in Takeovers(s, q) \union {n}
          BY <1>1, <1>5, <2>2, <3>1
        <4>2. QED
          BY <3>1, <4>1
      <3>2. CASE row.owner = None
        <4>1. \A m : m \in Takeovers(s, q)' <=> m \in Takeovers(s, q)
          BY <1>1, <1>5, <2>2, <3>2
        <4>2. QED
          BY <3>2, <4>1
      <3>3. QED
        BY <3>1, <3>2
    <2>5. Cardinality(Takeovers(s, q)') = Cardinality(Takeovers(s, q)) + (IF row.owner # None THEN 1 ELSE 0)
      <3>1. Cardinality(Takeovers(s, q) \union {n}) = Cardinality(Takeovers(s, q)) + 1
        BY <1>6, <1>8, FS_AddElement
      <3>2. CASE row.owner # None
        BY <2>4, <3>1, <3>2
      <3>3. CASE row.owner = None
        BY <1>7, <2>4, <3>3
      <3>4. QED
        BY <3>2, <3>3
    <2>6. Won(row, c, q) = 1 /\ Taken(row, c, q) = IF row.owner # None THEN 1 ELSE 0
      BY <1>9 DEF Won, Taken
    <2>7. QED
      BY <1>7, <2>3, <2>5, <2>6
  <1>10. CASE ~(q = c.pet /\ ~SamePet(row, c))
    <2>1. \A m : m \in Mine(s, q)' <=> m \in Mine(s, q)
      BY <1>1, <1>2, <1>4, <1>5, <1>10
    <2>2. Mine(s, q)' = Mine(s, q)
      BY <2>1
    <2>3. \A m : m \in Takeovers(s, q)' <=> m \in Takeovers(s, q)
      BY <1>5, <2>2
    <2>4. Takeovers(s, q)' = Takeovers(s, q)
      BY <2>3
    <2>5. Won(row, c, q) = 0 /\ Taken(row, c, q) = 0
      BY <1>10 DEF Won, Taken
    <2>6. QED
      BY <1>7, <2>2, <2>4, <2>5
  <1>11. QED
    BY <1>9, <1>10

\* What a transaction read of an affected pet tallies with the history.
LEMMA ReadTallies ==
    ASSUME HistoryInv, LedgerInv, NewReads, Tallied, FewRecords, NEW w \in Workers, Moves(w),
           NEW s, s = job[w].cand.season, NEW q \in Affected(snap[w], job[w].cand)
    PROVE  Tallies(s, q, scores[w][q]) /\ scores[w][q] \in Score
  <1> DEFINE old == scores[w][q]
  <1> USE DEF HistoryInv, PolicyInv, FreshInv
  <1>1. /\ s \in Seasons /\ pc[w] = "save" /\ q \in Pets
        /\ snap[w] \in SiteRow /\ job[w].cand \in Candidate
    BY MoveFacts, AffectedPets
  <1>2. old \in Score
    BY <1>1 DEF TypeInv, WorkOK, WorkerOK
  <1>3. TallyAt(s, q)
    BY <1>1 DEF Tallied
  <1>4. CASE account[s][q] # None
    <2>1. old = account[s][q]
      BY <1>1, <1>4 DEF SnapshotFresh
    <2>2. QED
      BY <1>2, <1>3, <1>4, <2>1 DEF TallyAt
  <1>5. CASE account[s][q] = None
    <2>1. old.claims = 0 /\ old.takeovers = 0 /\ old.bonus = 0 /\ old.peak = 0
      <3>1. old = NewScore(old.last_ms)
        BY <1>1, <1>5 DEF NewReads, NewFor
      <3>2. QED
        BY <3>1 DEF NewScore
    <2>2. Mine(s, q) = {} /\ ReceiptsOf(s, q) = {}
      BY <1>3, <1>5 DEF TallyAt
    <2>3. Cardinality(Mine(s, q)) = 0 /\ Cardinality(Takeovers(s, q)) = 0
      BY <2>2, FS_EmptySet DEF Takeovers
    <2>4. ReceiptPoints(s, q) = 0
      BY <2>2, SumOfNothing DEF ReceiptPoints
    <2>5. Cardinality(OpenedWith(s, q)) \in Nat
      BY FS_Subset, FS_CardinalityType, FiniteAssumption DEF OpenedWith
    <2> HIDE DEF old
    <2>6. QED
      BY <1>2, <2>1, <2>3, <2>4, <2>5 DEF Tallies, old
  <1>6. QED
    BY <1>4, <1>5

\* Saving a claim keeps every account in step with the record.
LEMMA TallySave ==
    ASSUME HistoryInv, LedgerInv, Planned, NewReads, Tallied, FewRecords,
           NEW w \in Workers, Save(w), NEW s, s = job[w].cand.season, NEW q \in Pets
    PROVE  TallyAt(s, q)'
  <1> DEFINE c == job[w].cand
  <1> DEFINE row == snap[w]
  <1> DEFINE p == plan[w]
  <1> USE DEF HistoryInv, PolicyInv, FreshInv
  <1>1. /\ s \in Seasons /\ pc[w] = "save" /\ PaysFor(w) /\ row = site[s][c.site]
        /\ c.site \in Sites /\ c.pet \in Pets /\ row \in SiteRow /\ p.bonus \in Nat
        /\ UNCHANGED opening
    BY SavingRow DEF Save, TypeInv, WorkOK, WorkerOK, OwnershipPlan
  <1>2. /\ ReceiptsOf(s, q)' = IF q = c.pet THEN ReceiptsOf(s, q) \union {c.event}
                               ELSE ReceiptsOf(s, q)
        /\ ReceiptPoints(s, q)' = ReceiptPoints(s, q) + (IF q = c.pet THEN p.bonus ELSE 0)
        /\ ReceiptPoints(s, q) \in Nat
    BY PointsMove
  <1>3. TallyAt(s, q)
    BY <1>1 DEF Tallied
  <1>4. OpenedWith(s, q)' = OpenedWith(s, q)
    BY <1>1 DEF OpenedWith
  <1>5. Cardinality(OpenedWith(s, q)) \in Nat
    BY FS_Subset, FS_CardinalityType, FiniteAssumption DEF OpenedWith
  <1>6. CASE p.kind = "UNCHANGED"
    <2>1. /\ UNCHANGED <<account, eventTable>>
      BY <1>6 DEF Save
    <2>2. SamePet(row, c) /\ p.bonus = 0
      BY <1>1, <1>6 DEF PaysFor, PlanKind, Unchanged
    <2>3. account[s][c.pet] # None
      BY <1>1, <2>2 DEF SamePet, CountsMatch, AllScoresAgree, AccountPets
    <2>4. Mine(s, q)' = Mine(s, q)
      BY <2>1 DEF Mine, Changes, Ledger
    <2>5. Takeovers(s, q)' = Takeovers(s, q)
      BY <2>4 DEF Takeovers
    <2>6. ReceiptPoints(s, q)' = ReceiptPoints(s, q)
      BY <1>2, <2>2
    <2>7. CASE account[s][q] = None
      BY <1>2, <1>3, <2>1, <2>3, <2>4, <2>7 DEF TallyAt
    <2>8. CASE account[s][q] # None
      BY <1>3, <1>4, <2>1, <2>4, <2>5, <2>6, <2>8 DEF TallyAt, Tallies
    <2>9. QED
      BY <2>7, <2>8
  <1>7. CASE p.kind # "UNCHANGED"
    <2>1. Moves(w)
      BY <1>7 DEF Moves
    <2>2. account'[s][q] = IF p.accounts[q] = None THEN account[s][q] ELSE p.accounts[q]
      BY <1>1, <1>7, AccountsSaved
    <2>3. /\ Cardinality(Mine(s, q)') = Cardinality(Mine(s, q)) + Won(row, c, q)
          /\ Cardinality(Takeovers(s, q)') = Cardinality(Takeovers(s, q)) + Taken(row, c, q)
          /\ Cardinality(Mine(s, q)) \in Nat /\ Cardinality(Takeovers(s, q)) \in Nat
          /\ Won(row, c, q) = 0 => Mine(s, q)' = Mine(s, q)
      BY <2>1, ClaimsMove
    <2>4. CASE q \notin Affected(row, c)
      <3>1. p.accounts[q] = None
        BY <1>1, <1>7, <2>4 DEF PlanFits
      <3>2. q # c.pet /\ Won(row, c, q) = 0 /\ Taken(row, c, q) = 0
        BY <2>4 DEF Affected, Won, Taken
      <3>3. /\ Cardinality(Takeovers(s, q)') = Cardinality(Takeovers(s, q))
            /\ Mine(s, q)' = Mine(s, q) /\ ReceiptsOf(s, q)' = ReceiptsOf(s, q)
            /\ ReceiptPoints(s, q)' = ReceiptPoints(s, q)
        BY <1>2, <2>3, <3>2
      <3>4. account'[s][q] = account[s][q]
        BY <2>2, <3>1
      <3>5. CASE account[s][q] = None
        BY <1>3, <3>3, <3>4, <3>5 DEF TallyAt
      <3>6. CASE account[s][q] # None
        BY <1>3, <1>4, <3>3, <3>4, <3>6 DEF TallyAt, Tallies
      <3>7. QED
        BY <3>5, <3>6
    <2>5. CASE q \in Affected(row, c)
      <3> DEFINE old == scores[w][q]
      <3> DEFINE new == p.accounts[q]
      <3>1. Tallies(s, q, old) /\ old \in Score
        BY <2>1, <2>5, ReadTallies
      <3>2. CountsWin(new, old, Won(row, c, q), Taken(row, c, q))
        BY <1>1, <1>7, <2>5 DEF Planned, PlannedFor
      <3>3. new # None /\ new.bonus = old.bonus + (IF q = c.pet THEN p.bonus ELSE 0)
        BY <1>1, <1>7, <2>5 DEF PaysFor
      <3>4. new \in Score
        BY <2>1, <2>5, MoveFacts, AffectedPets DEF DatedFor
      <3>5. account'[s][q] = new
        BY <2>2, <3>3
      <3>6. Won(row, c, q) \in Nat
        BY DEF Won
      <3> HIDE DEF old, new, row, p
      <3>7. /\ new.claims = Cardinality(Mine(s, q)')
            /\ new.takeovers = Cardinality(Takeovers(s, q)')
            /\ new.bonus = ReceiptPoints(s, q)'
        BY <1>2, <2>3, <3>1, <3>2, <3>3 DEF Tallies, CountsWin
      <3>8. new.peak <= Cardinality(OpenedWith(s, q)') + new.claims
        <4>1. old.peak \in Nat /\ old.claims \in Nat /\ new.peak \in Nat
          BY <3>1, <3>4 DEF Score
        <4>2. /\ old.peak <= Cardinality(OpenedWith(s, q)) + old.claims
              /\ new.peak <= old.peak + Won(row, c, q)
              /\ new.claims = old.claims + Won(row, c, q)
          BY <3>1, <3>2 DEF Tallies, CountsWin
        <4>3. QED
          BY <1>4, <1>5, <3>6, <4>1, <4>2
      <3>9. Tallies(s, q, account[s][q])'
        BY <3>5, <3>7, <3>8 DEF Tallies
      <3>10. QED
        BY <3>3, <3>5, <3>9 DEF TallyAt
    <2>6. QED
      BY <2>4, <2>5
  <1>8. QED
    BY <1>6, <1>7

\* An imported owner is the pet it was.
LEMMA ImportedPet ==
    ASSUME NEW s \in Seasons, NEW owner \in Owner
    PROVE  ImportRow(s, owner).owner # None /\ ImportRow(s, owner).owner.pet = owner.pet
  <1> DEFINE certified == IF owner.verified /\ owner.certified_ms = NoTime
                            THEN owner.occupied_ms ELSE owner.certified_ms
  <1> DEFINE started == [owner EXCEPT !.occupied_ms = Starts[s], !.certified_ms = certified]
  <1>1. ImportRow(s, owner).owner = started
    BY NoneAssumption DEF ImportRow, Owner
  <1>2. certified \in Nat \union {NoTime} /\ Starts[s] \in Nat
    BY WindowAssumption DEF Owner
  <1> HIDE DEF certified
  <1>3. started \in Owner /\ started.pet = owner.pet
    BY <1>2 DEF Owner
  <1> HIDE DEF started
  <1>4. QED
    BY <1>1, <1>3, NoneAssumption

\* A season opens with no claims: an imported peak is what the pet brought.
LEMMA TallyInsert ==
    ASSUME HistoryInv, LedgerInv, Tallied, NEW w \in Workers, InsertSeason(w),
           NEW s \in Seasons, s = job[w].season, NEW q \in Pets
    PROVE  TallyAt(s, q)'
  <1> DEFINE owners == job[w].owners
  <1> DEFINE held == {x \in Sites : owners[x] # None /\ owners[x].pet = q}
  <1> DEFINE n == Cardinality(held)
  <1> DEFINE k == Cardinality({x \in held : Counted(owners[x].verified) = 1})
  <1> USE DEF HistoryInv, LedgerInv, PolicyInv, FreshInv
  <1>1. /\ status[s] = "NONE" /\ account[s][q] = None
        /\ \A x \in Sites : owners[x] \in Owner \union {None}
    <2>1. pc[w] = "insert_season" /\ status[s] = "NONE"
      BY DEF InsertSeason, CanInsert
    <2>2. owners \in Imports[s]
      BY <2>1, JobTyped DEF WorkerOK
    <2>3. QED
      BY <2>1, <2>2, ImportsAssumption DEF ImportedOwners, Unopened, NoScores
  <1>2. Mine(s, q) = {} /\ ReceiptsOf(s, q) = {}
    BY <1>1 DEF Tallied, TallyAt
  <1>3. UNCHANGED <<eventTable, receipt>>
    BY DEF InsertSeason
  <1>4. Mine(s, q)' = {}
    <2>1. Mine(s, q)' = Mine(s, q)
      BY <1>3 DEF Mine, Changes, Ledger
    <2>2. QED
      BY <1>2, <2>1
  <1>5. ReceiptsOf(s, q)' = {}
    <2>1. ReceiptsOf(s, q)' = ReceiptsOf(s, q)
      BY <1>3 DEF ReceiptsOf
    <2>2. QED
      BY <1>2, <2>1
  <1>6. OpenedWith(s, q)' = held
    <2>1. \A x \in Sites : opening'[s][x] = ImportRow(s, owners[x]).owner
      BY DEF InsertSeason, TypeInv, TypeOK, TablesTyped
    <2>2. ASSUME NEW x \in Sites, owners[x] # None
          PROVE  opening'[s][x] # None /\ opening'[s][x].pet = owners[x].pet
      BY <1>1, <2>1, <2>2, ImportedPet
    <2>3. ASSUME NEW x \in Sites, owners[x] = None PROVE opening'[s][x] = None
      BY <2>1, <2>3 DEF ImportRow, EmptySite
    <2>4. QED
      BY <2>2, <2>3 DEF OpenedWith
  <1>7. account'[s][q] = ImportAccount(s, owners, q)
    BY DEF InsertSeason, TypeInv, TypeOK, TablesTyped
  <1>8. ImportAccount(s, owners, q) =
          IF held = {} THEN None
          ELSE [NewScore(Starts[s]) EXCEPT
                  !.current_count = n, !.scoring_count = k, !.peak = n]
    BY DEF ImportAccount
  <1>9. n \in Nat
    BY FS_Subset, FS_CardinalityType, FiniteAssumption
  <1>10. CASE account'[s][q] = None
    BY <1>4, <1>5, <1>10 DEF TallyAt
  <1>11. CASE account'[s][q] # None
    <2> HIDE DEF held, k
    <2>1. /\ account'[s][q].claims = 0 /\ account'[s][q].takeovers = 0
          /\ account'[s][q].bonus = 0 /\ account'[s][q].peak = n
      <3>1. account'[s][q] = [NewScore(Starts[s]) EXCEPT
                  !.current_count = n, !.scoring_count = k, !.peak = n]
        BY <1>7, <1>8, <1>11
      <3> HIDE DEF n
      <3>2. QED
        BY <3>1 DEF NewScore
    <2>2. Cardinality(Mine(s, q)') = 0
      BY <1>4, FS_EmptySet
    <2>3. Cardinality(Takeovers(s, q)') = 0
      <3>1. Takeovers(s, q)' = {}
        BY <1>4 DEF Takeovers
      <3>2. QED
        BY <3>1, FS_EmptySet
    <2>4. ReceiptPoints(s, q)' = 0
      BY <1>5, SumOfNothing DEF ReceiptPoints
    <2>5. Cardinality(OpenedWith(s, q)') = n
      BY <1>6
    <2> HIDE DEF n
    <2>6. Tallies(s, q, account[s][q])'
      BY <1>9, <2>1, <2>2, <2>3, <2>4, <2>5 DEF Tallies
    <2>7. QED
      BY <1>11, <2>6 DEF TallyAt
  <1>12. QED
    BY <1>10, <1>11

\* Closing a season settles its accounts and leaves their tallies alone.
LEMMA TallyFinalize ==
    ASSUME PolicyInv, Settled, StandingsExact, Tallied, NEW w \in Workers, Finalize(w),
           NEW s \in Seasons, s = job[w].season, NEW q \in Pets
    PROVE  TallyAt(s, q)'
  <1> DEFINE old == account[s][q]
  <1> DEFINE final == Settle(old, Ends[s])
  <1> USE DEF PolicyInv, FreshInv
  <1>1. /\ status[s] = "ACTIVE" /\ plan[w] = PlanResults(s, Scores(s))
        /\ UNCHANGED <<eventTable, receipt, opening>>
        /\ IF q \in AccountPets(s) THEN account'[s][q] = Retired(plan[w][q].score)
           ELSE account'[s][q] = None
    BY FinalizeAccounts
  <1>2. ASSUME q \in AccountPets(s) PROVE SameTally(s, q)
    <2>1. old # None /\ old \in Score /\ old.last_ms <= Ends[s] /\ Ends[s] \in Nat
      BY <1>1, <1>2, WindowAssumption
         DEF AccountPets, Settled, SettledAt, TypeInv, TypeOK, TablesTyped
    <2>2. plan[w][q].score = final
      <3>1. q \in DOMAIN Scores(s) /\ Scores(s)[q] = old
        BY <1>2 DEF Scores
      <3>2. PlanResults(s, Scores(s))[q].score =
              [p \in DOMAIN Scores(s) |-> Settle(Scores(s)[p], Ends[s])][q]
        BY <3>1 DEF PlanResults
      <3>3. QED
        BY <1>1, <3>1, <3>2
    <2>3. /\ final \in Score /\ final.bonus = old.bonus /\ final.peak = old.peak
          /\ final.claims = old.claims /\ final.takeovers = old.takeovers
      BY <2>1, SettleType, SettleAccrues DEF Score
    <2>4. account'[s][q] = Retired(final)
      BY <1>1, <1>2, <2>2
    <2> HIDE DEF final
    <2>5. Retired(final) \in Score
      BY <2>3 DEF Retired, Score
    <2>6. /\ Retired(final).bonus = old.bonus /\ Retired(final).peak = old.peak
          /\ Retired(final).claims = old.claims /\ Retired(final).takeovers = old.takeovers
      BY <2>3 DEF Retired, Score
    <2>7. QED
      BY <2>1, <2>4, <2>5, <2>6, NoneAssumption DEF SameTally
  <1>3. ASSUME q \notin AccountPets(s) PROVE SameTally(s, q)
    BY <1>1, <1>3 DEF AccountPets, SameTally
  <1>4. QED
    BY <1>1, <1>2, <1>3, TallyKept DEF Tallied

LEMMA TalliedNext ==
    ASSUME HistoryInv, LedgerInv, Settled, Planned, NewReads, StandingsExact, FewRecords,
           Tallied, [Next]_vars
    PROVE  Tallied'
  <1> USE DEF HistoryInv, PolicyInv, FreshInv
  <1> SUFFICES ASSUME NEW s \in Seasons, NEW q \in Pets PROVE TallyAt(s, q)'
    BY DEF Tallied
  <1>1. CASE UNCHANGED ScoreRows(s)
    <2>1. UNCHANGED <<account[s], eventTable[s], receipt[s], opening[s]>>
      BY <1>1 DEF ScoreRows, SeasonRows
    <2>2. SameTally(s, q)
      BY <2>1 DEF SameTally
    <2>3. QED
      BY <2>1, <2>2, TallyKept DEF Tallied
  <1>2. CASE Tick \/ SetBack \/ UNCHANGED vars
    BY <1>1, <1>2 DEF Tick, SetBack, vars, tables, ScoreRows, SeasonRows
  <1>3. ASSUME NEW w \in Workers, WorkerStep(w) PROVE TallyAt(s, q)'
    BY <1>1, <1>3, ScoreSteps, TallySave, TallyFinalize, TallyInsert
  <1>4. QED
    BY <1>2, <1>3 DEF Next

------------------------------------------------------------------------------
\* The scores of every season, together with all they rest on.
ScoreInv ==
    /\ HistoryInv /\ LedgerInv
    /\ Settled /\ Planned /\ NewReads /\ StandingsExact
    /\ FewRecords /\ Accrued /\ Tallied /\ Ranked

LEMMA ScoreInit == Init => ScoreInv
  <1> SUFFICES ASSUME Init PROVE ScoreInv
    OBVIOUS
  <1>1. HistoryInv /\ LedgerInv
    BY HistoryInit, LedgerInvInit
  <1>2. /\ \A w \in Workers : pc[w] = "idle"
        /\ \A s \in Seasons : status[s] = "NONE"
        /\ \A s \in Seasons, q \in Pets : account[s][q] = None
    BY DEF Init, NoScores
  <1>3. Settled /\ Planned /\ NewReads /\ StandingsExact /\ Ranked
    BY <1>2 DEF Settled, SettledAt, Planned, NewReads, StandingsExact, Ranked, RankedAt
  <1>4. ASSUME NEW s \in Seasons
        PROVE  /\ Ledger(s) = {} /\ {e \in Events : receipt[s][e] # None} = {}
               /\ \A x \in Sites : opening[s][x] = None
    BY DEF Init, Ledger
  <1>5. FewRecords
    BY <1>4, FS_EmptySet DEF FewRecords
  <1>6. ASSUME NEW s \in Seasons, NEW q \in Pets PROVE Mine(s, q) = {} /\ ReceiptsOf(s, q) = {}
    BY <1>4 DEF Mine, Changes, ReceiptsOf
  <1>7. Tallied
    BY <1>2, <1>6 DEF Tallied, TallyAt
  <1>8. ASSUME NEW s \in Seasons, NEW q \in Pets PROVE NeverHeld(s, q)
    <2>1. ASSUME NEW t \in Nat, NEW x \in Sites PROVE OwnerThen(s, x, t) = None
      BY <1>4 DEF OwnerThen, EntriesAt
    <2>2. QED
      BY <2>1 DEF NeverHeld, HeldThen
  <1>9. Accrued
    BY <1>2, <1>8 DEF Accrued, AccruedAt
  <1>10. QED
    BY <1>1, <1>3, <1>5, <1>7, <1>9 DEF ScoreInv

LEMMA ScoreNext == ASSUME ScoreInv, [Next]_vars PROVE ScoreInv'
  <1> USE DEF ScoreInv, HistoryInv, PolicyInv, FreshInv
  <1>1. HistoryInv'
    BY HistoryNext
  <1>2. LedgerInv'
    BY LedgerInvNext
  <1>3. Settled' /\ FewRecords'
    BY SettledNext, RecordsNext
  <1>4. Planned' /\ NewReads' /\ StandingsExact'
    BY PlannedNext, NewReadsNext, StandingsNext
  <1>5. Accrued'
    BY <1>1, AccruedNext
  <1>6. Tallied' /\ Ranked'
    BY TalliedNext, RankedNext
  <1>7. QED
    BY <1>1, <1>2, <1>3, <1>4, <1>5, <1>6

LEMMA ScoresHold == Spec => []ScoreInv
  BY ScoreInit, ScoreNext, PTL DEF Spec

LEMMA HoldingFollows == ASSUME ScoreInv PROVE HoldingMatchesLedger
  <1> USE DEF ScoreInv, HistoryInv, LedgerInv, PolicyInv, FreshInv
  <1> SUFFICES ASSUME NEW s \in Seasons, NEW p \in Pets
      PROVE LET Agrees(score, until) ==
                  /\ score.last_ms = until
                  /\ score.held_site_ms = HeldUpTo(s, p, until)
                  /\ score.holding_units = EarnedUpTo(s, p, until)
                row == account[s][p]
            IN  IF row = None THEN HeldUpTo(s, p, Ends[s]) = 0
                ELSE CASE status[s] = "FINALIZED" -> Agrees(result[s][p].score, Ends[s])
                       [] status[s] = "ACTIVE" ->
                            /\ Agrees(row, row.last_ms)
                            /\ Clamp(s, clock) >= row.last_ms =>
                                 Agrees(ProjectedScores(s, clock)[p], Clamp(s, clock))
    BY DEF HoldingMatchesLedger
  <1>1. /\ Starts[s] \in Nat /\ Ends[s] \in Nat /\ clock \in Nat
        /\ status[s] \in {"NONE", "ACTIVE", "FINALIZED"}
        /\ status[s] = "NONE" => account[s][p] = None
    BY WindowAssumption DEF TypeInv, TypeOK, TablesTyped, Unopened, NoScores
  <1>2. CASE account[s][p] = None
    <2>1. HeldUpTo(s, p, Ends[s]) = 0
      BY <1>1, <1>2, NothingAdds DEF Accrued, AccruedAt
    <2>2. QED
      BY <1>2, <2>1
  <1>3. CASE account[s][p] # None /\ status[s] = "FINALIZED"
    <2>1. StandsFor(s, p)
      BY <1>3 DEF Ranked, RankedAt, AccountPets
    <2>2. QED
      BY <1>3, <2>1 DEF StandsFor, AgreesUpTo
  <1>4. CASE account[s][p] # None /\ status[s] = "ACTIVE"
    <2>1. AgreesUpTo(s, p, account[s][p], account[s][p].last_ms)
      BY <1>4 DEF Accrued, AccruedAt
    <2>2. p \in AccountPets(s) /\ Clamp(s, clock) \in Nat
      BY <1>1, <1>4 DEF AccountPets, Clamp
    <2>3. ProjectedScores(s, clock)[p] = Settle(account[s][p], Clamp(s, clock))
      BY <1>4, <2>2 DEF ProjectedScores
    <2>4. ASSUME Clamp(s, clock) >= account[s][p].last_ms
          PROVE  LET score == ProjectedScores(s, clock)[p]
                 IN  score.last_ms = Clamp(s, clock) /\ AgreesUpTo(s, p, score, Clamp(s, clock))
      <3>1. PICK at \in Nat : at = Clamp(s, clock)
        BY <2>2
      <3>2. account[s][p].last_ms \in Nat
        BY <1>4 DEF TypeInv, TypeOK, TablesTyped, Score
      <3>3. account[s][p].last_ms <= at
        BY <2>4, <3>1, <3>2
      <3>4. QED
        BY <1>4, <2>2, <2>3, <3>1, <3>3, SettledAgrees
    <2>5. QED
      BY <1>4, <2>1, <2>4 DEF AgreesUpTo
  <1>5. QED
    BY <1>1, <1>2, <1>3, <1>4

LEMMA TalliesFollow == ASSUME ScoreInv PROVE TalliesMatchReceipts
  <1> SUFFICES ASSUME NEW s \in Seasons, NEW p \in Pets, account[s][p] # None
               PROVE  LET row == account[s][p]
                          mine == {n \in Changes(s) : n.cand.pet = p}
                          opened == {x \in Sites : opening[s][x] # None /\ opening[s][x].pet = p}
                      IN  /\ row.claims = Cardinality(mine)
                          /\ row.takeovers = Cardinality({n \in mine : n.before.owner # None})
                          /\ row.bonus = ReceiptPoints(s, p)
                          /\ row.peak <= Cardinality(opened) + row.claims
    BY DEF TalliesMatchReceipts
  <1>1. Tallies(s, p, account[s][p])
    BY DEF ScoreInv, Tallied, TallyAt
  <1>2. QED
    BY <1>1 DEF Tallies, Mine, Takeovers, OpenedWith

LEMMA RanksFollow == ASSUME ScoreInv PROVE RanksFollowPoints
  <1> USE DEF ScoreInv, HistoryInv, PolicyInv, FreshInv
  <1> SUFFICES ASSUME NEW s \in Seasons, status[s] = "FINALIZED"
      PROVE LET ranked == AccountPets(s)
                Points(p) == ReceiptPoints(s, p) * PointDenominator + EarnedUpTo(s, p, Ends[s])
            IN  /\ \A x \in Sites : site[s][x].owner = None
                /\ \A p, q \in ranked :
                     (Points(p) > Points(q)) <=> (result[s][p].rank < result[s][q].rank)
                /\ \A p \in ranked :
                     result[s][p].rank = 1 + Cardinality({q \in ranked :
                                                            result[s][q].rank < result[s][p].rank})
    BY DEF RanksFollowPoints
  <1> DEFINE ranked == AccountPets(s)
  <1> DEFINE Points(p) == ReceiptPoints(s, p) * PointDenominator + EarnedUpTo(s, p, Ends[s])
  <1> DEFINE units(p) == result[s][p].total_units
  <1> DEFINE rank(p) == result[s][p].rank
  <1> DEFINE Ahead(p) == {q \in ranked : units(q) > units(p)}
  <1>1. \A x \in Sites : site[s][x].owner = None
    BY DEF Ranked, RankedAt
  <1>2. ASSUME NEW p \in ranked
        PROVE  /\ units(p) = Points(p) /\ units(p) \in Nat
               /\ rank(p) = 1 + Cardinality(Ahead(p))
    <2>1. StandsFor(s, p)
      BY DEF Ranked, RankedAt
    <2>2. p \in Pets /\ account[s][p] # None
      BY DEF AccountPets
    <2>3. account[s][p].bonus = ReceiptPoints(s, p)
      BY <2>2 DEF Tallied, TallyAt, Tallies
    <2>4. /\ units(p) = TotalUnits(result[s][p].score) /\ units(p) \in Nat
          /\ result[s][p].score.bonus = ReceiptPoints(s, p)
          /\ result[s][p].score.holding_units = EarnedUpTo(s, p, Ends[s])
      BY <2>1, <2>3 DEF StandsFor, AgreesUpTo, Standing
    <2>5. rank(p) = 1 + Cardinality(Ahead(p))
      BY <2>1 DEF StandsFor
    <2>6. QED
      BY <2>4, <2>5 DEF TotalUnits
  <1> HIDE DEF units, Points, rank
  <1>3. ASSUME NEW p \in ranked PROVE IsFiniteSet(Ahead(p)) /\ Cardinality(Ahead(p)) \in Nat
    BY FiniteAssumption, FS_Subset, FS_CardinalityType DEF AccountPets
  <1>4. \A m \in ranked : units(m) \in Nat
    BY <1>2
  <1>5. ASSUME NEW p \in ranked, NEW q \in ranked, units(p) >= units(q)
        PROVE  Ahead(p) \subseteq Ahead(q)
    <2>1. ASSUME NEW m \in ranked, units(m) > units(p) PROVE units(m) > units(q)
      <3>1. units(m) \in Nat /\ units(p) \in Nat /\ units(q) \in Nat
        BY <1>4
      <3>2. QED
        BY <1>5, <2>1, <3>1
    <2>2. QED
      BY <2>1
  <1>6. ASSUME NEW p \in ranked, NEW q \in ranked
        PROVE  (units(p) > units(q)) <=> (rank(p) < rank(q))
    <2>1. CASE units(p) > units(q)
      <3>1. Ahead(p) \subseteq Ahead(q) /\ p \in Ahead(q) /\ p \notin Ahead(p)
        <4>1. units(p) \in Nat /\ units(q) \in Nat
          BY <1>4
        <4>2. units(p) >= units(q) /\ ~(units(p) > units(p))
          BY <2>1, <4>1
        <4>3. Ahead(p) \subseteq Ahead(q)
          BY <1>5, <4>2
        <4>4. QED
          BY <2>1, <4>2, <4>3
      <3>2. /\ Cardinality(Ahead(p)) <= Cardinality(Ahead(q))
            /\ Cardinality(Ahead(p)) = Cardinality(Ahead(q)) => Ahead(p) = Ahead(q)
        BY <1>3, <3>1, FS_Subset
      <3> HIDE DEF Ahead
      <3>3. Ahead(p) # Ahead(q)
        BY <3>1
      <3>4. QED
        BY <1>2, <1>3, <2>1, <3>2, <3>3
    <2>2. CASE ~(units(p) > units(q))
      <3>1. Ahead(q) \subseteq Ahead(p)
        <4>1. units(p) \in Nat /\ units(q) \in Nat
          BY <1>4
        <4>2. units(q) >= units(p)
          BY <2>2, <4>1
        <4>3. QED
          BY <1>5, <4>2
      <3>2. Cardinality(Ahead(q)) <= Cardinality(Ahead(p))
        BY <1>3, <3>1, FS_Subset
      <3> HIDE DEF Ahead
      <3>3. QED
        BY <1>2, <1>3, <2>2, <3>2
    <2>3. QED
      BY <2>1, <2>2
  <1>7. ASSUME NEW p \in ranked
        PROVE  rank(p) = 1 + Cardinality({q \in ranked : rank(q) < rank(p)})
    <2>1. {q \in ranked : rank(q) < rank(p)} = Ahead(p)
      BY <1>6
    <2>2. QED
      BY <1>2, <2>1
  <1>8. \A p, q \in ranked : (Points(p) > Points(q)) <=> (rank(p) < rank(q))
    BY <1>2, <1>6
  <1>9. QED
    BY <1>1, <1>7, <1>8 DEF rank, Points

\* Whatever transactions race, crash or are repeated and wherever the wall clock
\* goes, the accounts, the projections and the final standings say what the
\* table of committed plans proves: the time every pet held its sites, the
\* points of its receipts, its claims and takeovers, and the rank they give it
\* (settle, plan_ownership, projected_scores, plan_finalization).
THEOREM ScoresAreHistory == Spec => []ScoresFollowHistory
  <1>1. ScoreInv => ScoresFollowHistory
    BY HoldingFollows, TalliesFollow, RanksFollow DEF ScoresFollowHistory
  <1>2. QED
    BY <1>1, ScoresHold, PTL
==============================================================================
