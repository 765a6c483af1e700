------------------------------- MODULE MoisSync -------------------------------
(***************************************************************************)
(* The synchronisation of the licence registers (sync_source): full or     *)
(* incremental, page by page, and then everything that was fetched in one  *)
(* transaction, the watermark with it.  Nothing keeps two runs apart but   *)
(* the locks of the rows they write.  A run asks for what was updated      *)
(* since the watermark less an overlap; the register publishes an update   *)
(* some time after the instant it bears.                                   *)
(***************************************************************************)
EXTENDS Integers, FiniteSets, FiniteSetsExt

CONSTANTS
    Syncs,      \* runs that may be at work at once
    Versions,   \* <<licence, day>>: the updates of licences that may come; a
                \* register lists its licences in their order
    Nowhere,    \* the versions that have no coordinates
    PageSize,   \* mois_page_size
    Overlap,    \* mois_sync_overlap_days
    MaxLag,     \* external: the longest an update stays unpublished
    MaxRun,     \* external: the longest a run takes
    MaxDay      \* bound on the days

ASSUME OverlapAssumption ==
    /\ PageSize \in Nat \ {0} /\ MaxDay \in Nat
    /\ MaxLag \in Nat /\ MaxRun \in Nat /\ Overlap \in Nat /\ MaxLag + MaxRun <= Overlap

ASSUME VersionsAssumption == Versions \subseteq Nat \X Nat

VARIABLES
    today,
    licence,    \* external: the listed licences, each with the day of its update
    place,      \* the stored rows of the register
    mark,       \* its watermark in ingest_state
    sync,       \* what each run is doing
    missed      \* history: a licence left the list under a run that paged it
moisVars == <<today, licence, place, mark, sync, missed>>

Never == -1
Resting == [pc |-> "rest"]

MoisInit ==
    /\ today = 0
    /\ licence = <<>>
    /\ place = <<>>
    /\ mark = Never
    /\ sync = [r \in Syncs |-> Resting]
    /\ missed = FALSE

Joined(new, old) ==
    [i \in DOMAIN old \union DOMAIN new |-> IF i \in DOMAIN new THEN new[i] ELSE old[i]]

----------------------------------------------------------------------------
\* The register.

NextDay ==
    /\ today < MaxDay
    /\ \A r \in Syncs : sync[r].pc # "rest" => today < sync[r].day + MaxRun
    /\ today' = today + 1
    /\ UNCHANGED <<licence, place, mark, sync, missed>>

\* An update of a licence appears.
Publish(i) ==
    /\ \E stamp \in (today - MaxLag) .. today :
          /\ <<i, stamp>> \in Versions
          /\ i \in DOMAIN licence => stamp > licence[i]
          /\ licence' = Joined([k \in {i} |-> stamp], licence)
    /\ UNCHANGED <<today, place, mark, sync, missed>>

\* A licence leaves the list: those behind it move to earlier pages.
Withdraw(i) ==
    /\ i \in DOMAIN licence
    /\ licence' = [k \in DOMAIN licence \ {i} |-> licence[k]]
    /\ sync' = [r \in Syncs |->
          IF sync[r].pc = "fetch" THEN [sync[r] EXCEPT !.torn = TRUE] ELSE sync[r]]
    /\ UNCHANGED <<today, place, mark, missed>>

\* The listed licences of cond[DAT_UPDT_PNT::GTE].
Matching(stamp) == {i \in DOMAIN licence : licence[i] >= stamp}

Pages(list) == (Cardinality(list) + PageSize - 1) \div PageSize
Page(list, n) ==
    {i \in list : Cardinality({k \in list : k < i}) \in (n - 1) * PageSize .. n * PageSize - 1}

----------------------------------------------------------------------------
\* A run.

\* Bug: exactly the watermark is asked for.
NoOverlap == mark

\* overlap_watermark
OverlapMark == IF mark = Never THEN Never ELSE mark - Overlap

StartSync(r, full) ==
    /\ sync[r].pc = "rest"
    /\ sync' = [sync EXCEPT ![r] =
          [pc |-> "fetch", full |-> full, since |-> IF full THEN Never ELSE OverlapMark,
           got |-> <<>>, received |-> 0, page |-> 1, pages |-> 1, day |-> today, torn |-> FALSE]]
    /\ UNCHANGED <<today, licence, place, mark, missed>>

Fail(r) == sync' = [sync EXCEPT ![r] = Resting]

\* One page of fetch_all; how many there are is what the first one said, and the
\* number of rows is compared with what the last one said.
FetchPage(r) ==
    LET s == sync[r]
        list == Matching(s.since)
        chunk == Page(list, s.page)
        pages == IF s.page = 1 THEN Pages(list) ELSE s.pages
        received == s.received + Cardinality(chunk)
        got == Joined([i \in chunk |-> licence[i]], s.got)
        last == s.page >= pages
    IN
    /\ s.pc = "fetch"
    /\ IF \/ s.page > 1 /\ chunk = {}
          \/ last /\ received < Cardinality(list)
          \/ last /\ received = 0 /\ s.full
       THEN Fail(r)
       ELSE sync' = [sync EXCEPT ![r] =
              IF last THEN [pc |-> "store", full |-> s.full, got |-> got, day |-> s.day,
                            torn |-> s.torn]
              ELSE [pc |-> "fetch", full |-> s.full, since |-> s.since, got |-> got,
                    received |-> received, page |-> s.page + 1, pages |-> pages, day |-> s.day,
                    torn |-> s.torn]]
    /\ UNCHANGED <<today, licence, place, mark, missed>>

\* A new row needs coordinates; a known one is updated without.
Upserts(got) ==
    [i \in {k \in DOMAIN got : <<k, got[k]>> \notin Nowhere \/ k \in DOMAIN place} |->
        [stamp |-> got[i], listed |-> TRUE]]

\* deactivate_missing
Missing(got) == {i \in DOMAIN place \ DOMAIN got : place[i].listed}

RowsOf(r) == IF sync[r].pc = "commit" THEN DOMAIN sync[r].rows ELSE {}

\* The upserts, and after a full run the deactivation; each waits for the rows
\* that another run has written and not yet committed.
StoreSync(r) ==
    LET got == sync[r].got
        gone == [i \in (IF sync[r].full THEN Missing(got) ELSE {}) |->
                    [place[i] EXCEPT !.listed = FALSE]]
        rows == Joined(Upserts(got), gone)
    IN
    /\ sync[r].pc = "store"
    /\ \A other \in Syncs \ {r} : DOMAIN rows \intersect RowsOf(other) = {}
    /\ sync' = [sync EXCEPT ![r] =
          [pc |-> "commit", full |-> sync[r].full, rows |-> rows,
           stamps |-> {got[i] : i \in DOMAIN got}, day |-> sync[r].day, torn |-> sync[r].torn]]
    /\ UNCHANGED <<today, licence, place, mark, missed>>

NewMark(stamps) == IF stamps = {} THEN mark ELSE Max(stamps)

CommitSync(r) ==
    LET s == sync[r] IN
    /\ s.pc = "commit"
    /\ place' = Joined(s.rows, place)
    /\ mark' = NewMark(s.stamps)
    /\ sync' = [sync EXCEPT ![r] = Resting]
    /\ missed' = IF s.torn THEN TRUE
                 ELSE missed /\ ~(s.full /\ \A o \in Syncs \ {r} : sync[o].pc = "rest")
    /\ UNCHANGED <<today, licence>>

\* The register answers with an error, the run dies or loses a deadlock.
FailSync(r) ==
    /\ sync[r].pc # "rest"
    /\ Fail(r)
    /\ UNCHANGED <<today, licence, place, mark, missed>>

MoisNext ==
    \/ NextDay
    \/ \E i \in {v[1] : v \in Versions} : Publish(i) \/ Withdraw(i)
    \/ \E r \in Syncs :
          \/ \E full \in BOOLEAN : StartSync(r, full)
          \/ FetchPage(r)
          \/ StoreSync(r)
          \/ CommitSync(r)
          \/ FailSync(r)

MoisSpec == MoisInit /\ [][MoisNext]_moisVars

----------------------------------------------------------------------------
\* The promise of the watermark: whatever the stored rows do not yet show of the
\* register, the next incremental run asks for, however runs overlap, fail and
\* move the watermark back.  A licence that leaves the list while a run pages it
\* hides another one from that run; this lasts until a full run that ran alone
\* (sync_source, set_watermark).
NothingFallsBehind ==
    ~missed => \A i \in DOMAIN licence :
        \/ i \in DOMAIN place /\ place[i] = [stamp |-> licence[i], listed |-> TRUE]
        \/ i \notin DOMAIN place /\ <<i, licence[i]>> \in Nowhere
        \/ licence[i] >= OverlapMark
==============================================================================
