---------------------------- MODULE FacilityIngest ----------------------------
(***************************************************************************)
(* The batch jobs that fill the facility table: the KTO list with its      *)
(* details, the KCISA snapshot, and the two derivations from the stored    *)
(* text.  Each job is a process with transactions at READ COMMITTED: a     *)
(* statement sees what is committed and what its own transaction wrote.    *)
(* A written row is locked until its transaction ends and nobody else sees *)
(* it before, so that statements up to one that reads what others write    *)
(* are one step: the writing of all rows of a load, and a derivation's     *)
(* last lock, its updates and its commit.  The KTO list comes page by page *)
(* and may change and be reordered between two pages.                      *)
(***************************************************************************)
EXTENDS Integers, FiniteSets, FiniteSetsExt, Sequences, SequencesExt

CONSTANTS
    Kto,            \* the content ids of the KTO list
    Kcisa,          \* the source_refs of the KCISA file
    Texts,          \* what a source says about pets
    Details,        \* what the details of KTO say: some of the texts, or None for nothing
    NoAxes,         \* the texts no axis can be read from
    Near,           \* of a KTO row: the KCISA rows within 150 m and of one name, nearest first
    Files,          \* the KCISA files that may come: some of the rows, each with its text
    Columns,        \* the derivations that run, of "axes" and "restriction"
    Batch,          \* rows per batch of a derivation
    KtoPageSize,    \* kto_page_size
    MaxStamp,       \* bound on the modifiedtime of an item
    MaxBusy,        \* bound on the jobs that run at a time
    None, Empty

ASSUME ConstantsAssumption ==
    /\ Kto \intersect Kcisa = {} /\ IsFiniteSet(Kto)
    /\ NoAxes \subseteq Texts /\ Details \subseteq Texts \union {None}
    /\ Near \in [Kto -> Seq(Kcisa)]
    /\ Files \subseteq UNION {[held -> Texts] : held \in SUBSET Kcisa}
    /\ Columns \subseteq {"axes", "restriction"}
    /\ Batch \in Nat \ {0}
    /\ KtoPageSize \in Nat \ {0} /\ MaxStamp \in Nat /\ MaxBusy \in Nat
    /\ Empty \notin Texts /\ None \notin Texts \union {Empty} \union Nat

Rows == Kto \union Kcisa
Loads == {"kto", "kcisa"}
Jobs == Loads \union Columns

VARIABLES
    listing,        \* external: what KTO says of an item: its modifiedtime, whether it is
                    \* shown, its detail
    list,           \* external: the listed items, in the order of the pages
    facility,       \* the product rows: modifiedtime, pet text, and of each derivation the
                    \* text its verdict was read from
    ids,            \* the existing rows in the order of their ids
    record,         \* facility_source_record of KTO: as listed, with the detail and its state
    links,          \* facility_link between the sources
    watermark,      \* ingest_state of KTO
    job,            \* what each process is doing
    draft,          \* the rows and records a load's transaction has written
    crossed,        \* history: the last load to commit ran beside another
    behind,         \* history: the items that are on a page the KTO run has read, and not
                    \* as it read them
    overtaken       \* history: the items the watermark has reached unread

source == <<listing, list, behind>>
tables == <<facility, ids, record, links, watermark>>
past == <<crossed, overtaken>>
vars == <<source, tables, job, draft, past>>

Item == [stamp: Nat, shown: BOOLEAN, detail: Details]
Row == [stamp: Nat, pet: Texts \union {Empty}, verdict: [Columns -> Texts \union {Empty, None}]]
Record == [stamp: Nat, shown: BOOLEAN, detail: Texts \union {None},
           state: {"not_fetched", "fetched", "no_data", "fetch_failed"}]

ASSUME RowsAssumption == None \notin Item \union Row \union Record

Underived == [c \in Columns |-> None]
Idle == [pc |-> "idle"]
Nothing == [rows |-> <<>>, records |-> <<>>, brought |-> {}]

\* The orders in which the items of a set may be listed.
Orders(items) == {s \in [1 .. Cardinality(items) -> items] : Range(s) = items}

Init ==
    /\ listing \in [Kto -> [stamp: {0}, shown: {TRUE}, detail: Details]]
    /\ list \in UNION {Orders(items) : items \in SUBSET Kto}
    /\ facility = [r \in Rows |-> None]
    /\ ids = <<>>
    /\ record = [i \in Kto |-> None]
    /\ links = {}
    /\ watermark = None
    /\ job = [j \in Jobs |-> Idle]
    /\ draft = [j \in Loads |-> Nothing]
    /\ crossed = FALSE
    /\ behind = {}
    /\ overtaken = {}

\* What load j sees of a table.
Overlay(new, old) == [x \in DOMAIN old |-> IF x \in DOMAIN new THEN new[x] ELSE old[x]]
RowsSeen(j) == Overlay(draft[j].rows, facility)

Locked(r) == \E j \in Loads : r \in DOMAIN draft[j].rows

Put(f, x, v) == [y \in DOMAIN f \union {x} |-> IF y = x THEN v ELSE f[y]]

Stored == {r \in Rows : facility[r] # None}

------------------------------------------------------------------------------
\* The source

\* The items on the pages after the first `from` up to page `to`.
Paged(seq, from, to) ==
    {seq[n] : n \in {m \in DOMAIN seq : from * KtoPageSize < m /\ m <= to * KtoPageSize}}

\* The pages the KTO run has behind it; after its last one nothing is read any more.
Read(seq) ==
    CASE job["kto"].pc = "idle" -> {}
      [] job["kto"].pc = "list" -> Paged(seq, 0, job["kto"].page)
      [] OTHER -> Range(seq)

\* The items of a run are behind it that came, changed or moved to a page it has
\* read.  An item is overtaken that comes or changes with a modifiedtime the
\* watermark has reached.
Noticed(i) ==
    /\ behind' = {k \in Read(list') : k = i \/ k \in behind \/ k \notin Read(list)}
    /\ overtaken' = IF watermark # None /\ listing'[i].stamp <= watermark
                      THEN overtaken \union {i} ELSE overtaken
    /\ UNCHANGED <<tables, job, draft, crossed>>

\* An item changes, with a later modifiedtime of its own, or enters the list.
Change(i) ==
    /\ \E stamp \in listing[i].stamp + 1 .. MaxStamp, shown \in BOOLEAN, detail \in Details :
         listing' = [listing EXCEPT ![i] = [stamp |-> stamp, shown |-> shown, detail |-> detail]]
    /\ list' \in Orders(Range(list) \union {i})
    /\ Noticed(i)

\* An item comes back as it was.
Return(i) ==
    /\ i \notin Range(list)
    /\ list' \in Orders(Range(list) \union {i})
    /\ UNCHANGED listing
    /\ Noticed(i)

Leave(i) ==
    /\ i \in Range(list)
    /\ list' \in Orders(Range(list) \ {i})
    /\ behind' = {k \in Read(list') : k \in behind \/ k \notin Read(list)}
    /\ UNCHANGED <<listing, tables, job, draft, past>>

------------------------------------------------------------------------------
\* What one statement makes of one row

\* Bug: the verdicts outlive their text.
UpsertedKeeping(old, new, preserve) ==
    LET text == IF preserve /\ new.pet = Empty /\ old # None THEN old.pet ELSE new.pet
    IN  [stamp |-> new.stamp, pet |-> text,
         verdict |-> IF old = None THEN Underived ELSE old.verdict]

\* _UPSERT: where details come separately an empty pet keeps what is stored, and
\* the verdicts go whenever the text they were read from does.
Upserted(old, new, preserve) ==
    LET text == IF preserve /\ new.pet = Empty /\ old # None THEN old.pet ELSE new.pet
    IN  [stamp |-> new.stamp, pet |-> text,
         verdict |-> IF old # None /\ old.pet = text THEN old.verdict ELSE Underived]

\* update_pet_detail
Detailed(row, text) ==
    IF row.pet = text THEN row ELSE [stamp |-> row.stamp, pet |-> text, verdict |-> Underived]

\* _UPSERT_LISTING: a detail belongs to one modifiedtime.
Listed(old, item) ==
    IF old # None /\ old.stamp = item.stamp
      THEN [old EXCEPT !.shown = item.shown]
      ELSE [stamp |-> item.stamp, shown |-> item.shown, detail |-> None, state |-> "not_fetched"]

\* derive_axes, derive: a verdict is named by the text it is read from.
Verdict(c, text) == IF c = "axes" /\ text \in NoAxes THEN None ELSE text

------------------------------------------------------------------------------
\* The loads

MayStart(j) == job[j].pc = "idle" /\ Cardinality({k \in Jobs : job[k].pc # "idle"}) < MaxBusy

\* A run that still reads its list has written nothing.
Writing(k) == job[k].pc \notin {"idle", "list", "store"}

Beside(j) == \E k \in Loads \ {j} : Writing(k)

\* Of two loads that run beside each other each crosses the other.
Entered(j, state) ==
    [k \in Jobs |->
       IF k = j THEN state
       ELSE IF k \in Loads /\ Writing(k) THEN [job[k] EXCEPT !.crossing = TRUE]
       ELSE job[k]]

\* upsert_rows and prune_unseen
Written(j, rows, pruned) ==
    [r \in DOMAIN rows \union (pruned \intersect Stored) |->
       IF r \in DOMAIN rows THEN Upserted(facility[r], rows[r], j = "kto") ELSE None]

\* The first statement of a run reads the watermark.
StartKto(mode) ==
    /\ MayStart("kto")
    /\ job' = [job EXCEPT !["kto"] = [pc |-> "list", mode |-> mode, prior |-> watermark, page |-> 0,
                                      read |-> <<>>, usable |-> <<>>]]
    /\ UNCHANGED <<source, tables, draft, past>>

\* A page of fetch_sync_list.  Of an item that is read twice the last copy counts,
\* and among the rows (parse_item) the last one that is shown.  Every page but the
\* last is full, so that there are never fewer items than the total.
ReadPage ==
    LET run == job["kto"]
        page == Paged(list, run.page, run.page + 1)
        read == [i \in page \union DOMAIN run.read |-> IF i \in page THEN listing[i] ELSE run.read[i]]
        shown == {i \in page : listing[i].shown}
        usable == [i \in shown \union DOMAIN run.usable |->
                      IF i \in shown THEN listing[i].stamp ELSE run.usable[i]]
        last == Len(list) <= (run.page + 1) * KtoPageSize
    IN  /\ run.pc = "list"
        /\ job' = [job EXCEPT !["kto"] =
              [pc |-> IF last THEN "store" ELSE "list", mode |-> run.mode, prior |-> run.prior,
               page |-> run.page + 1, read |-> read, usable |-> usable]]
        /\ UNCHANGED <<source, tables, draft, past>>

\* The rows a run applies: an incremental one those newer than the last watermark.
Applied(run) ==
    {i \in DOMAIN run.usable :
        run.mode = "incremental" /\ run.prior # None => run.usable[i] > run.prior}

\* Bug: every run removes what it has not touched.
PrunedAlways(run) == Kto \ Applied(run)

\* _prune_after_listing: only a full run has touched all there is.
Pruned(run) == IF run.mode = "full" THEN Kto \ Applied(run) ELSE {}

\* pending_detail_refs, of what the transaction has written
PendingDetails(rows, records) ==
    {i \in Kto : /\ Overlay(rows, facility)[i] # None
                 /\ records[i] # None /\ records[i].state \in {"not_fetched", "fetch_failed"}}

\* The rest of kto._run until its details: a list without a usable item is refused;
\* records and rows are written, and details asked for up to the run's limit.
StoreList ==
    LET run == job["kto"]
        rows == [i \in Applied(run) |-> [stamp |-> run.usable[i], pet |-> Empty]]
        stamps == {run.usable[i] : i \in Applied(run)}
        written == Written("kto", rows, Pruned(run))
        records == [i \in Kto |-> IF i \in DOMAIN run.read THEN Listed(record[i], run.read[i]) ELSE None]
    IN  /\ run.pc = "store"
        /\ DOMAIN run.usable # {}
        /\ draft' = [draft EXCEPT !["kto"] =
                        [rows |-> written, records |-> records, brought |-> Applied(run)]]
        /\ \E asked \in SUBSET PendingDetails(written, records) :
             job' = Entered("kto", [pc |-> "details", asked |-> asked, crossing |-> Beside("kto"),
                                    watermark |-> IF stamps = {} THEN run.prior ELSE Max(stamps)])
        /\ UNCHANGED <<source, tables, past>>

\* kcisa.replace_snapshot until its links: the file holds some of the rows, each
\* with its text; what it does not hold goes.
StartKcisa(file) ==
    /\ MayStart("kcisa")
    /\ DOMAIN file # {}
    /\ LET rows == [r \in DOMAIN file |-> [stamp |-> 0, pet |-> file[r]]]
           written == Written("kcisa", rows, Kcisa \ DOMAIN file)
       IN  draft' = [draft EXCEPT !["kcisa"] = [rows |-> written, records |-> <<>>, brought |-> {}]]
    /\ job' = Entered("kcisa", [pc |-> "relink", seen |-> links, crossing |-> Beside("kcisa"),
                                watermark |-> None])
    /\ UNCHANGED <<source, tables, past>>

\* One detail: what KTO answers now is stored with the listing read before.
FetchDetail(i, answered) ==
    /\ job["kto"].pc = "details"
    /\ i \in job["kto"].asked
    /\ LET text == IF i \in Range(list) THEN listing[i].detail ELSE None
           state == IF ~answered THEN "fetch_failed" ELSE IF text = None THEN "no_data" ELSE "fetched"
           detail == IF state = "fetched" THEN text ELSE None
           old == draft["kto"]
       IN  draft' = [draft EXCEPT !["kto"] =
                       [rows |-> IF state = "fetched"
                                   THEN Put(old.rows, i, Detailed(RowsSeen("kto")[i], text)) ELSE old.rows,
                        records |-> [old.records EXCEPT ![i] =
                                       [stamp |-> @.stamp, shown |-> @.shown,
                                        detail |-> detail, state |-> state]],
                        brought |-> old.brought]]
    /\ job' = [job EXCEPT !["kto"].asked = @ \ {i}]
    /\ UNCHANGED <<source, tables, past>>

\* rebuild_links sends its DELETE, which sees the links committed by now.
StartRelink ==
    /\ job["kto"].pc = "details"
    /\ job["kto"].asked = {}
    /\ job' = [job EXCEPT !["kto"] = [pc |-> "relink", seen |-> links,
                                      watermark |-> @.watermark, crossing |-> @.crossing]]
    /\ UNCHANGED <<source, tables, draft, past>>

\* _LINK_CROSS: every KTO row with the nearest KCISA row of its name.
IsMatch(k, c, rows) ==
    /\ rows[k] # None
    /\ \E n \in DOMAIN Near[k] :
         /\ Near[k][n] = c /\ rows[c] # None
         /\ \A m \in 1 .. n - 1 : rows[Near[k][m]] = None

Matches(rows) == {l \in Kto \X Kcisa : IsMatch(l[1], l[2], rows)}

Removed(j) == job[j].seen

\* The DELETE waits for whoever removed the same links; what was linked since it
\* was sent stays.
Relink(j) ==
    /\ job[j].pc = "relink"
    /\ \A k \in Loads \ {j} : job[k].pc = "commit" => job[k].removed \intersect job[j].seen = {}
    /\ job' = [job EXCEPT ![j] = [pc |-> "commit", removed |-> Removed(j) \intersect links,
                                  linked |-> Matches(RowsSeen(j)),
                                  watermark |-> @.watermark, crossing |-> @.crossing]]
    /\ UNCHANGED <<source, tables, draft, past>>

\* What has changed behind a run and is no newer than its watermark is overtaken;
\* a row that the run has brought no longer is.
Overtaken(reached) ==
    (overtaken \ draft["kto"].brought) \union
    {i \in behind : reached # None /\ listing[i].stamp <= reached}

\* The commit.  A link goes with its KTO row; an id that is gone is gone for the
\* derivations that have read it.
Commit(j) ==
    /\ job[j].pc = "commit"
    /\ LET after == RowsSeen(j)
           gone == {r \in Stored : after[r] = None}
           new == {r \in Rows \ Stored : after[r] # None}
       IN  /\ facility' = after
           /\ ids' = SelectSeq(ids, LAMBDA r : r \notin gone) \o SetToSeq(new)
           /\ record' = Overlay(draft[j].records, record)
           /\ links' = {l \in (links \ job[j].removed) \union job[j].linked : after[l[1]] # None}
           /\ watermark' = IF job[j].watermark = None THEN watermark ELSE job[j].watermark
           /\ crossed' = job[j].crossing
           /\ overtaken' = IF j = "kto" THEN Overtaken(watermark') ELSE overtaken
           /\ behind' = IF j = "kto" THEN {} ELSE behind
           /\ draft' = [draft EXCEPT ![j] = Nothing]
           /\ job' = [k \in Jobs |->
                        CASE k = j -> Idle
                          [] k \in Columns /\ job[k].pc # "idle" ->
                               [pc |-> job[k].pc, redo |-> job[k].redo, passed |-> job[k].passed \ gone,
                                read |-> Restrict(job[k].read, DOMAIN job[k].read \ gone)]
                          [] OTHER -> job[k]]
    /\ UNCHANGED <<listing, list>>

------------------------------------------------------------------------------
\* The derivations

StartDerive(c, redo) ==
    /\ MayStart(c)
    /\ job' = [job EXCEPT ![c] = [pc |-> "scan", redo |-> redo, passed |-> {}, read |-> <<>>]]
    /\ UNCHANGED <<source, tables, draft, past>>

Pending(c) ==
    {r \in Stored \ job[c].passed :
        /\ c = "axes" => facility[r].pet # Empty
        /\ job[c].redo \/ facility[r].verdict[c] = None}

\* _SELECT_PENDING or _SELECT_ALL after the last id; an empty batch ends the job.
SelectBatch(c) ==
    /\ job[c].pc = "scan"
    /\ LET found == {n \in DOMAIN ids : ids[n] \in Pending(c)}
           batch == {n \in found : Cardinality({m \in found : m < n}) < Batch}
           passed == {n \in DOMAIN ids : \E last \in batch : n <= last}
       IN  job' = [job EXCEPT ![c] =
                     IF batch = {} THEN Idle
                     ELSE [pc |-> "update", redo |-> @.redo,
                           passed |-> @.passed \union {ids[n] : n \in passed},
                           read |-> [r \in {ids[n] : n \in batch} |-> facility[r].pet]]]
    /\ UNCHANGED <<source, tables, draft, past>>

\* The updates of the batch by id and the commit: each waits for the load that
\* holds its row, and writes into the row as it then is.
UpdateBatch(c) ==
    /\ job[c].pc = "update"
    /\ LET read == job[c].read
       IN  /\ \A r \in DOMAIN read : ~Locked(r)
           /\ facility' = [r \in Rows |->
                             IF r \in DOMAIN read
                               THEN [facility[r] EXCEPT !.verdict[c] = Verdict(c, read[r])]
                               ELSE facility[r]]
    /\ job' = [job EXCEPT ![c] = [pc |-> "scan", redo |-> @.redo, passed |-> @.passed, read |-> <<>>]]
    /\ UNCHANGED <<source, ids, record, links, watermark, draft, past>>

------------------------------------------------------------------------------
\* A job dies, or loses a deadlock: what it has not committed is rolled back.
Crash(j) ==
    /\ job[j].pc # "idle"
    /\ job' = [job EXCEPT ![j] = Idle]
    /\ draft' = IF j \in Loads THEN [draft EXCEPT ![j] = Nothing] ELSE draft
    /\ behind' = IF j = "kto" THEN {} ELSE behind
    /\ UNCHANGED <<listing, list, tables, past>>

SourceNext == \E i \in Kto : Change(i) \/ Return(i) \/ Leave(i)

KtoNext ==
    \/ \E mode \in {"incremental", "full"} : StartKto(mode)
    \/ ReadPage \/ StoreList \/ StartRelink
    \/ \E i \in Kto, answered \in BOOLEAN : FetchDetail(i, answered)
    \/ Relink("kto") \/ Commit("kto") \/ Crash("kto")

OtherNext ==
    \/ \E file \in Files : StartKcisa(file)
    \/ Relink("kcisa") \/ Commit("kcisa") \/ Crash("kcisa")
    \/ \E c \in Columns :
          (\E redo \in BOOLEAN : StartDerive(c, redo)) \/ SelectBatch(c) \/ UpdateBatch(c) \/ Crash(c)

Next == SourceNext \/ KtoNext \/ OtherNext

Spec == Init /\ [][Next]_vars

------------------------------------------------------------------------------
\* What the stored data promise

\* A row and a verdict that was read from another text (facility_store.py:12).
Mixed(r, c) == facility[r] # None /\ facility[r].verdict[c] \notin {None, facility[r].pet}

\* Only a derivation whose text was replaced between its SELECT and its UPDATE
\* leaves a verdict beside a text it was not read from: no load does, no crash
\* does, and no derivation of a text that stood.
OnlyLateVerdictsMix ==
    [][\A r \in {k \in Rows : facility'[k] # facility[k]}, c \in Columns :
         Mixed(r, c)' /\ ~Mixed(r, c) =>
           /\ job[c].pc = "update" /\ job'[c].pc = "scan"
           /\ job[c].read[r] # facility[r].pet]_vars

\* The promise of the watermark (kto.py:217-296): whatever mixture of runs committed
\* or died over a list that changed under them, an item is in the product as it is
\* listed, or the next incremental run applies it.  Only an item that changed behind
\* a run or came late, so that the watermark reached it unread, may be missing or
\* old, until a run brings it.  What the records say of the rows follows suit.
ProductFollowsListing ==
    \A i \in Kto \ overtaken :
        /\ i \in Range(list) /\ listing[i].shown =>
             \/ watermark = None \/ listing[i].stamp > watermark
             \/ facility[i] # None /\ facility[i].stamp = listing[i].stamp
        /\ record[i] # None /\ record[i].shown =>
             facility[i] # None /\ facility[i].stamp = record[i].stamp

\* A fetched detail is the text that the product shows, and is not asked for again
\* only as long as a shown item has it there (pending_detail_refs).
DetailsAreThere ==
    \A i \in Kto : record[i] # None /\ record[i].state = "fetched" =>
        /\ record[i].shown => facility[i] # None
        /\ facility[i] # None => facility[i].pet = record[i].detail

\* After a load that ran alone, and until two overlap, the links are exactly the
\* matches of the stored rows: none missing, none to a row that is gone (linking.py:75).
LinksAreExact == ~crossed => links = Matches(facility)

\* However loads follow each other, overlap and die, what the product shows is
\* what its sources said, row by row and between them.
ProductFollowsSources == ProductFollowsListing /\ DetailsAreThere /\ LinksAreExact

==============================================================================
