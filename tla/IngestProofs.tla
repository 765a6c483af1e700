------------------------------ MODULE IngestProofs ------------------------------
(***************************************************************************)
(* The properties of the facility jobs, for every list, file and text, and *)
(* of the synchronisation of the licence registers.                        *)
(*                                                                         *)
(* The product follows what was listed (Told) both in the tables and in    *)
(* what a load has written and not committed, where its records are read   *)
(* with the rows and the watermark there will be after its commit, and     *)
(* without the items that have changed behind it.  While a run reads its   *)
(* list, what it has of an item that has not changed behind it is what is  *)
(* listed, and what it will not apply is already in the rows (ListOK).     *)
(* What another load or a derivation commits meanwhile touches none of the *)
(* KTO rows but their verdicts.                                            *)
(*                                                                         *)
(* A register promises something of the licences that were last updated    *)
(* before a run began (Before): what the run does not ask for is stored,   *)
(* and what it asks for and has not got stands on a page still to come.    *)
(* The rest, and what another run commits, is within the overlap of the    *)
(* watermark that the run can leave behind.                                *)
(***************************************************************************)
EXTENDS FacilityIngest, MoisSync, TLAPS, FiniteSetTheorems, WellFoundedInduction,
        NaturalsInduction

Mine(j) == IF j = "kto" THEN Kto ELSE Kcisa

PartOf(f, S, T) == DOMAIN f \subseteq S /\ \A x \in DOMAIN f : f[x] \in T

Detailing == [pc: {"details"}, asked: SUBSET Kto, crossing: BOOLEAN, watermark: Nat \union {None}]
Relinking == [pc: {"relink"}, seen: SUBSET (Kto \X Kcisa), crossing: BOOLEAN,
              watermark: Nat \union {None}]
Committing == [pc: {"commit"}, removed: SUBSET (Kto \X Kcisa), linked: SUBSET (Kto \X Kcisa),
               crossing: BOOLEAN, watermark: Nat \union {None}]

Loading == {Idle} \union Detailing \union Relinking \union Committing

\* A KTO run that has not yet written.
Listening(run) ==
    /\ run.pc \in {"list", "store"} /\ run.mode \in {"incremental", "full"}
    /\ run.prior \in Nat \union {None} /\ run.page \in Nat
    /\ PartOf(run.read, Kto, Item) /\ PartOf(run.usable, Kto, 0 .. MaxStamp)

SourceOK ==
    /\ listing \in [Kto -> Item] /\ \A i \in Kto : listing[i].stamp <= MaxStamp
    /\ list \in Seq(Kto)

TablesOK ==
    /\ facility \in [Rows -> Row \union {None}]
    /\ record \in [Kto -> Record \union {None}]
    /\ links \subseteq Kto \X Kcisa
    /\ watermark \in Nat \union {None}

\* A derivation holds texts of rows that are still there.
DerivesOK ==
    \A c \in Columns :
        /\ job[c].pc \in {"idle", "scan", "update"}
        /\ job[c].pc = "update" => PartOf(job[c].read, Stored, Texts \union {Empty})

JobsOK ==
    /\ DOMAIN job = Jobs
    /\ job["kto"] \in Loading \/ Listening(job["kto"])
    /\ job["kcisa"] \in Loading /\ job["kcisa"].pc # "details"
    /\ job["kcisa"].pc # "idle" => job["kcisa"].watermark = None

DraftOK ==
    /\ DOMAIN draft = Loads
    /\ \A j \in Loads : PartOf(draft[j].rows, Mine(j), Row \union {None})
    /\ draft["kcisa"].records = <<>>
    /\ Writing("kto") => draft["kto"].records \in [Kto -> Record \union {None}]

IngestTypes == SourceOK /\ TablesOK /\ DerivesOK /\ JobsOK /\ DraftOK

\* A verdict a load carries over is the one that stands beside the same text.
Kept(rows, fac) ==
    \A r \in DOMAIN rows : rows[r] # None =>
        \A c \in Columns :
            \/ rows[r].verdict[c] = None
            \/ /\ fac[r] # None
               /\ fac[r].pet = rows[r].pet /\ fac[r].verdict[c] = rows[r].verdict[c]

VerdictsOK == \A j \in Loads : Kept(draft[j].rows, facility)

\* What records say of rows (ProductFollowsListing, DetailsAreThere).
Follows(rec, fac, late) ==
    \A i \in Kto : rec[i] # None =>
        /\ rec[i].shown /\ i \notin late => fac[i] # None /\ fac[i].stamp = rec[i].stamp
        /\ rec[i].state = "fetched" =>
             /\ rec[i].shown => fac[i] # None
             /\ fac[i] # None => fac[i].pet = rec[i].detail

\* A record is of the past, and of the present item if it has its modifiedtime.
IsPast(old, item) ==
    old.stamp <= item.stamp /\ (old.stamp = item.stamp => old.shown = item.shown)

Recent(rec, items) == \A i \in Kto : rec[i] # None => IsPast(rec[i], items[i])

IsStored(fac, i, stamp) == fac[i] # None /\ fac[i].stamp = stamp

\* All that is listed up to the watermark is in the rows as it is listed.
Marked(limit, fac, items, listed, late) ==
    limit # None => \A i \in listed \ late :
        items[i].shown /\ items[i].stamp <= limit => IsStored(fac, i, items[i].stamp)

NextMark(limit, old) == IF limit = None THEN old ELSE limit

TablesTold ==
    /\ Follows(record, facility, overtaken)
    /\ Recent(record, listing)
    /\ Marked(watermark, facility, listing, Range(list), overtaken)

\* What is late for the load that has brought some of it.
Late == overtaken \ draft["kto"].brought

DraftTold ==
    Writing("kto") =>
        /\ Follows(draft["kto"].records, RowsSeen("kto"), Late)
        /\ Recent(draft["kto"].records, listing)
        /\ Marked(NextMark(job["kto"].watermark, watermark), RowsSeen("kto"), listing, Range(list),
                  Late \union behind)

\* What a run has read of an item: it is older than no record, and shown by its
\* last usable copy if it is shown.
ReadOK(run, i) ==
    /\ IsPast(run.read[i], listing[i])
    /\ run.read[i].shown => i \in DOMAIN run.usable /\ run.usable[i] = run.read[i].stamp
    /\ i \in DOMAIN run.usable =>
         /\ run.usable[i] <= run.read[i].stamp
         /\ run.usable[i] = run.read[i].stamp => run.read[i].shown
         /\ record[i] # None => IsPast(record[i], [stamp |-> run.usable[i], shown |-> TRUE])
    /\ i \notin overtaken /\ run.read[i].shown /\ run.prior # None /\ run.read[i].stamp <= run.prior =>
         IsStored(facility, i, run.read[i].stamp)

ListOK ==
    LET run == job["kto"] IN
    run.pc \in {"list", "store"} =>
        /\ run.prior = watermark
        /\ DOMAIN run.usable \subseteq DOMAIN run.read
        /\ \A i \in DOMAIN run.read : ReadOK(run, i)
        /\ \A i \in Read(list) \ behind : i \in DOMAIN run.read /\ run.read[i] = listing[i]

AskedOK ==
    job["kto"].pc = "details" =>
        \A i \in job["kto"].asked : RowsSeen("kto")[i] # None /\ draft["kto"].records[i] # None

\* A load that crosses no other has its own plan for all links.
Alone == \A j, k \in Loads : j # k /\ Writing(j) /\ ~job[j].crossing => ~Writing(k)

PlanOK(j) ==
    /\ job[j].pc = "relink" /\ ~job[j].crossing => job[j].seen = links
    /\ job[j].pc = "commit" /\ ~job[j].crossing =>
         job[j].removed = links /\ job[j].linked = Matches(RowsSeen(j))

LinksOK == LinksAreExact /\ Alone /\ \A j \in Loads : PlanOK(j)

IngestInv == IngestTypes /\ VerdictsOK /\ TablesTold /\ DraftTold /\ ListOK /\ AskedOK /\ LinksOK

------------------------------------------------------------------------------
\* What the statements make of single rows

LEMMA Distinct ==
    /\ Loads = {"kto", "kcisa"} /\ Jobs = Loads \union Columns
    /\ \A c \in Columns : c \notin Loads
    /\ Rows = Kto \union Kcisa /\ Kto \intersect Kcisa = {}
BY ConstantsAssumption DEF Loads, Jobs, Rows

\* An upsert writes a row, and a verdict it carries over was beside the same text.
LEMMA UpsertedRow ==
    ASSUME NEW old \in Row \union {None},
           NEW new, new.stamp \in Nat, new.pet \in Texts \union {Empty}, NEW preserve,
           NEW row, row = Upserted(old, new, preserve)
    PROVE  /\ row \in Row /\ row # None /\ row.stamp = new.stamp
           /\ \A c \in Columns :
                \/ row.verdict[c] = None
                \/ (old # None /\ old.pet = row.pet /\ old.verdict[c] = row.verdict[c])
<1> DEFINE text == IF preserve /\ new.pet = Empty /\ old # None THEN old.pet ELSE new.pet
           verdict == IF old # None /\ old.pet = text THEN old.verdict ELSE Underived
<1>1. text \in Texts \union {Empty}
  BY DEF Row
<1>2. verdict \in [Columns -> Texts \union {Empty, None}]
  BY DEF Row, Underived
<1>3. Upserted(old, new, preserve)
        = [stamp |-> new.stamp, pet |-> text, verdict |-> verdict]
  BY DEF Upserted
<1>4. [stamp |-> new.stamp, pet |-> text, verdict |-> verdict] \in Row
  BY <1>1, <1>2 DEF Row
<1>5. \A c \in Columns : verdict[c] = None
          \/ (old # None /\ old.pet = text /\ old.verdict[c] = verdict[c])
  BY DEF Underived
<1> HIDE DEF verdict
<1> QED
  BY <1>3, <1>4, <1>5, RowsAssumption

LEMMA DetailedRow ==
    ASSUME NEW old \in Row, NEW text \in Texts
    PROVE  LET row == Detailed(old, text)
           IN  /\ row \in Row /\ row # None /\ row.stamp = old.stamp /\ row.pet = text
               /\ \A c \in Columns :
                    \/ row.verdict[c] = None
                    \/ (old.pet = row.pet /\ old.verdict[c] = row.verdict[c])
<1>1. CASE old.pet = text
  BY <1>1, RowsAssumption DEF Detailed
<1>2. CASE old.pet # text
  <2>1. Detailed(old, text) = [stamp |-> old.stamp, pet |-> text, verdict |-> Underived]
    BY <1>2 DEF Detailed
  <2>2. [stamp |-> old.stamp, pet |-> text, verdict |-> Underived] \in Row
    BY DEF Row, Underived
  <2> QED
    BY <2>1, <2>2, RowsAssumption DEF Underived
<1> QED
  BY <1>1, <1>2

\* A listing keeps the fetched detail of its modifiedtime and no other.
LEMMA ListedRecord ==
    ASSUME NEW old \in Record \union {None}, NEW item \in Item
    PROVE  LET rec == Listed(old, item)
           IN  /\ rec \in Record /\ rec # None /\ rec.stamp = item.stamp /\ rec.shown = item.shown
               /\ rec.state = "fetched" =>
                    old # None /\ old.stamp = item.stamp /\ old.state = "fetched"
                    /\ old.detail = rec.detail
<1>1. CASE old # None /\ old.stamp = item.stamp
  <2>1. Listed(old, item) = [old EXCEPT !.shown = item.shown]
    BY <1>1 DEF Listed
  <2>2. [old EXCEPT !.shown = item.shown] \in Record
    BY <1>1 DEF Record, Item
  <2> QED
    BY <1>1, <2>1, <2>2, RowsAssumption DEF Record
<1>2. CASE ~(old # None /\ old.stamp = item.stamp)
  <2>1. Listed(old, item) = [stamp |-> item.stamp, shown |-> item.shown, detail |-> None,
                             state |-> "not_fetched"]
    BY <1>2 DEF Listed
  <2>2. [stamp |-> item.stamp, shown |-> item.shown, detail |-> None,
         state |-> "not_fetched"] \in Record
    BY DEF Record, Item
  <2> QED
    BY <2>1, <2>2, RowsAssumption
<1> QED
  BY <1>1, <1>2

\* Bounded stamps have a latest one.
LEMMA LatestStamp ==
    ASSUME NEW last \in Nat, NEW S, S \subseteq 0 .. last, S # {}
    PROVE  Max(S) \in S
<1> DEFINE bounds == {n \in Nat : \A x \in S : x <= n}
<1>1. last \in bounds
  OBVIOUS
<1>2. PICK least \in bounds : \A m \in bounds : <<m, least>> \notin OpToRel(<, Nat)
  BY <1>1, WFMin, NatLessThanWellFounded
<1>3. \A m \in bounds : ~(m < least)
  BY <1>2 DEF OpToRel
<1>4. least \in S
  <2> SUFFICES ASSUME least \notin S PROVE FALSE
    OBVIOUS
  <2>1. \A x \in S : x \in Nat /\ x < least
    OBVIOUS
  <2>2. PICK x \in S : TRUE
    OBVIOUS
  <2>3. least - 1 \in bounds
    BY <2>1, <2>2
  <2> QED
    BY <2>3, <1>3
<1>5. \A y \in S : least >= y
  OBVIOUS
<1> QED
  BY <1>4, <1>5 DEF Max

------------------------------------------------------------------------------
\* What a table shows when rows keep their text and modifiedtime
\* What a table shows when rows keep their text and modifiedtime

Alike(S, f, g) ==
    \A r \in S :
        /\ f[r] = None <=> g[r] = None
        /\ f[r] # None => f[r].stamp = g[r].stamp /\ f[r].pet = g[r].pet

LEMMA AlikeFollows ==
    ASSUME NEW f, NEW g, Alike(Kto, f, g), NEW rec, NEW late, Follows(rec, f, late)
    PROVE  Follows(rec, g, late)
BY DEF Follows, Alike

LEMMA AlikeMarked ==
    ASSUME NEW f, NEW g, Alike(Kto, f, g), NEW limit, NEW items, NEW late,
           NEW listed \in SUBSET Kto, Marked(limit, f, items, listed, late)
    PROVE  Marked(limit, g, items, listed, late)
BY DEF Marked, IsStored, Alike

LEMMA ListedItems ==
    ASSUME SourceOK
    PROVE  Range(list) \subseteq Kto
BY DEF SourceOK, Range

\* What the KTO run is doing by its pc.
LEMMA KtoRun ==
    ASSUME JobsOK
    PROVE  /\ job["kto"].pc \in {"list", "store"} <=> Listening(job["kto"])
           /\ job["kto"].pc \notin {"list", "store"} <=> job["kto"] \in Loading
           /\ Writing("kto") => job["kto"] \in Detailing \union Relinking \union Committing
           /\ Writing("kcisa") => job["kcisa"] \in Relinking \union Committing
           /\ Writing("kcisa") <=> job["kcisa"].pc # "idle"
<1>1. ASSUME NEW run \in Loading
      PROVE  /\ run.pc \notin {"list", "store"}
             /\ run.pc # "idle" => run \in Detailing \union Relinking \union Committing
             /\ run.pc # "details" => run \notin Detailing
  BY DEF Loading, Idle, Detailing, Relinking, Committing
<1>2. \A run : Listening(run) => run.pc \in {"list", "store"}
  BY DEF Listening
<1>3. /\ job["kto"] \in Loading \/ Listening(job["kto"])
      /\ job["kcisa"] \in Loading /\ job["kcisa"].pc # "details"
  BY DEF JobsOK
<1> QED
  BY <1>1, <1>2, <1>3 DEF Writing

\* What a run has read stands when nothing but verdicts changes beside it.
LEMMA ListStays ==
    ASSUME JobsOK, ListOK, job'["kto"] = job["kto"], Alike(Kto, facility, facility'),
           UNCHANGED <<source, record, watermark, overtaken>>
    PROVE  ListOK'
<1> DEFINE run == job["kto"]
<1> SUFFICES ASSUME run.pc \in {"list", "store"} PROVE ListOK'
  BY DEF ListOK
<1>1. DOMAIN run.read \subseteq Kto
  BY KtoRun DEF Listening, PartOf
<1>2. \A i \in DOMAIN run.read : ReadOK(run, i) => ReadOK(run, i)'
  BY <1>1 DEF ReadOK, IsStored, Alike, source
<1>3. Read(list)' = Read(list)
  BY DEF Read, source, Paged
<1> QED
  BY <1>2, <1>3 DEF ListOK, source

LEMMA AlikeMatches ==
    ASSUME NEW f, NEW g, Alike(Rows, f, g)
    PROVE  Matches(f) = Matches(g)
<1>1. \A k \in Kto, c \in Kcisa : (f[k] = None <=> g[k] = None) /\ (f[c] = None <=> g[c] = None)
  BY Distinct DEF Alike
<1>2. \A k \in Kto : \A n \in DOMAIN Near[k] : Near[k][n] \in Kcisa
  BY ConstantsAssumption
<1>3. \A k \in Kto : \A n \in DOMAIN Near[k] :
        (\A m \in 1 .. n - 1 : f[Near[k][m]] = None) <=> (\A m \in 1 .. n - 1 : g[Near[k][m]] = None)
  <2> SUFFICES ASSUME NEW k \in Kto, NEW n \in DOMAIN Near[k], NEW m \in 1 .. n - 1
               PROVE  f[Near[k][m]] = None <=> g[Near[k][m]] = None
    OBVIOUS
  <2>1. Near[k] \in Seq(Kcisa)
    BY ConstantsAssumption
  <2>2. m \in DOMAIN Near[k]
    BY <2>1
  <2> QED
    BY <2>2, <1>1, <1>2
<1>4. \A k \in Kto, c \in Kcisa : IsMatch(k, c, f) <=> IsMatch(k, c, g)
  BY <1>1, <1>3 DEF IsMatch
<1>5. \A l \in Kto \X Kcisa : IsMatch(l[1], l[2], f) <=> IsMatch(l[1], l[2], g)
  BY <1>4
<1> QED
  BY <1>5 DEF Matches

LEMMA MatchesAreStored ==
    ASSUME NEW f, NEW l \in Matches(f)
    PROVE  l \in Kto \X Kcisa /\ f[l[1]] # None
BY DEF Matches, IsMatch

LEMMA OverlayRow ==
    ASSUME NEW new, NEW old, NEW x \in DOMAIN old
    PROVE  /\ DOMAIN Overlay(new, old) = DOMAIN old
           /\ Overlay(new, old)[x] = IF x \in DOMAIN new THEN new[x] ELSE old[x]
BY DEF Overlay

LEMMA OverlayType ==
    ASSUME NEW new, NEW S, NEW T, NEW old \in [S -> T], PartOf(new, S, T)
    PROVE  Overlay(new, old) \in [S -> T]
BY DEF Overlay, PartOf

LEMMA AlikeOverlay ==
    ASSUME NEW f, NEW g, NEW S, S \subseteq DOMAIN f, S \subseteq DOMAIN g, Alike(S, f, g), NEW d
    PROVE  Alike(S, Overlay(d, f), Overlay(d, g))
<1> SUFFICES ASSUME NEW r \in S
             PROVE  LET F == Overlay(d, f)[r]
                        G == Overlay(d, g)[r]
                    IN  /\ F = None <=> G = None
                        /\ F # None => F.stamp = G.stamp /\ F.pet = G.pet
  BY DEF Alike
<1>1. Overlay(d, f)[r] = (IF r \in DOMAIN d THEN d[r] ELSE f[r])
      /\ Overlay(d, g)[r] = (IF r \in DOMAIN d THEN d[r] ELSE g[r])
  BY DEF Overlay
<1> QED
  BY <1>1 DEF Alike
------------------------------------------------------------------------------
\* What a load writes

KtoRows(run) == [i \in Applied(run) |-> [stamp |-> run.usable[i], pet |-> Empty]]
KtoRecords(run) ==
    [i \in Kto |-> IF i \in DOMAIN run.read THEN Listed(record[i], run.read[i]) ELSE None]
Stamps(run) == {run.usable[i] : i \in Applied(run)}
KtoMark(run) == IF Stamps(run) = {} THEN run.prior ELSE Max(Stamps(run))

\* The rows a load writes carry over only verdicts of the same text.
LEMMA WrittenRows ==
    ASSUME TablesOK, NEW j \in Loads, NEW rows, NEW pruned \in SUBSET Mine(j),
           DOMAIN rows \subseteq Mine(j),
           \A r \in DOMAIN rows : rows[r].stamp \in Nat /\ rows[r].pet \in Texts \union {Empty}
    PROVE  /\ PartOf(Written(j, rows, pruned), Mine(j), Row \union {None})
           /\ Kept(Written(j, rows, pruned), facility)
<1> DEFINE w == Written(j, rows, pruned)
<1>1. /\ DOMAIN w = DOMAIN rows \union (pruned \intersect Stored)
      /\ \A r \in DOMAIN w :
           w[r] = IF r \in DOMAIN rows THEN Upserted(facility[r], rows[r], j = "kto") ELSE None
  BY DEF Written
<1>2. ASSUME NEW r \in DOMAIN w, r \in DOMAIN rows
      PROVE  /\ w[r] \in Row
             /\ \A c \in Columns :
                  \/ w[r].verdict[c] = None
                  \/ (facility[r] # None /\ facility[r].pet = w[r].pet
                      /\ facility[r].verdict[c] = w[r].verdict[c])
  <2>1. facility[r] \in Row \union {None}
    BY <1>2, Distinct DEF TablesOK, Mine
  <2>2. w[r] = Upserted(facility[r], rows[r], j = "kto")
    BY <1>1, <1>2
  <2> HIDE DEF w
  <2> QED
    BY <1>2, <2>1, <2>2, UpsertedRow
<1>3. ASSUME NEW r \in DOMAIN w, r \notin DOMAIN rows
      PROVE  w[r] = None
  BY <1>1, <1>3
<1> HIDE DEF w
<1>4. PartOf(w, Mine(j), Row \union {None})
  BY <1>1, <1>2, <1>3 DEF PartOf
<1>5. Kept(w, facility)
  BY <1>2, <1>3 DEF Kept
<1> QED
  BY <1>4, <1>5 DEF w

LEMMA KtoRowsWritten ==
    ASSUME TablesOK, NEW run, Listening(run)
    PROVE  LET written == Written("kto", KtoRows(run), Pruned(run))
           IN  /\ PartOf(written, Kto, Row \union {None})
               /\ Kept(written, facility)
               /\ \A i \in Applied(run) :
                    /\ i \in DOMAIN written /\ written[i] # None
                    /\ written[i].stamp = run.usable[i]
                    /\ facility[i] # None => written[i].pet = facility[i].pet
               /\ \A i \in DOMAIN written \ Applied(run) : run.mode = "full" /\ written[i] = None
<1> DEFINE rows == KtoRows(run)
           written == Written("kto", rows, Pruned(run))
<1>1. Applied(run) \subseteq Kto /\ Pruned(run) \subseteq Kto
      /\ \A i \in Applied(run) : run.usable[i] \in Nat
  BY ConstantsAssumption DEF Applied, Pruned, Listening, PartOf
<1>2. /\ DOMAIN rows = Applied(run)
      /\ \A i \in Applied(run) : rows[i] = [stamp |-> run.usable[i], pet |-> Empty]
  BY <1>1 DEF KtoRows
<1> HIDE DEF rows
<1>3. PartOf(written, Mine("kto"), Row \union {None}) /\ Kept(written, facility)
  <2>1. "kto" \in Loads /\ Mine("kto") = Kto
    BY DEF Loads, Mine
  <2>2. \A r \in DOMAIN rows : rows[r].stamp \in Nat /\ rows[r].pet \in Texts \union {Empty}
    BY <1>1, <1>2
  <2> QED
    BY <1>1, <1>2, <2>1, <2>2, WrittenRows
<1>4. ASSUME NEW i \in Applied(run)
      PROVE  /\ i \in DOMAIN written /\ written[i] # None
             /\ written[i].stamp = run.usable[i]
             /\ facility[i] # None => written[i].pet = facility[i].pet
  <2>1. i \in DOMAIN written /\ written[i] = Upserted(facility[i], rows[i], "kto" = "kto")
    BY <1>2 DEF Written
  <2>2. facility[i] \in Row \union {None}
    BY <1>1, Distinct DEF TablesOK
  <2>3. rows[i].stamp = run.usable[i] /\ rows[i].stamp \in Nat /\ rows[i].pet = Empty
    BY <1>1, <1>2
  <2>4. facility[i] # None => written[i].pet = facility[i].pet
    BY <2>1, <2>3 DEF Upserted
  <2> HIDE DEF written
  <2>5. PICK preserve : written[i] = Upserted(facility[i], rows[i], preserve)
    BY <2>1
  <2>6. written[i] # None /\ written[i].stamp = rows[i].stamp
    BY <2>2, <2>3, <2>5, UpsertedRow
  <2> QED
    BY <2>1, <2>3, <2>4, <2>6
<1>5. ASSUME NEW i \in DOMAIN written, i \notin Applied(run)
      PROVE  run.mode = "full" /\ written[i] = None
  BY <1>2, <1>5 DEF Written, Pruned
<1> HIDE DEF written
<1>6. PartOf(written, Kto, Row \union {None})
  BY <1>3 DEF Mine
<1> QED
  BY <1>3, <1>4, <1>5, <1>6 DEF written, rows

LEMMA KtoRecordsListed ==
    ASSUME TablesOK, NEW run, Listening(run)
    PROVE  /\ KtoRecords(run) \in [Kto -> Record \union {None}]
           /\ \A i \in Kto : KtoRecords(run)[i] # None =>
                /\ i \in DOMAIN run.read /\ KtoRecords(run)[i].shown = run.read[i].shown
                /\ KtoRecords(run)[i].stamp = run.read[i].stamp
                /\ KtoRecords(run)[i].state = "fetched" =>
                     /\ record[i] # None /\ record[i].stamp = run.read[i].stamp
                     /\ record[i].state = "fetched" /\ record[i].detail = KtoRecords(run)[i].detail
<1> DEFINE recs == KtoRecords(run)
<1>1. ASSUME NEW i \in Kto, i \in DOMAIN run.read
      PROVE  /\ recs[i] \in Record /\ recs[i].shown = run.read[i].shown
             /\ recs[i].stamp = run.read[i].stamp
             /\ recs[i].state = "fetched" =>
                     /\ record[i] # None /\ record[i].stamp = run.read[i].stamp
                     /\ record[i].state = "fetched" /\ record[i].detail = recs[i].detail
  <2>1. recs[i] = Listed(record[i], run.read[i])
    BY <1>1 DEF KtoRecords
  <2>2. record[i] \in Record \union {None} /\ run.read[i] \in Item
    BY <1>1 DEF TablesOK, Listening, PartOf
  <2> HIDE DEF recs
  <2> QED
    BY <2>1, <2>2, ListedRecord
<1>2. \A i \in Kto : i \notin DOMAIN run.read => recs[i] = None
  BY DEF KtoRecords
<1>3. recs = [i \in Kto |-> recs[i]]
  BY DEF KtoRecords
<1> HIDE DEF recs
<1>4. recs \in [Kto -> Record \union {None}]
  BY <1>1, <1>2, <1>3
<1> QED
  BY <1>1, <1>2, <1>4 DEF recs

\* What a run stores before its details is what will be told after its commit.
LEMMA StoreTold ==
    ASSUME SourceOK, TablesOK, TablesTold, ListOK,
           NEW run, run = job["kto"], Listening(run), run.pc = "store"
    PROVE  LET written == Written("kto", KtoRows(run), Pruned(run))
               fac == Overlay(written, facility)
               late == overtaken \ Applied(run)
           IN  /\ KtoMark(run) \in Nat \union {None}
               /\ Follows(KtoRecords(run), fac, late)
               /\ Recent(KtoRecords(run), listing)
               /\ Marked(NextMark(KtoMark(run), watermark), fac, listing, Range(list),
                         late \union behind)
<1> DEFINE written == Written("kto", KtoRows(run), Pruned(run))
           fac == Overlay(written, facility)
           recs == KtoRecords(run)
           late == overtaken \ Applied(run)
           limit == NextMark(KtoMark(run), watermark)
<1>1. /\ PartOf(written, Kto, Row \union {None})
      /\ \A i \in Applied(run) :
                    /\ i \in DOMAIN written /\ written[i] # None
                    /\ written[i].stamp = run.usable[i]
                    /\ facility[i] # None => written[i].pet = facility[i].pet
      /\ \A i \in DOMAIN written \ Applied(run) : run.mode = "full" /\ written[i] = None
  BY KtoRowsWritten
<1>2. \A i \in Kto : fac[i] = IF i \in DOMAIN written THEN written[i] ELSE facility[i]
  BY Distinct DEF Overlay, TablesOK
<1>3. /\ run.prior = watermark
      /\ DOMAIN run.read \subseteq Kto /\ DOMAIN run.usable \subseteq DOMAIN run.read
      /\ \A i \in DOMAIN run.read : run.read[i] \in Item /\ ReadOK(run, i)
      /\ \A i \in DOMAIN run.usable : run.usable[i] \in Nat /\ run.usable[i] <= MaxStamp
  BY ConstantsAssumption DEF ListOK, Listening, PartOf
<1>4. /\ Applied(run) \subseteq DOMAIN run.usable
      /\ \A i \in DOMAIN run.usable \ Applied(run) :
           run.mode = "incremental" /\ run.prior # None /\ run.usable[i] <= run.prior
  BY <1>3 DEF Applied, Listening
<1> HIDE DEF written, fac
<1>5. \A i \in DOMAIN run.usable \ Applied(run) : fac[i] = facility[i]
  BY <1>1, <1>2, <1>3, <1>4
<1>6. ASSUME NEW i \in DOMAIN run.read, run.read[i].shown, i \notin late
      PROVE  fac[i] # None /\ fac[i].stamp = run.read[i].stamp
  <2>1. i \in DOMAIN run.usable /\ run.usable[i] = run.read[i].stamp
    BY <1>3, <1>6 DEF ReadOK
  <2>2. CASE i \in Applied(run)
    BY <1>1, <1>2, <1>3, <2>1, <2>2
  <2>3. CASE i \notin Applied(run)
    <3>1. IsStored(facility, i, run.read[i].stamp)
      BY <1>3, <1>4, <1>6, <2>1, <2>3 DEF ReadOK
    <3> QED
      BY <1>5, <2>1, <2>3, <3>1 DEF IsStored
  <2> QED
    BY <2>2, <2>3
<1>7. /\ recs \in [Kto -> Record \union {None}]
      /\ \A i \in Kto : recs[i] # None =>
                /\ i \in DOMAIN run.read /\ recs[i].shown = run.read[i].shown
                /\ recs[i].stamp = run.read[i].stamp
                /\ recs[i].state = "fetched" =>
                     /\ record[i] # None /\ record[i].stamp = run.read[i].stamp
                     /\ record[i].state = "fetched" /\ record[i].detail = recs[i].detail
  BY KtoRecordsListed
<1> HIDE DEF recs
<1>8. Follows(recs, fac, late)
  <2>1. ASSUME NEW i \in Kto, recs[i] # None, recs[i].shown, i \notin late
        PROVE  fac[i] # None /\ fac[i].stamp = recs[i].stamp
    BY <1>6, <1>7, <2>1
  <2>2. ASSUME NEW i \in Kto, recs[i] # None, recs[i].state = "fetched"
        PROVE  /\ recs[i].shown => fac[i] # None
               /\ fac[i] # None => fac[i].pet = recs[i].detail
    <3>1. /\ i \in DOMAIN run.read /\ record[i] # None /\ record[i].stamp = run.read[i].stamp
          /\ record[i].state = "fetched" /\ record[i].detail = recs[i].detail
      BY <1>7, <2>2
    <3>2. /\ record[i].shown => facility[i] # None
          /\ facility[i] # None => facility[i].pet = recs[i].detail
      BY <3>1 DEF TablesTold, Follows
    <3>3. i \in DOMAIN run.usable => facility[i] # None
      <4> SUFFICES ASSUME i \in DOMAIN run.usable PROVE record[i].shown
        BY <3>2
      <4>1. /\ run.usable[i] <= run.read[i].stamp /\ record[i].stamp <= run.usable[i]
            /\ record[i].stamp = run.usable[i] => record[i].shown = TRUE
        BY <1>3, <3>1 DEF ReadOK, IsPast
      <4>2. run.usable[i] \in Nat /\ run.read[i].stamp \in Nat
        BY <1>3, <3>1 DEF Item
      <4> QED
        BY <3>1, <4>1, <4>2
    <3>4. CASE i \in Applied(run)
      BY <1>1, <1>2, <1>4, <3>2, <3>3, <3>4
    <3>5. CASE i \notin Applied(run)
      <4>1. recs[i].shown => fac[i] # None
        BY <1>3, <1>5, <1>7, <2>2, <3>1, <3>3, <3>5 DEF ReadOK
      <4>2. fac[i] # None => fac[i] = facility[i]
        BY <1>1, <1>2, <3>5
      <4> QED
        BY <3>2, <4>1, <4>2
    <3> QED
      BY <3>4, <3>5
  <2> QED
    BY <2>1, <2>2 DEF Follows
<1>9. Recent(recs, listing)
  <2>1. \A i \in DOMAIN run.read : IsPast(run.read[i], listing[i])
    BY <1>3 DEF ReadOK
  <2> QED
    BY <1>7, <2>1 DEF Recent, IsPast
<1>10. KtoMark(run) \in Nat \union {None}
  <2>1. CASE Stamps(run) = {}
    <3>1. run.prior \in Nat \union {None}
      BY DEF Listening
    <3> QED
      BY <2>1, <3>1 DEF KtoMark
  <2>2. CASE Stamps(run) # {}
    <3>1. Stamps(run) \subseteq 0 .. MaxStamp
      BY <1>3, <1>4, ConstantsAssumption DEF Stamps
    <3>2. Max(Stamps(run)) \in Stamps(run)
      BY <2>2, <3>1, LatestStamp, ConstantsAssumption
    <3> QED
      BY <2>2, <3>1, <3>2, ConstantsAssumption DEF KtoMark
  <2> QED
    BY <2>1, <2>2
<1>11. Marked(limit, fac, listing, Range(list), late \union behind)
  <2>1. Read(list) = Range(list)
    BY DEF Read
  <2>2. \A i \in Range(list) \ behind : i \in DOMAIN run.read /\ run.read[i] = listing[i]
    BY <2>1 DEF ListOK
  <2> QED
    BY <1>6, <2>2 DEF Marked, IsStored
<1> QED
  BY <1>8, <1>9, <1>10, <1>11 DEF recs, fac, written

------------------------------------------------------------------------------
\* The first state, and the steps of the source

LEMMA OrderIs ==
    ASSUME NEW items \in SUBSET Kto, NEW s \in Orders(items)
    PROVE  s \in Seq(Kto) /\ Range(s) = items
<1>1. IsFiniteSet(items)
  BY ConstantsAssumption, FS_Subset
<1>2. Cardinality(items) \in Nat
  BY <1>1, FS_CardinalityType
<1>3. s \in [1 .. Cardinality(items) -> items] /\ Range(s) = items
  BY DEF Orders
<1> QED
  BY <1>2, <1>3

LEMMA TypesInit == Init => IngestInv
<1> SUFFICES ASSUME Init PROVE IngestInv
  OBVIOUS
<1>1. SourceOK
  <2>1. ASSUME NEW i \in Kto PROVE listing[i] \in Item /\ listing[i].stamp = 0
    <3>1. listing[i] \in [stamp: {0}, shown: {TRUE}, detail: Details]
      BY DEF Init
    <3>2. /\ listing[i].stamp \in {0} /\ listing[i].shown \in {TRUE} /\ listing[i].detail \in Details
          /\ {TRUE} \subseteq BOOLEAN
      BY <3>1, Zenon
    <3>3. listing[i].shown \in BOOLEAN /\ listing[i].stamp = 0
      BY <3>2, Zenon
    <3>4. listing[i] = [stamp |-> listing[i].stamp, shown |-> listing[i].shown,
                        detail |-> listing[i].detail]
      BY <3>1
    <3> QED
      BY <3>2, <3>3, <3>4 DEF Item
  <2>2. listing = [i \in Kto |-> listing[i]]
    BY DEF Init
  <2>3. PICK items \in SUBSET Kto : list \in Orders(items)
    BY DEF Init
  <2>4. list \in Seq(Kto)
    BY <2>3, OrderIs
  <2>5. MaxStamp \in Nat
    BY ConstantsAssumption
  <2> QED
    BY <2>1, <2>2, <2>4, <2>5 DEF SourceOK
<1>2. TablesOK
  BY DEF Init, TablesOK
<1>3. \A j \in Jobs : job[j] = Idle
  BY DEF Init
<1>4. DerivesOK /\ JobsOK
  BY <1>3, Distinct DEF Init, DerivesOK, JobsOK, Idle, Loading
<1>5. \A j \in Loads : draft[j].rows = <<>> /\ draft[j].records = <<>>
  BY DEF Init, Nothing
<1>6. DraftOK
  BY <1>3, <1>5, Distinct DEF Init, DraftOK, PartOf, Idle, Writing
<1>7. VerdictsOK
  BY <1>5 DEF VerdictsOK, Kept
<1>8. TablesTold
  BY DEF Init, TablesTold, Follows, Recent, Marked
<1>9. DraftTold /\ ListOK /\ AskedOK
  BY <1>3, Distinct DEF DraftTold, ListOK, AskedOK, Idle, Writing
<1>10. Matches(facility) = {}
  <2>1. \A k \in Kto : facility[k] = None
    BY Distinct DEF Init
  <2> QED
    BY <2>1, MatchesAreStored
<1>11. LinksOK
  BY <1>3, <1>10, Distinct DEF Init, LinksOK, LinksAreExact, Alone, PlanOK, Idle, Writing
<1> QED
  BY <1>1, <1>2, <1>4, <1>6, <1>7, <1>8, <1>9, <1>11 DEF IngestInv, IngestTypes

LEMMA SeenRows ==
    ASSUME IngestTypes, NEW j \in Loads
    PROVE  /\ RowsSeen(j) \in [Rows -> Row \union {None}]
           /\ \A r \in Rows :
                RowsSeen(j)[r] = IF r \in DOMAIN draft[j].rows THEN draft[j].rows[r] ELSE facility[r]
<1>1. PartOf(draft[j].rows, Rows, Row \union {None})
  BY Distinct DEF IngestTypes, DraftOK, PartOf, Mine
<1>2. facility \in [Rows -> Row \union {None}]
  BY DEF IngestTypes, TablesOK
<1> QED
  BY <1>1, <1>2, OverlayType, OverlayRow DEF RowsSeen


\* A record or a copy of the past stays one.
LEMMA StaysPast ==
    ASSUME NEW old, old.stamp \in Nat, NEW item \in Item, NEW new \in Item,
           new = item \/ new.stamp > item.stamp, IsPast(old, item)
    PROVE  IsPast(old, new)
BY DEF IsPast, Item

\* Of what the source does: only the item that is concerned is another one or newly
\* listed, and it is behind a run that has read its page, and overtaken if the
\* watermark has reached it.
LEMMA SourceMoves ==
    ASSUME IngestInv, UNCHANGED <<tables, job, draft, crossed>>, NEW i \in Kto, SourceOK',
           \A k \in Kto \ {i} : listing'[k] = listing[k],
           listing'[i] = listing[i] \/ listing'[i].stamp > listing[i].stamp,
           Range(list') \ {i} \subseteq Range(list),
           overtaken \subseteq overtaken',
           i \in Range(list') /\ watermark # None /\ listing'[i].stamp <= watermark => i \in overtaken',
           \A k \in Read(list') \ behind' : k # i /\ k \in Read(list) \ behind
    PROVE  IngestInv'
<1>0. IngestTypes /\ SourceOK /\ TablesOK /\ DraftOK /\ JobsOK /\ TablesTold /\ DraftTold /\ ListOK
  BY DEF IngestInv, IngestTypes
<1>1. Range(list') \subseteq Kto
  BY ListedItems DEF SourceOK, Range
<1>2. \A k \in Kto : /\ listing[k] \in Item /\ listing'[k] \in Item
                     /\ listing'[k] = listing[k] \/ listing'[k].stamp > listing[k].stamp
  BY <1>0 DEF SourceOK
<1>3. ASSUME NEW rec \in [Kto -> Record \union {None}], Recent(rec, listing)
      PROVE  Recent(rec, listing')
  <2>1. \A k \in Kto : rec[k] # None => rec[k].stamp \in Nat
    BY DEF Record
  <2> QED
    BY <1>2, <1>3, <2>1, StaysPast DEF Recent
<1>4. TablesTold'
  <2>1. Follows(record, facility, overtaken')
    BY <1>0 DEF TablesTold, Follows
  <2>2. Recent(record, listing')
    BY <1>0, <1>3 DEF TablesTold, TablesOK
  <2>3. Marked(watermark, facility, listing', Range(list'), overtaken')
    <3> SUFFICES ASSUME watermark # None, NEW k \in Range(list') \ overtaken',
                        listing'[k].shown, listing'[k].stamp <= watermark
                 PROVE  IsStored(facility, k, listing'[k].stamp)
      BY DEF Marked
    <3>1. k # i /\ k \in Kto
      BY <1>1
    <3>2. listing'[k] = listing[k] /\ k \in Range(list) \ overtaken
      BY <3>1
    <3> QED
      BY <1>0, <3>2 DEF TablesTold, Marked
  <2> QED
    BY <2>1, <2>2, <2>3 DEF TablesTold, tables
<1>5. DraftTold'
  <2> DEFINE recs == draft["kto"].records
             limit == NextMark(job["kto"].watermark, watermark)
  <2> SUFFICES ASSUME Writing("kto")
               PROVE  /\ Follows(recs, RowsSeen("kto"), Late')
                      /\ Recent(recs, listing')
                      /\ Marked(limit, RowsSeen("kto"), listing', Range(list'), Late' \union behind')
    BY DEF DraftTold, RowsSeen, Writing, tables
  <2>1. Late \subseteq Late'
    BY DEF Late
  <2>2. /\ Follows(recs, RowsSeen("kto"), Late) /\ Recent(recs, listing)
        /\ Marked(limit, RowsSeen("kto"), listing, Range(list), Late \union behind)
    BY <1>0 DEF DraftTold
  <2>3. recs \in [Kto -> Record \union {None}]
    BY <1>0 DEF DraftOK
  <2>4. Read(list') = Range(list') /\ Read(list) = Range(list)
    BY DEF Read, Writing
  <2> HIDE DEF recs, limit
  <2>5. Follows(recs, RowsSeen("kto"), Late')
    BY <2>1, <2>2 DEF Follows
  <2>6. Marked(limit, RowsSeen("kto"), listing', Range(list'), Late' \union behind')
    <3> SUFFICES ASSUME limit # None, NEW k \in Range(list') \ (Late' \union behind'),
                        listing'[k].shown, listing'[k].stamp <= limit
                 PROVE  IsStored(RowsSeen("kto"), k, listing'[k].stamp)
      BY DEF Marked
    <3>1. k # i /\ k \in Range(list) \ behind
      BY <2>4
    <3>2. listing'[k] = listing[k] /\ k \notin Late
      BY <1>1, <2>1, <3>1
    <3> QED
      BY <2>2, <3>1, <3>2 DEF Marked
  <2> QED
    BY <1>3, <2>2, <2>3, <2>5, <2>6
<1>6. ListOK'
  <2> DEFINE run == job["kto"]
  <2> SUFFICES ASSUME run.pc \in {"list", "store"}
               PROVE  /\ run.prior = watermark
                      /\ DOMAIN run.usable \subseteq DOMAIN run.read
                      /\ \A k \in DOMAIN run.read : ReadOK(run, k)'
                      /\ \A k \in Read(list') \ behind' :
                           k \in DOMAIN run.read /\ run.read[k] = listing'[k]
    BY DEF ListOK, Read, tables
  <2>1. /\ run.prior = watermark /\ DOMAIN run.usable \subseteq DOMAIN run.read
        /\ \A k \in DOMAIN run.read : ReadOK(run, k)
        /\ \A k \in Read(list) \ behind : k \in DOMAIN run.read /\ run.read[k] = listing[k]
    BY <1>0 DEF ListOK
  <2>2. DOMAIN run.read \subseteq Kto /\ \A k \in DOMAIN run.read : run.read[k] \in Item
    BY <1>0, KtoRun DEF Listening, PartOf
  <2>3. ASSUME NEW k \in DOMAIN run.read PROVE ReadOK(run, k)'
    <3>1. IsPast(run.read[k], listing'[k])
      <4>1. IsPast(run.read[k], listing[k]) /\ run.read[k].stamp \in Nat
        BY <2>1, <2>2, <2>3 DEF ReadOK, Item
      <4> QED
        BY <1>2, <2>2, <2>3, <4>1, StaysPast
    <3> QED
      BY <2>1, <2>3, <3>1 DEF ReadOK, tables
  <2>4. \A k \in Read(list') \ behind' : k \in DOMAIN run.read /\ run.read[k] = listing'[k]
    BY <2>1, <2>2
  <2> QED
    BY <2>1, <2>3, <2>4
<1>7. /\ TablesOK' /\ DerivesOK' /\ JobsOK' /\ DraftOK'
      /\ VerdictsOK' /\ AskedOK' /\ LinksOK'
  BY DEF IngestInv, IngestTypes, TablesOK, DerivesOK, JobsOK, DraftOK, VerdictsOK, AskedOK, LinksOK,
     LinksAreExact, Alone, PlanOK, RowsSeen, Stored, Writing, tables
<1> QED
  BY <1>4, <1>5, <1>6, <1>7 DEF IngestInv, IngestTypes

LEMMA ChangeStep ==
    ASSUME IngestInv, NEW i \in Kto, Change(i)
    PROVE  IngestInv'
<1>0. SourceOK /\ Range(list) \subseteq Kto
  BY ListedItems DEF IngestInv, IngestTypes
<1>1. /\ UNCHANGED <<tables, job, draft, crossed>>
      /\ behind' = {k \in Read(list') : k = i \/ k \in behind \/ k \notin Read(list)}
      /\ overtaken' = IF watermark # None /\ listing'[i].stamp <= watermark
                        THEN overtaken \union {i} ELSE overtaken
  BY DEF Change, Noticed
<1>2. PICK stamp \in listing[i].stamp + 1 .. MaxStamp, shown \in BOOLEAN, detail \in Details :
         listing' = [listing EXCEPT ![i] = [stamp |-> stamp, shown |-> shown, detail |-> detail]]
  BY DEF Change
<1>3. list' \in Seq(Kto) /\ Range(list') = Range(list) \union {i}
  BY <1>0, OrderIs DEF Change
<1>4. listing[i].stamp \in Nat /\ MaxStamp \in Nat
  BY <1>0, ConstantsAssumption DEF SourceOK, Item
<1>5. [stamp |-> stamp, shown |-> shown, detail |-> detail] \in Item
  BY <1>4 DEF Item
<1>6. /\ listing' \in [Kto -> Item] /\ \A k \in Kto \ {i} : listing'[k] = listing[k]
      /\ listing'[i].stamp = stamp
  BY <1>0, <1>2, <1>5 DEF SourceOK
<1>7. SourceOK'
  BY <1>0, <1>3, <1>4, <1>6 DEF SourceOK
<1>8. listing'[i].stamp > listing[i].stamp
  BY <1>4, <1>6
<1> QED
  BY <1>1, <1>3, <1>6, <1>7, <1>8, SourceMoves

LEMMA ReturnStep ==
    ASSUME IngestInv, NEW i \in Kto, Return(i)
    PROVE  IngestInv'
<1>0. SourceOK /\ Range(list) \subseteq Kto
  BY ListedItems DEF IngestInv, IngestTypes
<1>1. /\ UNCHANGED <<tables, job, draft, crossed>> /\ listing' = listing
      /\ behind' = {k \in Read(list') : k = i \/ k \in behind \/ k \notin Read(list)}
      /\ overtaken' = IF watermark # None /\ listing'[i].stamp <= watermark
                        THEN overtaken \union {i} ELSE overtaken
  BY DEF Return, Noticed
<1>2. list' \in Seq(Kto) /\ Range(list') = Range(list) \union {i}
  BY <1>0, OrderIs DEF Return
<1>3. SourceOK'
  BY <1>0, <1>1, <1>2 DEF SourceOK
<1> QED
  BY <1>1, <1>2, <1>3, SourceMoves

LEMMA LeaveStep ==
    ASSUME IngestInv, NEW i \in Kto, Leave(i)
    PROVE  IngestInv'
<1>0. SourceOK /\ Range(list) \subseteq Kto
  BY ListedItems DEF IngestInv, IngestTypes
<1>1. /\ UNCHANGED <<tables, job, draft, crossed>> /\ listing' = listing /\ overtaken' = overtaken
      /\ behind' = {k \in Read(list') : k \in behind \/ k \notin Read(list)}
  BY DEF Leave, past
<1>2. list' \in Seq(Kto) /\ Range(list') = Range(list) \ {i}
  BY <1>0, OrderIs DEF Leave
<1>3. SourceOK'
  BY <1>0, <1>1, <1>2 DEF SourceOK
<1>4. Read(list') \subseteq Range(list')
  BY DEF Read, Paged, Range
<1> QED
  BY <1>1, <1>2, <1>3, <1>4, SourceMoves

------------------------------------------------------------------------------
\* The reading of the list

\* A job that is one step further: the tables and what the loads have written stand.
LEMMA JobMoves ==
    ASSUME IngestInv, UNCHANGED <<source, tables, draft, past>>,
           JobsOK', DerivesOK', ListOK',
           \A j \in Loads :
              /\ Writing(j)' <=> Writing(j)
              /\ Writing(j) => job'[j].crossing = job[j].crossing /\ job'[j].watermark = job[j].watermark
              /\ job'[j].pc = "details" => job'[j] = job[j],
           \A j \in Loads : PlanOK(j)'
    PROVE  IngestInv'
<1>0. IngestTypes /\ SourceOK /\ TablesOK /\ DraftOK /\ JobsOK /\ TablesTold
  BY DEF IngestInv, IngestTypes
<1>1. SourceOK' /\ TablesOK' /\ TablesTold'
  BY <1>0 DEF SourceOK, TablesOK, TablesTold, source, tables, past
<1>2. DraftOK' /\ VerdictsOK'
  BY <1>0, Distinct DEF IngestInv, DraftOK, VerdictsOK, tables
<1>3. DraftTold' /\ AskedOK'
  BY Distinct DEF IngestInv, DraftTold, Late, AskedOK, RowsSeen, source, tables, past
<1>4. LinksAreExact'
  BY DEF IngestInv, LinksOK, LinksAreExact, tables, past
<1>5. Alone'
  BY Distinct DEF IngestInv, LinksOK, Alone
<1> QED
  BY <1>1, <1>2, <1>3, <1>4, <1>5 DEF IngestInv, IngestTypes, LinksOK

LEMMA PagesGrow ==
    ASSUME SourceOK, NEW page \in Nat
    PROVE  /\ Paged(list, 0, 0) = {}
           /\ Paged(list, 0, page + 1) = Paged(list, 0, page) \union Paged(list, page, page + 1)
           /\ Len(list) <= (page + 1) * KtoPageSize => Range(list) = Paged(list, 0, page + 1)
           /\ Paged(list, page, page + 1) \subseteq Range(list)
<1> DEFINE from == page * KtoPageSize
           to == (page + 1) * KtoPageSize
<1>1. KtoPageSize \in Nat \ {0}
  BY ConstantsAssumption
<1>2. from \in Nat /\ to \in Nat /\ from <= to
  BY <1>1
<1>3. 0 * KtoPageSize = 0
  BY <1>1
<1>4. DOMAIN list = 1 .. Len(list) /\ Len(list) \in Nat
  BY DEF SourceOK
<1>5. /\ Paged(list, 0, page + 1) = {list[n] : n \in {m \in DOMAIN list : 0 < m /\ m <= to}}
      /\ Paged(list, 0, page) = {list[n] : n \in {m \in DOMAIN list : 0 < m /\ m <= from}}
      /\ Paged(list, page, page + 1) = {list[n] : n \in {m \in DOMAIN list : from < m /\ m <= to}}
      /\ Paged(list, 0, 0) = {list[n] : n \in {m \in DOMAIN list : 0 < m /\ m <= 0}}
  BY <1>3 DEF Paged
<1> HIDE DEF from, to
<1>6. Range(list) = {list[n] : n \in DOMAIN list}
  BY DEF Range
<1>7. Paged(list, 0, 0) = {}
  BY <1>4, <1>5
<1>8. Paged(list, 0, page + 1) = Paged(list, 0, page) \union Paged(list, page, page + 1)
  BY <1>2, <1>4, <1>5
<1>9. Len(list) <= to => Range(list) = Paged(list, 0, page + 1)
  BY <1>2, <1>4, <1>5, <1>6
<1>10. Paged(list, page, page + 1) \subseteq Range(list)
  BY <1>5, <1>6
<1> QED
  BY <1>7, <1>8, <1>9, <1>10 DEF to

LEMMA StartKtoStep ==
    ASSUME IngestInv, NEW mode \in {"incremental", "full"}, StartKto(mode)
    PROVE  IngestInv'
<1> DEFINE next == [pc |-> "list", mode |-> mode, prior |-> watermark, page |-> 0,
                    read |-> <<>>, usable |-> <<>>]
<1>0. SourceOK /\ JobsOK /\ DerivesOK /\ TablesOK
  BY DEF IngestInv, IngestTypes
<1>1. /\ job["kto"].pc = "idle" /\ job' = [job EXCEPT !["kto"] = next]
      /\ UNCHANGED <<source, tables, draft, past>>
  BY DEF StartKto, MayStart
<1>2. /\ next.pc = "list" /\ next.mode = mode /\ next.prior = watermark /\ next.page = 0
      /\ next.read = <<>> /\ next.usable = <<>> /\ \A x : x \notin DOMAIN <<>>
  OBVIOUS
<1> HIDE DEF next
<1>3. Listening(next)
  BY <1>0, <1>2 DEF Listening, PartOf, TablesOK
<1>4. /\ job'["kto"] = next /\ DOMAIN job' = Jobs /\ \A k \in Jobs \ {"kto"} : job'[k] = job[k]
  BY <1>0, <1>1, Distinct DEF JobsOK
<1>5. JobsOK'
  BY <1>0, <1>3, <1>4, Distinct DEF JobsOK
<1>6. DerivesOK'
  BY <1>0, <1>1, <1>4, Distinct DEF DerivesOK, Stored, tables
<1>7. ListOK'
  <2>1. Read(list)' = {}
    BY <1>0, <1>1, <1>2, <1>4, PagesGrow DEF Read, source
  <2> QED
    BY <1>1, <1>2, <1>4, <2>1 DEF ListOK, tables
<1>8. \A j \in Loads : PlanOK(j)'
  BY <1>1, <1>2, <1>4, Distinct DEF IngestInv, LinksOK, PlanOK, RowsSeen, tables
<1>9. \A j \in Loads :
              /\ Writing(j)' <=> Writing(j)
              /\ Writing(j) => job'[j].crossing = job[j].crossing /\ job'[j].watermark = job[j].watermark
              /\ job'[j].pc = "details" => job'[j] = job[j]
  BY <1>1, <1>2, <1>4, Distinct DEF Writing
<1> QED
  BY <1>1, <1>5, <1>6, <1>7, <1>8, <1>9, JobMoves

\* What has come of an item with a page is its present state.
LEMMA ReadPageStep ==
    ASSUME IngestInv, ReadPage
    PROVE  IngestInv'
<1> DEFINE run == job["kto"]
           page == Paged(list, run.page, run.page + 1)
           read == [i \in page \union DOMAIN run.read |-> IF i \in page THEN listing[i] ELSE run.read[i]]
           shown == {i \in page : listing[i].shown}
           usable == [i \in shown \union DOMAIN run.usable |->
                         IF i \in shown THEN listing[i].stamp ELSE run.usable[i]]
           last == Len(list) <= (run.page + 1) * KtoPageSize
           next == [pc |-> IF last THEN "store" ELSE "list", mode |-> run.mode, prior |-> run.prior,
                    page |-> run.page + 1, read |-> read, usable |-> usable]
<1>0. SourceOK /\ JobsOK /\ DerivesOK /\ TablesOK /\ TablesTold /\ ListOK
  BY DEF IngestInv, IngestTypes
<1>1. /\ run.pc = "list" /\ job' = [job EXCEPT !["kto"] = next]
      /\ UNCHANGED <<source, tables, draft, past>>
  BY DEF ReadPage
<1>2. Listening(run)
  BY <1>0, <1>1, KtoRun
<1>3. /\ run.page \in Nat /\ run.prior \in Nat \union {None} /\ run.mode \in {"incremental", "full"}
      /\ DOMAIN run.read \subseteq Kto /\ \A i \in DOMAIN run.read : run.read[i] \in Item
      /\ DOMAIN run.usable \subseteq Kto /\ \A i \in DOMAIN run.usable : run.usable[i] \in 0 .. MaxStamp
  BY <1>2 DEF Listening, PartOf
<1>4. page \subseteq Range(list) /\ page \subseteq Kto
      /\ \A i \in page : listing[i] \in Item /\ listing[i].stamp \in 0 .. MaxStamp
  <2>1. page \subseteq Range(list)
    BY <1>0, <1>3, PagesGrow
  <2>2. page \subseteq Kto
    BY <1>0, <2>1, ListedItems
  <2> HIDE DEF page
  <2>3. \A i \in page : listing[i] \in Item /\ listing[i].stamp \in Nat /\ listing[i].stamp <= MaxStamp
    BY <1>0, <2>2 DEF SourceOK, Item
  <2> QED
    BY <2>1, <2>2, <2>3, ConstantsAssumption
<1>5. /\ run.prior = watermark
      /\ DOMAIN run.usable \subseteq DOMAIN run.read
      /\ \A i \in DOMAIN run.read : ReadOK(run, i)
      /\ \A i \in Paged(list, 0, run.page) \ behind : i \in DOMAIN run.read /\ run.read[i] = listing[i]
  <2>1. Read(list) = Paged(list, 0, run.page)
    BY <1>1 DEF Read
  <2> QED
    BY <1>0, <1>1, <2>1 DEF ListOK
<1>6. /\ DOMAIN read = page \union DOMAIN run.read
      /\ \A i \in page : read[i] = listing[i]
      /\ \A i \in DOMAIN run.read \ page : read[i] = run.read[i]
      /\ DOMAIN usable = shown \union DOMAIN run.usable
      /\ \A i \in shown : usable[i] = listing[i].stamp
      /\ \A i \in DOMAIN run.usable \ shown : usable[i] = run.usable[i]
      /\ \A i : i \in shown <=> i \in page /\ listing[i].shown
  OBVIOUS
<1>7. /\ next.pc = IF last THEN "store" ELSE "list"
      /\ next.mode = run.mode /\ next.prior = run.prior /\ next.page = run.page + 1
      /\ next.read = read /\ next.usable = usable
  OBVIOUS
<1>8. Paged(list, 0, run.page + 1) = Paged(list, 0, run.page) \union page
      /\ (last => Range(list) = Paged(list, 0, run.page + 1))
  BY <1>0, <1>3, PagesGrow
<1> HIDE DEF run, page, read, shown, usable, last, next
<1>9. /\ job'["kto"] = next /\ DOMAIN job' = Jobs /\ \A k \in Jobs \ {"kto"} : job'[k] = job[k]
  BY <1>0, <1>1, Distinct DEF JobsOK
<1>10. Listening(next)
  BY <1>3, <1>4, <1>6, <1>7 DEF Listening, PartOf
<1>11. JobsOK'
  BY <1>0, <1>9, <1>10, Distinct DEF JobsOK
<1>12. DerivesOK'
  BY <1>0, <1>1, <1>9, Distinct DEF DerivesOK, Stored, tables
<1>13. ASSUME NEW i \in page PROVE ReadOK(next, i)
  <2>1. /\ next.read[i] = listing[i] /\ listing[i] \in Item /\ listing[i].stamp \in Nat
        /\ i \in Kto /\ i \in Range(list)
    BY <1>4, <1>6, <1>7 DEF Item
  <2>2. IsPast(next.read[i], listing[i])
    BY <2>1 DEF IsPast
  <2>3. listing[i].shown => i \in DOMAIN next.usable /\ next.usable[i] = listing[i].stamp
    BY <1>6, <1>7
  <2>4. listing[i].shown /\ record[i] # None =>
          IsPast(record[i], [stamp |-> listing[i].stamp, shown |-> TRUE])
    <3>1. listing[i].shown \in BOOLEAN
      BY <2>1 DEF Item
    <3> QED
      BY <1>0, <2>1, <3>1 DEF TablesTold, Recent, IsPast
  <2>5. ASSUME i \in DOMAIN next.usable, ~listing[i].shown
        PROVE  /\ next.usable[i] < listing[i].stamp
               /\ record[i] # None => IsPast(record[i], [stamp |-> next.usable[i], shown |-> TRUE])
    <3>1. i \in DOMAIN run.usable /\ next.usable[i] = run.usable[i] /\ i \in DOMAIN run.read
      BY <1>5, <1>6, <1>7, <2>5
    <3>2. /\ run.usable[i] <= run.read[i].stamp
          /\ run.usable[i] = run.read[i].stamp => run.read[i].shown
          /\ run.read[i].stamp <= listing[i].stamp
          /\ run.read[i].stamp = listing[i].stamp => run.read[i].shown = listing[i].shown
          /\ record[i] # None => IsPast(record[i], [stamp |-> run.usable[i], shown |-> TRUE])
      BY <1>5, <3>1 DEF ReadOK, IsPast
    <3>3. run.usable[i] \in Nat /\ run.read[i].stamp \in Nat
      BY <1>3, <3>1, ConstantsAssumption DEF Item
    <3> QED
      BY <2>1, <2>5, <3>1, <3>2, <3>3
  <2>6. i \notin overtaken /\ listing[i].shown /\ next.prior # None /\ listing[i].stamp <= next.prior =>
          IsStored(facility, i, listing[i].stamp)
    BY <1>0, <1>5, <1>7, <2>1 DEF TablesTold, Marked
  <2>7. i \in DOMAIN next.usable =>
         /\ next.usable[i] <= listing[i].stamp
         /\ next.usable[i] = listing[i].stamp => listing[i].shown
         /\ record[i] # None => IsPast(record[i], [stamp |-> next.usable[i], shown |-> TRUE])
    <3>1. CASE listing[i].shown
      <4>1. next.usable[i] = listing[i].stamp
        BY <2>3, <3>1
      <4>2. next.usable[i] <= listing[i].stamp
        BY <2>1, <4>1
      <4>3. record[i] # None => IsPast(record[i], [stamp |-> next.usable[i], shown |-> TRUE])
        BY <2>4, <3>1, <4>1, Zenon
      <4> QED
        BY <3>1, <4>2, <4>3
    <3>2. CASE ~listing[i].shown
      <4> SUFFICES ASSUME i \in DOMAIN next.usable
                   PROVE  /\ next.usable[i] < listing[i].stamp
                          /\ record[i] # None => IsPast(record[i], [stamp |-> next.usable[i], shown |-> TRUE])
        <5>1. i \in DOMAIN next.usable => next.usable[i] \in Nat
          BY <1>10, ConstantsAssumption DEF Listening, PartOf
        <5> QED
          BY <2>1, <5>1
      <4> QED
        BY <2>5, <3>2
    <3> QED
      BY <3>1, <3>2
  <2> QED
    BY <2>1, <2>2, <2>3, <2>6, <2>7 DEF ReadOK
<1>14. ASSUME NEW i \in DOMAIN run.read \ page PROVE ReadOK(next, i)
  <2>1. ReadOK(run, i) /\ next.read[i] = run.read[i] /\ next.prior = run.prior
    BY <1>5, <1>6, <1>7
  <2>2. /\ i \in DOMAIN next.usable <=> i \in DOMAIN run.usable
        /\ i \in DOMAIN next.usable => next.usable[i] = run.usable[i]
    BY <1>6, <1>7
  <2> QED
    BY <2>1, <2>2 DEF ReadOK
<1>15. ListOK'
  <2>1. Read(list)' = Paged(list, 0, run.page + 1)
    BY <1>1, <1>7, <1>8, <1>9 DEF Read, source, Paged
  <2>2. \A i \in Paged(list, 0, run.page + 1) \ behind : i \in DOMAIN next.read /\ next.read[i] = listing[i]
    BY <1>5, <1>6, <1>7, <1>8
  <2>3. DOMAIN next.usable \subseteq DOMAIN next.read /\ next.prior = watermark
    BY <1>5, <1>6, <1>7
  <2>4. \A i \in DOMAIN next.read : ReadOK(next, i)
    BY <1>6, <1>7, <1>13, <1>14
  <2>5. \A i \in DOMAIN next.read : ReadOK(job["kto"], i)'
    BY <1>1, <1>9, <2>4 DEF ReadOK, source, tables, past
  <2> QED
    BY <1>1, <1>9, <2>1, <2>2, <2>3, <2>5 DEF ListOK, source, tables
<1>16. \A j \in Loads : PlanOK(j)'
  BY <1>1, <1>7, <1>9, Distinct DEF IngestInv, LinksOK, PlanOK, RowsSeen, tables
<1>17. \A j \in Loads :
              /\ Writing(j)' <=> Writing(j)
              /\ Writing(j) => job'[j].crossing = job[j].crossing /\ job'[j].watermark = job[j].watermark
              /\ job'[j].pc = "details" => job'[j] = job[j]
  BY <1>1, <1>7, <1>9, Distinct DEF Writing, run
<1> QED
  BY <1>1, <1>11, <1>12, <1>15, <1>16, <1>17, JobMoves

------------------------------------------------------------------------------
\* The steps of the loads

\* What the writing of a load makes of the jobs: whoever writes beside it crosses it.
LEMMA EnterJobs ==
    ASSUME IngestInv, NEW j \in Loads, NEW state \in Loading, state.pc # "idle",
           ~Writing(j), state.crossing = Beside(j), job' = Entered(j, state),
           j = "kcisa" => state.pc # "details" /\ state.watermark = None
    PROVE  /\ JobsOK' /\ Alone'
           /\ job'[j] = state /\ Writing(j)'
           /\ \A c \in Columns : job'[c] = job[c]
           /\ \A k \in Loads \ {j} :
                /\ Writing(k)' <=> Writing(k)
                /\ ~Writing(k) => job'[k] = job[k]
                /\ job'[k].pc = job[k].pc
                /\ Writing(k) => job'[k].crossing /\ job'[k].watermark = job[k].watermark
                /\ job'[k].pc = "details" => job'[k].asked = job[k].asked
<1>0. JobsOK
  BY DEF IngestInv, IngestTypes
<1>1. ASSUME NEW k \in Loads \ {j}
      PROVE  /\ job'[k] \in Loading <=> job[k] \in Loading
             /\ ~Writing(k) => job'[k] = job[k]
             /\ job'[k].pc = job[k].pc
             /\ Writing(k) => job'[k].crossing /\ job'[k].watermark = job[k].watermark
             /\ job'[k].pc = "details" => job'[k].asked = job[k].asked
  <2>1. CASE ~Writing(k)
    <3>1. job'[k] = job[k]
      BY <2>1, Distinct DEF Entered
    <3>2. job[k].pc # "details"
      BY <2>1 DEF Writing
    <3> QED
      BY <2>1, <3>1, <3>2
  <2>2. CASE Writing(k)
    <3>1. job'[k] = [job[k] EXCEPT !.crossing = TRUE]
      BY <2>2, Distinct DEF Entered
    <3>2. job[k] \in Detailing \union Relinking \union Committing
      BY <1>0, <2>2, KtoRun, Distinct
    <3>3. CASE job[k] \in Detailing
      BY <2>2, <3>1, <3>3 DEF Detailing, Loading
    <3>4. CASE job[k] \in Relinking
      BY <2>2, <3>1, <3>4 DEF Relinking, Loading
    <3>5. CASE job[k] \in Committing
      BY <2>2, <3>1, <3>5 DEF Committing, Loading
    <3> QED
      BY <3>2, <3>3, <3>4, <3>5
  <2> QED
    BY <2>1, <2>2
<1>2. job'[j] = state /\ \A c \in Columns : job'[c] = job[c]
  BY Distinct DEF Entered
<1>3. JobsOK'
  <2>1. DOMAIN job' = Jobs
    BY DEF Entered
  <2>2. job'["kto"] \in Loading \/ Listening(job'["kto"])
    <3>1. CASE j = "kto"
      BY <1>2, <3>1
    <3>2. CASE j # "kto"
      <4>1. "kto" \in Loads \ {j}
        BY <3>2, Distinct
      <4>2. CASE Writing("kto")
        BY <1>0, <1>1, <4>1, <4>2, KtoRun DEF Loading
      <4>3. CASE ~Writing("kto")
        BY <1>0, <1>1, <4>1, <4>3 DEF JobsOK
      <4> QED
        BY <4>2, <4>3
    <3> QED
      BY <3>1, <3>2
  <2>3. job'["kcisa"] \in Loading
    BY <1>0, <1>1, <1>2, Distinct DEF JobsOK
  <2>4. job'["kcisa"].pc # "details" /\ (job'["kcisa"].pc # "idle" => job'["kcisa"].watermark = None)
    <3>1. CASE j = "kcisa"
      BY <1>2, <3>1
    <3>2. CASE j # "kcisa"
      BY <1>0, <1>1, <3>2, KtoRun, Distinct DEF JobsOK
    <3> QED
      BY <3>1, <3>2
  <2> QED
    BY <2>1, <2>2, <2>3, <2>4 DEF JobsOK
<1>4. /\ Writing(j)'
      /\ \A k \in Loads \ {j} : Writing(k)' <=> Writing(k)
  <2>1. state.pc \notin {"idle", "list", "store"}
    BY DEF Loading, Idle, Detailing, Relinking, Committing
  <2> QED
    BY <1>1, <1>2, <2>1 DEF Writing
<1>5. Alone'
  <2> SUFFICES ASSUME NEW a \in Loads, NEW b \in Loads, a # b, Writing(a)', ~job'[a].crossing
               PROVE  ~Writing(b)'
    BY DEF Alone
  <2>1. a = j
    BY <1>1, <1>4
  <2>2. ~Writing(b)
    BY <1>2, <2>1 DEF Beside
  <2> QED
    BY <1>4, <2>1, <2>2
<1> QED
  BY <1>1, <1>2, <1>3, <1>4, <1>5

LEMMA StoreListStep ==
    ASSUME IngestInv, StoreList
    PROVE  IngestInv'
<1> DEFINE run == job["kto"]
           written == Written("kto", KtoRows(run), Pruned(run))
           fac == Overlay(written, facility)
           new == [rows |-> written, records |-> KtoRecords(run), brought |-> Applied(run)]
           late == overtaken \ Applied(run)
<1>0. IngestTypes /\ SourceOK /\ TablesOK /\ DraftOK /\ JobsOK /\ TablesTold /\ ListOK
  BY DEF IngestInv, IngestTypes
<1>1. /\ run.pc = "store" /\ draft' = [draft EXCEPT !["kto"] = new]
      /\ UNCHANGED <<source, tables, past>>
      /\ \E asked \in SUBSET PendingDetails(written, KtoRecords(run)) :
           job' = Entered("kto", [pc |-> "details", asked |-> asked, crossing |-> Beside("kto"),
                                  watermark |-> KtoMark(run)])
  BY DEF StoreList, KtoRows, KtoRecords, KtoMark, Stamps
<1>2. PICK asked \in SUBSET PendingDetails(written, KtoRecords(run)) :
           job' = Entered("kto", [pc |-> "details", asked |-> asked, crossing |-> Beside("kto"),
                                  watermark |-> KtoMark(run)])
  BY <1>1
<1>3. Listening(run)
  BY <1>0, <1>1, KtoRun
<1>4. PartOf(written, Kto, Row \union {None}) /\ Kept(written, facility)
  BY <1>0, <1>3, KtoRowsWritten
<1>5. KtoRecords(run) \in [Kto -> Record \union {None}]
  BY <1>0, <1>3, KtoRecordsListed
<1>6. /\ KtoMark(run) \in Nat \union {None}
      /\ Follows(KtoRecords(run), fac, late) /\ Recent(KtoRecords(run), listing)
      /\ Marked(NextMark(KtoMark(run), watermark), fac, listing, Range(list), late \union behind)
  BY <1>0, <1>1, <1>3, StoreTold
<1>7. \A i \in asked : i \in Kto /\ fac[i] # None /\ KtoRecords(run)[i] # None
  BY DEF PendingDetails
<1> HIDE DEF written
<1> DEFINE state == [pc |-> "details", asked |-> asked, crossing |-> Beside("kto"),
                     watermark |-> KtoMark(run)]
<1>8. state \in Loading
  <2>1. Beside("kto") \in BOOLEAN
    BY DEF Beside
  <2>2. asked \in SUBSET Kto
    BY <1>7
  <2> QED
    BY <1>6, <2>1, <2>2 DEF Loading, Detailing
<1>9. /\ state.pc = "details" /\ state.asked = asked /\ state.crossing = Beside("kto")
      /\ state.watermark = KtoMark(run)
  OBVIOUS
<1>10. job' = Entered("kto", state) /\ ~Writing("kto")
  BY <1>1, <1>2 DEF Writing
<1> HIDE DEF state, fac, run, late
<1>11. /\ JobsOK' /\ Alone' /\ job'["kto"] = state
       /\ \A c \in Columns : job'[c] = job[c]
       /\ \A k \in Loads \ {"kto"} :
                /\ ~Writing(k) => job'[k] = job[k]
                /\ job'[k].pc = job[k].pc
                /\ Writing(k) => job'[k].crossing
  BY <1>8, <1>9, <1>10, EnterJobs, Distinct
<1>12. /\ draft'["kto"].rows = written /\ draft'["kto"].records = KtoRecords(run)
       /\ draft'["kto"].brought = Applied(run)
       /\ draft'["kcisa"] = draft["kcisa"] /\ DOMAIN draft' = Loads
  BY <1>0, <1>1, Distinct DEF DraftOK
<1>13. SourceOK' /\ TablesOK' /\ TablesTold'
  BY <1>0, <1>1 DEF SourceOK, TablesOK, TablesTold, source, tables, past
<1>14. DerivesOK'
  BY <1>0, <1>1, <1>11 DEF IngestTypes, DerivesOK, Stored, tables
<1>15. DraftOK'
  BY <1>0, <1>4, <1>5, <1>12, Distinct DEF DraftOK, Mine
<1>16. VerdictsOK'
  BY <1>1, <1>4, <1>12, Distinct DEF IngestInv, VerdictsOK, tables
<1>17. RowsSeen("kto")' = fac /\ Late' = late
  BY <1>1, <1>12 DEF RowsSeen, tables, fac, Late, late, past
<1>18. DraftTold' /\ ListOK' /\ AskedOK'
  <2>1. DraftTold'
    BY <1>1, <1>6, <1>9, <1>11, <1>12, <1>17 DEF DraftTold, source, tables
  <2>2. ListOK'
    BY <1>9, <1>11 DEF ListOK
  <2>3. AskedOK'
    BY <1>7, <1>9, <1>11, <1>12, <1>17 DEF AskedOK
  <2> QED
    BY <2>1, <2>2, <2>3
<1>19. LinksOK'
  <2>1. LinksAreExact'
    BY <1>1 DEF IngestInv, LinksOK, LinksAreExact, tables, past
  <2>2. PlanOK("kto")'
    BY <1>9, <1>11 DEF PlanOK
  <2>3. PlanOK("kcisa")'
    BY <1>0, <1>11, KtoRun, Distinct DEF PlanOK
  <2> QED
    BY <1>11, <2>1, <2>2, <2>3, Distinct DEF LinksOK
<1> QED
  BY <1>11, <1>13, <1>14, <1>15, <1>16, <1>18, <1>19 DEF IngestInv, IngestTypes

LEMMA StartKcisaStep ==
    ASSUME IngestInv, NEW file \in Files, StartKcisa(file)
    PROVE  IngestInv'
<1> DEFINE rows == [r \in DOMAIN file |-> [stamp |-> 0, pet |-> file[r]]]
           written == Written("kcisa", rows, Kcisa \ DOMAIN file)
           state == [pc |-> "relink", seen |-> links, crossing |-> Beside("kcisa"), watermark |-> None]
<1>0. IngestTypes /\ SourceOK /\ TablesOK /\ DraftOK /\ JobsOK /\ TablesTold /\ ListOK
  BY DEF IngestInv, IngestTypes
<1>1. /\ MayStart("kcisa") /\ job' = Entered("kcisa", state)
      /\ draft' = [draft EXCEPT !["kcisa"] = [rows |-> written, records |-> <<>>, brought |-> {}]]
      /\ UNCHANGED <<source, tables, past>>
  BY DEF StartKcisa
<1>2. PICK held \in SUBSET Kcisa : file \in [held -> Texts]
  BY ConstantsAssumption
<1>3. PartOf(written, Kcisa, Row \union {None}) /\ Kept(written, facility)
  <2>1. DOMAIN rows \subseteq Kcisa
        /\ \A r \in DOMAIN rows : rows[r].stamp \in Nat /\ rows[r].pet \in Texts \union {Empty}
    BY <1>2
  <2>2. "kcisa" \in Loads /\ Mine("kcisa") = Kcisa
    BY DEF Loads, Mine
  <2> HIDE DEF rows
  <2> QED
    BY <1>0, <2>1, <2>2, WrittenRows
<1> HIDE DEF written
<1>4. state \in Loading
  <2>1. Beside("kcisa") \in BOOLEAN
    BY DEF Beside
  <2> QED
    BY <1>0, <2>1 DEF Loading, Relinking, TablesOK
<1>5. /\ state.pc = "relink" /\ state.seen = links /\ state.crossing = Beside("kcisa")
      /\ state.watermark = None
  OBVIOUS
<1>6. ~Writing("kcisa")
  BY <1>1 DEF MayStart, Writing
<1> HIDE DEF state
<1>7. /\ JobsOK' /\ Alone' /\ job'["kcisa"] = state
      /\ \A c \in Columns : job'[c] = job[c]
      /\ Writing("kto")' <=> Writing("kto")
      /\ ~Writing("kto") => job'["kto"] = job["kto"]
      /\ job'["kto"].pc = job["kto"].pc
      /\ Writing("kto") => job'["kto"].crossing /\ job'["kto"].watermark = job["kto"].watermark
      /\ job'["kto"].pc = "details" => job'["kto"].asked = job["kto"].asked
  BY <1>1, <1>4, <1>5, <1>6, EnterJobs, Distinct
<1>8. /\ draft'["kcisa"].rows = written /\ draft'["kcisa"].records = <<>>
      /\ draft'["kto"] = draft["kto"] /\ DOMAIN draft' = Loads
  BY <1>0, <1>1, Distinct DEF DraftOK
<1>9. SourceOK' /\ TablesOK' /\ TablesTold'
  BY <1>0, <1>1 DEF SourceOK, TablesOK, TablesTold, source, tables, past
<1>10. DerivesOK'
  BY <1>0, <1>1, <1>7 DEF IngestTypes, DerivesOK, Stored, tables
<1>11. DraftOK'
  BY <1>0, <1>3, <1>7, <1>8, Distinct DEF DraftOK, Mine
<1>12. VerdictsOK'
  BY <1>1, <1>3, <1>8, Distinct DEF IngestInv, VerdictsOK, tables
<1>13. RowsSeen("kto")' = RowsSeen("kto") /\ Late' = Late
  BY <1>1, <1>8 DEF RowsSeen, Late, tables, past
<1>14. DraftTold' /\ AskedOK'
  BY <1>1, <1>7, <1>8, <1>13 DEF IngestInv, DraftTold, AskedOK, source, tables
<1>15. ListOK'
  <2>1. CASE Writing("kto")
    BY <1>7, <2>1 DEF ListOK, Writing
  <2>2. CASE ~Writing("kto")
    <3>1. Alike(Kto, facility, facility')
      BY <1>1 DEF Alike, tables
    <3> QED
      BY <1>0, <1>1, <1>7, <2>2, <3>1, ListStays DEF tables, past
  <2> QED
    BY <2>1, <2>2
<1>16. LinksOK'
  <2>1. LinksAreExact'
    BY <1>1 DEF IngestInv, LinksOK, LinksAreExact, tables, past
  <2>2. PlanOK("kcisa")'
    BY <1>1, <1>5, <1>7 DEF PlanOK, tables
  <2>3. PlanOK("kto")'
    BY <1>7 DEF PlanOK, Writing
  <2> QED
    BY <1>7, <2>1, <2>2, <2>3, Distinct DEF LinksOK
<1> QED
  BY <1>7, <1>9, <1>10, <1>11, <1>12, <1>14, <1>15, <1>16 DEF IngestInv, IngestTypes

\* What is put into a load's rows replaces what it sees of one row.
LEMMA PutSeen ==
    ASSUME NEW new, NEW old, NEW i \in DOMAIN old, NEW row
    PROVE  \A r \in DOMAIN old :
             Overlay(Put(new, i, row), old)[r] = IF r = i THEN row ELSE Overlay(new, old)[r]
BY DEF Put, Overlay

LEMMA FetchStep ==
    ASSUME IngestInv, NEW i \in Kto, NEW answered \in BOOLEAN, FetchDetail(i, answered)
    PROVE  IngestInv'
<1> DEFINE text == IF i \in Range(list) THEN listing[i].detail ELSE None
           state == IF ~answered THEN "fetch_failed" ELSE IF text = None THEN "no_data" ELSE "fetched"
           detail == IF state = "fetched" THEN text ELSE None
           old == draft["kto"]
           row == Detailed(RowsSeen("kto")[i], text)
           rows == IF state = "fetched" THEN Put(old.rows, i, row) ELSE old.rows
           rec == [stamp |-> old.records[i].stamp, shown |-> old.records[i].shown,
                   detail |-> detail, state |-> state]
           recs == [old.records EXCEPT ![i] = rec]
           seen == RowsSeen("kto")
           fac == Overlay(rows, facility)
           limit == NextMark(job["kto"].watermark, watermark)
<1>0. IngestTypes /\ SourceOK /\ TablesOK /\ DraftOK /\ JobsOK /\ TablesTold
  BY DEF IngestInv, IngestTypes
<1>1. /\ job["kto"].pc = "details" /\ i \in job["kto"].asked
      /\ draft' = [draft EXCEPT !["kto"] = [rows |-> rows, records |-> recs,
                                                   brought |-> old.brought]]
      /\ job' = [job EXCEPT !["kto"].asked = @ \ {i}]
      /\ UNCHANGED <<source, tables, past>>
  BY DEF FetchDetail
<1>2. seen[i] \in Row /\ old.records \in [Kto -> Record \union {None}] /\ old.records[i] \in Record
  <2>1. seen \in [Rows -> Row \union {None}] /\ i \in Rows
    BY <1>0, SeenRows, Distinct
  <2>2. seen[i] # None /\ old.records[i] # None
    BY <1>1 DEF IngestInv, AskedOK
  <2> QED
    BY <1>0, <1>1, <2>1, <2>2 DEF DraftOK, Writing
<1>3. state = "fetched" => text \in Texts
  BY <1>0, ConstantsAssumption DEF SourceOK, Item
<1>4. state = "fetched" =>
        /\ row \in Row /\ row # None /\ row.stamp = seen[i].stamp /\ row.pet = text
        /\ \A c \in Columns :
             \/ row.verdict[c] = None
             \/ (seen[i].pet = row.pet /\ seen[i].verdict[c] = row.verdict[c])
  BY <1>2, <1>3, DetailedRow
<1>5. rec \in Record /\ rec # None
  <2>1. state \in {"fetched", "no_data", "fetch_failed"} /\ detail \in Texts \union {None}
    BY <1>3
  <2>2. old.records[i].stamp \in Nat /\ old.records[i].shown \in BOOLEAN
    BY <1>2 DEF Record
  <2> HIDE DEF state, detail, old
  <2>3. rec \in Record
    BY <2>1, <2>2 DEF Record
  <2> QED
    BY <2>3, RowsAssumption
<1>6. /\ rec.stamp = old.records[i].stamp /\ rec.shown = old.records[i].shown
      /\ rec.state = state /\ rec.detail = detail
  OBVIOUS
<1>7. PartOf(rows, Kto, Row \union {None}) /\ Kept(rows, facility)
  <2>1. PartOf(old.rows, Kto, Row \union {None}) /\ Kept(old.rows, facility)
    BY <1>0, Distinct DEF DraftOK, Mine, IngestInv, VerdictsOK
  <2>2. CASE state # "fetched"
    BY <2>1, <2>2
  <2>3. CASE state = "fetched"
    <3>1. /\ DOMAIN rows = DOMAIN old.rows \union {i}
          /\ rows[i] = row
          /\ \A r \in DOMAIN old.rows \ {i} : rows[r] = old.rows[r]
      BY <2>3 DEF Put
    <3>2. seen[i] = IF i \in DOMAIN old.rows THEN old.rows[i] ELSE facility[i]
      BY <1>0, SeenRows, Distinct
    <3> HIDE DEF rows, row, old, seen, state, text
    <3>3. PartOf(rows, Kto, Row \union {None})
      BY <1>4, <2>1, <2>3, <3>1 DEF PartOf
    <3>4. \A c \in Columns :
             \/ row.verdict[c] = None
             \/ (facility[i] # None /\ facility[i].pet = row.pet /\ facility[i].verdict[c] = row.verdict[c])
      <4>1. CASE i \in DOMAIN old.rows
        BY <1>2, <1>4, <2>1, <2>3, <3>2, <4>1, RowsAssumption DEF Kept
      <4>2. CASE i \notin DOMAIN old.rows
        BY <1>2, <1>4, <2>3, <3>2, <4>2, RowsAssumption
      <4> QED
        BY <4>1, <4>2
    <3>5. Kept(rows, facility)
      BY <2>1, <3>1, <3>4 DEF Kept
    <3> QED
      BY <3>3, <3>5
  <2> QED
    BY <2>2, <2>3
<1>8. /\ recs \in [Kto -> Record \union {None}] /\ recs[i] = rec
      /\ \A k \in Kto \ {i} : recs[k] = old.records[k]
  BY <1>2, <1>5
<1>9. \A r \in Rows : fac[r] = IF state = "fetched" /\ r = i THEN row ELSE seen[r]
  <2>1. DOMAIN facility = Rows /\ i \in Rows
    BY <1>0, Distinct DEF TablesOK
  <2> QED
    BY <2>1, PutSeen DEF RowsSeen
<1>10. /\ Follows(old.records, seen, Late) /\ Recent(old.records, listing)
       /\ Marked(limit, seen, listing, Range(list), Late \union behind)
  BY <1>1 DEF IngestInv, DraftTold, Writing
<1> HIDE DEF rows, row, state, text, detail, rec, recs, old, seen, fac, limit
<1>11. /\ Follows(recs, fac, Late) /\ Recent(recs, listing)
       /\ Marked(limit, fac, listing, Range(list), Late \union behind)
  <2>1. \A k \in Kto : /\ fac[k] = None <=> seen[k] = None
                       /\ fac[k] # None => fac[k].stamp = seen[k].stamp
                       /\ k # i => fac[k] = seen[k]
    BY <1>2, <1>4, <1>9, Distinct, RowsAssumption
  <2>2. Follows(recs, fac, Late)
    <3> SUFFICES ASSUME NEW k \in Kto, recs[k] # None
                 PROVE  /\ recs[k].shown /\ k \notin Late => fac[k] # None /\ fac[k].stamp = recs[k].stamp
                        /\ recs[k].state = "fetched" =>
                             /\ recs[k].shown => fac[k] # None
                             /\ fac[k] # None => fac[k].pet = recs[k].detail
      BY DEF Follows
    <3>1. CASE k = i
      <4>1. recs[k].shown /\ k \notin Late => fac[k] # None /\ fac[k].stamp = recs[k].stamp
        BY <1>2, <1>6, <1>8, <1>10, <2>1, <3>1, RowsAssumption DEF Follows
      <4>2. recs[k].state = "fetched" => fac[k] # None /\ fac[k].pet = recs[k].detail
        BY <1>4, <1>6, <1>8, <1>9, <3>1, Distinct DEF detail
      <4> QED
        BY <4>1, <4>2
    <3>2. CASE k # i
      BY <1>8, <1>10, <2>1, <3>2 DEF Follows
    <3> QED
      BY <3>1, <3>2
  <2>3. Recent(recs, listing)
    <3> SUFFICES ASSUME NEW k \in Kto, recs[k] # None PROVE IsPast(recs[k], listing[k])
      BY DEF Recent
    <3>1. old.records[k] # None /\ recs[k].stamp = old.records[k].stamp
          /\ recs[k].shown = old.records[k].shown
      BY <1>2, <1>6, <1>8, RowsAssumption
    <3> QED
      BY <1>10, <3>1 DEF Recent, IsPast
  <2>4. Marked(limit, fac, listing, Range(list), Late \union behind)
    <3>1. Range(list) \subseteq Kto
      BY <1>0, ListedItems
    <3> QED
      BY <1>10, <2>1, <3>1 DEF Marked, IsStored
  <2> QED
    BY <2>2, <2>3, <2>4
<1>12. /\ job["kto"] \in Detailing /\ job'["kto"] = [job["kto"] EXCEPT !.asked = job["kto"].asked \ {i}]
       /\ DOMAIN job' = Jobs /\ \A k \in Jobs \ {"kto"} : job'[k] = job[k]
  BY <1>0, <1>1, Distinct DEF JobsOK, Loading, Idle, Relinking, Committing, Listening
<1>13. /\ job'["kto"] \in Detailing /\ job'["kto"].pc = "details"
       /\ job'["kto"].asked = job["kto"].asked \ {i}
       /\ job'["kto"].watermark = job["kto"].watermark /\ job'["kto"].crossing = job["kto"].crossing
  BY <1>12 DEF Detailing
<1>14. /\ draft'["kto"].rows = rows /\ draft'["kto"].records = recs
       /\ draft'["kto"].brought = draft["kto"].brought
       /\ draft'["kcisa"] = draft["kcisa"] /\ DOMAIN draft' = Loads
  BY <1>0, <1>1, Distinct DEF DraftOK, old
<1>15. SourceOK' /\ TablesOK' /\ TablesTold'
  BY <1>0, <1>1 DEF SourceOK, TablesOK, TablesTold, source, tables, past
<1>16. DerivesOK'
  BY <1>0, <1>1, <1>12, Distinct DEF IngestTypes, DerivesOK, Stored, tables
<1>17. JobsOK'
  BY <1>0, <1>12, <1>13, Distinct DEF JobsOK, Loading
<1>18. DraftOK'
  BY <1>0, <1>7, <1>8, <1>14, Distinct DEF DraftOK, Mine
<1>19. VerdictsOK'
  BY <1>1, <1>7, <1>14, Distinct DEF IngestInv, VerdictsOK, tables
<1>20. RowsSeen("kto")' = fac /\ Late' = Late
  BY <1>1, <1>14 DEF RowsSeen, tables, fac, Late, past
<1>21. DraftTold' /\ ListOK'
  BY <1>1, <1>11, <1>13, <1>14, <1>20 DEF DraftTold, ListOK, source, tables, limit
<1>22. AskedOK'
  <2>1. \A k \in job["kto"].asked \ {i} : k \in Kto /\ seen[k] # None /\ old.records[k] # None
    BY <1>1, <1>12 DEF IngestInv, AskedOK, Detailing, seen, old
  <2>2. \A k \in job["kto"].asked \ {i} : fac[k] # None /\ recs[k] # None
    BY <1>8, <1>9, <2>1, Distinct
  <2> QED
    BY <1>13, <1>14, <1>20, <2>2 DEF AskedOK
<1>23. LinksOK'
  <2>1. LinksAreExact'
    BY <1>1 DEF IngestInv, LinksOK, LinksAreExact, tables, past
  <2>2. Alone'
    BY <1>1, <1>12, <1>13, Distinct DEF IngestInv, LinksOK, Alone, Writing
  <2>3. PlanOK("kto")'
    BY <1>13 DEF PlanOK
  <2>4. PlanOK("kcisa")'
    BY <1>1, <1>12, <1>14, Distinct DEF IngestInv, LinksOK, PlanOK, RowsSeen, tables
  <2> QED
    BY <2>1, <2>2, <2>3, <2>4, Distinct DEF LinksOK
<1> QED
  BY <1>15, <1>16, <1>17, <1>18, <1>19, <1>21, <1>22, <1>23 DEF IngestInv, IngestTypes

LEMMA ListSame ==
    ASSUME IngestInv, UNCHANGED <<source, tables, draft, past>>, job'["kto"] = job["kto"]
    PROVE  ListOK'
<1>1. Alike(Kto, facility, facility')
  BY DEF Alike, tables
<1> QED
  BY <1>1, ListStays DEF IngestInv, IngestTypes, tables, past

LEMMA StartRelinkStep ==
    ASSUME IngestInv, StartRelink
    PROVE  IngestInv'
<1> DEFINE next == [pc |-> "relink", seen |-> links, watermark |-> job["kto"].watermark,
                    crossing |-> job["kto"].crossing]
<1>0. JobsOK /\ DerivesOK /\ TablesOK
  BY DEF IngestInv, IngestTypes
<1>1. /\ job["kto"].pc = "details" /\ job' = [job EXCEPT !["kto"] = next]
      /\ UNCHANGED <<source, tables, draft, past>>
  BY DEF StartRelink
<1>2. job["kto"] \in Detailing
  BY <1>0, <1>1, Distinct DEF JobsOK, Loading, Idle, Relinking, Committing, Listening
<1>3. next \in Relinking /\ next.pc = "relink" /\ next.seen = links
      /\ next.watermark = job["kto"].watermark /\ next.crossing = job["kto"].crossing
  BY <1>0, <1>2 DEF Detailing, Relinking, TablesOK
<1> HIDE DEF next
<1>4. /\ job'["kto"] = next /\ DOMAIN job' = Jobs /\ \A k \in Jobs \ {"kto"} : job'[k] = job[k]
  BY <1>0, <1>1, Distinct DEF JobsOK
<1>5. JobsOK'
  BY <1>0, <1>3, <1>4, Distinct DEF JobsOK, Loading
<1>6. DerivesOK'
  BY <1>0, <1>1, <1>4, Distinct DEF DerivesOK, Stored, tables
<1>7. \A j \in Loads : PlanOK(j)'
  BY <1>1, <1>3, <1>4, Distinct DEF IngestInv, LinksOK, PlanOK, RowsSeen, tables
<1>8. \A j \in Loads :
              /\ Writing(j)' <=> Writing(j)
              /\ Writing(j) => job'[j].crossing = job[j].crossing /\ job'[j].watermark = job[j].watermark
              /\ job'[j].pc = "details" => job'[j] = job[j]
  BY <1>1, <1>3, <1>4, Distinct DEF Writing
<1>9. ListOK'
  BY <1>3, <1>4 DEF ListOK
<1> QED
  BY <1>1, <1>5, <1>6, <1>7, <1>8, <1>9, JobMoves

LEMMA RelinkStep ==
    ASSUME IngestInv, NEW j \in Loads, Relink(j)
    PROVE  IngestInv'
<1> DEFINE next == [pc |-> "commit", removed |-> Removed(j) \intersect links,
                    linked |-> Matches(RowsSeen(j)),
                    watermark |-> job[j].watermark, crossing |-> job[j].crossing]
<1>0. JobsOK /\ DerivesOK /\ TablesOK
  BY DEF IngestInv, IngestTypes
<1>1. /\ job[j].pc = "relink" /\ job' = [job EXCEPT ![j] = next]
      /\ UNCHANGED <<source, tables, draft, past>>
  BY DEF Relink
<1>2. job[j] \in Relinking
  BY <1>0, <1>1, Distinct DEF JobsOK, Loading, Idle, Detailing, Committing, Listening
<1>3. Matches(RowsSeen(j)) \subseteq Kto \X Kcisa
  BY DEF Matches
<1>4. /\ next \in Committing /\ next.pc = "commit" /\ next.removed = job[j].seen \intersect links
      /\ next.linked = Matches(RowsSeen(j))
      /\ next.watermark = job[j].watermark /\ next.crossing = job[j].crossing
  BY <1>0, <1>2, <1>3 DEF Relinking, Committing, TablesOK, Removed
<1> HIDE DEF next
<1>5. /\ job'[j] = next /\ DOMAIN job' = Jobs /\ \A k \in Jobs \ {j} : job'[k] = job[k]
  BY <1>0, <1>1, Distinct DEF JobsOK
<1>6. JobsOK'
  BY <1>0, <1>1, <1>4, <1>5, Distinct DEF JobsOK, Loading
<1>7. DerivesOK'
  BY <1>0, <1>1, <1>5, Distinct DEF DerivesOK, Stored, tables
<1>8. \A k \in Loads : PlanOK(k)'
  <2>1. PlanOK(j)'
    BY <1>1, <1>4, <1>5 DEF IngestInv, LinksOK, PlanOK, RowsSeen, tables
  <2>2. \A k \in Loads \ {j} : PlanOK(k)'
    BY <1>1, <1>5, Distinct DEF IngestInv, LinksOK, PlanOK, RowsSeen, tables
  <2> QED
    BY <2>1, <2>2
<1>9. \A k \in Loads :
              /\ Writing(k)' <=> Writing(k)
              /\ Writing(k) => job'[k].crossing = job[k].crossing /\ job'[k].watermark = job[k].watermark
              /\ job'[k].pc = "details" => job'[k] = job[k]
  BY <1>1, <1>4, <1>5, Distinct DEF Writing
<1>10. ListOK'
  <2>1. CASE j = "kto"
    BY <1>4, <1>5, <2>1 DEF ListOK
  <2>2. CASE j # "kto"
    BY <1>1, <1>5, <2>2, ListSame, Distinct
  <2> QED
    BY <2>1, <2>2
<1> QED
  BY <1>1, <1>6, <1>7, <1>8, <1>9, <1>10, JobMoves


\* A commit puts what the load sees in the place of the tables.
LEMMA CommitStep ==
    ASSUME IngestInv, NEW j \in Loads, Commit(j)
    PROVE  IngestInv'
<1> DEFINE after == RowsSeen(j)
           gone == {r \in Stored : after[r] = None}
           rec == Overlay(draft[j].records, record)
           limit == NextMark(job[j].watermark, watermark)
<1>0. IngestTypes /\ SourceOK /\ TablesOK /\ DraftOK /\ JobsOK /\ DerivesOK /\ TablesTold /\ ListOK
  BY DEF IngestInv, IngestTypes
<1>1. /\ job[j].pc = "commit" /\ facility' = after /\ record' = rec /\ watermark' = limit
      /\ links' = {l \in (links \ job[j].removed) \union job[j].linked : after[l[1]] # None}
      /\ crossed' = job[j].crossing
      /\ draft' = [draft EXCEPT ![j] = Nothing]
      /\ job' = [k \in Jobs |->
                   CASE k = j -> Idle
                     [] k \in Columns /\ job[k].pc # "idle" ->
                          [pc |-> job[k].pc, redo |-> job[k].redo, passed |-> job[k].passed \ gone,
                           read |-> Restrict(job[k].read, DOMAIN job[k].read \ gone)]
                     [] OTHER -> job[k]]
      /\ overtaken' = IF j = "kto" THEN Overtaken(limit) ELSE overtaken
      /\ behind' = IF j = "kto" THEN {} ELSE behind
      /\ UNCHANGED <<listing, list>>
  BY DEF Commit, NextMark
<1>2. /\ DOMAIN job' = Jobs /\ job'[j] = Idle
      /\ \A k \in Loads \ {j} : job'[k] = job[k]
      /\ \A c \in Columns : IF job[c].pc = "idle" THEN job'[c] = job[c]
           ELSE /\ job'[c].pc = job[c].pc
                /\ job'[c].read = Restrict(job[c].read, DOMAIN job[c].read \ gone)
  <2> DEFINE rest(c) == [pc |-> job[c].pc, redo |-> job[c].redo, passed |-> job[c].passed \ gone,
                         read |-> Restrict(job[c].read, DOMAIN job[c].read \ gone)]
  <2>1. job' = [k \in Jobs |-> CASE k = j -> Idle
                                 [] k \in Columns /\ job[k].pc # "idle" -> rest(k)
                                 [] OTHER -> job[k]]
    BY <1>1
  <2>2. \A c \in Columns :
          /\ rest(c).pc = job[c].pc
          /\ rest(c).read = Restrict(job[c].read, DOMAIN job[c].read \ gone)
    OBVIOUS
  <2> HIDE DEF rest
  <2>3. \A c \in Columns : c # j /\ c \in Jobs
    BY Distinct
  <2>4. \A c \in Columns : job'[c] = IF job[c].pc # "idle" THEN rest(c) ELSE job[c]
    BY <2>1, <2>3
  <2>5. DOMAIN job' = Jobs /\ job'[j] = Idle /\ \A k \in Loads \ {j} : job'[k] = job[k]
    BY <2>1, Distinct
  <2> QED
    BY <2>2, <2>4, <2>5
<1>3. /\ after \in [Rows -> Row \union {None}]
      /\ \A r \in Rows : after[r] = IF r \in DOMAIN draft[j].rows THEN draft[j].rows[r] ELSE facility[r]
  BY <1>0, SeenRows
<1>4. /\ draft'[j] = Nothing /\ DOMAIN draft' = Loads
      /\ \A k \in Loads \ {j} : draft'[k] = draft[k]
  BY <1>0, <1>1 DEF DraftOK
<1>5. /\ Nothing.rows = <<>> /\ Nothing.records = <<>>
      /\ \A x : x \notin DOMAIN <<>>
  BY DEF Nothing
<1>6. \A k \in Loads \ {j} : \A r \in Mine(k) : r \in Rows /\ after[r] = facility[r]
  BY <1>0, <1>3, Distinct DEF DraftOK, PartOf, Mine
<1>7. job[j] \in Committing
  BY <1>0, <1>1, Distinct DEF JobsOK, Loading, Idle, Detailing, Relinking, Listening
<1>8. limit \in Nat \union {None}
  BY <1>0, <1>7 DEF NextMark, TablesOK, Committing
<1>9. /\ j = "kto" => rec = draft[j].records
      /\ j = "kcisa" => rec = record
  <2>1. CASE j = "kto"
    <3>1. draft[j].records \in [Kto -> Record \union {None}] /\ record \in [Kto -> Record \union {None}]
      BY <1>0, <1>1, <2>1 DEF DraftOK, TablesOK, Writing
    <3> HIDE DEF rec
    <3>2. rec \in [Kto -> Record \union {None}] /\ \A i \in Kto : rec[i] = draft[j].records[i]
      BY <3>1 DEF Overlay, rec
    <3> QED
      BY <2>1, <3>1, <3>2
  <2>2. CASE j = "kcisa"
    <3>1. draft[j].records = <<>> /\ record \in [Kto -> Record \union {None}]
      BY <1>0, <2>2 DEF DraftOK, TablesOK
    <3>2. rec = [i \in Kto |-> record[i]]
      BY <1>5, <3>1 DEF Overlay
    <3> QED
      BY <2>2, <3>1, <3>2
  <2> QED
    BY <2>1, <2>2, Distinct
<1> HIDE DEF after, gone, rec, limit
<1>10. SourceOK'
  BY <1>0, <1>1 DEF SourceOK
<1>11. TablesOK'
  <2>1. rec \in [Kto -> Record \union {None}]
    BY <1>0, <1>1, <1>9, Distinct DEF DraftOK, TablesOK, Writing
  <2>2. links' \subseteq Kto \X Kcisa
    BY <1>0, <1>1, <1>7 DEF TablesOK, Committing
  <2> QED
    BY <1>1, <1>3, <1>8, <2>1, <2>2 DEF TablesOK
<1>12. DerivesOK'
  <2> SUFFICES ASSUME NEW c \in Columns
               PROVE  /\ job'[c].pc \in {"idle", "scan", "update"}
                      /\ job'[c].pc = "update" => PartOf(job'[c].read, Stored', Texts \union {Empty})
    BY DEF DerivesOK
  <2>1. job'[c].pc = job[c].pc
    BY <1>2
  <2>2. ASSUME job[c].pc = "update"
        PROVE  PartOf(job'[c].read, Stored', Texts \union {Empty})
    <3>1. PartOf(job[c].read, Stored, Texts \union {Empty})
      BY <1>0, <2>2 DEF DerivesOK
    <3>2. job'[c].read = [r \in DOMAIN job[c].read \ gone |-> job[c].read[r]]
      BY <1>2, <2>2 DEF Restrict
    <3>3. Stored \ gone \subseteq Stored'
      BY <1>1 DEF Stored, gone
    <3> QED
      BY <3>1, <3>2, <3>3 DEF PartOf
  <2> QED
    BY <1>0, <2>1, <2>2 DEF DerivesOK
<1>13. JobsOK'
  BY <1>0, <1>2, Distinct DEF JobsOK, Loading, Idle
<1>14. DraftOK'
  <2>1. \A k \in Loads : PartOf(draft'[k].rows, Mine(k), Row \union {None})
    BY <1>0, <1>4, <1>5 DEF DraftOK, PartOf
  <2>2. draft'["kcisa"].records = <<>>
    BY <1>0, <1>4, <1>5, Distinct DEF DraftOK
  <2>3. Writing("kto")' => draft'["kto"].records \in [Kto -> Record \union {None}]
    BY <1>0, <1>2, <1>4, Distinct DEF DraftOK, Idle, Writing
  <2> QED
    BY <1>4, <2>1, <2>2, <2>3 DEF DraftOK
<1>15. VerdictsOK'
  <2>1. \A x : x \notin DOMAIN draft'[j].rows
    BY <1>4, <1>5
  <2>2. ASSUME NEW k \in Loads \ {j}
        PROVE  Kept(draft'[k].rows, facility')
    <3>1. Kept(draft[k].rows, facility) /\ DOMAIN draft[k].rows \subseteq Mine(k)
      BY <1>0 DEF IngestInv, VerdictsOK, DraftOK, PartOf
    <3>2. \A r \in DOMAIN draft[k].rows : facility'[r] = facility[r]
      BY <1>1, <1>6, <3>1
    <3> QED
      BY <1>4, <3>1, <3>2 DEF Kept
  <2> QED
    BY <2>1, <2>2 DEF VerdictsOK, Kept
<1>16. ASSUME j = "kcisa"
       PROVE  /\ limit = watermark /\ rec = record /\ overtaken' = overtaken /\ behind' = behind
              /\ draft'["kto"] = draft["kto"] /\ job'["kto"] = job["kto"]
              /\ Alike(Kto, facility, facility')
  <2>1. limit = watermark
    BY <1>0, <1>1, <1>16 DEF JobsOK, NextMark, limit
  <2>2. Alike(Kto, facility, after)
    BY <1>6, <1>16, Distinct DEF Alike, Mine
  <2> QED
    BY <1>1, <1>2, <1>4, <1>9, <1>16, <2>1, <2>2, Distinct
<1>17. TablesTold'
  <2>1. CASE j = "kto"
    <3>1. /\ Follows(rec, after, Late) /\ Recent(rec, listing)
          /\ Marked(limit, after, listing, Range(list), Late \union behind)
      BY <1>1, <1>9, <2>1 DEF IngestInv, DraftTold, Writing, after, limit
    <3>2. /\ Late \subseteq overtaken'
          /\ \A i \in behind \ overtaken' : limit = None \/ ~(listing[i].stamp <= limit)
      BY <1>1, <2>1 DEF Overtaken, Late
    <3>3. Follows(rec, after, overtaken')
      BY <3>1, <3>2 DEF Follows
    <3>4. Marked(limit, after, listing, Range(list), overtaken')
      BY <3>1, <3>2 DEF Marked
    <3> QED
      BY <1>1, <3>1, <3>3, <3>4 DEF TablesTold
  <2>2. CASE j = "kcisa"
    <3>1. Range(list) \subseteq Kto
      BY <1>0, ListedItems
    <3>2. /\ Follows(record, facility', overtaken) /\ Recent(record, listing)
          /\ Marked(watermark, facility', listing, Range(list), overtaken)
      BY <1>0, <1>16, <2>2, <3>1, AlikeFollows, AlikeMarked DEF TablesTold
    <3> QED
      BY <1>1, <1>16, <2>2, <3>2 DEF TablesTold
  <2> QED
    BY <2>1, <2>2, Distinct
<1>18. DraftTold' /\ ListOK' /\ AskedOK'
  <2>1. CASE j = "kto"
    BY <1>2, <2>1 DEF DraftTold, ListOK, AskedOK, Idle, Writing
  <2>2. CASE j = "kcisa"
    <3>1. RowsSeen("kto")' = Overlay(draft["kto"].rows, facility')
      BY <1>16, <2>2 DEF RowsSeen
    <3>2. Alike(Kto, RowsSeen("kto"), RowsSeen("kto")')
      <4>1. Kto \subseteq DOMAIN facility /\ Kto \subseteq DOMAIN facility'
        BY <1>0, <1>11, Distinct DEF TablesOK
      <4> QED
        BY <1>16, <2>2, <3>1, <4>1, AlikeOverlay DEF RowsSeen
    <3>3. DraftTold'
      <4> DEFINE reached == NextMark(job["kto"].watermark, watermark)
      <4> SUFFICES ASSUME Writing("kto")
                   PROVE  /\ Follows(draft["kto"].records, RowsSeen("kto")', Late)
                          /\ Recent(draft["kto"].records, listing)
                          /\ Marked(reached, RowsSeen("kto")', listing, Range(list), Late \union behind)
        BY <1>1, <1>16, <2>2 DEF DraftTold, Writing, Late
      <4>1. /\ Follows(draft["kto"].records, RowsSeen("kto"), Late)
            /\ Recent(draft["kto"].records, listing)
            /\ Marked(reached, RowsSeen("kto"), listing, Range(list), Late \union behind)
        BY DEF IngestInv, DraftTold
      <4>2. Range(list) \subseteq Kto
        BY <1>0, ListedItems
      <4> QED
        BY <3>2, <4>1, <4>2, AlikeFollows, AlikeMarked
    <3>4. ListOK'
      BY <1>0, <1>1, <1>16, <2>2, ListStays DEF source
    <3>5. AskedOK'
      <4>1. job["kto"].pc = "details" => job["kto"].asked \subseteq Kto
        BY <1>0, Distinct DEF JobsOK, Loading, Idle, Detailing, Relinking, Committing, Listening
      <4> QED
        BY <1>16, <2>2, <3>2, <4>1 DEF IngestInv, AskedOK, Alike
    <3> QED
      BY <3>3, <3>4, <3>5
  <2> QED
    BY <2>1, <2>2, Distinct
<1>19. LinksOK'
  <2>1. LinksAreExact'
    <3> SUFFICES ASSUME ~crossed' PROVE links' = Matches(facility')
      BY DEF LinksAreExact
    <3>1. job[j].removed = links /\ job[j].linked = Matches(after)
      BY <1>1 DEF IngestInv, LinksOK, PlanOK, after
    <3>2. links' = {l \in Matches(after) : after[l[1]] # None}
      BY <1>1, <3>1
    <3> QED
      BY <1>1, <3>2, MatchesAreStored
  <2>2. Alone'
    BY <1>2, Distinct DEF IngestInv, LinksOK, Alone, Idle, Writing
  <2>3. \A k \in Loads : PlanOK(k)'
    <3>1. PlanOK(j)'
      BY <1>2 DEF PlanOK, Idle
    <3>2. ASSUME NEW k \in Loads \ {j} PROVE PlanOK(k)'
      BY <1>1, <1>2, <3>2 DEF IngestInv, LinksOK, Alone, PlanOK, Writing
    <3> QED
      BY <3>1, <3>2
  <2> QED
    BY <2>1, <2>2, <2>3 DEF LinksOK
<1> QED
  BY <1>10, <1>11, <1>12, <1>13, <1>14, <1>15, <1>17, <1>18, <1>19 DEF IngestInv, IngestTypes


------------------------------------------------------------------------------
\* The steps of the derivations, and the end of a job

\* A derivation moves no load.
LEMMA DeriveMoves ==
    ASSUME IngestInv, NEW c \in Columns, NEW next, job' = [job EXCEPT ![c] = next],
           next.pc \in {"idle", "scan", "update"},
           next.pc = "update" => PartOf(next.read, Stored, Texts \union {Empty}),
           UNCHANGED <<source, tables, draft, past>>
    PROVE  IngestInv'
<1>0. JobsOK /\ DerivesOK
  BY DEF IngestInv, IngestTypes
<1>1. /\ DOMAIN job' = Jobs /\ job'[c] = next
      /\ \A k \in Jobs \ {c} : job'[k] = job[k]
      /\ \A j \in Loads : job'[j] = job[j]
  BY <1>0, Distinct DEF JobsOK
<1>2. Stored' = Stored
  BY DEF Stored, tables
<1>3. DerivesOK'
  BY <1>0, <1>1, <1>2, Distinct DEF DerivesOK
<1>4. JobsOK'
  BY <1>0, <1>1, Distinct DEF JobsOK
<1>5. \A j \in Loads : PlanOK(j)'
  BY <1>1 DEF IngestInv, LinksOK, PlanOK, RowsSeen, tables
<1>6. ListOK'
  BY <1>1, ListSame, Distinct
<1> QED
  BY <1>1, <1>3, <1>4, <1>5, <1>6, JobMoves DEF Writing

LEMMA StartDeriveStep ==
    ASSUME IngestInv, NEW c \in Columns, NEW redo \in BOOLEAN, StartDerive(c, redo)
    PROVE  IngestInv'
<1> DEFINE next == [pc |-> "scan", redo |-> redo, passed |-> {}, read |-> <<>>]
<1>1. job' = [job EXCEPT ![c] = next] /\ UNCHANGED <<source, tables, draft, past>>
  BY DEF StartDerive
<1>2. next.pc = "scan"
  OBVIOUS
<1> HIDE DEF next
<1> QED
  BY <1>1, <1>2, DeriveMoves

\* A batch is of rows that are stored.
LEMMA SelectStep ==
    ASSUME IngestInv, NEW c \in Columns, SelectBatch(c)
    PROVE  IngestInv'
<1> DEFINE found == {n \in DOMAIN ids : ids[n] \in Pending(c)}
           batch == {n \in found : Cardinality({m \in found : m < n}) < Batch}
           passed == {n \in DOMAIN ids : \E last \in batch : n <= last}
           read == [r \in {ids[n] : n \in batch} |-> facility[r].pet]
           next == IF batch = {} THEN Idle
                   ELSE [pc |-> "update", redo |-> job[c].redo,
                         passed |-> job[c].passed \union {ids[n] : n \in passed}, read |-> read]
<1>1. job' = [job EXCEPT ![c] = next] /\ UNCHANGED <<source, tables, draft, past>>
  BY DEF SelectBatch
<1>2. PartOf(read, Stored, Texts \union {Empty})
  <2>1. DOMAIN read \subseteq Stored
    BY DEF Pending
  <2>2. \A r \in Stored : facility[r] \in Row
    BY DEF IngestInv, IngestTypes, TablesOK, Stored
  <2>3. \A r \in DOMAIN read : read[r] = facility[r].pet
    OBVIOUS
  <2> HIDE DEF read
  <2> QED
    BY <2>1, <2>2, <2>3 DEF PartOf, Row
<1>3. \/ next = Idle
      \/ next.pc = "update" /\ next.read = read
  OBVIOUS
<1> HIDE DEF next, read
<1> QED
  BY <1>1, <1>2, <1>3, DeriveMoves DEF Idle

\* A verdict changes nothing of a row but itself, and of no row a load has written.
LEMMA UpdatedRows ==
    ASSUME IngestInv, NEW c \in Columns, UpdateBatch(c)
    PROVE  /\ facility' \in [Rows -> Row \union {None}]
           /\ Alike(Rows, facility, facility')
           /\ \A j \in Loads : \A r \in DOMAIN draft[j].rows : facility'[r] = facility[r]
           /\ \A r \in Rows : facility'[r] # facility[r] =>
                /\ r \in DOMAIN job[c].read /\ facility[r] # None
                /\ \A k \in Columns :
                     facility'[r].verdict[k] =
                       IF k = c THEN Verdict(c, job[c].read[r]) ELSE facility[r].verdict[k]
<1> DEFINE read == job[c].read
<1>0. IngestTypes /\ TablesOK /\ DerivesOK /\ DraftOK
  BY DEF IngestInv, IngestTypes
<1>1. /\ job[c].pc = "update" /\ \A r \in DOMAIN read : ~Locked(r)
      /\ facility' = [r \in Rows |-> IF r \in DOMAIN read
                         THEN [facility[r] EXCEPT !.verdict[c] = Verdict(c, read[r])]
                         ELSE facility[r]]
  BY DEF UpdateBatch
<1>2. PartOf(read, Stored, Texts \union {Empty})
  BY <1>0, <1>1 DEF DerivesOK
<1>3. ASSUME NEW r \in Rows, r \in DOMAIN read
      PROVE  /\ facility[r] \in Row /\ facility[r] # None
             /\ facility'[r] \in Row /\ facility'[r] # None
             /\ facility'[r].stamp = facility[r].stamp /\ facility'[r].pet = facility[r].pet
             /\ \A k \in Columns :
                  facility'[r].verdict[k] =
                    IF k = c THEN Verdict(c, read[r]) ELSE facility[r].verdict[k]
  <2>1. facility[r] \in Row /\ facility[r] # None
    BY <1>0, <1>2, <1>3 DEF TablesOK, Stored, PartOf
  <2>2. Verdict(c, read[r]) \in Texts \union {Empty, None}
    BY <1>2, <1>3 DEF Verdict, PartOf
  <2>3. facility'[r] = [facility[r] EXCEPT !.verdict[c] = Verdict(c, read[r])]
    BY <1>1, <1>3
  <2> DEFINE verdict == [facility[r].verdict EXCEPT ![c] = Verdict(c, read[r])]
  <2>4. facility'[r] = [facility[r] EXCEPT !.verdict = verdict]
    BY <2>3
  <2>5. verdict \in [Columns -> Texts \union {Empty, None}]
        /\ \A k \in Columns : verdict[k] = IF k = c THEN Verdict(c, read[r]) ELSE facility[r].verdict[k]
    BY <2>1, <2>2 DEF Row
  <2> HIDE DEF verdict
  <2>6. facility'[r] \in Row /\ facility'[r].stamp = facility[r].stamp
        /\ facility'[r].pet = facility[r].pet /\ facility'[r].verdict = verdict
    BY <2>1, <2>4, <2>5 DEF Row
  <2> QED
    BY <2>1, <2>5, <2>6, RowsAssumption
<1>4. \A r \in Rows : r \notin DOMAIN read => facility'[r] = facility[r]
  BY <1>1
<1>5. facility' = [r \in Rows |-> facility'[r]]
  BY <1>1
<1>6. facility' \in [Rows -> Row \union {None}]
  BY <1>0, <1>3, <1>4, <1>5 DEF TablesOK
<1>7. \A j \in Loads : \A r \in DOMAIN draft[j].rows : r \in Rows /\ r \notin DOMAIN read
  BY <1>0, <1>1, Distinct DEF Locked, DraftOK, PartOf, Mine
<1> HIDE DEF read
<1>8. Alike(Rows, facility, facility')
  BY <1>3, <1>4 DEF Alike
<1> QED
  BY <1>3, <1>4, <1>6, <1>7, <1>8 DEF read

LEMMA UpdateStep ==
    ASSUME IngestInv, NEW c \in Columns, UpdateBatch(c)
    PROVE  IngestInv'
<1> DEFINE next == [pc |-> "scan", redo |-> job[c].redo, passed |-> job[c].passed, read |-> <<>>]
<1>0. IngestTypes /\ SourceOK /\ TablesOK /\ DraftOK /\ JobsOK /\ DerivesOK /\ TablesTold /\ ListOK
  BY DEF IngestInv, IngestTypes
<1>1. /\ job' = [job EXCEPT ![c] = next]
      /\ UNCHANGED <<source, ids, record, links, watermark, draft, past>>
  BY DEF UpdateBatch
<1>2. next.pc = "scan"
  OBVIOUS
<1> HIDE DEF next
<1>3. /\ DOMAIN job' = Jobs /\ job'[c] = next
      /\ \A k \in Jobs \ {c} : job'[k] = job[k]
      /\ \A j \in Loads : job'[j] = job[j]
  BY <1>0, <1>1, Distinct DEF JobsOK
<1>4. /\ facility' \in [Rows -> Row \union {None}]
      /\ Alike(Rows, facility, facility')
      /\ \A j \in Loads : \A r \in DOMAIN draft[j].rows : facility'[r] = facility[r]
  BY UpdatedRows
<1>5. Alike(Kto, facility, facility')
  BY <1>4, Distinct DEF Alike
<1>6. \A j \in Loads : Alike(Rows, RowsSeen(j), RowsSeen(j)')
  <2> TAKE j \in Loads
  <2>1. DOMAIN facility = Rows /\ DOMAIN facility' = Rows
    BY <1>0, <1>4 DEF TablesOK
  <2>2. RowsSeen(j)' = Overlay(draft[j].rows, facility')
    BY <1>1 DEF RowsSeen
  <2> QED
    BY <1>4, <2>1, <2>2, AlikeOverlay DEF RowsSeen
<1>7. SourceOK' /\ TablesOK' /\ DraftOK'
  BY <1>0, <1>1, <1>3, <1>4, Distinct DEF SourceOK, TablesOK, DraftOK, Writing, source
<1>8. DerivesOK'
  <2>1. Stored' = Stored
    BY <1>4 DEF Stored, Alike
  <2> QED
    BY <1>0, <1>2, <1>3, <2>1, Distinct DEF DerivesOK
<1>9. JobsOK'
  BY <1>0, <1>3, Distinct DEF JobsOK
<1>10. VerdictsOK'
  BY <1>1, <1>4 DEF IngestInv, VerdictsOK, Kept
<1>11. TablesTold' /\ ListOK'
  <2>1. Range(list) \subseteq Kto
    BY <1>0, ListedItems
  <2>2. /\ Follows(record, facility', overtaken) /\ Recent(record, listing)
        /\ Marked(watermark, facility', listing, Range(list), overtaken)
    BY <1>0, <1>5, <2>1, AlikeFollows, AlikeMarked DEF TablesTold
  <2>3. TablesTold'
    BY <1>1, <2>2 DEF TablesTold, source, past
  <2>4. ListOK'
    BY <1>0, <1>1, <1>3, <1>5, ListStays, Distinct DEF past
  <2> QED
    BY <2>3, <2>4
<1>12. DraftTold' /\ AskedOK'
  <2>1. Alike(Kto, RowsSeen("kto"), RowsSeen("kto")')
    BY <1>6, Distinct DEF Alike
  <2>2. job'["kto"] = job["kto"] /\ draft' = draft
    BY <1>1, <1>3, Distinct
  <2>3. DraftTold'
    <3> DEFINE reached == NextMark(job["kto"].watermark, watermark)
    <3> SUFFICES ASSUME Writing("kto")
                 PROVE  /\ Follows(draft["kto"].records, RowsSeen("kto")', Late)
                        /\ Recent(draft["kto"].records, listing)
                        /\ Marked(reached, RowsSeen("kto")', listing, Range(list), Late \union behind)
      BY <1>1, <2>2 DEF DraftTold, Writing, Late, source, past
    <3>1. /\ Follows(draft["kto"].records, RowsSeen("kto"), Late)
          /\ Recent(draft["kto"].records, listing)
          /\ Marked(reached, RowsSeen("kto"), listing, Range(list), Late \union behind)
      BY DEF IngestInv, DraftTold
    <3>2. Range(list) \subseteq Kto
      BY <1>0, ListedItems
    <3> QED
      BY <2>1, <3>1, <3>2, AlikeFollows, AlikeMarked
  <2>4. job["kto"].pc = "details" => job["kto"].asked \subseteq Kto
    BY <1>0, Distinct DEF JobsOK, Loading, Idle, Detailing, Relinking, Committing, Listening
  <2>5. AskedOK'
    BY <2>1, <2>2, <2>4 DEF IngestInv, AskedOK, Alike
  <2> QED
    BY <2>3, <2>5
<1>13. LinksOK'
  <2>1. Matches(facility') = Matches(facility)
    BY <1>4, AlikeMatches
  <2>2. \A j \in Loads : Matches(RowsSeen(j)') = Matches(RowsSeen(j))
    BY <1>6, AlikeMatches
  <2>3. LinksAreExact'
    BY <1>1, <2>1 DEF IngestInv, LinksOK, LinksAreExact, past
  <2>4. Alone' /\ \A j \in Loads : PlanOK(j)'
    BY <1>1, <1>3, <2>2 DEF IngestInv, LinksOK, Alone, PlanOK, Writing
  <2> QED
    BY <2>3, <2>4 DEF LinksOK
<1> QED
  BY <1>7, <1>8, <1>9, <1>10, <1>11, <1>12, <1>13 DEF IngestInv, IngestTypes

LEMMA CrashStep ==
    ASSUME IngestInv, NEW j \in Jobs, Crash(j)
    PROVE  IngestInv'
<1>0. IngestTypes /\ SourceOK /\ TablesOK /\ DraftOK /\ JobsOK /\ DerivesOK /\ TablesTold /\ ListOK
  BY DEF IngestInv, IngestTypes
<1>1. /\ job' = [job EXCEPT ![j] = Idle]
      /\ draft' = IF j \in Loads THEN [draft EXCEPT ![j] = Nothing] ELSE draft
      /\ behind' = IF j = "kto" THEN {} ELSE behind
      /\ UNCHANGED <<listing, list, tables, past>>
  BY DEF Crash
<1>2. Idle.pc = "idle"
  BY DEF Idle
<1>3. CASE j \in Columns
  <2>1. j # "kto" /\ j \notin Loads
    BY <1>3, Distinct
  <2> QED
    BY <1>1, <1>2, <1>3, <2>1, DeriveMoves DEF source
<1>4. CASE j \in Loads
  <2>1. /\ DOMAIN job' = Jobs /\ job'[j] = Idle /\ \A k \in Jobs \ {j} : job'[k] = job[k]
        /\ DOMAIN draft' = Loads /\ draft'[j] = Nothing
        /\ \A k \in Loads \ {j} : draft'[k] = draft[k]
        /\ \A c \in Columns : job'[c] = job[c]
    BY <1>0, <1>1, <1>4, Distinct DEF JobsOK, DraftOK
  <2>2. /\ Nothing.rows = <<>> /\ Nothing.records = <<>>
        /\ \A x : x \notin DOMAIN <<>>
    BY DEF Nothing
  <2>3. SourceOK' /\ TablesOK' /\ TablesTold'
    BY <1>0, <1>1 DEF SourceOK, TablesOK, TablesTold, tables, past
  <2>4. DerivesOK'
    BY <1>0, <1>1, <2>1 DEF DerivesOK, Stored, tables
  <2>5. JobsOK'
    BY <1>0, <1>2, <1>4, <2>1, Distinct DEF JobsOK, Loading
  <2>6. DraftOK'
    <3>1. \A k \in Loads : PartOf(draft'[k].rows, Mine(k), Row \union {None})
      BY <1>0, <1>4, <2>1, <2>2 DEF DraftOK, PartOf
    <3>2. draft'["kcisa"].records = <<>>
      BY <1>0, <1>4, <2>1, <2>2, Distinct DEF DraftOK
    <3>3. Writing("kto")' => draft'["kto"].records \in [Kto -> Record \union {None}]
      BY <1>0, <1>2, <1>4, <2>1, Distinct DEF DraftOK, Writing
    <3> QED
      BY <2>1, <3>1, <3>2, <3>3 DEF DraftOK
  <2>7. VerdictsOK'
    BY <1>1, <1>4, <2>1, <2>2 DEF IngestInv, VerdictsOK, Kept, tables
  <2>8. DraftTold' /\ ListOK' /\ AskedOK'
    <3>1. CASE j = "kto"
      BY <1>2, <2>1, <3>1 DEF DraftTold, ListOK, AskedOK, Writing
    <3>2. CASE j # "kto"
      <4>1. job'["kto"] = job["kto"] /\ draft'["kto"] = draft["kto"] /\ UNCHANGED source
        BY <1>1, <2>1, <3>2, Distinct DEF source
      <4>2. Alike(Kto, facility, facility')
        BY <1>1 DEF Alike, tables
      <4>3. ListOK'
        BY <1>0, <1>1, <4>1, <4>2, ListStays DEF tables, past
      <4>4. Late' = Late /\ RowsSeen("kto")' = RowsSeen("kto")
        BY <1>1, <4>1 DEF Late, RowsSeen, tables, past
      <4> QED
        BY <1>1, <4>1, <4>3, <4>4 DEF IngestInv, DraftTold, AskedOK, Writing, source, tables
    <3> QED
      BY <3>1, <3>2
  <2>9. LinksOK'
    <3>1. LinksAreExact'
      BY <1>1 DEF IngestInv, LinksOK, LinksAreExact, tables, past
    <3>2. Alone'
      BY <1>2, <2>1, Distinct DEF IngestInv, LinksOK, Alone, Writing
    <3>3. \A k \in Loads : PlanOK(k)'
      <4>1. PlanOK(j)'
        BY <1>2, <2>1 DEF PlanOK
      <4>2. \A k \in Loads \ {j} : PlanOK(k)'
        BY <1>1, <2>1, Distinct DEF IngestInv, LinksOK, PlanOK, RowsSeen, tables
      <4> QED
        BY <4>1, <4>2
    <3> QED
      BY <3>1, <3>2, <3>3 DEF LinksOK
  <2> QED
    BY <2>3, <2>4, <2>5, <2>6, <2>7, <2>8, <2>9 DEF IngestInv, IngestTypes
<1> QED
  BY <1>3, <1>4, Distinct

LEMMA IngestStep == IngestInv /\ [Next]_vars => IngestInv'
<1> SUFFICES ASSUME IngestInv, [Next]_vars PROVE IngestInv'
  OBVIOUS
<1>1. CASE SourceNext
  BY <1>1, ChangeStep, ReturnStep, LeaveStep DEF SourceNext
<1>2. CASE KtoNext
  <2>1. "kto" \in Loads /\ "kto" \in Jobs
    BY Distinct
  <2> QED
    BY <1>2, <2>1, StartKtoStep, ReadPageStep, StoreListStep, StartRelinkStep, FetchStep, RelinkStep,
       CommitStep, CrashStep DEF KtoNext
<1>3. CASE OtherNext
  <2>1. "kcisa" \in Loads /\ "kcisa" \in Jobs /\ Columns \subseteq Jobs
    BY Distinct
  <2> QED
    BY <1>3, <2>1, StartKcisaStep, RelinkStep, CommitStep, CrashStep, StartDeriveStep, SelectStep,
       UpdateStep DEF OtherNext
<1>4. CASE UNCHANGED vars
  <2>1. UNCHANGED <<source, tables, job, draft, past>>
    BY <1>4 DEF vars
  <2>2. \A j \in Loads : PlanOK(j)' <=> PlanOK(j)
    BY <2>1 DEF PlanOK, RowsSeen, tables
  <2>3. JobsOK' /\ DerivesOK'
    BY <2>1 DEF IngestInv, IngestTypes, JobsOK, DerivesOK, Stored, tables
  <2>4. ListOK'
    BY <2>1, ListSame
  <2> QED
    BY <2>1, <2>2, <2>3, <2>4, JobMoves DEF IngestInv, LinksOK, Writing
<1> QED
  BY <1>1, <1>2, <1>3, <1>4 DEF Next

LEMMA IngestAlways == Spec => []IngestInv
<1> QED
  BY TypesInit, IngestStep, PTL DEF Spec

------------------------------------------------------------------------------

\* Whatever loads overlapped or died, and however the list changed and was reordered
\* under the runs that read it page by page: an item is in the product as it is
\* listed or the next run applies it, unless the watermark has reached it unread; a
\* fetched detail is in the product; and after a load that ran alone the links are
\* exactly the matches of the rows stored (kto._run, facility_store._UPSERT,
\* linking.rebuild_links).
THEOREM ProductStaysTrue == Spec => []ProductFollowsSources
<1>1. ASSUME IngestInv PROVE ProductFollowsListing
  <2>1. TablesTold /\ TablesOK /\ SourceOK
    BY <1>1 DEF IngestInv, IngestTypes
  <2>2. ASSUME NEW i \in Kto \ overtaken, i \in Range(list), listing[i].shown, watermark # None,
               ~(listing[i].stamp > watermark)
        PROVE  facility[i] # None /\ facility[i].stamp = listing[i].stamp
    <3>1. listing[i].stamp \in Nat /\ watermark \in Nat
      BY <2>1, <2>2 DEF SourceOK, TablesOK, Item
    <3>2. listing[i].stamp <= watermark
      BY <2>2, <3>1
    <3> QED
      BY <2>1, <2>2, <3>2 DEF TablesTold, Marked, IsStored
  <2>3. \A i \in Kto \ overtaken : record[i] # None /\ record[i].shown =>
           facility[i] # None /\ facility[i].stamp = record[i].stamp
    BY <2>1 DEF TablesTold, Follows
  <2> QED
    BY <2>2, <2>3 DEF ProductFollowsListing
<1>2. IngestInv => DetailsAreThere /\ LinksAreExact
  BY DEF IngestInv, TablesTold, Follows, DetailsAreThere, LinksOK
<1>3. IngestInv => ProductFollowsSources
  BY <1>1, <1>2 DEF ProductFollowsSources
<1> QED
  BY <1>3, IngestAlways, PTL

\* No load puts a text beside the verdict of another one, and a derivation does so only
\* when its text was replaced after it was read (facility_store._UPSERT,
\* update_pet_detail, pet_axes.derive_all).
THEOREM VerdictsStayApart == Spec => OnlyLateVerdictsMix
<1> DEFINE Allowed(r, c) ==
             Mixed(r, c)' /\ ~Mixed(r, c) =>
               /\ job[c].pc = "update" /\ job'[c].pc = "scan"
               /\ job[c].read[r] # facility[r].pet
           Step == \A r \in {k \in Rows : facility'[k] # facility[k]}, c \in Columns : Allowed(r, c)
<1>1. ASSUME IngestInv, [Next]_vars PROVE Step \/ UNCHANGED vars
  <2> SUFFICES ASSUME NEW r \in Rows, facility'[r] # facility[r], NEW c \in Columns
               PROVE  Allowed(r, c)
    OBVIOUS
  <2>1. \/ \E j \in Loads : Commit(j)
        \/ \E k \in Columns : UpdateBatch(k)
    <3>1. UNCHANGED tables => FALSE
      BY DEF tables
    <3>2. SourceNext => UNCHANGED tables
      BY DEF SourceNext, Change, Return, Leave, Noticed
    <3>3. KtoNext => UNCHANGED tables \/ Commit("kto")
      BY DEF KtoNext, StartKto, ReadPage, StoreList, StartRelink, FetchDetail, Relink, Crash
    <3>4. OtherNext => UNCHANGED tables \/ Commit("kcisa") \/ \E k \in Columns : UpdateBatch(k)
      BY DEF OtherNext, StartKcisa, Relink, StartDerive, SelectBatch, Crash
    <3>5. UNCHANGED vars => UNCHANGED tables
      BY DEF vars
    <3> QED
      BY <1>1, <3>1, <3>2, <3>3, <3>4, <3>5, Distinct DEF Next
  <2>2. ASSUME NEW j \in Loads, Commit(j) PROVE Allowed(r, c)
    <3>1. facility' = RowsSeen(j)
      BY <2>2 DEF Commit
    <3>2. r \in DOMAIN draft[j].rows /\ facility'[r] = draft[j].rows[r]
      BY <1>1, <3>1, SeenRows DEF IngestInv
    <3>3. Kept(draft[j].rows, facility)
      BY <1>1 DEF IngestInv, VerdictsOK
    <3> QED
      BY <3>2, <3>3 DEF Kept, Mixed
  <2>3. ASSUME NEW k \in Columns, UpdateBatch(k) PROVE Allowed(r, c)
    <3>1. /\ r \in DOMAIN job[k].read /\ facility[r] # None
          /\ facility'[r].verdict[c] = IF c = k THEN Verdict(k, job[k].read[r]) ELSE facility[r].verdict[c]
          /\ facility'[r].pet = facility[r].pet
      BY <1>1, <2>3, UpdatedRows DEF Alike
    <3>2. job[k].pc = "update" /\ job'[k].pc = "scan"
      BY <1>1, <2>3, Distinct DEF UpdateBatch, IngestInv, IngestTypes, JobsOK
    <3>3. Verdict(k, job[k].read[r]) \in {None, job[k].read[r]}
      BY DEF Verdict
    <3> QED
      BY <3>1, <3>2, <3>3 DEF Mixed
  <2> QED
    BY <2>1, <2>2, <2>3
<1>2. IngestInv /\ [Next]_vars => [Step]_vars
  BY <1>1
<1> QED
  BY <1>2, IngestAlways, PTL DEF Spec, OnlyLateVerdictsMix

-------------------------------------------------------------------------------
\* The licence registers (MoisSync): what the runs at work will make of the list.

\* A stored row shows what the register lists, or there is nothing to store.
AsListed(i) ==
    \/ i \in DOMAIN place /\ place[i] = [stamp |-> licence[i], listed |-> TRUE]
    \/ i \notin DOMAIN place /\ <<i, licence[i]>> \in Nowhere

AtWork == {r \in Syncs : sync[r].pc # "rest"}

\* The update was published before the run began, and there has been none since.
Before(i, r) == licence[i] < sync[r].day - MaxLag

\* Whoever is at work has seen this update or will.
Settled(i) == AsListed(i) /\ \A q \in AtWork : Before(i, q)

Rank(i, found) == Cardinality({k \in found : k < i})

Fetching(s) ==
    /\ s = [pc |-> "fetch", full |-> s.full, since |-> s.since, got |-> s.got,
            received |-> s.received, page |-> s.page, pages |-> s.pages, day |-> s.day,
            torn |-> s.torn]
    /\ s.since \in Int /\ s.received \in Nat /\ s.page \in Nat \ {0}
    /\ s.received <= (s.page - 1) * PageSize
    /\ s.since = Never \/ s.since <= s.day - MaxLag

Working(s) ==
    /\ s.pc \in {"fetch", "store", "commit"} /\ s.full \in BOOLEAN /\ s.torn \in BOOLEAN
    /\ s.day \in Nat /\ s.day <= today /\ today <= s.day + MaxRun
    /\ s.pc = "fetch" => Fetching(s)

SyncTypes ==
    /\ today \in Nat /\ missed \in BOOLEAN
    /\ mark \in Nat \union {Never} /\ mark <= today
    /\ IsFiniteSet(DOMAIN licence)
    /\ \A i \in DOMAIN licence : i \in Nat /\ licence[i] \in Nat /\ licence[i] <= today
    /\ DOMAIN sync = Syncs
    /\ \A r \in Syncs : sync[r] = Resting \/ Working(sync[r])

\* What a run got of a licence is what is listed, unless it was updated under the run.
GotOK(r) ==
    sync[r].pc \in {"fetch", "store"} =>
        \A i \in DOMAIN sync[r].got :
            /\ sync[r].got[i] \in Nat /\ sync[r].got[i] <= today
            /\ i \in DOMAIN licence /\ Before(i, r) => sync[r].got[i] = licence[i]

\* What a run does not ask for is settled, and of what it asks for it has all that
\* stands on the pages before its next one: updates only move a licence to later pages.
FetchOK(r) ==
    LET s == sync[r] IN
    s.pc = "fetch" =>
        /\ s.full => s.since = Never
        /\ ~missed => \A i \in DOMAIN licence : licence[i] < s.since => Settled(i)
        /\ ~s.torn => \A i \in Matching(s.since) :
             Before(i, r) /\ i \notin DOMAIN s.got =>
                 Rank(i, Matching(s.since)) >= (s.page - 1) * PageSize

StoreOK(r) ==
    LET s == sync[r] IN
    s.pc = "store" /\ ~s.torn =>
        \A i \in DOMAIN licence : Before(i, r) /\ i \notin DOMAIN s.got =>
            ~s.full /\ (~missed => Settled(i))

\* What the commit makes of a licence.
Covered(r, i) ==
    LET s == sync[r] IN
    \/ ~Before(i, r)
    \/ i \in DOMAIN s.rows /\ s.rows[i] = [stamp |-> licence[i], listed |-> TRUE]
    \/ /\ i \notin DOMAIN s.rows
       /\ \/ s.stamps # {} /\ \A stamp \in s.stamps : licence[i] >= stamp - Overlap
          \/ licence[i] \in s.stamps /\ i \notin DOMAIN place /\ <<i, licence[i]>> \in Nowhere
          \/ ~s.full /\ Settled(i)

\* A row that is new has coordinates.
NewRowOK(r, i) ==
    i \notin DOMAIN place =>
        /\ <<i, sync[r].rows[i].stamp>> \notin Nowhere
        /\ i \in DOMAIN licence /\ Before(i, r) => sync[r].rows[i].stamp = licence[i]

CommitOK(r) ==
    LET s == sync[r] IN
    s.pc = "commit" =>
        /\ \A stamp \in s.stamps : stamp \in Nat /\ stamp <= today
        /\ \A i \in DOMAIN s.rows : NewRowOK(r, i)
        /\ ~s.torn /\ (s.full \/ ~missed) => \A i \in DOMAIN licence : Covered(r, i)

RunOK(r) == GotOK(r) /\ FetchOK(r) /\ StoreOK(r) /\ CommitOK(r)

SyncInv ==
    /\ SyncTypes
    /\ \A r \in Syncs : GotOK(r) /\ FetchOK(r) /\ StoreOK(r) /\ CommitOK(r)
    /\ NothingFallsBehind

-------------------------------------------------------------------------------
\* The pages

\* The ranks of a page.
LEMMA Spans ==
    ASSUME NEW n \in Nat \ {0}
    PROVE  /\ (n - 1) * PageSize \in Nat /\ n * PageSize \in Nat
           /\ (n - 1) * PageSize + PageSize = n * PageSize
           /\ ((n + 1) - 1) * PageSize = n * PageSize
<1>1. PageSize \in Nat
  BY OverlapAssumption
<1> QED
  BY <1>1

\* Adding to a list moves nothing forward.
LEMMA RankGrows ==
    ASSUME NEW B, IsFiniteSet(B), NEW A, A \subseteq B, NEW i
    PROVE  Rank(i, A) \in Nat /\ Rank(i, B) \in Nat /\ Rank(i, A) <= Rank(i, B)
<1> DEFINE a == {k \in A : k < i}
           b == {k \in B : k < i}
<1>1. a \subseteq b /\ b \subseteq B
  OBVIOUS
<1>2. IsFiniteSet(b)
  BY <1>1, FS_Subset
<1>3. IsFiniteSet(a) /\ Cardinality(a) <= Cardinality(b)
  BY <1>1, <1>2, FS_Subset
<1>4. Cardinality(a) \in Nat /\ Cardinality(b) \in Nat
  BY <1>2, <1>3, FS_CardinalityType
<1> QED
  BY <1>3, <1>4 DEF Rank

\* Ranks follow the order, below the length of the list.
LEMMA RankBelow ==
    ASSUME NEW found \in SUBSET Nat, IsFiniteSet(found), NEW i \in found
    PROVE  /\ Rank(i, found) < Cardinality(found) /\ Cardinality(found) \in Nat
           /\ \A j \in found : i < j => Rank(i, found) < Rank(j, found)
<1>1. ASSUME NEW S, IsFiniteSet(S), i \in S, {k \in found : k < i} \subseteq S
      PROVE  Rank(i, found) < Cardinality(S) /\ Cardinality(S) \in Nat
  <2>1. {k \in found : k < i} \subseteq S \ {i}
    BY <1>1
  <2>2. IsFiniteSet(S \ {i}) /\ Cardinality(S \ {i}) = Cardinality(S) - 1
    BY <1>1, FS_RemoveElement
  <2>3. Rank(i, found) <= Cardinality(S \ {i})
    BY <2>1, <2>2, FS_Subset DEF Rank
  <2>4. Cardinality(S) \in Nat /\ Rank(i, found) \in Nat
    BY <1>1, RankGrows, FS_CardinalityType
  <2> QED
    BY <2>2, <2>3, <2>4
<1>2. ASSUME NEW j \in found, i < j
      PROVE  Rank(i, found) < Rank(j, found)
  <2> DEFINE below == {k \in found : k < j}
  <2>1. below \in SUBSET found
    OBVIOUS
  <2>2. {k \in found : k < i} \subseteq below /\ i \in below
    <3>1. \A k \in found : k < i => k < j
      <4> SUFFICES ASSUME NEW k \in found, k < i PROVE k < j
        OBVIOUS
      <4>1. k \in Nat /\ i \in Nat /\ j \in Nat
        OBVIOUS
      <4> QED
        BY <1>2, <4>1
    <3> QED
      BY <1>2, <3>1
  <2>3. Rank(j, found) = Cardinality(below)
    BY DEF Rank
  <2> HIDE DEF below
  <2>4. IsFiniteSet(below)
    BY <2>1, FS_Subset
  <2> QED
    BY <1>1, <2>2, <2>3, <2>4
<1> QED
  BY <1>1, <1>2

\* Ranks are distinct, so a page holds no more than its size.
LEMMA PageFits ==
    ASSUME NEW found \in SUBSET Nat, IsFiniteSet(found), NEW n \in Nat \ {0}
    PROVE  /\ IsFiniteSet(Page(found, n)) /\ Cardinality(Page(found, n)) \in Nat
           /\ Cardinality(Page(found, n)) <= PageSize
           /\ \A i \in found : i \in Page(found, n) <=>
                (n - 1) * PageSize <= Rank(i, found) /\ Rank(i, found) < n * PageSize
<1> DEFINE low == (n - 1) * PageSize
           high == n * PageSize
           span == low .. high - 1
           rank == [i \in Page(found, n) |-> Rank(i, found)]
<1>1. low \in Nat /\ high \in Nat /\ low + PageSize = high /\ PageSize \in Nat
  BY Spans, OverlapAssumption
<1>2. Page(found, n) = {i \in found : Rank(i, found) \in span}
  BY DEF Page, Rank
<1> HIDE DEF low, high
<1>3. IsFiniteSet(span) /\ Cardinality(span) = PageSize
  <2>1. Cardinality(span) = IF low > high - 1 THEN 0 ELSE (high - 1) - low + 1
    BY <1>1, FS_Interval
  <2>2. IsFiniteSet(span)
    BY <1>1, FS_Interval
  <2> QED
    BY <1>1, <2>1, <2>2, OverlapAssumption
<1>4. IsFiniteSet(Page(found, n))
  BY <1>2, FS_Subset
<1>5. \A i, j \in found : i # j => Rank(i, found) # Rank(j, found)
  <2> SUFFICES ASSUME NEW i \in found, NEW j \in found, i # j PROVE Rank(i, found) # Rank(j, found)
    OBVIOUS
  <2>1. Rank(i, found) \in Nat /\ Rank(j, found) \in Nat
    BY RankGrows
  <2>2. i < j \/ j < i
    OBVIOUS
  <2> QED
    BY <2>1, <2>2, RankBelow
<1>6. rank \in Injection(Page(found, n), span)
  BY <1>2, <1>5 DEF Injection, IsInjective
<1>7. Cardinality(Page(found, n)) <= Cardinality(span)
  BY <1>3, <1>6, FS_Injection
<1>8. \A i \in found : Rank(i, found) \in Nat
  BY RankGrows
<1> QED
  BY <1>1, <1>2, <1>3, <1>4, <1>7, <1>8, FS_CardinalityType DEF low, high

-------------------------------------------------------------------------------
\* The steps of the register and of the runs

\* The functions that Joined merges.
LEMMA JoinedIs ==
    ASSUME NEW a, NEW b
    PROVE  /\ DOMAIN Joined(a, b) = DOMAIN a \union DOMAIN b
           /\ \A i \in DOMAIN a : Joined(a, b)[i] = a[i]
           /\ \A i \in DOMAIN b \ DOMAIN a : Joined(a, b)[i] = b[i]
BY DEF Joined

\* What the assumptions say of the days.
LEMMA DaysAre ==
    /\ PageSize \in Nat \ {0} /\ MaxLag \in Nat /\ MaxRun \in Nat /\ Overlap \in Nat
    /\ MaxLag + MaxRun <= Overlap
    /\ Never \in Int /\ Never < 0
BY OverlapAssumption DEF Never

\* A run that another one's step leaves alone, and what is settled with it.
LEMMA OthersStay ==
    ASSUME NEW q \in Syncs, RunOK(q), sync'[q] = sync[q],
           UNCHANGED <<today, licence, place, missed>>,
           sync[q].pc # "rest" => \A i \in DOMAIN licence : Settled(i) => Settled(i)'
    PROVE  RunOK(q)'
<1>1. GotOK(q)'
  BY DEF RunOK, GotOK, Before
<1>2. FetchOK(q)'
  BY DEF RunOK, FetchOK, Before, Matching
<1>3. StoreOK(q)'
  BY DEF RunOK, StoreOK, Before
<1>4. CommitOK(q)'
  BY DEF RunOK, CommitOK, Covered, NewRowOK, Before
<1> QED
  BY <1>1, <1>2, <1>3, <1>4 DEF RunOK

\* A day that passes leaves every comparison of days as it was.
LEMMA NextDayKeeps == SyncInv /\ NextDay => SyncInv'
<1> SUFFICES ASSUME SyncInv, NextDay PROVE SyncInv'
  OBVIOUS
<1> USE DaysAre DEF NextDay
<1>1. SyncTypes'
  <2>1. \A r \in Syncs : sync[r] = Resting \/ Working(sync[r])'
    BY DEF SyncInv, SyncTypes, Working, Fetching, Resting
  <2> QED
    BY <2>1 DEF SyncInv, SyncTypes
<1>2. \A r \in Syncs : RunOK(r)'
  <2> SUFFICES ASSUME NEW r \in Syncs PROVE RunOK(r)'
    OBVIOUS
  <2>1. GotOK(r)'
    BY DEF SyncInv, SyncTypes, GotOK, Before
  <2>2. FetchOK(r)'
    BY DEF SyncInv, FetchOK, Before, Matching, Settled, AsListed, AtWork
  <2>3. StoreOK(r)'
    BY DEF SyncInv, StoreOK, Before, Settled, AsListed, AtWork
  <2>4. CommitOK(r)'
    BY DEF SyncInv, SyncTypes, CommitOK, Covered, NewRowOK, Before, Settled, AsListed, AtWork
  <2> QED
    BY <2>1, <2>2, <2>3, <2>4 DEF RunOK
<1>3. NothingFallsBehind'
  BY DEF SyncInv, NothingFallsBehind, OverlapMark
<1> QED
  BY <1>1, <1>2, <1>3 DEF SyncInv, RunOK

\* An update comes at most MaxLag after its day: whoever is at work began before that.
LEMMA PublishKeeps ==
    ASSUME SyncInv, NEW i \in {v[1] : v \in Versions}, Publish(i)
    PROVE  SyncInv'
<1> USE DaysAre
<1>1. PICK stamp \in (today - MaxLag) .. today :
          /\ <<i, stamp>> \in Versions
          /\ i \in DOMAIN licence => stamp > licence[i]
          /\ licence' = Joined([k \in {i} |-> stamp], licence)
  BY DEF Publish
<1>2. /\ i \in Nat /\ stamp \in Nat /\ stamp <= today /\ stamp >= today - MaxLag
      /\ today \in Nat
  BY <1>1, VersionsAssumption DEF SyncInv, SyncTypes
<1>3. /\ UNCHANGED <<today, place, mark, sync, missed>>
      /\ DOMAIN licence' = DOMAIN licence \union {i} /\ licence'[i] = stamp
      /\ \A k \in DOMAIN licence : k # i => licence'[k] = licence[k]
  <2> DEFINE new == [k \in {i} |-> stamp]
  <2>1. DOMAIN new = {i} /\ new[i] = stamp
    OBVIOUS
  <2> HIDE DEF new
  <2>2. /\ DOMAIN Joined(new, licence) = DOMAIN new \union DOMAIN licence
        /\ \A k \in DOMAIN new : Joined(new, licence)[k] = new[k]
        /\ \A k \in DOMAIN licence \ DOMAIN new : Joined(new, licence)[k] = licence[k]
    BY JoinedIs
  <2>3. licence' = Joined(new, licence)
    BY <1>1 DEF new
  <2>4. UNCHANGED <<today, place, mark, sync, missed>>
    BY DEF Publish
  <2> QED
    BY <2>1, <2>2, <2>3, <2>4
<1>4. IsFiniteSet(DOMAIN licence')
  BY <1>3, FS_AddElement DEF SyncInv, SyncTypes
<1>5. SyncTypes'
  <2>1. \A r \in Syncs : (sync[r] = Resting \/ Working(sync[r]))'
    BY <1>3 DEF SyncInv, SyncTypes, Working, Fetching, Resting
  <2>2. \A k \in DOMAIN licence' : k \in Nat /\ licence'[k] \in Nat /\ licence'[k] <= today'
    BY <1>2, <1>3 DEF SyncInv, SyncTypes
  <2> QED
    BY <1>3, <1>4, <2>1, <2>2 DEF SyncInv, SyncTypes
<1>6. \A r \in AtWork :
          /\ r \in Syncs /\ Working(sync[r])
          /\ ~Before(i, r)'
          /\ \A k \in DOMAIN licence : k # i => Before(k, r)' = Before(k, r)
  BY <1>2, <1>3 DEF AtWork, SyncInv, SyncTypes, Working, Resting, Before
<1>7. \A k \in DOMAIN licence : k # i => (AsListed(k) => AsListed(k)') /\ (Settled(k) => Settled(k)')
  BY <1>3, <1>6 DEF Settled, AsListed, AtWork
<1>8. \A r \in Syncs : RunOK(r)'
  <2> SUFFICES ASSUME NEW r \in Syncs, sync[r].pc # "rest" PROVE RunOK(r)'
    BY <1>3 DEF RunOK, GotOK, FetchOK, StoreOK, CommitOK
  <2>0. r \in AtWork /\ sync'[r] = sync[r] /\ Working(sync[r])
    BY <1>3, <1>6 DEF AtWork
  <2>1. GotOK(r)'
    BY <1>3, <1>6, <2>0 DEF SyncInv, GotOK
  <2>2. FetchOK(r)'
    <3> SUFFICES ASSUME sync[r].pc = "fetch" PROVE FetchOK(r)'
      BY <1>3 DEF FetchOK
    <3> DEFINE since == sync[r].since
               found == Matching(since)
    <3>1. Fetching(sync[r]) /\ since \in Int
      BY <2>0 DEF Working, Fetching
    <3>2. ASSUME ~missed, NEW k \in DOMAIN licence', licence'[k] < since PROVE Settled(k)'
      <4>1. k # i
        BY <1>2, <1>3, <2>0, <3>1, <3>2 DEF Working, Fetching
      <4> QED
        BY <1>3, <1>7, <3>2, <4>1 DEF SyncInv, FetchOK
    <3>3. ASSUME ~sync[r].torn, NEW k \in Matching(since)', Before(k, r)', k \notin DOMAIN sync[r].got
          PROVE  Rank(k, Matching(since)') >= (sync[r].page - 1) * PageSize
      <4>1. k # i /\ k \in found /\ Before(k, r)
        BY <1>3, <1>6, <2>0, <3>3 DEF Matching
      <4>2. Rank(k, found) >= (sync[r].page - 1) * PageSize
        BY <3>3, <4>1 DEF SyncInv, FetchOK
      <4>3. found \subseteq Matching(since)' /\ Matching(since)' \subseteq DOMAIN licence'
        BY <1>1, <1>2, <1>3, <3>1 DEF Matching, SyncInv, SyncTypes
      <4> HIDE DEF found
      <4>4. IsFiniteSet(Matching(since)')
        BY <1>4, <4>3, FS_Subset
      <4>5. Rank(k, found) <= Rank(k, Matching(since)') /\ Rank(k, found) \in Nat
            /\ Rank(k, Matching(since)') \in Nat
        BY <4>3, <4>4, RankGrows
      <4>6. (sync[r].page - 1) * PageSize \in Nat
        BY <3>1, Spans DEF Fetching
      <4> QED
        BY <4>2, <4>5, <4>6
    <3> QED
      BY <1>3, <3>2, <3>3 DEF SyncInv, FetchOK
  <2>3. StoreOK(r)'
    BY <1>3, <1>6, <1>7, <2>0 DEF SyncInv, StoreOK
  <2>4. CommitOK(r)'
    <3>1. \A k \in DOMAIN licence' : Covered(r, k) /\ k # i => Covered(r, k)'
      BY <1>3, <1>6, <1>7, <2>0 DEF Covered
    <3>2. Covered(r, i)'
      BY <1>6, <2>0 DEF Covered
    <3>3. \A k \in DOMAIN sync[r].rows : NewRowOK(r, k) => NewRowOK(r, k)'
      BY <1>3, <1>6, <2>0 DEF NewRowOK
    <3> QED
      BY <1>3, <3>1, <3>2, <3>3 DEF SyncInv, CommitOK
  <2> QED
    BY <2>1, <2>2, <2>3, <2>4 DEF RunOK
<1>9. NothingFallsBehind'
  <2>1. stamp >= OverlapMark
    BY <1>2 DEF OverlapMark, SyncInv, SyncTypes
  <2> QED
    BY <1>3, <2>1 DEF SyncInv, NothingFallsBehind, OverlapMark
<1> QED
  BY <1>5, <1>8, <1>9 DEF SyncInv, RunOK

\* Whoever pages while a licence leaves is marked, and owes nothing of the pages.
LEMMA WithdrawKeeps ==
    ASSUME SyncInv, NEW i, Withdraw(i)
    PROVE  SyncInv'
<1>1. /\ UNCHANGED <<today, place, mark, missed>>
      /\ DOMAIN licence' = DOMAIN licence \ {i}
      /\ \A k \in DOMAIN licence' : k \in DOMAIN licence /\ licence'[k] = licence[k]
      /\ DOMAIN sync' = Syncs
      /\ \A r \in Syncs : sync'[r] =
             IF sync[r].pc = "fetch" THEN [sync[r] EXCEPT !.torn = TRUE] ELSE sync[r]
  BY DEF Withdraw
<1>2. ASSUME NEW r \in Syncs, sync[r].pc = "fetch"
      PROVE  /\ Fetching(sync'[r]) /\ sync'[r].pc = "fetch" /\ sync'[r].torn = TRUE
             /\ sync'[r].full = sync[r].full /\ sync'[r].since = sync[r].since
             /\ sync'[r].got = sync[r].got /\ sync'[r].day = sync[r].day
  <2> DEFINE s == sync[r]
             t == sync'[r]
  <2>1. Fetching(s)
    BY <1>2 DEF SyncInv, SyncTypes, Working, Resting
  <2>2. t = [s EXCEPT !.torn = TRUE]
    BY <1>1, <1>2
  <2>3. t = [pc |-> "fetch", full |-> s.full, since |-> s.since, got |-> s.got,
             received |-> s.received, page |-> s.page, pages |-> s.pages,
             day |-> s.day, torn |-> TRUE]
    <3> HIDE DEF s, t
    <3>1. s = [pc |-> "fetch", full |-> s.full, since |-> s.since, got |-> s.got,
               received |-> s.received, page |-> s.page, pages |-> s.pages, day |-> s.day,
               torn |-> s.torn]
      BY <2>1 DEF Fetching
    <3>2. \A new : [s EXCEPT !.torn = new] =
              [pc |-> "fetch", full |-> s.full, since |-> s.since, got |-> s.got,
               received |-> s.received, page |-> s.page, pages |-> s.pages, day |-> s.day,
               torn |-> new]
      <4> SUFFICES ASSUME NEW new PROVE [s EXCEPT !.torn = new] =
              [pc |-> "fetch", full |-> s.full, since |-> s.since, got |-> s.got,
               received |-> s.received, page |-> s.page, pages |-> s.pages, day |-> s.day,
               torn |-> new]
        OBVIOUS
      <4> QED
        BY <3>1
    <3> QED
      BY <2>2, <3>2, Zenon
  <2> HIDE DEF s, t
  <2>4. Fetching(t)
    BY <2>1, <2>3 DEF Fetching
  <2>5. /\ t.pc = "fetch" /\ t.torn = TRUE /\ t.full = s.full /\ t.since = s.since
        /\ t.got = s.got /\ t.day = s.day
    BY <2>3
  <2> QED
    BY <2>4, <2>5 DEF s, t
<1>3. \A r \in Syncs : sync[r].pc # "fetch" => sync'[r] = sync[r]
  BY <1>1
<1>4. \A r \in Syncs : sync'[r].pc = sync[r].pc /\ (sync[r].pc # "rest" => sync'[r].day = sync[r].day)
  <2> SUFFICES ASSUME NEW r \in Syncs
               PROVE  sync'[r].pc = sync[r].pc /\ (sync[r].pc # "rest" => sync'[r].day = sync[r].day)
    OBVIOUS
  <2>1. sync[r].pc = "fetch" => sync'[r].pc = "fetch" /\ sync'[r].day = sync[r].day
    BY <1>2
  <2> QED
    BY <1>3, <2>1
<1>5. SyncTypes'
  <2>1. ASSUME NEW r \in Syncs PROVE (sync[r] = Resting \/ Working(sync[r]))'
    <3>1. CASE sync[r].pc = "fetch"
      <4>1. Working(sync[r])
        BY <3>1 DEF SyncInv, SyncTypes, Resting
      <4> QED
        BY <1>1, <1>2, <3>1, <4>1 DEF Working, Fetching
    <3>2. CASE sync[r].pc # "fetch"
      BY <1>1, <1>3, <3>2 DEF SyncInv, SyncTypes, Working, Resting
    <3> QED
      BY <3>1, <3>2
  <2>2. IsFiniteSet(DOMAIN licence')
    BY <1>1, FS_Subset DEF SyncInv, SyncTypes
  <2> QED
    BY <1>1, <2>1, <2>2 DEF SyncInv, SyncTypes
<1>6. AtWork' = AtWork
  BY <1>4 DEF AtWork
<1>7. ASSUME NEW r \in Syncs, sync[r].pc # "rest", NEW k \in DOMAIN licence'
      PROVE  k \in DOMAIN licence /\ Before(k, r)' = Before(k, r)
  BY <1>1, <1>4, <1>7 DEF Before
<1>8. \A k \in DOMAIN licence' : (AsListed(k) => AsListed(k)') /\ (Settled(k) => Settled(k)')
  BY <1>1, <1>6, <1>7 DEF Settled, AsListed, AtWork
<1>9. ASSUME NEW r \in Syncs, sync[r].pc # "rest" PROVE RunOK(r)'
  <2>1. CASE sync[r].pc = "fetch"
    <3>1. GotOK(r)'
      <4>1. ASSUME NEW k \in DOMAIN sync[r].got
            PROVE  /\ sync[r].got[k] \in Nat /\ sync[r].got[k] <= today
                   /\ k \in DOMAIN licence' /\ Before(k, r)' => sync[r].got[k] = licence'[k]
        BY <1>1, <1>7, <2>1 DEF SyncInv, GotOK
      <4> QED
        BY <1>1, <1>2, <2>1, <4>1 DEF GotOK
    <3>2. FetchOK(r)'
      BY <1>1, <1>2, <1>8, <2>1 DEF SyncInv, FetchOK
    <3> QED
      BY <1>2, <2>1, <3>1, <3>2 DEF RunOK, StoreOK, CommitOK
  <2>2. CASE sync[r].pc # "fetch"
    <3>0. sync'[r] = sync[r]
      BY <1>3, <2>2
    <3>1. GotOK(r)'
      BY <1>1, <1>7, <1>9, <3>0 DEF SyncInv, GotOK
    <3>2. StoreOK(r)'
      BY <1>1, <1>7, <1>8, <1>9, <3>0 DEF SyncInv, StoreOK
    <3>3. CommitOK(r)'
      <4>1. \A k \in DOMAIN licence' : Covered(r, k) => Covered(r, k)'
        BY <1>1, <1>7, <1>8, <1>9, <3>0 DEF Covered
      <4>2. \A k \in DOMAIN sync[r].rows : NewRowOK(r, k) => NewRowOK(r, k)'
        BY <1>1, <1>7, <1>9, <3>0 DEF NewRowOK
      <4> QED
        BY <1>1, <3>0, <4>1, <4>2 DEF SyncInv, CommitOK
    <3> QED
      BY <2>2, <3>0, <3>1, <3>2, <3>3 DEF RunOK, FetchOK
  <2> QED
    BY <2>1, <2>2
<1>10. \A r \in Syncs : RunOK(r)'
  BY <1>4, <1>9 DEF RunOK, GotOK, FetchOK, StoreOK, CommitOK
<1>11. NothingFallsBehind'
  BY <1>1 DEF SyncInv, NothingFallsBehind, OverlapMark
<1> QED
  BY <1>5, <1>10, <1>11 DEF SyncInv, RunOK

\* A run that ends changes nothing for the others but that there is one less.
LEMMA RestKeeps ==
    ASSUME SyncInv, NEW r \in Syncs, Fail(r), UNCHANGED <<today, licence, place, mark, missed>>
    PROVE  SyncInv'
<1>1. /\ DOMAIN sync' = Syncs /\ sync'[r] = Resting
      /\ \A q \in Syncs : q # r => sync'[q] = sync[q]
  BY DEF Fail, SyncInv, SyncTypes
<1>2. SyncTypes'
  BY <1>1 DEF SyncInv, SyncTypes, Working
<1>3. \A i \in DOMAIN licence : Settled(i) => Settled(i)'
  BY <1>1 DEF Settled, AsListed, AtWork, Before, Resting
<1>4. ASSUME NEW q \in Syncs PROVE RunOK(q)'
  <2>1. CASE q = r
    BY <1>1, <2>1 DEF RunOK, GotOK, FetchOK, StoreOK, CommitOK, Resting
  <2>2. CASE q # r
    <3>1. RunOK(q)
      BY DEF SyncInv, RunOK
    <3> QED
      BY <1>1, <1>3, <2>2, <3>1, OthersStay
  <2> QED
    BY <2>1, <2>2
<1>5. NothingFallsBehind'
  BY DEF SyncInv, NothingFallsBehind, OverlapMark
<1> QED
  BY <1>2, <1>4, <1>5 DEF SyncInv, RunOK

\* What a new run does not ask for is stored, and was there before all that are at work.
LEMMA StartSyncKeeps ==
    ASSUME SyncInv, NEW r \in Syncs, NEW full \in BOOLEAN, StartSync(r, full)
    PROVE  SyncInv'
<1> USE DaysAre
<1>1. /\ UNCHANGED <<today, licence, place, mark, missed>> /\ sync[r].pc = "rest"
      /\ DOMAIN sync' = Syncs
      /\ \A q \in Syncs : q # r => sync'[q] = sync[q]
      /\ sync'[r] = [pc |-> "fetch", full |-> full, since |-> IF full THEN Never ELSE OverlapMark,
                     got |-> <<>>, received |-> 0, page |-> 1, pages |-> 1, day |-> today,
                     torn |-> FALSE]
  BY DEF StartSync, SyncInv, SyncTypes
<1> DEFINE since == IF full THEN Never ELSE OverlapMark
<1>2. /\ since \in Int /\ (since = Never \/ since <= today - MaxLag)
      /\ today \in Nat /\ ((mark \in Nat /\ mark <= today) \/ mark = Never)
  BY DEF OverlapMark, SyncInv, SyncTypes
<1>3. SyncTypes'
  <2>1. (1 - 1) * PageSize = 0
    OBVIOUS
  <2>2. Working(sync[r])'
    <3> DEFINE next == [pc |-> "fetch", full |-> full, since |-> since, got |-> <<>>, received |-> 0,
                        page |-> 1, pages |-> 1, day |-> today, torn |-> FALSE]
    <3>1. /\ next.pc = "fetch" /\ next.full \in BOOLEAN /\ next.torn \in BOOLEAN
          /\ next.since = since /\ next.received = 0 /\ next.page = 1 /\ next.day = today
          /\ next = [pc |-> "fetch", full |-> next.full, since |-> next.since, got |-> next.got,
                     received |-> next.received, page |-> next.page, pages |-> next.pages,
                     day |-> next.day, torn |-> next.torn]
      OBVIOUS
    <3>2. sync'[r] = next /\ today' = today
      BY <1>1
    <3> HIDE DEF next, since
    <3>3. Fetching(next)
      BY <1>2, <2>1, <3>1 DEF Fetching
    <3>4. next.day \in Nat /\ next.day <= today /\ today <= next.day + MaxRun
      BY <1>2, <3>1
    <3> QED
      BY <3>1, <3>2, <3>3, <3>4 DEF Working
  <2>3. \A q \in Syncs : q # r => (sync[q] = Resting \/ Working(sync[q]))'
    BY <1>1 DEF SyncInv, SyncTypes, Working, Resting
  <2> QED
    BY <1>1, <2>2, <2>3 DEF SyncInv, SyncTypes
<1>4. ASSUME NEW i \in DOMAIN licence, Settled(i), AtWork # {} PROVE Settled(i)'
  <2>1. PICK q \in AtWork : TRUE
    BY <1>4
  <2>2. Before(i, q) /\ Working(sync[q]) /\ q # r /\ AsListed(i)
    BY <1>1, <1>4 DEF Settled, AtWork, SyncInv, SyncTypes, Resting
  <2>3. licence[i] < today - MaxLag
    BY <1>2, <2>2 DEF Before, Working, SyncInv, SyncTypes
  <2>4. \A p \in AtWork' : Before(i, p)'
    BY <1>1, <1>4, <2>3 DEF Settled, AtWork, Before
  <2> QED
    BY <1>1, <2>2, <2>4 DEF Settled, AsListed
<1>5. ASSUME NEW q \in Syncs, q # r PROVE RunOK(q)'
  <2>1. RunOK(q)
    BY DEF SyncInv, RunOK
  <2>2. sync[q].pc # "rest" => \A i \in DOMAIN licence : Settled(i) => Settled(i)'
    BY <1>4 DEF AtWork
  <2> QED
    BY <1>1, <1>5, <2>1, <2>2, OthersStay
<1>6. FetchOK(r)'
  <2>1. sync'[r].full => sync'[r].since = Never
    BY <1>1
  <2>2. ASSUME ~missed, NEW i \in DOMAIN licence, licence[i] < since PROVE Settled(i)'
    <3>1. licence[i] \in Nat
      BY DEF SyncInv, SyncTypes
    <3>2. since = mark - Overlap /\ since = OverlapMark /\ mark \in Nat /\ mark <= today
      BY <1>2, <2>2, <3>1 DEF OverlapMark
    <3>3. AsListed(i)
      BY <1>2, <2>2, <3>1, <3>2 DEF SyncInv, NothingFallsBehind, AsListed
    <3>4. licence[i] < today - Overlap
      <4>1. licence[i] < mark - Overlap
        BY <2>2, <3>2
      <4> QED
        BY <1>2, <3>1, <3>2, <4>1
    <3>5. ASSUME NEW q \in AtWork' PROVE Before(i, q)'
      <4>1. CASE q = r
        BY <1>1, <1>2, <3>1, <3>4, <4>1 DEF Before
      <4>2. CASE q # r
        <5>1. Working(sync[q]) /\ sync'[q] = sync[q]
          BY <1>1, <4>2 DEF AtWork, SyncInv, SyncTypes, Resting
        <5> QED
          BY <1>1, <1>2, <3>1, <3>4, <5>1 DEF Before, Working
      <4> QED
        BY <4>1, <4>2
    <3> QED
      BY <1>1, <3>3, <3>5 DEF Settled, AsListed
  <2>3. ASSUME NEW i \in Matching(since)
        PROVE  Rank(i, Matching(since)) >= (1 - 1) * PageSize
    <3>1. IsFiniteSet(Matching(since))
      BY FS_Subset DEF Matching, SyncInv, SyncTypes
    <3> QED
      BY <3>1, RankGrows
  <2> QED
    BY <1>1, <2>1, <2>2, <2>3 DEF FetchOK, Matching
<1>7. RunOK(r)'
  BY <1>1, <1>6 DEF RunOK, GotOK, StoreOK, CommitOK
<1>8. NothingFallsBehind'
  BY <1>1 DEF SyncInv, NothingFallsBehind, OverlapMark
<1> QED
  BY <1>3, <1>5, <1>7, <1>8 DEF SyncInv, RunOK

\* What an update-free licence is listed after is on an earlier page or still to come.
LEMMA FetchPageKeeps ==
    ASSUME SyncInv, NEW r \in Syncs, FetchPage(r)
    PROVE  SyncInv'
<1> USE DaysAre
<1> DEFINE s == sync[r]
           found == Matching(s.since)
           chunk == Page(found, s.page)
           pages == IF s.page = 1 THEN Pages(found) ELSE s.pages
           received == s.received + Cardinality(chunk)
           taken == [i \in chunk |-> licence[i]]
           got == Joined(taken, s.got)
           last == s.page >= pages
           failing == \/ s.page > 1 /\ chunk = {}
                      \/ last /\ received < Cardinality(found)
                      \/ last /\ received = 0 /\ s.full
           next == IF last THEN [pc |-> "store", full |-> s.full, got |-> got, day |-> s.day,
                                 torn |-> s.torn]
                   ELSE [pc |-> "fetch", full |-> s.full, since |-> s.since, got |-> got,
                         received |-> received, page |-> s.page + 1, pages |-> pages,
                         day |-> s.day, torn |-> s.torn]
<1>1. /\ UNCHANGED <<today, licence, place, mark, missed>> /\ s.pc = "fetch"
      /\ IF failing THEN Fail(r) ELSE sync' = [sync EXCEPT ![r] = next]
  BY DEF FetchPage
<1>2. CASE failing
  BY <1>1, <1>2, RestKeeps
<1>3. CASE ~failing
  <2>1. /\ DOMAIN sync' = Syncs /\ sync'[r] = next
        /\ \A q \in Syncs : q # r => sync'[q] = sync[q]
    BY <1>1, <1>3 DEF SyncInv, SyncTypes
  <2>2. /\ Working(s) /\ s.since \in Int /\ s.received \in Nat /\ s.page \in Nat \ {0}
        /\ s.received <= (s.page - 1) * PageSize
        /\ (s.since = Never \/ s.since <= s.day - MaxLag)
    BY <1>1 DEF SyncInv, SyncTypes, Working, Fetching, Resting
  <2>3. found \in SUBSET Nat /\ IsFiniteSet(found) /\ found \subseteq DOMAIN licence
    <3>1. found \subseteq DOMAIN licence /\ IsFiniteSet(DOMAIN licence)
      BY DEF Matching, SyncInv, SyncTypes
    <3>2. IsFiniteSet(found)
      BY <3>1, FS_Subset
    <3> QED
      BY <3>1, <3>2 DEF SyncInv, SyncTypes
  <2>4. /\ Cardinality(chunk) \in Nat /\ Cardinality(chunk) <= PageSize
        /\ \A i \in found : i \in chunk <=>
             (s.page - 1) * PageSize <= Rank(i, found) /\ Rank(i, found) < s.page * PageSize
    <3> HIDE DEF found
    <3> QED
      BY <2>2, <2>3, PageFits
  <2>5. chunk \subseteq found
    BY DEF Page
  <2>6. /\ (s.page - 1) * PageSize \in Nat /\ s.page * PageSize \in Nat
        /\ (s.page - 1) * PageSize + PageSize = s.page * PageSize
        /\ ((s.page + 1) - 1) * PageSize = s.page * PageSize
    BY <2>2, Spans
  <2>7. received \in Nat /\ received <= s.page * PageSize
    BY <2>2, <2>4, <2>6
  <2>8. \A i \in found : Rank(i, found) \in Nat /\ Rank(i, found) < Cardinality(found)
                        /\ Cardinality(found) \in Nat
    <3> HIDE DEF found
    <3> QED
      BY <2>3, RankBelow, RankGrows
  <2>9. /\ DOMAIN got = chunk \union DOMAIN s.got
        /\ \A i \in chunk : got[i] = licence[i]
        /\ \A i \in DOMAIN s.got \ chunk : got[i] = s.got[i]
    <3>1. DOMAIN taken = chunk /\ \A i \in chunk : taken[i] = licence[i]
      OBVIOUS
    <3> HIDE DEF taken, chunk, s
    <3> QED
      BY <3>1, JoinedIs, ZenonT(30)
  <2>10. ASSUME NEW i \in DOMAIN licence, Before(i, r), i \notin DOMAIN got, i \in found, ~s.torn
         PROVE  Rank(i, found) >= s.page * PageSize
    <3>1. i \notin chunk /\ i \notin DOMAIN s.got
      BY <2>9, <2>10
    <3>2. Rank(i, found) >= (s.page - 1) * PageSize
      BY <1>1, <2>10, <3>1 DEF SyncInv, FetchOK
    <3> HIDE DEF found, chunk, s
    <3> QED
      BY <2>4, <2>6, <2>8, <2>10, <3>1, <3>2
  <2>11. \A i \in DOMAIN got :
            /\ got[i] \in Nat /\ got[i] <= today
            /\ i \in DOMAIN licence /\ Before(i, r) => got[i] = licence[i]
    <3> SUFFICES ASSUME NEW i \in DOMAIN got
                 PROVE  /\ got[i] \in Nat /\ got[i] <= today
                        /\ i \in DOMAIN licence /\ Before(i, r) => got[i] = licence[i]
      OBVIOUS
    <3>1. CASE i \in chunk
      <4>1. i \in DOMAIN licence /\ got[i] = licence[i]
        BY <2>3, <2>5, <2>9, <3>1
      <4> HIDE DEF got
      <4> QED
        BY <4>1 DEF SyncInv, SyncTypes
    <3>2. CASE i \notin chunk
      <4>1. i \in DOMAIN s.got /\ got[i] = s.got[i]
        BY <2>9, <3>2
      <4> HIDE DEF got
      <4> QED
        BY <1>1, <4>1 DEF SyncInv, GotOK
    <3> QED
      BY <3>1, <3>2
  <2> HIDE DEF chunk, received, got, pages, failing, last
  <2>12. /\ next.pc \in {"fetch", "store"} /\ next.full = s.full /\ next.got = got
         /\ next.day = s.day /\ next.torn = s.torn
         /\ next.pc = "fetch" => ~last /\ next.since = s.since /\ next.received = received
                                /\ next.page = s.page + 1
         /\ next.pc = "store" => last
         /\ next.pc = "fetch" =>
              next = [pc |-> "fetch", full |-> next.full, since |-> next.since, got |-> next.got,
                      received |-> next.received, page |-> next.page, pages |-> next.pages,
                      day |-> next.day, torn |-> next.torn]
    <3>1. CASE last
      BY <3>1
    <3>2. CASE ~last
      BY <3>2
    <3> QED
      BY <3>1, <3>2
  <2> HIDE DEF next
  <2>13. Working(next)
    BY <2>2, <2>6, <2>7, <2>12 DEF Working, Fetching
  <2>14. SyncTypes'
    <3>1. \A q \in Syncs : (sync[q] = Resting \/ Working(sync[q]))'
      <4> SUFFICES ASSUME NEW q \in Syncs PROVE (sync[q] = Resting \/ Working(sync[q]))'
        OBVIOUS
      <4>1. CASE q = r
        <5>1. today' = today /\ sync'[q] = next
          BY <1>1, <2>1, <4>1
        <5> QED
          BY <2>13, <5>1 DEF Working
      <4>2. CASE q # r
        BY <1>1, <2>1, <4>2 DEF SyncInv, SyncTypes, Working, Resting
      <4> QED
        BY <4>1, <4>2
    <3> QED
      BY <1>1, <2>1, <3>1 DEF SyncInv, SyncTypes
  <2>15. sync'[r].day = sync[r].day /\ sync'[r].pc # "rest" /\ sync[r].pc # "rest"
    BY <1>1, <2>1, <2>12
  <2>16. AtWork' = AtWork /\ \A i : \A q \in AtWork : Before(i, q)' = Before(i, q)
    BY <1>1, <2>1, <2>15 DEF AtWork, Before
  <2>17. \A i \in DOMAIN licence : Settled(i)' = Settled(i)
    BY <1>1, <2>16 DEF Settled, AsListed
  <2>18. ASSUME NEW q \in Syncs, q # r PROVE RunOK(q)'
    <3>1. RunOK(q)
      BY DEF SyncInv, RunOK
    <3> QED
      BY <1>1, <2>1, <2>17, <2>18, <3>1, OthersStay
  <2>19. \A i : Before(i, r)' = Before(i, r)
    BY <1>1, <2>15, <2>16 DEF AtWork
  <2>20. GotOK(r)'
    BY <1>1, <2>1, <2>11, <2>12, <2>19 DEF GotOK
  <2>21. FetchOK(r)'
    <3> SUFFICES ASSUME next.pc = "fetch" PROVE FetchOK(r)'
      BY <2>1 DEF FetchOK
    <3>1. next.full => next.since = Never
      BY <1>1, <2>12 DEF SyncInv, FetchOK
    <3>2. ~missed => \A i \in DOMAIN licence : licence[i] < next.since => Settled(i)
      BY <1>1, <2>12 DEF SyncInv, FetchOK
    <3>3. ~next.torn => \A i \in found : Before(i, r) /\ i \notin DOMAIN next.got =>
              Rank(i, found) >= (next.page - 1) * PageSize
      <4> HIDE DEF found
      <4> QED
        BY <2>3, <2>6, <2>10, <2>12
    <3>4. found = Matching(sync[r].since)'
      BY <1>1, <2>1, <2>12 DEF Matching
    <3> HIDE DEF found
    <3> QED
      BY <1>1, <2>1, <2>17, <2>19, <3>1, <3>2, <3>3, <3>4 DEF FetchOK
  <2>22. StoreOK(r)'
    <3> SUFFICES ASSUME next.pc = "store", ~next.torn, NEW i \in DOMAIN licence, Before(i, r),
                        i \notin DOMAIN next.got
                 PROVE  ~next.full /\ (~missed => Settled(i))
      BY <1>1, <2>1, <2>17, <2>19 DEF StoreOK
    <3>1. i \notin found
      <4> SUFFICES ASSUME i \in found PROVE FALSE
        OBVIOUS
      <4>1. Rank(i, found) >= s.page * PageSize
        BY <2>10, <2>12
      <4>2. ~(received < Cardinality(found))
        BY <1>3, <2>12 DEF failing
      <4> HIDE DEF found
      <4> QED
        BY <2>6, <2>7, <2>8, <4>1, <4>2
    <3>2. licence[i] < s.since /\ licence[i] \in Nat
      BY <2>2, <3>1 DEF Matching, SyncInv, SyncTypes
    <3> QED
      BY <1>1, <2>12, <3>2 DEF SyncInv, FetchOK
  <2>23. RunOK(r)'
    BY <2>1, <2>12, <2>20, <2>21, <2>22 DEF RunOK, CommitOK
  <2>24. NothingFallsBehind'
    BY <1>1 DEF SyncInv, NothingFallsBehind, OverlapMark
  <2> QED
    BY <2>14, <2>18, <2>23, <2>24 DEF SyncInv, RunOK
<1> QED
  BY <1>2, <1>3

\* What a run has of a licence that did not change under it is what its rows will say.
LEMMA StoreSyncKeeps ==
    ASSUME SyncInv, NEW r \in Syncs, StoreSync(r)
    PROVE  SyncInv'
<1> DEFINE s == sync[r]
           got == s.got
           ups == Upserts(got)
           gone == [i \in (IF s.full THEN Missing(got) ELSE {}) |->
                       [place[i] EXCEPT !.listed = FALSE]]
           rows == Joined(ups, gone)
           stamps == {got[i] : i \in DOMAIN got}
           next == [pc |-> "commit", full |-> s.full, rows |-> rows, stamps |-> stamps,
                    day |-> s.day, torn |-> s.torn]
<1>1. /\ UNCHANGED <<today, licence, place, mark, missed>> /\ s.pc = "store"
      /\ DOMAIN sync' = Syncs /\ sync'[r] = next
      /\ \A q \in Syncs : q # r => sync'[q] = sync[q]
  BY DEF StoreSync, SyncInv, SyncTypes
<1>2. /\ next.pc = "commit" /\ next.full = s.full /\ next.rows = rows /\ next.stamps = stamps
      /\ next.day = s.day /\ next.torn = s.torn
  OBVIOUS
<1>3. DOMAIN rows = DOMAIN ups \union DOMAIN gone /\ \A i \in DOMAIN ups : rows[i] = ups[i]
  <2> HIDE DEF ups, gone
  <2> QED
    BY JoinedIs
<1>4. /\ \A i \in DOMAIN got : i \in DOMAIN ups <=> <<i, got[i]>> \notin Nowhere \/ i \in DOMAIN place
      /\ \A i \in DOMAIN ups : i \in DOMAIN got /\ ups[i] = [stamp |-> got[i], listed |-> TRUE]
      /\ \A i \in DOMAIN gone : s.full /\ i \in DOMAIN place /\ i \notin DOMAIN got
  BY DEF Upserts, Missing
<1>5. \A i \in DOMAIN got : got[i] \in stamps
  OBVIOUS
<1>6. \A stamp \in stamps : stamp \in Nat /\ stamp <= today
  BY <1>1 DEF SyncInv, GotOK
<1>7. \A i \in DOMAIN got : i \in DOMAIN licence /\ Before(i, r) => got[i] = licence[i]
  BY <1>1 DEF SyncInv, GotOK
<1> HIDE DEF ups, gone, rows, stamps, next
<1>8. SyncTypes'
  <2>1. Working(next)
    BY <1>1, <1>2 DEF SyncInv, SyncTypes, Working, Resting
  <2>2. ASSUME NEW q \in Syncs PROVE (sync[q] = Resting \/ Working(sync[q]))'
    <3>1. CASE q = r
      <4>1. today' = today /\ sync'[q] = next
        BY <1>1, <3>1
      <4> QED
        BY <2>1, <4>1 DEF Working
    <3>2. CASE q # r
      BY <1>1, <3>2 DEF SyncInv, SyncTypes, Working, Resting
    <3> QED
      BY <3>1, <3>2
  <2> QED
    BY <1>1, <2>2 DEF SyncInv, SyncTypes
<1>9. sync'[r].day = sync[r].day /\ sync'[r].pc # "rest" /\ sync[r].pc # "rest"
  BY <1>1, <1>2
<1>10. AtWork' = AtWork /\ \A i : \A q \in AtWork : Before(i, q)' = Before(i, q)
  BY <1>1, <1>9 DEF AtWork, Before
<1>11. \A i \in DOMAIN licence : Settled(i)' = Settled(i)
  BY <1>1, <1>10 DEF Settled, AsListed
<1>12. ASSUME NEW q \in Syncs, q # r PROVE RunOK(q)'
  <2>1. RunOK(q)
    BY DEF SyncInv, RunOK
  <2> QED
    BY <1>1, <1>11, <1>12, <2>1, OthersStay
<1>13. \A i : Before(i, r)' = Before(i, r)
  BY <1>1, <1>9, <1>10 DEF AtWork
<1>14. ASSUME NEW i \in DOMAIN rows PROVE NewRowOK(r, i)'
  <2> SUFFICES ASSUME i \notin DOMAIN place
               PROVE  /\ <<i, rows[i].stamp>> \notin Nowhere
                      /\ i \in DOMAIN licence /\ Before(i, r) => rows[i].stamp = licence[i]
    BY <1>1, <1>2, <1>13 DEF NewRowOK
  <2>1. i \in DOMAIN ups
    BY <1>3, <1>4, <1>14
  <2>2. i \in DOMAIN got /\ rows[i].stamp = got[i]
    BY <1>3, <1>4, <2>1
  <2>3. <<i, got[i]>> \notin Nowhere
    BY <1>4, <2>1, <2>2
  <2> QED
    BY <1>7, <2>2, <2>3
<1>15. ASSUME ~s.torn, s.full \/ ~missed, NEW i \in DOMAIN licence PROVE Covered(r, i)'
  <2> SUFFICES ASSUME Before(i, r)
               PROVE  \/ i \in DOMAIN rows /\ rows[i] = [stamp |-> licence[i], listed |-> TRUE]
                      \/ /\ i \notin DOMAIN rows
                         /\ \/ /\ licence[i] \in stamps /\ i \notin DOMAIN place
                               /\ <<i, licence[i]>> \in Nowhere
                            \/ ~s.full /\ Settled(i)
    BY <1>1, <1>2, <1>11, <1>13 DEF Covered
  <2>1. CASE i \in DOMAIN got
    <3>1. got[i] = licence[i]
      BY <1>7, <2>1
    <3>2. CASE i \in DOMAIN ups
      BY <1>3, <1>4, <3>1, <3>2
    <3>3. CASE i \notin DOMAIN ups
      BY <1>3, <1>4, <1>5, <2>1, <3>1, <3>3
    <3> QED
      BY <3>2, <3>3
  <2>2. CASE i \notin DOMAIN got
    <3>1. ~s.full /\ (~missed => Settled(i))
      BY <1>1, <1>15, <2>2 DEF SyncInv, StoreOK
    <3>2. i \notin DOMAIN rows
      BY <1>3, <1>4, <2>2, <3>1
    <3> QED
      BY <1>15, <3>1, <3>2
  <2> QED
    BY <2>1, <2>2
<1>16. CommitOK(r)'
  <2>1. \A stamp \in sync'[r].stamps : stamp \in Nat /\ stamp <= today'
    BY <1>1, <1>2, <1>6
  <2>2. \A i \in DOMAIN sync'[r].rows : NewRowOK(r, i)'
    BY <1>1, <1>2, <1>14
  <2>3. ~sync'[r].torn /\ (sync'[r].full \/ ~missed') => \A i \in DOMAIN licence' : Covered(r, i)'
    BY <1>1, <1>2, <1>15
  <2> QED
    BY <2>1, <2>2, <2>3 DEF CommitOK
<1>17. RunOK(r)'
  BY <1>1, <1>2, <1>16 DEF RunOK, GotOK, FetchOK, StoreOK
<1>18. NothingFallsBehind'
  BY <1>1 DEF SyncInv, NothingFallsBehind, OverlapMark
<1> QED
  BY <1>8, <1>12, <1>17, <1>18 DEF SyncInv, RunOK

\* What is committed says of every licence what is listed, or the new watermark,
\* less the overlap, is not behind it.
LEMMA CommitSyncKeeps ==
    ASSUME SyncInv, NEW r \in Syncs, CommitSync(r)
    PROVE  SyncInv'
<1> USE DaysAre
<1> DEFINE s == sync[r]
<1>1. /\ UNCHANGED <<today, licence>> /\ s.pc = "commit"
      /\ DOMAIN sync' = Syncs /\ sync'[r] = Resting
      /\ \A q \in Syncs : q # r => sync'[q] = sync[q]
      /\ mark' = NewMark(s.stamps)
  BY DEF CommitSync, SyncInv, SyncTypes
<1>2. /\ DOMAIN place' = DOMAIN s.rows \union DOMAIN place
      /\ \A i \in DOMAIN s.rows : place'[i] = s.rows[i]
      /\ \A i \in DOMAIN place \ DOMAIN s.rows : place'[i] = place[i]
  <2> DEFINE rows == s.rows
  <2>1. place' = Joined(rows, place)
    BY DEF CommitSync
  <2> HIDE DEF rows
  <2>2. /\ DOMAIN Joined(rows, place) = DOMAIN rows \union DOMAIN place
        /\ \A i \in DOMAIN rows : Joined(rows, place)[i] = rows[i]
        /\ \A i \in DOMAIN place \ DOMAIN rows : Joined(rows, place)[i] = place[i]
    BY JoinedIs
  <2>3. /\ DOMAIN place' = DOMAIN rows \union DOMAIN place
        /\ \A i \in DOMAIN rows : place'[i] = rows[i]
        /\ \A i \in DOMAIN place \ DOMAIN rows : place'[i] = place[i]
    BY <2>1, <2>2
  <2> QED
    BY <2>3 DEF rows
<1>3. /\ ~missed' => ~s.torn /\ (s.full \/ ~missed)
      /\ ~missed' /\ missed => \A o \in Syncs \ {r} : sync[o].pc = "rest"
      /\ missed' \in BOOLEAN
  BY DEF CommitSync, SyncInv, SyncTypes
<1>4. Working(s) /\ s.day \in Nat /\ today \in Nat /\ today <= s.day + MaxRun
  BY <1>1 DEF SyncInv, SyncTypes, Working, Resting
<1>5. \A stamp \in s.stamps : stamp \in Nat /\ stamp <= today
  BY <1>1 DEF SyncInv, CommitOK
<1>6. /\ mark' \in Nat \union {Never} /\ mark' <= today
      /\ s.stamps # {} => mark' \in s.stamps
  <2>1. CASE s.stamps = {}
    BY <1>1, <2>1 DEF NewMark, SyncInv, SyncTypes
  <2>2. CASE s.stamps # {}
    <3>1. s.stamps \subseteq 0 .. today
      BY <1>4, <1>5
    <3>2. Max(s.stamps) \in s.stamps
      BY <1>4, <2>2, <3>1, LatestStamp
    <3> QED
      BY <1>1, <1>5, <2>2, <3>2 DEF NewMark
  <2> QED
    BY <2>1, <2>2
<1>7. SyncTypes'
  BY <1>1, <1>3, <1>6 DEF SyncInv, SyncTypes, Working
<1>8. AtWork' = AtWork \ {r} /\ \A i : \A q \in AtWork' : Before(i, q)' = Before(i, q)
  BY <1>1 DEF AtWork, Before, Resting
<1>9. \A i \in DOMAIN licence : licence[i] \in Nat /\ licence[i] <= today
  BY DEF SyncInv, SyncTypes
<1>10. ASSUME NEW i \in DOMAIN licence, ~missed'
       PROVE  /\ Covered(r, i)
              /\ i \in DOMAIN s.rows /\ s.rows[i] = [stamp |-> licence[i], listed |-> TRUE]
                 => AsListed(i)'
              /\ i \notin DOMAIN s.rows /\ AsListed(i) => AsListed(i)'
              /\ Settled(i) => AsListed(i)'
  <2>1. Covered(r, i)
    BY <1>1, <1>3, <1>10 DEF SyncInv, CommitOK
  <2>2. i \in DOMAIN s.rows /\ s.rows[i] = [stamp |-> licence[i], listed |-> TRUE] => AsListed(i)'
    BY <1>1, <1>2 DEF AsListed
  <2>3. i \notin DOMAIN s.rows /\ AsListed(i) => AsListed(i)'
    BY <1>1, <1>2 DEF AsListed
  <2>4. Settled(i) => AsListed(i) /\ Before(i, r)
    BY <1>1 DEF Settled, AtWork
  <2> QED
    BY <2>1, <2>2, <2>3, <2>4 DEF Covered
<1>11. ASSUME NEW i \in DOMAIN licence, ~missed', Settled(i) PROVE Settled(i)'
  BY <1>8, <1>10, <1>11 DEF Settled
<1>12. ASSUME NEW q \in Syncs, q # r, sync[q].pc # "rest" PROVE RunOK(q)'
  <2>1. /\ sync'[q] = sync[q] /\ q \in AtWork' /\ RunOK(q)
        /\ \A i : Before(i, q)' = Before(i, q)
        /\ ~missed' => ~missed
    BY <1>1, <1>3, <1>8, <1>12 DEF AtWork, SyncInv, RunOK
  <2>2. GotOK(q)'
    BY <1>1, <2>1 DEF RunOK, GotOK
  <2>3. FetchOK(q)'
    <3>1. Matching(sync[q].since)' = Matching(sync[q].since)
      BY <1>1, <2>1 DEF Matching
    <3> QED
      BY <1>1, <1>11, <2>1, <3>1 DEF RunOK, FetchOK
  <2>4. StoreOK(q)'
    BY <1>1, <1>11, <2>1 DEF RunOK, StoreOK
  <2>5. CommitOK(q)'
    <3> SUFFICES ASSUME sync[q].pc = "commit" PROVE CommitOK(q)'
      BY <2>1 DEF CommitOK
    <3> DEFINE d == sync[q]
    <3>1. \A stamp \in d.stamps : stamp \in Nat /\ stamp <= today
      BY <2>1 DEF RunOK, CommitOK
    <3>2. \A i \in DOMAIN d.rows : NewRowOK(q, i)'
      BY <1>1, <1>2, <2>1 DEF RunOK, CommitOK, NewRowOK
    <3>3. ASSUME ~d.torn, d.full \/ ~missed', NEW i \in DOMAIN licence PROVE Covered(q, i)'
      <4>1. Covered(q, i)
        BY <2>1, <3>3 DEF RunOK, CommitOK
      <4> SUFFICES ASSUME Before(i, q), i \notin DOMAIN d.rows
                   PROVE  \/ d.stamps # {} /\ \A stamp \in d.stamps : licence[i] >= stamp - Overlap
                          \/ /\ licence[i] \in d.stamps /\ i \notin DOMAIN place'
                             /\ <<i, licence[i]>> \in Nowhere
                          \/ ~d.full /\ Settled(i)'
        BY <1>1, <2>1, <4>1 DEF Covered
      <4>2. CASE d.stamps # {} /\ \A stamp \in d.stamps : licence[i] >= stamp - Overlap
        BY <4>2
      <4>3. CASE /\ licence[i] \in d.stamps /\ i \notin DOMAIN place
                 /\ <<i, licence[i]>> \in Nowhere
        <5>1. CASE i \notin DOMAIN place'
          BY <4>3, <5>1
        <5>2. CASE i \in DOMAIN place'
          <6>1. i \in DOMAIN s.rows
            BY <1>2, <4>3, <5>2
          <6>2. NewRowOK(r, i)
            BY <1>1, <6>1 DEF SyncInv, CommitOK
          <6>3. ~Before(i, r)
            BY <4>3, <6>2 DEF NewRowOK
          <6>4. licence[i] >= s.day - MaxLag
            BY <1>4, <1>9, <6>3 DEF Before
          <6>5. \A stamp \in d.stamps : licence[i] >= stamp - Overlap
            BY <1>4, <1>9, <3>1, <6>4
          <6> QED
            BY <4>3, <6>5
        <5> QED
          BY <5>1, <5>2
      <4>4. CASE ~d.full /\ Settled(i)
        BY <1>11, <3>3, <4>4
      <4> QED
        BY <4>1, <4>2, <4>3, <4>4 DEF Covered
    <3> QED
      BY <1>1, <2>1, <3>1, <3>2, <3>3 DEF CommitOK
  <2> QED
    BY <2>2, <2>3, <2>4, <2>5 DEF RunOK
<1>13. \A q \in Syncs : RunOK(q)'
  <2> SUFFICES ASSUME NEW q \in Syncs PROVE RunOK(q)'
    OBVIOUS
  <2>1. CASE sync'[q].pc = "rest"
    BY <2>1 DEF RunOK, GotOK, FetchOK, StoreOK, CommitOK
  <2>2. CASE sync'[q].pc # "rest"
    BY <1>1, <1>12, <2>2 DEF Resting
  <2> QED
    BY <2>1, <2>2
<1>14. NothingFallsBehind'
  <2> SUFFICES ASSUME ~missed', NEW i \in DOMAIN licence
               PROVE  AsListed(i)' \/ licence[i] >= OverlapMark'
    BY <1>1 DEF NothingFallsBehind, AsListed
  <2> SUFFICES ASSUME ~AsListed(i)' PROVE licence[i] >= OverlapMark'
    OBVIOUS
  <2>1. \/ ~Before(i, r)
        \/ /\ i \notin DOMAIN s.rows /\ s.stamps # {}
           /\ \A stamp \in s.stamps : licence[i] >= stamp - Overlap
    BY <1>10 DEF Covered, AsListed, Settled
  <2>2. CASE ~Before(i, r)
    <3>1. licence[i] >= s.day - MaxLag
      BY <1>4, <1>9, <2>2 DEF Before
    <3> QED
      BY <1>4, <1>6, <1>9, <3>1 DEF OverlapMark
  <2>3. CASE s.stamps # {} /\ \A stamp \in s.stamps : licence[i] >= stamp - Overlap
    BY <1>6, <1>9, <2>3 DEF OverlapMark
  <2> QED
    BY <1>10, <2>1, <2>2, <2>3
<1> QED
  BY <1>7, <1>13, <1>14 DEF SyncInv, RunOK

\* However runs overlap, fail and move the watermark back: an update that is not in
\* the stored rows is one the next incremental run asks for (sync_source,
\* overlap_watermark, set_watermark).
THEOREM NothingStaysBehind == MoisSpec => []NothingFallsBehind
<1>1. MoisInit => SyncInv
  <2> SUFFICES ASSUME MoisInit PROVE SyncInv
    OBVIOUS
  <2>1. SyncTypes
    <3>1. DOMAIN licence = {} /\ IsFiniteSet(DOMAIN licence)
      BY FS_EmptySet DEF MoisInit
    <3>2. DOMAIN sync = Syncs /\ \A r \in Syncs : sync[r] = Resting
      BY DEF MoisInit
    <3>3. missed \in BOOLEAN
      BY DEF MoisInit
    <3>4. today = 0 /\ mark = Never
      BY DEF MoisInit
    <3>5. today \in Nat /\ mark \in Nat \union {Never} /\ mark <= today
      BY <3>4 DEF Never
    <3> QED
      BY <3>1, <3>2, <3>3, <3>5 DEF SyncTypes
  <2>2. \A r \in Syncs : RunOK(r)
    BY DEF MoisInit, RunOK, GotOK, FetchOK, StoreOK, CommitOK, Resting
  <2>3. NothingFallsBehind
    BY DEF MoisInit, NothingFallsBehind
  <2> QED
    BY <2>1, <2>2, <2>3 DEF SyncInv, RunOK
<1>2. SyncInv /\ [MoisNext]_moisVars => SyncInv'
  <2> SUFFICES ASSUME SyncInv, [MoisNext]_moisVars PROVE SyncInv'
    OBVIOUS
  <2>1. CASE NextDay
    BY <2>1, NextDayKeeps
  <2>2. CASE \E i \in {v[1] : v \in Versions} : Publish(i) \/ Withdraw(i)
    BY <2>2, PublishKeeps, WithdrawKeeps
  <2>3. ASSUME NEW r \in Syncs, \E full \in BOOLEAN : StartSync(r, full) PROVE SyncInv'
    BY <2>3, StartSyncKeeps
  <2>4. ASSUME NEW r \in Syncs, FetchPage(r) PROVE SyncInv'
    BY <2>4, FetchPageKeeps
  <2>5. ASSUME NEW r \in Syncs, StoreSync(r) PROVE SyncInv'
    BY <2>5, StoreSyncKeeps
  <2>6. ASSUME NEW r \in Syncs, CommitSync(r) PROVE SyncInv'
    BY <2>6, CommitSyncKeeps
  <2>7. ASSUME NEW r \in Syncs, FailSync(r) PROVE SyncInv'
    BY <2>7, RestKeeps DEF FailSync
  <2>8. CASE UNCHANGED moisVars
    <3> USE <2>8 DEF moisVars
    <3>1. SyncTypes'
      BY DEF SyncInv, SyncTypes, Working, Fetching, Resting
    <3>2. \A i \in DOMAIN licence : Settled(i) => Settled(i)'
      BY DEF Settled, AsListed, AtWork, Before
    <3>3. \A q \in Syncs : RunOK(q)'
      BY <3>2, OthersStay DEF SyncInv, RunOK
    <3>4. NothingFallsBehind'
      BY DEF SyncInv, NothingFallsBehind, OverlapMark
    <3> QED
      BY <3>1, <3>3, <3>4 DEF SyncInv, RunOK
  <2> QED
    BY <2>1, <2>2, <2>3, <2>4, <2>5, <2>6, <2>7, <2>8 DEF MoisNext
<1>3. SyncInv => NothingFallsBehind
  BY DEF SyncInv
<1> QED
  BY <1>1, <1>2, <1>3, PTL DEF MoisSpec
===============================================================================
