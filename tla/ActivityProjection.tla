-------------------------- MODULE ActivityProjection --------------------------
(***************************************************************************)
(* The pure half of the activity statistics: the replay of one season's    *)
(* ownership stream into holding periods, the projection of one walk's     *)
(* selections into its contribution, and the totals read from them.  A     *)
(* stream is the sequence of its changes; the revision of a change is its  *)
(* place in it.                                                            *)
(***************************************************************************)
EXTENDS Integers, FiniteSets, SequencesExt

CONSTANTS
    Pets, Sites,
    Starts, Ends,       \* the season window [Starts, Ends)
    None

NoTime == -1

\* ended = NoTime while the pet still holds the site, verified = NoTime until a
\* photo certifies it.
Period == [start: Nat, site: Sites, pet: Pets, started: Nat,
           ended: Nat \union {NoTime}, verified: Nat \union {NoTime},
           imported: BOOLEAN, takeover: BOOLEAN]

Initialized(at, owners) == [kind |-> "INITIALIZED", at |-> at, owners |-> owners]

Owned(kind, at, site, pet, previous, verified) ==
    [kind |-> kind, at |-> at, site |-> site, pet |-> pet,
     previous |-> previous, verified |-> verified]

SeasonClosed == [kind |-> "SEASON_CLOSED", at |-> Ends]

------------------------------------------------------------------------------
\* Replay of a season

Open(periods, site) == {p \in periods : p.site = site /\ p.ended = NoTime}

HolderOf(periods, site) ==
    IF Open(periods, site) = {} THEN None
    ELSE (CHOOSE p \in Open(periods, site) : TRUE).pet

OwnedCount(periods, pet) == Cardinality({p \in periods : p.pet = pet /\ p.ended = NoTime})

NewPeriod(revision, at, site, pet, verified, imported, takeover) ==
    [start |-> revision, site |-> site, pet |-> pet, started |-> at, ended |-> NoTime,
     verified |-> IF verified THEN at ELSE NoTime,
     imported |-> imported, takeover |-> takeover]

ClosePeriods(periods, sites, at) ==
    {IF p.ended = NoTime /\ p.site \in sites THEN [p EXCEPT !.ended = at] ELSE p : p \in periods}

\* The state of a replay.  ok turns FALSE at the first change that does not fit;
\* counts are the numbers of sites each pet has held, for its peak.
Blank(start) ==
    [ok |-> TRUE, revision |-> 0, last |-> start, closed |-> FALSE,
     periods |-> {}, counts |-> {}]

FitsOwned(run, e) ==
    LET held == Open(run.periods, e.site)
    IN  /\ e.at < Ends
        /\ e.previous = HolderOf(run.periods, e.site)
        /\ \/ e.kind = "OWNERSHIP_CHANGED" /\ e.previous # e.pet
           \/ /\ e.kind = "CERTIFIED" /\ e.previous = e.pet
              /\ e.verified /\ \A p \in held : p.verified = NoTime

Fits(run, start, e) ==
    /\ ~run.closed
    /\ run.last <= e.at
    /\ (run.revision = 0) = (e.kind = "INITIALIZED")
    /\ e.kind = "INITIALIZED" => e.at = start
    /\ e.kind = "SEASON_CLOSED" => e.at = Ends
    /\ e.kind \in {"OWNERSHIP_CHANGED", "CERTIFIED"} => FitsOwned(run, e)

PeriodsAfter(run, e) ==
    LET revision == run.revision + 1
    IN  CASE e.kind = "INITIALIZED" ->
               {NewPeriod(revision, e.at, s, e.owners[s].pet, e.owners[s].verified, TRUE, FALSE) :
                  s \in {t \in Sites : e.owners[t] # None}}
          [] e.kind = "SEASON_CLOSED" -> ClosePeriods(run.periods, Sites, e.at)
          [] e.kind = "OWNERSHIP_CHANGED" ->
               ClosePeriods(run.periods, {e.site}, e.at) \union
               {NewPeriod(revision, e.at, e.site, e.pet, e.verified, FALSE, e.previous # None)}
          [] e.kind = "CERTIFIED" ->
               {IF p \in Open(run.periods, e.site) THEN [p EXCEPT !.verified = e.at] ELSE p :
                  p \in run.periods}

Apply(run, e) ==
    LET periods == PeriodsAfter(run, e)
    IN  [ok |-> TRUE, revision |-> run.revision + 1, last |-> e.at,
         closed |-> e.kind = "SEASON_CLOSED", periods |-> periods,
         counts |-> run.counts \union {<<p, OwnedCount(periods, p)>> : p \in Pets}]

Peak(counts, pet) == Max({0} \union {c[2] : c \in {d \in counts : d[1] = pet}})

Advance(run, start, e) ==
    IF run.ok /\ Fits(run, start, e) THEN Apply(run, e) ELSE [run EXCEPT !.ok = FALSE]

\* The sets of one element make TLC evaluate every prefix once.
Replay(changes, start) ==
    LET Runs[i \in 0..Len(changes)] ==
          IF i = 0 THEN Blank(start)
          ELSE CHOOSE next \in {Advance(run, start, changes[i]) : run \in {Runs[i - 1]}} : TRUE
    IN  Runs[Len(changes)]

\* project_territory answers exactly when this holds; every other call raises.
Confirmable(changes, start, through) ==
    LET run == Replay(changes, start)
    IN  /\ run.ok /\ run.revision > 0
        /\ start <= through /\ run.last <= through
        /\ through < Ends \/ run.closed

\* Half-open overlap of a period with [start, through).
HeldTime(p, start, through) ==
    LET from == Max({p.started, start})
        to   == IF p.ended = NoTime THEN through ELSE Min({p.ended, through})
    IN  [held |-> Max({0, to - from}),
         verified |-> IF p.verified = NoTime THEN 0
                      ELSE Max({0, to - Max({from, p.verified})})]

Summary(periods, counts, pet, start, through) ==
    LET mine == {p \in periods : p.pet = pet}
    IN  [acquisitions |-> Cardinality({p \in mine : ~p.imported}),
         takeovers    |-> Cardinality({p \in mine : p.takeover}),
         held_ms      |-> SumFunction([p \in mine |-> HeldTime(p, start, through).held]),
         verified_ms  |-> SumFunction([p \in mine |-> HeldTime(p, start, through).verified]),
         owned        |-> OwnedCount(mine, pet),
         peak         |-> Peak(counts, pet)]

------------------------------------------------------------------------------
\* Projection of one walk

\* Everything of a source that its analysis identity fixes; the pets that took
\* part are a relation of their own and may be corrected.
Evidence(source) == [source EXCEPT !.pets = {}]

WalkIdentity(source) == <<source.client, source.span>>

Sources(selections) == {selections[i] : i \in DOMAIN selections} \ {None}

\* project_walks raises unless this holds: a withdrawal is the last word, an
\* analysis keeps its evidence and a walk its client and its times.
Selectable(selections) ==
    /\ \A i \in DOMAIN selections : selections[i] = None => i = Len(selections)
    /\ \A a, b \in Sources(selections) :
         /\ a.analysis = b.analysis => Evidence(a) = Evidence(b)
         /\ WalkIdentity(a) = WalkIdentity(b)

Exclusion(source, versions) ==
    IF source.versions # versions THEN "unsupported_analysis_versions"
    ELSE IF source.origin # "device" THEN "non_device_evidence"
    ELSE IF ~source.measured THEN "unobserved"
    ELSE None

\* At most one row: the head, unless it withdraws the walk.
Contributions(selections, versions) ==
    LET n == Len(selections)
    IN  IF n = 0 \/ Last(selections) = None THEN {}
        ELSE {[source |-> Last(selections), selection_revision |-> n,
               exclusion |-> Exclusion(Last(selections), versions)]}
==============================================================================
