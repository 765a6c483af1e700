--------------------- MODULE ActivityStatisticsProperties ---------------------
(* What the statistics promise about the policy, the walks and the readers. *)
EXTENDS ActivityStatistics

------------------------------------------------------------------------------
\* The season's stream and the policy

\* Between the opening of the stream and the season's close.
OwnedChanges(changes) ==
    SubSeq(changes, 2, IF Last(changes).kind = "SEASON_CLOSED" THEN Len(changes) - 1
                       ELSE Len(changes))

\* The policy's events before the stream was begun.
BaseEvents == Len(policy.events) - Len(OwnedChanges(stream[Season].changes))

\* No committed stream is one a replay would refuse, so that no scope can end
\* every run before the scopes behind it (append_territory stores what the
\* runner validates later; run_pending stops at the first error).
StreamsReplay ==
    \A s \in Scopes : stream[s] # None => Replayable(s, stream[s])

\* From activation on, every event the policy commits is one change of the
\* season's stream, in the same order and at the same time, the season is closed
\* in both or in neither, and what the stream says is held is what the policy
\* says is owned - whichever writer committed and whatever it raced
\* (geo_policy.py append_event and finalize, the deferred triggers of 0034).
StreamFollowsPolicy ==
    /\ StreamsReplay
    /\ stream[Season] # None =>
      LET changes == stream[Season].changes
          owned == OwnedChanges(changes)
          periods == Replay(changes, stream[Season].start).periods
      IN  /\ BaseEvents >= 0
          /\ \A i \in DOMAIN owned :
               LET e == policy.events[BaseEvents + i]
               IN  <<owned[i].at, owned[i].site, owned[i].pet, owned[i].kind>>
                     = <<e.at, e.site, e.pet, e.kind>>
          /\ (Last(changes).kind = "SEASON_CLOSED") = (policy.status = "FINALIZED")
          /\ policy.status = "ACTIVE" =>
               \A s \in Sites :
                 policy.owner[s] = IF Open(periods, s) = {} THEN None
                                   ELSE LET p == CHOOSE q \in Open(periods, s) : TRUE
                                        IN  [pet |-> p.pet, verified |-> p.verified # NoTime]

\* Who owned a site at an instant, told by the policy's own events.
OwnerAt(site, t) ==
    LET told == {i \in DOMAIN policy.events :
                   policy.events[i].site = site /\ (i <= BaseEvents \/ policy.events[i].at <= t)}
    IN  IF told = {} THEN None
        ELSE [pet |-> policy.events[Max(told)].pet, verified |-> policy.events[Max(told)].verified]

Instants(row) == Sites \X {t \in row.start..(row.through - 1) : t < Ends}

\* What a checkpoint tells of a pet is final: the time it held sites, counted
\* here instant by instant from all the policy has decided since, up to the
\* confirmed cut, does not change when later claims arrive, clocks step back or
\* the season ends (confirm_territory, refresh, summarize_territory).
PublishedTotalsAreFinal ==
    \A g \in Generations, p \in Pets :
      LET row == published[<<g, Season>>]
          summary == Summary(row.rows, row.counts, p, row.start, row.through)
      IN  row # None =>
            /\ summary.held_ms =
                 Cardinality({i \in Instants(row) : OwnerAt(i[1], i[2]) # None
                                                      /\ OwnerAt(i[1], i[2]).pet = p})
            /\ summary.verified_ms =
                 Cardinality({i \in Instants(row) :
                                OwnerAt(i[1], i[2]) = [pet |-> p, verified |-> TRUE]})
            /\ summary.owned <= summary.peak
            /\ summary.takeovers <= summary.acquisitions

\* What the policy could append when it was decided can be appended until it
\* commits: no cut and no other producer gets between the time a claim reads and
\* its append, so that a claim is never lost to the statistics (the season
\* barrier of capture_statistics_cut, event_before_confirmed_cut).
DecisionsAppend ==
    [][\A w \in Workers :
         (/\ job[w].pc = "append" /\ job[w].op = "claim" /\ job'[w] = job[w]
          /\ Appendable(ChangeOf(job[w])))
         => stream'[Season].through <= job[w].at]_vars

------------------------------------------------------------------------------
\* Readers and runners

\* The rows a reader is about to get are those of the checkpoint it has read,
\* whatever the runners publish meanwhile (read, under the generation's lock).
ReadsAreWhole ==
    \A w \in Workers :
      job[w].pc = "rows" =>
        LET j == job[w]
            changes == SubSeq(stream[j.scope].changes, 1, j.revision)
            rows == published[<<j.generation, j.scope>>].rows
        IN  rows = IF j.scope = Season THEN Replay(changes, stream[Season].start).periods
                   ELSE Contributions(changes, generation[j.generation])

\* Every generation counts a walk at most once, as its selection stood at the
\* checkpoint, a withdrawn walk not at all; and the session row of a walk is the
\* one of its last analysis (refresh, record_session).
WalksCountOnce ==
    \A w \in Walks :
      /\ \A g \in Generations :
           published[<<g, w>>] # None =>
             LET row == published[<<g, w>>]
                 head == stream[w].changes[row.revision]
             IN  {c.source : c \in row.rows} = IF head = None THEN {} ELSE {head}
      /\ \A i \in DOMAIN Changes(w) :
           LET analysis == Changes(w)[i]
           IN  analysis # None /\ (\A j \in DOMAIN Changes(w) : j > i => Changes(w)[j] = None) =>
                 session[analysis.client] = Payload(w, analysis)

\* Whenever it is looked at, a projection is the fold of its stream up to its
\* checkpoint: to the reader between two statements and in the tables.
ProjectionsAreWhole == ReadsAreWhole /\ WalksCountOnce
==============================================================================
