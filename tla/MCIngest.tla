------------------------------- MODULE MCIngest -------------------------------
(* The facility jobs and the licence registers for TLC.  They share no row, so *)
(* each behaviour is one of either.                                            *)
EXTENDS MCFacilityIngest, MoisSync

CONSTANTS r1, r2

VARIABLE part   \* whose behaviour it is

MCSyncs == {r1, r2}

\* A licence is updated and loses its coordinates; another comes before it.
MCVersions == {<<1, 3>>, <<2, 0>>, <<2, 1>>}
MCNowhere == {<<2, 1>>}

\* The two runs of the registers are alike.
MCSymmetry == Permutations(MCSyncs)

Parts == {"lists", "facilities", "registers"}

\* Lists: two items on pages of one, whose KTO runs are alone and ask for the
\* details of one; the other may leave and come back.  Facilities: one item that
\* stays listed and shown, and all jobs; it loses its detail when it changes, and
\* a detail may not be answered.
MCInit ==
    /\ Init /\ MoisInit
    /\ \A i \in Kto : listing[i].detail # None
    /\ part \in Parts
    /\ Range(list) = IF part = "facilities" THEN {k1} ELSE Kto

Lists ==
    \/ \E i \in Kto : Change(i) /\ listing'[i].detail # None
    \/ Leave(k2) \/ Return(k2)
    \/ \E mode \in {"incremental", "full"} : StartKto(mode)
    \/ ReadPage
    \/ StoreList /\ job'["kto"].asked \subseteq {k1}
    \/ FetchDetail(k1, TRUE)
    \/ StartRelink \/ Relink("kto") \/ Commit("kto") \/ Crash("kto")

Facilities ==
    \/ Change(k1) /\ list' = list /\ listing'[k1].shown /\ listing'[k1].detail = None
    \/ KtoNext
    \/ OtherNext

MCNext ==
    \/ part = "lists" /\ Lists /\ UNCHANGED <<moisVars, part>>
    \/ part = "facilities" /\ Facilities /\ UNCHANGED <<moisVars, part>>
    \/ part = "registers" /\ MoisNext /\ UNCHANGED <<vars, part>>

MCSpec == MCInit /\ [][MCNext]_<<vars, moisVars, part>>
==============================================================================
