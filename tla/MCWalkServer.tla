----------------------------- MODULE MCWalkServer -----------------------------
(* Small instances of the walk endpoints for TLC. *)
EXTENDS WalkServerProperties, TLC

CONSTANTS v1, v2, d1, d2, c1, c2, c3

OneWalk == {v1}
MCDogs == {d1, d2}
ThreeCalls == {c1, c2, c3}

Position(n, chain, mock) == [client_seq |-> n, chain |-> chain, data |-> n, mock |-> mock]

Upload(batch) == [op |-> "fixes", walk |-> v1, batch |-> batch]
Begin(dog) == [op |-> "start", walk |-> v1, dog |-> dog, started |-> 1]
End(ended) == [op |-> "finish", walk |-> v1, ended |-> ended]
Look == [op |-> "read", walk |-> v1]

p0 == Position(0, 0, FALSE)
p1 == Position(1, 0, FALSE)
p2 == Position(2, 1, FALSE)

\* Overlapping batches, one position sent again with other data, a simulated
\* one, two different ends and one before the start.
MixedRequests ==
    {Begin(d1), Begin(d2), Upload({p0, p1}), Upload({p1, p2}),
     Upload({[p1 EXCEPT !.data = 9]}), Upload({Position(3, 1, TRUE)}),
     End(0), End(2), End(3), Look}

CallSymmetry == Permutations(Calls)
==============================================================================
