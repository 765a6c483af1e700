----------------------------- MODULE MCWalkUpload -----------------------------
(* Small instances of the walk upload for TLC: one recorded walk of three
   positions sent in batches of two. *)
EXTENDS WalkUpload, WalkServerProperties

CONSTANTS v1, d1, c1, c2

OneWalk == {v1}
OneDog == {d1}
TwoCalls == {c1, c2}

Position(n, chain) == [client_seq |-> n, chain |-> chain, data |-> n, mock |-> FALSE]

OneRoom ==
    [w \in Walks |-> [dog |-> d1, started |-> 1, ended |-> 4,
                      fixes |-> {Position(0, 0), Position(1, 0), Position(2, 1)}]]

\* What the clients of the upload may send.
ClientRequests ==
    {Ask(w) : w \in Walks} \union {Start(w) : w \in Walks} \union {Finish(w) : w \in Walks}
      \union {Upload(v1, n) : n \in {0, 1}}
==============================================================================
