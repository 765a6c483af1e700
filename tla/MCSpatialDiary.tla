---------------------------- MODULE MCSpatialDiary ----------------------------
(* Small instances of the diary for TLC. *)
EXTENDS SpatialDiaryProperties, TLC

CONSTANTS h1, h2, w1, w2, o1, o2, o3, a1, a2, a3, a4, a5, p1

MCHandlers == {h1, h2}
MCCandidates == {<<w1, 1>>, <<w1, 2>>, <<w2, 1>>}
MCNoPinWalks == {w2}
MCClock == 0..1
OneTick == {0}

Offer(id, walk, source) == [op |-> "offer", id |-> id, walk |-> walk, source |-> source]
Interact(id, offer, kind) == [op |-> "interact", id |-> id, offer |-> offer, kind |-> kind]
Attest(id, offer, said, pin) ==
    [op |-> "attest", id |-> id, offer |-> offer, said |-> said, pin |-> pin]
Correct(id, pin, old, said) ==
    [op |-> "correct", id |-> id, pin |-> pin, supersedes |-> old, said |-> said]
Publish(id, walk, pins, text) ==
    [op |-> "publish", id |-> id, walk |-> walk, pins |-> pins, text |-> text]

\* Two ids for one moment, an id used twice, rival attestations of one offer,
\* one pin id wanted by two offers, a walk that may not be pinned, a journal of
\* the pin's walk and of another, rival corrections of the head, a correction's
\* id used for two heads, and one correction too many.
Reviewing ==
    {Offer(o1, w1, 1), Offer(o2, w1, 1), Offer(o1, w2, 1), Offer(o3, w1, 2),
     Interact(1, o1, "dismissed"),
     Attest(a1, o1, "mine", p1), Attest(a2, o1, "other", None),
     Attest(a2, o3, "other", p1), Publish(3, w1, {p1}, "x"), Publish(3, w2, {p1}, "x"),
     Correct(a3, p1, a1, "x"), Correct(a4, p1, a1, "x"),
     Correct(a4, p1, a3, "x"), Correct(a5, p1, a4, "x")}

HandlerSymmetry == Permutations(Handlers)
==============================================================================
