--------------------------- MODULE OwnershipLedger ---------------------------
(***************************************************************************)
(* What the territory policy promises to the rest of the system, with no   *)
(* transactions, locks or clocks: a season opens once and closes once; in  *)
(* between, each claim event is decided at most once, in one atomic step   *)
(* that moves at most one site and credits only the pet that claimed.      *)
(***************************************************************************)
EXTENDS Integers

CONSTANTS Seasons, Sites, Pets, Events,
          ClaimPoints, TakeoverPoints,
          None

VARIABLES
    phase,      \* "NONE", "ACTIVE" or "FINALIZED"
    holder,     \* [Seasons -> [Sites -> [pet, verified] or None]]
    decided,    \* [Seasons -> [Events -> [pet, bonus] or None]]
    points      \* [Seasons -> [Pets -> Nat]], the bonus points credited so far

vars == <<phase, holder, decided, points>>

Holder == [pet: Pets, verified: BOOLEAN]

Init ==
    /\ phase = [s \in Seasons |-> "NONE"]
    /\ holder = [s \in Seasons |-> [x \in Sites |-> None]]
    /\ decided = [s \in Seasons |-> [e \in Events |-> None]]
    /\ points = [s \in Seasons |-> [p \in Pets |-> 0]]

\* A season may open with owners carried over, but nobody is paid for them.
Open(s) ==
    /\ phase[s] = "NONE"
    /\ phase' = [phase EXCEPT ![s] = "ACTIVE"]
    /\ \E carried \in [Sites -> Holder \union {None}] : holder' = [holder EXCEPT ![s] = carried]
    /\ UNCHANGED <<decided, points>>

Record(s, e, p, bonus) ==
    /\ phase[s] = "ACTIVE"
    /\ decided[s][e] = None
    /\ decided' = [decided EXCEPT ![s][e] = [pet |-> p, bonus |-> bonus]]
    /\ points' = [points EXCEPT ![s][p] = @ + bonus]
    /\ UNCHANGED phase

\* A free site can be marked; only a photo displaces another pet.
Take(s, e, x, p) ==
    \E verified \in BOOLEAN :
      /\ holder[s][x] # None => holder[s][x].pet # p /\ verified
      /\ \E bonus \in {0, IF holder[s][x] = None THEN ClaimPoints ELSE TakeoverPoints} :
           Record(s, e, p, bonus)
      /\ holder' = [holder EXCEPT ![s][x] = [pet |-> p, verified |-> verified]]

\* The owner certifies a site it had only marked.
Certify(s, e, x, p) ==
    /\ holder[s][x] = [pet |-> p, verified |-> FALSE]
    /\ Record(s, e, p, 0)
    /\ holder' = [holder EXCEPT ![s][x].verified = TRUE]

\* The owner claims what it has already: on record, without effect.
Keep(s, e, x, p) ==
    /\ holder[s][x] # None /\ holder[s][x].pet = p
    /\ Record(s, e, p, 0)
    /\ UNCHANGED holder

Close(s) ==
    /\ phase[s] = "ACTIVE"
    /\ phase' = [phase EXCEPT ![s] = "FINALIZED"]
    /\ holder' = [holder EXCEPT ![s] = [x \in Sites |-> None]]
    /\ UNCHANGED <<decided, points>>

Next ==
    \E s \in Seasons :
      \/ Open(s)
      \/ Close(s)
      \/ \E e \in Events, x \in Sites, p \in Pets :
           Take(s, e, x, p) \/ Certify(s, e, x, p) \/ Keep(s, e, x, p)

Spec == Init /\ [][Next]_vars
==============================================================================
