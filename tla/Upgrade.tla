------------------------------ MODULE Upgrade ------------------------------
(***************************************************************************)
(* What a rolling update promises, abstractly: the parts of a cluster take *)
(* over versions one part at a time, each one after the part it depends on *)
(* has taken that version or a later one over, and none ever goes back to  *)
(* an earlier version.                                                     *)
(***************************************************************************)
EXTENDS Integers

CONSTANTS
    Parts,     \* the parts of the cluster
    First,     \* the part that depends on no other
    Previous   \* Previous[p]: the part that p depends on

VARIABLES
    want,   \* the version that was asked for
    have    \* have[p]: the version that part p is given

Init == want = 0 /\ have = [p \in Parts |-> 0]

\* Versions are numbered in the order in which they are asked for.
Ask ==
    /\ want' \in Nat
    /\ want' > want
    /\ UNCHANGED have

Limit(p) == IF p = First THEN want ELSE have[Previous[p]]

Install(p) ==
    /\ \E v \in (have[p] + 1)..Limit(p) : have' = [have EXCEPT ![p] = v]
    /\ UNCHANGED want

Next == Ask \/ \E p \in Parts : Install(p)

Spec == Init /\ [][Next]_<<want, have>>
=============================================================================
