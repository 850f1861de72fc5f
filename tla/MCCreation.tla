----------------------------- MODULE MCCreation -----------------------------
(***************************************************************************)
(* Creation with one object of each kind that the operator treats in its   *)
(* own way: not watched, and the two watched kinds.                        *)
(***************************************************************************)
EXTENDS Creation

MCKinds == <<"ConfigMap", "Service", "StatefulSet">>

\* They are made in this order in the code.
ASSUME InTheOrderOfTheCode ==
    \E a, b, c \in 1..Len(CreateResources) :
        a < b /\ b < c /\ MCKinds = <<CreateResources[a], CreateResources[b], CreateResources[c]>>
=============================================================================
