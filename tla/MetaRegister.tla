---------------------------- MODULE MetaRegister ----------------------------
(***************************************************************************)
(* What the metadata server promises to the brokers, abstractly: one copy  *)
(* of the metadata, initialised once, to which changes are added one at a  *)
(* time; a change that was acknowledged is part of it for good.  Metadata  *)
(* is the set of the changes it includes; {} is the empty store.           *)
(***************************************************************************)
CONSTANT Changes

VARIABLES
    data,   \* the changes the metadata includes
    acked   \* the changes acknowledged to a broker

Init == data = {} /\ acked = {}

\* An accepted update is computed from the metadata it replaces.
Apply(c) ==
    /\ data' = data \cup {c}
    /\ UNCHANGED acked

\* Only what the metadata includes is acknowledged.
Acknowledge(c) ==
    /\ c \in data
    /\ acked' = acked \cup {c}
    /\ UNCHANGED data

Next == \E c \in Changes : Apply(c) \/ Acknowledge(c)

Spec == Init /\ [][Next]_<<data, acked>>
=============================================================================
