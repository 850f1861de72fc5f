----------------------------- MODULE Comparison -----------------------------
(***************************************************************************)
(* How a StatefulSet is compared with the custom resource (CR): lists of   *)
(* environment variables and of resources.  A container gets the variables *)
(* that the operator sets, followed by those of the CR; of two variables   *)
(* with one name Kubernetes uses the last.                                 *)
(***************************************************************************)
EXTENDS Integers, Sequences, FiniteSets

\* getEnvValue: the first variable of that name.
GetEnvValue(envs, name, empty) ==
    IF \E i \in DOMAIN envs : envs[i].name = name
    THEN LET first == CHOOSE i \in DOMAIN envs :
                        /\ envs[i].name = name
                        /\ \A j \in DOMAIN envs : envs[j].name = name => i <= j
         IN  envs[first].value
    ELSE empty

\* oldMap[e.name] = e: the last variable of that name is e.
InOldMap(old, e) ==
    \E i \in DOMAIN old :
        old[i] = e /\ \A j \in DOMAIN old : old[j].name = e.name => j <= i

\* envVarListNeedUpdate: variables of the CR that are new or have a new value.
EnvVarListNeedUpdate(old, new) == \E i \in DOMAIN new : ~InOldMap(old, new[i])

\* resourceListEqual: quantities are compared by their amount, however they are
\* written.
ResourceListEqual(lhs, rhs) ==
    /\ Cardinality(DOMAIN lhs) = Cardinality(DOMAIN rhs)
    /\ \A r \in DOMAIN lhs : r \in DOMAIN rhs /\ lhs[r].amount = rhs[r].amount

-----------------------------------------------------------------------------
OneOfEachName(envs) == \A i, j \in DOMAIN envs : envs[i].name = envs[j].name => i = j

\* What a process finds in its environment.
Effective(envs, name) ==
    {envs[i].value : i \in {j \in DOMAIN envs :
        envs[j].name = name /\ \A k \in DOMAIN envs : envs[k].name = name => k <= j}}

SmallEnvs == UNION {[1..n -> [name : {"a", "b"}, value : {1, 2}]] : n \in 0..2}

SmallLists == UNION {[d -> [amount : {1, 2}, format : {"DecimalSI", "BinarySI"}]] :
                       d \in SUBSET {"cpu", "memory"}}

\* With one variable of each name in the CR, a StatefulSet is replaced exactly
\* when that changes what the pods see of some variable of the CR, and a
\* second look finds nothing to do.
ASSUME ReplacesWhatDiffers ==
    \A base, old, new \in SmallEnvs :
        OneOfEachName(new) =>
            /\ EnvVarListNeedUpdate(base \o old, new) <=>
                 \E i \in DOMAIN new :
                   Effective(base \o old, new[i].name) # Effective(base \o new, new[i].name)
            /\ ~EnvVarListNeedUpdate(base \o new, new)

\* The variables of the CR do not hide the ones that the operator has set when
\* it looks for maxmemory, redirection or threads.
ASSUME FindsItsOwn ==
    \A base, new \in SmallEnvs : \A i \in DOMAIN base :
        GetEnvValue(base \o new, base[i].name, 0) = GetEnvValue(base, base[i].name, 0)

\* Equal resource lists have the same names with the same amounts.
ASSUME ResourcesByAmount ==
    \A lhs, rhs \in SmallLists :
        ResourceListEqual(lhs, rhs) <=>
            /\ DOMAIN lhs = DOMAIN rhs
            /\ \A r \in DOMAIN lhs : lhs[r].amount = rhs[r].amount
=============================================================================
