------------------------------ MODULE Checker ------------------------------
(***************************************************************************)
(* The checker of the chaos test: kvChecker goroutines that write to and   *)
(* read from an Undermoon cluster, each on keys of its own, and stop all   *)
(* together at the first error, after which what MONITOR showed is dumped. *)
(* External is the cluster, which answers, redirects, fails with or        *)
(* without effect, and in a failover may lose what it had acknowledged.    *)
(***************************************************************************)
EXTENDS Integers, FiniteSets, RingBuf

CONSTANTS
    Checkers,       \* ids, 3 in the code
    slotNumber,     \* slots of the cluster
    slotKeysNum,    \* keys of a checker in a slot, 8 in the code
    luaKeysNum,     \* keys of a checker for scripts
    keysNum,        \* keys of a command, 10 in the code
    monitorEnabled, \* there are monitor addresses and a buffer
    maxRetryTimes,  \* of a command that is redirected
    MaxWrites,      \* bound on the checks that write
    MaxLosses       \* bound on what the cluster loses

ASSUME CheckerAssumption ==
    /\ IsFiniteSet(Checkers)
    /\ {slotNumber, slotKeysNum, luaKeysNum, keysNum, maxRetryTimes} \subseteq Nat \ {0}
    /\ monitorEnabled \in BOOLEAN
    /\ {MaxWrites, MaxLosses} \subseteq Nat

VARIABLES
    store,      \* the cluster: the value of every key
    keys,       \* of every checker: the value it expects of its keys
    luaValue,   \* of every checker: the value it expects of its lua keys
    pc,
    op, cmd, todo,  \* check under way: command sent, keys still to send
    tries,      \* i of Exec
    result,     \* what loopCheck returned
    cancelled,  \* ctx of the errgroup
    dumped,     \* the data of the monitors is on disk
    lost,       \* keys the cluster has lost a value of
    writes

checkVars == <<op, cmd, todo, tries>>
vars == <<store, keys, luaValue, pc, checkVars, result, cancelled, dumped, lost, writes>>

Nil == 0                \* nil2Empty: no value and "" are one
Values == 1..2          \* of a key, told apart from the one before

Slots == 0..(slotNumber - 1)
KeyIds == [slot : Slots, id : 0..(slotKeysNum - 1)]
LuaIds == [slot : {slotNumber}, id : 0..(luaKeysNum - 1)]

\* genKey and genLuaKey.
GenKey_NoId(ck, k) ==   \* mutant: the keys are shared
    [ck |-> -1, slot |-> k.slot, id |-> k.id]
GenKey(ck, k) == [ck |-> ck, slot |-> k.slot, id |-> k.id]

AllKeys == {GenKey(ck, k) : ck \in Checkers, k \in KeyIds \cup LuaIds}

\* genNewValue: one that was not there before.
NewValue(v) == IF v = 1 THEN 2 ELSE 1

Expected(ck, k) == IF k \in LuaIds THEN luaValue[ck] ELSE keys[ck][k]

Writes == {"SET", "MSET", "LuaMSET", "DEL"}
Reads == {"GET", "MGET", "LuaMGET"}
NoOp == "none"
OneByOne == {"SET", "GET"}

TypeOK ==
    /\ store \in [AllKeys -> Values \cup {Nil}]
    /\ keys \in [Checkers -> [KeyIds -> Values \cup {Nil}]]
    /\ luaValue \in [Checkers -> Values \cup {Nil}]
    /\ pc \in [Checkers -> {"loopCheck", "Exec", "returned"}]
    /\ op \in [Checkers -> Writes \cup Reads \cup {NoOp}]
    /\ cmd \in [Checkers -> SUBSET (KeyIds \cup LuaIds)]
    /\ todo \in [Checkers -> SUBSET KeyIds]
    /\ tries \in [Checkers -> 0..(maxRetryTimes - 1)]
    /\ result \in [Checkers -> {"running", "exit", "error", "INCONSISTENT"}]
    /\ cancelled \in BOOLEAN
    /\ dumped \in BOOLEAN
    /\ lost \subseteq AllKeys
    /\ writes \in 0..MaxWrites

Init ==
    /\ store = [k \in AllKeys |-> Nil]
    /\ keys = [ck \in Checkers |-> [k \in KeyIds |-> Nil]]
    /\ luaValue = [ck \in Checkers |-> Nil]
    /\ pc = [ck \in Checkers |-> "loopCheck"]
    /\ op = [ck \in Checkers |-> NoOp]
    /\ cmd = [ck \in Checkers |-> {}]
    /\ todo = [ck \in Checkers |-> {}]
    /\ tries = [ck \in Checkers |-> 0]
    /\ result = [ck \in Checkers |-> "running"]
    /\ cancelled = FALSE
    /\ dumped = FALSE
    /\ lost = {}
    /\ writes = 0

-----------------------------------------------------------------------------
(* Choosing a check: the random choices of checkKeyValue *)

\* randomChooseKeys draws keysNum times, the same key perhaps twice.
RandomChooseKeys ==
    {ks \in SUBSET KeyIds : ks # {} /\ Cardinality(ks) <= keysNum}

\* randomChooseKeysInSameSlot: as many as there are, keysNum at most.
RandomChooseKeysInSameSlot ==
    UNION {{ks \in SUBSET {k \in KeyIds : k.slot = s} :
              Cardinality(ks) = IF keysNum < slotKeysNum THEN keysNum ELSE slotKeysNum} :
           s \in Slots}

KeysFor(o) ==
    CASE o \in OneByOne -> RandomChooseKeys
      [] o \in {"MSET", "MGET", "DEL"} -> RandomChooseKeysInSameSlot
      [] o \in {"LuaMSET", "LuaMGET"} -> {LuaIds}

\* The next command of a check that has to deal with the keys ks: the range
\* over a map takes them in any order.
Send(ck, o, ks) ==
    /\ \E now \in (IF o \in OneByOne THEN {{k} : k \in ks} ELSE {ks}) :
         /\ cmd' = [cmd EXCEPT ![ck] = now]
         /\ todo' = [todo EXCEPT ![ck] = ks \ now]
    /\ op' = [op EXCEPT ![ck] = o]
    /\ tries' = [tries EXCEPT ![ck] = 0]

\* loopCheck and checkKeyValue up to the first command.  The context is looked
\* at here, at the top of the loop and in WaitN, and nowhere later.
CheckKeyValue(ck, o) ==
    /\ pc[ck] = "loopCheck" /\ ~cancelled
    /\ IF o \in Writes THEN writes < MaxWrites /\ writes' = writes + 1 ELSE UNCHANGED writes
    /\ \E ks \in KeysFor(o) : Send(ck, o, ks)
    /\ pc' = [pc EXCEPT ![ck] = "Exec"]
    /\ UNCHANGED <<store, keys, luaValue, result, cancelled, dumped, lost>>

\* No check is under way.
Cleared(ck) ==
    /\ op' = [op EXCEPT ![ck] = NoOp]
    /\ cmd' = [cmd EXCEPT ![ck] = {}]
    /\ todo' = [todo EXCEPT ![ck] = {}]
    /\ tries' = [tries EXCEPT ![ck] = 0]

\* loopCheck returns; the errgroup cancels the context at the first error.
Return_NoCancel(ck, res) ==   \* mutant: a plain WaitGroup
    /\ pc' = [pc EXCEPT ![ck] = "returned"]
    /\ result' = [result EXCEPT ![ck] = res]
    /\ UNCHANGED cancelled
    /\ Cleared(ck)
Return(ck, res) ==
    /\ pc' = [pc EXCEPT ![ck] = "returned"]
    /\ result' = [result EXCEPT ![ck] = res]
    /\ cancelled' = TRUE
    /\ Cleared(ck)

Exit(ck) ==
    /\ pc[ck] = "loopCheck" /\ cancelled
    /\ Return(ck, "exit")
    /\ UNCHANGED <<store, keys, luaValue, dumped, lost, writes>>

-----------------------------------------------------------------------------
(* Exec: the answers of the cluster *)

\* What a write puts into every key of the command.
Written(ck) ==
    [k \in cmd[ck] |-> IF op[ck] = "DEL" THEN Nil ELSE NewValue(Expected(ck, k))]

\* A command executes on the node of its slot.
Execute(ck) ==
    store' = IF op[ck] \in Writes
             THEN [g \in AllKeys |->
                     IF \E k \in cmd[ck] : GenKey(ck, k) = g
                     THEN Written(ck)[CHOOSE k \in cmd[ck] : GenKey(ck, k) = g]
                     ELSE store[g]]
             ELSE store

\* The checker notes what it has written.
Note(ck) ==
    /\ keys' = IF op[ck] \in {"SET", "MSET", "DEL"}
               THEN [keys EXCEPT ![ck] = [k \in KeyIds |->
                        IF k \in cmd[ck] THEN Written(ck)[k] ELSE @[k]]]
               ELSE keys
    /\ luaValue' = IF op[ck] = "LuaMSET" THEN [luaValue EXCEPT ![ck] = NewValue(@)] ELSE luaValue

Inconsistent_Present(ck) ==   \* mutant: only values that are there are compared
    /\ op[ck] \in Reads
    /\ \E k \in cmd[ck] : store[GenKey(ck, k)] \notin {Nil, Expected(ck, k)}
Inconsistent(ck) ==
    /\ op[ck] \in Reads
    /\ \E k \in cmd[ck] : store[GenKey(ck, k)] # Expected(ck, k)

\* The next command of the check, or back to the loop.
Continue(ck) ==
    /\ IF todo[ck] # {}
       THEN Send(ck, op[ck], todo[ck]) /\ UNCHANGED pc
       ELSE Cleared(ck) /\ pc' = [pc EXCEPT ![ck] = "loopCheck"]
    /\ UNCHANGED <<result, cancelled>>

Answered(ck) ==
    /\ pc[ck] = "Exec"
    /\ Execute(ck)
    /\ Note(ck)
    /\ IF Inconsistent(ck) THEN Return(ck, "INCONSISTENT") ELSE Continue(ck)
    /\ UNCHANGED <<dumped, lost, writes>>

LastTry_OneMore(ck) ==   \* mutant: off by one
    tries[ck] = maxRetryTimes
LastTry(ck) == tries[ck] + 1 = maxRetryTimes

\* MOVED: the same command to another node, maxRetryTimes in all.
Moved(ck) ==
    /\ pc[ck] = "Exec"
    /\ IF LastTry(ck)
       THEN Return(ck, "error")
       ELSE /\ tries' = [tries EXCEPT ![ck] = @ + 1]
            /\ UNCHANGED <<pc, op, cmd, todo, result, cancelled>>
    /\ UNCHANGED <<store, keys, luaValue, dumped, lost, writes>>

\* Any other error, a timeout say: the command may have been executed.
Failed(ck) ==
    /\ pc[ck] = "Exec"
    /\ Execute(ck) \/ UNCHANGED store
    /\ Return(ck, "error")
    /\ UNCHANGED <<keys, luaValue, dumped, lost, writes>>

-----------------------------------------------------------------------------
\* A failover to a replica that had not got the last write.
Lose(k, v) ==
    /\ Cardinality(lost) < MaxLosses
    /\ store[k] # v
    /\ store' = [store EXCEPT ![k] = v]
    /\ lost' = lost \cup {k}
    /\ UNCHANGED <<keys, luaValue, pc, checkVars, result, cancelled, dumped, writes>>

\* The end of RunKvCheckerService: group.Wait, then, when there are monitors,
\* dump until it succeeds.
Dump ==
    /\ \A ck \in Checkers : pc[ck] = "returned"
    /\ monitorEnabled /\ ~dumped
    /\ dumped' = TRUE
    /\ UNCHANGED <<store, keys, luaValue, pc, checkVars, result, cancelled, lost, writes>>

Step(ck) == Exit(ck) \/ Answered(ck) \/ Moved(ck) \/ Failed(ck)

Next ==
    \/ \E ck \in Checkers : Step(ck) \/ \E o \in Writes \cup Reads : CheckKeyValue(ck, o)
    \/ \E k \in AllKeys, v \in Values \cup {Nil} : Lose(k, v)
    \/ Dump

Spec == Init /\ [][Next]_vars

\* The goroutines are scheduled, the dump is tried again, and rand, which knows
\* nothing of the cluster, does not avoid a read that would show a difference.
Fairness ==
    \A ck \in Checkers :
        /\ WF_vars(Step(ck) \/ Dump)
        /\ SF_vars(\E o \in Reads : CheckKeyValue(ck, o) /\ Inconsistent(ck)')

FairSpec == Spec /\ Fairness

-----------------------------------------------------------------------------
\* "INCONSISTENT" is never reported of a cluster that lost nothing: not after a
\* redirection, a command that failed elsewhere, or a deletion.
NoFalseAlarm ==
    \A ck \in Checkers : result[ck] = "INCONSISTENT" => \E g \in lost : g.ck = ck

\* What the cluster loses is written again or brings the check to its end.
LossIsFound ==
    LET Differs == \E ck \in Checkers, k \in KeyIds \cup LuaIds :
                       store[GenKey(ck, k)] # Expected(ck, k)
    IN  Differs ~> (cancelled \/ ~Differs)

\* One error ends all checkers, wherever they are, and then what the monitors
\* saw, if they are enabled, is dumped.
ErrorEndsAll ==
    (\E ck \in Checkers : result[ck] # "running") ~>
        (monitorEnabled => dumped) /\ \A ck \in Checkers : pc[ck] = "returned"
=============================================================================
