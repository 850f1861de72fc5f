--------------------------- MODULE CheckerProofs ---------------------------
(***************************************************************************)
(* Proofs about Checker for every number of checkers, slots and keys: its  *)
(* types, and that it raises no false alarm.                               *)
(*                                                                         *)
(* NoFalseAlarm needs that a checker that goes on has the values of the    *)
(* cluster (Match) unless the cluster lost one of its keys, for which no   *)
(* two checkers may share a key and a check must note what it wrote under  *)
(* the keys it wrote (Shape).                                              *)
(***************************************************************************)
EXTENDS Checker, TLAPS

AllIds == KeyIds \cup LuaIds
LuaOps == {"LuaMSET", "LuaMGET"}

\* Scripts work on the lua keys, all in one command, and the others never do.
Shape ==
    \A ck \in Checkers :
        /\ op[ck] \in LuaOps => cmd[ck] = LuaIds /\ todo[ck] = {}
        /\ op[ck] \notin LuaOps => cmd[ck] \subseteq KeyIds
        /\ op[ck] = NoOp => todo[ck] = {}

NoLoss(ck) == \A g \in lost : g.ck # ck

\* A checker that goes on expects what the cluster has.
Match ==
    \A ck \in Checkers : NoLoss(ck) /\ pc[ck] # "returned" =>
        \A k \in AllIds : store[GenKey(ck, k)] = Expected(ck, k)

IInv == TypeOK /\ Shape /\ Match /\ NoFalseAlarm

-----------------------------------------------------------------------------
\* What the steps use of the keys.
LEMMA Keys ==
    /\ \A k \in KeyIds : k \notin LuaIds
    /\ \A ck \in Checkers, k \in AllIds : GenKey(ck, k) \in AllKeys /\ GenKey(ck, k).ck = ck
    /\ \A c, d \in Checkers : \A k, l \in AllIds : GenKey(c, k) = GenKey(d, l) => c = d /\ k = l
    /\ \A g \in AllKeys : \E ck \in Checkers, k \in AllIds : g = GenKey(ck, k)
<1>1. slotNumber \in Nat
  BY CheckerAssumption
<1>2. \A k \in KeyIds : k.slot < slotNumber
  BY <1>1 DEF KeyIds, Slots
<1>3. \A k \in LuaIds : k.slot = slotNumber
  BY DEF LuaIds
<1>4. \A k \in KeyIds : k \notin LuaIds
  BY <1>1, <1>2, <1>3
<1>5. ASSUME NEW k \in AllIds, NEW l \in AllIds, k.slot = l.slot, k.id = l.id PROVE k = l
  BY <1>5 DEF AllIds, KeyIds, LuaIds
<1>6. ASSUME NEW c \in Checkers, NEW d \in Checkers, NEW k \in AllIds, NEW l \in AllIds,
             GenKey(c, k) = GenKey(d, l)
      PROVE  c = d /\ k = l
  <2>1. c = d /\ k.slot = l.slot /\ k.id = l.id
    BY <1>6 DEF GenKey
  <2> QED
    BY <2>1, <1>5
<1>7. \A ck \in Checkers, k \in AllIds : GenKey(ck, k) \in AllKeys /\ GenKey(ck, k).ck = ck
  BY DEF AllKeys, AllIds, GenKey
<1>8. \A g \in AllKeys : \E ck \in Checkers, k \in AllIds : g = GenKey(ck, k)
  BY DEF AllKeys, AllIds
<1> QED
  BY <1>4, <1>6, <1>7, <1>8

LEMMA ExpectedType ==
    ASSUME TypeOK, NEW ck \in Checkers, NEW k \in AllIds
    PROVE  Expected(ck, k) \in Values \cup {Nil}
BY DEF TypeOK, Expected, AllIds

LEMMA NewValueType == \A v : NewValue(v) \in Values
BY DEF NewValue, Values

\* What a command leaves in the cluster, key by key.
LEMMA ExecuteStore ==
    ASSUME TypeOK, NEW ck \in Checkers, Execute(ck)
    PROVE  /\ store' \in [AllKeys -> Values \cup {Nil}]
           /\ \A d \in Checkers, k \in AllIds :
                store'[GenKey(d, k)] =
                    IF d = ck /\ op[ck] \in Writes /\ k \in cmd[ck] THEN Written(ck)[k]
                    ELSE store[GenKey(d, k)]
<1>1. cmd[ck] \subseteq AllIds /\ store \in [AllKeys -> Values \cup {Nil}]
  BY DEF TypeOK, AllIds
<1>2. \A k \in cmd[ck] : Written(ck)[k] \in Values \cup {Nil}
  BY NewValueType DEF Written
<1>3. CASE op[ck] \notin Writes
  BY <1>1, <1>3 DEF Execute
<1>4. CASE op[ck] \in Writes
  <2> DEFINE Hit(g) == \E k \in cmd[ck] : GenKey(ck, k) = g
             at(g) == CHOOSE k \in cmd[ck] : GenKey(ck, k) = g
  <2>1. store' = [g \in AllKeys |-> IF Hit(g) THEN Written(ck)[at(g)] ELSE store[g]]
    BY <1>4 DEF Execute
  <2>2. \A g : Hit(g) => at(g) \in cmd[ck] /\ GenKey(ck, at(g)) = g
    OBVIOUS
  <2>3. ASSUME NEW d \in Checkers, NEW k \in AllIds
        PROVE  /\ Hit(GenKey(d, k)) <=> d = ck /\ k \in cmd[ck]
               /\ d = ck /\ k \in cmd[ck] => at(GenKey(d, k)) = k
    BY <1>1, <2>2, Keys
  <2> HIDE DEF Hit, at
  <2>4. store' \in [AllKeys -> Values \cup {Nil}]
    BY <1>1, <1>2, <2>1, <2>2
  <2>5. ASSUME NEW d \in Checkers, NEW k \in AllIds
        PROVE  store'[GenKey(d, k)] = IF d = ck /\ k \in cmd[ck] THEN Written(ck)[k]
                                      ELSE store[GenKey(d, k)]
    BY <2>1, <2>3, Keys
  <2> QED
    BY <1>4, <2>4, <2>5
<1> QED
  BY <1>3, <1>4

\* What the checker notes, key by key.
LEMMA NoteExpected ==
    ASSUME TypeOK, Shape, NEW ck \in Checkers, Note(ck)
    PROVE  /\ keys' \in [Checkers -> [KeyIds -> Values \cup {Nil}]]
           /\ luaValue' \in [Checkers -> Values \cup {Nil}]
           /\ \A d \in Checkers, k \in AllIds :
                Expected(d, k)' =
                    IF d = ck /\ op[ck] \in Writes /\ k \in cmd[ck] THEN Written(ck)[k]
                    ELSE Expected(d, k)
<1>1. /\ keys \in [Checkers -> [KeyIds -> Values \cup {Nil}]]
      /\ luaValue \in [Checkers -> Values \cup {Nil}]
      /\ \A k \in cmd[ck] : Written(ck)[k] \in Values \cup {Nil}
  BY NewValueType DEF TypeOK, Written
<1>2. CASE op[ck] \in {"SET", "MSET", "DEL"}
  <2>1. cmd[ck] \subseteq KeyIds /\ op[ck] \in Writes
    BY <1>2 DEF Shape, LuaOps, Writes
  <2>2. /\ keys' = [keys EXCEPT ![ck] = [k \in KeyIds |->
                      IF k \in cmd[ck] THEN Written(ck)[k] ELSE keys[ck][k]]]
        /\ luaValue' = luaValue
    BY <1>2 DEF Note
  <2>3. keys' \in [Checkers -> [KeyIds -> Values \cup {Nil}]]
    BY <1>1, <2>2
  <2>4. ASSUME NEW d \in Checkers, NEW k \in AllIds
        PROVE  Expected(d, k)' = IF d = ck /\ k \in cmd[ck] THEN Written(ck)[k]
                                 ELSE Expected(d, k)
    <3>1. CASE k \in LuaIds
      BY <2>1, <2>2, <3>1, Keys DEF Expected
    <3>2. CASE k \in KeyIds
      BY <1>1, <2>2, <3>2, Keys DEF Expected
    <3> QED
      BY <3>1, <3>2 DEF AllIds
  <2> QED
    BY <1>1, <2>1, <2>2, <2>3, <2>4
<1>3. CASE op[ck] = "LuaMSET"
  <2>1. cmd[ck] = LuaIds /\ op[ck] \in Writes
    BY <1>3 DEF Shape, LuaOps, Writes
  <2>2. keys' = keys /\ luaValue' = [luaValue EXCEPT ![ck] = NewValue(luaValue[ck])]
    BY <1>3 DEF Note
  <2>3. \A k \in LuaIds : Written(ck)[k] = NewValue(luaValue[ck])
    BY <1>3, <2>1 DEF Written, Expected
  <2>4. ASSUME NEW d \in Checkers, NEW k \in AllIds
        PROVE  Expected(d, k)' = IF d = ck /\ k \in cmd[ck] THEN Written(ck)[k]
                                 ELSE Expected(d, k)
    BY <1>1, <2>1, <2>2, <2>3 DEF Expected
  <2> QED
    BY <1>1, <2>1, <2>2, <2>4, NewValueType
<1>4. CASE op[ck] \notin {"SET", "MSET", "DEL", "LuaMSET"}
  <2>1. keys' = keys /\ luaValue' = luaValue /\ op[ck] \notin Writes
    BY <1>4 DEF Note, Writes
  <2> QED
    BY <1>1, <2>1 DEF Expected
<1> QED
  BY <1>2, <1>3, <1>4

-----------------------------------------------------------------------------
(* The parts that several steps share *)

\* The variables of the check under way.
CheckOK ==
    /\ op \in [Checkers -> Writes \cup Reads \cup {NoOp}]
    /\ cmd \in [Checkers -> SUBSET (KeyIds \cup LuaIds)]
    /\ todo \in [Checkers -> SUBSET KeyIds]
    /\ tries \in [Checkers -> 0..(maxRetryTimes - 1)]
    /\ Shape

LEMMA FirstTry == 0 \in 0..(maxRetryTimes - 1)
<1>1. maxRetryTimes \in Nat /\ maxRetryTimes # 0
  BY CheckerAssumption
<1> QED
  BY <1>1

LEMMA NextTry ==
    ASSUME NEW i \in 0..(maxRetryTimes - 1), i + 1 # maxRetryTimes
    PROVE  i + 1 \in 0..(maxRetryTimes - 1)
<1>1. maxRetryTimes \in Nat /\ maxRetryTimes # 0
  BY CheckerAssumption
<1> QED
  BY <1>1

LEMMA ClearedOK ==
    ASSUME TypeOK, Shape, NEW ck \in Checkers, Cleared(ck)
    PROVE  CheckOK'
<1>1. /\ op' \in [Checkers -> Writes \cup Reads \cup {NoOp}]
      /\ cmd' \in [Checkers -> SUBSET (KeyIds \cup LuaIds)]
      /\ todo' \in [Checkers -> SUBSET KeyIds]
      /\ tries' \in [Checkers -> 0..(maxRetryTimes - 1)]
  BY FirstTry DEF Cleared, TypeOK
<1>2. Shape'
  BY DEF Cleared, TypeOK, Shape, LuaOps, NoOp
<1> QED
  BY <1>1, <1>2 DEF CheckOK

\* A command of a script has all the lua keys, a command of another check has
\* some of the keys that are left.
LEMMA SendOK ==
    ASSUME TypeOK, Shape, NEW ck \in Checkers, NEW o \in Writes \cup Reads, NEW ks,
           IF o \in LuaOps THEN ks = LuaIds ELSE ks \in SUBSET KeyIds, Send(ck, o, ks)
    PROVE  CheckOK'
<1>1. PICK now \in (IF o \in OneByOne THEN {{k} : k \in ks} ELSE {ks}) :
        /\ cmd' = [cmd EXCEPT ![ck] = now]
        /\ todo' = [todo EXCEPT ![ck] = ks \ now]
  BY DEF Send
<1>2. op' = [op EXCEPT ![ck] = o] /\ tries' = [tries EXCEPT ![ck] = 0]
  BY DEF Send
<1>3. /\ o \in LuaOps => now = LuaIds /\ ks \ now = {}
      /\ o \notin LuaOps => now \subseteq KeyIds
      /\ ks \ now \subseteq KeyIds
  BY <1>1 DEF LuaOps, OneByOne
<1>4. /\ op' \in [Checkers -> Writes \cup Reads \cup {NoOp}]
      /\ cmd' \in [Checkers -> SUBSET (KeyIds \cup LuaIds)]
      /\ todo' \in [Checkers -> SUBSET KeyIds]
      /\ tries' \in [Checkers -> 0..(maxRetryTimes - 1)]
  BY <1>1, <1>2, <1>3, FirstTry DEF TypeOK
<1>5. Shape'
  BY <1>1, <1>2, <1>3 DEF TypeOK, Shape, Writes, Reads, NoOp
<1> QED
  BY <1>4, <1>5 DEF CheckOK

Results == {"running", "exit", "error", "INCONSISTENT"}

LEMMA ReturnOK ==
    ASSUME TypeOK, Shape, NEW ck \in Checkers, NEW res \in Results, Return(ck, res)
    PROVE  /\ CheckOK'
           /\ pc' \in [Checkers -> {"loopCheck", "Exec", "returned"}]
           /\ result' \in [Checkers -> Results]
           /\ cancelled' \in BOOLEAN
           /\ pc'[ck] = "returned" /\ \A d \in Checkers : d # ck => pc'[d] = pc[d]
           /\ result'[ck] = res /\ \A d \in Checkers : d # ck => result'[d] = result[d]
<1>1. CheckOK'
  BY ClearedOK DEF Return
<1> QED
  BY <1>1 DEF Return, TypeOK, Results

-----------------------------------------------------------------------------
(* The steps *)

LEMMA InitIInv == Init => IInv
<1> SUFFICES ASSUME Init PROVE IInv
  OBVIOUS
<1>1. TypeOK
  <2>1. 0 \in 0..MaxWrites
    BY CheckerAssumption
  <2>2. /\ store \in [AllKeys -> Values \cup {Nil}]
        /\ keys \in [Checkers -> [KeyIds -> Values \cup {Nil}]]
        /\ luaValue \in [Checkers -> Values \cup {Nil}]
    BY DEF Init
  <2>3. op \in [Checkers -> Writes \cup Reads \cup {NoOp}]
    BY DEF Init
  <2> QED
    BY <2>1, <2>2, <2>3, FirstTry DEF Init, TypeOK
<1>2. Shape
  BY DEF Init, Shape, LuaOps, NoOp
<1>3. Match
  BY Keys DEF Init, Match, Expected, AllIds
<1>4. NoFalseAlarm
  BY DEF Init, NoFalseAlarm
<1> QED
  BY <1>1, <1>2, <1>3, <1>4 DEF IInv

LEMMA CheckKeyValueStep ==
    ASSUME IInv, NEW ck \in Checkers, NEW o \in Writes \cup Reads, CheckKeyValue(ck, o)
    PROVE  IInv'
<1> USE DEF IInv
<1>1. PICK ks \in KeysFor(o) : Send(ck, o, ks)
  BY DEF CheckKeyValue
<1>2. IF o \in LuaOps THEN ks = LuaIds ELSE ks \in SUBSET KeyIds
  BY <1>1 DEF KeysFor, LuaOps, OneByOne, Writes, Reads, RandomChooseKeys,
     RandomChooseKeysInSameSlot
<1>3. CheckOK'
  BY <1>1, <1>2, SendOK
<1>4. writes' \in 0..MaxWrites
  BY CheckerAssumption DEF CheckKeyValue, TypeOK
<1>5. /\ pc' \in [Checkers -> {"loopCheck", "Exec", "returned"}]
      /\ \A d \in Checkers : pc'[d] # "returned" => pc[d] # "returned"
  BY DEF CheckKeyValue, TypeOK
<1>6. TypeOK'
  BY <1>3, <1>4, <1>5 DEF CheckKeyValue, TypeOK, CheckOK
<1>7. Match'
  BY <1>5 DEF CheckKeyValue, Match, NoLoss, Expected
<1>8. NoFalseAlarm'
  BY DEF CheckKeyValue, NoFalseAlarm
<1> QED
  BY <1>3, <1>6, <1>7, <1>8 DEF CheckOK

\* A checker that returns with something else than INCONSISTENT, and leaves no
\* mark on the keys of the others.
LEMMA ReturnStep ==
    ASSUME IInv, NEW ck \in Checkers, NEW res \in Results, Return(ck, res),
           res # "INCONSISTENT" \/ ~NoLoss(ck),
           store' \in [AllKeys -> Values \cup {Nil}],
           keys' \in [Checkers -> [KeyIds -> Values \cup {Nil}]],
           luaValue' \in [Checkers -> Values \cup {Nil}],
           \A d \in Checkers, k \in AllIds : d # ck =>
               store'[GenKey(d, k)] = store[GenKey(d, k)] /\ Expected(d, k)' = Expected(d, k),
           UNCHANGED <<dumped, lost, writes>>
    PROVE  IInv'
<1> USE DEF IInv
<1>1. /\ CheckOK'
      /\ pc' \in [Checkers -> {"loopCheck", "Exec", "returned"}]
      /\ result' \in [Checkers -> Results]
      /\ cancelled' \in BOOLEAN
      /\ pc'[ck] = "returned" /\ \A d \in Checkers : d # ck => pc'[d] = pc[d]
      /\ result'[ck] = res /\ \A d \in Checkers : d # ck => result'[d] = result[d]
  BY ReturnOK
<1>2. TypeOK'
  BY <1>1 DEF TypeOK, CheckOK, Results
<1>3. Match'
  BY <1>1 DEF Match, NoLoss
<1>4. NoFalseAlarm'
  BY <1>1 DEF NoFalseAlarm, NoLoss
<1> QED
  BY <1>1, <1>2, <1>3, <1>4 DEF CheckOK

LEMMA ExitStep ==
    ASSUME IInv, NEW ck \in Checkers, Exit(ck)
    PROVE  IInv'
<1>1. /\ store' \in [AllKeys -> Values \cup {Nil}]
      /\ keys' \in [Checkers -> [KeyIds -> Values \cup {Nil}]]
      /\ luaValue' \in [Checkers -> Values \cup {Nil}]
  BY DEF Exit, IInv, TypeOK
<1>2. \A d \in Checkers, k \in AllIds :
        store'[GenKey(d, k)] = store[GenKey(d, k)] /\ Expected(d, k)' = Expected(d, k)
  BY DEF Exit, Expected
<1>3. "exit" \in Results /\ Return(ck, "exit") /\ UNCHANGED <<dumped, lost, writes>>
  BY DEF Exit, Results
<1> QED
  BY <1>1, <1>2, <1>3, ReturnStep

LEMMA FailedStep ==
    ASSUME IInv, NEW ck \in Checkers, Failed(ck)
    PROVE  IInv'
<1>1. /\ store' \in [AllKeys -> Values \cup {Nil}]
      /\ \A d \in Checkers, k \in AllIds : d # ck => store'[GenKey(d, k)] = store[GenKey(d, k)]
  BY ExecuteStore DEF Failed, IInv, TypeOK
<1>2. /\ keys' \in [Checkers -> [KeyIds -> Values \cup {Nil}]]
      /\ luaValue' \in [Checkers -> Values \cup {Nil}]
      /\ \A d \in Checkers, k \in AllIds : Expected(d, k)' = Expected(d, k)
  BY DEF Failed, IInv, TypeOK, Expected
<1>3. "error" \in Results /\ Return(ck, "error") /\ UNCHANGED <<dumped, lost, writes>>
  BY DEF Failed, Results
<1> QED
  BY <1>1, <1>2, <1>3, ReturnStep

LEMMA MovedStep ==
    ASSUME IInv, NEW ck \in Checkers, Moved(ck)
    PROVE  IInv'
<1>1. /\ store' \in [AllKeys -> Values \cup {Nil}]
      /\ keys' \in [Checkers -> [KeyIds -> Values \cup {Nil}]]
      /\ luaValue' \in [Checkers -> Values \cup {Nil}]
  BY DEF Moved, IInv, TypeOK
<1>2. \A d \in Checkers, k \in AllIds :
        store'[GenKey(d, k)] = store[GenKey(d, k)] /\ Expected(d, k)' = Expected(d, k)
  BY DEF Moved, Expected
<1>3. CASE LastTry(ck)
  <2>1. "error" \in Results /\ Return(ck, "error") /\ UNCHANGED <<dumped, lost, writes>>
    BY <1>3 DEF Moved, Results
  <2> QED
    BY <1>1, <1>2, <2>1, ReturnStep
<1>4. CASE ~LastTry(ck)
  <2>1. /\ tries' = [tries EXCEPT ![ck] = tries[ck] + 1]
        /\ UNCHANGED <<pc, op, cmd, todo, result, cancelled, dumped, lost, writes>>
        /\ UNCHANGED <<store, keys, luaValue>>
    BY <1>4 DEF Moved
  <2>2. tries[ck] + 1 \in 0..(maxRetryTimes - 1)
    BY <1>4, NextTry DEF IInv, TypeOK, LastTry
  <2>3. tries' \in [Checkers -> 0..(maxRetryTimes - 1)]
    BY <2>1, <2>2 DEF IInv, TypeOK
  <2>4. TypeOK'
    BY <2>1, <2>3 DEF IInv, TypeOK
  <2>5. Shape' /\ Match' /\ NoFalseAlarm'
    BY <2>1 DEF IInv, Shape, Match, NoLoss, Expected, NoFalseAlarm
  <2> QED
    BY <2>4, <2>5 DEF IInv
<1> QED
  BY <1>3, <1>4

\* The answer of a write is noted; the answer of a read shows a difference only
\* after a loss.
LEMMA AnsweredStep ==
    ASSUME IInv, NEW ck \in Checkers, Answered(ck)
    PROVE  IInv'
<1>0. TypeOK /\ Shape /\ Match /\ NoFalseAlarm /\ pc[ck] = "Exec"
  BY DEF IInv, Answered
<1>1. /\ store' \in [AllKeys -> Values \cup {Nil}]
      /\ \A d \in Checkers, k \in AllIds :
           store'[GenKey(d, k)] =
               IF d = ck /\ op[ck] \in Writes /\ k \in cmd[ck] THEN Written(ck)[k]
               ELSE store[GenKey(d, k)]
  BY <1>0, ExecuteStore DEF Answered
<1>2. /\ keys' \in [Checkers -> [KeyIds -> Values \cup {Nil}]]
      /\ luaValue' \in [Checkers -> Values \cup {Nil}]
      /\ \A d \in Checkers, k \in AllIds :
           Expected(d, k)' =
               IF d = ck /\ op[ck] \in Writes /\ k \in cmd[ck] THEN Written(ck)[k]
               ELSE Expected(d, k)
  BY <1>0, NoteExpected DEF Answered
<1>3. UNCHANGED <<dumped, lost, writes>>
  BY DEF Answered
<1>4. CASE Inconsistent(ck)
  <2>1. \E k \in AllIds : store[GenKey(ck, k)] # Expected(ck, k)
    BY <1>0, <1>4 DEF Inconsistent, TypeOK, AllIds
  <2>2. ~NoLoss(ck)
    BY <1>0, <2>1 DEF Match
  <2>3. "INCONSISTENT" \in Results /\ Return(ck, "INCONSISTENT")
    BY <1>4 DEF Answered, Results
  <2> QED
    BY <1>1, <1>2, <1>3, <2>2, <2>3, ReturnStep
<1>5. CASE ~Inconsistent(ck)
  <2>1. Continue(ck)
    BY <1>5 DEF Answered
  <2>2. CheckOK'
    <3>1. CASE todo[ck] = {}
      BY <1>0, <2>1, <3>1, ClearedOK DEF Continue
    <3>2. CASE todo[ck] # {}
      <4>1. Send(ck, op[ck], todo[ck]) /\ op[ck] \notin LuaOps /\ todo[ck] \in SUBSET KeyIds
        BY <1>0, <2>1, <3>2 DEF Continue, Shape, TypeOK
      <4>2. CASE op[ck] \in Writes \cup Reads
        BY <1>0, <4>1, <4>2, SendOK
      <4>3. CASE op[ck] = NoOp
        BY <1>0, <3>2, <4>3 DEF Shape
      <4> QED
        BY <1>0, <4>2, <4>3 DEF TypeOK
    <3> QED
      BY <3>1, <3>2
  <2>3. /\ pc' \in [Checkers -> {"loopCheck", "Exec", "returned"}]
        /\ \A d \in Checkers : pc'[d] # "returned" => pc[d] # "returned"
        /\ UNCHANGED <<result, cancelled>>
    BY <1>0, <2>1 DEF Continue, TypeOK
  <2>4. TypeOK'
    BY <1>0, <1>1, <1>2, <1>3, <2>2, <2>3 DEF TypeOK, CheckOK
  <2>5. Match'
    BY <1>0, <1>1, <1>2, <1>3, <2>3 DEF Match, NoLoss
  <2>6. NoFalseAlarm'
    BY <1>0, <1>3, <2>3 DEF NoFalseAlarm
  <2> QED
    BY <2>2, <2>4, <2>5, <2>6 DEF IInv, CheckOK
<1> QED
  BY <1>4, <1>5

\* The owner of a key that is lost no longer counts.
LEMMA LoseStep ==
    ASSUME IInv, NEW g \in AllKeys, NEW v \in Values \cup {Nil}, Lose(g, v)
    PROVE  IInv'
<1> USE DEF IInv, Lose, checkVars
<1>1. store' \in [AllKeys -> Values \cup {Nil}] /\ lost' \subseteq AllKeys
  BY DEF TypeOK
<1>2. TypeOK'
  BY <1>1 DEF TypeOK
<1>3. Match'
  <2>1. ASSUME NEW ck \in Checkers, NEW k \in AllIds, NoLoss(ck)'
        PROVE  NoLoss(ck) /\ store'[GenKey(ck, k)] = store[GenKey(ck, k)]
    <3>1. NoLoss(ck) /\ g.ck # ck
      BY <2>1 DEF NoLoss
    <3>2. GenKey(ck, k) \in AllKeys /\ GenKey(ck, k) # g
      BY <3>1, Keys
    <3> QED
      BY <3>1, <3>2 DEF TypeOK
  <2> QED
    BY <2>1 DEF Match, Expected
<1>4. Shape' /\ NoFalseAlarm'
  BY DEF Shape, NoFalseAlarm
<1> QED
  BY <1>2, <1>3, <1>4

LEMMA StepIInv == IInv /\ [Next]_vars => IInv'
<1> SUFFICES ASSUME IInv, [Next]_vars PROVE IInv'
  OBVIOUS
<1>1. ASSUME NEW ck \in Checkers, Step(ck) PROVE IInv'
  BY <1>1, ExitStep, AnsweredStep, MovedStep, FailedStep DEF Step
<1>2. ASSUME NEW ck \in Checkers, NEW o \in Writes \cup Reads, CheckKeyValue(ck, o) PROVE IInv'
  BY <1>2, CheckKeyValueStep
<1>3. ASSUME NEW g \in AllKeys, NEW v \in Values \cup {Nil}, Lose(g, v) PROVE IInv'
  BY <1>3, LoseStep
<1>4. ASSUME UNCHANGED <<store, keys, luaValue, pc, checkVars, result, cancelled, lost, writes>>,
             dumped' \in BOOLEAN
      PROVE  IInv'
  <2>1. TypeOK'
    BY <1>4 DEF IInv, TypeOK, checkVars
  <2>2. Shape' /\ Match' /\ NoFalseAlarm'
    BY <1>4 DEF IInv, Shape, Match, NoLoss, Expected, NoFalseAlarm, checkVars
  <2> QED
    BY <2>1, <2>2 DEF IInv
<1>5. CASE Dump
  BY <1>4, <1>5 DEF Dump
<1>6. CASE UNCHANGED vars
  BY <1>4, <1>6 DEF vars, IInv, TypeOK
<1> QED
  BY <1>1, <1>2, <1>3, <1>5, <1>6 DEF Next

-----------------------------------------------------------------------------
\* The types of the model, and with them the bound on redirections, hold for
\* any number of checkers, slots and keys.
THEOREM TypeCorrect == Spec => []TypeOK
<1>1. IInv => TypeOK
  BY DEF IInv
<1> QED
  BY <1>1, InitIInv, StepIInv, PTL DEF Spec

\* INCONSISTENT is reported only by a checker of whose keys the cluster has lost
\* one, however often its commands were redirected and whatever became of the
\* commands of others.
THEOREM AlarmsAreTrue == Spec => []NoFalseAlarm
<1>1. IInv => NoFalseAlarm
  BY DEF IInv
<1> QED
  BY <1>1, InitIInv, StepIInv, PTL DEF Spec
=============================================================================
