--------------------------- MODULE RingBufProofs ---------------------------
(***************************************************************************)
(* The ring buffer keeps the last cap - 1 lines, for every capacity that   *)
(* turns the monitor on, every content and every line.                     *)
(***************************************************************************)
EXTENDS RingBuf, SequenceTheorems, TLAPS

\* A buffer that newRingBuf and add can produce.  monitorBufSize > 1 turns the
\* monitor on.
Valid(r, Items) ==
    /\ r \in [buf : [0..(r.cap - 1) -> Items], cap : Nat, start : Nat, end : Nat]
    /\ r.cap > 1
    /\ r.start < r.cap
    /\ r.end < r.cap

\* The index after i, and the number of lines between two indices.
Succ(cap, i) == IF i + 1 = cap THEN 0 ELSE i + 1
Distance(cap, start, end) == IF start <= end THEN end - start ELSE end + cap - start

-----------------------------------------------------------------------------
\* The index after the last one is 0: the remainder in the method add.
LEMMA IncWraps ==
    ASSUME NEW cap \in Nat, cap > 1, NEW i \in Nat, i < cap
    PROVE  (i + 1) % cap = Succ(cap, i)
<1>1. CASE i + 1 = cap
  BY <1>1, SMT DEF Succ
<1>2. CASE i + 1 < cap
  BY <1>2, SMT DEF Succ
<1> QED BY <1>1, <1>2

\* len is never cap, although the array has cap slots; the place of a line is
\* one of the array, never the one that is free, which the next line gets.
LEMMA Places ==
    ASSUME NEW cap \in Nat, cap > 1, NEW start \in Nat, start < cap,
           NEW end \in Nat, end < cap, NEW n, n = Distance(cap, start, end)
    PROVE  /\ n \in 0..(cap - 1)
           /\ \A i \in 1..n : Place(cap, start, i) \in (0..(cap - 1)) \ {end}
           /\ Place(cap, start, n + 1) = end
BY SMT DEF Place, Distance

\* With room the number of lines grows; without, the oldest goes and the
\* others move up by one.
LEMMA AfterAdd ==
    ASSUME NEW cap \in Nat, cap > 1, NEW start \in Nat, start < cap,
           NEW end \in Nat, end < cap, NEW n, n = Distance(cap, start, end)
    PROVE  /\ Succ(cap, end) \in Nat /\ Succ(cap, end) < cap
           /\ Succ(cap, start) \in Nat /\ Succ(cap, start) < cap
           /\ n + 1 # cap => Distance(cap, start, Succ(cap, end)) = n + 1
           /\ n + 1 = cap => /\ Distance(cap, Succ(cap, start), Succ(cap, end)) = n
                            /\ \A i \in 1..n :
                                 Place(cap, Succ(cap, start), i) = Place(cap, start, i + 1)
BY SMT DEF Place, Distance, Succ

\* A new buffer is empty.
THEOREM NewIsEmpty ==
    ASSUME NEW Items, NEW zero \in Items, NEW cap \in Nat, cap > 1
    PROVE  /\ Valid(NewRingBuf(cap, zero), Items)
           /\ Data(NewRingBuf(cap, zero)) = << >>
<1> DEFINE r == NewRingBuf(cap, zero)
<1>1. r.start = 0 /\ r.end = 0
  BY DEF NewRingBuf
<1>2. Valid(r, Items)
  BY DEF Valid, NewRingBuf
<1>3. Length(r) = 0
  BY <1>1 DEF Length
<1>4. Data(r) = << >>
  BY <1>3 DEF Data
<1> QED BY <1>2, <1>4

\* add on a buffer with room appends the line; on a full one it also drops the
\* oldest, and nothing else changes: data is the last cap - 1 lines in their
\* order.
THEOREM AddKeepsTheLast ==
    ASSUME NEW Items, NEW r, Valid(r, Items), NEW item \in Items
    PROVE  /\ Valid(Add(r, item), Items)
           /\ Data(Add(r, item)) =
                IF Full(r) THEN Append(Tail(Data(r)), item) ELSE Append(Data(r), item)
<1> DEFINE s == Add(r, item)
           cap == r.cap
           start == r.start
           end == r.end
           n == Length(r)
           m == Length(s)
<1>r. /\ cap \in Nat /\ cap > 1
      /\ start \in Nat /\ start < cap
      /\ end \in Nat /\ end < cap
      /\ r.buf \in [0..(cap - 1) -> Items]
  BY DEF Valid
<1>n. n = Distance(cap, start, end)
  BY DEF Length, Distance
<1>f. Full(r) <=> n + 1 = cap
  BY DEF Full
<1>d. Data(r) = [i \in 1..n |-> r.buf[Place(cap, start, i)]]
  BY DEF Data
<1>i. Inc(r, start) = Succ(cap, start) /\ Inc(r, end) = Succ(cap, end)
  BY <1>r, IncWraps DEF Inc
<1>1. s = [buf |-> [r.buf EXCEPT ![end] = item], cap |-> cap,
           start |-> IF Full(r) THEN Inc(r, start) ELSE start, end |-> Inc(r, end)]
  BY DEF Add
<1>2. /\ s.cap = cap /\ s.end = Succ(cap, end)
      /\ s.buf = [r.buf EXCEPT ![end] = item]
      /\ s.start = IF Full(r) THEN Succ(cap, start) ELSE start
  BY <1>1, <1>i
<1>m. m = Distance(cap, s.start, s.end)
  BY <1>2 DEF Length, Distance
<1>e. Data(s) = [i \in 1..m |-> s.buf[Place(cap, s.start, i)]]
  BY <1>2 DEF Data
<1> HIDE DEF s, cap, start, end, n, m
<1>3. /\ n \in 0..(cap - 1)
      /\ \A i \in 1..n : Place(cap, start, i) \in (0..(cap - 1)) \ {end}
      /\ Place(cap, start, n + 1) = end
  BY <1>r, <1>n, Places
<1>4. /\ Succ(cap, end) \in Nat /\ Succ(cap, end) < cap
      /\ Succ(cap, start) \in Nat /\ Succ(cap, start) < cap
      /\ n + 1 # cap => Distance(cap, start, Succ(cap, end)) = n + 1
      /\ n + 1 = cap => /\ Distance(cap, Succ(cap, start), Succ(cap, end)) = n
                       /\ \A i \in 1..n :
                            Place(cap, Succ(cap, start), i) = Place(cap, start, i + 1)
  BY <1>r, <1>n, AfterAdd
<1>5. /\ s.buf \in [0..(cap - 1) -> Items]
      /\ s.buf[end] = item
      /\ \A j \in (0..(cap - 1)) \ {end} : s.buf[j] = r.buf[j]
  BY <1>2, <1>r
<1>6. Valid(s, Items)
  <2>1. s.start \in Nat /\ s.start < cap /\ s.end \in Nat /\ s.end < cap
    BY <1>2, <1>4, <1>r
  <2>2. s \in [buf : [0..(s.cap - 1) -> Items], cap : Nat, start : Nat, end : Nat]
    <3>1. s = [buf |-> s.buf, cap |-> s.cap, start |-> s.start, end |-> s.end]
      BY <1>1
    <3> QED BY <3>1, <2>1, <1>2, <1>5, <1>r
  <2> QED BY <2>1, <2>2, <1>2, <1>r DEF Valid
<1>7. /\ Data(r) \in Seq(Items) /\ Len(Data(r)) = n
      /\ \A i \in 1..n : Data(r)[i] = r.buf[Place(cap, start, i)]
  <2>1. \A i \in 1..n : r.buf[Place(cap, start, i)] \in Items
    BY <1>3, <1>r
  <2> QED BY <2>1, <1>3, <1>d
<1>8. CASE ~Full(r)
  <2>1. m = n + 1 /\ s.start = start
    BY <1>8, <1>f, <1>2, <1>4, <1>m
  <2>2. \A i \in 1..n : s.buf[Place(cap, s.start, i)] = Data(r)[i]
    BY <2>1, <1>3, <1>5, <1>7
  <2>3. s.buf[Place(cap, s.start, n + 1)] = item
    BY <2>1, <1>3, <1>5
  <2>4. Append(Data(r), item) \in Seq(Items) /\ Len(Append(Data(r), item)) = n + 1
        /\ \A i \in 1..n : Append(Data(r), item)[i] = Data(r)[i]
        /\ Append(Data(r), item)[n + 1] = item
    BY <1>7, AppendProperties
  <2>5. \A i \in 1..(n + 1) : s.buf[Place(cap, s.start, i)] = Append(Data(r), item)[i]
    BY <2>2, <2>3, <2>4, <1>3
  <2>6. Append(Data(r), item) = [i \in 1..(n + 1) |-> Append(Data(r), item)[i]]
    BY <2>4, LenProperties
  <2>7. Data(s) = Append(Data(r), item)
    BY <2>1, <2>5, <2>6, <1>e
  <2> QED BY <2>7, <1>6, <1>8 DEF s
<1>9. CASE Full(r)
  <2>0. n + 1 = cap /\ n > 0
    BY <1>9, <1>f, <1>3, <1>r
  <2>1. m = n /\ s.start = Succ(cap, start)
    BY <1>9, <2>0, <1>2, <1>4, <1>m
  <2>2. \A i \in 1..n : Place(cap, s.start, i) = Place(cap, start, i + 1)
    BY <2>0, <2>1, <1>4
  <2>3. \A i \in 1..(n - 1) : s.buf[Place(cap, s.start, i)] = Data(r)[i + 1]
    <3>1. TAKE i \in 1..(n - 1)
    <3>2. i \in 1..n /\ i + 1 \in 1..n
      BY <3>1, <1>3
    <3> QED BY <3>2, <2>2, <1>3, <1>5, <1>7
  <2>4. s.buf[Place(cap, s.start, n)] = item
    BY <2>0, <2>2, <1>3, <1>5
  <2>t. /\ Tail(Data(r)) \in Seq(Items) /\ Len(Tail(Data(r))) = n - 1
        /\ \A i \in 1..(n - 1) : Tail(Data(r))[i] = Data(r)[i + 1]
    <3>1. Data(r) # << >>
      BY <1>7, <2>0
    <3> QED BY <3>1, <1>7, HeadTailProperties
  <2> DEFINE t == Append(Tail(Data(r)), item)
  <2>5. /\ t \in Seq(Items) /\ Len(t) = n /\ t[n] = item
        /\ \A i \in 1..(n - 1) : t[i] = Data(r)[i + 1]
    <3>1. /\ t \in Seq(Items) /\ Len(t) = (n - 1) + 1 /\ t[(n - 1) + 1] = item
          /\ \A i \in 1..(n - 1) : t[i] = Tail(Data(r))[i]
      BY <2>t, AppendProperties
    <3>2. (n - 1) + 1 = n
      BY <1>3
    <3> QED BY <3>1, <3>2, <2>t
  <2> HIDE DEF t
  <2>6. \A i \in 1..n : s.buf[Place(cap, s.start, i)] = t[i]
    BY <2>3, <2>4, <2>5, <1>3
  <2>7. t = [i \in 1..n |-> t[i]]
    BY <2>5, LenProperties
  <2>8. Data(s) = t
    BY <2>1, <2>6, <2>7, <1>e
  <2> QED BY <2>8, <1>6, <1>9 DEF s, t
<1> QED BY <1>8, <1>9
=============================================================================
