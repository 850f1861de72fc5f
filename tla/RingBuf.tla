------------------------------ MODULE RingBuf ------------------------------
(***************************************************************************)
(* The ring buffer in which the checker keeps the last lines of the output *)
(* of MONITOR.  One slot of the array is always free, so that start = end  *)
(* means empty and the buffer holds cap - 1 lines.                         *)
(***************************************************************************)
EXTENDS Integers, Sequences, SequencesExt

NewRingBuf(cap, zero) ==
    [buf |-> [i \in 0..(cap - 1) |-> zero], cap |-> cap, start |-> 0, end |-> 0]

\* The method len.
Length(r) ==
    IF r.start <= r.end THEN r.end - r.start ELSE r.end + r.cap - r.start

\* The next index; full: the oldest line goes.
Inc(r, i) == (i + 1) % r.cap
Full(r) == Length(r) + 1 = r.cap

Add(r, item) ==
    [buf |-> [r.buf EXCEPT ![r.end] = item],
     cap |-> r.cap,
     start |-> IF Full(r) THEN Inc(r, r.start) ELSE r.start,
     end |-> Inc(r, r.end)]

\* The method data copies from start up to the end of the array, and then from
\* its beginning: the place of line i.
Place(cap, start, i) == IF start + i - 1 < cap THEN start + i - 1 ELSE start + i - 1 - cap

Data(r) == [i \in 1..Length(r) |-> r.buf[Place(r.cap, r.start, i)]]

\* All lines through a buffer, from the first to the last.
AddAll(cap, lines) == FoldLeft(Add, NewRingBuf(cap, 0), lines)

LastLines(n, lines) ==
    SubSeq(lines, (IF Len(lines) > n THEN Len(lines) - n ELSE 0) + 1, Len(lines))

\* The buffer has the last cap - 1 lines, in their order, whatever came before.
ASSUME KeepsTheLastLines ==
    \A cap \in 2..4, n \in 0..7 :
        LET lines == [i \in 1..n |-> i] IN Data(AddAll(cap, lines)) = LastLines(cap - 1, lines)
=============================================================================
