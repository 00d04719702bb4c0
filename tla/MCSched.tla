------------------------------ MODULE MCSched -------------------------------
(* The three-process demo on small instances for TLC *)
EXTENDS Sched

(* An empty message, one that just fits the buffer, one that does not      *)
ThreeLengths == [p \in Users |-> IF p = 1 THEN 0 ELSE IF p = 2 THEN 7 ELSE 9]

(* All failures but that of the page directory, which nothing survives     *)
MostFailures == Steps \ {"dir"}
=============================================================================
