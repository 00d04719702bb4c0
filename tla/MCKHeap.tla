------------------------------ MODULE MCKHeap -------------------------------
(* Small instances of the kernel heap for TLC *)
EXTENDS KHeap, TLC

Symmetry == Permutations(Handles)

(* 16, 33, 96 and 128 bytes and, for the null path, none at all            *)
MixedRequests == {[q |-> 0, r |-> 0], [q |-> 1, r |-> 0], [q |-> 2, r |-> 1],
                  [q |-> 6, r |-> 0], [q |-> 8, r |-> 0]}

(* 16 and 32 bytes: small blocks are freed and taken again *)
SmallRequests == {[q |-> 1, r |-> 0], [q |-> 2, r |-> 0]}

(* Not past the first limit: what follows is the subject of the run with   *)
(* SmallRequests.                                                          *)
WithinLimits == fault = {}
=============================================================================
