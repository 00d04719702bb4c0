------------------------------ MODULE HeapSpec ------------------------------
(***************************************************************************)
(* What the kernel may expect of kmalloc and kfree (mm/kmm.h), with no     *)
(* word on how blocks are kept: a handle either holds nothing or an extent *)
(* of the heap that it shares with nobody until it gives it back.          *)
(***************************************************************************)
EXTENDS Integers

CONSTANTS Handles, First, Last, Sizes

VARIABLE held

Nothing == [ptr |-> 0, len |-> 0]

Free(p, n) ==
    \A h \in Handles : held[h].ptr # 0 =>
        p + n <= held[h].ptr \/ held[h].ptr + held[h].len <= p

Init == held = [h \in Handles |-> Nothing]

Kmalloc(h, p, n) ==
    /\ held[h].ptr = 0
    /\ p + n - 1 <= Last
    /\ Free(p, n)
    /\ held' = [held EXCEPT ![h] = [ptr |-> p, len |-> n]]

Kfree(h) ==
    /\ held[h].ptr # 0
    /\ held' = [held EXCEPT ![h] = Nothing]

Next ==
    \E h \in Handles :
        \/ \E p \in First .. Last, n \in Sizes : Kmalloc(h, p, n)
        \/ Kfree(h)

Spec == Init /\ [][Next]_held
=============================================================================
