---------------------------- MODULE OrderedArray ----------------------------
(***************************************************************************)
(* The ordered array of kernel/core/common.c: a fixed buffer of machine    *)
(* words, kept in increasing order of less_predicate, of which the first   *)
(* size entries are in use.  The buffer is indexed from 0 and its loops    *)
(* are given by what they leave in each entry.                             *)
(***************************************************************************)
EXTENDS Integers

(* ordered_array_t, over a set V of words *)
OrderedArrays(max, V) ==
    [array : [0 .. max - 1 -> V], size : 0 .. max, max_size : {max}]

(* init_ordered_array_place: the buffer is cleared and nothing is in use *)
init_ordered_array_place(max) ==
    [array |-> [k \in 0 .. max - 1 |-> 0], size |-> 0, max_size |-> max]

(* Where the downward scan of insert_ordered_array stops: everything from  *)
(* i up is greater than val, and the entry below i, if any, is not.        *)
InsertIndex(a, val) ==
    CHOOSE i \in 0 .. a.size :
        /\ \A k \in i .. a.size - 1 : val < a.array[k]
        /\ i > 0 => ~ (val < a.array[i - 1])

(* insert_ordered_array: a full array is left as it is, without a report   *)
insert_ordered_array(a, val) ==
    LET i == InsertIndex(a, val)
    IN  IF a.size < a.max_size
        THEN [array |-> [k \in DOMAIN a.array |->
                            IF k < i \/ k > a.size THEN a.array[k]
                            ELSE IF k = i THEN val
                            ELSE a.array[k - 1]],
              size |-> a.size + 1,
              max_size |-> a.max_size]
        ELSE a

(* remove_ordered_array: close the gap and zero the entry that drops out   *)
remove_ordered_array(a, i) ==
    [array |-> [k \in DOMAIN a.array |->
                    IF k < i \/ k >= a.size THEN a.array[k]
                    ELSE IF k = a.size - 1 THEN 0
                    ELSE a.array[k + 1]],
     size |-> a.size - 1,
     max_size |-> a.max_size]

(* Does find_ordered_array succeed?  If not it returns 0xFFFFFFFF.         *)
Contains(a, val) == \E i \in 0 .. a.size - 1 : a.array[i] = val

(* find_ordered_array: the first entry that holds val                      *)
find_ordered_array(a, val) ==
    CHOOSE i \in 0 .. a.size - 1 :
        /\ a.array[i] = val
        /\ \A k \in 0 .. i - 1 : a.array[k] # val

=============================================================================
