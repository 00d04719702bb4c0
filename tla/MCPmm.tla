------------------------------- MODULE MCPmm --------------------------------
(* A machine of eight frames of four bytes for TLC: five are low memory    *)
EXTENDS Pmm, TLC

Symmetry == Permutations(Holders)

Region(addr, len) == [addr |-> addr, len |-> len, available |-> FALSE]
Ram(addr, len) == [addr |-> addr, len |-> len, available |-> TRUE]

(* Low, high and last frame; beyond 32 bits; and one whose low words are 0 *)
AlignedMaps ==
    {<<>>} \cup
    {<<Ram(0, 32), e>> :
        e \in {Region(12, 4), Region(24, 8), Region(32, 4), Region(64, 32)}} \cup
    {<<Region(8, 8), Region(28, 4)>>}

(* A region of one page that does not start at a page boundary             *)
UnalignedMaps == {<<Ram(0, 12), Region(14, 4)>>}
=============================================================================
