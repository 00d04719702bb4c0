------------------------------ MODULE MCSpace -------------------------------
(* Two processes; low memory of every shape from full to fragmented, high
   memory with room for both, for one, or for none *)
EXTENDS Space

LowSets == SUBSET (2 .. LowFrames)
HighSets == {{}, LowFrames + 1 .. LowFrames + 4, LowFrames + 1 .. LowFrames + HighFrames}
SmallFreeSets == {l \cup h : l \in LowSets, h \in HighSets}
=============================================================================
