-------------------------- MODULE MC_WriteCombine --------------------------
(* Instantiates WriteCombine for TLC: two writer threads of one object,   *)
(* two blocks of four units each (a unit stands for 4096 bytes), a slab of *)
(* two slices and a millisecond clock running to MaxTime.                  *)
EXTENDS WriteCombine, TLC

CONSTANTS w1, w2, s1, s2

MCWriters == {w1, w2}
MCSlices == {s1, s2}
MCBlocks == {0, 1}
MCOneWriter == {w1}
MCOneBlock == {0}
MCOneSlice == {s1}

\* Writers and slab slots are interchangeable (safety runs only).
Symm == Permutations(MCWriters) \cup Permutations(MCSlices)
=============================================================================
