------------------------- MODULE MC_TrunkAllocator -------------------------
(* Model values and bounds for checking TrunkAllocator with TLC. *)
EXTENDS TrunkAllocator, TLC

\* Four trunk ids: the freelist filled with two trunks and refilled twice.
MCTrunkIds == {1, 2, 3, 4}

Symm == Permutations(MCTrunkIds)
====
