--------------------------- MODULE MC_DataThread ---------------------------
(* Bounds for checking DataThread with TLC. *)
EXTENDS DataThread, TLC

\* Three blocks over two master threads: two blocks share a thread.
MCBlocks == {0, 1, 2}
====
