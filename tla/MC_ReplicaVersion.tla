-------------------------- MODULE MC_ReplicaVersion --------------------------
(* Model values for checking ReplicaVersion with TLC. *)
EXTENDS ReplicaVersion, TLC

CONSTANTS r1, r2, r3

\* Two threads setting the version of the same data group.
MCSetters == {r1, r2}

\* Three threads: a call can lose its CAS to two others in a row, and a
\* refinement step of one thread falls between any two of another's.
MCSetters3 == {r1, r2, r3}

Symm == Permutations(MCSetters)
====
