------------------------ MODULE MC_ConnectionManager -------------------------
\* Two client threads on a data group of two servers with two service
\* addresses each.
EXTENDS ConnectionManager, TLC

CONSTANTS t1, t2

MCThreads == {t1, t2}

\* The threads are interchangeable.
Symm == Permutations(MCThreads)
====
