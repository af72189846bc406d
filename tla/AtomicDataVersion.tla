-------------------------- MODULE AtomicDataVersion --------------------------
(***************************************************************************)
(* What replica_binlog_set_data_version promises its callers: a call for   *)
(* version v stores v into the data group's data version in one atomic    *)
(* step, somewhere between the call and its return, exactly once.  It is  *)
(* a store, not a maximum: the abstract specification lets a later store  *)
(* of a smaller version win, as the code does.                            *)
(***************************************************************************)
EXTENDS Integers

CONSTANTS
    Setters,    \* threads that call replica_binlog_set_data_version
    MaxVersion  \* largest version a caller passes

VARIABLES
    dataVersion,  \* myself->replica.data_version
    pending       \* setter -> version of its call in progress, 0 if none

vars == <<dataVersion, pending>>

Versions == 1..MaxVersion

Init ==
    /\ dataVersion = 0
    /\ pending = [s \in Setters |-> 0]

\* A thread calls replica_binlog_set_data_version(myself, v).
Request(s, v) ==
    /\ pending[s] = 0
    /\ pending' = [pending EXCEPT ![s] = v]
    /\ UNCHANGED dataVersion

\* The call takes effect (a store of the version already held included)
\* and returns.
Store(s) ==
    /\ pending[s] # 0
    /\ dataVersion' = pending[s]
    /\ pending' = [pending EXCEPT ![s] = 0]

Next ==
    \/ \E s \in Setters, v \in Versions : Request(s, v)
    \/ \E s \in Setters : Store(s)

\* A call in progress eventually takes effect.
Spec == Init /\ [][Next]_vars /\ \A s \in Setters : WF_vars(Store(s))
====
