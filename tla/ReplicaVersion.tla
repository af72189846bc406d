---------------------------- MODULE ReplicaVersion ----------------------------
(***************************************************************************)
(* replica_binlog_set_data_version (src/src/server/binlog/                 *)
(* replica_binlog.c): the data version of a data group on this server is   *)
(* set by a compare-and-swap loop, and after a successful swap the binlog  *)
(* writer is told the next version it must write (new_version + 1).  The   *)
(* data threads of the group's blocks, the replication and the recovery    *)
(* threads all call it, so several calls can run at once.  Each call is    *)
(* split at its atomic operations: the load of the old version, the CAS,   *)
(* and binlog_writer_change_next_version.                                  *)
(***************************************************************************)
EXTENDS Integers

CONSTANTS
    Setters,    \* threads that call replica_binlog_set_data_version
    MaxVersion, \* largest new_version a caller passes
    MaxCalls    \* calls per thread in a behaviour

VARIABLES
    dataVersion,  \* myself->replica.data_version
    nextVersion,  \* the binlog writer's next version
    pc,           \* setter -> "idle", "load", "cas" or "notify"
    old,          \* setter -> old_version it loaded
    target,       \* setter -> new_version of its current call
    calls,        \* setter -> calls made so far
    issued        \* ghost: largest version handed to a caller so far

vars == <<dataVersion, nextVersion, pc, old, target, calls, issued>>

\* replica_binlog_init: the writer starts at data_version + 1.
Init ==
    /\ dataVersion = 0
    /\ nextVersion = 1
    /\ pc = [s \in Setters |-> "idle"]
    /\ old = [s \in Setters |-> 0]
    /\ target = [s \in Setters |-> 0]
    /\ calls = [s \in Setters |-> 0]
    /\ issued = 0

\* A thread calls replica_binlog_set_data_version(myself, v).  Callers
\* take their versions in increasing order: a later call never passes a
\* smaller version than an earlier one, whichever thread makes it.
Call(s, v) ==
    /\ pc[s] = "idle" /\ calls[s] < MaxCalls /\ v > issued
    /\ issued' = v
    /\ pc' = [pc EXCEPT ![s] = "load"]
    /\ target' = [target EXCEPT ![s] = v]
    /\ calls' = [calls EXCEPT ![s] = @ + 1]
    /\ UNCHANGED <<dataVersion, nextVersion, old>>

\* old_version = __sync_fetch_and_add(&data_version, 0); equal: return false.
Load(s) ==
    /\ pc[s] = "load"
    /\ old' = [old EXCEPT ![s] = dataVersion]
    /\ pc' = [pc EXCEPT ![s] = IF dataVersion = target[s] THEN "idle" ELSE "cas"]
    /\ UNCHANGED <<dataVersion, nextVersion, target, calls, issued>>

\* After a failed CAS the loop starts over and loads the version again.
RetryStale(s) == "cas"

Retry(s) == "load"

\* __sync_bool_compare_and_swap(&data_version, old_version, new_version);
\* a successful swap leaves the loop.
CasNoReturn(s) ==
    /\ pc[s] = "cas"
    /\ IF dataVersion = old[s]
         THEN /\ dataVersion' = target[s]
              /\ pc' = [pc EXCEPT ![s] = "load"]
         ELSE /\ pc' = [pc EXCEPT ![s] = Retry(s)]
              /\ UNCHANGED dataVersion
    /\ UNCHANGED <<nextVersion, old, target, calls, issued>>

Cas(s) ==
    /\ pc[s] = "cas"
    /\ IF dataVersion = old[s]
         THEN /\ dataVersion' = target[s]
              /\ pc' = [pc EXCEPT ![s] = "notify"]
         ELSE /\ pc' = [pc EXCEPT ![s] = Retry(s)]
              /\ UNCHANGED dataVersion
    /\ UNCHANGED <<nextVersion, old, target, calls, issued>>

\* binlog_writer_change_next_version(writer, new_version + 1); return true.
Notify(s) ==
    /\ pc[s] = "notify"
    /\ nextVersion' = target[s] + 1
    /\ pc' = [pc EXCEPT ![s] = "idle"]
    /\ UNCHANGED <<dataVersion, old, target, calls, issued>>

\* Every thread has returned and none makes another call.
Done ==
    /\ \A s \in Setters : pc[s] = "idle"
    /\ \A s \in Setters : calls[s] = MaxCalls \/ issued = MaxVersion
    /\ UNCHANGED vars

Next ==
    \/ \E s \in Setters, v \in 1..MaxVersion : Call(s, v)
    \/ \E s \in Setters : Load(s) \/ Cas(s) \/ Notify(s)
    \/ Done

Fairness == \A s \in Setters : WF_vars(Load(s) \/ Cas(s) \/ Notify(s))

Spec == Init /\ [][Next]_vars /\ Fairness

-----------------------------------------------------------------------------
(***************************************************************************)
(* Refinement mapping: a call is in progress for the abstract store while  *)
(* its thread is loading or swapping; the notify step is after the call   *)
(* took effect and is invisible to the abstract data version.             *)
(***************************************************************************)
Abs == INSTANCE AtomicDataVersion WITH
           pending <- [s \in Setters |-> IF pc[s] \in {"load", "cas"}
                                          THEN target[s] ELSE 0]

\* The CAS loop implements an atomic store: every call of
\* replica_binlog_set_data_version, however its loads and failed swaps
\* interleave with other threads', changes the data version exactly once,
\* to its own version, at one point between call and return (the equal
\* check of line 173 counting as that point), and eventually does.
ImplementsAtomicStore == Abs!Spec

\* Every call of replica_binlog_set_data_version returns, however the
\* other threads' swaps interleave with its load and CAS: a failed CAS
\* reloads the version, so the loop ends once nobody else swaps.
CallsReturn == \A s \in Setters : [](pc[s] # "idle" => <>(pc[s] = "idle"))

\* The data version of a data group only advances (spec 6: data_version
\* advances via CAS).
DataVersionMonotone == [][dataVersion' >= dataVersion]_dataVersion

\* When no call is in progress, the binlog writer's next version is the
\* data version plus one, as each successful swap sets it (line 180).
NextVersionFollows ==
    (\A s \in Setters : pc[s] = "idle") => nextVersion = dataVersion + 1

====
