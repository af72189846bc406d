------------------------------ MODULE DataThread ------------------------------
(***************************************************************************)
(* The server's data-thread pool (src/src/server/data_thread.h).  An       *)
(* operation on a block is pushed to one of two sub-pools, chosen by the   *)
(* data server's is_master flag read at push time, and within the pool to  *)
(* the thread with index FS_BLOCK_HASH_CODE(block) % count.  Each thread   *)
(* pops its FIFO queue and executes the operation.  The per-block hash is  *)
(* what serialises the operations on one block (spec 4.5 and 5); the flag  *)
(* can change between two pushes for the same block when the data group   *)
(* changes role.                                                           *)
(***************************************************************************)
EXTENDS Integers, Sequences

CONSTANTS
    Blocks,          \* block hash codes
    MasterCount,     \* thread_arrays.master.count
    SlaveCount,      \* thread_arrays.slave.count
    OP_SLAB,         \* operations a thread context's allocator can hold
    MaxOps,          \* operations pushed in a behaviour
    MaxRoleChanges   \* changes of is_master in a behaviour

ASSUME MasterCount \in Nat \ {0} /\ SlaveCount \in Nat \ {0}
       /\ Blocks \subseteq Nat /\ OP_SLAB \in Nat \ {0}

VARIABLES
    isMaster,      \* op_ctx->info.myself->is_master
    queue,         \* pool -> thread index -> FIFO of operations
    done,          \* block -> ids of the operations executed, in order
    nextId,        \* ghost: operations pushed so far (the next op's id)
    poolOf,        \* ghost: op id -> the pool it was pushed to
    roleChanges    \* ghost: changes of is_master so far

vars == <<isMaster, queue, done, nextId, poolOf, roleChanges>>

Pools == {"master", "slave"}
Count(p) == IF p = "master" THEN MasterCount ELSE SlaveCount
Ids == 0..(MaxOps - 1)
Ops == [id : Ids, block : Blocks]

TypeOK ==
    /\ isMaster \in BOOLEAN
    /\ \A p \in Pools : queue[p] \in [0..(Count(p) - 1) -> Seq(Ops)]
    /\ \A p \in Pools : \A i \in DOMAIN queue[p] : Len(queue[p][i]) <= OP_SLAB
    /\ done \in [Blocks -> Seq(Ids)]
    /\ nextId \in 0..MaxOps
    /\ poolOf \in [Ids -> Pools \cup {"none", "ENOMEM"}]
    /\ roleChanges \in 0..MaxRoleChanges

Init ==
    /\ isMaster \in BOOLEAN
    /\ queue = [p \in Pools |-> [i \in 0..(Count(p) - 1) |-> <<>>]]
    /\ done = [b \in Blocks |-> <<>>]
    /\ nextId = 0
    /\ poolOf = [id \in Ids |-> "none"]
    /\ roleChanges = 0

\* The thread of pool p that serves a block: FS_BLOCK_HASH_CODE % count.
BlockIndexByOp(b, id, n) == id % n

BlockIndex(b, id, n) == b % n

\* The context's fast_mblock of operations has no free object left.
SlabFullLate(q) == Len(q) > OP_SLAB

SlabFull(q) == Len(q) >= OP_SLAB

\* fc_queue_push: append to the tail of the thread's queue.
Enqueue(q, op) == Append(q, op)

(***************************************************************************)
(* push_to_data_thread_queue for block b: the pool is chosen by the flag   *)
(* as read now; if the context's operation allocator is exhausted the      *)
(* caller gets ENOMEM and nothing is queued.                               *)
(***************************************************************************)
Push(b) ==
    /\ nextId < MaxOps
    /\ LET p == IF isMaster THEN "master" ELSE "slave"
           i == BlockIndex(b, nextId, Count(p))
       IN  IF SlabFull(queue[p][i])
             THEN /\ poolOf' = [poolOf EXCEPT ![nextId] = "ENOMEM"]
                  /\ UNCHANGED queue
             ELSE /\ queue' = [queue EXCEPT ![p][i] =
                                 Enqueue(@, [id |-> nextId, block |-> b])]
                  /\ poolOf' = [poolOf EXCEPT ![nextId] = p]
    /\ nextId' = nextId + 1
    /\ UNCHANGED <<isMaster, done, roleChanges>>

\* A data thread pops the head of its queue and executes it.
Execute(p, i) ==
    /\ queue[p][i] # <<>>
    /\ LET op == Head(queue[p][i])
       IN  /\ done' = [done EXCEPT ![op.block] = Append(@, op.id)]
           /\ queue' = [queue EXCEPT ![p][i] = Tail(@)]
    /\ UNCHANGED <<isMaster, nextId, poolOf, roleChanges>>

\* The data group served by this server changes role (election, not in
\* this repository); is_master flips.
ChangeRole ==
    /\ roleChanges < MaxRoleChanges
    /\ isMaster' = ~isMaster
    /\ roleChanges' = roleChanges + 1
    /\ UNCHANGED <<queue, done, nextId, poolOf>>

\* All operations pushed and executed: the threads wait on empty queues.
Idle ==
    /\ nextId = MaxOps
    /\ \A p \in Pools : \A i \in DOMAIN queue[p] : queue[p][i] = <<>>
    /\ UNCHANGED vars

Next ==
    \/ \E b \in Blocks : Push(b)
    \/ \E p \in Pools : \E i \in 0..(Count(p) - 1) : Execute(p, i)
    \/ ChangeRole
    \/ Idle

Spec == Init /\ [][Next]_vars

-----------------------------------------------------------------------------
\* Operations on one block pushed to the same sub-pool are executed in the
\* order they were pushed: hashing by block sends them all to one thread's
\* FIFO, whatever other blocks and threads do in between.
PerBlockOrderWithinPool ==
    \A b \in Blocks : \A j, k \in DOMAIN done[b] :
        j < k /\ poolOf[done[b][j]] = poolOf[done[b][k]]
            => done[b][j] < done[b][k]

\* Operations on one block are executed in the order they were pushed
\* (spec 5: the storage layer linearises a block through the per-block
\* data thread; spec 6: data_version advances from the single data thread
\* of a block).
PerBlockOrder ==
    \A b \in Blocks : \A j, k \in DOMAIN done[b] :
        j < k => done[b][j] < done[b][k]

====
