---------------------------- MODULE WriteCombine ----------------------------
(***************************************************************************)
(* The client write-combining core: the OTID insert callback and its      *)
(* helpers (src/src/api/otid_htable.c), together with the parts of the    *)
(* pipeline it calls that are not under src/ and are modelled from the    *)
(* spec: the OBID index, combine_handler_push_within_lock, the timeout    *)
(* wheel, the combine ring drainer and the per-block data threads.        *)
(*                                                                         *)
(* One object; a writer thread is an OTID key.  Sizes are in units of     *)
(* PAGE_SIZE-comparable bytes (the 4096 literal of the code is PAGE_SIZE). *)
(* A writer's otid_htable_insert is split at the OBID shard lock: the part *)
(* under the OTID lock (Write) and combine_slice (Combine), between which  *)
(* the timer thread may flush the slice the writer has just read.         *)
(***************************************************************************)
EXTENDS Integers, Sequences, FiniteSets

CONSTANTS
    Writers,            \* writer thread ids (OTID keys of one object)
    Slices,             \* the slice_entry slab
    NULL,               \* the null pointer
    Blocks,             \* block indexes 0..n-1 of the object
    BLOCK_SIZE,         \* FS_FILE_BLOCK_SIZE
    PAGE_SIZE,          \* the 4096 trailing-space cutoff
    SKIP_SIZE,          \* write_combine.skip_combine_on_slice_size
    SKIP_LAST_MERGED,   \* write_combine.skip_combine_on_last_merged_slices
    MIN_WAIT,           \* write_combine.min_wait_time_ms
    MAX_WAIT,           \* write_combine.max_wait_time_ms
    DataThreads,        \* number of data threads the drainer hashes onto
    MaxWrites,          \* bound: writes issued per writer
    MaxTime             \* bound: writes start no later than MaxTime - MAX_WAIT

ASSUME /\ Blocks \subseteq Nat /\ BLOCK_SIZE > PAGE_SIZE /\ PAGE_SIZE > 0
       /\ SKIP_SIZE > 0 /\ MIN_WAIT > 0 /\ MAX_WAIT >= MIN_WAIT
       /\ DataThreads > 0 /\ MaxTime >= MAX_WAIT /\ NULL \notin Slices

VARIABLES
    otid,       \* OTID index: writer -> FSAPIOTIDEntry
    obid,       \* OBID index: block -> slice registered for it, or NULL
    slice,      \* slab: slice id -> FSAPISliceEntry (kept when freed)
    ring,       \* combine handler's outbound queue
    dtq,        \* per data thread FIFO of slices being written
    now,        \* g_timer_ms_ctx.current_time_ms
    pc,         \* writer -> where its current otid_htable_insert is
    nwrites,    \* writes issued so far per writer
    pieces,     \* history: slice -> writes folded into it, in order
    storage,    \* history: (block, unit) -> id of the write stored there
    lastBy,     \* history: (block, unit) -> id of the last write issued
    multi       \* history: (block, unit) -> written by two writers?

vars == <<otid, obid, slice, ring, dtq, now, pc, nwrites,
          pieces, storage, lastBy, multi>>

Stages == {"FREE", "MERGING", "QUEUED", "DISPATCHING"}
WriteIds == Writers \X (1..MaxWrites)
Cells == Blocks \X (0..BLOCK_SIZE - 1)

\* An FSAPIOperationContext bs_key: a write inside one block.
WriteOps == {op \in [b: Blocks, soff: 0..BLOCK_SIZE - 1, len: 1..BLOCK_SIZE]:
                op.soff + op.len <= BLOCK_SIZE}
AbsOffset(op) == op.b * BLOCK_SIZE + op.soff

MinOf(x, y) == IF x <= y THEN x ELSE y

\* CALC_TIMEOUT_BY_SUCCESSIVE and IF_COMBINE_BY_SLICE_SIZE
CalcTimeoutBySuccessive(e) == e.succ * MIN_WAIT
CombineBySliceSize(op) == op.len < SKIP_SIZE

\* Mutant of MergedFits: the EOVERFLOW check of combine_slice is lost.
MergedFitsUnchecked(rec, op) == TRUE

\* combine_slice: merged_length <= FS_FILE_BLOCK_SIZE
MergedFits(rec, op) == rec.len + op.len <= BLOCK_SIZE

\* Mutant of RemainTimeout: the age of the slice is not subtracted.
RemainTimeoutFromNow(rec) == MAX_WAIT

\* combine_slice's remain_timeout: what is left of max_wait_time_ms.
RemainTimeout(rec) == (rec.start + MAX_WAIT) - now

NoEntry == [exists |-> FALSE, last |-> 0, succ |-> 0, slice |-> NULL]
FreeSlice == [stage |-> "FREE", block |-> CHOOSE b \in Blocks: TRUE,
              soff |-> 0, len |-> 0, merged |-> 0, start |-> 0,
              otid |-> NULL, armed |-> FALSE, expires |-> 0]
Idle == [at |-> "idle", op |-> CHOOSE op \in WriteOps: TRUE,
         seen |-> NULL, id |-> CHOOSE i \in WriteIds: TRUE]

TypeOK ==
    /\ otid \in [Writers -> [exists: BOOLEAN, last: Nat, succ: Nat,
                             slice: Slices \cup {NULL}]]
    /\ obid \in [Blocks -> Slices \cup {NULL}]
    /\ slice \in [Slices -> [stage: Stages, block: Blocks,
                             soff: 0..BLOCK_SIZE, len: 0..BLOCK_SIZE,
                             merged: Nat, start: 0..MaxTime + MAX_WAIT,
                             otid: Writers \cup {NULL}, armed: BOOLEAN,
                             expires: Nat]]
    /\ ring \in Seq(Slices)
    /\ dtq \in [0..DataThreads - 1 -> Seq(Slices)]
    /\ now \in 0..MaxTime + MAX_WAIT
    /\ pc \in [Writers -> [at: {"idle", "combine", "direct"}, op: WriteOps,
                           seen: Slices \cup {NULL}, id: WriteIds]]
    /\ nwrites \in [Writers -> 0..MaxWrites]
    /\ pieces \in [Slices -> Seq([id: WriteIds, off: Nat, len: Nat])]
    /\ storage \in [Cells -> WriteIds \cup {NULL}]
    /\ lastBy \in [Cells -> WriteIds \cup {NULL}]
    /\ multi \in [Cells -> BOOLEAN]

Init ==
    /\ otid = [w \in Writers |-> NoEntry]
    /\ obid = [b \in Blocks |-> NULL]
    /\ slice = [s \in Slices |-> FreeSlice]
    /\ ring = <<>>
    /\ dtq = [t \in 0..DataThreads - 1 |-> <<>>]
    /\ now = 0
    /\ pc = [w \in Writers |-> Idle]
    /\ nwrites = [w \in Writers |-> 0]
    /\ pieces = [s \in Slices |-> <<>>]
    /\ storage = [c \in Cells |-> NULL]
    /\ lastBy = [c \in Cells |-> NULL]
    /\ multi = [c \in Cells |-> FALSE]

-----------------------------------------------------------------------------
\* Mutant of PushToFlush: the slice is queued but its timer stays armed.
PushToFlushKeepTimer(s, rec, otidMid) ==
    /\ slice' = [slice EXCEPT ![s] = [rec EXCEPT !.stage = "QUEUED"]]
    /\ obid' = IF obid[rec.block] = s THEN [obid EXCEPT ![rec.block] = NULL]
                                      ELSE obid
    /\ otid' = IF rec.otid \in Writers
                  THEN [otidMid EXCEPT ![rec.otid].slice = NULL]
                  ELSE otidMid
    /\ ring' = Append(ring, s)

(* combine_handler_push_within_lock(slice), called with the OBID shard    *)
(* lock held: MERGING -> QUEUED, detach from the timer wheel, remove the  *)
(* OBID entry, clear the owner's OTIDEntry.slice back-reference, enqueue.  *)
(* rec is the slice as the caller left it.  Sets slice', obid', ring' and  *)
(* the owner's slice field in otid'.                                       *)
PushToFlush(s, rec, otidMid) ==
    /\ slice' = [slice EXCEPT ![s] = [rec EXCEPT !.stage = "QUEUED",
                                                 !.armed = FALSE]]
    /\ obid' = IF obid[rec.block] = s THEN [obid EXCEPT ![rec.block] = NULL]
                                      ELSE obid
    /\ otid' = IF rec.otid \in Writers
                  THEN [otidMid EXCEPT ![rec.otid].slice = NULL]
                  ELSE otidMid
    /\ ring' = Append(ring, s)

(* create_slice(callback_arg, entry): e is the entry as the callback has  *)
(* updated it so far.  Sets otid', obid', slice', pieces' and pc'[w].     *)
CreateSlice(w, e, op, id) ==
    LET direct == [pc EXCEPT ![w] = [at |-> "direct", op |-> op,
                                     seen |-> NULL, id |-> id]]
    IN
    \/ /\ BLOCK_SIZE - (op.soff + op.len) < PAGE_SIZE   \* not worth combining
       /\ otid' = [otid EXCEPT ![w] = e]
       /\ pc' = direct
       /\ UNCHANGED <<obid, slice, pieces>>
    \/ /\ BLOCK_SIZE - (op.soff + op.len) >= PAGE_SIZE
       /\ \A s \in Slices: slice[s].stage # "FREE"         \* ENOMEM
       /\ otid' = [otid EXCEPT ![w] = e]
       /\ pc' = direct
       /\ UNCHANGED <<obid, slice, pieces>>
    \/ /\ BLOCK_SIZE - (op.soff + op.len) >= PAGE_SIZE
       /\ \E s \in Slices:
            /\ slice[s].stage = "FREE"
            /\ LET new == [stage |-> "MERGING", block |-> op.b,
                           soff |-> op.soff, len |-> op.len, merged |-> 1,
                           start |-> now, otid |-> w, armed |-> FALSE,
                           expires |-> 0]
               IN
               /\ pieces' = [pieces EXCEPT ![s] =
                               <<[id |-> id, off |-> AbsOffset(op),
                                  len |-> op.len]>>]
               /\ \/ /\ obid[op.b] = NULL      \* obid_htable_insert succeeds
                     /\ obid' = [obid EXCEPT ![op.b] = s]
                     /\ otid' = [otid EXCEPT ![w] = [e EXCEPT !.slice = s]]
                     /\ slice' = [slice EXCEPT ![s] =
                          [new EXCEPT !.armed = TRUE, !.expires = now +
                             MinOf(CalcTimeoutBySuccessive(e), MAX_WAIT)]]
                     /\ pc' = [pc EXCEPT ![w] = Idle]
                  \/ /\ obid[op.b] # NULL      \* insert fails: not freed
                     /\ slice' = [slice EXCEPT ![s] = new]
                     /\ otid' = [otid EXCEPT ![w] = e]
                     /\ pc' = direct
                     /\ UNCHANGED obid

-----------------------------------------------------------------------------
(* otid_htable_insert: the part of otid_htable_insert_callback that runs  *)
(* under the OTID shard lock, up to the OBID shard lock of combine_slice. *)
Write(w) ==
    /\ pc[w].at = "idle"
    /\ nwrites[w] < MaxWrites
    /\ now + MAX_WAIT <= MaxTime
    /\ \E op \in WriteOps:
        LET e == otid[w]
            off == AbsOffset(op)
            id == <<w, nwrites[w] + 1>>
            written == {<<op.b, u>>: u \in op.soff..op.soff + op.len - 1}
            direct == [pc EXCEPT ![w] = [at |-> "direct", op |-> op,
                                         seen |-> NULL, id |-> id]]
        IN
        /\ nwrites' = [nwrites EXCEPT ![w] = @ + 1]
        /\ lastBy' = [c \in Cells |-> IF c \in written THEN id ELSE lastBy[c]]
        /\ multi' = [c \in Cells |-> multi[c] \/
                        (c \in written /\ lastBy[c] # NULL /\ lastBy[c][1] # w)]
        /\ UNCHANGED <<ring, dtq, now, storage>>
        /\ \/ /\ ~e.exists                                 \* new_create
              /\ otid' = [otid EXCEPT ![w] = [exists |-> TRUE,
                             last |-> off + op.len, succ |-> 0, slice |-> NULL]]
              /\ pc' = direct
              /\ UNCHANGED <<obid, slice, pieces>>
           \/ /\ e.exists /\ off = e.last /\ e.slice = NULL
              /\ LET e2 == [e EXCEPT !.succ = @ + 1, !.last = off + op.len]
                 IN IF CombineBySliceSize(op)
                       THEN CreateSlice(w, e2, op, id)
                       ELSE /\ otid' = [otid EXCEPT ![w] = e2]
                            /\ pc' = direct
                            /\ UNCHANGED <<obid, slice, pieces>>
           \/ /\ e.exists /\ off = e.last /\ e.slice # NULL
              /\ otid' = [otid EXCEPT ![w] = [e EXCEPT !.succ = @ + 1,
                                                       !.last = off + op.len]]
              /\ pc' = [pc EXCEPT ![w] = [at |-> "combine", op |-> op,
                                          seen |-> e.slice, id |-> id]]
              /\ UNCHANGED <<obid, slice, pieces>>
           \/ /\ e.exists /\ off # e.last                  \* not successive
              /\ otid' = [otid EXCEPT ![w] = [e EXCEPT !.succ = 0,
                                                       !.last = off + op.len]]
              /\ pc' = direct
              /\ UNCHANGED <<obid, slice, pieces>>

(* combine_slice(entry->slice, ...) under the OBID shard lock, and the    *)
(* create_slice that check_combine_slice calls when it asks for a new one. *)
Combine(w) ==
    /\ pc[w].at = "combine"
    /\ LET s == pc[w].seen
           op == pc[w].op
           id == pc[w].id
           e == otid[w]
           rec == slice[s]
           merged == rec.len + op.len
           appended == [rec EXCEPT !.len = merged, !.merged = @ + 1]
           direct == [pc EXCEPT ![w] = [@ EXCEPT !.at = "direct"]]
       IN
       /\ UNCHANGED <<dtq, now, nwrites, storage, lastBy, multi>>
       /\ \/ /\ rec.stage = "MERGING" /\ ~MergedFits(rec, op)  \* EOVERFLOW
             /\ pc' = direct
             /\ UNCHANGED <<otid, obid, slice, ring, pieces>>
          \/ /\ rec.stage = "MERGING" /\ MergedFits(rec, op)
             /\ CombineBySliceSize(op)
             /\ pieces' = [pieces EXCEPT ![s] = Append(@,
                             [id |-> id, off |-> AbsOffset(op), len |-> op.len])]
             /\ pc' = [pc EXCEPT ![w] = Idle]
             /\ IF BLOCK_SIZE - (rec.soff + merged) >= PAGE_SIZE
                   THEN /\ slice' = [slice EXCEPT ![s] =
                             [appended EXCEPT !.expires = now +
                                MinOf(CalcTimeoutBySuccessive(e),
                                      RemainTimeout(rec))]]
                        /\ UNCHANGED <<otid, obid, ring>>
                   ELSE PushToFlush(s, appended, otid)
          \/ /\ rec.stage = "MERGING" /\ MergedFits(rec, op)
             /\ ~CombineBySliceSize(op)
             /\ PushToFlush(s, rec, otid)
             /\ pc' = direct
             /\ UNCHANGED pieces
          \/ /\ rec.stage # "MERGING"          \* flushed behind our back
             /\ UNCHANGED ring
             /\ IF rec.merged > SKIP_LAST_MERGED
                   THEN CreateSlice(w, e, op, id)
                   ELSE /\ pc' = direct
                        /\ UNCHANGED <<otid, obid, slice, pieces>>

(* The caller of otid_htable_insert writes an uncombined buffer directly. *)
DirectWrite(w) ==
    /\ pc[w].at = "direct"
    /\ LET op == pc[w].op IN
       storage' = [c \in Cells |->
                     IF c[1] = op.b /\ c[2] \in op.soff..op.soff + op.len - 1
                        THEN pc[w].id ELSE storage[c]]
    /\ pc' = [pc EXCEPT ![w] = Idle]
    /\ UNCHANGED <<otid, obid, slice, ring, dtq, now, nwrites,
                   pieces, lastBy, multi>>

(* otid_htable_accept_reclaim_callback lets the sharding table evict an   *)
(* entry (capacity or TTL scan, under the OTID shard lock) iff slice==NULL.*)
Reclaim(w) ==
    /\ pc[w].at = "idle"
    /\ otid[w].exists
    /\ otid[w].slice = NULL
    /\ otid' = [otid EXCEPT ![w] = NoEntry]
    /\ UNCHANGED <<obid, slice, ring, dtq, now, pc, nwrites,
                   pieces, storage, lastBy, multi>>

-----------------------------------------------------------------------------
(* Timer thread: an expired slice timer pushes the slice to flush under   *)
(* the OBID shard lock.                                                    *)
TimerExpire(s) ==
    /\ slice[s].armed
    /\ slice[s].expires <= now
    /\ PushToFlush(s, slice[s], otid)
    /\ UNCHANGED <<dtq, now, pc, nwrites, pieces, storage, lastBy, multi>>

(* The clock advances once the timer thread has handled every due timer; *)
(* past MaxTime it runs only while a timer is still armed.                 *)
Tick ==
    /\ now < MaxTime \/ \E s \in Slices: slice[s].armed
    /\ \A s \in Slices: slice[s].armed => slice[s].expires > now
    /\ now' = now + 1
    /\ UNCHANGED <<otid, obid, slice, ring, dtq, pc, nwrites,
                   pieces, storage, lastBy, multi>>

\* The data thread a block is hashed to.
BlockThread(b) == b % DataThreads

(* Combine handler drainer: hands the oldest flushed slice to its block's  *)
(* data thread.                                                            *)
Drain ==
    /\ ring # <<>>
    /\ LET s == Head(ring) IN
       /\ slice' = [slice EXCEPT ![s].stage = "DISPATCHING"]
       /\ dtq' = [dtq EXCEPT ![BlockThread(slice[s].block)] = Append(@, s)]
    /\ ring' = Tail(ring)
    /\ UNCHANGED <<otid, obid, now, pc, nwrites, pieces, storage, lastBy, multi>>

\* The write of the piece of ps that covers byte k of their concatenation.
RECURSIVE PieceAt(_, _)
PieceAt(ps, k) == IF k < Head(ps).len THEN Head(ps).id
                                       ELSE PieceAt(Tail(ps), k - Head(ps).len)

\* Mutant of Complete: the slice is written but never returned to the slab.
CompleteNoFree(t) ==
    /\ dtq[t] # <<>>
    /\ LET s == Head(dtq[t])
           r == slice[s]
       IN
       /\ storage' = [c \in Cells |->
                        IF c[1] = r.block /\ c[2] \in r.soff..r.soff + r.len - 1
                           THEN PieceAt(pieces[s], c[2] - r.soff)
                           ELSE storage[c]]
       /\ slice' = [slice EXCEPT ![s].stage = "DISPATCHING"]
    /\ dtq' = [dtq EXCEPT ![t] = Tail(@)]
    /\ UNCHANGED <<otid, obid, ring, now, pc, nwrites, pieces, lastBy, multi>>

(* A data thread stores the slice's buffer at its extent and the slice is *)
(* returned to the slab.                                                   *)
Complete(t) ==
    /\ dtq[t] # <<>>
    /\ LET s == Head(dtq[t])
           r == slice[s]
       IN
       /\ storage' = [c \in Cells |->
                        IF c[1] = r.block /\ c[2] \in r.soff..r.soff + r.len - 1
                           THEN PieceAt(pieces[s], c[2] - r.soff)
                           ELSE storage[c]]
       /\ slice' = [slice EXCEPT ![s].stage = "FREE"]
    /\ dtq' = [dtq EXCEPT ![t] = Tail(@)]
    /\ UNCHANGED <<otid, obid, ring, now, pc, nwrites, pieces, lastBy, multi>>

\* Every writer is done and the pipeline has drained: the client idles.
Quiescent ==
    /\ \A w \in Writers: pc[w].at = "idle"
    /\ \A b \in Blocks: obid[b] = NULL
    /\ ring = <<>>
    /\ \A t \in DOMAIN dtq: dtq[t] = <<>>

Finished ==
    /\ Quiescent
    /\ now >= MaxTime
    /\ \A s \in Slices: ~slice[s].armed
    /\ UNCHANGED vars

Next ==
    \/ \E w \in Writers: Write(w) \/ Combine(w) \/ DirectWrite(w) \/ Reclaim(w)
    \/ \E s \in Slices: TimerExpire(s)
    \/ Tick
    \/ Drain
    \/ \E t \in 0..DataThreads - 1: Complete(t)
    \/ Finished

(* The timer thread, the drainer, the data threads and a writer inside    *)
(* otid_htable_insert are running threads; the clock always advances.     *)
(* Starting a write is the application's choice and is not fair.           *)
Fairness ==
    /\ WF_vars(Tick)
    /\ WF_vars(Drain)
    /\ \A s \in Slices: WF_vars(TimerExpire(s))
    /\ \A t \in 0..DataThreads - 1: WF_vars(Complete(t))
    /\ \A w \in Writers: WF_vars(Combine(w)) /\ WF_vars(DirectWrite(w))

Spec == Init /\ [][Next]_vars /\ Fairness

-----------------------------------------------------------------------------
(* Properties.                                                             *)

\* Where a slice is held: OBID entry, combine ring, data thread queues.
Holders(s) ==
    Cardinality({b \in Blocks: obid[b] = s})
      + Len(SelectSeq(ring, LAMBDA x: x = s))
      + Len(SelectSeq(dtq[0], LAMBDA x: x = s))
      + (IF DataThreads > 1 THEN Len(SelectSeq(dtq[1], LAMBDA x: x = s)) ELSE 0)

(* I3: a slice is flushed once.  Between the timer thread and the write   *)
(* path (combine_slice pushing a full slice), no slice is ever held by     *)
(* two of the OBID index, the combine ring and a data thread queue, nor    *)
(* queued twice.                                                           *)
SliceHeldOnce == \A s \in Slices: Holders(s) <= 1

(* The deadline: a slice registered in the OBID index is still merging     *)
(* only while its age is within max_wait_time_ms, whatever the timer       *)
(* recomputations of create_slice and combine_slice did.                    *)
FlushDeadline ==
    \A b \in Blocks: obid[b] # NULL => now <= slice[obid[b]].start + MAX_WAIT

(* Every slice the write path registers in the OBID index is eventually   *)
(* written by a data thread and returned to the slab.                     *)
RegisteredSliceFreed ==
    \A s \in Slices: (\E b \in Blocks: obid[b] = s) ~> slice[s].stage = "FREE"

(* I4: the timer of a MERGING slice is armed, and only its timer is.       *)
TimerArmedWhileMerging ==
    \A s \in Slices: slice[s].armed <=> slice[s].stage = "MERGING"

\* The writes of ps laid end to end from absolute offset start.
RECURSIVE Contiguous(_, _)
Contiguous(ps, start) ==
    ps = <<>> \/ (Head(ps).off = start /\
                  Contiguous(Tail(ps), start + Head(ps).len))

(* A slice's buffer is the writes folded into it: each write folded in    *)
(* starts where the previous one ended, at the slice's own extent.        *)
SliceExtentMatchesWrites ==
    \A s \in Slices: slice[s].stage # "FREE" =>
        Contiguous(pieces[s], slice[s].block * BLOCK_SIZE + slice[s].soff)

(* A slice carries only the writes of the writer that opened it.          *)
NoForeignMerge ==
    \A s \in Slices: slice[s].stage # "FREE" =>
        \A i \in DOMAIN pieces[s]: pieces[s][i].id[1] = slice[s].otid

(* Once the client is quiescent, a byte written by one writer only holds  *)
(* that writer's last write to it: combining never reorders one thread's  *)
(* writes against its uncombined ones.                                    *)
LastWriteWins ==
    Quiescent => \A c \in Cells: ~multi[c] => storage[c] = lastBy[c]

=============================================================================
