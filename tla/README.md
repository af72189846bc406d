# faststore: TLA+ models

This directory holds TLA+ models of the faststore client and server code under
`src/`. It also holds the TLC configurations that check them. The parts
modelled are:
- the client-side **write combiner** (`src/src/api/otid_htable.c`), the most
  concurrent code in the repository;
- the server's **data-thread pool** (`data_thread.h`);
- the **trunk allocator** (`trunk_allocator.c`);
- the **replica binlog**'s data version and position search
  (`replica_binlog.c`);
- the client's **connection manager** (`simple_connection_manager.c`).

## The system and its parts

| Part | Source | State it keeps | Interacts with |
|---|---|---|---|
| OTID index, with its successive-write policy | `src/src/api/otid_htable.c` | one entry per (inode, thread) holding `successive_count`, `last_write_offset` and `slice` | OBID index, combine handler, timer wheel, slab |
| OBID index (block to merging slice) | not under `src/` (spec sections 4.2 and 4.4) | at most one MERGING slice per block | OTID callback (insert), timer, combine handler (remove) |
| Slice slab and slice record | not under `src/` (`fast_mblock`) | `stage`, `merged_slices`, `start_time`, `bs_key`, `buff`, `timer` | all of the above, and the data threads |
| Timeout wheel | not under `src/` | one deadline per armed slice | expiry calls `combine_handler_push_within_lock` under the OBID lock |
| Combine handler and drainer | not under `src/` | the ring of QUEUED slices | drainer hands slices to data threads |
| Server data-thread pool | `src/src/server/data_thread.h` | per-thread FIFO queues, with master and slave sub-pools | replication, storage |
| Trunk allocator | `src/src/server/storage/trunk_allocator.c` | trunk tree, per-write-thread freelists | data threads |
| Replica binlog | `src/src/server/binlog/replica_binlog.c` | data version per group, binlog records and files | replication, recovery |
| Client connection manager | `src/src/client/simple_connection_manager.c` | server addresses, the cached master connection | every client request |
| FUSE front-end | `src/src/fuse/fs_fuse_wrapper.c` | cached root inode | fsapi |
| Server daemon | `src/src/server/fs_serverd.c` | startup and shutdown sequence | everything |

### How a write is combined

`otid_htable_insert` runs `otid_htable_insert_callback` under the OTID shard
lock. The callback works as follows:

1. A write that continues at `last_write_offset` (a successive write) calls
   `check_combine_slice`.
2. If the entry has no slice, `create_slice` may allocate one. The new slice
   is registered in the OBID index, and its timer is armed for
   `min(successive_count * min_wait, max_wait)`.
3. If the entry has a slice, `combine_slice` takes the **OBID** shard lock of
   the slice's block. Under that lock it either:
   - appends the write to the slice and shortens the timer;
   - pushes the slice to flush (it is full, or the write is too large to
     combine);
   - finds the slice already flushed, and then may start a new slice.

A write that is not combined is sent directly by the caller. The timer thread
flushes a slice when its deadline passes, under the OBID lock. A drainer hands
queued slices to data threads. A data thread writes the slice and returns it to
the slab.

## Modules

| Module | Models | Sources |
|---|---|---|
| `WriteCombine` | OTID callback, `combine_slice`, `create_slice`, reclaim predicate; OBID index, timer, ring, drainer, data threads and slab as far as the callback relies on them | `otid_htable.c` (all of it); the rest from the spec (`spec_modelled` in `PROJECT.json`) |
| `MC_WriteCombine` | model values and symmetry for TLC | |
| `TrunkAllocator`, `MC_TrunkAllocator` | init, add, delete, prealloc, add_to_freelist, alloc (with the split over two trunks), free | `trunk_allocator.c` lines 45-345 |
| `TrunkTopN` | `trunk_allocator_free_size_top_n` as a pure operator, and a reference "count largest" | `trunk_allocator.c` lines 385-430 |
| `DataThread`, `MC_DataThread` | `push_to_data_thread_queue`; the thread loop (not in the repository) as a FIFO pop | `data_thread.h` lines 73-100 |
| `ReplicaVersion`, `MC_ReplicaVersion` | the CAS loop of `replica_binlog_set_data_version`, split at its atomic steps | `replica_binlog.c` lines 163-209 |
| `BinlogPosition` | `get_last_data_version_from_file_ex` and `replica_binlog_get_position_by_dv` as pure operators, and reference definitions | `replica_binlog.c` lines 34-139 and 449-609 |
| `BinlogRecord` | the binlog line format: `replica_binlog_log_slice`/`log_block` (printing) and `replica_binlog_record_unpack` with `unpack_slice_record`/`unpack_block_record` (parsing), and the lines a crash can leave | `replica_binlog.c` lines 319-447; the field indexes and `BINLOG_PARSE_INT_SILENCE` from the spec |
| `BinlogInit` | `replica_binlog_init` as a pure operator: the writer array and `base_id`, `replica_binlog_get_writer`, and the start versions from `binlog_writer_init_by_version` and `set_my_data_version` (over `BinlogPosition`'s last-version lookup) | `replica_binlog.c` lines 141-162, 182-209, 223-309; `fs_cluster_cfg.h` lines 113-131 |
| `AtomicDataVersion` | abstract specification of `replica_binlog_set_data_version`: a call stores its version in one step and returns | (abstract; refined by `ReplicaVersion`) |
| `MC_Algorithms` | one harness that checks `TrunkTopN`, `BinlogPosition`, `BinlogRecord` and `BinlogInit` over all their small inputs | |
| `ConnectionManager`, `MC_ConnectionManager` | get, get-master, get-readable, release and close of connections; failover and reachability as environment steps | `simple_connection_manager.c` lines 10-250 |

### WriteCombine: how the state and actions match the code

**State.**
- `otid[w]`: the OTID entry of writer `w`.
  - `exists`: the entry is in the table.
  - `succ`: `successive_count`.
  - `last`: `last_write_offset`.
  - `slice`: `entry->slice`.
- `obid[b]`: the OBID index entry for block `b`.
- `slice[s]`: one slab slot.
  - `stage`: FREE, MERGING, QUEUED or DISPATCHING.
  - `owner`: `slice->otid`.
  - `block`, `off`, `len`: `bs_key`.
  - `merged`: `merged_slices`.
  - `start`: `start_time`.
  - `armed`, `expires`: the timer.

  A freed slot keeps its old contents, as memory from `fast_mblock` does.
- `ring`: the combine handler queue.
- `dtq[t]`: the queue of data thread `t`.
- `now`: `g_timer_ms_ctx.current_time_ms`.
- `pc[w]`: where writer `w` is between the two locks.
- Ghost variables:
  - `pieces[s]`: which writes a slice's buffer holds, in order.
  - `storage[c]`: the write that last reached byte `c` of the file.
  - `lastBy[c]`: the latest write issued for byte `c`.
  - `multi[c]`: whether two writers issued writes for byte `c`.

**Actions.**
- `Write(w)` is the callback under the OTID lock: `new_create`, a successive
  write and a non-successive write. It ends in one of three places:
  - a direct write (`pc = "direct"`);
  - a finished combine;
  - `pc = "combine"`, when `combine_slice` is still to run.

  `otid_htable_insert_callback` calls `combine_slice` while it holds the OTID
  lock. The OBID lock is taken inside `combine_slice`, though, and the timer
  thread needs only the OBID lock. So, from the timer's point of view, the
  writer's step splits at the point where it takes the OBID lock. The model
  keeps that split: `Write` reads `entry->slice`, and `Combine` runs
  `combine_slice` later. The timer can fire between them. No other writer
  touches `otid[w]` in between, because the OTID key is per writer.
- `Combine(w)` is all of `combine_slice`, and any `create_slice` that follows
  it, in one step under the OBID lock.
- `CreateSlice` is a helper operator, not an action of its own. It covers
  every branch of `create_slice`:
  - too little room left in the block;
  - ENOMEM;
  - a successful OBID insert;
  - a failed OBID insert.
- `DirectWrite(w)`: the caller sends an uncombined write.
- `Reclaim(w)`: the table drops an entry whose `slice` is NULL
  (`otid_htable_accept_reclaim_callback`).
- `TimerExpire(s)`, `Tick`, `Drain` and `Complete(t)` are the timer, the
  clock, the drainer and a data thread.

**Data abstraction.**
- A block is `BLOCK_SIZE` units. `PAGE_SIZE` stands for the 4096-byte rule.
  `SKIP_SIZE` stands for `skip_combine_on_slice_size`.
- A write is `[b, soff, len]`, and payloads are write identities.
- Time is an integer counter. A `Tick` may fire only when no armed timer is
  already due, which keeps expiry on time.

### TrunkAllocator

**State.** `trunk[id]` holds each trunk's `status`, `size`, `free_start`,
`used.bytes` and `used.count`. `sl` is the set of ids in the skiplist.
`freelist[t]` is write thread `t`'s freelist, as a sequence of ids.
`pending[t]` counts the prealloc requests for thread `t` that the prealloc
thread has not yet served, and `started` says that `prealloc_trunks` has run.
`crashed` records the NULL head dereference. The ghost `spaces` is the set of spaces handed out and not yet
freed.

**Actions.**
- `Alloc(t, size)` is all of `trunk_allocator_alloc` under the lock:
  - `MEM_ALIGN`;
  - a first piece of the head's remainder when it is too small, and the
    head's removal;
  - `alloc_trunk` when the freelist is empty, a stub that returns 0;
  - the space at `free_start`, with `used` updated;
  - removal of a head whose remainder is below `discard_remain_space_size`.
- `Free(sp)` is `trunk_allocator_free`.
- `PreallocTrunks` and `Prealloc(t)` are `trunk_allocator_prealloc_trunks`
  and the prealloc thread's `trunk_allocator_add_to_freelist`.
- `Delete(id)` is `trunk_allocator_delete`.

Sizes are in abstract units: a trunk is `TRUNK_SIZE` units and `MEM_ALIGN`
rounds up to a multiple of `ALIGN`.

### TrunkTopN and BinlogPosition

Both model pure functions, as recursive operators that follow the code's
loops step by step:
- `Scan` and `ScanStep` follow the `while` loop of `free_size_top_n`.
- `ScanDown`, `FindPosition` and `ScanBuffer` follow
  `get_position_by_dv`, `find_position` and `find_position_by_buffer`.

The variables are only the inputs, chosen in `Init`, and `Next` leaves them
unchanged. A binlog is a function from file index to a sequence of data
versions, increasing across files. Files may be empty or missing. A record is
one unit of offset.

### BinlogRecord

A line is abstracted to its fields and whether it ends in LF. A field is
`Num(n)` (decimal digits) or `Text(c)` (an op character, or `""`), because
strtol stops at once on text. `EndChar` is the character strtol's end pointer
lands on: the space `split_string_ex` split at, LF, or the end of the string.
`ParseInt` is `BINLOG_PARSE_INT_SILENCE`: a number, ending at the expected
character, at least `min_val`. `Unpack` follows `replica_binlog_record_unpack`
in order: the field-count floor, the op character, the data version, then the
slice or block parser with its exact field count. `TornLines` is the fault
model: a prefix of a record's fields, the last one cut to any small number or
to nothing, and no LF.

### BinlogInit

`ReplicaBinlogInit(ids, dv0, binlogs)` follows `replica_binlog_init`:
- it returns ENOENT when there are no ids or the minimum id is not positive;
- `base` is `fs_cluster_cfg_get_min_data_group_id` (the first id);
- `writers` has one slot per data group of the cluster, all NULL at first,
  as `alloc_binlog_writer_array` sets it up;
- `InitLoop` runs the `for` loop. Each `InitGroup` stores holder `i` at slot
  `id - base` (a slot outside the array is an out-of-bounds store, result
  "OOB"), starts the writer at `data_version + 1`, and runs
  `SetMyDataVersion`.

Start-up runs on one thread, so `replica_binlog_set_data_version` is one
step here: return on an equal version, otherwise store and move the writer
to `new + 1`. Its interleavings are `ReplicaVersion`'s concern. A group's
binlog comes from `BinlogPosition`'s enumeration, and its newest version
from `LastDataVersionFromFile`, so this module composes the two.

### DataThread

**State.**
- `queue[pool][i]` is thread `i`'s FIFO in the `master` or `slave` sub-pool.
- `done[b]` is the ids of the operations executed on block `b`, in order.
- The ghosts `nextId`, `poolOf` and `roleChanges`.

**Actions.**
- `Push(b)` is `push_to_data_thread_queue`. It picks the pool from
  `is_master` as read now and the thread as `block % count`. It returns
  ENOMEM when the thread context's slab (`OP_SLAB` entries) is full.
- `Execute(p, i)` pops and runs an operation.
- `ChangeRole` flips `is_master`.

### ReplicaVersion

Each setter thread runs `replica_binlog_set_data_version`, split at its
atomic operations:
- `Load` is the `__sync_fetch_and_add(.., 0)`, with the equal-version exit;
- `Cas` is the compare-and-swap, and `Retry` goes back to `Load` after a
  failed swap;
- `Notify` is `binlog_writer_change_next_version(new + 1)`.

`Call` starts a call. Callers pass increasing versions, so every backwards
step is the code's doing.

**Refinement.** `AtomicDataVersion` is what a caller may assume of the call:
a pending request, one atomic store of its version, and return.
`ReplicaVersion` instantiates it with `pending[s]` mapped to the setter's
target while it is in `Load` or `Cas`, and 0 otherwise. The successful `Cas`
is the abstract `Store`; `Load`, a failed `Cas`, `Retry` and `Notify` are
stuttering steps. The equal-version exit is a `Store` of the value already
there. `ImplementsAtomicStore` checks `Abs!Spec`, with its fairness, as a
property. The notify is outside the abstraction, which is why
`NextVersionFollows` (the writer's next version) can still fail.

### ConnectionManager

**State.**
- `up[s][k]` is whether address `k` of server `s` is reachable.
- `master` is the group's master.
- `cache` is the `master_cache` (NONE when `port` is 0).
- `addrIndex[s]` is `addr_array->index`.
- `held[t]` is thread `t`'s connection, NONE, or FAIL after a NULL return.
- `idle` is the set of idle pooled connections, each with its
  `data_group_id`.

**Actions.**
- `GetConnection` is a random first server, then the others in order, each
  through `MakeConnection` (current address, then the other addresses in
  array order, updating the index).
- `GetMasterConnection`: with a cached master, it connects to the cache and
  returns the result, and a failure leaves the cache alone. Otherwise it
  queries the master, connects and caches it.
- `GetReadableConnection`, `ReleaseConnection` (clears `data_group_id`) and
  `CloseConnection` (a tagged connection clears the cache).
- `Retry` is the caller seeing a NULL.
- `Failover` and `ToggleAddress` are the environment, bounded by `MaxEvents`.

## Runs

| Run | Config | Expect | What it shows |
|---|---|---|---|
| `wc_timer_race` | `WriteCombine_safety.cfg` | pass | See below. |
| `wc_deadline_liveness` | `WriteCombine_live.cfg` | pass | See below. |
| `wc_stale_slice_pointer` | `WriteCombine_NoForeignMerge.cfg` | violation | `entry->slice` is read before the OBID lock is taken (line 164). By the time it is used, the slice may have been flushed, freed and reused by another writer, who then receives this writer's data. |
| `ta_alloc_free` | `TrunkAllocator.cfg` | pass | Spaces never overlap (`SpacesDisjoint`). `used` matches the live spaces (`UsedAccounting`). No trunk left on a freelist is below the discard threshold (`FreelistTrunksHaveRoom`). |
| `ta_null_head` | `TrunkAllocator_NoNullHeadDereference.cfg` | violation | With an empty freelist, `alloc_trunk` returns 0 without adding a trunk, and line 312 dereferences the NULL head. This happens after `prealloc_trunks` and before the prealloc thread serves. |
| `algorithms` | `Algorithms.cfg` | pass | `TopNCorrectWhenFillSorted`: the skip test and shifting insert keep the count largest whenever the array fills sorted. `PositionByDvCorrect`: a reader starts exactly after `last_data_version`. `LastVersionIsNewest`: the lookup steps back over empty files. `RecordRoundTrip`: every slice and block record logged is parsed back unchanged. `TornRecordRejected`: a line torn by a crash during an append is never parsed as a record. `WritersResolve`: start-up succeeds and `replica_binlog_get_writer` returns each served group's own writer. `StartVersionsAgree`: after start-up each group's data version is its binlog's newest and its writer's next version is one past it. |
| `topn_unsorted_fill` | `TrunkTopN_TopNIsLargest.cfg` | violation | The array is filled unsorted but `trunks[0]` is used as its minimum (line 416). With remainders 4, 3, 4 and count 2, the result is {4, 3}. |
| `dt_block_order` | `DataThread.cfg` | pass | Operations on one block pushed to one pool run in push order (`PerBlockOrderWithinPool`). `TypeOK` bounds each queue by the slab. |
| `rv_cas_returns` | `ReplicaVersion.cfg` | pass | Every call of the CAS loop returns (`CallsReturn`), and the loop refines one atomic store per call (`ImplementsAtomicStore`, the refinement to `AtomicDataVersion`). |
| `rv_version_backwards` | `ReplicaVersion_DataVersionMonotone.cfg` | violation | The loop swaps in `new_version` over whatever it loads (here a 2 set by another thread), so the data version moves from 2 back to 1. |
| `cm_pool_and_failover` | `ConnectionManager.cfg` | pass | A connection from get or get-readable never carries a master tag (`NonMasterConnsUntagged`). `get_connection` returns NULL only when no address of any server is reachable (`GetConnectionFailsOnlyIfUnreachable`). |
| `cm_stale_master_cache` | `ConnectionManager_MasterEventuallyReachable.cfg` | violation | After a failover away from a cached master that goes down, `get_master_connection` fails forever. A failed connect never clears the cache (lines 116-121). |

The project registers at most twelve runs. These configurations also
reproduce findings (listed in `PROJECT.json` with no run):

| Config | Finding |
|---|---|
| `WriteCombine_TimerArmedWhileMerging.cfg` | `create_slice` leaks a MERGING slice with no timer when the OBID insert fails (lines 146-148). |
| `WriteCombine_SliceExtentMatchesWrites.cfg` | `entry->slice` survives a non-successive write (line 197), so the next successive write is appended at the old slice's end. |
| `WriteCombine_LastWriteWins.cfg` | A thread's uncombined write is overwritten by its own older slice, flushed later. |
| `DataThread_PerBlockOrder.cfg` (`MC_DataThread`) | A role change between two pushes for one block sends them to different pools, which run them in either order. |
| `ReplicaVersion_NextVersionFollows.cfg` (`MC_ReplicaVersion`) | The swap and `change_next_version` are separate steps, and two notifies land out of order, so the writer's next version is stale. |
| `TrunkAllocator_NoStrandedTrunk.cfg` (`MC_TrunkAllocator`) | `add_to_freelist` returns silently when the free-node slab is exhausted (line 234), leaving a new, empty trunk registered but on no freelist, and its prealloc request spent. |
| `TrunkAllocator_FreelistTrunksRegistered.cfg` (`MC_TrunkAllocator`) | `trunk_allocator_delete` (line 159) takes a trunk out of the skiplist but leaves it on its freelist, so allocations continue from a trunk whose info is freed after a delay. |
| `BinlogPosition_OverflowDetected.cfg` (`BinlogPosition`) | With an empty current file, a too-large `last_data_version` is accepted instead of refused with EOVERFLOW. |

**`wc_timer_race`** (pass): two writers on one block, racing the timer thread,
with a two-slice slab and one data thread. It checks `SliceHeldOnce`: no slice
is ever held by two of the OBID index, the combine ring and a data thread, and
no slice is in a queue twice. This would catch:
- a timer left armed after a push;
- a double push;
- a free while the slice is queued.

**`wc_deadline_liveness`** (pass): one writer, two blocks, two data threads and
a one-slice slab. The single slice makes ENOMEM happen. It checks:
- `TypeOK`. `merged_length` never exceeds the block size.
- `FlushDeadline`. A MERGING slice is never older than `max_wait_time_ms`.
  This is the bound the `remain_timeout` computation exists for.
- `RegisteredSliceFreed`. Every slice that enters the OBID index is eventually
  written and freed.

Each property of a passing run has a mutant in `PROJECT.json`. The mutant
changes the code's definition the way a plausible bug would. For example:
- `PushToFlushKeepTimer` leaves the timer armed, and `SliceHeldOnce` is
  violated.
- `RemainTimeoutFromNow` measures the remaining time from now instead of from
  `start_time`, and `FlushDeadline` is violated.

## Bounds

`BLOCK_SIZE` 3 or 4, `PAGE_SIZE` 1, `SKIP_SIZE` 2 or 4, `MIN_WAIT` 1,
`MAX_WAIT` 2, `MaxTime` 4, up to 4 writes. These values are large enough for
every branch of `combine_slice` and `create_slice` to fire:
- merge and keep the timer;
- merge and flush because the slice is full;
- not combinable, then flush;
- overflow;
- flushed already, then re-create;
- the room check, ENOMEM and a failed OBID insert.

Each violation above needs 3 or 4 writes and 2 slab slots. The two-writer runs
use symmetry on writers and slices. Symmetry is sound there, because no
property names a particular writer or slice.

The liveness run uses no symmetry.

Bounds of the other modules:
- **TrunkAllocator**: four trunks of size 4, an `ALIGN` of 2, requests
  of size 1-3, two prealloc trunks per request, a discard threshold
  of two, and one write thread. These are enough for every branch of the
  alloc: a split over two trunks, an exact fit, a discard and an empty
  freelist. All allocations run under the allocator's single lock, so a
  second write thread adds only the choice of freelist. With two threads the
  state space is too large for a run.
- **TrunkTopN**: every skiplist of up to four trunks with all `free_start`
  and `used` values, and count 1-3. This includes fills in every order,
  ties, and both filters.
- **BinlogPosition**: every binlog of one to three files over versions 1-4.
  This includes empty and missing files and gaps between files. It uses
  every `last_data_version` from 1 to 5, and both values of the flag.
- **BinlogRecord**: field values 0-2, so every minimum (0 for offsets, 1
  for ids, versions and lengths) sits on and above its boundary; every op;
  timestamps 0-1; and every torn prefix of each record, its last field cut
  to 0-2 or empty. That is 479 records.
- **BinlogInit**: three data groups in the cluster, every non-empty
  ascending id array of them (7), start data versions 0-2, and for each
  served group every binlog of one or two files over versions 1-2. This
  includes a binlog whose newest version equals the start version, where
  `set_data_version` leaves the writer alone, and ids that do not start
  at 1. That is 50,652 inputs.
- **DataThread**: three blocks, two master threads and one slave thread, a
  slab of two operations, five pushes and two role changes. Blocks 0 and 2
  share a master thread. The slab fills, a role change falls between
  pushes, and the role can flip back while operations for a block are
  queued in both pools.
- **ReplicaVersion**: the passing run has three setters, versions up to 5
  and two calls each (249,313 states). A call can then lose its CAS to two
  other threads in a row, and the refinement is checked against every
  interleaving of three threads. The violation runs keep two setters and
  versions up to 4, which is enough for a reload after a lost CAS and for
  both notify orders.
- **ConnectionManager**: two threads, two servers with two addresses each,
  and three environment events. Three events allow a failover and two
  address changes. A full address failover needs both first addresses down.

## Fairness

Every step of the timer thread, the drainer, the data threads and the clock is
weakly fair. Each of these is a daemon loop that runs whenever it has work.
`Combine` and `DirectWrite` are weakly fair, because a writer that has entered
`otid_htable_insert` finishes its call.

Starting a new write (`Write`) is not fair. It is the application's choice, and
an application may stop writing.

Time stops at `MaxTime` once no timer is armed. The `Finished` stuttering step
marks that end. It is not a deadlock, because every thread is then idle.

Other modules:
- **DataThread** assumes no fairness. The thread loop is not in the
  repository, and a property that every queued operation runs would only
  restate the assumed FIFO pop. It checks safety only.
- **ReplicaVersion**: each setter's `Load`, `Cas` and `Notify` are weakly
  fair. A thread inside the call keeps running; starting a call is not fair.
- **ConnectionManager**: release or close of a held connection, and `Retry`
  after a NULL, are weakly fair. `GetMasterConnection` is strongly fair. It
  stands for an application that keeps writing, so it keeps asking for the
  master even when other requests come between. This fairness is assumed
  only by the liveness property `MasterEventuallyReachable`, and its
  violation shows that the code needs more than the caller's persistence.
- **TrunkAllocator** and the pure algorithms assume no fairness. They check
  only safety.

## Not modelled, and open work

Modelled: `WriteCombine`, `DataThread`, `TrunkAllocator` with `TrunkTopN`,
the data version and position search of the replica binlog, the binlog line
format (`BinlogRecord`), replica binlog start-up (`BinlogInit`),
`ConnectionManager`, and the refinement of `ReplicaVersion` to
`AtomicDataVersion`. Both trunk-allocator hazards, `delete` of a trunk still
on a freelist and the ENOMEM of `add_to_freelist`, are reproduced as
findings.

Open work:
1. Compose `WriteCombine`'s `Drain` with `DataThread`'s `Push`. The goal is
   to check that a slice's write and a later direct write on the same block
   reach one data thread in order. `WriteCombine`'s runs already take up to
   two minutes, and the ordering violation (`LastWriteWins`) shows up
   without the composition.
2. The EOVERFLOW edge of the position search, and the two trunk-allocator
   findings, as registered runs if the number of runs allows it.

Parts that will not be modelled:
- `fs_fuse_wrapper.c` is pure request translation. The buffer leak on its
  read error paths is listed as a hazard in `PROJECT.json`.
- `fs_serverd.c` is a linear startup sequence.
- `data_thread_notify`, which only wakes a thread, and the binlog writer
  thread and its queue (`binlog_writer_*`), which are not in the repository.
- `fs_cluster_cfg.h`: only the min/max data group id getters are
  modelled, in `BinlogInit`. The rest are array lookups or declarations of
  functions whose bodies are not here. `recovery_types.h` only declares
  types. Neither changes state.
- The loader of the cluster config, which fills and orders the id array, is
  not in the repository. `BinlogInit` enumerates ascending id arrays only.

Error paths left out because no property depends on them:
- the malloc failure of `check_alloc_trunk_ptr_array` in `TrunkTopN`;
- `fs_get_data_server` returning NULL, and the allocation and writer-init
  errors, in `BinlogInit`;
- in `ConnectionManager`, `get_readable_connection` returning NULL when
  some address is up but no server's first address is. The model disables
  the action instead.

Known gaps in `WriteCombine`:
- the `int` overflow of `successive_count * min_wait`. Where it wraps, the
  timeout goes negative, which only makes the flush immediate. It needs
  about 2^31 / min_wait successive writes, far beyond any bound TLC reaches;
- the double read of `entry->slice` at lines 159 and 164, which a compiler may
  reload;
- sharding of the hash tables, which does not affect any property above.
