--------------------------- MODULE TrunkAllocator ---------------------------
(***************************************************************************)
(* The server's trunk allocator of one store path                          *)
(* (src/src/server/storage/trunk_allocator.c).  Trunk files are kept in a  *)
(* skiplist ordered by id (sl_trunks) and handed to the write threads      *)
(* through one freelist per write thread.  trunk_allocator_alloc carves    *)
(* space from the head trunk of the freelist that the block hash selects;  *)
(* a request bigger than the head's remainder is split over the head and   *)
(* the next trunk.  A trunk leaves its freelist when its remainder falls   *)
(* below discard_remain_space_size, and every removal asks the prealloc    *)
(* thread (trunk_prealloc_push, not in this repository) for a new trunk.   *)
(* Every operation runs under allocator->lock, so each is one atomic step; *)
(* the concurrency that remains is the prealloc thread against the write   *)
(* threads.                                                                *)
(***************************************************************************)
EXTENDS Integers, Sequences, FiniteSets, FiniteSetsExt

CONSTANTS
    TrunkIds,       \* ids the trunk id generator can hand out
    TRUNK_SIZE,     \* size of a newly created trunk file
    WriteThreads,   \* path_info->write_thread_count
    PREALLOC,       \* path_info->prealloc_trunks
    DISCARD,        \* STORAGE_CFG.discard_remain_space_size
    ALIGN,          \* the alignment of MEM_ALIGN
    MaxRequest      \* largest size a caller asks for

ASSUME /\ WriteThreads \in Nat \ {0}
       /\ ALIGN \in Nat \ {0} /\ TRUNK_SIZE % ALIGN = 0
       /\ MaxRequest \in 1..TRUNK_SIZE
       /\ DISCARD \in 1..TRUNK_SIZE

VARIABLES
    trunk,      \* id -> FSTrunkFileInfo (status, size, free_start, used)
    sl,         \* ids in allocator->sl_trunks
    freelist,   \* thread index -> sequence of ids (head first)
    pending,    \* thread index -> trunk_prealloc_push requests not served
    started,    \* trunk_allocator_prealloc_trunks has run
    crashed,    \* the process dereferenced a NULL freelist head
    spaces      \* ghost: spaces handed out and not yet freed

vars == <<trunk, sl, freelist, pending, started, crashed, spaces>>

Threads == 0..(WriteThreads - 1)
Statuses == {"UNUSED", "NONE", "ALLOCING"}

\* MEM_ALIGN: round a size up to the alignment.
MemAlignDown(x) == (x \div ALIGN) * ALIGN

MemAlign(x) == ((x + ALIGN - 1) \div ALIGN) * ALIGN

Remain(id) == trunk[id].size - trunk[id].free_start

OnFreelists == UNION {{fl[i] : i \in DOMAIN fl} : fl \in {freelist[t] : t \in Threads}}

TypeOK ==
    /\ trunk \in [TrunkIds -> [status : Statuses, size : {0, TRUNK_SIZE},
                               free_start : 0..TRUNK_SIZE,
                               ubytes : 0..TRUNK_SIZE, ucount : 0..TRUNK_SIZE]]
    /\ sl \subseteq TrunkIds
    /\ freelist \in [Threads -> Seq(TrunkIds)]
    /\ pending \in [Threads -> Nat]
    /\ started \in BOOLEAN /\ crashed \in BOOLEAN
    /\ spaces \subseteq [id : TrunkIds, off : 0..TRUNK_SIZE, size : 1..TRUNK_SIZE]

\* The allocator after trunk_allocator_init: no trunks, empty freelists.
Init ==
    /\ trunk = [id \in TrunkIds |-> [status |-> "UNUSED", size |-> 0,
                   free_start |-> 0, ubytes |-> 0, ucount |-> 0]]
    /\ sl = {}
    /\ freelist = [t \in Threads |-> <<>>]
    /\ pending = [t \in Threads |-> 0]
    /\ started = FALSE /\ crashed = FALSE
    /\ spaces = {}

(***************************************************************************)
(* trunk_to_space: hand out size bytes at free_start and account them.     *)
(***************************************************************************)
TrunkToSpaceNoAdvance(tr, size) ==
    [tr EXCEPT !.ubytes = @ + size, !.ucount = @ + 1]

TrunkToSpace(tr, size) ==
    [tr EXCEPT !.free_start = @ + size, !.ubytes = @ + size,
               !.ucount = @ + 1]

Space(id, size) == [id |-> id, off |-> trunk[id].free_start, size |-> size]

\* trunk_allocator_prealloc_trunks: ask for prealloc_trunks - count trunks
\* per freelist.  The server runs it once, before it serves writes.
PreallocTrunks ==
    /\ ~started /\ ~crashed
    /\ pending' = [t \in Threads |->
                     pending[t] + PREALLOC - Len(freelist[t])]
    /\ started' = TRUE
    /\ UNCHANGED <<trunk, sl, freelist, crashed, spaces>>

(***************************************************************************)
(* The prealloc thread serves one request for freelist t: it creates a     *)
(* trunk file with a fresh id, registers it (trunk_allocator_add) and      *)
(* appends it to the freelist (trunk_allocator_add_to_freelist, which sets *)
(* status ALLOCING).  If the free-node slab is exhausted, add_to_freelist  *)
(* returns early and the trunk is registered but on no freelist.           *)
(***************************************************************************)
Prealloc(t) ==
    /\ pending[t] > 0 /\ ~crashed
    /\ \E id \in TrunkIds :
        /\ trunk[id].status = "UNUSED"
        /\ sl' = sl \cup {id}
        /\ pending' = [pending EXCEPT ![t] = @ - 1]
        /\ \/ /\ trunk' = [trunk EXCEPT ![id] = [status |-> "ALLOCING",
                    size |-> TRUNK_SIZE, free_start |-> 0, ubytes |-> 0,
                    ucount |-> 0]]
              /\ freelist' = [freelist EXCEPT ![t] = Append(@, id)]
           \/ /\ trunk' = [trunk EXCEPT ![id] = [status |-> "NONE",
                    size |-> TRUNK_SIZE, free_start |-> 0, ubytes |-> 0,
                    ucount |-> 0]]
              /\ UNCHANGED freelist
    /\ UNCHANGED <<started, crashed, spaces>>

(***************************************************************************)
(* remove_trunk_from_freelist: the head trunk goes back to status NONE,    *)
(* leaves the freelist, and the prealloc thread is asked for another one.  *)
(***************************************************************************)
RemoveHead(trs, fls, pend, t) ==
    [trunk    |-> [trs EXCEPT ![Head(fls[t])].status = "NONE"],
     freelist |-> [fls EXCEPT ![t] = Tail(@)],
     pending  |-> [pend EXCEPT ![t] = @ + 1]]

\* The head is dropped once its remainder is below discard_remain_space_size.
DiscardHeadNever(tr) == FALSE

DiscardHead(tr) == tr.size - tr.free_start < DISCARD

\* What is left to allocate from the next trunk after the head's remainder.
SecondPiece(aligned, remain) == aligned - remain

(***************************************************************************)
(* trunk_allocator_alloc(blk_hc, size) for a block whose hash selects      *)
(* freelist t.  If the head's remainder is smaller than the aligned size,  *)
(* the remainder is handed out first and the head is removed.  The rest    *)
(* comes from the (new) head; if there is none, alloc_trunk (a stub that   *)
(* returns 0) leaves it NULL and line 312 dereferences it: the process     *)
(* dies, shown here by crashed.                                            *)
(***************************************************************************)
Alloc(t, size) ==
    /\ started /\ ~crashed
    /\ LET aligned == MemAlign(size)
           split   == freelist[t] # <<>> /\ Remain(Head(freelist[t])) < aligned
           h       == Head(freelist[t])
           rem     == Remain(h)
           s1      == IF split
                        THEN RemoveHead([trunk EXCEPT ![h] = TrunkToSpace(@, rem)],
                                        freelist, pending, t)
                        ELSE [trunk |-> trunk, freelist |-> freelist,
                              pending |-> pending]
           piece1  == IF split THEN {Space(h, rem)} ELSE {}
           rest    == IF split THEN SecondPiece(aligned, rem) ELSE aligned
       IN  IF s1.freelist[t] = <<>>
             THEN /\ crashed' = TRUE
                  /\ UNCHANGED <<trunk, sl, freelist, pending, started, spaces>>
             ELSE LET h2    == Head(s1.freelist[t])
                      trs2  == [s1.trunk EXCEPT ![h2] = TrunkToSpace(@, rest)]
                      s2    == IF DiscardHead(trs2[h2])
                                 THEN RemoveHead(trs2, s1.freelist, s1.pending, t)
                                 ELSE [s1 EXCEPT !.trunk = trs2]
                      piece2 == [id |-> h2, off |-> s1.trunk[h2].free_start,
                                 size |-> rest]
                  IN  /\ trunk' = s2.trunk
                      /\ freelist' = s2.freelist
                      /\ pending' = s2.pending
                      /\ spaces' = spaces \cup piece1 \cup {piece2}
                      /\ UNCHANGED <<sl, started, crashed>>

\* trunk_allocator_free(id, size) of a space the caller holds: found in the
\* skiplist, its usage is decremented; otherwise ENOENT.
FreeNoCount(sp) ==
    /\ spaces' = spaces \ {sp}
    /\ trunk' = IF sp.id \in sl
                  THEN [trunk EXCEPT ![sp.id].ubytes = @ - sp.size]
                  ELSE trunk

FreeSpace(sp) ==
    /\ spaces' = spaces \ {sp}
    /\ trunk' = IF sp.id \in sl
                  THEN [trunk EXCEPT ![sp.id].ubytes = @ - sp.size,
                                     ![sp.id].ucount = @ - 1]
                  ELSE trunk

Free(sp) ==
    /\ sp \in spaces /\ ~crashed
    /\ FreeSpace(sp)
    /\ UNCHANGED <<sl, freelist, pending, started, crashed>>

\* trunk_allocator_delete(id): the trunk leaves the skiplist (its memory is
\* freed after a delay); nothing checks whether it is still on a freelist.
Delete(id) ==
    /\ id \in sl /\ ~crashed
    /\ sl' = sl \ {id}
    /\ UNCHANGED <<trunk, freelist, pending, started, crashed, spaces>>

\* Once the process is dead nothing happens any more.
Dead == crashed /\ UNCHANGED vars

Next ==
    \/ PreallocTrunks
    \/ \E t \in Threads : Prealloc(t)
    \/ \E t \in Threads, size \in 1..MaxRequest : Alloc(t, size)
    \/ \E sp \in spaces : Free(sp)
    \/ \E id \in TrunkIds : Delete(id)
    \/ Dead

Spec == Init /\ [][Next]_vars

-----------------------------------------------------------------------------
(***************************************************************************)
(* Properties                                                              *)
(***************************************************************************)

SpacesIn(id) == {sp \in spaces : sp.id = id}

\* No two spaces handed out by trunk_allocator_alloc and not yet freed share
\* a byte, and every one lies inside its trunk file below free_start, where
\* no later allocation can hand it out again: the head/next-trunk split,
\* the free_start advance in trunk_to_space and the discard rule together
\* must never hand out bytes twice or past a trunk's end.
SpacesDisjoint ==
    \A a \in spaces :
        /\ a.off + a.size <= trunk[a.id].free_start
        /\ trunk[a.id].free_start <= trunk[a.id].size
        /\ \A b \in SpacesIn(a.id) \ {a} :
              a.off + a.size <= b.off \/ b.off + b.size <= a.off

\* For every trunk in the skiplist, used.bytes and used.count equal the
\* total size and number of its live spaces, after any mix of allocations
\* split over two trunks and frees (trunk_to_space, trunk_allocator_free).
UsedAccounting ==
    \A id \in sl :
        /\ trunk[id].ubytes = MapThenSumSet(LAMBDA sp : sp.size, SpacesIn(id))
        /\ trunk[id].ucount = Cardinality(SpacesIn(id))

\* Every trunk on a freelist has at least discard_remain_space_size bytes
\* left, so the head's remainder handed out by a split is never empty.
FreelistTrunksHaveRoom ==
    \A t \in Threads : \A i \in DOMAIN freelist[t] :
        Remain(freelist[t][i]) >= DISCARD

\* Every trunk the prealloc thread created for a freelist is either on a
\* freelist or was handed out from: trunk_allocator_add_to_freelist never
\* leaves a new, empty trunk registered in sl_trunks but unreachable for
\* allocation (its early return when the free-node slab is exhausted).
NoStrandedTrunk ==
    \A id \in sl : trunk[id].status = "NONE" => trunk[id].free_start > 0

\* Every trunk on a freelist, which trunk_allocator_alloc may hand space
\* from, is registered in sl_trunks: trunk_allocator_delete never leaves
\* a trunk on a freelist, where it would keep receiving allocations after
\* its FSTrunkFileInfo is freed (after the delay) and every later
\* trunk_allocator_free of its spaces would return ENOENT.
FreelistTrunksRegistered ==
    \A t \in Threads : \A i \in DOMAIN freelist[t] : freelist[t][i] \in sl

\* The write path never dereferences an empty freelist's head
\* (trunk_allocator_alloc after alloc_trunk returned 0 with head NULL).
NoNullHeadDereference == ~crashed

====
