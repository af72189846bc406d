------------------------------ MODULE BinlogInit ------------------------------
(***************************************************************************)
(* Start-up of the replica binlog (src/src/server/binlog/replica_binlog.c, *)
(* replica_binlog_init).  The server's data groups come from the cluster   *)
(* config as an id array; one writer is allocated per group, and the       *)
(* writers array, indexed by id - base_id, has one slot per data group of  *)
(* the cluster.  For each group the writer starts at data_version + 1, and *)
(* set_my_data_version then reads the newest version of the group's       *)
(* binlog files (get_last_data_version_from_file, BinlogPosition) and      *)
(* stores it with replica_binlog_set_data_version, which moves the writer  *)
(* to new_version + 1.  Start-up is one thread, so the CAS loop is one     *)
(* step here.  The result is a record: res, base_id, writers (slot ->      *)
(* holder index, 0 for NULL), next (holder -> writer next version) and dv  *)
(* (group -> replica.data_version).                                        *)
(***************************************************************************)
EXTENDS Integers, Sequences, SequencesExt

CONSTANTS
    GroupCount,     \* CLUSTER_DATA_RGOUP_ARRAY.count; group ids 1..GroupCount
    MaxIndex,       \* binlog files of a group: indexes 0..MaxIndex
    MaxDv           \* data versions in a group's binlog: 1..MaxDv

Bin == INSTANCE BinlogPosition WITH files <- <<>>, cur <- 0, last <- 0,
                                     ignore <- FALSE

GroupIds == 1..GroupCount
Slots == 0..(GroupCount - 1)

\* fs_cluster_cfg_get_max_data_group_id: the last id of the array, or -1.
MaxDataGroupId(ids) == IF Len(ids) > 0 THEN ids[Len(ids)] ELSE -1

\* fs_cluster_cfg_get_min_data_group_id: the first id of the array, or -1.
MinDataGroupId(ids) == IF Len(ids) > 0 THEN ids[1] ELSE -1

\* The version binlog_writer_init_by_version is given for a group.
WriterStartVersionSame(dv) == dv

WriterStartVersion(dv) == dv + 1

\* set_my_data_version: the newest version in the binlog, stored by
\* replica_binlog_set_data_version, which returns at once when it is equal
\* and otherwise swaps it in and calls change_next_version(new + 1).
SetMyDataVersion(st, g, h, binlog) ==
    LET new == Bin!LastDataVersionFromFile(binlog.files, binlog.cur)
    IN  IF st.dv[g] = new THEN st
        ELSE [st EXCEPT !.dv[g] = new, !.next[h] = new + 1]

\* One pass of the loop: holder i serves ids[i] and is stored at slot
\* id - min_id; a slot outside the writers array is an out-of-bounds store.
InitGroup(st, i, ids, binlogs) ==
    LET g    == ids[i]
        slot == g - st.base
    IN  IF slot \notin Slots THEN [st EXCEPT !.res = "OOB"]
        ELSE SetMyDataVersion([st EXCEPT !.writers[slot] = i,
                                         !.next[i] = WriterStartVersion(st.dv[g])],
                              g, i, binlogs[g])

RECURSIVE InitLoop(_, _, _, _)
InitLoop(i, ids, binlogs, st) ==
    IF i > Len(ids) \/ st.res # "OK" THEN st
    ELSE InitLoop(i + 1, ids, binlogs, InitGroup(st, i, ids, binlogs))

\* replica_binlog_init with the server's ids, the groups' data versions
\* before start-up, and each group's binlog ([files, cur]).
ReplicaBinlogInit(ids, dv0, binlogs) ==
    IF Len(ids) = 0 \/ MinDataGroupId(ids) <= 0 THEN [res |-> "ENOENT"]
    ELSE InitLoop(1, ids, binlogs,
                  [res |-> "OK", base |-> MinDataGroupId(ids),
                   writers |-> [s \in Slots |-> 0],
                   next |-> [h \in 1..Len(ids) |-> 0], dv |-> dv0])

\* replica_binlog_get_writer: writers[data_group_id - base_id], the holder
\* index, or "OOB" outside the array.
GetWriter(st, g) ==
    IF g - st.base \in Slots THEN st.writers[g - st.base] ELSE "OOB"

-----------------------------------------------------------------------------
\* Inputs: the server's ids in the ascending order the cluster config
\* keeps them, and each group's binlog as BinlogPosition enumerates it.
IdArrays == {SetToSortSeq(S, <) : S \in SUBSET GroupIds \ {{}}}

Binlogs == UNION {{[files |-> Bin!FilesOf(p, c), cur |-> c] : p \in Bin!Placements(c)} :
                  c \in 0..MaxIndex}
====
