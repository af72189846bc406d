---------------------------- MODULE MC_Algorithms ----------------------------
(***************************************************************************)
(* The two pure functions of the storage layer checked in one run: each    *)
(* initial state is an input of either trunk_allocator_free_size_top_n     *)
(* (every skiplist of up to four trunks of four units, blocks of two, and *)
(* count up to three) or of the binlog search (every binlog of up to three *)
(* files over data versions 1..4, every last_data_version and flag), or   *)
(* of the binlog line format (every record over small field values).      *)
(***************************************************************************)
EXTENDS Integers, Sequences, SequencesExt

VARIABLES which, ts, count, files, cur, last, ignore, stamp, rec,
          ids, dv0, binlogs

vars == <<which, ts, count, files, cur, last, ignore, stamp, rec, ids, dv0,
          binlogs>>

Top == INSTANCE TrunkTopN WITH TRUNK_SIZE <- 4, BLOCK_SIZE <- 2,
                               MaxTrunks <- 4, MaxCount <- 3
Bin == INSTANCE BinlogPosition WITH MaxIndex <- 2, MaxDv <- 4
Rec == INSTANCE BinlogRecord WITH Nums <- 0..2
Start == INSTANCE BinlogInit WITH GroupCount <- 3, MaxIndex <- 1, MaxDv <- 2

\* The inputs of the other two harnesses, left at a fixed value.
NoTopN == ts = <<>> /\ count = 0
NoBinlog == files = <<>> /\ cur = 0 /\ last = 0 /\ ignore = FALSE
NoRecord == stamp = 0 /\ rec = [op |-> "N"]
NoStart == ids = <<>> /\ dv0 = <<>> /\ binlogs = <<>>

Init ==
    \/ which = "topn" /\ Top!Init /\ NoBinlog /\ NoRecord /\ NoStart
    \/ which = "binlog" /\ Bin!Init /\ NoTopN /\ NoRecord /\ NoStart
    \/ /\ which = "start" /\ NoTopN /\ NoBinlog /\ NoRecord
       /\ ids \in Start!IdArrays
       \* the groups the server does not serve keep version 0 and no binlog
       /\ dv0 \in {f \in [Start!GroupIds -> 0..2] :
                     \A g \in Start!GroupIds \ Range(ids) : f[g] = 0}
       /\ binlogs \in {b \in [Start!GroupIds -> Start!Binlogs] :
                     \A g \in Start!GroupIds \ Range(ids) : b[g].cur = 0 /\ b[g].files[0] = <<>>}
    \/ /\ which = "record" /\ NoTopN /\ NoBinlog /\ NoStart
       /\ stamp \in 0..1
       /\ rec \in Rec!SliceRecords \cup Rec!BlockRecords

Next == UNCHANGED vars

Spec == Init /\ [][Next]_vars

\* free_size_top_n keeps the count largest candidates whenever
\* priority_array fills in ascending order (TrunkTopN).
TopNCorrectWhenFillSorted == which = "topn" => Top!TopNCorrectWhenFillSorted

\* replica_binlog_get_position_by_dv starts a reader exactly after
\* last_data_version, across missing and empty files (BinlogPosition).
PositionByDvCorrect == which = "binlog" => Bin!PositionByDvCorrect

\* get_last_data_version_from_file_ex finds the newest data version,
\* stepping back over a missing or empty current file (BinlogPosition).
LastVersionIsNewest == which = "binlog" => Bin!LastVersionIsNewest

\* A record printed by replica_binlog_log_slice or replica_binlog_log_block
\* is read back by replica_binlog_record_unpack as the same record (spec
\* 7: parse(format(r)) == r), for every op and field value.
RecordRoundTrip ==
    which = "record" =>
        Rec!Unpack(Rec!Formatted(stamp, rec))
            = [f \in DOMAIN rec \cup {"res"} |-> IF f = "res" THEN "OK" ELSE rec[f]]

\* A record torn by a crash while it was appended (a prefix of its fields,
\* the last possibly cut, no LF) is never read as a record: the last line
\* of a binlog file after a crash fails with EINVAL instead of yielding a
\* wrong data version or block key.
TornRecordRejected ==
    which = "record" =>
        \A t \in Rec!TornLines(Rec!Formatted(stamp, rec)) : Rec!Unpack(t) = Rec!Err

\* replica_binlog_init succeeds for every id array of the cluster config,
\* and afterwards replica_binlog_get_writer(id) returns the writer that was
\* set up for id, for every data group the server serves: base_id, the
\* writers array sized by the cluster's group count and the id - base_id
\* index must agree.
WritersResolve ==
    which = "start" =>
        LET st == Start!ReplicaBinlogInit(ids, dv0, binlogs)
        IN  /\ st.res = "OK"
            /\ \A i \in 1..Len(ids) : Start!GetWriter(st, ids[i]) = i

\* After start-up every served group's data version is the newest version
\* in its binlog files, and its writer's next version is one past it, both
\* when set_my_data_version moved the version and when it found it equal
\* and left the writer at the version binlog_writer_init_by_version gave it.
StartVersionsAgree ==
    which = "start" =>
        LET st == Start!ReplicaBinlogInit(ids, dv0, binlogs)
        IN  \A i \in 1..Len(ids) :
              LET g == ids[i]
                  newest == Bin!LastDataVersionFromFile(binlogs[g].files, binlogs[g].cur)
              IN  st.dv[g] = newest /\ st.next[i] = newest + 1
====
