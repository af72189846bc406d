---------------------------- MODULE BinlogPosition ----------------------------
(***************************************************************************)
(* Searching a data group's replica binlog by data version                 *)
(* (src/src/server/binlog/replica_binlog.c).  The binlog is a series of    *)
(* files with indexes 0 .. current write index; records carry strictly     *)
(* increasing data versions.  A file may be missing or empty (purged, or   *)
(* just rotated), which the first/last-line readers report as ENOENT.      *)
(*                                                                         *)
(*  - get_last_data_version_from_file_ex finds the newest data version,   *)
(*    stepping back over ENOENT files;                                     *)
(*  - replica_binlog_get_position_by_dv finds where a reader must start   *)
(*    to read exactly the records newer than last_data_version: it picks   *)
(*    the highest file whose first version is <= last_data_version and    *)
(*    find_position settles the offset from that file's last record or by *)
(*    scanning it (find_position_by_buffer).                               *)
(*                                                                         *)
(* Both are pure functions of the files, written as operators and checked *)
(* against reference definitions over every small binlog.  A record is one *)
(* unit of offset: record_len and byte offsets are abstracted to record    *)
(* counts, which keeps every comparison the code makes.                    *)
(***************************************************************************)
EXTENDS Integers, Sequences, FiniteSets, SequencesExt

CONSTANTS
    MaxIndex,   \* largest current write index enumerated
    MaxDv       \* data versions are drawn from 1..MaxDv

\* fc_get_first_line / fc_get_last_line on a missing or empty file.
Missing(f) == f = <<>>

FirstDv(f) == f[1]

LastDv(f) == Last(f)

(***************************************************************************)
(* get_last_data_version_from_file_ex: from the current write index down,  *)
(* the last record of the first file that has one; 0 if there is none.    *)
(***************************************************************************)
StopOnEnoent(files, i) == FALSE

SkipEnoent(files, i) == i > 0

RECURSIVE LastVersionFrom(_, _)
LastVersionFrom(files, i) ==
    IF i < 0 THEN 0
    ELSE IF ~Missing(files[i]) THEN LastDv(files[i])
    ELSE IF SkipEnoent(files, i) THEN LastVersionFrom(files, i - 1)
    ELSE 0

LastDataVersionFromFile(files, cur) == LastVersionFrom(files, cur)

\* The first version of a file reaches back to last_data_version (line 596).
FirstCoversStrict(last, first) == last > first

FirstCovers(last, first) == last >= first

\* find_position_by_buffer: the offset of the first record newer than
\* last_data_version, or -1 (EAGAIN) when the buffer ends first.
NewerThan(last, dv) == last < dv

RECURSIVE ScanBuffer(_, _, _)
ScanBuffer(f, last, k) ==
    IF k >= Len(f) THEN -1
    ELSE IF NewerThan(last, f[k + 1]) THEN k
    ELSE ScanBuffer(f, last, k + 1)

Pos(i, off) == [res |-> "OK", index |-> i, offset |-> off]

(***************************************************************************)
(* find_position for file i: compare with the file's last record; past it  *)
(* the reader moves to the next file, or, in the current file, to its end *)
(* (equal, or ignore_dv_overflow) or EOVERFLOW.  Otherwise the record is  *)
(* inside the file and the buffer scan finds its offset.                  *)
(***************************************************************************)
FindPosition(files, cur, i, last, ignore) ==
    LET f == files[i]
        d == LastDv(f)
    IN  IF last = d
          THEN IF i < cur THEN Pos(i + 1, 0) ELSE Pos(i, Len(f))
        ELSE IF last > d
          THEN IF i < cur THEN Pos(i + 1, 0)
               ELSE IF ignore THEN Pos(i, Len(f))
               ELSE [res |-> "EOVERFLOW", index |-> i, offset |-> Len(f) - 1]
        ELSE LET k == ScanBuffer(f, last, 0)
             IN  IF k < 0 THEN [res |-> "EAGAIN", index |-> i, offset |-> 0]
                 ELSE Pos(i, k)

RECURSIVE ScanDown(_, _, _, _, _)
ScanDown(files, cur, i, last, ignore) ==
    IF i < 0 THEN Pos(0, 0)
    ELSE IF Missing(files[i]) THEN ScanDown(files, cur, i - 1, last, ignore)
    ELSE IF FirstCovers(last, FirstDv(files[i]))
      THEN FindPosition(files, cur, i, last, ignore)
    ELSE ScanDown(files, cur, i - 1, last, ignore)

GetPositionByDv(files, cur, last, ignore) ==
    ScanDown(files, cur, cur, last, ignore)

-----------------------------------------------------------------------------
(***************************************************************************)
(* Reference definitions.                                                  *)
(***************************************************************************)
AllDvs(files, cur) == UNION {{files[i][k] : k \in DOMAIN files[i]} : i \in 0..cur}

\* The record number, counting over all files, that a position denotes.
Global(files, pos) ==
    LET before[j \in 0..pos.index] ==
            IF j = 0 THEN 0 ELSE before[j - 1] + Len(files[j - 1])
    IN  before[pos.index] + pos.offset

\* How many records are not newer than last_data_version.
NotNewer(files, cur, last) == Cardinality({d \in AllDvs(files, cur) : d <= last})

RefLastVersion(files, cur) ==
    IF AllDvs(files, cur) = {} THEN 0
    ELSE CHOOSE d \in AllDvs(files, cur) : \A e \in AllDvs(files, cur) : e <= d

VARIABLES files, cur, last, ignore

vars == <<files, cur, last, ignore>>

\* A binlog: each data version 1..MaxDv is absent (-1) or in one file, and
\* files hold increasing versions, so the placement is monotone.
Placements(c) == {g \in [1..MaxDv -> -1..c] :
                    \A d, e \in 1..MaxDv : d < e /\ g[d] >= 0 /\ g[e] >= 0 => g[d] <= g[e]}

FilesOf(g, c) == [i \in 0..c |-> SetToSortSeq({d \in 1..MaxDv : g[d] = i}, <)]

Init ==
    /\ cur \in 0..MaxIndex
    /\ files \in {FilesOf(g, cur) : g \in Placements(cur)}
    /\ last \in 1..(MaxDv + 1)
    /\ ignore \in BOOLEAN

Next == UNCHANGED vars

Spec == Init /\ [][Next]_vars

\* replica_binlog_get_position_by_dv returns a position from which a reader
\* reads exactly the records newer than last_data_version, across missing
\* and empty files, whether the version is the last record of a file, a
\* gap between two files or inside one; it fails only with EOVERFLOW.
PositionByDvCorrect ==
    LET p == GetPositionByDv(files, cur, last, ignore)
    IN  p.res \in {"OK", "EOVERFLOW"} /\
        (p.res = "OK" => Global(files, p) = NotNewer(files, cur, last))

\* get_last_data_version_from_file_ex yields the newest data version in
\* the binlog, stepping back over a missing or empty current file.
LastVersionIsNewest ==
    LastDataVersionFromFile(files, cur) = RefLastVersion(files, cur)

\* A last_data_version newer than every record in the binlog is refused
\* with EOVERFLOW unless ignore_dv_overflow is set (the error path at
\* lines 552-557: "last_data_version ... is too large").
OverflowDetected ==
    LET p == GetPositionByDv(files, cur, last, ignore)
    IN  (AllDvs(files, cur) # {} /\ last > RefLastVersion(files, cur) /\ ~ignore)
            => p.res = "EOVERFLOW"

====
