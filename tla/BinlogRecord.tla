----------------------------- MODULE BinlogRecord -----------------------------
(***************************************************************************)
(* The replica binlog's line format (src/src/server/binlog/                *)
(* replica_binlog.c): replica_binlog_log_slice and replica_binlog_log_block *)
(* print a record as space-separated decimal fields ending in LF, and      *)
(* replica_binlog_record_unpack splits a line on spaces and parses the     *)
(* fields back.  A line is abstracted to its fields: the field values in  *)
(* order (a decimal number, or text: an op character or "" for an empty  *)
(* field) and                                                              *)
(* whether the last one is followed by LF.  A field's end character is    *)
(* then the separator after it: a space, LF, or the end of the string.    *)
(*                                                                         *)
(* The field indexes, op characters and BINLOG_PARSE_INT_SILENCE (strtol,  *)
(* then "*endptr == endchr && value >= min") are in headers not in this    *)
(* repository; they follow the format of spec 6.b.                        *)
(***************************************************************************)
EXTENDS Integers, Sequences

CONSTANTS
    Nums        \* the small decimal values a field may hold

SliceOps == {"W", "A", "D"}    \* write, alloc, delete slice
BlockOps == {"R", "N"}         \* delete block, no-op
OpChars == SliceOps \cup BlockOps

\* BINLOG_COMMON_FIELD_INDEX_* (0-based, as in the C arrays).
TIMESTAMP == 0
DATA_VERSION == 1
OP_TYPE == 2
BLOCK_OID == 3
BLOCK_OFFSET == 4
SLICE_OFFSET == 5
SLICE_LENGTH == 6

SLICE_EXPECT_FIELD_COUNT == 7
BLOCK_EXPECT_FIELD_COUNT == 5
MIN_EXPECT_FIELD_COUNT == BLOCK_EXPECT_FIELD_COUNT

Line(fields, lf) == [fields |-> fields, lf |-> lf]
Num(n) == [num |-> n]       \* a field of decimal digits
Text(c) == [text |-> c]     \* a field strtol stops at at once
IsNum(v) == "num" \in DOMAIN v

\* The sprintf of replica_binlog_log_slice / replica_binlog_log_block.
FormatSlice(ts, r) ==
    Line(<<Num(ts), Num(r.dv), Text(r.op), Num(r.oid), Num(r.boff),
           Num(r.soff), Num(r.slen)>>, TRUE)

FormatBlock(ts, r) ==
    Line(<<Num(ts), Num(r.dv), Text(r.op), Num(r.oid), Num(r.boff)>>, TRUE)

\* The character strtol stops at after column i: the separator that
\* split_string_ex replaced, LF, or the end of the string.
EndChar(line, i) ==
    IF i + 1 < Len(line.fields) THEN " "
    ELSE IF line.lf THEN "\n" ELSE "EOS"

\* BINLOG_PARSE_INT_SILENCE(var, caption, i, endchr, min_val): the value, or
\* EINVAL (-1: a parsed value is >= min_val >= 0).
EINVAL == -1

ParseIntAnyEnd(line, i, endchr, min) ==
    LET v == line.fields[i + 1]
    IN  IF IsNum(v) /\ v.num >= min THEN v.num ELSE EINVAL

ParseInt(line, i, endchr, min) ==
    LET v == line.fields[i + 1]
    IN  IF IsNum(v) /\ EndChar(line, i) = endchr /\ v.num >= min
          THEN v.num ELSE EINVAL

Err == [res |-> "EINVAL"]

\* unpack_slice_record, after the op and data version were taken.
UnpackSlice(line, op, dv) ==
    LET oid  == ParseInt(line, BLOCK_OID, " ", 1)
        boff == ParseInt(line, BLOCK_OFFSET, " ", 0)
        soff == ParseInt(line, SLICE_OFFSET, " ", 0)
        slen == ParseInt(line, SLICE_LENGTH, "\n", 1)
    IN  IF Len(line.fields) # SLICE_EXPECT_FIELD_COUNT THEN Err
        ELSE IF EINVAL \in {oid, boff, soff, slen} THEN Err
        ELSE [res |-> "OK", op |-> op, dv |-> dv, oid |-> oid, boff |-> boff,
              soff |-> soff, slen |-> slen]

\* unpack_block_record.
UnpackBlock(line, op, dv) ==
    LET oid  == ParseInt(line, BLOCK_OID, " ", 1)
        boff == ParseInt(line, BLOCK_OFFSET, "\n", 0)
    IN  IF Len(line.fields) # BLOCK_EXPECT_FIELD_COUNT THEN Err
        ELSE IF EINVAL \in {oid, boff} THEN Err
        ELSE [res |-> "OK", op |-> op, dv |-> dv, oid |-> oid, boff |-> boff]

\* cols[OP_TYPE].str[0]: the op character, or something that is none.
OpOfNextColumn(line) ==
    LET v == line.fields[OP_TYPE + 2]
    IN  IF ~IsNum(v) /\ v.text \in OpChars THEN v.text ELSE "other"

OpOf(line) ==
    LET v == line.fields[OP_TYPE + 1]
    IN  IF ~IsNum(v) /\ v.text \in OpChars THEN v.text ELSE "other"

(***************************************************************************)
(* replica_binlog_record_unpack.  split_string_ex yields one column per    *)
(* field (at most MAX_BINLOG_FIELD_COUNT = 8; no formatted or torn line   *)
(* has more than 7).                                                       *)
(***************************************************************************)
Unpack(line) ==
    IF Len(line.fields) < MIN_EXPECT_FIELD_COUNT THEN Err
    ELSE LET op == OpOf(line)
             dv == ParseInt(line, DATA_VERSION, " ", 1)
         IN  IF dv = EINVAL THEN Err
             ELSE IF op \in SliceOps THEN UnpackSlice(line, op, dv)
             ELSE IF op \in BlockOps THEN UnpackBlock(line, op, dv)
             ELSE Err

-----------------------------------------------------------------------------
\* Records as the data layer logs them: a data version >= 1, an object id
\* >= 1, offsets >= 0 and a slice length >= 1.
Pos == {n \in Nums : n >= 1}
Nat0 == {n \in Nums : n >= 0}

SliceRecords == [op : SliceOps, dv : Pos, oid : Pos, boff : Nat0,
                 soff : Nat0, slen : Pos]
BlockRecords == [op : BlockOps, dv : Pos, oid : Pos, boff : Nat0]

Formatted(ts, r) ==
    IF r.op \in SliceOps THEN FormatSlice(ts, r) ELSE FormatBlock(ts, r)

\* The lines a crash can leave as the last line of a binlog file: the first
\* k fields of a record, the last of them possibly cut short (its decimal
\* prefix, or empty after the separator), and no LF.
\* A field cut short: its decimal prefix (some value of Nums), or empty.
CutField(v) ==
    {v, Text("")} \cup (IF IsNum(v) THEN {Num(n) : n \in Nums} ELSE {})

TornLines(line) ==
    UNION {{Line([j \in 1..k |-> IF j < k THEN line.fields[j] ELSE v], FALSE) :
              v \in CutField(line.fields[k])} : k \in 1..Len(line.fields)}
====
