----------------------------- MODULE TrunkTopN ------------------------------
(***************************************************************************)
(* trunk_allocator_free_size_top_n (src/src/server/storage/               *)
(* trunk_allocator.c): one pass over the trunk skiplist in id order that   *)
(* keeps, in priority_array, the trunks with the most free space.  A trunk *)
(* is a candidate if at least one block fits in its remainder and it is    *)
(* either unused or more than 80% of its written part is still in use.    *)
(* The scan is a pure function of the skiplist and count, so it is         *)
(* written as operators and checked against a reference definition of     *)
(* "the count candidates with the largest remainder" over every small      *)
(* input.                                                                  *)
(***************************************************************************)
EXTENDS Integers, Sequences, FiniteSets

CONSTANTS
    TRUNK_SIZE,     \* size of every trunk in the inputs
    BLOCK_SIZE,     \* FS_FILE_BLOCK_SIZE
    MaxTrunks,      \* longest skiplist enumerated
    MaxCount        \* largest count argument enumerated

\* A trunk as the scan sees it: size, free_start and used.bytes.
Trunks == {t \in [size : {TRUNK_SIZE}, free_start : 0..TRUNK_SIZE,
                  ubytes : 0..TRUNK_SIZE] : t.ubytes <= t.free_start}

RemainOf(t) == t.size - t.free_start

\* The two `continue` filters of lines 402-410.  used.bytes / free_start
\* <= 0.80 is compared in doubles; 4/5 is the double nearest 0.80, so the
\* integer comparison below decides exactly as the code does.
Eligible(t) ==
    /\ RemainOf(t) >= BLOCK_SIZE
    /\ t.ubytes = 0 \/ t.ubytes * 5 > t.free_start * 4

\* Once the array is full, a candidate is inserted only if its remainder
\* exceeds that of trunks[0] (lines 416-420).
CandidateBeatsMinAlways(ts, arr, i) == TRUE

CandidateBeatsMin(ts, arr, i) == RemainOf(ts[i]) > RemainOf(ts[arr[1]])

(***************************************************************************)
(* The shifting insert of lines 422-427: starting at trunks[1], entries    *)
(* with a smaller remainder than the candidate move one place down; the    *)
(* candidate goes where the loop stops.  trunks[0] is overwritten.         *)
(***************************************************************************)
InsertShifted(ts, arr, i, count) ==
    LET stop == CHOOSE p \in 2..(count + 1) :
                    /\ p = count + 1 \/ ~(RemainOf(ts[i]) > RemainOf(ts[arr[p]]))
                    /\ \A q \in 2..(p - 1) : RemainOf(ts[i]) > RemainOf(ts[arr[q]])
    IN  [j \in 1..count |-> IF j < stop - 1 THEN arr[j + 1]
                            ELSE IF j = stop - 1 THEN i
                            ELSE arr[j]]

\* One iteration of the while loop for the trunk at skiplist position i.
ScanStep(ts, arr, i, count) ==
    IF ~Eligible(ts[i]) THEN arr
    ELSE IF Len(arr) < count THEN Append(arr, i)
    ELSE IF ~CandidateBeatsMin(ts, arr, i) THEN arr
    ELSE InsertShifted(ts, arr, i, count)

RECURSIVE Scan(_, _, _, _)
Scan(ts, arr, i, count) ==
    IF i > Len(ts) THEN arr
    ELSE Scan(ts, ScanStep(ts, arr, i, count), i + 1, count)

\* The skiplist positions left in priority_array, in array order.
FreeSizeTopN(ts, count) == Scan(ts, <<>>, 1, count)

-----------------------------------------------------------------------------
(***************************************************************************)
(* Reference: res holds count candidates (or all of them if fewer), each   *)
(* once, and no candidate left out has a larger remainder than one kept.   *)
(***************************************************************************)
Candidates(ts) == {i \in DOMAIN ts : Eligible(ts[i])}

IsTopN(res, ts, count) ==
    LET kept == {res[j] : j \in DOMAIN res}
    IN  /\ Cardinality(kept) = Len(res)
        /\ kept \subseteq Candidates(ts)
        /\ Len(res) = IF count < Cardinality(Candidates(ts))
                        THEN count ELSE Cardinality(Candidates(ts))
        /\ \A x \in Candidates(ts) \ kept, y \in kept :
              RemainOf(ts[x]) <= RemainOf(ts[y])

\* The first count candidates of the skiplist come in ascending order of
\* remainder: then priority_array starts out sorted, as the insert assumes.
FillSorted(ts, count) ==
    \A i, j \in Candidates(ts) :
        /\ i < j
        /\ Cardinality({k \in Candidates(ts) : k <= j}) <= count
        => RemainOf(ts[i]) <= RemainOf(ts[j])

VARIABLES ts, count

vars == <<ts, count>>

\* Every skiplist of up to MaxTrunks trunks and every count up to MaxCount.
Init ==
    /\ ts \in UNION {[1..n -> Trunks] : n \in 0..MaxTrunks}
    /\ count \in 1..MaxCount

Next == UNCHANGED vars

Spec == Init /\ [][Next]_vars

\* When the array happens to fill in ascending order, the skip test against
\* trunks[0] and the shifting insert keep exactly the count largest
\* candidates: the insertion half of free_size_top_n is right.
TopNCorrectWhenFillSorted ==
    FillSorted(ts, count) => IsTopN(FreeSizeTopN(ts, count), ts, count)

\* free_size_top_n returns the count candidates with the most free space,
\* whatever order the skiplist holds them in.
TopNIsLargest == IsTopN(FreeSizeTopN(ts, count), ts, count)

====
