------------------------------- MODULE SeqSet -------------------------------
(***************************************************************************)
(* The run-length coded set of sequence numbers that the trace writer      *)
(* keeps in trace_index.path (class _SeqSet): sorted, disjoint,            *)
(* non-adjacent closed ranges <<lo, hi>>.  The value is read back and      *)
(* rewritten on every batch, so the module runs any number of batches on   *)
(* it and compares it with the plain set it stands for.                    *)
(***************************************************************************)
EXTENDS Integers, Sequences, FiniteSets, SequencesExt, TLC

CONSTANT MaxSeq    \* MAX_TRACE_SEQ

ASSUME MaxSeqAssumption == MaxSeq \in Nat

Seqs == 0..MaxSeq

VARIABLES
    ranges,     \* _SeqSet.ranges, as stored under path["seq_ranges"]
    recorded    \* history: the sequence numbers of all batches so far

vars == <<ranges, recorded>>

-----------------------------------------------------------------------------
\* The order of sorted(ranges): by lo, then by hi.
Less(a, b) == a[1] < b[1] \/ (a[1] = b[1] /\ a[2] < b[2])

\* Mutant: ranges that touch are left apart.
JoinsOverlapOnly(last, r) == r[1] <= last[2]

Joins(last, r) == r[1] <= last[2] + 1

\* Mutant: the later range's end replaces the earlier one's.
JoinedKeepsLater(last, r) == <<last[1], r[2]>>

Joined(last, r) == <<last[1], IF last[2] < r[2] THEN r[2] ELSE last[2]>>

\* _merge_ranges: one pass over the sorted ranges.
MergeRanges(rs) ==
    FoldLeft(LAMBDA merged, r :
                 IF merged # <<>> /\ Joins(Last(merged), r)
                 THEN Front(merged) \o <<Joined(Last(merged), r)>>
                 ELSE Append(merged, r),
             <<>>, SortSeq(rs, Less))

\* _SeqSet.from_path: a stored entry that is not a range within bounds is dropped.
FromPath(raw) ==
    MergeRanges(SelectSeq(raw, LAMBDA r : 0 <= r[1] /\ r[1] <= r[2] /\ r[2] <= MaxSeq))

\* The numbers of a batch in order.
Sorted(seqs) == SelectSeq([i \in 1..(MaxSeq + 1) |-> i - 1], LAMBDA s : s \in seqs)

\* _SeqSet.extend.
Extend(rs, seqs) ==
    LET new == Sorted(seqs)
    IN  MergeRanges(rs \o [i \in DOMAIN new |-> <<new[i], new[i]>>])

\* _SeqSet.contains: the last range that starts at or below seq, by bisection.
ContainsSeq(rs, seq) ==
    LET idx == Cardinality({i \in DOMAIN rs : rs[i][1] <= seq})
    IN  idx > 0 /\ seq <= rs[idx][2]

\* _SeqSet.count_upto.
CountUpto(rs, end) ==
    FoldLeft(LAMBDA n, r : IF r[1] <= end
                           THEN n + (IF r[2] < end THEN r[2] ELSE end) - r[1] + 1
                           ELSE n,
             0, rs)

\* _SeqSet.has_above.
HasAbove(rs, end) == rs # <<>> /\ Last(rs)[2] > end

-----------------------------------------------------------------------------
Init == ranges = <<>> /\ recorded = {}

\* One batch: read the stored value, add the batch's numbers, write it back.
Batch(seqs) ==
    /\ ranges' = Extend(FromPath(ranges), seqs)
    /\ recorded' = recorded \cup seqs

Next == \E seqs \in SUBSET Seqs \ {{}} : Batch(seqs)

Spec == Init /\ [][Next]_vars

-----------------------------------------------------------------------------
(***************************************************************************)
(* Whatever the batches were and in whatever order they came, the ranges   *)
(* denote exactly the numbers recorded, and every query the writer makes   *)
(* (contains for the dedup, count_upto for the gap test, has_above for the *)
(* sentinel) answers as on the plain set.                                  *)
(***************************************************************************)
QueriesExact ==
    \A s \in Seqs :
        /\ ContainsSeq(ranges, s) <=> s \in recorded
        /\ CountUpto(ranges, s) = Cardinality({r \in recorded : r <= s})
        /\ HasAbove(ranges, s) <=> \E r \in recorded : r > s

(***************************************************************************)
(* The form is canonical: sorted, and a gap of at least one number between *)
(* neighbours.  The archive reader (_strict_index_path) depends on it: it  *)
(* refuses a complete run whose numbers are not stored as the one range    *)
(* <<0, end_seq>>.                                                         *)
(***************************************************************************)
Canonical ==
    \A i \in 1..(Len(ranges) - 1) : ranges[i][2] + 1 < ranges[i + 1][1]
=============================================================================
