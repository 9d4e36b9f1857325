------------------------------ MODULE DomainLog ------------------------------
(***************************************************************************)
(* mapfile/generator.py: from the byte ranges that the selected files need *)
(* to the domain log that a pass of gddrescue may read.                    *)
(* generate_targeted_domain merges the ranges, subtracts what the mapfile  *)
(* has as rescued, merges what is left and writes it down; merge_ranges is *)
(* called three times, "caller" being the place it returns to.             *)
(***************************************************************************)
EXTENDS Mapfile, FiniteSets

CONSTANTS RangeLists,    \* file_byte_ranges: lists of byte ranges in any order
          MapfileSet     \* existing_mapfile: the entries of mapfiles

ASSUME ArgumentsAssumption ==
  RangeLists \subseteq Seq(ByteRange) /\ MapfileSet \subseteq Mapfiles

VARIABLES
  pc,                        \* where the code is, see TypeOK
  asked, entries,            \* the two arguments
  caller, arg,               \* the call of merge_ranges: who calls, with what
  intervals, i, cur, merged, \* its locals and its result
  needed, remaining,         \* merged_needed, remaining
  r, e, cursor, result,      \* the locals of subtract_rescued, of the writer r and cursor
  domain                     \* the entries written

arguments    == <<asked, entries>>
mergeVars    == <<intervals, i, cur, merged>>
subtractVars == <<r, e, cursor, result>>
lists        == <<needed, remaining>>
vars == <<pc, arguments, caller, arg, mergeVars, lists, subtractVars, domain>>

Init ==
  /\ pc = "sort" /\ caller = "needed"
  /\ asked \in RangeLists /\ entries \in MapfileSet
  /\ arg = asked
  /\ intervals = <<>> /\ i = 1 /\ cur = [lo |-> 0, hi |-> 0] /\ merged = <<>>
  /\ needed = <<>> /\ remaining = <<>>
  /\ r = 1 /\ e = 1 /\ cursor = 0 /\ result = <<>>
  /\ domain = <<>>

Piece(from, to) == [pos |-> from, size |-> to - from]

-----------------------------------------------------------------------------
(* merge_ranges *)

\* The order of Python tuples.
Before(a, b) == a.lo < b.lo \/ (a.lo = b.lo /\ a.hi <= b.hi)

Intervals ==
  {[lo |-> arg[k].pos, hi |-> EndOf(arg[k])] : k \in {j \in DOMAIN arg : arg[j].size > 0}}

\* sorted(...): an enumeration of the intervals in order.  A duplicate is
\* absorbed by the loop, so the set of the intervals stands for the list.
Sort ==
  /\ pc = "sort" /\ Intervals # {}
  /\ \E s \in [1..Cardinality(Intervals) -> Intervals] :
       /\ \A v \in Intervals : \E k \in DOMAIN s : s[k] = v
       /\ \A a, b \in DOMAIN s : a < b => Before(s[a], s[b])
       /\ intervals' = s
       /\ cur' = s[1]
  /\ i' = 2 /\ merged' = <<>>
  /\ pc' = "loop"
  /\ UNCHANGED <<arguments, caller, arg, lists, subtractVars, domain>>

ReturnEmpty ==
  /\ pc = "sort" /\ Intervals = {}
  /\ merged' = <<>>
  /\ pc' = "return"
  /\ UNCHANGED <<arguments, caller, arg, intervals, i, cur, lists, subtractVars, domain>>

\* start <= cur_end: the interval overlaps or touches the current one.
Joins(v) == v.lo <= cur.hi

Extend ==
  /\ pc = "loop" /\ i <= Len(intervals)
  /\ Joins(intervals[i])
  /\ cur' = [cur EXCEPT !.hi = IF @ < intervals[i].hi THEN intervals[i].hi ELSE @]
  /\ i' = i + 1
  /\ UNCHANGED <<pc, arguments, caller, arg, intervals, merged, lists, subtractVars, domain>>

Emit ==
  /\ pc = "loop" /\ i <= Len(intervals)
  /\ ~Joins(intervals[i])
  /\ merged' = Append(merged, Piece(cur.lo, cur.hi))
  /\ cur' = intervals[i]
  /\ i' = i + 1
  /\ UNCHANGED <<pc, arguments, caller, arg, intervals, lists, subtractVars, domain>>

Finish ==
  /\ pc = "loop" /\ i > Len(intervals)
  /\ merged' = Append(merged, Piece(cur.lo, cur.hi))
  /\ pc' = "return"
  /\ UNCHANGED <<arguments, caller, arg, intervals, i, cur, lists, subtractVars, domain>>

-----------------------------------------------------------------------------
(* subtract_rescued *)

\* merged_needed = merge_ranges(...), and the outer loop begins.
ReturnNeeded ==
  /\ pc = "return" /\ caller = "needed"
  /\ needed' = merged
  /\ r' = 1 /\ result' = <<>>
  /\ pc' = "ranges"
  /\ UNCHANGED <<arguments, caller, arg, mergeVars, remaining, e, cursor, domain>>

end == EndOf(needed[r])

StartRange ==
  /\ pc = "ranges" /\ r <= Len(needed)
  /\ cursor' = needed[r].pos
  /\ e' = 1
  /\ pc' = "entries"
  /\ UNCHANGED <<arguments, caller, arg, mergeVars, lists, r, result, domain>>

\* The break: no entry is left, or the next one starts behind the range.
PastTheEnd == e <= Len(entries) => entries[e].pos >= end

BehindCursor == EndOf(entries[e]) <= cursor

\* An entry before the cursor, or one that is not '+', changes nothing.
SkipEntry ==
  /\ pc = "entries" /\ ~PastTheEnd
  /\ BehindCursor \/ entries[e].status # STATUS_FINISHED
  /\ e' = e + 1
  /\ UNCHANGED <<pc, arguments, caller, arg, mergeVars, lists, r, cursor, result, domain>>

\* Seeded fault: the unread part before a rescued entry is dropped.
CutRescuedDropsGap ==
  /\ pc = "entries" /\ ~PastTheEnd
  /\ ~BehindCursor /\ entries[e].status = STATUS_FINISHED
  /\ cursor' = EndOf(entries[e])
  /\ e' = e + 1
  /\ UNCHANGED <<pc, arguments, caller, arg, mergeVars, lists, r, result, domain>>

\* A rescued entry: what lies before it is still needed, the cursor passes it.
CutRescued ==
  /\ pc = "entries" /\ ~PastTheEnd
  /\ ~BehindCursor /\ entries[e].status = STATUS_FINISHED
  /\ result' = IF entries[e].pos > cursor
                 THEN Append(result, Piece(cursor, entries[e].pos))
                 ELSE result
  /\ cursor' = EndOf(entries[e])
  /\ e' = e + 1
  /\ UNCHANGED <<pc, arguments, caller, arg, mergeVars, lists, r, domain>>

EndRange ==
  /\ pc = "entries" /\ PastTheEnd
  /\ result' = IF cursor < end THEN Append(result, Piece(cursor, end)) ELSE result
  /\ r' = r + 1
  /\ pc' = "ranges"
  /\ UNCHANGED <<arguments, caller, arg, mergeVars, lists, e, cursor, domain>>

\* return merge_ranges(result)
EndSubtract ==
  /\ pc = "ranges" /\ r > Len(needed)
  /\ caller' = "remaining" /\ arg' = result
  /\ pc' = "sort"
  /\ UNCHANGED <<arguments, mergeVars, lists, subtractVars, domain>>

-----------------------------------------------------------------------------
(* generate_domain_log *)

\* remaining = ..., and generate_domain_log merges it once more.
ReturnRemaining ==
  /\ pc = "return" /\ caller = "remaining"
  /\ remaining' = merged
  /\ caller' = "log" /\ arg' = merged
  /\ pc' = "sort"
  /\ UNCHANGED <<arguments, mergeVars, needed, subtractVars, domain>>

ReturnLog ==
  /\ pc = "return" /\ caller = "log"
  /\ r' = 1 /\ cursor' = 0
  /\ pc' = "write"
  /\ UNCHANGED <<arguments, caller, arg, mergeVars, lists, e, result, domain>>

Entry(from, to, status) == [pos |-> from, size |-> to - from, status |-> status]

\* Seeded fault: a filler reaches back to where the last filler ended.
FilledFromZero(es, to) ==
  IF to > cursor THEN Append(es, Entry(0, to, STATUS_NON_TRIED)) ELSE es

\* "ddrescue requires contiguous blocks": a gap is filled with a '?' entry.
Filled(es, to) ==
  IF to > cursor THEN Append(es, Entry(cursor, to, STATUS_NON_TRIED)) ELSE es

WriteRange ==
  /\ pc = "write" /\ r <= Len(merged)
  /\ domain' = Append(Filled(domain, merged[r].pos),
                      Entry(merged[r].pos, EndOf(merged[r]), STATUS_FINISHED))
  /\ cursor' = EndOf(merged[r])
  /\ r' = r + 1
  /\ UNCHANGED <<pc, arguments, caller, arg, mergeVars, lists, e, result>>

Return ==
  /\ pc = "write" /\ r > Len(merged)
  /\ pc' = "done"
  /\ UNCHANGED <<arguments, caller, arg, mergeVars, lists, subtractVars, domain>>

\* The totals: sums of lengths.
\* Seeded fault: the total is that of the ranges asked for, not of the merged.
total_needed_unmerged == SumOf(Sizes(asked))

total_needed          == SumOf(Sizes(needed))
bytes_to_read         == SumOf(Sizes(remaining))
bytes_already_rescued == total_needed - bytes_to_read

Next ==
  \/ Sort \/ ReturnEmpty \/ Extend \/ Emit \/ Finish
  \/ ReturnNeeded \/ StartRange \/ SkipEntry \/ CutRescued \/ EndRange \/ EndSubtract
  \/ ReturnRemaining \/ ReturnLog \/ WriteRange \/ Return

Spec == Init /\ [][Next]_vars

-----------------------------------------------------------------------------
Interval == [lo : Nat, hi : Nat]

\* The types of the locals of generator.py.
TypeOK ==
  /\ pc \in {"sort", "loop", "return", "ranges", "entries", "write", "done"}
  /\ caller \in {"needed", "remaining", "log"}
  /\ asked \in RangeLists /\ entries \in MapfileSet
  /\ arg \in Seq(ByteRange)
  /\ intervals \in Seq(Interval) /\ i \in Nat \ {0} /\ cur \in Interval
  /\ merged \in Seq(ByteRange)
  /\ needed \in Seq(ByteRange) /\ remaining \in Seq(ByteRange)
  /\ r \in Nat \ {0} /\ e \in Nat \ {0} /\ cursor \in Nat
  /\ result \in Seq(ByteRange)
  /\ domain \in Seq(MapEntry)

\* What the domain has to hold.
StillNeeded == BytesOfList(asked) \ Rescued(entries)

\* merge_ranges neither loses nor invents a byte.
MergeKeepsBytes == pc = "return" => BytesOfList(merged) = BytesOfList(arg)

\* Its result is increasing and two of its ranges never touch, so that it can
\* be written in one sweep and its lengths can be summed.
MergeSeparates == pc = "return" => IsSeparated(merged)

\* The domain is exactly what was asked for and is not rescued: a rescued byte
\* in it wears the drive, a missing one is never read.
DomainExact == pc = "done" => Rescued(domain) = StillNeeded

\* generator.py:91 - "ddrescue requires contiguous blocks": the entries follow
\* one another from position 0 without a gap, none of them empty.
Tiles(es, upTo) ==
  /\ \A k \in DOMAIN es :
       es[k].size > 0 /\ es[k].pos = (IF k = 1 THEN 0 ELSE EndOf(es[k - 1]))
  /\ upTo = IF es = <<>> THEN 0 ELSE EndOf(es[Len(es)])

DomainContiguous == pc = "done" => Tiles(domain, cursor)

\* The plan shown to the user counts every byte once, whatever files share.
PlanCounts ==
  pc = "done" =>
    /\ bytes_to_read = Cardinality(StillNeeded)
    /\ bytes_already_rescued = Cardinality(BytesOfList(asked) \cap Rescued(entries))

-----------------------------------------------------------------------------
(* The inductive invariant. *)
SpanOf(c) == c.lo .. (c.hi - 1)
SpansBefore(s, n) == UNION {SpanOf(s[k]) : k \in 1..(n - 1)}

\* What each call of merge_ranges is given.
CallInv ==
  IF caller = "needed" THEN arg = asked ELSE BytesOfList(arg) = StillNeeded

SortedInv ==
  /\ \A a, b \in DOMAIN intervals : a < b => intervals[a].lo <= intervals[b].lo
  /\ \A k \in DOMAIN intervals : intervals[k] \in Intervals
  /\ \A v \in Intervals : \E k \in DOMAIN intervals : intervals[k] = v

\* At the head of the loop, the result and the current range hold the bytes of
\* the intervals before i, and what is still to come starts no earlier.
LoopInv ==
  /\ i \in 2..(Len(intervals) + 1)
  /\ cur.lo < cur.hi
  /\ \E k \in 1..(i - 1) : cur.lo = intervals[k].lo
  /\ \A k \in DOMAIN merged : EndOf(merged[k]) < cur.lo
  /\ IsSeparated(merged)
  /\ BytesOfList(merged) \cup SpanOf(cur) = SpansBefore(intervals, i)

RequestedBefore(n) == UNION {BytesOf(needed[k]) : k \in 1..(n - 1)}

OuterInv ==
  /\ r \in 1..(Len(needed) + 1)
  /\ BytesOfList(result) = RequestedBefore(r) \ Rescued(entries)

\* In the inner loop the bytes of the range below the cursor are decided, and
\* no rescued entry already passed reaches beyond it.
InnerInv ==
  /\ r \in 1..Len(needed)
  /\ e \in 1..(Len(entries) + 1)
  /\ cursor >= needed[r].pos
  /\ \A k \in 1..(e - 1) :
       entries[k].status = STATUS_FINISHED => EndOf(entries[k]) <= cursor
  /\ BytesOfList(result) =
       (RequestedBefore(r) \cup {b \in BytesOf(needed[r]) : b < cursor})
         \ Rescued(entries)

\* The entries written tile up to the cursor, where the last range ended.
WrittenBefore(n) == UNION {BytesOf(merged[k]) : k \in 1..(n - 1)}

WriteInv ==
  /\ r \in 1..(Len(merged) + 1)
  /\ cursor = IF r = 1 THEN 0 ELSE EndOf(merged[r - 1])
  /\ Tiles(domain, cursor)
  /\ Rescued(domain) = WrittenBefore(r)

IInv ==
  /\ TypeOK
  /\ pc \in {"sort", "loop", "return"} => CallInv
  /\ pc = "loop" => SortedInv /\ LoopInv
  /\ MergeKeepsBytes /\ MergeSeparates
  /\ pc \in {"ranges", "entries"} =>
       caller = "needed" /\ BytesOfList(needed) = BytesOfList(asked)
  /\ pc = "ranges" => OuterInv
  /\ pc = "entries" => InnerInv
  /\ pc \notin {"write", "done"} => domain = <<>>
  /\ pc = "write" =>
       IsSeparated(merged) /\ BytesOfList(merged) = StillNeeded /\ WriteInv
  /\ DomainExact /\ DomainContiguous

\* The lists the totals are taken from are the merged ones, from the call on that
\* returns them.
PlanInv ==
  /\ caller # "needed" \/ pc \in {"ranges", "entries"} =>
       IsSeparated(needed) /\ BytesOfList(needed) = BytesOfList(asked)
  /\ caller = "log" => IsSeparated(remaining) /\ BytesOfList(remaining) = StillNeeded
  /\ pc \in {"write", "done"} => caller = "log"
=============================================================================
