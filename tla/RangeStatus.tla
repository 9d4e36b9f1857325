----------------------------- MODULE RangeStatus -----------------------------
(***************************************************************************)
(* get_range_status of mapfile/query.py and the two verdicts built on it,  *)
(* is_range_rescued and coverage_percentage: whether a file can be         *)
(* extracted whole, how healthy it is and what a pass recovered are all    *)
(* answers of this loop.                                                   *)
(***************************************************************************)
EXTENDS Mapfile

CONSTANTS Ranges,        \* the (start, length) asked about
          MapfileSet     \* the mapfiles asked

ASSUME ArgumentsAssumption ==
  Ranges \subseteq ByteRange /\ MapfileSet \subseteq Mapfiles

VARIABLES pc,            \* "entries", "done"
          range, entries,
          e,             \* the next mapfile entry
          cursor,        \* where the part without a status starts
          result

vars == <<pc, range, entries, e, cursor, result>>

Init ==
  /\ pc = "entries"
  /\ range \in Ranges /\ entries \in MapfileSet
  /\ e = 1 /\ cursor = range.pos
  /\ result = <<>>

end == EndOf(range)

Piece(from, to, status) == [pos |-> from, size |-> to - from, status |-> status]

\* A piece is listed only when it is not empty.
AddPiece(list, from, to, status) ==
  IF from < to THEN Append(list, Piece(from, to, status)) ELSE list

Least(a, b)    == IF a <= b THEN a ELSE b
Greatest(a, b) == IF a >= b THEN a ELSE b

\* Seeded fault: a gap between entries counts as what the next entry says.
AddGapAsEntry(list) ==
  AddPiece(list, cursor, entries[e].pos, entries[e].status)

\* The bytes before the entry that no entry covers have not been tried.
AddGap(list) == AddPiece(list, cursor, entries[e].pos, STATUS_NON_TRIED)

AddOverlap(list) ==
  AddPiece(list, Greatest(cursor, entries[e].pos), Least(EndOf(entries[e]), end),
           entries[e].status)

\* Both breaks: no entry is left in the range, or the range is used up.
PastTheEnd ==
  \/ e > Len(entries)
  \/ /\ e <= Len(entries)
     /\ entries[e].pos >= end \/ (EndOf(entries[e]) > cursor /\ cursor >= end)

SkipEntry ==
  /\ pc = "entries" /\ range.size > 0 /\ ~PastTheEnd
  /\ EndOf(entries[e]) <= cursor
  /\ e' = e + 1
  /\ UNCHANGED <<pc, range, entries, cursor, result>>

\* Seeded fault: the part of an entry behind the range is listed too.
TakeEntryUncut ==
  /\ pc = "entries" /\ range.size > 0 /\ ~PastTheEnd
  /\ EndOf(entries[e]) > cursor
  /\ result' = AddPiece(AddGap(result), Greatest(cursor, entries[e].pos),
                        EndOf(entries[e]), entries[e].status)
  /\ cursor' = EndOf(entries[e])
  /\ e' = e + 1
  /\ UNCHANGED <<pc, range, entries>>

TakeEntry ==
  /\ pc = "entries" /\ range.size > 0 /\ ~PastTheEnd
  /\ EndOf(entries[e]) > cursor
  /\ result' = AddOverlap(AddGap(result))
  /\ cursor' = Least(EndOf(entries[e]), end)
  /\ e' = e + 1
  /\ UNCHANGED <<pc, range, entries>>

TrailingGap ==
  /\ pc = "entries" /\ range.size > 0 /\ PastTheEnd
  /\ result' = AddPiece(result, cursor, end, STATUS_NON_TRIED)
  /\ pc' = "done"
  /\ UNCHANGED <<range, entries, e, cursor>>

\* length <= 0: no piece, and the verdicts below answer without the loop.
EmptyRange ==
  /\ pc = "entries" /\ range.size = 0
  /\ pc' = "done"
  /\ UNCHANGED <<range, entries, e, cursor, result>>

Next == SkipEntry \/ TakeEntry \/ TrailingGap \/ EmptyRange

Spec == Init /\ [][Next]_vars

-----------------------------------------------------------------------------
\* is_range_rescued, from the finished list.
IsRangeRescued == \A k \in DOMAIN result : result[k].status = STATUS_FINISHED

\* The bytes coverage_percentage counts.
BytesWhere(list, ks) == UNION {BytesOf(list[k]) : k \in ks}
RescuedPart(list) ==
  BytesWhere(list, {k \in DOMAIN list : list[k].status = STATUS_FINISHED})

OtherPart(list) ==
  BytesWhere(list, {k \in DOMAIN list : list[k].status # STATUS_FINISHED})

RangeStatusType == [pos : Nat, size : Nat, status : Statuses]

\* The types of the locals of get_range_status.
TypeOK ==
  /\ pc \in {"entries", "done"}
  /\ range \in Ranges /\ entries \in MapfileSet
  /\ e \in Nat \ {0} /\ cursor \in Nat
  /\ result \in Seq(RangeStatusType)

\* The pieces tile the range: increasing, none empty, no byte missing, so the
\* sum coverage_percentage makes counts every byte once.
StatusTiles ==
  pc = "done" =>
    /\ IsOrdered(result) /\ \A k \in DOMAIN result : result[k].size > 0
    /\ BytesOfList(result) = BytesOf(range)

\* The bytes counted as rescued are those of the range the mapfile has as '+'.
CoverageExact == pc = "done" => RescuedPart(result) = BytesOf(range) \cap Rescued(entries)

\* A range is called rescued exactly when the mapfile has every byte of it.
VerdictExact ==
  pc = "done" => (IsRangeRescued <=> BytesOf(range) \subseteq Rescued(entries))

\* The inductive invariant: the pieces so far tile the range up to the cursor,
\* which every entry already passed has reached or ends before.
UpToCursor == {b \in BytesOf(range) : b < cursor}

LoopInv ==
  /\ e \in 1..(Len(entries) + 1)
  /\ cursor \in range.pos..end
  /\ \A k \in 1..(e - 1) : EndOf(entries[k]) <= cursor \/ cursor = end
  /\ range.size = 0 => result = <<>>

PiecesInv(list, upTo, bytes) ==
  /\ IsOrdered(list)
  /\ \A k \in DOMAIN list : list[k].size > 0 /\ EndOf(list[k]) <= upTo
  /\ BytesOfList(list) = bytes
  /\ RescuedPart(list) = bytes \cap Rescued(entries)
  /\ OtherPart(list) \cap Rescued(entries) = {}

IInv ==
  /\ TypeOK
  /\ pc = "entries" => LoopInv /\ PiecesInv(result, cursor, UpToCursor)
  /\ pc = "done" => PiecesInv(result, end, BytesOf(range))
=============================================================================
