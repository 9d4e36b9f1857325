------------------------------- MODULE MftScan -------------------------------
(***************************************************************************)
(* iter_mft_records of ntfs/mft_parser.py: one pass over the slots of the  *)
(* MFT in the image, from its first record, as if the MFT were one piece.  *)
(* What was not read from the disk is zero in the image, and so is a slot  *)
(* that was never used, so the scan ends after too many empty slots.       *)
(***************************************************************************)
EXTENDS Integers, Sequences

CONSTANTS EmptyThreshold,  \* empty slots in a row that are tolerated (32)
          FirstStop,       \* the last index at which the scan may not stop (16)
          Images           \* the arguments: sequences of slots

\* What the image has of a record: whether the disk has one in this slot, and
\* whether its first sector and the others were read.
Slot == [used : BOOLEAN, head : BOOLEAN, tail : BOOLEAN]

ASSUME MftScanAssumption ==
  /\ EmptyThreshold \in Nat /\ FirstStop \in Nat
  /\ Images \subseteq Seq(Slot)

VARIABLES pc,                 \* "scan", "done"
          image,              \* the slots that are within the image
          index,              \* the record to look at, from 0
          consecutive_empty,
          records             \* the indices appended to records so far

vars == <<pc, image, index, consecutive_empty, records>>

SlotAt(n) == image[n + 1]
Size == Len(image)

\* parse_mft_record returns None: the signature is zero.
IsEmpty(n) == ~(SlotAt(n).used /\ SlotAt(n).head)

Init ==
  /\ pc = "scan"
  /\ image \in Images
  /\ index = 0
  /\ consecutive_empty = 0
  /\ records = {}

EndOfImage ==
  /\ pc = "scan" /\ index >= Size
  /\ pc' = "done"
  /\ UNCHANGED <<image, index, consecutive_empty, records>>

\* Seeded fault: the count of empty slots is not reset by a record.
TakeRecordCountsOn ==
  /\ pc = "scan" /\ index < Size
  /\ ~IsEmpty(index)
  /\ records' = records \cup {index}
  /\ index' = index + 1
  /\ UNCHANGED <<pc, image, consecutive_empty>>

\* A torn record, whose fixup fails, is appended without its attributes.
TakeRecord ==
  /\ pc = "scan" /\ index < Size
  /\ ~IsEmpty(index)
  /\ records' = records \cup {index}
  /\ consecutive_empty' = 0
  /\ index' = index + 1
  /\ UNCHANGED <<pc, image>>

TooMany == consecutive_empty + 1 > EmptyThreshold /\ index > FirstStop

SkipEmpty ==
  /\ pc = "scan" /\ index < Size
  /\ IsEmpty(index) /\ ~TooMany
  /\ consecutive_empty' = consecutive_empty + 1
  /\ index' = index + 1
  /\ UNCHANGED <<pc, image, records>>

StopAtGap ==
  /\ pc = "scan" /\ index < Size
  /\ IsEmpty(index) /\ TooMany
  /\ consecutive_empty' = consecutive_empty + 1
  /\ pc' = "done"
  /\ UNCHANGED <<image, index, records>>

Next == EndOfImage \/ TakeRecord \/ SkipEmpty \/ StopAtGap

Spec == Init /\ [][Next]_vars

-----------------------------------------------------------------------------
\* The types of the locals of iter_mft_records.
TypeOK ==
  /\ pc \in {"scan", "done"}
  /\ image \in Images
  /\ index \in 0..Size
  /\ consecutive_empty \in Nat
  /\ records \subseteq 0..(Size - 1)

\* Slot n ends a gap: it and the EmptyThreshold slots before it are empty, and
\* it is past the system files.
EndsGap(n) ==
  /\ n > FirstStop /\ n >= EmptyThreshold
  /\ \A m \in (n - EmptyThreshold)..n : IsEmpty(m)

\* The scan returns every record before the first gap, with or without its
\* attributes, and no other: damaged records are skipped and the count of
\* empty slots starts again after each record.
FindsUpToTheGap ==
  pc = "done" =>
    records = {n \in 0..(Size - 1) : ~IsEmpty(n) /\ \A m \in 0..n : ~EndsGap(m)}

\* The inductive invariant: the slots just before index are empty and the one
\* before them is not, no slot before index ends a gap, and the records before
\* index have been taken.
RunInv ==
  /\ consecutive_empty <= index
  /\ \A m \in (index - consecutive_empty)..(index - 1) : IsEmpty(m)
  /\ consecutive_empty < index => ~IsEmpty(index - consecutive_empty - 1)

TakenInv ==
  /\ records = {n \in 0..(index - 1) : ~IsEmpty(n)}
  /\ \A m \in 0..(index - 1) : ~EndsGap(m)

IInv ==
  /\ TypeOK
  /\ pc = "scan" => RunInv /\ TakenInv
  /\ FindsUpToTheGap
=============================================================================
