------------------------------ MODULE NtfsTree ------------------------------
(***************************************************************************)
(* _parse_ntfs: the scan of the MFT (MftScan) and build_tree of            *)
(* ntfs/tree.py, which makes the records the scan returns a tree of files  *)
(* with their data runs.  The volume was in use before it failed: records  *)
(* were taken, given back and taken again, and the attributes of large     *)
(* files spread over extension records.  Then some records cannot be read. *)
(***************************************************************************)
EXTENDS MftScan, FiniteSets

CONSTANTS SlotCount,   \* the records of the MFT but the first, which is its own
          Root,        \* ROOT_MFT_INDEX
          SystemMax,   \* SYSTEM_ENTRY_MAX
          Layouts,     \* how the volume may spread $DATA: a subset of {"move", "split"}
          ShowDeleted, \* the values of include_deleted
          MaxOps,      \* bounds the life of the volume
          MaxDamage    \* bounds the records that cannot be read

ASSUME NtfsTreeAssumption ==
  /\ SlotCount \in Nat /\ SystemMax \in Nat /\ Root \in 1..SystemMax /\ SystemMax < SlotCount
  /\ Layouts \subseteq {"move", "split"} /\ ShowDeleted \subseteq BOOLEAN
  /\ MaxOps \in Nat /\ MaxDamage \in Nat
  /\ [1..(SlotCount + 1) -> Slot] \subseteq Images

Slots == 1..SlotCount
None == 0              \* no record: the base of a base record

\* With pc of MftScan: "volume", then "scan", "done", and at last "built".
VARIABLES mft,         \* the MFT on the disk
          ops,         \* what happened to the volume, counted
          show,        \* include_deleted
          tree         \* file_records: the slots that became a FileRecord

volume == <<mft, ops, show>>
scan   == <<image, index, consecutive_empty, records>>
tree_vars == <<pc, scan, volume, tree>>

\* A directory, and the n-th directory or file to use its slot.
Reference(i) == [slot |-> i, life |-> mft[i].life]

\* An extent of $DATA: its owner and its place in the file.  Each is one cluster.
Extent(i, life, vcn) == [slot |-> i, life |-> life, vcn |-> vcn]

Unused == [in_use |-> FALSE, life |-> 0, dir |-> FALSE, base |-> None,
           parent |-> [slot |-> Root, life |-> 1], extents |-> <<>>, size |-> 0]

\* The base record of a directory, or of a file with one extent.
BaseRecord(i, life, dir, parent) ==
  [in_use |-> TRUE, life |-> life, dir |-> dir, base |-> None, parent |-> parent,
   extents |-> IF dir THEN <<>> ELSE <<Extent(i, life, 0)>>, size |-> IF dir THEN 0 ELSE 1]

TreeInit ==
  /\ pc = "volume"
  /\ mft = [i \in Slots |-> IF i = Root THEN BaseRecord(Root, 1, TRUE, Unused.parent) ELSE Unused]
  /\ ops = 0
  /\ image = <<>> /\ index = 0 /\ consecutive_empty = 0 /\ records = {}
  /\ show \in ShowDeleted
  /\ tree = {}

-----------------------------------------------------------------------------
(* The volume before it failed.                                            *)

IsBase(i) == mft[i].base = None
LiveDirs == {i \in Slots : mft[i].in_use /\ mft[i].dir}
UserFree == {i \in Slots : i > SystemMax /\ ~mft[i].in_use}
ExtensionsOf(i) == {e \in Slots : mft[e].in_use /\ mft[e].base = i}

Lives == pc = "volume" /\ ops < MaxOps /\ ops' = ops + 1 /\ UNCHANGED <<pc, scan, show, tree>>

Make ==
  /\ Lives
  /\ \E i \in UserFree, p \in LiveDirs, dir \in BOOLEAN :
       mft' = [mft EXCEPT ![i] = BaseRecord(i, mft[i].life + 1, dir, Reference(p))]

Extension(e, i, vcn) ==
  [in_use |-> TRUE, life |-> mft[e].life + 1, dir |-> FALSE, base |-> i,
   parent |-> [slot |-> Root, life |-> 1], size |-> 0,
   extents |-> <<Extent(i, mft[i].life, vcn)>>]

\* The base record has no room for $DATA: it moves to an extension record, or
\* grows and is split over two.
Spread ==
  /\ Lives
  /\ \E i \in Slots, a, b \in UserFree :
       /\ mft[i].in_use /\ IsBase(i) /\ ~mft[i].dir /\ ExtensionsOf(i) = {}
       /\ \/ "move" \in Layouts /\ a = b
             /\ mft' = [mft EXCEPT ![i].extents = <<>>, ![a] = Extension(a, i, 0)]
          \/ "split" \in Layouts /\ a # b
             /\ mft' = [mft EXCEPT ![i].extents = <<>>, ![i].size = 2,
                          ![a] = Extension(a, i, 0), ![b] = Extension(b, i, 1)]

\* A file or an empty directory is deleted: its records are given back, with
\* what they hold.
Delete ==
  /\ Lives
  /\ \E i \in Slots \ {Root} :
       /\ mft[i].in_use /\ IsBase(i)
       /\ ~\E c \in Slots \ {Root} : mft[c].in_use /\ IsBase(c) /\ mft[c].parent = Reference(i)
       /\ mft' = [j \in Slots |-> IF j = i \/ j \in ExtensionsOf(i)
                                    THEN [mft[j] EXCEPT !.in_use = FALSE] ELSE mft[j]]

-----------------------------------------------------------------------------
(* The image and the tree.                                                 *)

Ever(i) == mft[i].life > 0

\* The MFT is recovered, with gaps: of some records the first sector could not
\* be read, of others a later one.
Read ==
  /\ pc = "volume"
  /\ \E lost, torn \in SUBSET {i \in Slots : Ever(i)} :
       /\ lost \cap torn = {} /\ Cardinality(lost \cup torn) <= MaxDamage
       /\ image' = [n \in 1..(SlotCount + 1) |->
            [used |-> n = 1 \/ Ever(n - 1), head |-> n - 1 \notin lost, tail |-> n - 1 \notin torn]]
  /\ pc' = "scan"
  /\ UNCHANGED <<index, consecutive_empty, records, volume, tree>>

\* iter_mft_records.
Scan == Next /\ UNCHANGED <<volume, tree>>

\* A record the scan returns, and one that it returns with its attributes.
Seen(i) == i \in records
Whole(i) == ~IsEmpty(i) /\ SlotAt(i).tail
Attributes(i) == IF Whole(i) THEN mft[i].extents ELSE <<>>

\* Seeded fault: an extension record is merged although it is not in use.
ExtensionRecordsOfAll(i) == {e \in Slots : Seen(e) /\ mft[e].base = i}

\* extension_attrs: of the records in use whose base is i.  The records
\* $ATTRIBUTE_LIST names are among them: it adds no attribute.
ExtensionRecords(i) == {e \in Slots : Seen(e) /\ mft[e].in_use /\ mft[e].base = i}

\* _extract_data_info takes the first unnamed $DATA, of the base record or else
\* of the first extension in the order of the MFT, and of it only its runs.
DataHolders(i) == {e \in {i} \cup ExtensionRecords(i) : Attributes(e) # <<>>}
DataRecord(i) ==
  IF i \in DataHolders(i) THEN i
  ELSE CHOOSE e \in DataHolders(i) : \A f \in DataHolders(i) : e <= f
DataRuns(i) ==
  IF DataHolders(i) = {} THEN <<>> ELSE <<Head(Attributes(DataRecord(i)))>>

\* Seeded fault: the size is that of the runs at hand.
FileSizeOfRuns(i) == Len(DataRuns(i))

\* The real size is kept with the first extent only.
FileSize(i) ==
  IF DataRuns(i) # <<>> /\ DataRuns(i)[1].vcn = 0 THEN mft[DataRuns(i)[1].slot].size ELSE 0

\* Seeded fault: a record without $FILE_NAME is kept.
NamedAlways(i) == TRUE

\* $FILE_NAME stays in the base record; the root does without.
Named(i) == Whole(i) \/ i = Root

\* Seeded fault: deleted entries are always built.
BuildsDeletedToo(i) ==
  Seen(i) /\ IsBase(i) /\ (i > SystemMax \/ i = Root) /\ Named(i)

\* The second pass of build_tree.
Builds(i) ==
  /\ Seen(i) /\ IsBase(i)
  /\ mft[i].in_use \/ show
  /\ i > SystemMax \/ i = Root
  /\ Named(i)

Build ==
  /\ pc = "done"
  /\ tree' = {i \in Slots : Builds(i)} \cup {Root}
  /\ pc' = "built"
  /\ UNCHANGED <<scan, volume>>

TreeNext == Make \/ Spread \/ Delete \/ Read \/ Scan \/ Build

TreeSpec == TreeInit /\ [][TreeNext]_tree_vars

-----------------------------------------------------------------------------
\* Seeded fault: a file is accepted as a parent.
HasParentAny(i) == mft[i].parent.slot \in tree

\* The third pass: a record whose parent is a directory of the tree is its
\* child, any other is an orphan.
HasParent(i) == mft[i].parent.slot \in tree /\ mft[mft[i].parent.slot].dir
Parent(i) == mft[i].parent.slot
Orphans == {i \in tree \ {Root} : ~HasParent(i)}

\* extract_file, when every cluster was read: what is written is trimmed to the
\* size, and the file is complete if it has that many bytes.
Complete(i) == FileSize(i) <= Len(DataRuns(i))

\* What the file really holds.
Content(i) == [k \in 1..mft[i].size |-> Extent(i, mft[i].life, k - 1)]

Built == pc = "built"
LiveFiles == {i \in tree \ {Root} : mft[i].in_use /\ ~mft[i].dir}

\* A record that was read, but behind a gap at which the scan ends, is lost.
Found(i) == Whole(i) /\ \A n \in 0..i : ~EndsGap(n)

\* A file in use whose record was read before the first gap is in the tree,
\* whatever else was lost and however often its slot was used, and nothing is
\* there that is not in use unless deleted entries are asked for.
LiveFound ==
  Built => /\ {i \in Slots : mft[i].in_use /\ IsBase(i) /\ i > SystemMax /\ Found(i)}
                \subseteq tree
           /\ ~show => \A i \in tree : mft[i].in_use

\* Going from parent to parent ends at the root or at an orphan: no record of
\* the tree is out of reach, neither in a cycle nor below a file.
NoneUnreachable ==
  Built => /\ \A C \in SUBSET (tree \ (Orphans \cup {Root})) :
                C # {} => \E i \in C : Parent(i) \notin C
           /\ \A i \in tree \ (Orphans \cup {Root}) : mft[Parent(i)].dir

\* A file in use is listed below the directory it is in, and is an orphan
\* exactly when the record of that directory was lost.
LivePlaced ==
  Built => \A i \in tree \ {Root} : mft[i].in_use =>
    /\ HasParent(i) => Reference(Parent(i)) = mft[i].parent
    /\ i \in Orphans <=> Parent(i) # Root /\ ~Found(Parent(i))

\* The runs of a record are its own: no extent of another file, or of an
\* earlier one with the same number, is taken for its data.
OwnData ==
  Built => \A i \in tree : \A k \in DOMAIN DataRuns(i) :
    DataRuns(i)[k].slot = i /\ DataRuns(i)[k].life = mft[i].life

\* A file that is not empty is called complete only with all of its extents,
\* wherever they were and whatever was lost.  A lost extension record makes it
\* an empty file, which this cannot exclude: the size was lost with it.
CompleteIsWhole ==
  Built => \A i \in LiveFiles :
    Complete(i) /\ FileSize(i) > 0 => DataRuns(i) = Content(i)
-----------------------------------------------------------------------------
(* What the proofs add.                                                    *)

Record == [in_use : BOOLEAN, life : Nat, dir : BOOLEAN, base : {None} \cup Slots,
           parent : [slot : Slots, life : Nat], size : Nat,
           extents : Seq([slot : Slots, life : Nat, vcn : Nat])]

\* The types of the state.
TreeTypeOK ==
  /\ pc \in {"volume", "scan", "done", "built"}
  /\ mft \in [Slots -> Record]
  /\ ops \in Nat /\ show \in BOOLEAN /\ tree \in SUBSET Slots

RootInv == mft[Root].in_use /\ mft[Root].dir /\ mft[Root].life = 1 /\ mft[Root].extents = <<>>

\* Only user records are taken, a record in use has a life, and a directory is
\* a base record.
UseInv == \A i \in Slots : /\ i # Root /\ Ever(i) => i > SystemMax
                           /\ mft[i].in_use => Ever(i)
                           /\ mft[i].dir => IsBase(i)

\* What is in use is in a directory in use, the one it was made in.
PlaceInv == \A i \in Slots \ {Root} : mft[i].in_use =>
  mft[Parent(i)].in_use /\ mft[Parent(i)].dir /\ mft[Parent(i)].life = mft[i].parent.life

\* A base record holds no extent but its own; an extension record in use
\* belongs to a base record in use.
ExtentInv == \A i \in Slots :
  /\ IsBase(i) => mft[i].extents \in {<<>>, <<Extent(i, mft[i].life, 0)>>}
  /\ ~IsBase(i) /\ mft[i].in_use =>
       LET b == mft[i].base
       IN  /\ b # Root /\ mft[b].in_use /\ IsBase(b) /\ mft[i].parent.slot = Root
           /\ \E v \in {0, 1} : mft[i].extents = <<Extent(b, mft[b].life, v)>>

\* The slots can be ranked with every parent below its children, whatever was
\* deleted and made in its place.
Ranks(r) == \A i \in Slots \ {Root} : r[Parent(i)] < r[i]
RankInv == \E r \in [Slots -> Nat] : Ranks(r)

\* The scan sees an image of this volume, and the tree is built from all of it.
ScanInv ==
  /\ pc = "volume" => index = 0 /\ consecutive_empty = 0 /\ records = {}
  /\ pc \in {"scan", "done"} => IInv
  /\ pc # "volume" => /\ image \in [1..(SlotCount + 1) -> Slot]
                       /\ \A i \in Slots : SlotAt(i).used = Ever(i)
  /\ Built => /\ records = {n \in 0..(Size - 1) : ~IsEmpty(n) /\ \A m \in 0..n : ~EndsGap(m)}
              /\ tree = {i \in Slots : Builds(i)} \cup {Root}

VolumeInv == TreeTypeOK /\ RootInv /\ UseInv /\ PlaceInv /\ ExtentInv

\* The inductive invariant.
TreeInv == VolumeInv /\ RankInv /\ ScanInv
=============================================================================
