--------------------------- MODULE NtfsTreeProofs ---------------------------
(***************************************************************************)
(* The scan of the MFT returns exactly the records before the first gap,   *)
(* for every image and every threshold; and of a volume of any size, in    *)
(* use for any time and read with any damage, the tree that is built from  *)
(* these records has every file in its place and with its own data.        *)
(***************************************************************************)
EXTENDS NtfsTree, WellFoundedInduction, TLAPS

\* The loop of iter_mft_records starts with its invariant.
LEMMA ScanStarts == Init => IInv
<1> SUFFICES ASSUME Init PROVE IInv
  OBVIOUS
<1>1. image \in Seq(Slot) /\ Size \in Nat
  BY MftScanAssumption DEF Init, Size
<1>2. TypeOK
  BY <1>1 DEF Init, TypeOK
<1>3. RunInv /\ TakenInv
  BY <1>1 DEF Init, RunInv, TakenInv
<1> QED BY <1>2, <1>3 DEF Init, IInv, FindsUpToTheGap

\* Each slot keeps the invariant.
LEMMA ScanGoesOn == IInv /\ [Next]_vars => IInv'
<1> SUFFICES ASSUME IInv, [Next]_vars PROVE IInv'
  OBVIOUS
<1>0. /\ TypeOK /\ Size \in Nat /\ EmptyThreshold \in Nat /\ FirstStop \in Nat
      /\ image \in Seq(Slot)
  BY MftScanAssumption DEF IInv, TypeOK, Size
<1>1. CASE EndOfImage
  <2>1. /\ pc' = "done" /\ records' = records /\ image' = image /\ index' = index
        /\ consecutive_empty' = consecutive_empty /\ index = Size /\ TakenInv
    BY <1>0, <1>1 DEF EndOfImage, IInv, TypeOK
  <2>2. TypeOK'
    BY <1>0, <2>1 DEF TypeOK, Size
  <2>3. records = {n \in 0..(Size - 1) : ~IsEmpty(n) /\ \A m \in 0..n : ~EndsGap(m)}
    BY <1>0, <2>1 DEF TakenInv
  <2>4. FindsUpToTheGap'
    BY <2>1, <2>3 DEF FindsUpToTheGap, Size, IsEmpty, SlotAt, EndsGap
  <2> QED BY <2>1, <2>2, <2>4 DEF IInv
<1>2. CASE TakeRecord
  <2>1. /\ pc = "scan" /\ pc' = "scan" /\ image' = image /\ index' = index + 1
        /\ consecutive_empty' = 0 /\ records' = records \cup {index}
        /\ index \in 0..(Size - 1) /\ ~IsEmpty(index) /\ TakenInv
    BY <1>0, <1>2 DEF TakeRecord, IInv, TypeOK
  <2>2. TypeOK'
    BY <1>0, <2>1 DEF TypeOK, Size
  <2>3. RunInv'
    BY <1>0, <2>1 DEF RunInv, IsEmpty, SlotAt
  <2>4. ~EndsGap(index)
    BY <1>0, <2>1 DEF EndsGap
  <2>5. TakenInv'
    <3>1. records' = {n \in 0..(index' - 1) : ~IsEmpty(n)}
      BY <1>0, <2>1 DEF TakenInv
    <3>2. \A m \in 0..(index' - 1) : ~EndsGap(m)
      BY <1>0, <2>1, <2>4 DEF TakenInv
    <3> QED BY <3>1, <3>2, <2>1 DEF TakenInv, IsEmpty, SlotAt, EndsGap
  <2> QED BY <2>1, <2>2, <2>3, <2>5 DEF IInv, FindsUpToTheGap
<1>3. CASE SkipEmpty
  <2>1. /\ pc = "scan" /\ pc' = "scan" /\ image' = image /\ index' = index + 1
        /\ consecutive_empty' = consecutive_empty + 1 /\ records' = records
        /\ index \in 0..(Size - 1) /\ IsEmpty(index) /\ ~TooMany
        /\ RunInv /\ TakenInv /\ consecutive_empty \in Nat
    BY <1>0, <1>3 DEF SkipEmpty, IInv, TypeOK
  <2>2. TypeOK'
    BY <1>0, <2>1 DEF TypeOK, Size
  <2>3. RunInv'
    BY <1>0, <2>1 DEF RunInv, IsEmpty, SlotAt
  <2>4. ~EndsGap(index)
    BY <1>0, <2>1 DEF EndsGap, TooMany, RunInv
  <2>5. TakenInv'
    <3>1. records' = {n \in 0..(index' - 1) : ~IsEmpty(n)}
      BY <1>0, <2>1 DEF TakenInv
    <3>2. \A m \in 0..(index' - 1) : ~EndsGap(m)
      BY <1>0, <2>1, <2>4 DEF TakenInv
    <3> QED BY <3>1, <3>2, <2>1 DEF TakenInv, IsEmpty, SlotAt, EndsGap
  <2> QED BY <2>1, <2>2, <2>3, <2>5 DEF IInv, FindsUpToTheGap
<1>4. CASE StopAtGap
  <2>1. /\ pc' = "done" /\ image' = image /\ index' = index
        /\ consecutive_empty' = consecutive_empty + 1 /\ records' = records
        /\ index \in 0..(Size - 1) /\ IsEmpty(index) /\ TooMany
        /\ RunInv /\ TakenInv /\ consecutive_empty \in Nat
    BY <1>0, <1>4 DEF StopAtGap, IInv, TypeOK
  <2>2. TypeOK'
    BY <1>0, <2>1 DEF TypeOK, Size
  <2>3. EndsGap(index)
    BY <1>0, <2>1 DEF EndsGap, TooMany, RunInv
  <2>4. records = {n \in 0..(Size - 1) : ~IsEmpty(n) /\ \A m \in 0..n : ~EndsGap(m)}
    BY <1>0, <2>1, <2>3 DEF TakenInv
  <2>5. FindsUpToTheGap'
    BY <2>1, <2>4 DEF FindsUpToTheGap, Size, IsEmpty, SlotAt, EndsGap
  <2> QED BY <2>1, <2>2, <2>5 DEF IInv
<1>5. CASE UNCHANGED vars
  BY <1>5 DEF vars, IInv, TypeOK, RunInv, TakenInv, FindsUpToTheGap, Size, IsEmpty,
              SlotAt, EndsGap
<1> QED BY <1>1, <1>2, <1>3, <1>4, <1>5 DEF Next

\* The invariant of the loop of iter_mft_records.
THEOREM MftScanInvariant == Spec => []IInv
BY ScanStarts, ScanGoesOn, PTL DEF Spec

\* Every record before the first run of more than EmptyThreshold empty slots
\* is returned, whatever the damage: FindsUpToTheGap for every image.
THEOREM MftScanFinds == Spec => []FindsUpToTheGap
<1>1. IInv => FindsUpToTheGap
  BY DEF IInv
<1> QED BY <1>1, MftScanInvariant, PTL

-----------------------------------------------------------------------------
\* A set of numbers that is not empty has a least one.
LEMMA LeastNumber ==
  ASSUME NEW T \in SUBSET Nat, T # {}
  PROVE  \E x \in T : \A y \in T : x <= y
<1>1. \E x \in T : \A y \in T : ~(<<y, x>> \in OpToRel(<, Nat))
  <2> HIDE DEF OpToRel
  <2> QED BY NatLessThanWellFounded, WFMin
<1>2. PICK x \in T : \A y \in T : ~(<<y, x>> \in OpToRel(<, Nat))
  BY <1>1
<1>3. OpToRel(<, Nat) = {ss \in Nat \X Nat : ss[1] < ss[2]}
  BY DEF OpToRel
<1>4. ASSUME NEW y \in T, ~(x <= y) PROVE FALSE
  <2>1. y \in Nat /\ x \in Nat /\ y < x
    BY <1>4
  <2>2. <<y, x>> \in {ss \in Nat \X Nat : ss[1] < ss[2]}
    BY <2>1
  <2> QED BY <1>2, <1>3, <2>2
<1> QED BY <1>2, <1>4

\* The constants.
LEMMA TreeConstants ==
  /\ SlotCount \in Nat /\ SystemMax \in Nat /\ Root \in Slots /\ Root \in 1..SystemMax
  /\ Slots \subseteq Nat /\ None \notin Slots
BY NtfsTreeAssumption DEF Slots, None

\* A volume that was never used.
LEMMA VolumeStarts == TreeInit => TreeInv
<1> SUFFICES ASSUME TreeInit PROVE TreeInv
  OBVIOUS
<1>0. pc = "volume"
  BY DEF TreeInit
<1> DEFINE root == BaseRecord(Root, 1, TRUE, Unused.parent)
<1>1. Unused \in Record /\ root \in Record
  <2>1. [slot |-> Root, life |-> 1] \in [slot : Slots, life : Nat]
    BY TreeConstants
  <2>2. <<>> \in Seq([slot : Slots, life : Nat, vcn : Nat])
    OBVIOUS
  <2> QED BY <2>1, <2>2 DEF Unused, Record, BaseRecord
<1>2. mft = [i \in Slots |-> IF i = Root THEN root ELSE Unused]
  BY DEF TreeInit
<1>3. /\ mft[Root].in_use /\ mft[Root].life = 1 /\ mft[Root].dir /\ mft[Root].base = None
      /\ mft[Root].extents = <<>>
      /\ \A i \in Slots \ {Root} :
           /\ ~mft[i].in_use /\ mft[i].life = 0 /\ ~mft[i].dir /\ mft[i].base = None
           /\ mft[i].extents = <<>> /\ mft[i].parent.slot = Root
  BY <1>2, TreeConstants DEF Unused, BaseRecord
<1>4. TreeTypeOK /\ RootInv
  <2> HIDE DEF root
  <2>1. mft \in [Slots -> Record]
    BY <1>1, <1>2
  <2>2. show \in BOOLEAN
    BY NtfsTreeAssumption DEF TreeInit
  <2>3. ops \in Nat /\ tree \in SUBSET Slots
    BY DEF TreeInit
  <2> QED BY <2>1, <2>2, <2>3, <1>0, <1>3 DEF TreeTypeOK, RootInv
<1> HIDE DEF root
<1>5. UseInv
  BY <1>3, TreeConstants DEF UseInv, Ever, IsBase
<1>6. PlaceInv
  BY <1>3 DEF PlaceInv
<1>7. ExtentInv
  BY <1>3 DEF ExtentInv, IsBase
<1>8. RankInv
  <2> DEFINE r == [i \in Slots |-> IF i = Root THEN 0 ELSE 1]
  <2>1. r \in [Slots -> Nat] /\ Ranks(r)
    BY <1>3, TreeConstants DEF Ranks, Parent
  <2> QED BY <2>1 DEF RankInv
<1>9. ScanInv
  BY <1>0 DEF TreeInit, ScanInv, Built
<1> QED BY <1>4, <1>5, <1>6, <1>7, <1>8, <1>9 DEF TreeInv, VolumeInv

-----------------------------------------------------------------------------
\* Slots that are not in use may be filled with records below slots in use:
\* those of them that had children are ranked anew, above all of these.
LEMMA RanksOfNew ==
  ASSUME VolumeInv, RankInv, NEW S \in SUBSET Slots, NEW p \in Slots, mft[p].in_use,
         \A i \in S : i # Root /\ ~mft[i].in_use /\ Parent(i)' = p,
         \A i \in Slots \ S : Parent(i)' = Parent(i)
  PROVE  RankInv'
<1>1. PICK r \in [Slots -> Nat] : Ranks(r)
  BY DEF RankInv
<1>2. PICK up \in [Slots -> Nat] :
        \A i \in Slots : up[i] = IF mft[i].in_use THEN r[i] ELSE r[i] + r[p] + 1
  <2>1. [i \in Slots |-> IF mft[i].in_use THEN r[i] ELSE r[i] + r[p] + 1] \in [Slots -> Nat]
    OBVIOUS
  <2> QED BY <2>1
<1>3. ASSUME NEW i \in Slots \ {Root} PROVE up[Parent(i)'] < up[i]
  <2>0. Parent(i) \in Slots
    BY DEF VolumeInv, TreeTypeOK, Record, Parent
  <2>1. CASE i \in S
    BY <1>2, <2>1
  <2>2. CASE i \notin S /\ mft[i].in_use
    <3>1. mft[Parent(i)].in_use
      BY <2>2 DEF VolumeInv, PlaceInv
    <3> QED BY <1>1, <1>2, <2>0, <2>2, <3>1 DEF Ranks
  <2>3. CASE i \notin S /\ ~mft[i].in_use
    <3>1. r[Parent(i)] < r[i]
      BY <1>1 DEF Ranks
    <3>2. r[Parent(i)] \in Nat /\ r[i] \in Nat /\ r[p] \in Nat
      BY <2>0
    <3>3. up[Parent(i)] \in {r[Parent(i)], r[Parent(i)] + r[p] + 1} /\ up[i] = r[i] + r[p] + 1
      BY <1>2, <2>0, <2>3
    <3>4. up[Parent(i)] < up[i]
      BY <3>1, <3>2, <3>3
    <3> QED BY <2>3, <3>4
  <2> QED BY <2>1, <2>2, <2>3
<1>4. Ranks(up)'
  BY <1>3 DEF Ranks
<1> QED BY <1>2, <1>4 DEF RankInv

\* A sequence of one.
LEMMA OneIsSequence == ASSUME NEW T, NEW x \in T PROVE <<x>> \in Seq(T)
OBVIOUS

\* A new file or directory.
LEMMA MakeKeeps == VolumeInv /\ RankInv /\ Make => VolumeInv' /\ RankInv'
<1> SUFFICES ASSUME VolumeInv, RankInv, Make PROVE VolumeInv' /\ RankInv'
  OBVIOUS
<1>1. PICK i \in UserFree, p \in LiveDirs, dir \in BOOLEAN :
        mft' = [mft EXCEPT ![i] = BaseRecord(i, mft[i].life + 1, dir, Reference(p))]
  BY DEF Make
<1> DEFINE new == BaseRecord(i, mft[i].life + 1, dir, Reference(p))
<1>2. /\ i \in Slots /\ i > SystemMax /\ ~mft[i].in_use /\ i # Root
      /\ p \in Slots /\ mft[p].in_use /\ mft[p].dir /\ p # i
      /\ mft \in [Slots -> Record]
  BY TreeConstants DEF UserFree, LiveDirs, VolumeInv, TreeTypeOK
<1>3. mft[i].life \in Nat /\ mft[p].life \in Nat
  BY <1>2 DEF Record
<1>4. /\ new.in_use /\ new.life = mft[i].life + 1 /\ new.base = None /\ new.parent = Reference(p)
      /\ new.extents \in {<<>>, <<Extent(i, new.life, 0)>>} /\ Reference(p).slot = p
      /\ Reference(p).life = mft[p].life
  BY <1>1 DEF BaseRecord, Reference
<1>5. new \in Record
  <2>1. Reference(p) \in [slot : Slots, life : Nat]
    BY <1>2, <1>3 DEF Reference
  <2>2. Extent(i, mft[i].life + 1, 0) \in [slot : Slots, life : Nat, vcn : Nat]
    BY <1>2, <1>3 DEF Extent
  <2>3. new.extents \in Seq([slot : Slots, life : Nat, vcn : Nat])
    <3>1. new.extents = <<>> \/ new.extents = <<Extent(i, mft[i].life + 1, 0)>>
      BY DEF BaseRecord
    <3>2. <<>> \in Seq([slot : Slots, life : Nat, vcn : Nat])
      OBVIOUS
    <3>3. <<Extent(i, mft[i].life + 1, 0)>> \in Seq([slot : Slots, life : Nat, vcn : Nat])
      BY <2>2, OneIsSequence
    <3> HIDE DEF new
    <3> QED BY <3>1, <3>2, <3>3
  <2> QED BY <1>3, <2>1, <2>3 DEF BaseRecord, Record
<1> HIDE DEF new
<1>6. mft'[i] = new /\ \A j \in Slots \ {i} : mft'[j] = mft[j]
  BY <1>1, <1>2 DEF new
<1>7. TreeTypeOK'
  <2>1. mft' \in [Slots -> Record]
    BY <1>1, <1>2, <1>5 DEF new
  <2>2. ops' \in Nat
    BY DEF Make, Lives, VolumeInv, TreeTypeOK
  <2>3. pc' = pc /\ show' = show /\ tree' = tree
    BY DEF Make, Lives
  <2> QED BY <2>1, <2>2, <2>3 DEF VolumeInv, TreeTypeOK
<1>8. RootInv'
  BY <1>2, <1>6, TreeConstants DEF VolumeInv, RootInv
<1>9. UseInv'
  <2> SUFFICES ASSUME NEW j \in Slots
               PROVE  /\ j # Root /\ mft'[j].life > 0 => j > SystemMax
                      /\ mft'[j].in_use => mft'[j].life > 0
                      /\ mft'[j].dir => mft'[j].base = None
    BY DEF UseInv, Ever, IsBase
  <2>1. CASE j = i
    BY <1>2, <1>3, <1>4, <1>6, <2>1
  <2>2. CASE j # i
    BY <1>6, <2>2 DEF VolumeInv, UseInv, Ever, IsBase
  <2> QED BY <2>1, <2>2
<1>10. PlaceInv'
  <2> SUFFICES ASSUME NEW j \in Slots \ {Root}, mft'[j].in_use
               PROVE  /\ mft'[mft'[j].parent.slot].in_use /\ mft'[mft'[j].parent.slot].dir
                      /\ mft'[mft'[j].parent.slot].life = mft'[j].parent.life
    BY DEF PlaceInv, Parent
  <2>1. CASE j = i
    BY <1>2, <1>4, <1>6, <2>1 DEF Reference
  <2>2. CASE j # i
    <3> DEFINE q == mft[j].parent.slot
    <3>1. mft'[j] = mft[j]
      BY <1>6, <2>2
    <3>2. q \in Slots /\ mft[q].in_use /\ mft[q].dir /\ mft[q].life = mft[j].parent.life
      BY <1>2, <2>2, <3>1 DEF VolumeInv, PlaceInv, Parent, Record
    <3>3. mft'[q] = mft[q]
      BY <1>2, <1>6, <3>2
    <3> QED BY <3>1, <3>2, <3>3
  <2> QED BY <2>1, <2>2
<1>11. ExtentInv'
  <2> SUFFICES ASSUME NEW j \in Slots
               PROVE  /\ mft'[j].base = None => mft'[j].extents \in {<<>>, <<Extent(j, mft'[j].life, 0)>>}
                      /\ mft'[j].base # None /\ mft'[j].in_use =>
                           LET b == mft'[j].base
                           IN  /\ b # Root /\ mft'[b].in_use /\ mft'[b].base = None
                               /\ mft'[j].parent.slot = Root
                               /\ \E v \in {0, 1} : mft'[j].extents = <<Extent(b, mft'[b].life, v)>>
    BY DEF ExtentInv, IsBase, Extent
  <2>1. CASE j = i
    BY <1>4, <1>6, <2>1
  <2>2. CASE j # i
    <3>1. mft'[j] = mft[j]
      BY <1>6, <2>2
    <3>2. mft[j].base = None => mft'[j].extents \in {<<>>, <<Extent(j, mft'[j].life, 0)>>}
      BY <3>1 DEF VolumeInv, ExtentInv, IsBase
    <3>3. ASSUME mft[j].base # None, mft[j].in_use, NEW b, b = mft[j].base
          PROVE  /\ b # Root /\ mft'[b].in_use /\ mft'[b].base = None /\ mft[j].parent.slot = Root
                 /\ \E v \in {0, 1} : mft[j].extents = <<Extent(b, mft'[b].life, v)>>
      <4>1. /\ b # Root /\ mft[b].in_use /\ mft[b].base = None /\ mft[j].parent.slot = Root
            /\ \E v \in {0, 1} : mft[j].extents = <<Extent(b, mft[b].life, v)>>
        BY <3>3 DEF VolumeInv, ExtentInv, IsBase
      <4>2. b \in Slots /\ b # i
        BY <1>2, <3>3, <4>1 DEF Record
      <4> QED BY <1>6, <4>1, <4>2
    <3> QED BY <3>1, <3>2, <3>3
  <2> QED BY <2>1, <2>2
<1>12. RankInv'
  <2>1. \A j \in {i} : j # Root /\ ~mft[j].in_use /\ Parent(j)' = p
    BY <1>2, <1>4, <1>6 DEF Parent
  <2>2. \A j \in Slots \ {i} : Parent(j)' = Parent(j)
    BY <1>6 DEF Parent
  <2>3. {i} \in SUBSET Slots
    BY <1>2
  <2> QED BY <1>2, <2>1, <2>2, <2>3, RanksOfNew
<1> QED BY <1>7, <1>8, <1>9, <1>10, <1>11, <1>12 DEF VolumeInv

\* $DATA moves to extension records.
LEMMA SpreadKeeps == VolumeInv /\ RankInv /\ Spread => VolumeInv' /\ RankInv'
<1> SUFFICES ASSUME VolumeInv, RankInv, Spread PROVE VolumeInv' /\ RankInv'
  OBVIOUS
<1>1. PICK i \in Slots, a, b \in UserFree :
        /\ mft[i].in_use /\ IsBase(i) /\ ~mft[i].dir
        /\ \/ a = b /\ mft' = [mft EXCEPT ![i].extents = <<>>, ![a] = Extension(a, i, 0)]
           \/ a # b /\ mft' = [mft EXCEPT ![i].extents = <<>>, ![i].size = 2,
                                 ![a] = Extension(a, i, 0), ![b] = Extension(b, i, 1)]
  BY DEF Spread
<1>2. /\ mft \in [Slots -> Record] /\ mft[i] \in Record
      /\ \A e \in {a, b} : e \in Slots /\ e > SystemMax /\ ~mft[e].in_use /\ e # Root /\ e # i
      /\ i # Root
  BY <1>1, TreeConstants DEF UserFree, VolumeInv, TreeTypeOK, RootInv
<1>3. \A e \in Slots : mft[e].life \in Nat /\ mft[e].parent.slot \in Slots
  BY <1>2 DEF Record
<1>4. ASSUME NEW e \in {a, b}, NEW v \in {0, 1} PROVE Extension(e, i, v) \in Record
  <2>1. Extent(i, mft[i].life, v) \in [slot : Slots, life : Nat, vcn : Nat]
    BY <1>2, <1>3 DEF Extent
  <2>2. <<Extent(i, mft[i].life, v)>> \in Seq([slot : Slots, life : Nat, vcn : Nat])
    BY <2>1, OneIsSequence
  <2>3. [slot |-> Root, life |-> 1] \in [slot : Slots, life : Nat]
    BY TreeConstants
  <2>4. /\ mft[e].life + 1 \in Nat /\ 0 \in Nat
        /\ TRUE \in BOOLEAN /\ FALSE \in BOOLEAN /\ i \in {None} \cup Slots
    BY <1>2, <1>3
  <2> QED BY ONLY <2>2, <2>3, <2>4, Zenon DEF Extension, Record
<1>5. ASSUME NEW size \in Nat
      PROVE  /\ [[mft[i] EXCEPT !.extents = <<>>] EXCEPT !.size = size] \in Record
             /\ [mft[i] EXCEPT !.extents = <<>>] \in Record
  <2>1. <<>> \in Seq([slot : Slots, life : Nat, vcn : Nat])
    OBVIOUS
  <2> QED BY <1>2, <2>1 DEF Record
<1>6. /\ mft' \in [Slots -> Record]
      /\ mft'[i].in_use /\ ~mft'[i].dir /\ mft'[i].base = None /\ mft'[i].life = mft[i].life
      /\ mft'[i].parent = mft[i].parent /\ mft'[i].extents = <<>>
      /\ \A e \in {a, b} : \E v \in {0, 1} : mft'[e] = Extension(e, i, v)
      /\ \A j \in Slots \ {i, a, b} : mft'[j] = mft[j]
  <2>1. CASE a = b /\ mft' = [mft EXCEPT ![i].extents = <<>>, ![a] = Extension(a, i, 0)]
    <3>1. /\ mft'[i] = [mft[i] EXCEPT !.extents = <<>>] /\ mft'[a] = Extension(a, i, 0)
          /\ \A j \in Slots \ {i, a, b} : mft'[j] = mft[j]
          /\ mft' = [j \in Slots |-> mft'[j]]
      BY <1>2, <2>1
    <3>2. \A j \in Slots : mft'[j] \in Record
      BY <1>2, <1>4, <1>5, <2>1, <3>1
    <3>3. mft'[i].extents = <<>>
      BY <1>2, <3>1 DEF Record
    <3>4. /\ mft'[i].in_use = mft[i].in_use /\ mft'[i].dir = mft[i].dir /\ mft'[i].base = mft[i].base
          /\ mft'[i].life = mft[i].life /\ mft'[i].parent = mft[i].parent
      BY <1>2, <3>1 DEF Record
    <3> QED BY <1>1, <2>1, <3>1, <3>2, <3>3, <3>4 DEF IsBase
  <2>2. CASE a # b /\ mft' = [mft EXCEPT ![i].extents = <<>>, ![i].size = 2,
                                 ![a] = Extension(a, i, 0), ![b] = Extension(b, i, 1)]
    <3>1. /\ mft'[i] = [[mft[i] EXCEPT !.extents = <<>>] EXCEPT !.size = 2]
          /\ mft'[a] = Extension(a, i, 0) /\ mft'[b] = Extension(b, i, 1)
          /\ \A j \in Slots \ {i, a, b} : mft'[j] = mft[j]
          /\ mft' = [j \in Slots |-> mft'[j]]
      BY <1>2, <2>2
    <3>2. \A j \in Slots : mft'[j] \in Record
      BY <1>2, <1>4, <1>5, <3>1, ZenonT(60)
    <3>3. mft'[i].extents = <<>>
      BY <1>2, <3>1 DEF Record
    <3>4. /\ mft'[i].in_use = mft[i].in_use /\ mft'[i].dir = mft[i].dir /\ mft'[i].base = mft[i].base
          /\ mft'[i].life = mft[i].life /\ mft'[i].parent = mft[i].parent
      BY <1>2, <3>1 DEF Record
    <3> QED BY <1>1, <3>1, <3>2, <3>3, <3>4 DEF IsBase
  <2> QED BY <1>1, <2>1, <2>2
<1>7. \A e \in {a, b} : /\ mft'[e].in_use /\ ~mft'[e].dir /\ mft'[e].base = i
                         /\ mft'[e].life = mft[e].life + 1 /\ mft'[e].parent.slot = Root
                         /\ mft'[e].parent.life = 1
                         /\ \E v \in {0, 1} : mft'[e].extents = <<Extent(i, mft[i].life, v)>>
  BY <1>6 DEF Extension
<1>8. TreeTypeOK'
  <2>1. ops' \in Nat
    BY DEF Spread, Lives, VolumeInv, TreeTypeOK
  <2>2. pc' = pc /\ show' = show /\ tree' = tree
    BY DEF Spread, Lives
  <2> QED BY <1>6, <2>1, <2>2 DEF VolumeInv, TreeTypeOK
<1>9. RootInv' /\ mft'[Root] = mft[Root]
  BY <1>2, <1>6, TreeConstants DEF VolumeInv, RootInv
<1>10. UseInv'
  <2> SUFFICES ASSUME NEW j \in Slots
               PROVE  /\ j # Root /\ mft'[j].life > 0 => j > SystemMax
                      /\ mft'[j].in_use => mft'[j].life > 0
                      /\ mft'[j].dir => mft'[j].base = None
    BY DEF UseInv, Ever, IsBase
  <2>1. CASE j \in {a, b}
    BY <1>2, <1>3, <1>7, <2>1
  <2>2. CASE j = i
    BY <1>1, <1>2, <1>6, <2>2 DEF VolumeInv, UseInv, Ever
  <2>3. CASE j \notin {i, a, b}
    BY <1>6, <2>3 DEF VolumeInv, UseInv, Ever, IsBase
  <2> QED BY <2>1, <2>2, <2>3
<1>11. PlaceInv'
  <2> SUFFICES ASSUME NEW j \in Slots \ {Root}, mft'[j].in_use
               PROVE  /\ mft'[mft'[j].parent.slot].in_use /\ mft'[mft'[j].parent.slot].dir
                      /\ mft'[mft'[j].parent.slot].life = mft'[j].parent.life
    BY DEF PlaceInv, Parent
  <2>1. CASE j \in {a, b}
    BY <1>7, <1>9, <2>1 DEF VolumeInv, RootInv
  <2>2. CASE j \notin {a, b}
    <3> DEFINE q == mft[j].parent.slot
    <3>1. mft'[j].parent = mft[j].parent /\ mft[j].in_use
      BY <1>1, <1>6, <2>2
    <3>2. q \in Slots /\ mft[q].in_use /\ mft[q].dir /\ mft[q].life = mft[j].parent.life
      BY <1>3, <2>2, <3>1 DEF VolumeInv, PlaceInv, Parent
    <3>3. mft'[q] = mft[q]
      BY <1>1, <1>2, <1>6, <3>2
    <3> QED BY <3>1, <3>2, <3>3
  <2> QED BY <2>1, <2>2
<1>12. ExtentInv'
  <2> SUFFICES ASSUME NEW j \in Slots
               PROVE  /\ mft'[j].base = None => mft'[j].extents \in {<<>>, <<Extent(j, mft'[j].life, 0)>>}
                      /\ mft'[j].base # None /\ mft'[j].in_use =>
                           LET c == mft'[j].base
                           IN  /\ c # Root /\ mft'[c].in_use /\ mft'[c].base = None
                               /\ mft'[j].parent.slot = Root
                               /\ \E v \in {0, 1} : mft'[j].extents = <<Extent(c, mft'[c].life, v)>>
    BY DEF ExtentInv, IsBase, Extent
  <2>1. CASE j \in {a, b}
    BY <1>2, <1>6, <1>7, <2>1, TreeConstants
  <2>2. CASE j = i
    BY <1>6, <2>2
  <2>3. CASE j \notin {i, a, b}
    <3>1. mft'[j] = mft[j]
      BY <1>6, <2>3
    <3>2. mft[j].base = None => mft'[j].extents \in {<<>>, <<Extent(j, mft'[j].life, 0)>>}
      BY <3>1 DEF VolumeInv, ExtentInv, IsBase
    <3>3. ASSUME mft[j].base # None, mft[j].in_use, NEW c, c = mft[j].base
          PROVE  /\ c # Root /\ mft'[c].in_use /\ mft'[c].base = None /\ mft[j].parent.slot = Root
                 /\ \E v \in {0, 1} : mft[j].extents = <<Extent(c, mft'[c].life, v)>>
      <4>1. /\ c # Root /\ mft[c].in_use /\ mft[c].base = None /\ mft[j].parent.slot = Root
            /\ \E v \in {0, 1} : mft[j].extents = <<Extent(c, mft[c].life, v)>>
        BY <3>3 DEF VolumeInv, ExtentInv, IsBase
      <4>2. c \in Slots /\ c \notin {a, b}
        BY <1>2, <3>3, <4>1 DEF Record
      <4>3. mft'[c].in_use /\ mft'[c].base = None /\ mft'[c].life = mft[c].life
        BY <1>6, <4>1, <4>2
      <4> QED BY <4>1, <4>3
    <3> QED BY <3>1, <3>2, <3>3
  <2> QED BY <2>1, <2>2, <2>3
<1>13. RankInv'
  <2>1. \A j \in {a, b} : j # Root /\ ~mft[j].in_use /\ Parent(j)' = Root
    BY <1>2, <1>7 DEF Parent
  <2>2. \A j \in Slots \ {a, b} : Parent(j)' = Parent(j)
    BY <1>6 DEF Parent
  <2>3. {a, b} \in SUBSET Slots /\ mft[Root].in_use
    BY <1>2 DEF VolumeInv, RootInv
  <2> QED BY <2>1, <2>2, <2>3, TreeConstants, RanksOfNew
<1> QED BY <1>8, <1>9, <1>10, <1>11, <1>12, <1>13 DEF VolumeInv

\* Records that are given back.
LEMMA DeleteKeeps == VolumeInv /\ RankInv /\ Delete => VolumeInv' /\ RankInv'
<1> SUFFICES ASSUME VolumeInv, RankInv, Delete PROVE VolumeInv' /\ RankInv'
  OBVIOUS
<1>1. PICK i \in Slots \ {Root} :
        /\ mft[i].in_use /\ IsBase(i)
        /\ ~\E c \in Slots \ {Root} : mft[c].in_use /\ IsBase(c) /\ mft[c].parent = Reference(i)
        /\ mft' = [j \in Slots |-> IF j = i \/ j \in ExtensionsOf(i)
                                     THEN [mft[j] EXCEPT !.in_use = FALSE] ELSE mft[j]]
  BY DEF Delete
<1> DEFINE gone == {i} \cup ExtensionsOf(i)
<1>2. mft \in [Slots -> Record] /\ gone \subseteq Slots /\ i # None
  BY TreeConstants DEF VolumeInv, TreeTypeOK, ExtensionsOf
<1>3. \A j \in Slots :
        /\ mft'[j] \in Record
        /\ mft'[j].in_use = (mft[j].in_use /\ j \notin gone)
        /\ mft'[j].dir = mft[j].dir /\ mft'[j].base = mft[j].base /\ mft'[j].life = mft[j].life
        /\ mft'[j].parent = mft[j].parent /\ mft'[j].extents = mft[j].extents
  <2> SUFFICES ASSUME NEW j \in Slots
               PROVE  /\ mft'[j] \in Record
                      /\ mft'[j].in_use = (mft[j].in_use /\ j \notin gone)
                      /\ mft'[j].dir = mft[j].dir /\ mft'[j].base = mft[j].base
                      /\ mft'[j].life = mft[j].life
                      /\ mft'[j].parent = mft[j].parent /\ mft'[j].extents = mft[j].extents
    OBVIOUS
  <2>1. mft[j] \in Record
    BY <1>2
  <2>2. CASE j \in gone
    <3>1. mft'[j] = [mft[j] EXCEPT !.in_use = FALSE]
      BY <1>1, <2>2
    <3> QED BY <2>1, <2>2, <3>1 DEF Record
  <2>3. CASE j \notin gone
    <3>1. mft'[j] = mft[j]
      BY <1>1, <2>3
    <3>2. mft[j].in_use \in BOOLEAN
      BY <2>1 DEF Record
    <3> QED BY <2>1, <2>3, <3>1, <3>2
  <2> QED BY <2>2, <2>3
<1>4. /\ \A j \in gone : j = i \/ ~IsBase(j)
      /\ \A j \in Slots : j \notin gone /\ mft[j].in_use => mft[j].base # i
      /\ Root \notin gone
  BY <1>1, <1>2, TreeConstants DEF ExtensionsOf, IsBase, VolumeInv, UseInv, RootInv
<1>5. TreeTypeOK'
  <2>1. mft' \in [Slots -> Record]
    BY <1>1, <1>3
  <2>2. ops' \in Nat
    BY DEF Delete, Lives, VolumeInv, TreeTypeOK
  <2>3. pc' = pc /\ show' = show /\ tree' = tree
    BY DEF Delete, Lives
  <2> QED BY <2>1, <2>2, <2>3 DEF VolumeInv, TreeTypeOK
<1>6. RootInv'
  BY <1>3, <1>4, TreeConstants DEF VolumeInv, RootInv
<1>7. UseInv'
  BY <1>3 DEF VolumeInv, UseInv, Ever, IsBase
<1>8. PlaceInv'
  <2> SUFFICES ASSUME NEW j \in Slots \ {Root}, mft'[j].in_use
               PROVE  /\ mft'[mft'[j].parent.slot].in_use /\ mft'[mft'[j].parent.slot].dir
                      /\ mft'[mft'[j].parent.slot].life = mft'[j].parent.life
    BY DEF PlaceInv, Parent
  <2> DEFINE q == mft[j].parent.slot
  <2>1. q \in Slots /\ mft[j].parent \in [slot : Slots, life : Nat]
    BY <1>2 DEF Record
  <2>2. mft[j].in_use /\ mft[q].in_use /\ mft[q].dir /\ mft[q].life = mft[j].parent.life
    BY <1>3 DEF VolumeInv, PlaceInv, Parent
  <2>3. q # i
    <3>1. CASE IsBase(j)
      <4> SUFFICES ASSUME q = i PROVE FALSE
        OBVIOUS
      <4>1. mft[j].parent = Reference(i)
        BY <2>1, <2>2 DEF Reference
      <4> QED BY <1>1, <2>2, <3>1, <4>1
    <3>2. CASE ~IsBase(j)
      BY <1>1, <2>2, <3>2 DEF VolumeInv, ExtentInv
    <3> QED BY <3>1, <3>2
  <2>4. q \notin gone
    BY <1>4, <2>1, <2>2, <2>3 DEF VolumeInv, UseInv
  <2> QED BY <1>3, <2>1, <2>2, <2>4, ZenonT(60)
<1>9. ExtentInv'
  <2> SUFFICES ASSUME NEW j \in Slots
               PROVE  /\ mft'[j].base = None => mft'[j].extents \in {<<>>, <<Extent(j, mft'[j].life, 0)>>}
                      /\ mft'[j].base # None /\ mft'[j].in_use =>
                           LET c == mft'[j].base
                           IN  /\ c # Root /\ mft'[c].in_use /\ mft'[c].base = None
                               /\ mft'[j].parent.slot = Root
                               /\ \E v \in {0, 1} : mft'[j].extents = <<Extent(c, mft'[c].life, v)>>
    BY DEF ExtentInv, IsBase, Extent
  <2>1. mft[j].base = None => mft'[j].extents \in {<<>>, <<Extent(j, mft'[j].life, 0)>>}
    BY <1>3 DEF VolumeInv, ExtentInv, IsBase
  <2>2. ASSUME mft[j].base # None, mft[j].in_use, j \notin gone, NEW c, c = mft[j].base
        PROVE  /\ c # Root /\ mft'[c].in_use /\ mft'[c].base = None /\ mft[j].parent.slot = Root
               /\ \E v \in {0, 1} : mft[j].extents = <<Extent(c, mft'[c].life, v)>>
    <3>1. /\ c # Root /\ mft[c].in_use /\ mft[c].base = None /\ mft[j].parent.slot = Root
          /\ \E v \in {0, 1} : mft[j].extents = <<Extent(c, mft[c].life, v)>>
      BY <2>2 DEF VolumeInv, ExtentInv, IsBase
    <3>2. c \in Slots /\ c \notin gone
      BY <1>2, <1>4, <2>2, <3>1 DEF Record, IsBase
    <3>3. mft'[c].in_use /\ mft'[c].base = None /\ mft'[c].life = mft[c].life
      BY <1>3, <3>1, <3>2
    <3> QED BY <3>1, <3>3
  <2> QED BY <1>3, <2>1, <2>2, ZenonT(60)
<1>10. RankInv'
  <2>1. \A j \in Slots : Parent(j)' = Parent(j)
    BY <1>3 DEF Parent
  <2>2. PICK r \in [Slots -> Nat] : Ranks(r)
    BY DEF RankInv
  <2>3. Ranks(r)'
    BY <2>1, <2>2 DEF Ranks
  <2> QED BY <2>3 DEF RankInv
<1> QED BY <1>5, <1>6, <1>7, <1>8, <1>9, <1>10 DEF VolumeInv

\* The image, the scan and the tree leave the volume alone.
LEMMA VolumeStands ==
  ASSUME VolumeInv, RankInv, UNCHANGED <<mft, ops, show>>,
         pc' \in {"volume", "scan", "done", "built"}, tree' \in SUBSET Slots
  PROVE  VolumeInv' /\ RankInv'
<1>1. mft' = mft /\ ops' = ops /\ show' = show
  OBVIOUS
<1>2. TreeTypeOK'
  BY <1>1 DEF VolumeInv, TreeTypeOK
<1>3. RootInv' /\ UseInv' /\ PlaceInv'
  BY <1>1 DEF VolumeInv, RootInv, UseInv, PlaceInv, Parent, Ever, IsBase
<1>4. ExtentInv'
  BY <1>1 DEF VolumeInv, ExtentInv, IsBase, Extent
<1>5. RankInv'
  <2>1. PICK r \in [Slots -> Nat] : Ranks(r)
    BY DEF RankInv
  <2>2. Ranks(r)'
    BY <1>1, <2>1 DEF Ranks, Parent
  <2> QED BY <2>2 DEF RankInv
<1> QED BY <1>2, <1>3, <1>4, <1>5 DEF VolumeInv

\* The scan of an image starts with its invariant.
LEMMA ScanStartsNext == Init' => IInv'
BY ScanStarts, PTL

\* Every step of the volume, its image and its tree keeps the invariant.
LEMMA TreeGoesOn == TreeInv /\ [TreeNext]_tree_vars => TreeInv'
<1> SUFFICES ASSUME TreeInv, [TreeNext]_tree_vars PROVE TreeInv'
  OBVIOUS
<1>0. VolumeInv /\ RankInv /\ ScanInv /\ pc \in {"volume", "scan", "done", "built"} /\ tree \in SUBSET Slots
  BY DEF TreeInv, VolumeInv, TreeTypeOK
<1>1. CASE Make \/ Spread \/ Delete
  <2>1. VolumeInv' /\ RankInv'
    BY <1>0, <1>1, MakeKeeps, SpreadKeeps, DeleteKeeps
  <2>2. pc' = "volume" /\ index' = index /\ consecutive_empty' = consecutive_empty /\ records' = records
    BY <1>1 DEF Make, Spread, Delete, Lives, scan
  <2>3. ScanInv'
    BY <1>0, <1>1, <2>2 DEF ScanInv, Built, Make, Spread, Delete, Lives
  <2> QED BY <2>1, <2>3 DEF TreeInv
<1>2. CASE Read
  <2>1. VolumeInv' /\ RankInv'
    BY <1>0, <1>2, VolumeStands DEF Read, volume
  <2>2. PICK lost, torn \in SUBSET {i \in Slots : Ever(i)} :
          image' = [n \in 1..(SlotCount + 1) |->
            [used |-> n = 1 \/ Ever(n - 1), head |-> n - 1 \notin lost, tail |-> n - 1 \notin torn]]
    BY <1>2 DEF Read
  <2>3. /\ image' \in [1..(SlotCount + 1) -> Slot]
        /\ \A n \in 1..(SlotCount + 1) : image'[n].used = (n = 1 \/ Ever(n - 1))
    BY <2>2 DEF Slot
  <2>4. \A i \in Slots : image'[i + 1].used = Ever(i)
    <3> SUFFICES ASSUME NEW i \in Slots PROVE image'[i + 1].used = Ever(i)
      OBVIOUS
    <3>1. i + 1 \in 1..(SlotCount + 1) /\ i + 1 # 1 /\ (i + 1) - 1 = i
      BY TreeConstants DEF Slots
    <3>2. image'[i + 1].used = (i + 1 = 1 \/ Ever((i + 1) - 1))
      BY <2>3, <3>1 DEF Ever
    <3> QED BY <3>1, <3>2 DEF Ever
  <2>5. Ever(1)' = Ever(1) /\ \A i \in Slots : Ever(i)' = Ever(i)
    BY <1>2 DEF Read, volume, Ever
  <2>6. Init'
    BY <1>0, <1>2, <2>3, NtfsTreeAssumption DEF Read, ScanInv, Init
  <2>7. IInv' /\ pc' = "scan"
    BY <2>6, ScanStartsNext DEF Init
  <2>8. ScanInv'
    BY <2>3, <2>4, <2>5, <2>7 DEF ScanInv, Built, SlotAt
  <2> QED BY <2>1, <2>8 DEF TreeInv
<1>3. CASE Scan
  <2>1. pc = "scan" /\ pc' \in {"scan", "done"} /\ image' = image
    BY <1>3 DEF Scan, Next, EndOfImage, TakeRecord, SkipEmpty, StopAtGap
  <2>2. VolumeInv' /\ RankInv'
    BY <1>0, <1>3, <2>1, VolumeStands DEF Scan, volume
  <2>3. IInv'
    BY <1>0, <1>3, <2>1, ScanGoesOn DEF Scan, ScanInv
  <2>4. \A i \in Slots : SlotAt(i).used' = SlotAt(i).used /\ Ever(i)' = Ever(i)
    BY <1>3, <2>1 DEF Scan, volume, SlotAt, Ever
  <2>5. ScanInv'
    BY <1>0, <2>1, <2>3, <2>4 DEF ScanInv, Built
  <2> QED BY <2>2, <2>5 DEF TreeInv
<1>4. CASE Build
  <2>1. /\ pc = "done" /\ pc' = "built" /\ UNCHANGED <<scan, volume>>
        /\ tree' = {i \in Slots : Builds(i)} \cup {Root}
    BY <1>4 DEF Build
  <2>2. mft' = mft /\ ops' = ops /\ show' = show /\ image' = image /\ records' = records
    BY <2>1 DEF scan, volume
  <2>3. VolumeInv' /\ RankInv'
    BY <1>0, <2>1, <2>2, VolumeStands, TreeConstants
  <2>4. records = {n \in 0..(Size - 1) : ~IsEmpty(n) /\ \A m \in 0..n : ~EndsGap(m)}
    BY <1>0, <2>1 DEF ScanInv, IInv, FindsUpToTheGap
  <2>5. (records = {n \in 0..(Size - 1) : ~IsEmpty(n) /\ \A m \in 0..n : ~EndsGap(m)})'
    BY <2>2, <2>4 DEF Size, IsEmpty, EndsGap, SlotAt
  <2>6. \A i \in Slots : Builds(i)' = Builds(i)
    BY <2>2 DEF Builds, Seen, IsBase, Named, Whole, IsEmpty, SlotAt
  <2>7. \A i \in Slots : SlotAt(i).used' = SlotAt(i).used /\ Ever(i)' = Ever(i)
    BY <2>2 DEF SlotAt, Ever
  <2>8. ScanInv'
    BY <1>0, <2>1, <2>2, <2>5, <2>6, <2>7 DEF ScanInv, Built
  <2> QED BY <2>3, <2>8 DEF TreeInv
<1>5. CASE UNCHANGED tree_vars
  <2>1. /\ pc' = pc /\ tree' = tree /\ mft' = mft /\ ops' = ops /\ show' = show
        /\ image' = image /\ index' = index /\ consecutive_empty' = consecutive_empty
        /\ records' = records
    BY <1>5 DEF tree_vars, scan, volume
  <2>2. VolumeInv' /\ RankInv'
    BY <1>0, <2>1, VolumeStands
  <2>3. pc \in {"scan", "done"} => IInv'
    BY <1>0, <2>1, ScanGoesOn DEF ScanInv, vars
  <2>4. ScanInv'
    BY <1>0, <2>1, <2>3 DEF ScanInv, Built, SlotAt, Ever, Size, IsEmpty, EndsGap, Builds, Seen,
                            IsBase, Named, Whole
  <2> QED BY <2>2, <2>4 DEF TreeInv
<1> QED BY <1>1, <1>2, <1>3, <1>4, <1>5 DEF TreeNext

\* The inductive invariant of the volume, of its image and of its tree.
THEOREM NtfsTreeInvariant == TreeSpec => []TreeInv
BY VolumeStarts, TreeGoesOn, PTL DEF TreeSpec

\* The scan returns every record before the first gap of any volume.
THEOREM NtfsTreeFindsUpToTheGap == TreeSpec => []FindsUpToTheGap
<1>1. TreeInv => FindsUpToTheGap
  BY DEF TreeInv, ScanInv, IInv, FindsUpToTheGap
<1> QED BY <1>1, NtfsTreeInvariant, PTL

-----------------------------------------------------------------------------
\* When the tree is built: what the scan returned of the slots.
LEMMA SeenIsFound ==
  ASSUME TreeInv, Built, NEW i \in Slots
  PROVE  /\ Seen(i) <=> ~IsEmpty(i) /\ \A n \in 0..i : ~EndsGap(n)
         /\ ~IsEmpty(i) => Ever(i)
<1>1. Size = SlotCount + 1 /\ SlotAt(i).used = Ever(i)
  BY TreeConstants DEF TreeInv, ScanInv, Built, Size
<1>2. i \in 0..(Size - 1)
  BY <1>1, TreeConstants DEF Slots
<1>3. records = {n \in 0..(Size - 1) : ~IsEmpty(n) /\ \A m \in 0..n : ~EndsGap(m)}
  BY DEF TreeInv, ScanInv
<1> QED BY <1>1, <1>2, <1>3 DEF Seen, IsEmpty

\* When the tree is built: what it is made of.
LEMMA TreeIsBuilt ==
  ASSUME TreeInv, Built
  PROVE  /\ tree = {i \in Slots : Builds(i)} \cup {Root}
         /\ \A i \in tree : i \in Slots /\ IsBase(i)
         /\ mft[Root].in_use /\ mft[Root].dir
         /\ \A i \in Slots : /\ mft[i].parent \in [slot : Slots, life : Nat]
                             /\ mft[i].size \in Nat /\ mft[i].life \in Nat
<1>1. tree = {i \in Slots : Builds(i)} \cup {Root}
  BY DEF TreeInv, ScanInv
<1>2. IsBase(Root) /\ mft[Root].in_use /\ mft[Root].dir
  BY TreeConstants DEF TreeInv, VolumeInv, RootInv, UseInv
<1>3. \A i \in Slots : mft[i] \in Record
  BY DEF TreeInv, VolumeInv, TreeTypeOK
<1> QED BY <1>1, <1>2, <1>3, TreeConstants DEF Builds, Record

\* A file in use whose record was read before the first gap is in the tree,
\* and nothing else without include_deleted.
THEOREM NtfsTreeLiveFound == TreeSpec => []LiveFound
<1>1. TreeInv => LiveFound
  <2> SUFFICES ASSUME TreeInv, Built PROVE LiveFound
    BY DEF LiveFound
  <2>1. ASSUME NEW i \in Slots, mft[i].in_use, IsBase(i), i > SystemMax, Found(i) PROVE i \in tree
    BY <2>1, SeenIsFound, TreeIsBuilt DEF Found, Whole, Builds, Named
  <2>2. ASSUME ~show, NEW i \in tree PROVE mft[i].in_use
    BY <2>2, TreeIsBuilt DEF Builds
  <2> QED BY <2>1, <2>2 DEF LiveFound
<1> QED BY <1>1, NtfsTreeInvariant, PTL

\* No record of the tree is in a cycle or below a file, though slots are used
\* again for the children of their children (build_tree, third pass).
THEOREM NtfsTreeNoneUnreachable == TreeSpec => []NoneUnreachable
<1>1. TreeInv => NoneUnreachable
  <2> SUFFICES ASSUME TreeInv, Built PROVE NoneUnreachable
    BY DEF NoneUnreachable
  <2>1. ASSUME NEW C \in SUBSET (tree \ (Orphans \cup {Root})), C # {},
               \A i \in C : Parent(i) \in C
        PROVE  FALSE
    <3>1. PICK r \in [Slots -> Nat] : Ranks(r)
      BY DEF TreeInv, RankInv
    <3>2. C \subseteq Slots /\ Root \notin C
      BY TreeIsBuilt
    <3> DEFINE T == {r[i] : i \in C}
    <3>3. T \in SUBSET Nat /\ T # {}
      BY <2>1, <3>2
    <3>4. PICK x \in T : \A y \in T : x <= y
      BY <3>3, LeastNumber
    <3>5. PICK i \in C : x = r[i]
      BY <3>4
    <3>6. r[Parent(i)] \in T /\ r[Parent(i)] < r[i]
      BY <2>1, <3>1, <3>2, <3>5 DEF Ranks
    <3>7. r[Parent(i)] \in Nat /\ r[i] \in Nat /\ r[i] <= r[Parent(i)]
      BY <3>3, <3>4, <3>5, <3>6
    <3> QED BY <3>6, <3>7
  <2>2. ASSUME NEW i \in tree \ (Orphans \cup {Root}) PROVE mft[Parent(i)].dir
    BY <2>2 DEF Orphans, HasParent, Parent
  <2> QED BY <2>1, <2>2 DEF NoneUnreachable
<1> QED BY <1>1, NtfsTreeInvariant, PTL

\* A file in use is below the directory it is in, and an orphan exactly when
\* the record of that directory was lost.
THEOREM NtfsTreeLivePlaced == TreeSpec => []LivePlaced
<1>1. TreeInv => LivePlaced
  <2> SUFFICES ASSUME TreeInv, Built, NEW i \in tree \ {Root}, mft[i].in_use
               PROVE  /\ HasParent(i) => Reference(Parent(i)) = mft[i].parent
                      /\ i \in Orphans <=> Parent(i) # Root /\ ~Found(Parent(i))
    BY DEF LivePlaced
  <2> DEFINE p == Parent(i)
  <2>1. p \in Slots /\ mft[p].in_use /\ mft[p].dir /\ mft[p].life = mft[i].parent.life
    BY TreeIsBuilt DEF TreeInv, VolumeInv, PlaceInv, Parent
  <2>2. Reference(p) = mft[i].parent
    BY <2>1, TreeIsBuilt DEF Reference, Parent
  <2>3. IsBase(p) /\ (p # Root => p > SystemMax)
    BY <2>1 DEF TreeInv, VolumeInv, UseInv
  <2>4. p # Root => (p \in tree <=> Found(p))
    BY <2>1, <2>3, TreeIsBuilt, SeenIsFound DEF Builds, Found, Named, Whole
  <2>5. i \in Orphans <=> p \notin tree
    BY <2>1 DEF Orphans, HasParent, Parent
  <2>6. Root \in tree
    BY TreeIsBuilt
  <2> QED BY <2>2, <2>4, <2>5, <2>6
<1> QED BY <1>1, NtfsTreeInvariant, PTL

\* The runs of a record, if it has any, are an extent of its own.
LEMMA DataIsOwn ==
  ASSUME TreeInv, Built, NEW i \in tree
  PROVE  DataRuns(i) = <<>> \/ \E v \in {0, 1} : DataRuns(i) = <<Extent(i, mft[i].life, v)>>
<1> SUFFICES ASSUME DataHolders(i) # {}
             PROVE  \E v \in {0, 1} : DataRuns(i) = <<Extent(i, mft[i].life, v)>>
  BY DEF DataRuns
<1>1. i \in Slots /\ IsBase(i) /\ DataHolders(i) \in SUBSET Nat
  BY TreeIsBuilt, TreeConstants DEF DataHolders, ExtensionRecords
<1>2. DataRecord(i) \in DataHolders(i)
  <2>1. \E e \in DataHolders(i) : \A f \in DataHolders(i) : e <= f
    BY <1>1, LeastNumber
  <2> QED BY <2>1 DEF DataRecord
<1>3. ASSUME NEW e \in DataHolders(i)
      PROVE  \E v \in {0, 1} : Attributes(e) = <<Extent(i, mft[i].life, v)>>
  <2>1. Attributes(e) = mft[e].extents /\ Attributes(e) # <<>>
    BY DEF DataHolders, Attributes
  <2>2. CASE e = i
    BY <1>1, <2>1, <2>2 DEF TreeInv, VolumeInv, ExtentInv
  <2>3. CASE e # i
    <3>1. e \in Slots /\ mft[e].in_use /\ mft[e].base = i /\ ~IsBase(e)
      BY <1>1, <2>3, TreeConstants DEF DataHolders, ExtensionRecords, IsBase
    <3> QED BY <2>1, <3>1 DEF TreeInv, VolumeInv, ExtentInv
  <2> QED BY <2>2, <2>3
<1>4. PICK v \in {0, 1} : Attributes(DataRecord(i)) = <<Extent(i, mft[i].life, v)>>
  BY <1>2, <1>3
<1>5. DataRuns(i) = <<Extent(i, mft[i].life, v)>>
  BY <1>4 DEF DataRuns
<1> QED BY <1>5

\* No extent of another file, or of an earlier one in the same slot, is taken
\* for the data of a record (build_tree, _extract_data_info).
THEOREM NtfsTreeOwnData == TreeSpec => []OwnData
<1>1. TreeInv => OwnData
  BY DataIsOwn DEF OwnData, Extent
<1> QED BY <1>1, NtfsTreeInvariant, PTL

\* A file with a size is called complete only with all of its extents.
THEOREM NtfsTreeCompleteIsWhole == TreeSpec => []CompleteIsWhole
<1>1. TreeInv => CompleteIsWhole
  <2> SUFFICES ASSUME TreeInv, Built, NEW i \in LiveFiles, Complete(i), FileSize(i) > 0
               PROVE  DataRuns(i) = Content(i)
    BY DEF CompleteIsWhole
  <2>1. i \in tree /\ mft[i].size \in Nat
    BY TreeIsBuilt DEF LiveFiles
  <2>2. PICK v \in {0, 1} : DataRuns(i) = <<Extent(i, mft[i].life, v)>>
    BY <2>1, DataIsOwn DEF FileSize
  <2>3. DataRuns(i)[1].slot = i /\ DataRuns(i)[1].vcn = v /\ Len(DataRuns(i)) = 1
    BY <2>2 DEF Extent
  <2>4. v = 0 /\ FileSize(i) = mft[i].size
    BY <2>2, <2>3 DEF FileSize
  <2>5. mft[i].size = 1
    BY <2>1, <2>3, <2>4 DEF Complete
  <2>6. Content(i) = <<Extent(i, mft[i].life, 0)>>
    BY <2>5 DEF Content, Extent
  <2> QED BY <2>2, <2>4, <2>6
<1> QED BY <1>1, NtfsTreeInvariant, PTL
=============================================================================
