--------------------------- MODULE SelectionProofs ---------------------------
(***************************************************************************)
(* What is ticked is what is selected, and what is recovered is what was   *)
(* chosen with all that lies below it: for any volume, whatever of it the  *)
(* image shows at each step.                                               *)
(***************************************************************************)
EXTENDS Selection, FiniteSetTheorems, TLAPS

\* Below(ns, within) holds ns, is closed, and is the least such set.
LEMMA BelowLeast ==
  ASSUME NEW ns, NEW within
  PROVE  /\ ns \cap within \subseteq Below(ns, within) /\ Below(ns, within) \subseteq within
         /\ Closed(Below(ns, within), within)
         /\ \A s : ns \cap within \subseteq s /\ Closed(s, within) => Below(ns, within) \subseteq s
<1>1. ns \cap within \subseteq Below(ns, within) /\ Below(ns, within) \subseteq within
  BY DEF Below
<1>2. Closed(Below(ns, within), within)
  <2> SUFFICES ASSUME NEW n \in within, n # Root,
                      volume.parent[n] \in Below(ns, within) \cap volume.dirs,
                      NEW s \in SUBSET within, ns \cap within \subseteq s, Closed(s, within)
               PROVE  n \in s
    BY DEF Closed, Below
  <2> QED BY DEF Closed, Below
<1>3. ASSUME NEW s, ns \cap within \subseteq s, Closed(s, within)
      PROVE  Below(ns, within) \subseteq s
  <2>1. /\ s \cap within \in SUBSET within /\ ns \cap within \subseteq s \cap within
        /\ Closed(s \cap within, within)
    BY <1>3 DEF Closed
  <2> QED BY <2>1 DEF Below
<1> QED BY <1>1, <1>2, <1>3

\* More to begin with, in a larger tree, has more below it.
LEMMA BelowGrows ==
  ASSUME NEW ns, NEW ms, NEW within, NEW around, within \subseteq around,
         ns \cap within \subseteq Below(ms, around)
  PROVE  Below(ns, within) \subseteq Below(ms, around)
<1>1. Closed(Below(ms, around), within)
  BY BelowLeast DEF Closed
<1> QED BY <1>1, BelowLeast

\* The chosen nodes and what is below the directories among them is all that
\* is below the chosen nodes.
LEMMA BelowDirectories ==
  ASSUME NEW ns, NEW within, ns \subseteq within
  PROVE  ns \cup Below(ns \cap volume.dirs, within) = Below(ns, within)
<1> DEFINE all == ns \cup Below(ns \cap volume.dirs, within)
<1>1. all \subseteq Below(ns, within)
  <2>1. ns \subseteq Below(ns, within)
    BY BelowLeast
  <2>2. (ns \cap volume.dirs) \cap within \subseteq Below(ns, within)
    BY <2>1
  <2> QED BY <2>1, <2>2, BelowGrows
<1>2. Closed(all, within)
  <2> SUFFICES ASSUME NEW n \in within, n # Root, volume.parent[n] \in all \cap volume.dirs
               PROVE  n \in Below(ns \cap volume.dirs, within)
    BY DEF Closed
  <2>1. volume.parent[n] \in Below(ns \cap volume.dirs, within)
    BY BelowLeast
  <2> QED BY <2>1, BelowLeast DEF Closed
<1>3. Below(ns, within) \subseteq all
  BY <1>2, BelowLeast
<1> QED BY <1>1, <1>3

-----------------------------------------------------------------------------
\* The records of a tree are nodes that are shown.
LEMMA RecordsShown ==
  ASSUME NEW d \in BOOLEAN, Root \in shown PROVE Records(d) \subseteq shown
BY BelowLeast DEF Records

\* No two records of a tree have one id.
LEMMA IdsDiffer ==
  ASSUME NEW records \in SUBSET Nat, NEW m \in records, NEW n \in records, m # n
  PROVE  Id(m, records) # Id(n, records)
<1>1. CASE volume.ids # "traversal"
  BY <1>1 DEF Id
<1>2. CASE volume.ids = "traversal"
  <2> DEFINE before(k) == {j \in records : j < k}
  <2>0. \A k \in records : k \in Nat
    OBVIOUS
  <2>1. \A k \in records : IsFiniteSet(before(k)) /\ Cardinality(before(k)) \in Nat
    <3> TAKE k \in records
    <3>1. \A i \in before(k) : i \in 0 .. k
      BY <2>0
    <3>2. IsFiniteSet(0 .. k)
      BY FS_Interval
    <3> QED BY <3>1, <3>2, FS_Subset, FS_CardinalityType
  <2>2. ASSUME NEW j \in records, NEW k \in records, j < k
        PROVE  Cardinality(before(j)) < Cardinality(before(k))
    <3>1. before(j) \subseteq before(k) /\ j \in before(k) /\ j \notin before(j)
      <4>1. j \in Nat /\ k \in Nat /\ ~(j < j)
        BY <2>0
      <4>2. \A i \in records : i < j => i < k
        BY <2>0, <2>2
      <4> QED BY <2>2, <4>1, <4>2, Zenon
    <3>2. before(j) # before(k)
      BY <3>1
    <3> HIDE DEF before
    <3>3. Cardinality(before(j)) <= Cardinality(before(k))
          /\ (Cardinality(before(j)) = Cardinality(before(k)) => before(j) = before(k))
      BY <2>1, <3>1, FS_Subset
    <3> QED BY <2>1, <3>2, <3>3
  <2>3. m < n \/ n < m
    BY <2>0
  <2>4. Id(m, records) = Root + Cardinality(before(m))
        /\ Id(n, records) = Root + Cardinality(before(n))
    BY <1>2 DEF Id
  <2> HIDE DEF before
  <2> QED BY <2>1, <2>2, <2>3, <2>4 DEF Root
<1> QED BY <1>1, <1>2

\* A tree has each of its records under the id of that record.
LEMMA TreeHasRecords ==
  ASSUME NEW d \in BOOLEAN, Records(d) \subseteq Nat
  PROVE  /\ NodesOf(Tree(d)) = Records(d)
         /\ volume.ids # "traversal" =>
              DOMAIN Tree(d) = Records(d) /\ \A i \in Records(d) : Tree(d)[i] = i
<1> DEFINE R == Records(d)
           ids == {Id(n, R) : n \in R}
<1>1. Tree(d) = [i \in ids |-> CHOOSE n \in R : Id(n, R) = i]
  BY DEF Tree
<1>2. R \in SUBSET Nat
  OBVIOUS
<1> HIDE DEF R
<1>3. \A i \in ids : Tree(d)[i] \in R /\ Id(Tree(d)[i], R) = i
  BY <1>1
<1>4. \A n \in R : Id(n, R) \in ids /\ Tree(d)[Id(n, R)] = n
  <2> TAKE n \in R
  <2>1. Tree(d)[Id(n, R)] \in R /\ Id(Tree(d)[Id(n, R)], R) = Id(n, R) /\ Id(n, R) \in ids
    BY <1>3
  <2> QED BY <1>2, <2>1, IdsDiffer
<1>5. DOMAIN Tree(d) = ids
  BY <1>1
<1>6. NodesOf(Tree(d)) = R
  BY <1>3, <1>4, <1>5 DEF NodesOf
<1>7. ASSUME volume.ids # "traversal"
      PROVE  DOMAIN Tree(d) = R /\ \A i \in R : Tree(d)[i] = i
  <2>1. \A n \in R : Id(n, R) = n
    BY <1>7 DEF Id
  <2> QED BY <1>4, <1>5, <2>1
<1> QED BY <1>6, <1>7 DEF R

\* What the ids of a selection take with them: the nodes they lead to, and all
\* that is below these.
LEMMA ExpandTakesBelow ==
  ASSUME NEW t, NEW ids
  PROVE  LET known == {t[i] : i \in ids \cap DOMAIN t} IN
         {t[i] : i \in Expand(ids, t)} = Below(known, NodesOf(t))
<1> DEFINE known == {t[i] : i \in ids \cap DOMAIN t}
           under == Below(known \cap volume.dirs, NodesOf(t))
<1>1. {t[i] : i \in IdsOf(t, under)} = under
  <2>1. under \subseteq NodesOf(t)
    BY BelowLeast
  <2> HIDE DEF under
  <2> QED BY <2>1 DEF IdsOf, NodesOf
<1>2. Expand(ids, t) = (ids \cap DOMAIN t) \cup IdsOf(t, under)
  BY DEF Expand
<1>3. {t[i] : i \in Expand(ids, t)} = known \cup under
  <2> HIDE DEF under
  <2> QED BY <1>1, <1>2
<1>4. known \subseteq NodesOf(t)
  BY DEF NodesOf
<1> HIDE DEF known
<1> QED BY <1>3, <1>4, BelowDirectories DEF known
-----------------------------------------------------------------------------
\* Ticking or clearing any of the ids keeps the set of the selected the set of
\* the ticked boxes.
LEMMA ForcedKeepsTicks ==
  ASSUME NEW s, NEW ids, NEW on \in BOOLEAN,
         s.box \in [DOMAIN s.box -> BOOLEAN], s.selected = {i \in DOMAIN s.box : s.box[i]}
  PROVE  LET f == Forced(s, ids, on) IN
         /\ f.box \in [DOMAIN f.box -> BOOLEAN]
         /\ f.selected = {i \in DOMAIN f.box : f.box[i]}
<1> DEFINE changed == {i \in ids \cap DOMAIN s.box : s.box[i] # on}
           f == Forced(s, ids, on)
<1>1. /\ f.box = [i \in DOMAIN s.box |-> IF i \in changed THEN on ELSE s.box[i]]
      /\ f.selected = IF on THEN s.selected \cup changed ELSE s.selected \ changed
  BY DEF Forced
<1> HIDE DEF f
<1>2. DOMAIN f.box = DOMAIN s.box
      /\ \A i \in DOMAIN s.box : f.box[i] = IF i \in changed THEN on ELSE s.box[i]
  BY <1>1
<1>3. f.box \in [DOMAIN f.box -> BOOLEAN]
  BY <1>1, <1>2
<1>4. ASSUME on = TRUE PROVE f.selected = {i \in DOMAIN f.box : f.box[i]}
  <2>1. f.selected = s.selected \cup changed
    BY <1>1, <1>4
  <2>2. \A i \in DOMAIN s.box : i \in changed \/ s.box[i] <=> f.box[i]
    BY <1>2, <1>4
  <2> QED BY <1>2, <2>1, <2>2
<1>5. ASSUME on = FALSE PROVE f.selected = {i \in DOMAIN f.box : f.box[i]}
  <2>1. f.selected = s.selected \ changed
    BY <1>1, <1>5
  <2>2. \A i \in DOMAIN s.box : i \notin changed /\ s.box[i] <=> f.box[i]
    BY <1>2, <1>5
  <2> QED BY <1>2, <2>1, <2>2
<1> QED BY <1>3, <1>4, <1>5 DEF f

\* What is recovered stays among the chosen if only the image grows.
LEMMA ChosenAt ==
  ASSUME volume' = volume, recovered' \subseteq Below(Chosen', volume.nodes)
  PROVE  NothingUnchosen'
BY DEF NothingUnchosen, Below, Closed

\* Whatever a step does to the screen, what it leaves of the rest is kept.
LEMMA RestKept ==
  ASSUME IInv, UNCHANGED <<volume, file, recovered>>
  PROVE  NothingUnchosen'
BY DEF IInv, NothingUnchosen, Chosen, Below, Closed

\* A step on the screen keeps the invariant.
LEMMA ScreenStep ==
  ASSUME IInv, NEW ids, NEW on \in BOOLEAN, UNCHANGED <<volume, shown, tree, file, recovered>>,
         NEW s, s.box \in [DOMAIN s.box -> BOOLEAN],
         s.selected = {i \in DOMAIN s.box : s.box[i]},
         Becomes(Forced(s, ids, on))
  PROVE  IInv'
<1>1. box' \in [DOMAIN box' -> BOOLEAN] /\ BoxesAreSelection'
  BY ForcedKeepsTicks DEF Becomes, BoxesAreSelection
<1>2. NothingUnchosen'
  BY RestKept
<1> QED BY <1>1, <1>2 DEF IInv, IdsStand

\* The nodes of a volume are numbers, and the root is one of them.
LEMMA VolumeNodes ==
  ASSUME IInv
  PROVE  volume.nodes \subseteq Nat /\ \A d \in BOOLEAN : Records(d) \subseteq volume.nodes
BY VolumeAssumption, RecordsShown DEF IInv

\* The selection file that is written names the nodes that are given on.
LEMMA ExportNames ==
  ASSUME IInv, file' = Export
  PROVE  /\ Chosen' = {tree[i] : i \in selected \cap DOMAIN tree}
         /\ volume.ids # "traversal" =>
              /\ \A e \in file' : e.id = e.node /\ e.node \in volume.nodes
              /\ Chosen' \subseteq volume.nodes
<1>1. file' = {[id |-> i, node |-> tree[i]] : i \in selected \cap DOMAIN tree}
  BY DEF Export
<1>2. Chosen' = {e.node : e \in file'}
  BY DEF Chosen
<1>3. Chosen' = {tree[i] : i \in selected \cap DOMAIN tree}
  <2>1. \A e \in file' : \E i \in selected \cap DOMAIN tree : e.node = tree[i]
    BY <1>1
  <2>2. ASSUME NEW i \in selected \cap DOMAIN tree PROVE \E e \in file' : e.node = tree[i]
    <3>1. [id |-> i, node |-> tree[i]] \in file'
      BY <1>1
    <3> QED BY <3>1
  <2> QED BY <1>2, <2>1, <2>2
<1>4. ASSUME volume.ids # "traversal", NEW e \in file'
      PROVE  e.id = e.node /\ e.node \in volume.nodes
  <2>1. PICK i \in selected \cap DOMAIN tree : e = [id |-> i, node |-> tree[i]]
    BY <1>1
  <2>2. tree[i] = i /\ i \in volume.nodes
    BY <1>4 DEF IInv, IdsStand
  <2> QED BY <2>1, <2>2
<1>5. volume.ids # "traversal" => Chosen' \subseteq volume.nodes
  BY <1>2, <1>4
<1> QED BY <1>3, <1>4, <1>5

\* The ids of a selection file lead to the chosen nodes, where they are numbers
\* of the volume: to those that the tree has.
LEMMA ImportLeadsToChosen ==
  ASSUME IInv, volume.ids # "traversal"
  PROVE  LET t == Tree(FALSE) IN
         {t[i] : i \in Import \cap DOMAIN t} = Chosen \cap Records(FALSE)
<1>1. DOMAIN Tree(FALSE) = Records(FALSE) /\ \A i \in Records(FALSE) : Tree(FALSE)[i] = i
  BY TreeHasRecords, VolumeNodes
<1>2. Import = Chosen
  BY DEF IInv, IdsStand, Import, Chosen
<1> QED BY <1>1, <1>2

\* recover and extract take what is below the chosen nodes in their tree, where
\* an id is a number of the volume or still leads where it led.
LEMMA RecoverTakesBelow ==
  ASSUME IInv, volume.ids # "traversal" \/ SameIds
  PROVE  LET t == Tree(FALSE) IN
         {t[i] : i \in Expand(Import, t)} = Below(Chosen, Records(FALSE))
<1> DEFINE t == Tree(FALSE)
           known == {t[i] : i \in Import \cap DOMAIN t}
<1>1. NodesOf(t) = Records(FALSE)
  BY TreeHasRecords, VolumeNodes
<1>2. {t[i] : i \in Expand(Import, t)} = Below(known, Records(FALSE))
  BY <1>1, ExpandTakesBelow
<1>3. CASE volume.ids # "traversal"
  <2>1. known = Chosen \cap Records(FALSE)
    BY <1>3, ImportLeadsToChosen
  <2>2. Below(Chosen \cap Records(FALSE), Records(FALSE)) = Below(Chosen, Records(FALSE))
    BY DEF Below
  <2> QED BY <1>2, <2>1, <2>2
<1>4. CASE volume.ids = "traversal" /\ SameIds
  <2>1. \A e \in file : e.id \in DOMAIN t /\ t[e.id] = e.node
    BY <1>4 DEF SameIds
  <2>2. known = Chosen
    <3> HIDE DEF t
    <3> QED BY <2>1 DEF Import, Chosen
  <2> QED BY <1>2, <2>2
<1> QED BY <1>3, <1>4

\* The invariant of browsing, saving, loading and recovering.
THEOREM SelectionInvariant == Spec => []IInv
<1>1. Init => IInv
  BY VolumeAssumption DEF Init, IInv, BoxesAreSelection, IdsStand, NothingUnchosen, Nothing
<1>2. IInv /\ [Next]_vars => IInv'
  <2> SUFFICES ASSUME IInv, [Next]_vars PROVE IInv'
    OBVIOUS
  <2>0. /\ Screen.box \in [DOMAIN Screen.box -> BOOLEAN]
        /\ Screen.selected = {i \in DOMAIN Screen.box : Screen.box[i]}
    BY DEF IInv, BoxesAreSelection, Screen
  <2>1. CASE MoreImage
    <3>1. shown \subseteq shown' /\ shown' \subseteq volume.nodes
      BY <2>1 DEF MoreImage, IInv
    <3> QED BY <2>1, <3>1, RestKept DEF MoreImage, IInv, BoxesAreSelection, IdsStand
  <2>2. ASSUME NEW d \in ShowDeleted, Browse(d) PROVE IInv'
    <3>1. d \in BOOLEAN
      BY VolumeAssumption
    <3>2. volume.ids # "traversal" => \A i \in DOMAIN tree' : tree'[i] = i /\ i \in volume.nodes
      BY <2>2, <3>1, TreeHasRecords, VolumeNodes DEF Browse
    <3>3. box' \in [DOMAIN box' -> BOOLEAN] /\ BoxesAreSelection'
      BY <2>2 DEF Browse, BoxesAreSelection
    <3> QED BY <2>2, <3>2, <3>3, RestKept DEF Browse, IInv, IdsStand
  <2>3. ASSUME NEW i \in DOMAIN box, ToggleSelect(i) PROVE IInv'
    <3>1. (~box[i]) \in BOOLEAN
      BY DEF IInv
    <3> QED BY <2>0, <2>3, <3>1, ScreenStep DEF ToggleSelect
  <2>4. CASE SelectAll
    BY <2>0, <2>4, ScreenStep DEF SelectAll
  <2>5. CASE UnselectAll
    BY <2>0, <2>5, ScreenStep DEF UnselectAll
  <2>6. CASE LoadSelection
    <3> DEFINE clear == Forced(Screen, selected, FALSE)
    <3>1. /\ clear.box \in [DOMAIN clear.box -> BOOLEAN]
          /\ clear.selected = {i \in DOMAIN clear.box : clear.box[i]}
      BY <2>0, ForcedKeepsTicks
    <3>2. Becomes(Forced(clear, Expand(Import, tree), TRUE))
          /\ UNCHANGED <<volume, shown, tree, file, recovered>>
      BY <2>6 DEF LoadSelection
    <3> HIDE DEF clear
    <3> QED BY <3>1, <3>2, ScreenStep
  <2>7. CASE SaveSelection
    <3>1. NothingUnchosen'
      BY <2>7, ChosenAt DEF SaveSelection
    <3> QED BY <2>7, <3>1, ExportNames DEF SaveSelection, IInv, BoxesAreSelection, IdsStand
  <2>8. ASSUME NEW nodes, Close(nodes)
        PROVE  /\ UNCHANGED <<volume, shown>> /\ recovered' = nodes
               /\ box' \in [DOMAIN box' -> BOOLEAN] /\ BoxesAreSelection' /\ tree' = <<>>
    BY <2>8 DEF Close, BoxesAreSelection, Nothing
  <2>9. CASE StartRecovery
    <3>1. PICK proceed \in BOOLEAN :
            Close(IF proceed THEN {tree[i] : i \in selected \cap DOMAIN tree} ELSE {})
      BY <2>9 DEF StartRecovery
    <3>2. file' = Export /\ recovered' \subseteq Chosen' /\ UNCHANGED <<volume, shown>>
      BY <2>8, <2>9, <3>1, ExportNames DEF StartRecovery
    <3>3. NothingUnchosen'
      <4>1. CASE volume.ids = "traversal"
        BY <3>2, <4>1 DEF NothingUnchosen
      <4>2. CASE volume.ids # "traversal"
        <5>1. Chosen' \subseteq volume.nodes
          BY <3>2, <4>2, ExportNames
        <5>2. Chosen' \subseteq Below(Chosen', volume.nodes)
          BY <5>1, BelowLeast
        <5> QED BY <3>2, <5>2, ChosenAt
      <4> QED BY <4>1, <4>2
    <3> QED BY <2>8, <3>1, <3>2, <3>3, ExportNames DEF IInv, IdsStand
  <2>10. CASE Quit
    <3>1. Close(recovered) /\ file' = file
      BY <2>10 DEF Quit
    <3> QED BY <2>8, <3>1, RestKept DEF IInv, IdsStand
  <2>11. CASE RecoverFile
    <3>1. UNCHANGED <<volume, shown, tree, box, selected, file>>
          /\ recovered' = {Tree(FALSE)[i] : i \in Expand(Import, Tree(FALSE))}
      BY <2>11 DEF RecoverFile
    <3>2. NothingUnchosen'
      <4>1. CASE volume.ids = "traversal"
        BY <3>1, <4>1 DEF NothingUnchosen
      <4>2. CASE volume.ids # "traversal"
        <5>1. recovered' = Below(Chosen, Records(FALSE))
          BY <3>1, <4>2, RecoverTakesBelow
        <5>2. Chosen \cap Records(FALSE) \subseteq Below(Chosen, volume.nodes)
          BY BelowLeast, VolumeNodes
        <5>3. recovered' \subseteq Below(Chosen, volume.nodes)
          BY <5>1, <5>2, BelowGrows, VolumeNodes
        <5>4. Chosen' = Chosen
          BY <3>1 DEF Chosen
        <5> QED BY <3>1, <5>3, <5>4, ChosenAt
      <4> QED BY <4>1, <4>2
    <3> QED BY <3>1, <3>2 DEF IInv, BoxesAreSelection, IdsStand
  <2>12. CASE UNCHANGED vars
    BY <2>12, RestKept DEF vars, IInv, BoxesAreSelection, IdsStand
  <2> QED
    BY <2>1, <2>2, <2>3, <2>4, <2>5, <2>6, <2>7, <2>9, <2>10, <2>11, <2>12 DEF Next
<1> QED BY <1>1, <1>2, PTL DEF Spec

\* What is ticked on the screen is what will be recovered (_toggle_record, and
\* the actions that call it).
THEOREM SelectionBoxesAreSelection == Spec => []BoxesAreSelection
<1>1. IInv => BoxesAreSelection
  BY DEF IInv
<1> QED BY <1>1, SelectionInvariant, PTL

\* No command recovers what was not chosen, nor is in a directory that was, on
\* NTFS and ext (cmd_recover, cmd_extract, run_browser).
THEOREM SelectionNothingUnchosen == Spec => []NothingUnchosen
<1>1. IInv => NothingUnchosen
  BY DEF IInv
<1> QED BY <1>1, SelectionInvariant, PTL

\* recover and extract take all of the chosen that their tree has, with all
\* that is below it (collect_selection_with_children).
THEOREM SelectionRecoversWithChildren == Spec => RecoversWithChildren
<1>1. IInv /\ [Next]_vars =>
        [RecoverFile /\ SameIds => recovered' = Below(Chosen, Records(FALSE))]_vars
  BY RecoverTakesBelow DEF RecoverFile
<1> QED BY <1>1, SelectionInvariant, PTL DEF Spec, RecoversWithChildren
=============================================================================
