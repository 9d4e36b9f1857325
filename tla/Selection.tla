----------------------------- MODULE Selection -----------------------------
(***************************************************************************)
(* Choosing files: the tree that the image shows, the browser on it        *)
(* (tui/browser.py), the selection file (selection.py), and the commands   *)
(* browse, recover and extract that go from one to the other.  Every       *)
(* command parses the image anew.  A file is known by its record id: the   *)
(* MFT or inode number or, on FAT and exFAT, its place in the traversal.   *)
(* The nodes of a volume are numbered in the order of the traversal; the   *)
(* number of a node is also its MFT or inode number.                       *)
(***************************************************************************)
EXTENDS Integers, FiniteSets

CONSTANTS Volumes,       \* see VolumeAssumption
          ShowDeleted    \* the values of --show-deleted

Root == 5

ASSUME VolumeAssumption ==
  /\ ShowDeleted \subseteq BOOLEAN
  /\ \A v \in Volumes :
       /\ v.ids \in {"record", "inode", "traversal"}   \* NTFS; ext; FAT, exFAT
       /\ v.nodes \subseteq Nat /\ Root \in v.nodes /\ \A n \in v.nodes : Root <= n
       /\ v.dirs \subseteq v.nodes /\ v.deleted \subseteq v.nodes \ {Root}
       /\ v.parent \in [v.nodes -> Nat]

VARIABLES volume,
          shown,      \* the nodes whose record or entry is in the image
          pc,
          tree,       \* all_records: of each id, the node
          box,        \* FileTreeData.selected of the nodes of the widget
          selected,   \* selected_indices
          file,       \* selection.json: of each entry, the id and its path
          recovered   \* the nodes given to _do_recover or extract_selected

vars == <<volume, shown, pc, tree, box, selected, file, recovered>>

-----------------------------------------------------------------------------
\* A set of nodes that has what its directories list, in a tree of the nodes within.
Closed(s, within) ==
  \A n \in within : n # Root /\ volume.parent[n] \in s \cap volume.dirs => n \in s

\* Everything at or below the nodes ns: the least such set, which a walk down,
\* or a pass over the records that is repeated until nothing is added, ends with.
Below(ns, within) ==
  {n \in within : \A s \in SUBSET within :
                    ns \cap within \subseteq s /\ Closed(s, within) => n \in s}

\* The records of a tree.  An MFT record is one whether its parent is known or
\* not; the entries of FAT, exFAT and ext are met on the way down from the root.
Records(with_deleted) ==
  LET live == {n \in shown : n \in volume.deleted => with_deleted} \cup {Root} IN
  IF volume.ids = "record" THEN live ELSE Below({Root}, live)

\* Seeded fault: the place in the list of records instead of the MFT number.
IdByPlace(n, records) == Root + Cardinality({m \in records : m < n})

Id(n, records) ==
  IF volume.ids = "traversal" THEN Root + Cardinality({m \in records : m < n}) ELSE n

\* _parse_filesystem
Tree(with_deleted) ==
  LET records == Records(with_deleted)
      ids == {Id(n, records) : n \in records}
  IN  [i \in ids |-> CHOOSE n \in records : Id(n, records) = i]

NodesOf(t)       == {t[i] : i \in DOMAIN t}
IdsOf(t, nodes)  == {i \in DOMAIN t : t[i] \in nodes}
\* _node_map: what can be reached from the root.
Widget(t)        == IdsOf(t, Below({Root}, NodesOf(t)))

\* Seeded fault: children that the directory lists are left out.
ExpandNot(ids, t) == ids \cap DOMAIN t

\* collect_selection_with_children
Expand(ids, t) ==
  LET known == ids \cap DOMAIN t IN
  known \cup IdsOf(t, Below({t[i] : i \in known} \cap volume.dirs, NodesOf(t)))

\* Seeded fault: a box that is cleared stays among the selected.
ForcedKeeps(s, ids, on) ==
  LET changed == {i \in ids \cap DOMAIN s.box : s.box[i] # on} IN
  [box      |-> [i \in DOMAIN s.box |-> IF i \in changed THEN on ELSE s.box[i]],
   selected |-> IF on THEN s.selected \cup changed ELSE s.selected]

\* _toggle_record with force, for each of some ids: only nodes of the widget
\* whose box is not as wanted are changed.
Forced(s, ids, on) ==
  LET changed == {i \in ids \cap DOMAIN s.box : s.box[i] # on} IN
  [box      |-> [i \in DOMAIN s.box |-> IF i \in changed THEN on ELSE s.box[i]],
   selected |-> IF on THEN s.selected \cup changed ELSE s.selected \ changed]

Screen     == [box |-> box, selected |-> selected]
Becomes(s) == box' = s.box /\ selected' = s.selected

\* export_selection
Export == {[id |-> i, node |-> tree[i]] : i \in selected \cap DOMAIN tree}

\* import_selection: only the ids are used.
Import == {e.id : e \in file}

Nothing == [i \in {} |-> FALSE]

-----------------------------------------------------------------------------
Init ==
  /\ volume \in Volumes
  /\ shown \in {s \in SUBSET volume.nodes : Root \in s}
  /\ pc = "shell" /\ tree = <<>> /\ box = Nothing /\ selected = {}
  /\ file = {} /\ recovered = {}

\* Another bootstrap or recovery: the image shows more.
MoreImage ==
  /\ pc = "shell"
  /\ \E more \in SUBSET (volume.nodes \ shown) : more # {} /\ shown' = shown \cup more
  /\ UNCHANGED <<volume, pc, tree, box, selected, file, recovered>>

\* cmd_browse, cmd_interactive: the browser starts on a fresh tree.
Browse(with_deleted) ==
  /\ pc = "shell"
  /\ tree' = Tree(with_deleted)
  /\ box' = [i \in Widget(tree') |-> FALSE]
  /\ selected' = {} /\ pc' = "browser"
  /\ UNCHANGED <<volume, shown, file, recovered>>

\* action_toggle_select: a directory takes all that is below it along.
ToggleSelect(i) ==
  /\ pc = "browser" /\ i \in DOMAIN box
  /\ Becomes(Forced(Screen, IF tree[i] \in volume.dirs
                           THEN IdsOf(tree, Below({tree[i]}, NodesOf(tree))) ELSE {i},
                   ~box[i]))
  /\ UNCHANGED <<volume, shown, pc, tree, file, recovered>>

SelectAll ==
  /\ pc = "browser"
  /\ Becomes(Forced(Screen, DOMAIN tree, TRUE))
  /\ UNCHANGED <<volume, shown, pc, tree, file, recovered>>

UnselectAll ==
  /\ pc = "browser"
  /\ Becomes(Forced(Screen, selected, FALSE))
  /\ UNCHANGED <<volume, shown, pc, tree, file, recovered>>

SaveSelection ==
  /\ pc = "browser" /\ selected # {}
  /\ file' = Export /\ recovered' = {}
  /\ UNCHANGED <<volume, shown, pc, tree, box, selected>>

LoadSelection ==
  /\ pc = "browser" /\ file # {}
  /\ Becomes(Forced(Forced(Screen, selected, FALSE), Expand(Import, tree), TRUE))
  /\ UNCHANGED <<volume, shown, pc, tree, file, recovered>>

Close(nodes) ==
  /\ pc' = "shell" /\ tree' = <<>> /\ box' = Nothing /\ selected' = {}
  /\ recovered' = nodes
  /\ UNCHANGED <<volume, shown>>

\* run_browser returns the selection: it is saved, and recovered or not.
StartRecovery ==
  /\ pc = "browser" /\ selected # {}
  /\ file' = Export
  /\ \E proceed \in BOOLEAN :
       Close(IF proceed THEN {tree[i] : i \in selected \cap DOMAIN tree} ELSE {})

Quit ==
  /\ pc = "browser"
  /\ Close(recovered)
  /\ UNCHANGED file

\* cmd_recover, cmd_extract: deleted entries are not in their tree.
RecoverFile ==
  /\ pc = "shell" /\ file # {}
  /\ LET t == Tree(FALSE) IN recovered' = {t[i] : i \in Expand(Import, t)}
  /\ UNCHANGED <<volume, shown, pc, tree, box, selected, file>>

Next ==
  \/ MoreImage
  \/ \E d \in ShowDeleted : Browse(d)
  \/ \E i \in DOMAIN box : ToggleSelect(i)
  \/ SelectAll \/ UnselectAll \/ SaveSelection \/ LoadSelection
  \/ StartRecovery \/ Quit \/ RecoverFile

Spec == Init /\ [][Next]_vars

-----------------------------------------------------------------------------
\* What is ticked on the screen is what will be recovered, after any sequence
\* of toggles, loads and saves.
BoxesAreSelection == selected = {i \in DOMAIN box : box[i]}

Chosen == {e.node : e \in file}

\* No file is recovered that was not chosen, or is in a directory that was:
\* whatever was read from the drive between choosing and recovering.  It holds
\* where an id is a number of the volume; a place in the traversal is not one.
NothingUnchosen ==
  volume.ids # "traversal" => recovered \subseteq Below(Chosen, volume.nodes)

\* The entries of the file still have the ids they were saved with.
SameIds ==
  LET t == Tree(FALSE) IN
  volume.ids = "traversal" =>
    \A e \in file : e.id \in DOMAIN t /\ t[e.id] = e.node

\* recover and extract take all of the selection file that is not deleted, and
\* the files of its directories, those found since it was saved included; on FAT
\* and exFAT, as long as the traversal gives the same ids.
RecoversWithChildren ==
  [][RecoverFile /\ SameIds => recovered' = Below(Chosen, Records(FALSE))]_vars

-----------------------------------------------------------------------------
\* Where an id is a number of the volume, it leads to one node in every tree.
IdsStand ==
  volume.ids # "traversal" =>
    /\ \A i \in DOMAIN tree : tree[i] = i /\ i \in volume.nodes
    /\ \A e \in file : e.id = e.node /\ e.node \in volume.nodes

\* The inductive invariant of the proofs.
IInv ==
  /\ volume \in Volumes /\ Root \in shown /\ shown \subseteq volume.nodes
  /\ box \in [DOMAIN box -> BOOLEAN]
  /\ BoxesAreSelection /\ IdsStand /\ NothingUnchosen
=============================================================================
