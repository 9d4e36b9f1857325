------------------------------- MODULE FatTree -------------------------------
(***************************************************************************)
(* build_fat_tree of fat32/tree.py and build_exfat_tree of exfat/tree.py:  *)
(* from the root down, for every directory entry the chain is followed     *)
(* (FatChain), and if it is a directory its slots are read from the runs   *)
(* and parsed (FatDirectory).  Before that a volume lives: files and       *)
(* directories are made, moved and deleted by whoever used it, and the     *)
(* image is taken with slots, table sectors or its end missing.            *)
(***************************************************************************)
EXTENDS FatChain, FatDirectory

CONSTANTS Root,             \* the number of the root directory
          SlotsPerCluster,
          LastCluster,
          MaxSize,          \* max_size, in slots
          MaxDepth,         \* the depth limit, 64
          Damages,          \* [lost, unread, image_end]
          MaxOps            \* changes of the volume: a bound of the model

SlotCount == (LastCluster - 1) * SlotsPerCluster

\* What an image may lack: slots, table sectors, its end.
Damage == [lost : SUBSET (1..SlotCount), unread : SUBSET Nat, image_end : 0..SlotCount]

ASSUME FatTreeAssumption ==
  /\ MaxSize \in Nat \ {0} /\ MaxDepth \in Nat /\ SlotsPerCluster \in Nat \ {0}
  /\ LastCluster \in Nat \ {0} /\ LastCluster < BAD
  /\ Root \in DOMAIN Files /\ Files[Root].dir /\ ~Files[Root].contiguous
  /\ Files[Root].clusters # <<>>
  /\ \A f \in DOMAIN Files : ToSet(Files[f].clusters) \subseteq 2..LastCluster
  /\ Damages \subseteq Damage

VARIABLES phase,            \* "volume", "tree", "end"
          fs, slots,        \* the volume: slots[p] is slot p of the data area
          ops,
          lost, image_end,  \* the slots that were not read; how many there are
          show,             \* include_deleted
          entry,            \* the entry whose chain is followed
          stack,            \* the directories above it and their entries to come
          records

chain     == <<pc, input, current, run_start, run_count, visited, runs>>
volume    == <<fs, slots, ops>>
image     == <<lost, image_end, show>>
tree_vars == <<phase, chain, volume, image, entry, stack, records>>

RootEntry ==
  [file |-> Root, dir |-> TRUE, deleted |-> FALSE, name |-> <<>>,
   start_cluster |-> Files[Root].clusters[1], contiguous |-> FALSE]

\* Any table, torn or stale, of a volume without files; or a new volume.
TreeInit ==
  /\ Init
  /\ entry = RootEntry /\ stack = <<>> /\ records = <<>> /\ ops = 0
  /\ slots = [p \in 1..SlotCount |-> IF p = (RootEntry.start_cluster - 2) * SlotsPerCluster + 1
                                     THEN Label ELSE Zero]
  /\ lost = {} /\ image_end = SlotCount
  /\ \/ phase = "tree" /\ fs = "fat32" /\ show = FALSE
     \/ /\ start_cluster = 0 /\ unread = {} /\ fat = CHOOSE t \in Tables : TRUE
        /\ geometry = CHOOSE g \in Geometries : TRUE
        /\ phase = "volume" /\ fs \in {"fat16", "fat32", "exfat"} /\ show \in BOOLEAN

-----------------------------------------------------------------------------
(* The volume, whoever used it.                                            *)

Contiguous(f) == fs = "exfat" /\ Files[f].contiguous

\* The slots of a directory, in their order.
Positions(f) ==
  [i \in 1 .. (Len(Files[f].clusters) * SlotsPerCluster) |->
     LET cluster == Files[f].clusters[((i - 1) \div SlotsPerCluster) + 1]
     IN  (cluster - 2) * SlotsPerCluster + ((i - 1) % SlotsPerCluster) + 1]

IsOf(p, f) == slots[p].file = f /\ ~slots[p].deleted
Live == {Root} \cup {f \in DOMAIN Files : \E p \in DOMAIN slots : IsOf(p, f)}
LiveDirs == {d \in Live : Files[d].dir}
Home(f) == CHOOSE d \in LiveDirs : \E p \in ToSet(Positions(d)) : IsOf(p, f)

\* The directories above f, the root last.
AboveWithin[n \in Nat] ==
  [f \in Live |-> IF f = Root \/ n = 0 THEN <<>>
                  ELSE <<Home(f)>> \o AboveWithin[n - 1][Home(f)]]
Above(f) == AboveWithin[Cardinality(DOMAIN Files)][f]

SetOf(f) ==
  LET n == Files[f].parts
  IN  IF fs = "exfat"
      THEN <<Slot("file", f, 0), Slot("stream", f, 0)>> \o [k \in 1..n |-> Slot("name", f, k)]
      ELSE [k \in 1..n |-> Slot("lfn", f, n + 1 - k)] \o <<Slot("short", f, 0)>>

\* The first places in d where n slots in a row are free.
Free(p) == slots[p].kind = "zero" \/ slots[p].deleted
Places(d, n) ==
  {i \in DOMAIN Positions(d) :
     /\ i + n - 1 <= Len(Positions(d))
     /\ \A k \in i .. (i + n - 1) : Free(Positions(d)[k])}

Entered(table, f, d) ==
  LET at == Min(Places(d, Len(SetOf(f))))
      of == [p \in {Positions(d)[at + k - 1] : k \in DOMAIN SetOf(f)} |->
               CHOOSE k \in DOMAIN SetOf(f) : Positions(d)[at + k - 1] = p]
  IN  [p \in DOMAIN table |-> IF p \in DOMAIN of THEN SetOf(f)[of[p]] ELSE table[p]]

Erased(f) ==
  [p \in DOMAIN slots |->
     IF slots[p].file = f THEN [slots[p] EXCEPT !.deleted = TRUE] ELSE slots[p]]

\* The clusters of a new directory are cleared.
Cleared(f) ==
  LET mine == IF Files[f].dir THEN Positions(f) ELSE <<>>
  IN  [p \in DOMAIN slots |->
         IF p \notin ToSet(mine) THEN slots[p]
         ELSE IF fs # "exfat" /\ p \in {mine[1], mine[2]} THEN Dot ELSE Zero]

Change(table) ==
  /\ phase = "volume" /\ ops < MaxOps
  /\ ops' = ops + 1 /\ slots' = table
  /\ UNCHANGED <<phase, chain, fs, image, entry, stack, records>>

InUse == UNION {ToSet(Files[f].clusters) : f \in Live}

Create(f, d) ==
  /\ f \notin Live /\ ToSet(Files[f].clusters) \cap InUse = {}
  /\ fs = "exfat" => Files[f].parts > 0
  /\ Places(d, Len(SetOf(f))) # {}
  /\ Change(Entered(Cleared(f), f, d))

Delete(f) ==
  /\ \A g \in Live \ {Root} : Home(g) # f
  /\ Change(Erased(f))

Move(f, d) ==
  /\ d # Home(f) /\ d # f /\ f \notin ToSet(Above(d))
  /\ Places(d, Len(SetOf(f))) # {}
  /\ Change(Entered(Erased(f), f, d))

\* The table links the clusters of what is there; a contiguous file has no chain.
TableOf ==
  LET chained == {f \in Live : ~Contiguous(f)}
      after(f, c) == LET i == CHOOSE i \in DOMAIN Files[f].clusters : Files[f].clusters[i] = c
                     IN  IF i = Len(Files[f].clusters) THEN EOC ELSE Files[f].clusters[i + 1]
  IN  [c \in 2..LastCluster |->
         IF \E f \in chained : c \in ToSet(Files[f].clusters)
         THEN after(CHOOSE f \in chained : c \in ToSet(Files[f].clusters), c) ELSE 0]

\* The image is taken.
Read ==
  /\ phase = "volume"
  /\ \E damage \in Damages :
       lost' = damage.lost /\ unread' = damage.unread /\ image_end' = damage.image_end
  /\ fat' = TableOf /\ start_cluster' = RootEntry.start_cluster
  /\ phase' = "tree"
  /\ pc' = IF fs = "fat16" THEN "known" ELSE "start"
  /\ UNCHANGED <<geometry, current, run_start, run_count, visited, runs,
                 volume, show, entry, stack, records>>

-----------------------------------------------------------------------------
(* The image and the tree.                                                 *)

Sector(p) == IF p \in lost THEN Zero ELSE slots[p]

\* A run is read as far as the image goes.
Chunk(run) ==
  LET first == (run.cluster - 2) * SlotsPerCluster
      last  == Min({first + run.count * SlotsPerCluster, image_end})
  IN  [i \in 1 .. Max({last - first, 0}) |-> Sector(first + i)]

WithRun(data, run) == IF Len(data) >= MaxSize THEN data ELSE data \o Chunk(run)

\* _read_cluster_chain; the fixed root of FAT12/16 is read as a whole or not.
DirectoryData ==
  IF fs = "fat16" /\ entry.file = Root
  THEN LET area == Positions(Root)
       IN  IF \E i \in DOMAIN area : area[i] > image_end THEN <<>>
           ELSE [i \in DOMAIN area |-> Sector(area[i])]
  ELSE LET data[k \in 0..Len(runs)] ==
             IF k = 0 THEN <<>> ELSE WithRun(data[k - 1], runs[k])
       IN  data[Len(runs)]

ParseDirectory(data) == IF fs = "exfat" THEN ExfatEntries(data) ELSE FatEntries(data)

FollowChain == phase = "tree" /\ Next /\ UNCHANGED <<phase, volume, image, entry, stack, records>>

\* The chain of an entry is known: its record, and its directory is read unless
\* it is below the limit of depth.
AddRecord ==
  /\ phase = "tree" /\ pc \in {"done", "known"}
  /\ records' = Append(records, [entry |-> entry, runs |-> IF stack = <<>> THEN <<>> ELSE runs,
                                 parent |-> IF stack = <<>> THEN 1 ELSE Last(stack).id])
  /\ stack' = IF entry.dir /\ Len(stack) <= MaxDepth
              THEN Append(stack, [id |-> Len(records) + 1, entries |-> ParseDirectory(DirectoryData)])
              ELSE stack
  /\ pc' = "entries"
  /\ UNCHANGED <<phase, input, current, run_start, run_count, visited, runs, volume, image, entry>>

InDirectory == phase = "tree" /\ pc = "entries" /\ stack # <<>>
Entries == Last(stack).entries
Popped == [stack EXCEPT ![Len(stack)].entries = Tail(@)]

SkipDeleted ==
  /\ InDirectory /\ Entries # <<>> /\ Head(Entries).deleted /\ ~show
  /\ stack' = Popped
  /\ UNCHANGED <<phase, chain, volume, image, entry, records>>

\* A contiguous file has its run from the entry.
TakeEntry ==
  /\ InDirectory /\ Entries # <<>> /\ (Head(Entries).deleted => show)
  /\ entry' = Head(Entries) /\ stack' = Popped
  /\ start_cluster' = entry'.start_cluster
  /\ current' = 0 /\ run_start' = 0 /\ run_count' = 0 /\ visited' = 0
  /\ IF fs = "exfat" /\ entry'.contiguous
     THEN /\ pc' = "known"
          /\ runs' = <<Run(start_cluster', Len(Files[entry'.file].clusters))>>
     ELSE pc' = "start" /\ runs' = <<>>
  /\ UNCHANGED <<phase, fat, unread, geometry, volume, image, records>>

LeaveDirectory ==
  /\ InDirectory /\ Entries = <<>>
  /\ stack' = Front(stack)
  /\ phase' = IF Len(stack) = 1 THEN "end" ELSE "tree"
  /\ UNCHANGED <<chain, volume, image, entry, records>>

TreeNext ==
  \/ phase = "volume" /\ \E f \in DOMAIN Files \ {Root} :
       \/ \E d \in LiveDirs : Create(f, d)
       \/ f \in Live /\ Delete(f)
       \/ f \in Live /\ \E d \in LiveDirs : Move(f, d)
  \/ Read
  \/ FollowChain \/ AddRecord \/ SkipDeleted \/ TakeEntry \/ LeaveDirectory

TreeSpec == TreeInit /\ [][TreeNext]_tree_vars

-----------------------------------------------------------------------------
Built == phase = "end"

\* A record and those above it, but for the first.
Path[i \in DOMAIN records] ==
  IF i = 1 THEN {} ELSE {i} \cup Path[records[i].parent]

\* The records that are not deleted, nor below one that is.
InTree == {i \in DOMAIN records : \A j \in Path[i] : ~records[j].entry.deleted}

NameOf(f) ==
  IF Files[f].parts = 0 THEN <<Part(f, 0)>> ELSE [k \in 1..Files[f].parts |-> Part(f, k)]

\* Every slot of the directory of f up to its own was read, and the table sectors
\* that lead there; and neither its size nor its chain is above the limits.
IsRead(f) ==
  LET d    == Home(f)
      at   == Positions(d)
      last == Max({i \in DOMAIN at : IsOf(at[i], f)})
  IN  /\ \A i \in 1..last : at[i] \notin lost /\ at[i] <= image_end
      /\ IF fs = "fat16" /\ d = Root THEN \A i \in DOMAIN at : at[i] <= image_end
         ELSE /\ last <= MaxSize
              /\ \/ Contiguous(d)
                 \/ /\ Len(Files[d].clusters) <= MaxClusters
                    /\ \A i \in 1 .. ((last - 1) \div SlotsPerCluster) :
                         Files[d].clusters[i] \notin unread

\* Those no more than n directories below the root whose way was read.
Reached[n \in 0 .. (MaxDepth + 1)] ==
  IF n = 0 THEN {Root}
  ELSE LET above == Reached[n - 1]
       IN  above \cup {f \in Live \ {Root} : Home(f) \in above /\ IsRead(f)}

\* The end of the image cuts the data of d before its last cluster: what follows
\* is read as if it stood there.
Glued(d) ==
  LET at == Positions(d)
  IN  \E i, j \in DOMAIN at : i < j /\ at[i] > image_end /\ at[j] <= image_end

\* Every file in use whose slots were read is in the tree, under the directory it
\* is in and with its whole name and its clusters, whatever was made, moved and
\* deleted before, and whether deleted entries are shown or not; and it is there
\* once, unless slots of two clusters are read as if they were one.
LiveListed ==
  Built => \A f \in Reached[MaxDepth + 1] \ {Root} :
    \E i \in InTree :
      /\ records[i].entry.file = f
      /\ records[records[i].parent].entry.file = Home(f)
      /\ records[i].entry.name = NameOf(f)
      /\ Len(Files[f].clusters) <= MaxClusters /\ ToSet(Files[f].clusters) \cap unread = {}
           => ClustersOf(records[i].runs) = Files[f].clusters
      /\ (\A d \in LiveDirs : ~Glued(d)) => \A j \in InTree : records[j].entry.file = f => j = i

\* Nothing else is in the tree: what was not read neither gives a file the name
\* of another nor another place.  A name of exFAT may end where a slot was lost.
NothingInvented ==
  Built /\ (\A d \in LiveDirs : ~Glued(d)) =>
    \A i \in InTree \ {1} :
      /\ records[i].entry.file \in Live
      /\ records[records[i].parent].entry.file = Home(records[i].entry.file)
      /\ IsPrefix(records[i].entry.name, NameOf(records[i].entry.file))
      /\ fs # "exfat" => records[i].entry.name = NameOf(records[i].entry.file)
=============================================================================
