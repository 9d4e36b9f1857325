------------------------------ MODULE FatChain ------------------------------
(***************************************************************************)
(* FATTable.follow_chain and chain_to_data_runs of fat32/fat_table.py: the *)
(* clusters of a file, as the FAT in the image links them, become the runs *)
(* recovery and extraction read.  exfat/fat_table.py has the same loop.    *)
(* A FAT sector that was not read from the disk is zero in the image.      *)
(***************************************************************************)
EXTENDS Integers, Sequences, FiniteSets, SequencesExt

CONSTANTS MaxClusters,  \* max_clusters, 1 000 000
          Tables,       \* FATs: functions from the clusters 2..n to their entries
          UnreadSets,   \* sets of clusters whose entry is in an unread sector
          Geometries    \* [data_start, cluster_size], in sectors

\* The marks are above every cluster; entries below 2 mean free or reserved.
CONSTANTS BAD, EOC

Geometry == [data_start : Nat, cluster_size : Nat \ {0}]

ASSUME FatChainAssumption ==
  /\ MaxClusters \in Nat /\ BAD \in Nat /\ EOC \in Nat /\ BAD < EOC
  /\ \A t \in Tables : DOMAIN t \subseteq Nat /\ \A c \in DOMAIN t : t[c] \in Nat
  /\ Geometries \subseteq Geometry

VARIABLES pc,                     \* "start", "loop", "done"
          fat, unread, geometry,  \* the table, what is unread of it, the volume
          start_cluster,          \* the first cluster, from the directory entry
          current, run_start, run_count, visited, runs

input == <<fat, unread, geometry, start_cluster>>
vars == <<pc, input, current, run_start, run_count, visited, runs>>

\* A run: its first cluster and how many there are.
Run(c, n) == [cluster |-> c, count |-> n]

Init ==
  /\ pc = "start"
  /\ fat \in Tables
  /\ unread \in UnreadSets
  /\ geometry \in Geometries
  /\ start_cluster \in {0} \cup DOMAIN fat
  /\ current = 0 /\ run_start = 0 /\ run_count = 0 /\ visited = 0
  /\ runs = <<>>

\* get_entry: past the end of what was read of the table, the chain ends.
Entry(c) == IF c \notin DOMAIN fat THEN EOC ELSE IF c \in unread THEN 0 ELSE fat[c]

\* is_eoc, is_bad or next_entry < 2.
Ends(e) == e >= EOC \/ e = BAD \/ e < 2

NoChain ==
  /\ pc = "start" /\ start_cluster < 2
  /\ pc' = "done"
  /\ UNCHANGED <<input, current, run_start, run_count, visited, runs>>

Begin ==
  /\ pc = "start" /\ start_cluster >= 2
  /\ current' = start_cluster /\ run_start' = start_cluster
  /\ run_count' = 1
  /\ pc' = "loop"
  /\ UNCHANGED <<input, visited, runs>>

\* Seeded fault: the last cluster the limit allows is not looked at.
LookingOneShort == pc = "loop" /\ visited + 1 < MaxClusters

Looking == pc = "loop" /\ visited < MaxClusters

EndChain ==
  /\ Looking /\ Ends(Entry(current))
  /\ runs' = Append(runs, Run(run_start, run_count))
  /\ visited' = visited + 1
  /\ pc' = "done"
  /\ UNCHANGED <<input, current, run_start, run_count>>

\* Seeded fault: a run is extended whenever the chain goes forward.
ExtendsRunForward(e) == e > current

ExtendsRun(e) == e = current + 1

Consecutive ==
  /\ Looking /\ ~Ends(Entry(current)) /\ ExtendsRun(Entry(current))
  /\ run_count' = run_count + 1
  /\ current' = Entry(current)
  /\ visited' = visited + 1
  /\ UNCHANGED <<pc, input, run_start, runs>>

NewRun ==
  /\ Looking /\ ~Ends(Entry(current)) /\ ~ExtendsRun(Entry(current))
  /\ runs' = Append(runs, Run(run_start, run_count))
  /\ run_start' = Entry(current) /\ run_count' = 1
  /\ current' = Entry(current)
  /\ visited' = visited + 1
  /\ UNCHANGED <<pc, input>>

\* The loop runs out: what was counted since the last break is not appended.
GiveUp ==
  /\ pc = "loop" /\ ~Looking
  /\ pc' = "done"
  /\ UNCHANGED <<input, current, run_start, run_count, visited, runs>>

Next == NoChain \/ Begin \/ EndChain \/ Consecutive \/ NewRun \/ GiveUp

Spec == Init /\ [][Next]_vars

-----------------------------------------------------------------------------
\* Seeded fault: the clusters are numbered from the start of the data area.
LcnFromOne(c) == geometry.data_start \div geometry.cluster_size + c - 1

\* chain_to_data_runs: the cluster number recovery uses, in clusters from the
\* start of the partition.
Lcn(c) == geometry.data_start \div geometry.cluster_size + (c - 2)

\* The sectors recovery and extraction read for the runs:
\* data_runs_to_byte_ranges multiplies the cluster number by the cluster size.
SectorsRead ==
  UNION {LET first == Lcn(runs[k].cluster) * geometry.cluster_size
         IN  first .. (first + runs[k].count * geometry.cluster_size - 1) : k \in DOMAIN runs}

\* cluster_to_offset: where the FAT has cluster c.
SectorsOf(c) ==
  LET first == geometry.data_start + (c - 2) * geometry.cluster_size
  IN  first .. (first + geometry.cluster_size - 1)

-----------------------------------------------------------------------------
\* The chain itself: Walk[k] is its k-th cluster, from 0, and 0 after its end.
Walk[k \in 0..MaxClusters] ==
  IF k = 0 THEN start_cluster
  ELSE LET previous == Walk[k - 1]
       IN  IF previous < 2 \/ Ends(Entry(previous)) THEN 0 ELSE Entry(previous)

EndsWithin(n) == \E k \in 0..n : Walk[k] < 2

\* The clusters of a list of runs.
ClustersOf(rs) ==
  FlattenSeq([k \in DOMAIN rs |-> [j \in 1..rs[k].count |-> rs[k].cluster + j - 1]])

\* The first n clusters of the chain are those of the runs.
Follows(rs, n) ==
  /\ Len(ClustersOf(rs)) = n
  /\ \A k \in 1..n : ClustersOf(rs)[k] = Walk[k - 1] /\ Walk[k - 1] >= 2

\* follow_chain never leaves the chain: its runs are the clusters of the chain
\* in their order, from the first on, also when the chain is a loop; and of a
\* chain that ends within the limit nothing is missing.
RunsFollowChain ==
  pc = "done" =>
    \E n \in 0..MaxClusters :
      /\ Follows(runs, n)
      /\ EndsWithin(MaxClusters) => Walk[n] < 2

\* Where the data area starts on a multiple of the cluster size, the sectors
\* that are read for the runs are those of the clusters.
AlignedSectors ==
  pc = "done" /\ geometry.data_start % geometry.cluster_size = 0 =>
    SectorsRead = UNION {SectorsOf(c) : c \in ToSet(ClustersOf(runs))}
=============================================================================
