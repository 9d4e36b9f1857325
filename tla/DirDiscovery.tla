---------------------------- MODULE DirDiscovery ----------------------------
(***************************************************************************)
(* How the bootstrap of a FAT, exFAT or ext volume finds its directories   *)
(* (_bootstrap_fat and _bootstrap_ext4 of bootstrap.py): it walks the tree *)
(* as far as the image shows it, has gddrescue read the directories the    *)
(* walk met and had not tried, and walks again.  build_fat_tree,           *)
(* build_exfat_tree and build_ext4_tree then list what the image shows.    *)
(* The FAT, or the inode tables, are in the image; of a directory only its *)
(* clusters, numbered in the order of the image, and the subdirectories    *)
(* each cluster lists are modelled.                                        *)
(***************************************************************************)
EXTENDS Integers, Sequences, Functions

CONSTANTS Volumes,    \* see IsVolume
          BadSets,    \* sets of clusters that cannot be read
          MaxPasses,  \* max_passes
          MaxDepth,   \* the depth limit of the walks
          MaxRuns     \* bootstraps of one volume: a bound of the model

Runs == Seq((Nat \ {0}) \X (Nat \ {0}))

\* Ranges of clusters, as in the domain logs: the first one and how many.
Cells(range)     == range[1] .. (range[1] + range[2] - 1)
CellsOf(ranges)  == UNION {Cells(r) : r \in ranges}
EndOf(range)     == range[1] + range[2]

\* runs: of each directory; kids: the subdirectories that each cluster which lists
\* any lists; contiguous: NoFatChain; index: the block with the extents, or 0.
IsVolume(v) ==
  /\ v.fs \in {"fat", "exfat", "ext"}
  /\ \A d \in DOMAIN v.runs : v.runs[d] \in Runs
  /\ \A c \in DOMAIN v.kids : v.kids[c] \subseteq DOMAIN v.runs
  /\ v.contiguous \subseteq {d \in DOMAIN v.runs : Len(v.runs[d]) = 1}
  /\ v.fs # "exfat" => v.contiguous = {}
  /\ v.index \in [DOMAIN v.runs -> Nat]
  /\ v.root \in DOMAIN v.runs \ v.contiguous /\ v.runs[v.root] # <<>>

ASSUME VolumeAssumption ==
  /\ MaxPasses \in Nat /\ MaxDepth \in Nat /\ MaxRuns \in Nat
  /\ \A v \in Volumes : IsVolume(v)

\* As long as nothing is torn: no cluster belongs to two directories, or twice to
\* one, and no directory is listed twice.
IsTree(v) ==
  /\ \A d, e \in DOMAIN v.runs : \A i \in DOMAIN v.runs[d] : \A j \in DOMAIN v.runs[e] :
       Cells(v.runs[d][i]) \cap Cells(v.runs[e][j]) # {} => d = e /\ i = j
  /\ \A c, b \in DOMAIN v.kids : v.kids[c] \cap v.kids[b] # {} => c = b

VARIABLES vol, bad,
          rescued,  \* the clusters that are in the image
          tried,    \* all_recovered_ranges
          domain,   \* the ranges of the last pass
          passes,   \* pass_num
          stage, runs

discovery_vars == <<vol, bad, rescued, tried, domain, passes, stage, runs>>

-----------------------------------------------------------------------------
\* A range ends within len(mm): the image is as long as what was written to it.
InImage(r) == \E c \in rescued : EndOf(r) <= c + 1

\* A run that goes past the end of the image is not looked at.
Inside(rs) == [i \in DOMAIN rs |-> IF InImage(rs[i]) THEN rs[i] ELSE <<rs[i][1], 0>>]

\* The subdirectories that the clusters of some runs list, read in their order. A
\* cluster that was not read is zeros: it ends a FAT or exFAT directory, it is one
\* empty block of ext.
Listed(rs) ==
  UNION {vol.kids[c] : c \in
    {c \in rescued \cap DOMAIN vol.kids : \E i \in DOMAIN rs :
       /\ c \in Cells(rs[i])
       /\ vol.fs # "ext" => /\ rs[i][1] .. c \subseteq rescued
                            /\ \A j \in 1 .. (i - 1) : Cells(rs[j]) \subseteq rescued}}

\* What the walk takes for the runs of a directory: its chain in the FAT, where
\* a NoFatChain directory is one free cluster; the extents of its inode, which
\* are none while the block that holds them is not in the image.
ChainOf(d) ==
  IF d \in vol.contiguous THEN <<<<vol.runs[d][1][1], 1>>>>
  ELSE IF vol.index[d] \notin rescued \cup {0} THEN <<>>
  ELSE vol.runs[d]

\* The subdirectories that _walk_fat_dirs, _walk_exfat_dirs or _walk_ext4_dirs
\* meets in d.
Met(d) == Listed(Inside(ChainOf(d)))

Chained(ds) == ds \ vol.contiguous
Whole(ds)   == {d \in ds \cap vol.contiguous : InImage(vol.runs[d][1])}

\* Seeded fault: contiguous directories are recovered and not looked into.
StepsFlat(d) == Chained(Met(d))

\* The directories the walk steps into from d: for a contiguous directory,
\* those it lists.
StepsInto(d) == Chained(Met(d)) \cup UNION {Listed(vol.runs[k]) : k \in Whole(Met(d))}

\* Where the walk has been by a depth.
WalkedTo[n \in 0 .. MaxDepth] ==
  IF n = 0 THEN {vol.root}
  ELSE LET above == WalkedTo[n - 1] IN above \cup UNION {StepsInto(d) : d \in above}

Walked == WalkedTo[MaxDepth]

\* _collect_fat_directory_ranges, _collect_ext4_directory_ranges.
DirRanges ==
  UNION {Range(ChainOf(d)) \cup {vol.runs[k][1] : k \in Met(d) \cap vol.contiguous} : d \in Walked}

-----------------------------------------------------------------------------
\* gddrescue reads the good clusters of a domain, or some of them if it fails:
\* its exit status is not looked at.
Ddrescue(cells) ==
  \E got \in SUBSET (cells \ bad) : rescued' = rescued \cup got

DiscoveryInit ==
  /\ vol \in Volumes /\ bad \in BadSets
  /\ rescued = {} /\ tried = {} /\ domain = {} /\ passes = 0
  /\ stage = "begin" /\ runs = 0

\* The boot sector and the FAT with the first cluster of the root directory;
\* the superblock, the descriptors and the inode tables of ext.
ReadMetadata ==
  /\ stage = "begin"
  /\ Ddrescue(IF vol.fs = "ext" THEN {} ELSE {vol.runs[vol.root][1][1]})
  /\ tried' = {} /\ domain' = {} /\ passes' = 0
  /\ stage' = "pass" /\ runs' = runs + 1
  /\ UNCHANGED <<vol, bad>>

\* Seeded fault: every pass asks for all the ranges.
PassAll ==
  /\ stage = "pass" /\ passes < MaxPasses
  /\ DirRanges # {}
  /\ domain' = DirRanges
  /\ tried' = tried \cup DirRanges
  /\ Ddrescue(CellsOf(domain'))
  /\ passes' = passes + 1
  /\ UNCHANGED <<vol, bad, stage, runs>>

Pass ==
  /\ stage = "pass" /\ passes < MaxPasses
  /\ DirRanges \ tried # {}
  /\ domain' = DirRanges \ tried
  /\ tried' = tried \cup domain'
  /\ Ddrescue(CellsOf(domain'))
  /\ passes' = passes + 1
  /\ UNCHANGED <<vol, bad, stage, runs>>

EndPasses ==
  /\ stage = "pass"
  /\ passes = MaxPasses \/ DirRanges \subseteq tried
  /\ stage' = "done"
  /\ UNCHANGED <<vol, bad, rescued, tried, domain, passes, runs>>

\* Another bootstrap, on the same image.
Again ==
  /\ stage = "done" /\ runs < MaxRuns
  /\ stage' = "begin"
  /\ UNCHANGED <<vol, bad, rescued, tried, domain, passes, runs>>

DiscoveryNext == ReadMetadata \/ Pass \/ EndPasses \/ Again

DiscoverySpec == DiscoveryInit /\ [][DiscoveryNext]_discovery_vars

-----------------------------------------------------------------------------
\* The runs the tree builder reads a directory from: it knows NoFatChain, and
\* it does read the part of a run that is in the image.
BuilderRuns(d) ==
  IF vol.index[d] \notin rescued \cup {0} THEN <<>> ELSE vol.runs[d]

\* What the passes cannot find: a directory whose extents are in a block of
\* their own, which no pass asks for, and more than one cluster of a contiguous
\* directory inside a contiguous one, which is walked as a chain.
OutOfReach(d, parent) ==
  \/ vol.index[d] # 0
  \/ {d, parent} \subseteq vol.contiguous /\ vol.runs[d][1][2] > 1

\* The directories of the tree that build_*_tree returns, but for those and what
\* is below them.
BuiltTo[n \in 0 .. MaxDepth] ==
  IF n = 0 THEN {d \in {vol.root} : vol.index[d] = 0}
  ELSE LET above == BuiltTo[n - 1]
       IN  above \cup UNION {{k \in Listed(BuilderRuns(d)) : ~OutOfReach(k, d)} : d \in above}

BuiltDirs == BuiltTo[MaxDepth]

Mapped(d) == CellsOf(Range(vol.runs[d])) \subseteq CellsOf(tried) \cup rescued

\* No two passes of a bootstrap ask the drive for the same cluster.
AskedOnce ==
  [][passes' > passes => CellsOf(domain') \cap CellsOf(tried) = {}]_discovery_vars

\* bootstrap.py:951 - the passes are repeated until the directory tree is mapped:
\* every cluster of every directory of the tree was asked for, of a bootstrap that
\* the limit of passes did not cut short and that tried no run beyond the image.
TreeMappedInside ==
  /\ stage = "done" /\ passes < MaxPasses
  /\ \A r \in tried : InImage(r)
  => \A d \in BuiltDirs : Mapped(d)
=============================================================================
