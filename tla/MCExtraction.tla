---------------------------- MODULE MCExtraction ----------------------------
EXTENDS Extraction, TLC

CONSTANTS DepthLimit, DirectCount
Ext == INSTANCE ExtBlocks

CONSTANTS MaxPos, MaxEntry,   \* of an entry of the mapfile
          MaxEntries          \* the longest mapfile

SmallEntries == [pos : 0..MaxPos, size : 0..MaxEntry, status : {"+", "-"}]
MCMapfileSet == {es \in UNION {[1..n -> SmallEntries] : n \in 0..MaxEntries} :
                   IsOrdered(es)}

R(lcn, count) == [lcn |-> lcn, count |-> count]
RunSet == {R(0, 1), R(1, 1), R(0, 2), R(None, 1)}
MCRanges == {RangeOf(R(lcn, count)) : lcn \in 0..3, count \in 0..2}

\* What the volume has in a run.
Bytes(r) ==
  [i \in 1 .. r.count * ClusterSize |->
     IF r.lcn = None THEN 0 ELSE r.lcn * ClusterSize + PartitionOffset + i]

Data(runs) == IF Len(runs) = 1 THEN Bytes(runs[1]) ELSE Bytes(runs[1]) \o Bytes(runs[2])

Starts(runs) ==
  [n \in 1 .. Len(runs) + 1 |-> ClusterSize * MapThenSumSet(LAMBDA m : runs[m].count, 1 .. n - 1)]
WithRuns(r, runs_) == [r EXCEPT !.runs = runs_, !.starts = Starts(runs_)]

Item(name, parent) ==
  [name |-> name, parent |-> parent, directory |-> FALSE, resident |-> FALSE,
   runs |-> <<>>, starts |-> <<0>>, size |-> 0, compressed |-> FALSE, content |-> <<>>,
   known |-> TRUE]

\* The end of the file is in its last cluster; or the runs at hand end before it.
Plain(runs, less) ==
  LET data == Data(runs)
  IN  [WithRuns(Item("f", Root), runs) EXCEPT !.size = Len(data) - less,
         !.content = IF less < 0 THEN data \o <<99>> ELSE SubSeq(data, 1, Len(data) - less)]

Small(name, parent, size) ==
  [Item(name, parent) EXCEPT !.resident = TRUE, !.size = size, !.content = [i \in 1..size |-> 50]]
Folder(name, parent) == [Item(name, parent) EXCEPT !.directory = TRUE]

\* A unit of two clusters that is stored, one that is compressed to one cluster,
\* and one that does not have its hole in the record.
Stored == [Plain(<<R(0, 2)>>, 1) EXCEPT !.compressed = TRUE]
Unit(c) == [i \in 1 .. UnitSize |-> -((c * ClusterSize + PartitionOffset + 1) * UnitSize + i)]
Compressed(runs) ==
  [WithRuns(Item("z", Root), runs) EXCEPT !.compressed = TRUE, !.size = UnitSize,
     !.content = Unit(1)]

One(f) == (7 :> f)

LayoutTrees ==
  {One(Plain(<<r, s>>, less)) : r \in RunSet, s \in RunSet, less \in {-1, 0, 1}}
  \cup {One(Plain(<<r>>, 0)) : r \in RunSet}
  \cup {One(r) : r \in {Stored, Compressed(<<R(1, 1), R(None, 1)>>), Compressed(<<R(1, 1)>>)}}
  \cup {One([Item("l", Root) EXCEPT !.size = 3, !.content = <<1, 1, 1>>])}

\* Records with one path, a file where another has its directory and the other way
\* round, an orphan with the name of a file of the root, the report's own name.
PathTrees ==
  LET f == Plain(<<R(0, 2)>>, 1)
      d == Folder("d", Root)
      x == [f EXCEPT !.name = "d"]
      y == [f EXCEPT !.parent = 6]
  IN  {(7 :> f) @@ (8 :> f),
       (7 :> f) @@ (8 :> Small("f", None, 2)),
       (6 :> d) @@ (7 :> y) @@ (8 :> x),
       (6 :> d) @@ (7 :> x) @@ (8 :> y),
       (6 :> Folder(ReportName, Root)) @@ (7 :> y) @@ (8 :> Item("e", 6)),
       (7 :> Small(ReportName, Root, 1)) @@ (8 :> f)}

\* What the proofs suppose, of these records; of inodes it is the work of ExtBlocks.
ASSUME LayoutsLead ==
  \A t \in LayoutTrees \cup PathTrees : \A f \in DOMAIN t : LeadToContent(t[f])

\* Inodes: what each block of the file is (None for a hole), how it is found.
ExtentFile(blocks_, nodes) == [blocks |-> blocks_, extents |-> TRUE, nodes |-> nodes, pointers |-> <<>>]
PointerFile(blocks_, pointers, nodes) ==
  [blocks |-> blocks_, extents |-> FALSE, nodes |-> nodes, pointers |-> pointers]

\* An extent without blocks; a hole between two extents; leaves in two blocks, the
\* later first; pointers with a hole, and with blocks two steps away.
Inodes ==
  {ExtentFile(<<0>>, 0 :> Ext!Leaf(<<Ext!Extent(0, 1, 0), Ext!Extent(1, 0, 1)>>)),
   ExtentFile(<<1, None, 0>>, 0 :> Ext!Leaf(<<Ext!Extent(0, 1, 1), Ext!Extent(2, 1, 0)>>)),
   ExtentFile(<<0, 1>>, (0 :> Ext!Index(<<2, 3>>)) @@ (2 :> Ext!Leaf(<<Ext!Extent(1, 1, 1)>>))
                        @@ (3 :> Ext!Leaf(<<Ext!Extent(0, 1, 0)>>))),
   PointerFile(<<None, 1, 2>>, <<0, 3, 0, 0>>, 3 :> <<1, 2>>),
   PointerFile(<<2, 1>>, <<2, 0, 3, 0>>, (3 :> <<0, 0>>) @@ (0 :> <<>>)),
   PointerFile(<<1>>, <<0, 0, 2, 0>>, (2 :> <<3, 0>>) @@ (3 :> <<1, 0>>))}

BlocksRead(es) ==
  {b \in 0..3 : b * ClusterSize + PartitionOffset .. (b + 1) * ClusterSize + PartitionOffset - 1
                   \subseteq Rescued(es)}

\* An extent file is known if no index block is lost; with pointers what is lost is
\* missing at the end, or makes the file shorter.
FileOfInode(inode, es) ==
  LET content == [i \in 1 .. Len(inode.blocks) * ClusterSize |->
                    Bytes(R(inode.blocks[(i - 1) \div ClusterSize + 1], 1))[((i - 1) % ClusterSize) + 1]]
  IN  [WithRuns(Item("i", Root), Ext!DataRuns(inode, BlocksRead(es))) EXCEPT
         !.size = Len(content), !.content = content,
         !.known = ~inode.extents \/ Ext!DataRuns(inode, BlocksRead(es)) = Ext!DataRuns(inode, 0..3)]

MCTrees(es) == LayoutTrees \cup PathTrees \cup {One(FileOfInode(i, es)) : i \in Inodes}

CompressedTrees(es) == {One(Compressed(<<R(1, 1), R(None, 1)>>)), One(Compressed(<<R(1, 1)>>))}
=============================================================================
