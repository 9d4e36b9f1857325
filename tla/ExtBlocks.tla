------------------------------ MODULE ExtBlocks ------------------------------
(***************************************************************************)
(* inode_to_data_runs of ext4/inode.py: where the data of an inode is,     *)
(* from its extent tree or its block pointers.  The blocks below the inode *)
(* are looked up in the image, and are zero there if they were not read.   *)
(***************************************************************************)
EXTENDS Integers, Sequences, SequencesExt

CONSTANTS DepthLimit,   \* depth_limit, 5
          DirectCount   \* direct pointers of an inode, 12

\* extents: the tree has them; then nodes[0] is the node in the inode and nodes[b]
\* the one in block b, a leaf or an index.  Else pointers are those of the inode,
\* and nodes[b] the pointers in block b.
Leaf(list)  == [leaf |-> TRUE, extents |-> list, blocks |-> <<>>]
Index(list) == [leaf |-> FALSE, extents |-> <<>>, blocks |-> list]
Extent(file_block, length, phys_block) ==
  [file_block |-> file_block, length |-> length, phys_block |-> phys_block]

\* _walk_node: a block that was not read, or is past the end of the image, has
\* no magic number and no extents.
WalkNode(nodes, read) ==
  LET below[depth \in 0..DepthLimit] ==
        [b \in DOMAIN nodes |->
           IF b \notin read \cup {0} THEN <<>>
           ELSE IF nodes[b].leaf THEN nodes[b].extents
           ELSE IF depth = 0 THEN <<>>
           ELSE FlattenSeq([i \in DOMAIN nodes[b].blocks |->
                              below[depth - 1][nodes[b].blocks[i]]])]
  IN  below[DepthLimit][0]

\* Seeded fault: the extents stay in the order of the index.
WalkExtentTreeUnsorted(nodes, read) == WalkNode(nodes, read)

WalkExtentTree(nodes, read) ==
  SortSeq(WalkNode(nodes, read), LAMBDA x, y : x.file_block < y.file_block)

Run(lcn, count) == [lcn |-> lcn, count |-> count]
Hole == -1

\* The runs in the order of the file; what no extent has is a hole.
ExtentRuns(extents) ==
  FoldLeft(LAMBDA walk, x :
             [runs |-> walk.runs
                 \o (IF x.file_block > walk.cursor
                     THEN <<Run(Hole, x.file_block - walk.cursor)>> ELSE <<>>)
                 \o <<Run(x.phys_block, x.length)>>,
              cursor |-> x.file_block + x.length],
           [runs |-> <<>>, cursor |-> 0], extents).runs

\* _read_indirect_block: the blocks below block b, a zero pointer is left out.
ReadIndirectBlock(nodes, read, b, depth) ==
  LET nonzero(list) == SelectSeq(list, LAMBDA p : p # 0)
      blocks[d \in 1..3] ==
        [c \in DOMAIN nodes |->
           LET list == IF c \in read THEN nonzero(nodes[c]) ELSE <<>>
           IN  IF d = 1 THEN list
               ELSE FlattenSeq([i \in DOMAIN list |-> blocks[d - 1][list[i]]])]
  IN  IF b = 0 THEN <<>> ELSE blocks[depth][b]

\* _parse_indirect_blocks: the blocks, and neighbours as one run.
IndirectRuns(pointers, nodes, read) ==
  LET direct == SelectSeq(SubSeq(pointers, 1, DirectCount), LAMBDA p : p # 0)
      blocks == direct \o FlattenSeq([d \in 1..3 |->
                  ReadIndirectBlock(nodes, read, pointers[DirectCount + d], d)])
      join(runs, b) ==
        IF runs # <<>> /\ Last(runs).lcn + Last(runs).count = b
        THEN Front(runs) \o <<Run(Last(runs).lcn, Last(runs).count + 1)>>
        ELSE Append(runs, Run(b, 1))
  IN  FoldLeft(join, <<>>, blocks)

\* inode_to_data_runs.
DataRuns(inode, read) ==
  IF inode.extents THEN ExtentRuns(WalkExtentTree(inode.nodes, read))
  ELSE IndirectRuns(inode.pointers, inode.nodes, read)
=============================================================================
