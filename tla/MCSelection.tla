---------------------------- MODULE MCSelection ----------------------------
EXTENDS Selection

\* A directory with a file and a deleted file, then a file and another directory.
Volume(ids_) ==
  [ids |-> ids_, nodes |-> 5 .. 10, dirs |-> {5, 6, 10}, deleted |-> {8},
   parent |-> [n \in 5 .. 10 |-> CASE n \in {7, 8} -> 6 [] OTHER -> 5]]

\* An MFT whose record 7 gives a file as its parent.
OddVolume ==
  [ids |-> "record", nodes |-> 5 .. 9, dirs |-> {5, 6, 8}, deleted |-> {8},
   parent |-> [n \in 5 .. 9 |-> CASE n = 7 -> 9 [] n = 9 -> 8 [] OTHER -> 5]]

MCVolumes == {Volume("record"), Volume("inode"), Volume("traversal"), OddVolume}
=============================================================================
