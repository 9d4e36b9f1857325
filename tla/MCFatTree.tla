----------------------------- MODULE MCFatTree -----------------------------
EXTENDS FatTree

\* The whole table, and what there is of it in an image that ends within it.
MCTables ==
  UNION {[2..n -> (0..5) \cup {BAD, EOC}] : n \in {3, 5}}

MCUnreadSets == {{}} \cup {{c, c + 1} : c \in 2..4}

Shifted == {[data_start |-> 4, cluster_size |-> 2], [data_start |-> 5, cluster_size |-> 2]}

F(parts, dir, clusters, contiguous) ==
  [parts |-> parts, dir |-> dir, clusters |-> clusters, contiguous |-> contiguous]

\* The root, whose chain goes back; files; a directory of two clusters; one of a
\* cluster that the former also has; one that can hold them.
MCFiles == <<F(0, TRUE, <<3, 2>>, FALSE), F(2, FALSE, <<6>>, TRUE), F(1, TRUE, <<4, 5>>, TRUE),
             F(1, TRUE, <<6>>, FALSE)>>

MCDamages ==
  LET None == [lost |-> {}, unread |-> {}, image_end |-> SlotCount]
  IN  {None} \cup {[None EXCEPT !.lost = {p}] : p \in 1..SlotCount}
      \cup {[None EXCEPT !.image_end = n] : n \in {2, 5, 10, 14}}
      \cup {[None EXCEPT !.unread = {c}] : c \in 3..4}
=============================================================================
