--------------------------- MODULE MCDirDiscovery ---------------------------
EXTENDS DirDiscovery, FiniteSets, TLC

Volume(fs, runs_, kids, contiguous, index) ==
  [fs |-> fs, root |-> "root", runs |-> runs_, kids |-> kids, contiguous |-> contiguous,
   index |-> [d \in DOMAIN runs_ |-> IF d \in DOMAIN index THEN index[d] ELSE 0]]

One(c) == <<<<c, 1>>>>

\* A root in two runs, the second found after a subdirectory; three levels.
FatVolume ==
  Volume("fat", ("root" :> <<<<2, 2>>, <<5, 1>>>>) @@ ("a" :> One(4)) @@ ("b" :> <<<<6, 2>>>>) @@ ("c" :> One(8)),
         (2 :> {"a"}) @@ (5 :> {"b"}) @@ (6 :> {}) @@ (7 :> {"c"}), {}, <<>>)

\* A contiguous directory with chained and contiguous ones below it, one of two
\* clusters.
ExfatVolume ==
  Volume("exfat", ("root" :> One(2)) @@ ("a" :> <<<<3, 2>>>>) @@ ("b" :> One(5)) @@ ("c" :> <<<<6, 1>>, <<8, 1>>>>) @@ ("d" :> One(7))
                  @@ ("e" :> <<<<9, 2>>>>),
         (2 :> {"a"}) @@ (3 :> {"b"}) @@ (4 :> {"c", "e"}) @@ (8 :> {"d"}), {"a", "b", "e"}, <<>>)

\* The extents of c are in block 8.
ExtVolume ==
  Volume("ext", ("root" :> <<<<2, 1>>, <<4, 2>>>>) @@ ("a" :> One(3)) @@ ("b" :> One(6)) @@ ("c" :> One(7)),
         (2 :> {}) @@ (4 :> {"a"}) @@ (5 :> {"b", "c"}), {}, "c" :> 8)

MCVolumes == {FatVolume, ExfatVolume, ExtVolume}
ASSUME \A v \in MCVolumes : IsTree(v)

MCBadSets == {s \in SUBSET (2 .. 8) : Cardinality(s) <= 2}
=============================================================================
