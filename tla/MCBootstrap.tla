----------------------------- MODULE MCBootstrap -----------------------------
EXTENDS Bootstrap

\* An MFT that goes on elsewhere, or behind the chunk, and one that ends in it.
MCMeta     == {"m1", "m2"}
MCChunks   == {{"m1"}, {"m1", "m2", "data"}}
MCGoodSets == {{}, {"boot"}, {"backup", "m1"}, {"boot", "backup", "m1", "m2", "data"}}
MCOptions  == [retry : {0, 1}, sized : BOOLEAN]
=============================================================================
