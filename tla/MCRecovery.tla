----------------------------- MODULE MCRecovery -----------------------------
EXTENDS Recovery

\* Three records: files of two runs that share a sector and span a sparse
\* hole, a file longer than its runs, a small resident file, an empty file, a
\* file whose runs are lost, a directory.
Runs(rs, size) == [directory |-> FALSE, resident |-> FALSE, runs |-> rs, size |-> size]
Resident  == [Runs(<<>>, "within") EXCEPT !.resident = TRUE]
Directory == [Runs(<<{1}>>, "within") EXCEPT !.directory = TRUE]
Empty     == Runs(<<>>, "zero")
Lost      == Runs(<<>>, "within")
Sparse    == Runs(<<{}>>, "within")
Holed     == Runs(<<{1}, {}, {2}>>, "within")
Shared    == Runs(<<{1, 2}>>, "within")
Truncated == Runs(<<{2}>>, "beyond")

MCLayouts == {<<Holed, Shared>>, <<Shared, Resident>>, <<Directory, Truncated>>,
              <<Empty, Holed>>, <<Lost, Sparse>>}

MCOptions == [selected : {{1, 2}}, dry_run : {FALSE}, retry : BOOLEAN, device : {TRUE}]
  \cup [selected : {{2}}, dry_run : BOOLEAN, retry : {FALSE}, device : BOOLEAN]

\* One selection, one tree, for the liveness run.
LiveLayouts == {<<Shared, Truncated>>}
LiveOptions == [selected : {{1, 2}}, dry_run : {FALSE}, retry : {FALSE}, device : {TRUE}]

MCSectors  == 1..2
MCFiles    == 1..2
AllDisks   == {{}, {"image"}, {"image", "mapfile"}}
WithMap    == {{"image", "mapfile"}}
=============================================================================
