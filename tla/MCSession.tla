----------------------------- MODULE MCSession -----------------------------
EXTENDS Session

MCOthers == {"copy"}
MCFiles  == {"f1", "f2"}

\* Both options or none: the pair stays a pair.
Paired == {[image |-> p, map |-> p] : p \in {"", "own", "copy"}}
=============================================================================
