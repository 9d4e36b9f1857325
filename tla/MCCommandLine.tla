---------------------------- MODULE MCCommandLine ----------------------------
EXTENDS CommandLine

MCOthers == {"copy"}
MCFiles  == {"f1", "f2"}
MCDevices == {"/dev/a"}

\* Both options or none: the pair stays a pair.
Paired == {[image |-> p, map |-> p] : p \in {"", "own", "copy"}}

\* A command or none, both options or none and a device or none, in any order; and
\* a few words that may make no sense.
Items(c, p, d) ==
  (IF c = "" THEN {} ELSE {<<c>>}) \cup (IF d = "" THEN {} ELSE {<<d>>})
  \cup (IF p = "" THEN {} ELSE {<<"--image", p>>, <<"--mapfile", p>>})

Orders(set) == {s \in [1..Cardinality(set) -> set] : \A i, j \in DOMAIN s : i # j => s[i] # s[j]}

MCLines ==
  UNION {{FlattenSeq(s) : s \in Orders(Items(c, p, d))} :
           c \in Commands \cup {""}, p \in {"", "own", "copy"}, d \in {"", "/dev/a"}}
  \cup UNION {[1..n -> {"scan", "recover", "bootstrap", "--device", "/dev/a", "copy"}] : n \in 1..3}
=============================================================================
