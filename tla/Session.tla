------------------------------ MODULE Session ------------------------------
(***************************************************************************)
(* A working directory over many commands (cli.py, SessionState): the      *)
(* state file, the image and the mapfile it names, what the commands take  *)
(* from it and from --image and --mapfile, and the deletion of an old      *)
(* session.  A pair is an image and the mapfile of the same name.  Own is  *)
(* the pair of the session, which the bootstrap makes; the others were     *)
(* made elsewhere and lie in the directory too.  A bootstrap or a pass of  *)
(* gddrescue is one step (see Bootstrap and Recovery).                     *)
(***************************************************************************)
EXTENDS Integers, FiniteSets

CONSTANTS Own, Others,   \* names of pairs
          Files,         \* of the drive; "meta" is its metadata
          Overrides      \* what the user gives: [image |-> , map |-> ], "" if not

Pairs   == {Own} \cup Others
Sectors == Files \cup {"meta"}

ASSUME SessionAssumption ==
  /\ Own \notin Others \cup {""} /\ "" \notin Others /\ "meta" \notin Files
  /\ Overrides \subseteq [image : Pairs \cup {""}, map : Pairs \cup {""}]

VARIABLES
  data,      \* of each image, the sectors it has; {} if there is no image
  claims,    \* of each mapfile, the sectors it claims
  maps,      \* the mapfiles that exist
  state,     \* the state file
  reported,  \* the files called complete by the last extraction that had a mapfile
  copied     \* those it wrote from sectors the image has

vars == <<data, claims, maps, state, reported, copied>>

None == [kind |-> "none", image |-> "", map |-> "", complete |-> FALSE]
Torn == [None EXCEPT !.kind = "torn"]

Init ==
  /\ data \in [Pairs -> SUBSET Sectors]
  /\ data[Own] = {}
  /\ claims = data
  /\ maps = {p \in Others : data[p] # {}}
  /\ state = None /\ reported = {} /\ copied = {}

-----------------------------------------------------------------------------
\* Seeded fault: the image of the state file is kept when a mapfile is given.
LoadMapfileWins(o) ==
  [image    |-> IF o.map # "" /\ state.image # "" THEN state.image ELSE o.image,
   map      |-> IF o.map # "" THEN o.map ELSE state.map,
   complete |-> state.complete]

\* _load_state_or_args: options override the state file.
Load(o) ==
  [image    |-> IF o.image # "" THEN o.image ELSE state.image,
   map      |-> IF o.map # "" THEN o.map ELSE state.map,
   complete |-> state.complete]

Known(o) == Load(o).image \in Pairs /\ Load(o).map \in Pairs

\* gddrescue reads into image i sectors that the mapfile m does not claim.
Rescue(i, m, domain) ==
  \E got \in SUBSET (domain \ claims[m]) :
    /\ data' = [data EXCEPT ![i] = @ \cup got]
    /\ claims' = [claims EXCEPT ![m] = @ \cup got]

Untouched == UNCHANGED <<data, claims, maps>>
Reported  == <<reported, copied>>

\* extract_selected, given a mapfile.
Report(i, m, had) ==
  /\ reported' = had \cap Files
  /\ copied' = had \cap data'[i]

-----------------------------------------------------------------------------
\* run_bootstrap, done or given up: the state names the session's own pair.
Bootstrap(complete) ==
  /\ Rescue(Own, Own, {"meta"})
  /\ maps' = maps \cup {Own}
  /\ state' = [kind |-> "ok", image |-> Own, map |-> Own, complete |-> complete]
  /\ UNCHANGED Reported

\* Killed before the state is saved, or while it is written: the file is
\* truncated when it is opened.
BootstrapDies ==
  /\ Rescue(Own, Own, {"meta"})
  /\ maps' = maps \cup {Own}
  /\ state' \in {state, Torn}
  /\ UNCHANGED Reported

\* cleanup_session_files: every image, mapfile and output of the directory.
CleanUp ==
  /\ data' = [p \in Pairs |-> {}] /\ claims' = [p \in Pairs |-> {}] /\ maps' = {}
  /\ state' = None /\ reported' = {} /\ copied' = {}

\* Seeded fault: the images are deleted, their mapfiles are not.
InteractiveKeepsLogs ==
  /\ state.kind # "torn"
  /\ data' = [p \in Pairs |-> {}] /\ state' = None /\ reported' = {} /\ copied' = {}
  /\ UNCHANGED <<claims, maps>>

\* cmd_interactive: no session to resume, or the user does not resume it, and
\* agrees to delete the files.  The bootstrap that follows is a step of its own.
InteractiveDeletes ==
  /\ state.kind # "torn"
  /\ CleanUp

\* Killed in the middle: the files go in the order of their names, so that an
\* image goes before its mapfile, the state file before both or not.
InteractiveDies ==
  /\ state.kind # "torn"
  /\ \E gone \in SUBSET Pairs : \E cut \in Pairs \ gone :
       /\ data' = [p \in Pairs |-> IF p \in gone \cup {cut} THEN {} ELSE data[p]]
       /\ claims' = [p \in Pairs |-> IF p \in gone THEN {} ELSE claims[p]]
       /\ maps' = maps \ gone
  /\ state' \in {state, None}
  /\ UNCHANGED Reported

\* cmd_scan saves what it was told.
Scan(o) ==
  /\ state.kind # "torn" /\ data[Load(o).image] # {}
  /\ state' = [kind |-> "ok", image |-> Load(o).image, map |-> Load(o).map,
               complete |-> state.complete]
  /\ Untouched /\ UNCHANGED Reported

\* cmd_recover, and the recovery cmd_browse and cmd_interactive go on to.
Recover(o) ==
  LET s == Load(o) IN
  /\ state.kind # "torn" /\ data[s.image] # {} /\ s.map \in maps
  /\ Rescue(s.image, s.map, Files)
  /\ Report(s.image, s.map, claims'[s.map])
  /\ UNCHANGED <<maps, state>>

Extract(o) ==
  LET s == Load(o) IN
  /\ state.kind # "torn" /\ data[s.image] # {} /\ s.map \in maps
  /\ Untouched
  /\ Report(s.image, s.map, claims[s.map])
  /\ UNCHANGED state

Next ==
  \/ \E c \in BOOLEAN : Bootstrap(c)
  \/ BootstrapDies \/ InteractiveDeletes
  \/ \E o \in Overrides : Known(o) /\ (Scan(o) \/ Recover(o) \/ Extract(o))

Spec == Init /\ [][Next]_vars

\* A specification of its own, because what it breaks all the rest rests on.
SpecKilled == Init /\ [][Next \/ InteractiveDies]_vars
-----------------------------------------------------------------------------
\* The types of the files; a mapfile that is gone claims nothing.
State == [kind : {"none", "torn", "ok"}, image : Pairs \cup {""}, map : Pairs \cup {""},
          complete : BOOLEAN]

TypeOK ==
  /\ data \in [Pairs -> SUBSET Sectors] /\ claims \in [Pairs -> SUBSET Sectors]
  /\ maps \subseteq Pairs /\ \A p \in Pairs \ maps : claims[p] = {}
  /\ state \in State
  /\ state.kind = "ok" => state.image \in Pairs /\ state.map \in Pairs
  /\ reported \subseteq Files /\ copied \subseteq Sectors

\* PLAYBOOK.md:765 - a mapfile is the truth about the image of its pair: what it
\* claims, the image has, whatever commands came before.
SourceOfTruth == \A p \in Pairs : claims[p] \subseteq data[p]

\* What is called complete was copied from sectors that were read.
ReportTrue == reported \subseteq copied

-----------------------------------------------------------------------------
\* The user gives both options or none, of one pair.
PairedOptions == \A o \in Overrides : o.image = o.map

\* The inductive invariant of Spec under PairedOptions: the state file always
\* names an image and its own mapfile.
IInv == TypeOK /\ state.image = state.map /\ SourceOfTruth /\ ReportTrue
=============================================================================
