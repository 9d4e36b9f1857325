----------------------------- MODULE CommandLine -----------------------------
(***************************************************************************)
(* main of cli.py: the words of a command line become a command, a device  *)
(* and the options all commands share, and the command is run in the       *)
(* working directory of Session.  main takes a device path out of the      *)
(* words before they are parsed, and parses twice, because the parser of   *)
(* a command resets what the main parser has read.  The options that say   *)
(* nothing about the session, --selection among them, are left out.        *)
(***************************************************************************)
EXTENDS Session, Sequences, SequencesExt

CONSTANTS Devices,   \* words that begin with /dev/
          Lines      \* what users type

Commands == {"bootstrap", "scan", "browse", "recover", "extract", "tree"}
Shared   == {"--image", "--mapfile"}
Options  == Shared \cup {"--device"}
IsDevice(w) == w \in Devices
Unset    == ""   \* what has no value

VARIABLES typed,     \* the words of the command to be run
          waiting    \* no command is running

command_vars == <<vars, typed, waiting>>

CommandInit == Init /\ typed = <<>> /\ waiting = TRUE

-----------------------------------------------------------------------------
\* What the parser has made of the words so far: the option that still wants a
\* value, and the values.
Nothing == [ok |-> TRUE, command |-> Unset, wants |-> Unset, value |-> [o \in Options |-> Unset]]

Wrong(a) == [a EXCEPT !.ok = FALSE]
Value(a, o, w) == [a EXCEPT !.value[o] = w, !.wants = Unset]

\* A word that is no option: the command, whose parser begins with its own
\* defaults, or the device of bootstrap.
ReadPlain(a, w) ==
  CASE a.command = Unset /\ w \in Commands ->
         [a EXCEPT !.command = w, !.value = Nothing.value]
    [] a.command = "bootstrap" /\ a.value["--device"] = Unset -> Value(a, "--device", w)
    [] OTHER -> Wrong(a)

ReadWord(a, w) ==
  CASE ~a.ok -> a
    [] a.ok /\ a.wants # Unset -> IF w \in Options THEN Wrong(a) ELSE Value(a, a.wants, w)
    [] a.ok /\ a.wants = Unset /\ w \in Options ->
         IF w = "--device" /\ a.command # "recover" THEN Wrong(a) ELSE [a EXCEPT !.wants = w]
    [] OTHER -> ReadPlain(a, w)

\* What is read of the first words.
Read(words) ==
  LET read[n \in 0..Len(words)] == IF n = 0 THEN Nothing ELSE ReadWord(read[n - 1], words[n])
  IN  read

Parsed(words) ==
  LET a == Read(words)[Len(words)]
  IN  IF a.wants # Unset THEN Wrong(a) ELSE a

\* Seeded fault: only the first word is looked at.
DevicePathsFirst(words) == {k \in DOMAIN words : k = 1 /\ IsDevice(words[k])}

DevicePaths(words) == {k \in DOMAIN words : IsDevice(words[k])}
FirstDevice(words) == CHOOSE k \in DevicePaths(words) : \A j \in DevicePaths(words) : k <= j

\* The first device path is taken out, whatever stands before it.
Rest(words) ==
  IF DevicePaths(words) = {} THEN words ELSE RemoveAt(words, FirstDevice(words))
DeviceOverride(words) ==
  IF DevicePaths(words) = {} THEN Unset ELSE words[FirstDevice(words)]

\* parent.parse_known_args: the last value of an option, wherever it stands.
LastValue(words, o) ==
  LET at == {k \in 2..Len(words) : words[k - 1] = o /\ words[k] \notin Options}
  IN  IF at = {} THEN Unset ELSE words[CHOOSE k \in at : \A j \in at : j <= k]

\* Seeded fault: the options are not read a second time.
SharedValueOnce(words, o) == Parsed(words).value[o]

SharedValue(words, o) ==
  IF LastValue(words, o) # Unset THEN LastValue(words, o) ELSE Parsed(words).value[o]

\* The device that was taken out goes to a command that has no device of its own.
Args(words) ==
  LET a == Parsed(Rest(words))
  IN  [a EXCEPT !.value = [o \in Options |->
         IF o \in Shared THEN SharedValue(Rest(words), o)
         ELSE IF a.command \in {"bootstrap", "recover"} THEN @[o] ELSE DeviceOverride(words)]]

-----------------------------------------------------------------------------
Overriding(a) == [image |-> a.value["--image"], map |-> a.value["--mapfile"]]
NoOptions == [image |-> Unset, map |-> Unset]

\* A line gives the option o the value v: v stands behind each o; Unset if there is none.
Gives(words, o, v) ==
  /\ (v # Unset) <=> \E k \in DOMAIN words : words[k] = o
  /\ \A k \in DOMAIN words :
       words[k] = o => k < Len(words) /\ words[k + 1] = v /\ v \notin Options \cup Devices

\* The lines users type give the overrides of Session.
ASSUME CommandLineAssumption ==
  /\ Devices \cap Options = {} /\ NoOptions \in Overrides
  /\ \A words \in Lines :
       /\ words \in Seq(STRING)
       /\ \E over \in Overrides :
            Gives(words, "--image", over.image) /\ Gives(words, "--mapfile", over.map)

Type ==
  /\ waiting
  /\ typed' \in Lines /\ waiting' = FALSE
  /\ UNCHANGED vars

\* The whole workflow takes nothing from the options.
Interactive ==
  \/ InteractiveDeletes
  \/ \E c \in BOOLEAN : Bootstrap(c)
  \/ BootstrapDies
  \/ Known(NoOptions) /\ Recover(NoOptions)

WithOptions(o) ==
  /\ Known(o)
  /\ \/ Args(typed).command = "scan" /\ Scan(o)
     \/ Args(typed).command \in {"browse", "recover"} /\ Recover(o)
     \/ Args(typed).command = "extract" /\ Extract(o)

Run ==
  /\ ~waiting /\ Args(typed).ok
  /\ \/ Args(typed).command = Unset /\ Interactive
     \/ Args(typed).command = "bootstrap" /\ ((\E c \in BOOLEAN : Bootstrap(c)) \/ BootstrapDies)
     \/ WithOptions(Overriding(Args(typed)))
  /\ waiting' = TRUE /\ typed' = <<>>

\* argparse refuses the words, the command stops at what is missing or changes
\* nothing.
ChangesNothing ==
  /\ ~waiting
  /\ waiting' = TRUE /\ typed' = <<>>
  /\ UNCHANGED vars

CommandNext == Type \/ Run \/ ChangesNothing

CommandSpec == CommandInit /\ [][CommandNext]_command_vars

-----------------------------------------------------------------------------
\* README.md:216 "These options are available on all commands": with options that
\* are given in pairs, on whatever side of the command each of the two stands,
\* the commands do no more than Session says.
ImplementsSession == Spec

\* README.md:158 "ddtriage [device]" starts the full workflow on the device,
\* wherever it stands between the shared options, and with these.
WorkflowStarts ==
  LET at == {k \in DOMAIN typed : IsDevice(typed[k])}
  IN  \A k \in at :
        LET others == Parsed(RemoveAt(typed, k))
        IN  /\ at = {k} /\ (k = 1 \/ typed[k - 1] \notin Options)
            /\ others.ok /\ others.command = Unset
            => /\ Args(typed).ok /\ Args(typed).command = Unset
               /\ Args(typed).value = [others.value EXCEPT !["--device"] = typed[k]]
=============================================================================
