-------------------------- MODULE ProgressiveImage --------------------------
(***************************************************************************)
(* What ddtriage promises about a failing drive: an image that only gains  *)
(* sectors, a mapfile that only claims sectors the image has, and a report *)
(* that only certifies files every sector of which the mapfile claims.     *)
(* Recovery implements it.                                                 *)
(***************************************************************************)
CONSTANTS Sectors, Files

VARIABLES content,     \* for each file, the sectors of the drive that hold it
          image,       \* the sectors the image has
          mapped,      \* the sectors the mapfile claims
          certified    \* the files the last report calls complete

vars == <<content, image, mapped, certified>>

Init ==
  /\ content \in [Files -> SUBSET Sectors]
  /\ image \in SUBSET Sectors /\ mapped \in SUBSET image
  /\ certified = {}

\* The image gains sectors, and the mapfile catches up with part of it.
Gain ==
  /\ image' \in SUBSET Sectors /\ image \subseteq image'
  /\ mapped' \in SUBSET image' /\ mapped \subseteq mapped'
  /\ UNCHANGED <<content, certified>>

\* A new report replaces the last one.
Certify ==
  /\ certified' \in SUBSET {f \in Files : content[f] \subseteq mapped}
  /\ UNCHANGED <<content, image, mapped>>

Next == Gain \/ Certify

Spec == Init /\ [][Next]_vars
=============================================================================
