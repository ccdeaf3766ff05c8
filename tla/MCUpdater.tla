----------------------------- MODULE MCUpdater -----------------------------
(***************************************************************************)
(* Two applications, each enabled or not at the start.  A behaviour is     *)
(* either maintenance by itself, with changes that administrators make, or *)
(* one of the updater with two updates of a download and an install each.  *)
(* The identifiers of the requests are interchangeable.                    *)
(***************************************************************************)
EXTENDS Updater, TLC

VARIABLE subject

TaskSymmetry == Permutations(Tasks)

MCInit == subject \in {"maintenance", "update"} /\ UpdaterInit

MCNext ==
  /\ \/ subject = "maintenance" /\ Next /\ UNCHANGED updater
     \/ subject = "update" /\ UpdaterNext /\ UNCHANGED edits
  /\ UNCHANGED subject

MCSpec == MCInit /\ [][MCNext]_<<subject, allVars>>
=============================================================================
