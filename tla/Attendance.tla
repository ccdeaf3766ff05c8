----------------------------- MODULE Attendance -----------------------------
(***************************************************************************)
(* What a record with signatures promises to the application that keeps it. *)
(* The list of those who attend may change until the record is cancelled;   *)
(* whoever has signed stays signed, also when taken off the list and put    *)
(* back; and the record is complete exactly when somebody attends and all   *)
(* who attend have signed.                                                 *)
(***************************************************************************)
CONSTANT People

VARIABLES
  state,      \* of the record: none, dispatched, completed or cancelled
  attending,  \* those who are asked to sign
  signed      \* those who have

Init == state = "none" /\ attending = {} /\ signed = {}

\* The state of a record that is not cancelled follows from the two lists.
StateOf(present, done) ==
  IF present # {} /\ present \subseteq done THEN "completed" ELSE "dispatched"

Associate(present) ==
  /\ state # "cancelled" /\ present # {}
  /\ attending' = present /\ state' = StateOf(present, signed)
  /\ UNCHANGED signed

Sign(p) ==
  /\ state = "dispatched" /\ p \in attending
  /\ signed' = signed \cup {p} /\ state' = StateOf(attending, signed')
  /\ UNCHANGED attending

Revoke(p) ==
  /\ state = "dispatched" /\ p \in attending
  /\ attending' = attending \ {p} /\ state' = StateOf(attending', signed)
  /\ UNCHANGED signed

Cancel == state = "dispatched" /\ state' = "cancelled" /\ UNCHANGED <<attending, signed>>

Next ==
  \/ \E present \in SUBSET People : Associate(present)
  \/ \E p \in People : Sign(p) \/ Revoke(p)
  \/ Cancel

Spec == Init /\ [][Next]_<<state, attending, signed>>
=============================================================================
