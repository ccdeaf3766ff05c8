------------------------------- MODULE MCRows -------------------------------
(***************************************************************************)
(* Rows that several requests or servers change, without fairness: the     *)
(* installation record of an application, the attachments of a record, the *)
(* runs of a job, and the outbox.  They share no state, so every behaviour *)
(* of this run is a behaviour of one of them, its subject.                 *)
(*                                                                         *)
(* The application has two versions, a rebuilt package of the first, and a *)
(* permission that only the first declares.                                *)
(***************************************************************************)
EXTENDS AppRegistry, Attachments, Jobs, Outbox, TLC

VARIABLE subject

MCVersions == {1, 2}
MCPackages == {[ver |-> 1, sha |-> 11], [ver |-> 1, sha |-> 12], [ver |-> 2, sha |-> 21]}
MCDeclares == [v \in MCVersions |-> IF v = 1 THEN Perms ELSE {CHOOSE p \in Perms : TRUE}]

\* Servers, clients and dispatchers; what they work on.
MCSymmetry == Permutations(Hosts) \cup Permutations(Runs)

MCInit ==
  /\ subject \in {"registry", "attachments", "jobs", "outbox"}
  /\ Init /\ AttachmentInit /\ JobInit /\ OutboxInit
  /\ subject # "jobs" => job = [locked |-> FALSE, timed |-> FALSE, delayed |-> FALSE]

MCNext ==
  /\ \/ subject = "registry" /\ Next /\ UNCHANGED <<attachmentVars, jobVars, outboxVars>>
     \/ subject = "attachments" /\ AttachmentNext /\ UNCHANGED <<vars, jobVars, outboxVars>>
     \/ subject = "jobs" /\ JobNext /\ UNCHANGED <<vars, attachmentVars, outboxVars>>
     \/ subject = "outbox" /\ OutboxNext /\ UNCHANGED <<vars, attachmentVars, jobVars>>
  /\ UNCHANGED subject

MCSpec == MCInit /\ [][MCNext]_<<subject, vars, attachmentVars, jobVars, outboxVars>>
=============================================================================
