---------------------------- MODULE MCBackground ----------------------------
(***************************************************************************)
(* The work that goes on behind requests and has to end: the runs of a job *)
(* on one server, and the index of a library.  They share no state, so     *)
(* every behaviour of this run is a behaviour of one of them, its subject, *)
(* and no fair action of the other is ever enabled.                        *)
(***************************************************************************)
EXTENDS Jobs, KnowledgeIndex

VARIABLE subject

MCInit ==
  /\ subject \in {"jobs", "index"} /\ JobInit /\ KnowledgeInit
  /\ subject # "jobs" => job = [locked |-> FALSE, timed |-> FALSE, delayed |-> FALSE]

MCNext ==
  /\ \/ subject = "jobs" /\ JobNext /\ UNCHANGED knowledgeVars
     \/ subject = "index" /\ KnowledgeNext /\ UNCHANGED jobVars
  /\ UNCHANGED subject

MCSpec == MCInit /\ [][MCNext]_<<subject, jobVars, knowledgeVars>> /\ JobFairness /\ KnowledgeFairness
=============================================================================
