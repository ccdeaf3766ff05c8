----------------------------- MODULE MCEmployee -----------------------------
(***************************************************************************)
(* What stands between an employee and an application: the admission, the  *)
(* calls the application makes through the gateway, and the conversations. *)
(* They share no state, so every behaviour of this run is a behaviour of   *)
(* one of them, its subject.  Admissions have no fair action, and no fair  *)
(* action of another subject is ever enabled.                              *)
(***************************************************************************)
EXTENDS Admission, Chat, Gateway

VARIABLE subject

At(s, p) == [session |-> s, person |-> p]
MCPlacements == {[t |-> At("a", "p"), u |-> At("a", "p")], [t |-> At("a", "p"), u |-> At("b", "p")],
                 [t |-> At("a", "p"), u |-> At("b", "q")]}

MCInit ==
  /\ subject \in {"admission", "calls", "conversations"} /\ AdmInit /\ Init /\ ChatInit
  /\ subject # "conversations" => place.u = At("a", "p")

MCNext ==
  /\ \/ subject = "admission" /\ AdmNext /\ UNCHANGED <<vars, chatVars>>
     \/ subject = "calls" /\ Next /\ UNCHANGED <<admVars, chatVars>>
     \/ subject = "conversations" /\ ChatNext /\ UNCHANGED <<admVars, vars>>
  /\ UNCHANGED subject

MCSpec == MCInit /\ [][MCNext]_<<subject, admVars, vars, chatVars>> /\ Fairness /\ ChatFairness
=============================================================================
