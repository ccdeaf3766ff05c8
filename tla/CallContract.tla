---------------------------- MODULE CallContract ----------------------------
(***************************************************************************)
(* What an application's process and the gateway promise their callers: the *)
(* outcome a caller sees tells it whether a write may be repeated.  A       *)
(* refused call ('not_started') never reaches a handler, before or after    *)
(* the refusal; an answered one has run; for a lost one ('unknown') the     *)
(* handler may have run or may still run.  No call reaches a handler twice. *)
(***************************************************************************)
EXTENDS Naturals

CONSTANT Calls

VARIABLES
  phase,    \* what the caller has been told about each call
  runs      \* how often a handler was entered for it

Phases == {"new", "refused", "open", "answered", "lost"}

Init ==
  /\ phase = [k \in Calls |-> "new"]
  /\ runs = [k \in Calls |-> 0]

Refuse(k) ==
  /\ phase[k] \in {"new", "open"} /\ runs[k] = 0
  /\ phase' = [phase EXCEPT ![k] = "refused"]
  /\ UNCHANGED runs

Accept(k) == phase[k] = "new" /\ phase' = [phase EXCEPT ![k] = "open"] /\ UNCHANGED runs

Run(k) ==
  /\ phase[k] \in {"open", "lost"} /\ runs[k] = 0
  /\ runs' = [runs EXCEPT ![k] = 1]
  /\ UNCHANGED phase

Answer(k) ==
  /\ phase[k] = "open" /\ runs[k] = 1
  /\ phase' = [phase EXCEPT ![k] = "answered"]
  /\ UNCHANGED runs

\* A process that exits loses every open call at once.
Lose(ks) ==
  /\ \A k \in ks : phase[k] = "open"
  /\ phase' = [k \in Calls |-> IF k \in ks THEN "lost" ELSE phase[k]]
  /\ UNCHANGED runs

Next ==
  \/ \E k \in Calls : Refuse(k) \/ Accept(k) \/ Run(k) \/ Answer(k)
  \/ \E ks \in SUBSET Calls : Lose(ks)

Spec == Init /\ [][Next]_<<phase, runs>>
=============================================================================
