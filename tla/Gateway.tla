------------------------------ MODULE Gateway ------------------------------
(***************************************************************************)
(* The gateway (gateway/gateway.ts) through which applications call the    *)
(* platform.  Each invocation runs through identity, authorization, the    *)
(* operation, a second authorization and one audit record, while a         *)
(* deadline may answer the caller at any moment before.  The work then     *)
(* goes on in the background and keeps its slot until it and its audit     *)
(* have settled.                                                           *)
(*                                                                         *)
(* A step is what happens between two awaits.  Operations, authorization   *)
(* and the audit store are adapters that answer when they like, fail, or   *)
(* never return; the deadline and the grace period are timers.  Rate       *)
(* limits only refuse and are part of Refuse and Throw.                    *)
(***************************************************************************)
EXTENDS Integers, FiniteSets

CONSTANTS
  Reads, Writes,   \* invocations of operations of either mode
  Concurrency      \* limits.concurrency: slots of the gateway

ASSUME GatewayAssumption == Concurrency \in Nat \ {0}

Invocations == Reads \cup Writes

VARIABLES
  stage,     \* where the work of each invocation stands
  started,   \* writeStarted
  entered,   \* how often the operation of a write was entered
  aborted,   \* controller.signal: "no", or the verdict of the moment it was aborted
  audit,     \* terminalAudit: none, pending, stored or failed
  note,      \* what it says
  reply,     \* what the caller was told
  active     \* GatewayAdmission: slots in use

vars == <<stage, started, entered, aborted, audit, note, reply, active>>

Working == {"reading", "identifying", "authorizing", "executing", "rechecking", "recording",
            "failing"}
Verdicts == {"not_started", "unknown"}

TypeOK ==
  /\ stage \in [Invocations -> Working \cup {"new", "refused", "settled"}]
  /\ started \in [Invocations -> BOOLEAN] /\ entered \in [Invocations -> Nat]
  /\ aborted \in [Invocations -> {"no"} \cup Verdicts]
  /\ audit \in [Invocations -> {"none", "pending", "stored", "failed"}]
  /\ note \in [Invocations -> {"none", "succeeded"} \cup Verdicts]
  /\ reply \in [Invocations -> {"none", "ok"} \cup Verdicts]
  /\ active \in 0..Concurrency

Init ==
  /\ stage = [i \in Invocations |-> "new"]
  /\ started = [i \in Invocations |-> FALSE] /\ entered = [i \in Invocations |-> 0]
  /\ aborted = [i \in Invocations |-> "no"]
  /\ audit = [i \in Invocations |-> "none"] /\ note = audit /\ reply = audit
  /\ active = 0
-----------------------------------------------------------------------------
Verdict(i) == IF started[i] THEN "unknown" ELSE "not_started"

\* recordTerminal(): the first outcome wins; later ones wait for the same record.
Record(i, outcome) ==
  IF audit[i] = "none"
  THEN audit' = [audit EXCEPT ![i] = "pending"] /\ note' = [note EXCEPT ![i] = outcome]
  ELSE UNCHANGED <<audit, note>>

\* Promise.race: the work or the deadline, whichever settles first.
Reply(i, answer) == reply' = IF reply[i] = "none" THEN [reply EXCEPT ![i] = answer] ELSE reply

\* admission.enter(): a slot, and the work begins.
Enter(i) ==
  /\ stage[i] = "new" /\ active < Concurrency
  /\ stage' = [stage EXCEPT ![i] = "reading"] /\ active' = active + 1
  /\ UNCHANGED <<started, entered, aborted, audit, note, reply>>

\* BUSY, RATE_LIMITED or an invalid application id.
Refuse(i) ==
  /\ stage[i] = "new" /\ stage' = [stage EXCEPT ![i] = "refused"]
  /\ reply' = [reply EXCEPT ![i] = "not_started"]
  /\ UNCHANGED <<started, entered, aborted, audit, note, active>>

\* An await that returns in time: check() passes.
Returns(i, from, to) ==
  /\ stage[i] = from /\ aborted[i] = "no" /\ stage' = [stage EXCEPT ![i] = to]

Prepare(i) ==
  /\ Returns(i, "reading", "identifying") \/ Returns(i, "identifying", "authorizing")
  /\ UNCHANGED <<started, entered, aborted, audit, note, reply, active>>

\* Mutant: the write is noted as started when it returns.
ExecuteUnnoted(i) ==
  /\ Returns(i, "authorizing", "executing")
  /\ entered' = [entered EXCEPT ![i] = IF i \in Writes THEN @ + 1 ELSE @]
  /\ UNCHANGED <<started, aborted, audit, note, reply, active>>

\* Authorized: from here on a write may have happened, whatever follows.
Execute(i) ==
  /\ Returns(i, "authorizing", "executing")
  /\ started' = [started EXCEPT ![i] = i \in Writes]
  /\ entered' = [entered EXCEPT ![i] = IF i \in Writes THEN @ + 1 ELSE @]
  /\ UNCHANGED <<aborted, audit, note, reply, active>>

Executed(i) ==
  /\ Returns(i, "executing", "rechecking")
  /\ UNCHANGED <<started, entered, aborted, audit, note, reply, active>>

\* The result may still be seen: the success is recorded before it is delivered.
Succeed(i) ==
  /\ Returns(i, "rechecking", "recording") /\ Record(i, "succeeded")
  /\ UNCHANGED <<started, entered, aborted, reply, active>>

\* Any await that fails, or returns after the deadline; run().catch records the failure.
Throw(i) ==
  /\ stage[i] \in Working \ {"recording", "failing"}
  /\ stage' = [stage EXCEPT ![i] = "failing"] /\ Record(i, Verdict(i))
  /\ UNCHANGED <<started, entered, aborted, reply, active>>

AuditReturns(i) ==
  /\ audit[i] = "pending" /\ \E answer \in {"stored", "failed"} : audit' = [audit EXCEPT ![i] = answer]
  /\ UNCHANGED <<stage, started, entered, aborted, note, reply, active>>

\* Mutant: a failed audit does not spoil a success.
SettleUnaudited(i) ==
  /\ stage[i] \in {"recording", "failing"} /\ audit[i] \in {"stored", "failed"}
  /\ stage' = [stage EXCEPT ![i] = "settled"] /\ active' = active - 1
  /\ Reply(i, IF stage[i] = "recording" /\ aborted[i] = "no" THEN "ok" ELSE Verdict(i))
  /\ UNCHANGED <<started, entered, aborted, audit, note>>

\* The work settles once its audit has: the last check() may still turn a success down,
\* and a failed audit does.  The slot is given back.
Settle(i) ==
  /\ stage[i] \in {"recording", "failing"} /\ audit[i] \in {"stored", "failed"}
  /\ stage' = [stage EXCEPT ![i] = "settled"] /\ active' = active - 1
  /\ Reply(i, IF stage[i] = "recording" /\ aborted[i] = "no" /\ audit[i] = "stored" THEN "ok"
              ELSE Verdict(i))
  /\ UNCHANGED <<started, entered, aborted, audit, note>>

\* The deadline, or the caller's connection is gone: onAbort() records the failure.
Abort(i) ==
  /\ stage[i] \in Working /\ reply[i] = "none" /\ aborted[i] = "no"
  /\ aborted' = [aborted EXCEPT ![i] = Verdict(i)] /\ Record(i, Verdict(i))
  /\ UNCHANGED <<stage, started, entered, reply, active>>

\* Mutant: the deadline waits for the audit, however long it takes.
ExpireAudited(i) ==
  /\ aborted[i] # "no" /\ reply[i] = "none" /\ audit[i] # "pending"
  /\ Reply(i, IF audit[i] = "stored" THEN aborted[i] ELSE Verdict(i))
  /\ UNCHANGED <<stage, started, entered, aborted, audit, note, active>>

\* boundedAudit(): the audit has settled, or the grace period is over; the caller is
\* answered either way.
Expire(i) ==
  /\ aborted[i] # "no" /\ reply[i] = "none"
  /\ Reply(i, IF audit[i] = "stored" THEN aborted[i] ELSE Verdict(i))
  /\ UNCHANGED <<stage, started, entered, aborted, audit, note, active>>

Next == \E i \in Invocations :
  \/ Enter(i) \/ Refuse(i) \/ Prepare(i) \/ Execute(i) \/ Executed(i) \/ Succeed(i) \/ Throw(i)
  \/ AuditReturns(i) \/ Settle(i) \/ Abort(i) \/ Expire(i)

Spec == Init /\ [][Next]_vars

\* Only the timers and the continuations of settled promises are sure to run.
Fairness == \A i \in Invocations : WF_vars(Abort(i)) /\ WF_vars(Expire(i)) /\ WF_vars(Settle(i))

FairSpec == Spec /\ Fairness
-----------------------------------------------------------------------------
(***************************************************************************)
(* What the gateway promises.                                              *)
(***************************************************************************)
Told(i) == CASE stage[i] = "new" -> "new"
             [] reply[i] = "ok" -> "answered"
             [] reply[i] = "not_started" -> "refused"
             [] reply[i] = "unknown" -> "lost"
             [] OTHER -> "open"

Contract == INSTANCE CallContract WITH
  Calls <- Writes,
  phase <- [i \in Writes |-> Told(i)],
  runs <- [i \in Writes |-> entered[i]]

\* A write the caller is told was not started has not been entered and never will be,
\* although the reply may overtake the work; one that was entered is answered or
\* unknown, and none is entered twice (gateway.ts:105, 121, 160, 179).
WritesKeepPromise == Contract!Spec

\* The one audit record tells what the caller is told: a success is only delivered with
\* a stored record of it, and a record that says no write was started stays true
\* (gateway.ts:107-112, 171, 178).
AuditTellsTheTruth == \A i \in Invocations :
  /\ reply[i] = "ok" => audit[i] = "stored" /\ note[i] = "succeeded"
  /\ note[i] = "not_started" => entered[i] = 0
  /\ note[i] = "succeeded" => reply[i] # "not_started" \/ i \in Reads

\* "Bounded replies must not create unbounded background writes" (gateway.ts:174-182):
\* work and audits that are still under way after their callers were answered count
\* against the limit.
BackgroundBounded ==
  Cardinality({i \in Invocations : stage[i] \in Working \/ audit[i] = "pending"}) <= Concurrency

\* Every invocation is answered although an operation, an authorization or the audit
\* store never returns (gateway.ts:11, 94-95, 120-126).
InvocationsAnswered == \A i \in Invocations : stage[i] \in Working ~> reply[i] # "none"
=============================================================================
