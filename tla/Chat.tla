-------------------------------- MODULE Chat --------------------------------
(***************************************************************************)
(* Conversations (platform/chat/index.ts): a message becomes a turn in the *)
(* database and a run in memory that routes it, calls an application once  *)
(* and writes the outcome.  Retries of a message, cancel, the sixty        *)
(* seconds, restarts and failing writes all meet on the status of a turn.  *)
(*                                                                         *)
(* A step is what happens between two awaits; a transaction under the row  *)
(* lock of the conversation is one step.  Texts, routing and access keys   *)
(* are left out: a run may end in any way they allow.                      *)
(***************************************************************************)
EXTENDS Integers, FiniteSets

CONSTANTS
  Turns,       \* requestId
  People,      \* employees
  Placements,  \* [turn -> [session, person]]: the conversations turns are sent to, and whose they are
  Capacity,    \* 16: runs at a time
  MaxFaults,   \* bound: database writes whose outcome is lost or that fail for good
  MaxRestarts, \* bound
  NoTurn

ASSUME ChatAssumption ==
  /\ Capacity \in Nat \ {0} /\ MaxFaults \in Nat /\ MaxRestarts \in Nat /\ NoTurn \notin Turns
  /\ IsFiniteSet(People) /\ \A at \in Placements, t \in Turns : at[t].person \in People

Endings == {"completed", "failed", "cancelled", "interrupted"}

VARIABLES
  place,      \* platform_chat_turns.session_id and platform_chat_sessions.person_id, never changed
  status,     \* platform_chat_turns.status, "none" before there is a row
  admitting,  \* admitting: the turn each employee is sending
  created,    \* employees whose transaction has created the turn
  work,       \* active: what the run of a turn is doing, and what it will write
  signalled,    \* the signal of a run and its reason
  cancelling, \* cancel() has signalled and will write
  invoked,    \* history: how often the application was called for a turn
  served,     \* the server runs
  abandoned,  \* history: turns whose last write failed, or was not known to succeed
  faults, restarts

chatVars == <<place, status, admitting, created, work, signalled, cancelling, invoked, served, abandoned,
              faults, restarts>>

Session(t) == place[t].session
Person(t) == place[t].person
Active == {t \in Turns : work[t] # "none"}

ChatTypeOK ==
  /\ place \in Placements /\ status \in [Turns -> {"none", "running"} \cup Endings]
  /\ admitting \in [People -> Turns \cup {NoTurn}] /\ created \subseteq People
  /\ work \in [Turns -> {"none", "routing", "calling", "completed", "failed", "cancelled"}]
  /\ signalled \in [Turns -> {"no", "timeout", "cancel"}]
  /\ cancelling \subseteq Turns /\ abandoned \subseteq Turns /\ served \in BOOLEAN
  /\ invoked \in [Turns -> Nat] /\ faults \in 0..MaxFaults /\ restarts \in 0..MaxRestarts

ChatInit ==
  /\ place \in Placements /\ status = [t \in Turns |-> "none"] /\ work = status /\ signalled = [t \in Turns |-> "no"]
  /\ admitting = [p \in People |-> NoTurn] /\ created = {} /\ cancelling = {}
  /\ invoked = [t \in Turns |-> 0] /\ served = TRUE /\ abandoned = {}
  /\ faults = 0 /\ restarts = 0
-----------------------------------------------------------------------------
\* send(): one message of an employee at a time; a retry carries the same turn.
Send(t) ==
  /\ served /\ admitting[Person(t)] = NoTurn
  /\ admitting' = [admitting EXCEPT ![Person(t)] = t]
  /\ UNCHANGED <<place, status, created, work, signalled, cancelling, invoked, served, abandoned, faults,
                 restarts>>

\* Mutant: messages that are being admitted are not counted.
BusyActive(t) ==
  \/ \E u \in Turns : Session(u) = Session(t) /\ status[u] = "running"
  \/ Cardinality(Active) >= Capacity
  \/ \E u \in Active : Person(u) = Person(t)

\* CHAT_BUSY: a turn of the conversation is running, all places are taken or being
\* taken, or the employee has a run in another conversation.
Busy(t) ==
  \/ \E u \in Turns : Session(u) = Session(t) /\ status[u] = "running"
  \/ Cardinality(Active) + Cardinality({p \in People : admitting[p] # NoTurn}) > Capacity
  \/ \E u \in Active : Person(u) = Person(t)

\* A turn that has a row is answered from it, whatever has become of it.
Fresh(t) == status[t] = "none"

\* The transaction of send().  Its commit may take effect although the connection fails:
\* then nobody runs the turn.
Transact(p) ==
  LET t == admitting[p] IN
  /\ t # NoTurn /\ p \notin created
  /\ IF Fresh(t) /\ ~Busy(t)
     THEN /\ status' = [status EXCEPT ![t] = "running"]
          /\ \/ created' = created \cup {p} /\ UNCHANGED <<admitting, abandoned, faults>>
             \/ /\ faults < MaxFaults /\ faults' = faults + 1
                /\ admitting' = [admitting EXCEPT ![p] = NoTurn]
                /\ abandoned' = abandoned \cup {t} /\ UNCHANGED created
     ELSE admitting' = [admitting EXCEPT ![p] = NoTurn]
          /\ UNCHANGED <<status, created, abandoned, faults>>
  /\ UNCHANGED <<place, work, signalled, cancelling, invoked, served, restarts>>

\* The run starts, whatever happened to the row since.
Start(p) ==
  LET t == admitting[p] IN
  /\ p \in created /\ created' = created \ {p}
  /\ admitting' = [admitting EXCEPT ![p] = NoTurn]
  /\ work' = [work EXCEPT ![t] = "routing"] /\ signalled' = [signalled EXCEPT ![t] = "no"]
  /\ UNCHANGED <<place, status, cancelling, invoked, served, abandoned, faults, restarts>>

\* Routed, and the signal is still quiet: the application is called; or the reply needs
\* no application; or routing, the access or the catalogue fails.
Route(t) ==
  /\ work[t] = "routing" /\ signalled[t] = "no"
  /\ \/ work' = [work EXCEPT ![t] = "calling"] /\ invoked' = [invoked EXCEPT ![t] = @ + 1]
     \/ \E end \in {"completed", "failed"} : work' = [work EXCEPT ![t] = end] /\ UNCHANGED invoked
  /\ UNCHANGED <<place, status, admitting, created, signalled, cancelling, served, abandoned, faults, restarts>>

\* The application answers, rightly or not, before the signal.
Answered(t) ==
  /\ work[t] = "calling" /\ signalled[t] = "no"
  /\ \E end \in {"completed", "failed"} : work' = [work EXCEPT ![t] = end]
  /\ UNCHANGED <<place, status, admitting, created, signalled, cancelling, invoked, served, abandoned,
                 faults, restarts>>

\* The sixty seconds of a run.
Timeout(t) ==
  /\ work[t] # "none" /\ signalled[t] = "no"
  /\ signalled' = [signalled EXCEPT ![t] = "timeout"]
  /\ UNCHANGED <<place, status, admitting, created, work, cancelling, invoked, served, abandoned, faults,
                 restarts>>

\* The signal wins the race; whatever routing or the application still return is lost.
Stopped(t) ==
  /\ work[t] \in {"routing", "calling"} /\ signalled[t] # "no"
  /\ work' = [work EXCEPT ![t] = IF signalled[t] = "timeout" THEN "failed" ELSE "cancelled"]
  /\ UNCHANGED <<place, status, admitting, created, signalled, cancelling, invoked, served, abandoned,
                 faults, restarts>>

\* Mutant: the outcome is written whatever the row says.
WriteAnyhow(t) ==
  /\ work[t] \in {"completed", "failed", "cancelled"}
  /\ status' = [status EXCEPT ![t] = work[t]] /\ work' = [work EXCEPT ![t] = "none"]
  /\ signalled' = [signalled EXCEPT ![t] = "no"]
  /\ UNCHANGED <<place, admitting, created, cancelling, invoked, served, abandoned, faults, restarts>>

\* The last write of a run, only over 'running'.  When writing a success fails, the
\* failure is written; when that fails, nothing more happens.
Write(t) ==
  /\ work[t] \in {"completed", "failed", "cancelled"}
  /\ \/ /\ status' = [status EXCEPT ![t] = IF @ = "running" THEN work[t] ELSE @]
        /\ work' = [work EXCEPT ![t] = "none"] /\ signalled' = [signalled EXCEPT ![t] = "no"]
        /\ UNCHANGED <<abandoned, faults>>
     \/ /\ faults < MaxFaults /\ faults' = faults + 1 /\ UNCHANGED status
        /\ IF work[t] = "completed"
           THEN /\ work' = [work EXCEPT ![t] = IF signalled[t] = "cancel" THEN "cancelled" ELSE "failed"]
                /\ UNCHANGED <<signalled, abandoned>>
           ELSE /\ work' = [work EXCEPT ![t] = "none"] /\ signalled' = [signalled EXCEPT ![t] = "no"]
                /\ abandoned' = abandoned \cup {t}
  /\ UNCHANGED <<place, admitting, created, cancelling, invoked, served, restarts>>

\* cancel(): found, and the run, if there is one, is signalled.  Of a turn that has ended
\* already it would change nothing.
Cancel(t) ==
  /\ served /\ status[t] = "running" /\ t \notin cancelling /\ cancelling' = cancelling \cup {t}
  /\ signalled' = [signalled EXCEPT ![t] = IF work[t] # "none" /\ @ = "no" THEN "cancel" ELSE @]
  /\ UNCHANGED <<place, status, admitting, created, work, invoked, served, abandoned, faults, restarts>>

\* The write of cancel(), also over 'running' only.
Cancelled(t) ==
  /\ t \in cancelling /\ cancelling' = cancelling \ {t}
  /\ status' = [status EXCEPT ![t] = IF @ = "running" THEN "cancelled" ELSE @]
  /\ UNCHANGED <<place, admitting, created, work, signalled, invoked, served, abandoned, faults, restarts>>

\* close(): every run is signalled, and waited for.
Close ==
  /\ served /\ restarts < MaxRestarts /\ Active # {}
  /\ signalled' = [t \in Turns |-> IF work[t] # "none" /\ signalled[t] = "no" THEN "cancel" ELSE signalled[t]]
  /\ UNCHANGED <<place, status, admitting, created, work, cancelling, invoked, served, abandoned, faults,
                 restarts>>

\* The process ends, in order or not.
Crash ==
  /\ served /\ restarts < MaxRestarts /\ restarts' = restarts + 1 /\ served' = FALSE
  /\ work' = [t \in Turns |-> "none"] /\ signalled' = [t \in Turns |-> "no"]
  /\ admitting' = [p \in People |-> NoTurn] /\ created' = {} /\ cancelling' = {}
  /\ UNCHANGED <<place, status, invoked, abandoned, faults>>

\* Mutant: initialize() leaves the turns as they are.
BootAsIs ==
  /\ ~served /\ served' = TRUE
  /\ UNCHANGED <<place, status, admitting, created, work, signalled, cancelling, invoked, abandoned, faults,
                 restarts>>

\* initialize(): what was running has been interrupted.
Boot ==
  /\ ~served /\ served' = TRUE
  /\ status' = [t \in Turns |-> IF status[t] = "running" THEN "interrupted" ELSE status[t]]
  /\ UNCHANGED <<place, admitting, created, work, signalled, cancelling, invoked, abandoned, faults, restarts>>

ChatNext ==
  \/ \E p \in People : Transact(p) \/ Start(p)
  \/ \E t \in Turns : \/ Send(t) \/ Route(t) \/ Answered(t) \/ Timeout(t) \/ Stopped(t) \/ Write(t)
                      \/ Cancel(t) \/ Cancelled(t)
  \/ Close \/ Crash \/ Boot

ChatSpec == ChatInit /\ [][ChatNext]_chatVars

\* The timer fires, a settled promise goes on, the database answers and the service is
\* started again.  Routing and applications owe nothing.
ChatFairness ==
  /\ WF_chatVars(Boot) /\ \A p \in People : WF_chatVars(Start(p))
  /\ \A t \in Turns : WF_chatVars(Timeout(t)) /\ WF_chatVars(Stopped(t)) /\ WF_chatVars(Write(t))
-----------------------------------------------------------------------------
(***************************************************************************)
(* What a conversation may rely on.                                        *)
(***************************************************************************)
\* One run per employee and at most sixteen in all, also while messages are being
\* admitted, and no message is handed to an application twice, by a retry or after a
\* restart (index.ts:30, 49, 58-61).
OneRunEach ==
  /\ Cardinality(Active) <= Capacity
  /\ \A t, u \in Active : t # u => Person(t) # Person(u)
  /\ \A t \in Turns : invoked[t] <= 1

\* A turn that ended, in whatever way, stays as it ended: a late answer does not undo a
\* cancellation, nor a cancellation an answer (index.ts:80, 119, 124).
EndingIsFinal == [][\A t \in Turns : status[t] \in Endings => status'[t] = status[t]]_chatVars

\* A turn does not stay 'running' for ever, although the model or the application never
\* answers and the server restarts; unless the database failed at its last write, and
\* then until someone cancels it (index.ts:35, 68, 115-124).
TurnsEnd == \A t \in Turns :
  status[t] = "running" /\ t \notin abandoned ~> status[t] # "running" \/ t \in abandoned
=============================================================================
