----------------------------- MODULE AppProcess -----------------------------
(***************************************************************************)
(* One application back end in its own Node process (v2/process.ts) and the *)
(* program in that process (v2/child.ts).  The parent keeps a state, the    *)
(* current child and the calls it has sent; it talks to the child over a    *)
(* FIFO channel in each direction and learns of the child's death from an   *)
(* 'exit' event, which is not ordered with the messages the child sent      *)
(* before it died.                                                         *)
(*                                                                         *)
(* Children are numbered in the order they are forked; child 1 is the one   *)
(* start() waits for and every later one was forked by the restart timer.   *)
(* Time is abstract: a timer that is set may fire at any moment.  Left out: *)
(* the 'abort' message (its only effect is on the application's own         *)
(* handler, which may already answer, fail or hang), platform requests (see *)
(* AppHost) and logging.                                                   *)
(***************************************************************************)
EXTENDS Integers, Sequences, FiniteSets

CONSTANTS
  Calls,        \* employee calls
  MaxCalls,     \* MAX_CALLS: calls in flight at once
  CrashLimit,   \* CRASH_LIMIT: crashes within the window that end restarting
  MaxChildren   \* bound of the model: no restart is scheduled beyond this child

ASSUME ProcessAssumption ==
  /\ MaxCalls \in Nat \ {0}
  /\ CrashLimit \in Nat \ {0}
  /\ MaxChildren \in Nat \ {0}

VARIABLES
  state,      \* AppProcessState, as status() shows it
  child,      \* the current child, 0 for null
  forked,     \* number of children forked so far
  settled,    \* children whose spawn() promise is settled
  readied,    \* children that have reported ready
  exited,     \* children whose 'exit' event has been handled
  timer,      \* the restart timer is set
  crashes,    \* crashes still in the window
  stopping,   \* stop() has been called
  starter,    \* start(): "none", "waiting", "ok" or "failed"
  stopper,    \* stop(): "none", "waiting" or "done"
  call,       \* what the caller of each call knows
  os,         \* each child in the operating system: "none", "up", "killed", "dead"
  prog,       \* its program: "loading", "serving", "fatal" or "stopping"
  toChild,    \* messages on their way to each child
  toParent,   \* and from it
  handling,   \* calls whose handler is running, with the child they run in
  runs        \* how often a handler was entered for each call

parentVars == <<state, child, forked, settled, readied, exited, timer, crashes, stopping,
                starter, stopper, call>>
childVars == <<os, prog, toChild, toParent, handling, runs>>
vars == <<parentVars, childVars>>

Children == 1..MaxChildren
Msg(t, k) == [t |-> t, call |-> k]
NoCall == "none"
Messages == [t : {"call", "stop", "ready", "fatal", "result", "error"}, call : Calls \cup {NoCall}]

Pending == {k \in Calls : call[k] = "pending"}

TypeOK ==
  /\ state \in {"stopped", "starting", "running", "restarting", "failed"}
  /\ child \in Children \cup {0} /\ forked \in 0..MaxChildren
  /\ settled \subseteq Children /\ readied \subseteq Children /\ exited \subseteq Children
  /\ timer \in BOOLEAN /\ crashes \in Nat /\ stopping \in BOOLEAN
  /\ starter \in {"none", "waiting", "ok", "failed"}
  /\ stopper \in {"none", "waiting", "done"}
  /\ call \in [Calls -> {"new", "pending", "ok", "error", "unknown", "not_started"}]
  /\ os \in [Children -> {"none", "up", "killed", "dead"}]
  /\ prog \in [Children -> {"loading", "serving", "fatal", "stopping"}]
  /\ toChild \in [Children -> Seq(Messages)] /\ toParent \in [Children -> Seq(Messages)]
  /\ handling \subseteq Calls \X Children
  /\ runs \in [Calls -> Nat]

Init ==
  /\ state = "stopped" /\ child = 0 /\ forked = 0
  /\ settled = {} /\ readied = {} /\ exited = {}
  /\ timer = FALSE /\ crashes = 0 /\ stopping = FALSE
  /\ starter = "none" /\ stopper = "none"
  /\ call = [k \in Calls |-> "new"]
  /\ os = [c \in Children |-> "none"] /\ prog = [c \in Children |-> "loading"]
  /\ toChild = [c \in Children |-> <<>>] /\ toParent = [c \in Children |-> <<>>]
  /\ handling = {} /\ runs = [k \in Calls |-> 0]
Alive(c) == os[c] \in {"up", "killed"}
-----------------------------------------------------------------------------
(* The parent: start, restart, stop.                                       *)

\* fork() and the listeners; only a restarted child shows as 'restarting'.
Spawn ==
  /\ forked' = forked + 1
  /\ child' = forked'
  /\ state' = IF forked > 0 /\ ~stopping THEN "restarting" ELSE "starting"
  /\ os' = [os EXCEPT ![forked'] = "up"]

Start ==
  /\ starter = "none" /\ stopper = "none"
  /\ Spawn
  /\ starter' = "waiting" /\ crashes' = 0 /\ stopping' = FALSE
  /\ UNCHANGED <<settled, readied, exited, timer, stopper, call, prog, toChild, toParent,
                 handling, runs>>

\* Mutant: the timer is not reset when it fires.
RestartTimerKept ==
  /\ timer /\ UNCHANGED timer
  /\ Spawn
  /\ UNCHANGED <<settled, readied, exited, crashes, stopping, starter, stopper, call, prog,
                 toChild, toParent, handling, runs>>

\* The delay is at least a second, and what a dead child left in its pipe is read
\* long before that.
RestartTimer ==
  /\ timer /\ \A c \in exited : toParent[c] = <<>>
  /\ timer' = FALSE
  /\ Spawn
  /\ UNCHANGED <<settled, readied, exited, crashes, stopping, starter, stopper, call, prog,
                 toChild, toParent, handling, runs>>

\* Settling the promise of spawn(): child 1 answers start(), a restarted child only
\* marks the process as failed when its promise is rejected.
SpawnFails(c) ==
  /\ settled' = settled \cup {c}
  /\ state' = "failed"
  /\ starter' = IF c = 1 THEN "failed" ELSE starter

\* READY_TIMEOUT: report the failure and SIGKILL the child.
ReadyTimeout(c) ==
  /\ c = child /\ c \notin settled
  /\ SpawnFails(c)
  /\ os' = [os EXCEPT ![c] = IF @ = "up" THEN "killed" ELSE @]
  /\ UNCHANGED <<child, forked, readied, exited, timer, crashes, stopping, stopper, call,
                 prog, toChild, toParent, handling, runs>>

\* What the parent sends to a child that has died is lost.
Post(m) == toChild' = [toChild EXCEPT ![child] = IF Alive(child) THEN Append(@, m) ELSE @]

\* stop(): clears the restart timer; with a child, sends 'stop' and waits for its exit.
Stop ==
  /\ starter \in {"ok", "failed"} /\ stopper = "none"
  /\ stopping' = TRUE /\ timer' = FALSE
  /\ \/ /\ child = 0
        /\ state' = "stopped" /\ stopper' = "done"
        /\ UNCHANGED toChild
     \/ /\ child # 0
        /\ stopper' = "waiting"
        /\ Post(Msg("stop", NoCall))
        /\ UNCHANGED state
  /\ UNCHANGED <<child, forked, settled, readied, exited, crashes, starter, call, os, prog,
                 toParent, handling, runs>>

\* Mutant: only a child that has loaded is killed.
StopGraceWhenServing ==
  /\ stopper = "waiting" /\ os[child] = "up" /\ prog[child] = "serving"
  /\ os' = [os EXCEPT ![child] = "killed"]
  /\ UNCHANGED <<parentVars, prog, toChild, toParent, handling, runs>>

\* STOP_GRACE: SIGKILL.
StopGrace ==
  /\ stopper = "waiting" /\ os[child] = "up"
  /\ os' = [os EXCEPT ![child] = "killed"]
  /\ UNCHANGED <<parentVars, prog, toChild, toParent, handling, runs>>

Lost == [k \in Calls |-> IF k \in Pending THEN "unknown" ELSE call[k]]

Crashed(c) == c \in settled /\ ~stopping /\ c \in readied

TooMany(n) == n >= CrashLimit

\* The 'exit' event: every pending call is lost, whichever child it was sent to;
\* then a failed start, an expected exit, or a crash that may be restarted.
Exit(c) ==
  /\ os[c] = "dead" /\ c \notin exited
  /\ exited' = exited \cup {c}
  /\ child' = IF child = c THEN 0 ELSE child
  /\ call' = Lost
  /\ stopper' = IF stopper = "waiting" /\ child = c THEN "done" ELSE stopper
  /\ \/ /\ c \notin settled
        /\ settled' = settled \cup {c}
        /\ state' = IF stopper = "waiting" THEN "stopped" ELSE "failed"
        /\ starter' = IF c = 1 THEN "failed" ELSE starter
        /\ UNCHANGED <<timer, crashes>>
     \/ /\ c \in settled /\ stopping
        /\ state' = "stopped"
        /\ UNCHANGED <<settled, starter, timer, crashes>>
     \/ /\ c \in settled /\ ~stopping /\ c \notin readied
        /\ state' = "failed"
        /\ UNCHANGED <<settled, starter, timer, crashes>>
     \/ /\ Crashed(c)
        /\ \E recent \in 0..crashes : crashes' = recent + 1
        /\ IF TooMany(crashes')
           THEN state' = "failed" /\ UNCHANGED timer
           ELSE state' = "restarting" /\ timer' = (forked < MaxChildren)
        /\ UNCHANGED <<settled, starter>>
  /\ handling' = {h \in handling : h[2] # c}
  /\ UNCHANGED <<forked, readied, stopping, os, prog, toChild, toParent, runs>>
-----------------------------------------------------------------------------
(* The parent: messages and calls.                                         *)

Settle(k, outcome) == call' = [call EXCEPT ![k] = outcome]

\* A message from a child.  'ready' marks the process running even when its start
\* was reported as failed before; a result nobody waits for is dropped.
Receive(c) ==
  /\ toParent[c] # <<>>
  /\ toParent' = [toParent EXCEPT ![c] = Tail(@)]
  /\ LET m == Head(toParent[c]) IN
     \/ /\ m.t = "ready"
        /\ readied' = readied \cup {c} /\ state' = "running"
        /\ settled' = settled \cup {c}
        /\ starter' = IF c = 1 /\ c \notin settled THEN "ok" ELSE starter
        /\ UNCHANGED call
     \/ /\ m.t = "fatal" /\ c \notin settled
        /\ SpawnFails(c)
        /\ UNCHANGED <<readied, call>>
     \/ /\ m.t = "fatal" /\ c \in settled
        /\ UNCHANGED <<readied, call, state, settled, starter>>
     \/ /\ m.t \in {"result", "error"}
        /\ IF m.call \in Pending
           THEN Settle(m.call, IF m.t = "result" THEN "ok" ELSE "error")
           ELSE UNCHANGED call
        /\ UNCHANGED <<readied, state, settled, starter>>
  /\ UNCHANGED <<child, forked, exited, timer, crashes, stopping, stopper, os, prog, toChild,
                 handling, runs>>

\* call(): refused unless the process is running with a connected child and has
\* room; sending can still fail when the child has just died.
Call(k) ==
  /\ call[k] = "new"
  /\ \/ /\ \/ state # "running" \/ child = 0
           \/ Cardinality(Pending) >= MaxCalls
           \/ child # 0 /\ os[child] = "dead"
        /\ Settle(k, "not_started")
        /\ UNCHANGED toChild
     \/ /\ state = "running" /\ child # 0 /\ Cardinality(Pending) < MaxCalls
        /\ Settle(k, "pending")
        /\ Post(Msg("call", k))
  /\ UNCHANGED <<state, child, forked, settled, readied, exited, timer, crashes, stopping,
                 starter, stopper, os, prog, toParent, handling, runs>>

\* Mutant: a timeout is reported as not started.
GiveUpNotStarted(k) ==
  /\ k \in Pending
  /\ Settle(k, "not_started")
  /\ UNCHANGED <<state, child, forked, settled, readied, exited, timer, crashes, stopping,
                 starter, stopper, childVars>>

\* The call's timer, or the caller's abort signal.
GiveUp(k) ==
  /\ k \in Pending
  /\ Settle(k, "unknown")
  /\ UNCHANGED <<state, child, forked, settled, readied, exited, timer, crashes, stopping,
                 starter, stopper, childVars>>
-----------------------------------------------------------------------------
(* The child: only a living one acts.                                      *)

Tell(c, m) == toParent' = [toParent EXCEPT ![c] = Append(@, m)]

\* The bundle is loaded: 'ready', or 'fatal' and out.
Load(c) ==
  /\ Alive(c) /\ prog[c] = "loading"
  /\ \/ prog' = [prog EXCEPT ![c] = "serving"] /\ Tell(c, Msg("ready", NoCall))
     \/ prog' = [prog EXCEPT ![c] = "fatal"] /\ Tell(c, Msg("fatal", NoCall))
  /\ UNCHANGED <<parentVars, os, toChild, handling, runs>>

\* The message listener; it goes on serving while the stop hook runs.
Handle(c) ==
  /\ Alive(c) /\ prog[c] \in {"serving", "stopping"} /\ toChild[c] # <<>>
  /\ toChild' = [toChild EXCEPT ![c] = Tail(@)]
  /\ LET m == Head(toChild[c]) IN
     \/ /\ m.t = "call"
        /\ handling' = handling \cup {<<m.call, c>>}
        /\ runs' = [runs EXCEPT ![m.call] = @ + 1]
        /\ UNCHANGED prog
     \/ /\ m.t = "stop"
        /\ prog' = [prog EXCEPT ![c] = "stopping"]
        /\ UNCHANGED <<handling, runs>>
  /\ UNCHANGED <<parentVars, os, toParent>>

\* A handler returns or throws.
Finish(k, c) ==
  /\ Alive(c) /\ <<k, c>> \in handling
  /\ handling' = handling \ {<<k, c>>}
  /\ \E t \in {"result", "error"} : Tell(c, Msg(t, k))
  /\ UNCHANGED <<parentVars, os, prog, toChild, runs>>

\* process.exit after 'fatal' or the stop hook, SIGKILL, a crash, out of memory: what
\* was not read is lost, what was sent stays in the pipe.
Die(c) ==
  /\ Alive(c)
  /\ os' = [os EXCEPT ![c] = "dead"]
  /\ toChild' = [toChild EXCEPT ![c] = <<>>]
  /\ UNCHANGED <<parentVars, prog, toParent, handling, runs>>

Next ==
  \/ Start \/ RestartTimer \/ Stop \/ StopGrace
  \/ \E c \in Children : \/ ReadyTimeout(c) \/ Exit(c) \/ Receive(c)
                         \/ Load(c) \/ Handle(c) \/ Die(c)
  \/ \E k \in Calls : Call(k) \/ GiveUp(k) \/ \E c \in Children : Finish(k, c)

Spec == Init /\ [][Next]_vars

\* Timers fire, the kernel kills and reports, the event loop delivers.  Nothing is
\* assumed of the application: it may never load, never answer, never stop.
Fairness ==
  /\ WF_vars(RestartTimer) /\ WF_vars(StopGrace)
  /\ \A c \in Children : /\ WF_vars(ReadyTimeout(c)) /\ WF_vars(Exit(c)) /\ WF_vars(Receive(c))
                         /\ WF_vars(os[c] = "killed" /\ Die(c))
  /\ \A k \in Calls : WF_vars(GiveUp(k))

FairSpec == Spec /\ Fairness
-----------------------------------------------------------------------------
(***************************************************************************)
(* What the process promises.                                              *)
(***************************************************************************)
Told(k) == CASE call[k] = "new" -> "new"
             [] call[k] = "not_started" -> "refused"
             [] call[k] = "pending" -> "open"
             [] call[k] \in {"ok", "error"} -> "answered"
             [] call[k] = "unknown" -> "lost"

Promise == INSTANCE CallContract WITH phase <- [k \in Calls |-> Told(k)]

\* The outcomes keep the promise of CallContract: 'not_started' means no handler ever
\* saw the call, an answer comes from a handler that ran, and no restart, timeout or
\* exit makes a call run twice (process.ts:59-73, 138-141, 152).
CallsKeepPromise == Promise!Spec

\* There is never a second child while one may still be running, although children are
\* forked by start() and by a timer and killed by two other timers; and a pending call
\* waits for the current child: it was sent to it and to no other, so the exit event that
\* fails all pending calls fails only calls that are lost.
OneChildServes ==
  /\ Cardinality({c \in Children : Alive(c)}) <= 1
  /\ \A k \in Pending : \E c \in Children :
       /\ c = child
       /\ \A d \in Children \ {c} :
            <<k, d>> \notin handling /\ \A i \in DOMAIN toChild[d] : toChild[d][i] # Msg("call", k)

\* When stop() has returned nothing of the application is left and nothing will bring it
\* back: no child lives and no restart timer is set.  Nor after the crashes that reached
\* the limit: the process stays failed until it is started again (process.ts:76-87, 161).
NothingBringsItBack ==
  /\ stopper = "done" => ~timer /\ \A c \in Children : ~Alive(c)
  /\ crashes >= CrashLimit => ~timer /\ state \in {"failed", "stopped"}

\* The four timers and stop() decide about the children together: one serves, and none comes
\* back after an end (process.ts:76-87, 106-172).
ChildrenObey == TypeOK /\ OneChildServes /\ NothingBringsItBack

\* stop() returns, whatever the application does with the 'stop' message.
StopReturns == stopper = "waiting" ~> stopper = "done"

\* Every call is answered, given up or lost; none waits for ever.
CallsSettle == \A k \in Calls : k \in Pending ~> k \notin Pending

\* Whoever waits for the process, for a call or for its end, is answered (process.ts:59-87).
CallsAndStopEnd == StopReturns /\ CallsSettle

\* The design document's stop: wait for the calls in flight, then stop the process
\* (docs/app-model-v2.md:143).  There is no timer in stop() before the message is sent.
StopWaitsForCalls == [][stopper = "none" /\ stopper' # "none" => Pending = {}]_vars
=============================================================================
