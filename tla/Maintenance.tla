---------------------------- MODULE Maintenance ----------------------------
(***************************************************************************)
(* Platform maintenance (updates/maintenance.ts): before an update the     *)
(* host's updater has every enabled application disabled (prepare), and    *)
(* afterwards those are enabled again (restore).  The intent for each      *)
(* application is in a file that is written before every lifecycle         *)
(* operation, and the API may die between any two steps: the updater even  *)
(* replaces it between prepare and restore.                                *)
(*                                                                         *)
(* prepare and restore run in the management queue, one at a time.  Each   *)
(* step below is what happens between two of their awaits.  An application *)
(* is what its host's status() shows of it, the record's enabled and       *)
(* revision and whether its process runs for that revision, and whether    *)
(* the record's last lifecycle operation is still open.                    *)
(***************************************************************************)
EXTENDS Integers

CONSTANTS
  N,          \* number of applications, listed as 1..N
  Tasks,      \* update tasks
  MaxTasks,   \* bound of the model: how often prepare begins
  MaxEdits,   \* bound of the model: changes made by administrators
  MaxCrashes  \* bound of the model: deaths of the API

ASSUME MaintenanceAssumption ==
  N \in Nat /\ MaxTasks \in Nat /\ MaxEdits \in Nat /\ MaxCrashes \in Nat

Apps == 1..N
None == [task |-> "none", phase |-> "completed", apps |-> <<>>]

VARIABLES
  up, gate,     \* the API runs; maintenanceBlocked
  snap, saved,  \* the snapshot in memory and in the file
  pc, at,       \* where prepare or restore stands, and at which application
  enabled, rev, \* the record of each application
  host, alive,  \* the revision its host serves (0 for none), and its child
  stuck,        \* applications with a lifecycle operation that was not completed
  begun, edits, crashes,   \* counters of the bounds
  was,          \* history: what each application was when the task began
  disables, enables   \* history: how often each has been disabled and enabled since

file == <<snap, saved>>
apps == <<enabled, rev, host, alive, stuck>>
rest == <<begun, edits, crashes, was>>
vars == <<up, gate, file, pc, at, apps, rest, disables, enables>>

Serving(a) == enabled[a] /\ host[a] = rev[a] /\ alive[a]
Active(s) == s.phase # "completed"

Entry == [rev : Nat, enabled : BOOLEAN, serving : BOOLEAN,
          phase : {"unchanged", "stopping", "stopped", "starting", "restored"}]
Snapshot == [task : Tasks \cup {"none"},
             phase : {"draining", "paused", "restoring", "completed", "blocked"},
             apps : {<<>>} \cup [Apps -> Entry]]

TypeOK ==
  /\ up \in BOOLEAN /\ gate \in BOOLEAN /\ snap \in Snapshot /\ saved \in Snapshot
  /\ pc \in {"idle", "collect", "visit", "match", "disable", "stopped", "review", "enable",
             "restored", "block"}
  /\ at \in 0..N + 1
  /\ enabled \in [Apps -> BOOLEAN] /\ rev \in [Apps -> Nat]
  /\ host \in [Apps -> Nat] /\ alive \in [Apps -> BOOLEAN] /\ stuck \subseteq Apps
  /\ begun \in 0..MaxTasks /\ edits \in 0..MaxEdits /\ crashes \in 0..MaxCrashes /\ was \in [Apps -> BOOLEAN]
  /\ disables \in [Apps -> Nat] /\ enables \in [Apps -> Nat]

Init ==
  /\ up = TRUE /\ gate = FALSE /\ snap = None /\ saved = None /\ pc = "idle" /\ at = 0
  /\ enabled \in [Apps -> BOOLEAN] /\ rev = [a \in Apps |-> 1]
  /\ host = [a \in Apps |-> IF enabled[a] THEN 1 ELSE 0] /\ alive = enabled /\ stuck = {}
  /\ begun = 0 /\ edits = 0 /\ crashes = 0 /\ was = enabled
  /\ disables = [a \in Apps |-> 0] /\ enables = disables
-----------------------------------------------------------------------------
\* persist(): the file is replaced; or an error, before or after the rename, ends the
\* job in its catch block.
Persist(s, next) ==
  /\ snap' = s
  /\ \/ saved' = s /\ pc' = next
     \/ saved' \in {saved, s} /\ pc' = "block"

\* The catch block: 'blocked' is persisted if the disk allows it, and the gate stays.
Block ==
  /\ pc = "block" /\ pc' = "idle"
  /\ snap' = [snap EXCEPT !.phase = "blocked"] /\ saved' \in {saved, snap'}
  /\ UNCHANGED <<up, gate, at, apps, rest, disables, enables>>

entry == snap.apps[at]
Marked(phase) == [snap EXCEPT !.apps[at].phase = phase]
Acknowledged(phase) == [snap EXCEPT !.apps[at].phase = phase, !.apps[at].rev = rev[at]]
Matches == rev[at] = entry.rev

\* Reading the records or the hosts may fail like any query.
AdapterFails ==
  /\ pc \in {"collect", "match", "review"} /\ pc' = "block"
  /\ UNCHANGED <<up, gate, file, at, apps, rest, disables, enables>>
-----------------------------------------------------------------------------
(* transition() of v2/host.ts: a lifecycle operation is begun, which disables the
   record; the process is stopped or started; and the operation is settled. One that is
   begun and not settled as completed blocks every later one, for good.     *)

\* What an operation leaves of an application.
Left(a, on, n, serves, runs, opened) ==
  /\ enabled' = [enabled EXCEPT ![a] = on] /\ rev' = [rev EXCEPT ![a] = @ + n]
  /\ host' = [host EXCEPT ![a] = serves] /\ alive' = [alive EXCEPT ![a] = runs]
  /\ stuck' = stuck \cup opened

Answered(a, on) ==
  /\ a \notin stuck
  /\ Left(a, on, 2, IF on THEN rev[a] + 2 ELSE 0, on, {})

\* It ends in an error although it was begun: the answer to begin is lost; the work
\* fails, which may be settled as failed or not at all; the process was started, and the
\* settlement fails or is refused because a grant edit raised the revision; or only the
\* answer to the settlement is lost.
Broken(a, on) ==
  /\ a \notin stuck
  /\ \/ Left(a, FALSE, 1, host[a], alive[a], {a})
     \/ \E n \in {1, 2} : Left(a, FALSE, n, 0, FALSE, {a})
     \/ on /\ Left(a, FALSE, 1, rev[a] + 1, TRUE, {a})
     \/ Left(a, on, 2, IF on THEN rev[a] + 1 ELSE 0, on, {})
-----------------------------------------------------------------------------
(* prepare                                                                 *)

\* Without an active maintenance; for an active one it only answers.
Prepare(task) ==
  /\ up /\ pc = "idle" /\ ~Active(snap)
  /\ begun < MaxTasks /\ begun' = begun + 1
  /\ gate' = TRUE
  /\ Persist([task |-> task, phase |-> "draining", apps |-> <<>>], "collect")
  /\ was' = enabled
  /\ disables' = [a \in Apps |-> 0] /\ enables' = [a \in Apps |-> 0]
  /\ UNCHANGED <<up, at, apps, edits, crashes>>

Collect ==
  /\ pc = "collect" /\ at' = 1
  /\ Persist([snap EXCEPT !.apps = [a \in Apps |-> [rev |-> rev[a], enabled |-> enabled[a],
                                     serving |-> Serving(a), phase |-> "unchanged"]]], "visit")
  /\ UNCHANGED <<up, gate, apps, rest, disables, enables>>

\* Mutant: the last application is forgotten.
DoneEarly(phase) == at >= N /\ Persist([snap EXCEPT !.phase = phase], "idle")
Done(phase) == at > N /\ Persist([snap EXCEPT !.phase = phase], "idle")

PassedOver == ~entry.enabled

\* The next application: passed over, refused because it does not serve, or stopped.
Visit ==
  /\ pc = "visit"
  /\ \/ Done("paused") /\ UNCHANGED <<at, host, alive>>
     \/ /\ at <= N /\ PassedOver
        /\ at' = at + 1
        /\ UNCHANGED <<pc, file, host, alive>>
     \/ /\ at <= N /\ entry.enabled /\ ~entry.serving
        /\ pc' = "block"
        /\ UNCHANGED <<at, file, host, alive>>
     \/ /\ at <= N /\ entry.enabled /\ entry.serving
        /\ host' = [host EXCEPT ![at] = 0] /\ alive' = [alive EXCEPT ![at] = FALSE]
        /\ pc' = "match"
        /\ UNCHANGED <<at, file>>
  /\ UNCHANGED <<up, gate, enabled, rev, stuck, rest, disables, enables>>

MatchThenMark ==
  /\ pc = "match"
  /\ IF Matches THEN Persist(Marked("stopping"), "disable") ELSE pc' = "block" /\ UNCHANGED file
  /\ UNCHANGED <<up, gate, at, apps, rest, disables, enables>>

\* host.execute('disable'), for the revision of the entry.
Disable ==
  /\ pc = "disable"
  /\ \/ /\ Matches
        /\ \/ Answered(at, FALSE) /\ pc' = "stopped"
           \/ Broken(at, FALSE) /\ pc' = "block"
        /\ disables' = [disables EXCEPT ![at] = @ + 1]
     \/ pc' = "block" /\ UNCHANGED <<apps, disables>>
  /\ UNCHANGED <<up, gate, file, at, rest, enables>>

Stopped ==
  /\ pc = "stopped" /\ Persist(Acknowledged("stopped"), "visit")
  /\ at' = at + 1
  /\ UNCHANGED <<up, gate, apps, rest, disables, enables>>
-----------------------------------------------------------------------------
(* restore                                                                 *)

Unknown(s) == \E a \in DOMAIN s.apps : s.apps[a].phase \in {"stopping", "starting"}

\* Refused for another task, a finished one, or one with an unknown outcome.
Restore(task) ==
  /\ up /\ pc = "idle" /\ Active(snap) /\ snap.task = task /\ ~Unknown(snap)
  /\ Persist([snap EXCEPT !.phase = "restoring"], "review")
  /\ at' = IF snap.apps = <<>> THEN N + 1 ELSE 1
  /\ UNCHANGED <<up, gate, apps, rest, disables, enables>>

\* What is left to do for an application: nothing, or to enable it again.
Kept == \/ entry.phase = "unchanged" /\ enabled[at] = entry.enabled /\ Serving(at) = entry.serving
        \/ entry.phase = "restored" /\ Serving(at)

\* Mutant: an application that is restored already is started again.
RestorableTwice == entry.phase \in {"stopped", "restored"} /\ entry.enabled /\ entry.serving
Restorable == entry.phase = "stopped" /\ entry.enabled /\ entry.serving /\ ~enabled[at]

Review ==
  /\ pc = "review" /\ at <= N
  /\ \/ Matches /\ Kept /\ at' = at + 1 /\ UNCHANGED <<pc, file>>
     \/ Matches /\ Restorable /\ Persist(Marked("starting"), "enable") /\ UNCHANGED at
     \/ ~(Matches /\ (Kept \/ Restorable)) /\ pc' = "block" /\ UNCHANGED <<at, file>>
  /\ UNCHANGED <<up, gate, apps, rest, disables, enables>>

\* host.execute('enable'), likewise.
Enable ==
  /\ pc = "enable"
  /\ \/ /\ Matches
        /\ \/ Answered(at, TRUE) /\ pc' = "restored"
           \/ Broken(at, TRUE) /\ pc' = "block"
        /\ enables' = [enables EXCEPT ![at] = @ + 1]
     \/ pc' = "block" /\ UNCHANGED <<apps, enables>>
  /\ UNCHANGED <<up, gate, file, at, rest, disables>>

Restored ==
  /\ pc = "restored" /\ Persist(Acknowledged("restored"), "review")
  /\ at' = at + 1
  /\ UNCHANGED <<up, gate, apps, rest, disables, enables>>

Complete ==
  /\ pc = "review" /\ Done("completed")
  /\ gate' = (pc' # "idle")
  /\ UNCHANGED <<up, at, apps, rest, disables, enables>>
-----------------------------------------------------------------------------
(* Around them.                                                            *)

Crash ==
  /\ up /\ crashes < MaxCrashes /\ crashes' = crashes + 1
  /\ up' = FALSE /\ gate' = FALSE /\ snap' = None /\ pc' = "idle" /\ at' = 0
  /\ host' = [a \in Apps |-> 0] /\ alive' = [a \in Apps |-> FALSE]
  /\ UNCHANGED <<saved, enabled, rev, stuck, begun, edits, was, disables, enables>>

\* Mutant: the gate is not restored from the file.
BootOpen ==
  /\ ~up /\ up' = TRUE
  /\ snap' = saved /\ gate' = FALSE
  /\ alive' = enabled /\ host' = [a \in Apps |-> IF enabled[a] THEN rev[a] ELSE 0]
  /\ UNCHANGED <<saved, pc, at, enabled, rev, stuck, rest, disables, enables>>

\* initialize() and boot(): the file decides about the gate, and every application that
\* is enabled is started, which may fail.
Boot ==
  /\ ~up /\ up' = TRUE
  /\ snap' = saved /\ gate' = Active(saved)
  /\ alive' \in {v \in [Apps -> BOOLEAN] : \A a \in Apps : v[a] => enabled[a]}
  /\ host' = [a \in Apps |-> IF alive'[a] THEN rev[a] ELSE 0]
  /\ UNCHANGED <<saved, pc, at, enabled, rev, stuck, rest, disables, enables>>

\* A child dies and is restarted by its process's timer.
ChildChanges(a) ==
  /\ up /\ host[a] # 0 /\ alive' = [alive EXCEPT ![a] = ~@]
  /\ UNCHANGED <<up, gate, file, pc, at, enabled, rev, host, stuck, rest, disables, enables>>

\* An administrator's request: outside maintenance any lifecycle operation, and at any
\* time a grant edit that was accepted before the gate closed.
Edit(a) ==
  /\ up /\ edits < MaxEdits /\ edits' = edits + 1
  /\ \/ ~gate /\ pc = "idle" /\ \E on \in BOOLEAN : Answered(a, on) \/ Broken(a, on)
     \/ rev' = [rev EXCEPT ![a] = @ + 1] /\ UNCHANGED <<enabled, host, alive, stuck>>
  /\ UNCHANGED <<up, gate, file, pc, at, begun, crashes, was, disables, enables>>

Next ==
  \/ \E t \in Tasks : Prepare(t) \/ Restore(t)
  \/ Collect \/ Visit \/ MatchThenMark \/ Disable \/ Stopped
  \/ Review \/ Enable \/ Restored \/ Complete \/ Block \/ AdapterFails
  \/ Crash \/ Boot \/ \E a \in Apps : ChildChanges(a) \/ Edit(a)

Spec == Init /\ [][Next]_vars
-----------------------------------------------------------------------------
(***************************************************************************)
(* What maintenance promises.                                              *)
(***************************************************************************)
\* Employees and administrators are kept out from before the first application is
\* stopped until 'completed' is in the file, through restarts and failed writes
\* (maintenance.ts:27, 35-37, 73): as long as the file says that maintenance is on, or
\* an application is stopped for it, the gate is closed.
GatedThroughout == up /\ (Active(saved) \/ Active(snap)) => gate

\* The file says 'paused' only when no application is enabled, and none that was enabled
\* when the task began has a child, nor does a restart bring one up. A child that is left
\* belongs to an application that was not enabled, whose last lifecycle operation started
\* it and was never completed: prepare passes over it (maintenance.ts:43), and it goes
\* only when the updater stops the API.
PausedIsQuiet ==
  saved.phase = "paused" => \A a \in Apps : ~enabled[a] /\ (alive[a] => a \in stuck /\ ~was[a])

\* "Startup never repeats a stop/start merely because its acknowledgement was lost"
\* (maintenance.ts:21-22): in one task each application is disabled at most once and
\* enabled at most once, however often prepare and restore are called, and only those
\* that were disabled by the task are enabled by it.
NothingRepeated == \A a \in Apps : enables[a] <= disables[a] /\ disables[a] <= 1

\* Maintenance ends with every application enabled that was enabled when the task began,
\* and no other: nobody else changes that while it lasts (maintenance.ts:35-37, 61-73).
IntentRestored ==
  [][saved'.phase = "completed" /\ Active(saved) => enabled' = was]_vars
=============================================================================
