------------------------------ MODULE Updater ------------------------------
(***************************************************************************)
(* The host's updater (deploy/updater.py), composed with Maintenance: it   *)
(* asks the API to stop the applications, stops the API, backs up and      *)
(* migrates the database, starts the new version and has the applications  *)
(* started again.  It records the phase it is in before each of these, and *)
(* after an interruption it does nothing until an operator recovers the    *)
(* task, either back to the old version or on to the new one.              *)
(*                                                                         *)
(* A version stands for its signed release, its images and the schema its  *)
(* migrations produce.  Each step is one command of the worker thread or   *)
(* of the operator's recover; any command may fail, also after it took     *)
(* effect, and the updater may die before or after it.  'preflight' and    *)
(* 'downloading' stand for the phases before the first effect of a task.   *)
(***************************************************************************)
EXTENDS Maintenance

CONSTANTS
  Versions,        \* numbers of the releases that may be installed
  MaxInterrupts    \* bound of the model: failures and deaths of the updater

ASSUME UpdaterAssumption ==
  /\ Versions \subseteq Nat \ {0} /\ MaxInterrupts \in Nat
  /\ "none" \notin Tasks   \* identifiers are UUIDs, and no task has none

VARIABLES
  task,       \* task.json
  requests,   \* the identifiers that were used
  doing,      \* the command the worker is at
  inbox,      \* maintenance requests the API has accepted
  current,    \* current.json
  image, stopped,   \* the version of the API's container, and whether it was stopped
  schema,     \* the version of the schema, or of the last one a migration was begun for
  backups,    \* tasks with a complete backup
  interrupts  \* counter of the bound

deployment == <<current, image, stopped, schema, backups>>
updater == <<task, requests, doing, inbox, deployment, interrupts>>
allVars == <<vars, updater>>

Early == {"downloading", "preflight"}
BeforeMigration == Early \cup {"draining", "maintenance", "backing_up"}
SinceMigration == {"migrating", "switching", "health_check", "restoring_apps"}
ACTIVE == BeforeMigration \cup SinceMigration
Ended == {"completed", "cancelled"}

NoTask == [id |-> "none", version |-> 0, from |-> 0, phase |-> "none", failed |-> "none",
           origin |-> "none", mode |-> "work", snapshot |-> FALSE]

UpdaterTypeOK ==
  /\ task \in [id : Tasks \cup {"none"}, version : Versions \cup {0}, from : Versions \cup {0},
               phase : ACTIVE \cup Ended \cup {"none", "downloaded", "failed", "recovery_required"},
               failed : ACTIVE \cup {"none"}, origin : ACTIVE \cup {"none"},
               mode : {"work", "restart-current", "resume-target"}, snapshot : BOOLEAN]
  /\ requests \subseteq Tasks /\ backups \subseteq Tasks
  /\ doing \in {"idle", "download", "preflight", "ask", "answer", "probe", "stop", "check",
                "backup", "migrate", "switch", "health", "web"}
  /\ inbox \subseteq [id : Tasks, action : {"prepare", "restore"}, served : BOOLEAN]
  /\ {current, image, schema} \subseteq Versions \cup {0}
  /\ stopped \in BOOLEAN /\ interrupts \in 0..MaxInterrupts

UpdaterInit ==
  /\ Init
  /\ task = NoTask /\ requests = {} /\ doing = "idle" /\ inbox = {}
  /\ current = 0 /\ image = 0 /\ stopped = FALSE /\ schema = 0 /\ backups = {}
  /\ interrupts = 0
-----------------------------------------------------------------------------
Target == IF task.mode = "restart-current" THEN task.from ELSE task.version

\* phase(): the task is written, and the worker goes on to its next command.
Phase(phase, next) == task' = [task EXCEPT !.phase = phase] /\ doing' = next

\* A request identifier that is known is answered with what it led to.
StartDownload(id, v) ==
  /\ id \in Tasks \ requests /\ requests' = requests \cup {id}
  /\ task.phase \notin ACTIVE \cup {"recovery_required"} /\ v > current
  /\ task' = [NoTask EXCEPT !.id = id, !.version = v, !.from = current, !.phase = "downloading"]
  /\ doing' = "download"
  /\ UNCHANGED <<vars, inbox, deployment, interrupts>>

Download ==
  /\ doing = "download" /\ Phase("downloaded", "idle")
  /\ UNCHANGED <<vars, requests, inbox, deployment, interrupts>>

StartInstall(id, v) ==
  /\ id \in Tasks \ requests /\ requests' = requests \cup {id}
  /\ task.phase = "downloaded" /\ task.version = v /\ v > current
  /\ task' = [NoTask EXCEPT !.id = id, !.version = v, !.from = current, !.phase = "preflight"]
  /\ doing' = "preflight"
  /\ UNCHANGED <<vars, inbox, deployment, interrupts>>

Preflight ==
  /\ doing = "preflight" /\ doing' = "ask"
  /\ task' = [task EXCEPT !.phase = "draining", !.snapshot = TRUE]
  /\ UNCHANGED <<vars, requests, inbox, deployment, interrupts>>

Request == [id |-> task.id, served |-> FALSE,
            action |-> IF task.mode = "work" /\ task.phase = "draining" THEN "prepare" ELSE "restore"]

\* The POST reaches the API; an older one that nobody waits for may still be queued there.
Ask ==
  /\ doing = "ask" /\ up /\ doing' = "answer"
  /\ inbox' = {r \in inbox : ~r.served} \cup {Request}
  /\ UNCHANGED <<vars, task, requests, deployment, interrupts>>

\* The management queue takes a request: it begins the operation, finds it done, or
\* refuses it.
Serve(r) ==
  /\ ~r.served /\ up /\ pc = "idle"
  /\ \/ /\ r.action = "prepare" /\ Prepare(r.id)
        /\ inbox' = (inbox \ {r}) \cup {[r EXCEPT !.served = TRUE]}
     \/ /\ r.action = "restore" /\ Restore(r.id)
        /\ inbox' = (inbox \ {r}) \cup {[r EXCEPT !.served = TRUE]}
     \/ /\ r.action = "restore" /\ snap.task = r.id /\ ~Active(snap)
        /\ inbox' = (inbox \ {r}) \cup {[r EXCEPT !.served = TRUE]} /\ UNCHANGED vars
     \/ /\ (r.action = "prepare" => Active(snap))
        /\ (r.action = "restore" => (snap.task # r.id \/ (Active(snap) /\ Unknown(snap))))
        /\ inbox' = inbox \ {r} /\ UNCHANGED vars
  /\ UNCHANGED <<task, requests, doing, deployment, interrupts>>

\* Mutant: any answer to restore will do.
AnswerAny ==
  /\ doing = "answer" /\ pc = "idle"
  /\ [Request EXCEPT !.served = TRUE] \in inbox /\ snap.task = task.id
  /\ \/ Request.action = "prepare" /\ snap.phase = "paused" /\ doing' = "probe" /\ UNCHANGED task
     \/ /\ Request.action = "restore"
        /\ Phase(IF task.mode = "restart-current" THEN "cancelled" ELSE "completed", "idle")
  /\ inbox' = inbox \ {[Request EXCEPT !.served = TRUE]}
  /\ UNCHANGED <<vars, requests, deployment, interrupts>>

\* The answer names this task and the phase that was asked for.
Answer ==
  /\ doing = "answer" /\ pc = "idle"
  /\ [Request EXCEPT !.served = TRUE] \in inbox /\ snap.task = task.id
  /\ \/ Request.action = "prepare" /\ snap.phase = "paused" /\ doing' = "probe" /\ UNCHANGED task
     \/ /\ Request.action = "restore" /\ snap.phase = "completed"
        /\ Phase(IF task.mode = "restart-current" THEN "cancelled" ELSE "completed", "idle")
  /\ inbox' = inbox \ {[Request EXCEPT !.served = TRUE]}
  /\ UNCHANGED <<vars, requests, deployment, interrupts>>

\* probe.mjs: no application is enabled.
NothingEnabled == \A a \in Apps : ~enabled[a]

Probe ==
  /\ doing = "probe" /\ NothingEnabled /\ Phase("maintenance", "stop")
  /\ UNCHANGED <<vars, requests, inbox, deployment, interrupts>>

\* compose stop: the API is gone, and is not restarted by Docker.
Stop ==
  /\ doing = "stop" /\ doing' = "check"
  /\ stopped' = TRUE /\ inbox' = {}
  /\ up' = FALSE /\ gate' = FALSE /\ snap' = None /\ pc' = "idle" /\ at' = 0
  /\ host' = [a \in Apps |-> 0] /\ alive' = [a \in Apps |-> FALSE]
  /\ UNCHANGED <<saved, enabled, rev, stuck, rest, disables, enables, task, requests, current,
                 image, schema, backups, interrupts>>

Check ==
  /\ doing = "check" /\ NothingEnabled
  /\ \/ task.mode = "work" /\ Phase("backing_up", "backup")
     \/ task.mode = "resume-target" /\ Phase("migrating", "migrate")
     \/ task.mode = "restart-current" /\ Phase("switching", "switch")
  /\ UNCHANGED <<vars, requests, inbox, deployment, interrupts>>

Backup ==
  /\ doing = "backup" /\ backups' = backups \cup {task.id} /\ Phase("migrating", "migrate")
  /\ UNCHANGED <<vars, requests, inbox, current, image, stopped, schema, interrupts>>

Migrate ==
  /\ doing = "migrate" /\ schema' = task.version /\ Phase("switching", "switch")
  /\ UNCHANGED <<vars, requests, inbox, current, image, stopped, backups, interrupts>>

\* compose up of the target's API; Docker starts it and restarts it from now on.
Switch ==
  /\ doing = "switch" /\ image' = Target /\ stopped' = FALSE /\ Phase("health_check", "health")
  /\ UNCHANGED <<vars, requests, inbox, current, schema, backups, interrupts>>

Health ==
  /\ doing = "health" /\ up /\ current' = Target /\ doing' = "web"
  /\ UNCHANGED <<vars, task, requests, inbox, image, stopped, schema, backups, interrupts>>

\* The web front is up; applications that were stopped for the task are started again.
Web ==
  /\ doing = "web" /\ up
  /\ \/ task.snapshot /\ Phase("restoring_apps", "ask")
     \/ ~task.snapshot /\ Phase(IF task.mode = "restart-current" THEN "cancelled" ELSE "completed",
                                "idle")
  /\ UNCHANGED <<vars, requests, inbox, deployment, interrupts>>
-----------------------------------------------------------------------------
(* Failures, and the operator.                                             *)

\* The except clause, or the updater that finds an active task when it starts: a task
\* that may have had an effect waits for the operator.  What the command had done stays: a
\* migration may have been committed (a container that was started is Switch, then this).
Interrupted(phase) ==
  /\ doing # "idle" /\ doing' = "idle"
  /\ interrupts < MaxInterrupts /\ interrupts' = interrupts + 1
  /\ task' = [task EXCEPT !.phase = phase, !.failed = task.phase]
  /\ schema' \in {schema} \cup (IF doing = "migrate" THEN {task.version} ELSE {})
  /\ UNCHANGED <<vars, requests, inbox, current, image, stopped, backups>>

Fail ==
  /\ Interrupted(IF task.mode = "work" /\ task.phase \in Early THEN "failed" ELSE "recovery_required")
Die == Interrupted("recovery_required")

\* Mutant: an interrupted recovery forgets where the task had failed first.
StageOfRecovery == task.failed
Stage == IF task.origin = "none" THEN task.failed ELSE task.origin

Recoverable(mode) ==
  \/ mode = "restart-current" /\ Stage \in BeforeMigration
  \/ mode = "resume-target" /\ Stage \in SinceMigration /\ task.id \in backups

\* recover(): a task that only drained is taken back by restoring the applications; any
\* other has the API stopped, checked and started again.
Recover(mode) ==
  /\ doing = "idle" /\ task.phase = "recovery_required" /\ Recoverable(mode)
  /\ task' = [task EXCEPT !.origin = Stage, !.mode = mode, !.phase = "preflight"]
  /\ doing' = IF Stage = "draining" /\ mode = "restart-current" /\ task.snapshot THEN "ask"
              ELSE "stop"
  /\ UNCHANGED <<vars, requests, inbox, deployment, interrupts>>
-----------------------------------------------------------------------------
(* The API beside it.                                                      *)

ApiWorks ==
  /\ \/ Collect \/ Visit \/ MatchThenMark \/ Disable \/ Stopped
     \/ Review \/ Enable \/ Restored \/ Complete \/ Block \/ AdapterFails
     \/ \E a \in Apps : ChildChanges(a) \/ Edit(a)
  /\ UNCHANGED updater

ApiCrash ==
  /\ Crash /\ inbox' = {}
  /\ UNCHANGED <<task, requests, doing, deployment, interrupts>>

ApiBoot == ~stopped /\ Boot /\ UNCHANGED updater

UpdaterNext ==
  \/ \E id \in Tasks, v \in Versions : StartDownload(id, v) \/ StartInstall(id, v)
  \/ Download \/ Preflight \/ Ask \/ (\E r \in inbox : Serve(r)) \/ Answer \/ Probe \/ Stop \/ Check
  \/ Backup \/ Migrate \/ Switch \/ Health \/ Web
  \/ Fail \/ Die \/ \E mode \in {"restart-current", "resume-target"} : Recover(mode)
  \/ ApiWorks \/ ApiCrash \/ ApiBoot

UpdaterSpec == UpdaterInit /\ [][UpdaterNext]_allVars
-----------------------------------------------------------------------------
(***************************************************************************)
(* What an update promises.                                                *)
(***************************************************************************)
\* "Never revert a possibly migrated database" (updater.py:383): no version of the
\* platform runs on a schema a later version may have migrated, whatever was
\* interrupted and however often the operator tries to recover.
OldNeverOnNew == up => image >= schema

\* A migration runs only with a complete backup of this task, with the API stopped and
\* every application disabled, also when a recovery resumes it
\* (updater.py:369-372, 393, 400-406).
MigratesSafely ==
  doing = "migrate" => task.id \in backups /\ ~up /\ stopped /\ NothingEnabled

\* A task that ends leaves the version running that current.json names, on its own
\* schema, and the maintenance it began is over: the applications it stopped are
\* enabled again and the gate is open (updater.py:376-380, 398-399, 409-413).
EndsInService ==
  [][task'.phase \in Ended /\ task.phase \notin Ended
       => /\ ~stopped /\ image = current /\ schema = current /\ current = Target
          /\ Active(saved) => saved.task # task.id]_allVars

\* "Applications are stopped (maintenance mode) before an update" (probe.mjs:6): when a
\* recovery looks whether they are, it has stopped them.
StoppedBeforeProbe == doing = "check" => NothingEnabled

\* Data and programs stay together through every interruption and recovery: a migration is
\* backed up and quiet, and nothing older runs behind it (updater.py:369-383, 393-406).
UpgradeIsSafe == UpdaterTypeOK /\ OldNeverOnNew /\ MigratesSafely
=============================================================================
