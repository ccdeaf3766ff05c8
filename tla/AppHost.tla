------------------------------ MODULE AppHost -------------------------------
(***************************************************************************)
(* One installed application: its durable record, the installer            *)
(* (v2/installer.ts), its host (v2/host.ts) with the process it keeps, the *)
(* employee calls and platform operations that run meanwhile, and the      *)
(* restart of the API.                                                     *)
(*                                                                         *)
(* Installer, lifecycle and recovery requests are serialised by the        *)
(* management queue (management/service.ts:44), so there is one job.  A    *)
(* job is a sequence of awaits: each step below is what happens between    *)
(* two of them.  Grant edits are not in the queue (admin/routes.ts:128-136) *)
(* and may fall between any two steps.                                     *)
(*                                                                         *)
(* A process is seen as the host sees it (its inside is AppProcess): it is *)
(* spawned, its child lives, dies and is restarted, and stop() returns when *)
(* no child is left.  Whether a handler or an operation succeeds is left   *)
(* open.  Children of an API that crashed have lost their channel and exit; *)
(* they are not followed.                                                  *)
(***************************************************************************)
EXTENDS Registry, FiniteSets, Sequences

CONSTANTS
  Calls,       \* employee calls and page requests
  Ops,         \* slots for platform operations in flight
  MaxJobs, MaxEdits, MaxCrashes   \* bounds of the model

\* A manifest asks for finitely many permissions.
ASSUME HostAssumption ==
  /\ MaxJobs \in Nat /\ MaxEdits \in Nat /\ MaxCrashes \in Nat
  /\ \A v \in Versions : IsFiniteSet(Declares[v])

VARIABLES
  rec,        \* the durable installation record, or NoApp
  up,         \* the API is running
  job,        \* the management job
  proc,       \* this.process: the number of the process object, 0 for null
  active,     \* this.active: the record it serves, or NoApp
  live,       \* processes whose child is running
  runtime,    \* the package each process was spawned with
  calls, ops,
  jobs, edits, crashes,   \* counters of the bounds
  torn,       \* history: a lifecycle operation lost its job or its revision
  edited,     \* history: a grant was edited since the host last took over a record
  unserved,   \* history: the last attempt to serve the enabled application failed
  attempt     \* history: the package whose last upload has not succeeded

host == <<proc, active, live, runtime>>
traffic == <<calls, ops>>
counters == <<jobs, edits, crashes>>
history == <<torn, edited, unserved, attempt>>
vars == <<rec, up, job, host, traffic, counters, history>>

NoApp == [rev |-> 0]
NoPkg == [ver |-> 0, sha |-> 0]
Present == rec # NoApp

\* pc: where the job stands; act: the lifecycle action it is on; record: the record it
\* carries from step to step; old: the process it stops; pkg, kind, was: the installer's
\* package, change and wasEnabled; failed: the start failed.
Idle == [pc |-> "idle", act |-> "none", record |-> NoApp, old |-> 0, pkg |-> NoPkg,
         kind |-> "none", was |-> FALSE, failed |-> FALSE]
JobRecord ==
  [pc : {"idle", "begin", "stop", "exit", "drain", "spawn", "starting", "settle",
         "migrate", "upgrade", "upgraded", "package", "credential", "grants", "launch"},
   act : {"none", "install", "enable", "disable", "serve"},
   record : Installation \cup {NoApp}, old : Nat, pkg : Packages \cup {NoPkg},
   kind : {"none", "install", "upgrade", "reinstall"}, was : BOOLEAN, failed : BOOLEAN]
CallRecord == [pc : {"idle", "admitted", "running"}, ver : Versions \cup {0}, on : Nat]
OperationRecord == [pc : {"none", "entered", "working"}, identity : Nat, ver : Versions \cup {0}]

TypeOK ==
  /\ rec \in Installation \cup {NoApp} /\ up \in BOOLEAN /\ job \in JobRecord
  /\ active \in Installation \cup {NoApp}
  /\ runtime \in Seq(Packages) /\ proc \in 0..Len(runtime) /\ live \subseteq 1..Len(runtime)
  /\ calls \in [Calls -> CallRecord] /\ ops \in [Ops -> OperationRecord]
  /\ jobs \in 0..MaxJobs /\ edits \in 0..MaxEdits /\ crashes \in 0..MaxCrashes
  /\ torn \in BOOLEAN /\ edited \in BOOLEAN /\ unserved \in BOOLEAN
  /\ attempt \in Packages \cup {NoPkg}

NoCall == [pc |-> "idle", ver |-> 0, on |-> 0]
NoOperation == [pc |-> "none", identity |-> 0, ver |-> 0]

Init ==
  /\ rec = NoApp /\ up = TRUE /\ job = Idle
  /\ proc = 0 /\ active = NoApp /\ live = {} /\ runtime = <<>>
  /\ calls = [k \in Calls |-> NoCall] /\ ops = [o \in Ops |-> NoOperation]
  /\ jobs = 0 /\ edits = 0 /\ crashes = 0
  /\ torn = FALSE /\ edited = FALSE /\ unserved = FALSE /\ attempt = NoPkg
-----------------------------------------------------------------------------
(* Requests.  Each takes the queue's next turn.                            *)

Goto(pc) == job' = [job EXCEPT !.pc = pc]
Take(j) == /\ up /\ job.pc = "idle" /\ jobs < MaxJobs
           /\ jobs' = jobs + 1 /\ job' = j
           /\ UNCHANGED <<edits, crashes>>

\* An administrator's enable or disable, with the revision last read.
Execute(action) ==
  /\ Present
  /\ Take([Idle EXCEPT !.pc = "begin", !.act = action, !.record = rec])
  /\ UNCHANGED <<rec, up, host, traffic, history>>

\* recover: reads the record and restarts the process of an enabled application.
Recover ==
  /\ Present /\ rec.enabled
  /\ Take([Idle EXCEPT !.pc = "stop", !.act = "serve", !.record = rec])
  /\ edited' = FALSE
  /\ UNCHANGED <<rec, up, host, traffic, torn, unserved, attempt>>

\* What a package is to the installation; the preview goes by the version of the
\* installed package, not of the record.
Kind(r, p) == IF r = NoApp THEN "install"
              ELSE IF p.ver > r.pkg.ver THEN "upgrade"
              ELSE IF p.ver = r.pkg.ver THEN "reinstall" ELSE "downgrade"

\* A downgrade is refused, and so is a package of the version that is running.
Installable(p) ==
  /\ Kind(rec, p) # "downgrade"
  /\ Kind(rec, p) = "reinstall" => ~rec.enabled

\* The installer up to its first await that changes anything: a new application is
\* registered, an enabled one is disabled first.
Upload(p) ==
  /\ Installable(p)
  /\ LET kind == Kind(rec, p)
         new  == IF kind = "install" THEN Registered(p) ELSE rec
     IN /\ Take([Idle EXCEPT !.pc = IF new.enabled THEN "begin" ELSE "migrate",
                             !.act = IF new.enabled THEN "disable" ELSE "none",
                             !.record = new, !.pkg = p, !.kind = kind, !.was = new.enabled])
        /\ rec' = new
  /\ attempt' = p
  /\ UNCHANGED <<up, host, traffic, torn, edited, unserved>>
-----------------------------------------------------------------------------
(* The lifecycle transition: begin, stop, drain, start, settle.            *)

\* An error ends the job; what it did so far stays, an open operation included.
Fail == job' = Idle /\ torn' = (torn \/ rec.op.status = "running") /\ UNCHANGED rec
Current == rec.rev = job.record.rev

Begin ==
  /\ job.pc = "begin"
  /\ \/ /\ Current /\ CanBegin(rec, job.act, 0)
        /\ rec' = Begun(rec, job.act, 0)
        /\ job' = [job EXCEPT !.pc = "stop", !.record = rec']
        /\ edited' = FALSE /\ UNCHANGED torn
     \/ /\ ~(Current /\ CanBegin(rec, job.act, 0))
        /\ Fail
        /\ UNCHANGED edited
  /\ UNCHANGED <<up, host, traffic, counters, unserved, attempt>>

\* stopProcess takes the process out of service before it waits for it.
StopProcess ==
  /\ job.pc = "stop"
  /\ job' = [job EXCEPT !.pc = "exit", !.old = proc]
  /\ proc' = 0 /\ active' = NoApp
  /\ UNCHANGED <<rec, up, live, runtime, traffic, counters, history>>

\* Mutant: stop() is not awaited.
StoppedAtOnce ==
  job.pc = "exit" /\ Goto("drain") /\ UNCHANGED <<rec, up, host, traffic, counters, history>>

\* process.stop() returns when its child is gone.
Stopped ==
  /\ job.pc = "exit" /\ job.old \notin live
  /\ Goto("drain")
  /\ UNCHANGED <<rec, up, host, traffic, counters, history>>

\* gateway.drain returns when no operation of the application is pending.
Drained ==
  /\ job.pc = "drain" /\ \A o \in Ops : ops[o].pc = "none"
  /\ Goto(IF job.act = "disable" \/ job.failed THEN "settle" ELSE "spawn")
  /\ UNCHANGED <<rec, up, host, traffic, counters, history>>

Spawn ==
  /\ job.pc = "spawn"
  /\ runtime' = Append(runtime, job.record.pkg)
  /\ proc' = Len(runtime')
  /\ live' = live \cup {proc'}
  /\ Goto("starting")
  /\ UNCHANGED <<rec, up, active, traffic, counters, history>>

\* Boot and recover serve the record they read; a lifecycle action settles first.
Started ==
  /\ job.pc = "starting"
  /\ active' = job.record
  /\ \/ job.act = "serve" /\ job' = Idle /\ unserved' = FALSE
     \/ job.act # "serve" /\ Goto("settle") /\ UNCHANGED unserved
  /\ UNCHANGED <<rec, up, proc, live, runtime, traffic, counters, torn, edited, attempt>>

\* A failed start: the child is gone, or hangs and has been sent a SIGKILL.  Within a
\* transition the process is stopped again; boot and recover leave it as it is.
StartFails ==
  /\ job.pc = "starting"
  /\ live' \in {live, live \ {proc}}
  /\ \/ job.act = "serve" /\ job' = Idle /\ unserved' = TRUE
     \/ /\ job.act # "serve"
        /\ job' = [job EXCEPT !.pc = "stop", !.failed = TRUE]
        /\ UNCHANGED unserved
  /\ UNCHANGED <<rec, up, proc, active, runtime, traffic, counters, torn, edited, attempt>>

\* What the host serves after settling: the record settled, unless nothing is to run.
\* Mutant: active keeps the revision from before settling.
ServesBegun(record) == active
Serves(record) == IF job.failed \/ job.act = "disable" THEN active ELSE record

\* Settling fails with STALE_REVISION when an edit came between; then the operation
\* stays open and the job ends.
Settle ==
  /\ job.pc = "settle"
  /\ LET ok == Current /\ CanSettle(rec, job.record.op.id)
         outcome == IF job.failed THEN "failed" ELSE "completed"
     IN \/ /\ ok
           /\ rec' = Settled(rec, outcome)
           /\ job' = IF job.failed \/ job.kind = "none" \/ job.act # "disable" THEN Idle
                     ELSE [job EXCEPT !.pc = "migrate", !.act = "none", !.record = rec']
           /\ active' = Serves(rec')
           /\ attempt' = IF ~job.failed /\ job.kind # "none" /\ job.act # "disable"
                         THEN NoPkg ELSE attempt
           /\ unserved' = IF job.failed \/ job.act = "disable" THEN unserved ELSE FALSE
           /\ UNCHANGED torn
        \/ /\ ~ok
           /\ Fail
           /\ UNCHANGED <<active, attempt, unserved>>
  /\ UNCHANGED <<up, proc, live, runtime, traffic, counters, edited>>
-----------------------------------------------------------------------------
(* The installer after a new or stopped application.                       *)

\* A step of the installer: the registry call it makes is accepted for the revision
\* the installer holds and the record it returns is carried on, or it throws.
RegistryStep(accepted, record, next) ==
  /\ \/ /\ Current /\ accepted
        /\ rec' = record
        /\ job' = [job EXCEPT !.pc = next, !.record = record]
        /\ UNCHANGED torn
     \/ ~(Current /\ accepted) /\ Fail
  /\ UNCHANGED <<up, host, traffic, counters, edited, unserved, attempt>>

\* The package's migrations, one transaction on the application's own tables.
Migrate ==
  /\ job.pc = "migrate"
  /\ job' \in {Idle, [job EXCEPT !.pc = IF job.kind = "upgrade" THEN "upgrade" ELSE "package"]}
  /\ UNCHANGED <<rec, up, host, traffic, counters, history>>

UpgradeBegin ==
  /\ job.pc = "upgrade"
  /\ RegistryStep(CanBegin(rec, "upgrade", job.pkg.ver), Begun(rec, "upgrade", job.pkg.ver),
                  "upgraded")

UpgradeSettle ==
  /\ job.pc = "upgraded"
  /\ RegistryStep(CanSettle(rec, job.record.op.id), Settled(rec, "completed"), "package")

SetPackage ==
  /\ job.pc = "package"
  /\ IF job.record.pkg = job.pkg
     THEN Goto("credential") /\ UNCHANGED <<rec, up, host, traffic, counters, history>>
     ELSE RegistryStep(CanSetPackage(rec, job.pkg), WithPackage(rec, job.pkg), "credential")

Credential ==
  /\ job.pc = "credential"
  /\ IF job.record.identity # 0
     THEN Goto("grants") /\ UNCHANGED <<rec, up, host, traffic, counters, history>>
     ELSE RegistryStep(CanChange(rec, "credential-issued"), WithCredential(rec), "grants")

\* approveInstalledPlatformGrants: one transaction over the record as it is now, one
\* service grant for every permission the manifest asks for.
Granted(r) ==
  LET asked == Declares[r.ver]
  IN [r EXCEPT !.grants = {g \in @ : g.mode # "service" \/ g.perm \notin asked} \cup
                          {[mode |-> "service", perm |-> p, active |-> TRUE,
                            identity |-> r.identity] : p \in asked},
               !.rev = @ + Cardinality(asked)]

Grants ==
  /\ job.pc = "grants"
  /\ IF \E g \in job.record.grants : g.active
     THEN Goto("launch") /\ UNCHANGED <<rec, torn>>
     ELSE \/ /\ ~rec.enabled /\ \A p \in Declares[rec.ver] : CanApprove(rec, "service", p)
             /\ rec' = Granted(rec)
             /\ job' = [job EXCEPT !.pc = "launch", !.record = rec']
             /\ UNCHANGED torn
          \/ /\ ~(~rec.enabled /\ \A p \in Declares[rec.ver] : CanApprove(rec, "service", p))
             /\ Fail
  /\ UNCHANGED <<up, host, traffic, counters, edited, unserved, attempt>>

\* Mutant: a new application is not started.
LaunchIfItRan ==
  /\ job.pc = "launch"
  /\ IF job.kind # "reinstall" /\ ~job.was
     THEN job' = Idle /\ attempt' = NoPkg
     ELSE /\ job' = [job EXCEPT !.pc = "begin",
                                !.act = IF job.record.op = NoOp THEN "install" ELSE "enable"]
          /\ UNCHANGED attempt
  /\ UNCHANGED <<rec, up, host, traffic, counters, torn, edited, unserved>>

\* A new or repaired application is started, an upgraded one only if it ran before.
Launch ==
  /\ job.pc = "launch"
  /\ IF job.kind = "upgrade" /\ ~job.was
     THEN job' = Idle /\ attempt' = NoPkg
     ELSE /\ job' = [job EXCEPT !.pc = "begin",
                                !.act = IF job.record.op = NoOp THEN "install" ELSE "enable"]
          /\ UNCHANGED attempt
  /\ UNCHANGED <<rec, up, host, traffic, counters, torn, edited, unserved>>
-----------------------------------------------------------------------------
(* Around the job.                                                         *)

\* A platform permission is approved or revoked from the administration page.
EditGrant ==
  /\ up /\ Present /\ edits < MaxEdits /\ edits' = edits + 1
  /\ \/ \E p \in Perms : CanApprove(rec, "service", p) /\ rec' = WithGrant(rec, "service", p)
     \/ \E g \in rec.grants : CanChange(rec, "grant-revoked") /\ rec' = WithRevoked(rec, g)
  /\ edited' = TRUE
  /\ UNCHANGED <<up, job, host, traffic, jobs, crashes, torn, unserved, attempt>>

\* A child exits, because it was told to or by itself; its calls are lost.
ChildExit(p) ==
  /\ p \in live /\ ~(job.pc = "starting" /\ p = proc)
  /\ live' = live \ {p}
  /\ calls' = [k \in Calls |-> IF calls[k].on = p THEN NoCall ELSE calls[k]]
  /\ UNCHANGED <<rec, up, job, proc, active, runtime, ops, counters, history>>

\* The restart timer of a process that is not being stopped.
ChildRestart ==
  /\ proc # 0 /\ proc \notin live /\ job.pc # "starting"
  /\ live' = live \cup {proc}
  /\ UNCHANGED <<rec, up, job, proc, active, runtime, traffic, counters, history>>

\* The API dies: everything but the database is gone.
Crash ==
  /\ up /\ crashes < MaxCrashes /\ crashes' = crashes + 1
  /\ up' = FALSE /\ job' = Idle
  /\ proc' = 0 /\ active' = NoApp /\ live' = {}
  /\ calls' = [k \in Calls |-> NoCall] /\ ops' = [o \in Ops |-> NoOperation]
  /\ torn' = (torn \/ (Present /\ rec.op.status = "running"))
  /\ UNCHANGED <<rec, runtime, jobs, edits, edited, unserved, attempt>>

\* It starts again and serves the application if it is enabled; nobody is admitted to
\* the queue before that is done.
Boot ==
  /\ ~up /\ up' = TRUE
  /\ edited' = FALSE
  /\ job' = IF Present /\ rec.enabled
            THEN [Idle EXCEPT !.pc = "stop", !.act = "serve", !.record = rec] ELSE Idle
  /\ UNCHANGED <<rec, host, traffic, counters, torn, unserved, attempt>>
-----------------------------------------------------------------------------
(* Employees and the application's own requests to the platform.           *)

Admitted == active # NoApp /\ rec.enabled /\ rec.rev = active.rev

\* Admission, and after it the lookups of the employee's identity and permissions,
\* made for the manifest of the record that was admitted.
Admit(k) ==
  /\ calls[k].pc = "idle" /\ Admitted
  /\ calls' = [calls EXCEPT ![k] = [pc |-> "admitted", ver |-> rec.ver, on |-> 0]]
  /\ UNCHANGED <<rec, up, job, host, ops, counters, history>>

\* The call goes to the process of this moment, or is refused without one.
Dispatch(k) ==
  /\ calls[k].pc = "admitted"
  /\ calls' = [calls EXCEPT ![k] =
                 IF proc \in live /\ job.pc # "starting"
                 THEN [pc |-> "running", ver |-> calls[k].ver, on |-> proc] ELSE NoCall]
  /\ UNCHANGED <<rec, up, job, host, ops, counters, history>>

\* The handler answers or the caller gives up.
Return(k) ==
  /\ calls[k].pc = "running"
  /\ calls' = [calls EXCEPT ![k] = NoCall]
  /\ UNCHANGED <<rec, up, job, host, ops, counters, history>>

\* A platform operation enters the gateway: requested by a child, for a call or on its
\* own account, or read directly by an admitted page.
Enter(o) ==
  /\ ops[o].pc = "none"
  /\ ops' = [ops EXCEPT ![o].pc = "entered"]
  /\ \/ live # {} /\ UNCHANGED calls
     \/ \E k \in Calls : calls[k].pc = "admitted" /\ calls' = [calls EXCEPT ![k] = NoCall]
  /\ UNCHANGED <<rec, up, job, host, counters, history>>

\* Mutant: a refused operation keeps its slot.
IdentifyHolding(o) ==
  /\ ops[o].pc = "entered" /\ rec.enabled /\ rec.identity # 0
  /\ ops' = [ops EXCEPT ![o] = [pc |-> "working", identity |-> rec.identity, ver |-> rec.ver]]
  /\ UNCHANGED <<rec, up, job, host, calls, counters, history>>

\* serviceIdentity: the identity of now, refused while the application is not enabled.
Identify(o) ==
  /\ ops[o].pc = "entered"
  /\ ops' = [ops EXCEPT ![o] =
               IF rec.enabled /\ rec.identity # 0
               THEN [pc |-> "working", identity |-> rec.identity, ver |-> rec.ver]
               ELSE NoOperation]
  /\ UNCHANGED <<rec, up, job, host, calls, counters, history>>

\* The operation has been executed and audited, or has failed.
Release(o) ==
  /\ ops[o].pc = "working"
  /\ ops' = [ops EXCEPT ![o] = NoOperation]
  /\ UNCHANGED <<rec, up, job, host, calls, counters, history>>

JobStep ==
  \/ Begin \/ StopProcess \/ Stopped \/ Drained \/ Spawn \/ Started \/ StartFails \/ Settle
  \/ Migrate \/ UpgradeBegin \/ UpgradeSettle \/ SetPackage \/ Credential \/ Grants \/ Launch

Next ==
  \/ \E action \in {"enable", "disable"} : Execute(action)
  \/ Recover
  \/ \E p \in Packages : Upload(p)
  \/ JobStep
  \/ EditGrant \/ Crash \/ Boot \/ ChildRestart
  \/ \E p \in DOMAIN runtime : ChildExit(p)
  \/ \E k \in Calls : Admit(k) \/ Dispatch(k) \/ Return(k)
  \/ \E o \in Ops : Enter(o) \/ Identify(o) \/ Release(o)

Spec == Init /\ [][Next]_vars

\* Awaits return, a child that is being stopped exits (AppProcess shows that stop()
\* returns), and operations inside the platform end.  Requests, edits and crashes owe
\* nothing, and neither does a start: it may succeed or fail.
FairSpec ==
  /\ Spec /\ WF_vars(JobStep)
  /\ WF_vars(job.pc = "exit" /\ ChildExit(job.old))
  /\ \A o \in Ops : WF_vars(Identify(o)) /\ WF_vars(Release(o))
-----------------------------------------------------------------------------
(***************************************************************************)
(* What the host and the installer promise.                                *)
(***************************************************************************)
\* Never two generations of an application at once, through upgrades, recoveries,
\* failed starts and restarts.  A running child is the package the record names, and a
\* platform operation in progress belongs to the version and the service identity the
\* record has now: no version switch, package change or new identity happens under a
\* running child or a working operation (host.ts:64, 78-83, installer.ts:62-79).
OneGeneration ==
  /\ Cardinality(live) <= 1
  /\ \A p \in live : runtime[p] = rec.pkg
  /\ \A o \in Ops : ops[o].pc = "working" => ops[o].identity = rec.identity /\ ops[o].ver = rec.ver

\* An application runs only while it is enabled, or inside the transition that is about
\* to enable it, or when that transition lost its operation; and a completed disable is
\* quiet: no child, no handler, and no operation past the check of its identity
\* (host.ts:86-100, gateway.ts:25-27).
QuietUnlessEnabled ==
  /\ live # {} /\ ~rec.enabled => job.pc # "idle" \/ torn
  /\ Present /\ rec.op.action = "disable" /\ rec.op.status = "completed"
       => /\ live = {} /\ proc = 0
          /\ \A k \in Calls : calls[k].pc # "running"
          /\ \A o \in Ops : ops[o].pc # "working"

\* What serves is one generation, and only while it is meant to serve: both together, since
\* each order of stopping, draining and switching that keeps one could break the other
\* (host.ts:64-100).
ServesOneEnabled == TypeOK /\ OneGeneration /\ QuietUnlessEnabled

\* An enabled application is admitted for employees, unless its last start at boot or
\* recovery failed or a grant was edited since: what the database and what the host
\* remember agree on the revision (host.ts:98, 124-130).
EnabledIsAdmitted ==
  Present /\ rec.enabled /\ up /\ job.pc = "idle"
    => unserved \/ edited \/ (Admitted /\ proc # 0)

\* A successful upload is never followed by an application without a service identity
\* or without a lifecycle: an upgrade, a failed or interrupted job or a repair that took
\* them away gives them back before it reports success (installer.ts:73-83).
UploadsAreComplete ==
  Present /\ attempt = NoPkg => rec.identity # 0 /\ rec.op # NoOp

\* Every job ends, in success or in an error; nothing waits for ever on the queue.
JobsEnd == job.pc # "idle" ~> job.pc = "idle"

\* "Every step is repeatable, so a failed attempt can be retried by uploading the same
\* package again" (installer.ts:29-30): after a failed upload the registry would accept
\* the same package again.
RetryAccepted ==
  up /\ job.pc = "idle" /\ attempt # NoPkg
    => ~Blocked(rec) /\ (Kind(rec, attempt) = "upgrade" => attempt.ver # rec.ver)

\* "Downgrades are refused" (docs/app-model-v2.md:267): no upload succeeds that leaves
\* the application with a package of another version than its manifest.
DowngradeRefused == Present /\ attempt = NoPkg => rec.pkg.ver = rec.ver
=============================================================================
