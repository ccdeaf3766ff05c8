# Metro Operations Platform: TLA+ models and proofs

The platform runs business applications for a metro operator. An administrator uploads an
application package (`.mopkg`); the platform keeps an installation record in PostgreSQL, applies
the package's migrations, gives the application a service identity and grants, and runs its back
end as a child process per application. Employees call the application through the platform; the
application calls the platform back through a gateway. An updater on the host replaces the
platform itself while its applications are stopped for maintenance.

These modules model the parts of the code where several actors meet over shared state: the
installation record, the child processes, the installer and the lifecycle, maintenance and the
host's updater, the gateway and the admission of employees, the libraries for background jobs and
the outbox, and of the platform's own services those whose transactions interleave (chat,
signatures, notifications, work items, business roles, duty, attachments, knowledge libraries, data
alignment). Every safety property that the runs below check is also proved for all values of the
constants.

Paths below are relative to `server/src/app-platform` unless they begin with `docs/`, `deploy/`
or `server/`.

## The system

| Component | Source | State | Operations | What makes it hard |
|---|---|---|---|---|
| Application registry | `registry/` | one record per application: manifest version, package, enabled, revision, lifecycle operation, service identity, secret, grants | register, begin and settle a lifecycle operation, enable, set package, approve and revoke grants, issue, renew and revoke credentials | ten operations in any order behind one guard line; two layers with their own rules |
| Application process | `v2/process.ts`, `v2/child.ts` | state, current child, pending calls, restart timer, crash times | start, call, stop; ready, result, exit; five timers | messages, exits and timers race; the application may do anything |
| Application host | `v2/host.ts`, `v2/runtime.ts` | current process, the record it serves, employees of calls in flight | serve, install, enable, disable, recover, employee calls, platform operations | every step is separated by awaits; the record can change meanwhile; the API may die |
| Installer | `v2/installer.ts`, `v2/preview.ts`, `management/platform-grants.ts` | none of its own | install, upgrade, repair | six transactions that are not one |
| Management queue | `management/queue.ts`, `management/service.ts` | one promise chain, the maintenance gate | run, close | grant edits are outside of it |
| Platform maintenance | `updates/maintenance.ts` | snapshot in memory and in a file, the gate | prepare, restore, initialize | crash between intent and acknowledgement, lost answers, failing writes |
| Gateway | `gateway/` | slots, rate limits, one audit record per invocation | invoke, drain | deadline, audit and work race |
| Employee sessions | `employee/app-session.ts`, `employee/admission.ts` | cached admissions, loads in flight, a generation | get, clear | invalidation while loading; evidence read twice |
| Host updater | `deploy/updater.py`, `updates/control.ts` | task file, phase, backups, containers | download, install, recover | failure, death and recovery in every phase |
| Business authorization | `business-authorization/` | roles, rules, members, delegations, policies; a revision per application | owner's screen, edits, delegation, introduction of the membership | a screen read in several statements; rows of four tables that must agree |
| Chat | `server/src/platform/chat` | turns, active runs | send, cancel, run, initialize, close | three writers of a turn's status |
| Signatures | `server/src/platform/signatures` | request, session, signers, evidence, images | associate, sign, revoke, finalize, cancel | everything is looked up before it is locked |
| Notifications | `server/src/platform/notifications` | notice, intents per channel, attempts, inbox | create, report, cancel, read | late and repeated reports of workers |
| Work items | `server/src/platform/work-items` | items, batches, recurrence rules | create, move, batch, generate | write skew between the items of a batch; a rule that fell behind |
| Duty | `server/src/platform/duty` | periods, assignments, replacements, ends of catalog versions | create, assign, publish, cancel; propose, approve, cancel; close a version | validated before the lock, and against rows that are decided later |
| Attachments | `server/src/platform/attachments`, `employee/attachment-service.ts` | stored bytes, rows, retention | upload, bind to a record, hold, retain, remove | bytes, authorization and row fail one by one; answers get lost |
| Knowledge libraries | `server/src/platform/knowledge` | entries with vectors and leases, request ids, the model's revision | write, search, index, replace the model, pause | the model answers after everything has changed |
| Data alignment | `server/src/platform/data-alignment` | rules of authority, versions of a profile, runs with results, checkpoints | create, publish, retire, close; queue, start, record, decide, complete, advance | counts and stamps are read before the lock they are written under |
| Background jobs | `server/src/core/jobs` | running jobs, advisory locks, run rows | run, tick, stop | the lock is awaited between look and entry; handlers ignore their signal |
| Outbox | `server/src/core/events` | event rows with leases | enqueue, claim, publish, mark | leases that expire under a worker, and statements without a token |
| The rest | `server/src/core`, `server/src/platform`, `applications/`, `packages/`, the React front end | rows, files, pages | CRUD, parsing, presentation | little beyond the database's own transactions |

How they interact: the administration routes call registry edits directly and everything else
through the management queue; the queue runs the installer, which calls the registry and the
host; the host calls the registry, the process and `gateway.drain`; a child's platform requests
enter the gateway, which asks the host for the service identity; maintenance calls the host's
lifecycle with the queue in hand and closes the gate for everyone else; the updater calls
maintenance over a socket and stops and starts the API in between. Employee requests are admitted
by the sessions, which read access and installation; whoever changes either clears the sessions.
Signatures, notifications, work items, business roles, chat, duty, attachments, knowledge and data
alignment share nothing with each other but the database; applications reach most of them through
the gateway. Maintenance pauses the indexer of the knowledge libraries. Nothing in the application
registers a job or runs the outbox dispatcher at this commit; they are libraries with a contract.

What makes each of them correct:

- registry: enabled only behind a completed install or enable; grants and credentials never
  survive the identity or the version they belong to; an uninstall is final;
- process: one child at most; a call's outcome tells the truth about whether it ran; stop is
  final and returns; the crash limit holds;
- host and installer: one generation at a time; nothing of an old version runs or works under a
  new one; a disabled application is quiet; an enabled one is admitted; a job ends;
- maintenance: the gate is closed throughout; 'paused' means that what was enabled is stopped;
  nothing is repeated; what was enabled is enabled again;
- updater: no old version on a new schema; migration only behind a backup and with everything
  stopped; a task that ends leaves the platform in service;
- gateway: what the caller and the audit are told about a write is what happened; background work
  is bounded although replies are; every caller is answered;
- sessions: an announced change is seen; an admission is evidence of one moment;
- chat: one run per conversation, one ending per turn, and every turn ends;
- signatures: complete exactly when all who attend have signed; who signed stays signed;
- notifications: every attempt is counted once, and a notice is delivered or failed only with a
  reason in its intents;
- work items: a batch is closed exactly with its items; every occurrence of a rule is
  generated, passed over by the policy, withdrawn with its schedule or still due;
- business roles: no edit overwrites what its author never saw; introducing the membership keeps
  everybody's rights;
- duty: what is published is apart from other periods, effective, and stays as it was; approved
  replacements leave nobody with two duties at a time;
- attachments: a row always has its bytes; nothing is added once access is gone, and nothing is
  removed that is retained;
- knowledge: a vector that is ready is of the text and the model of its row; a search compares
  vectors of one model; a request sent again changes nothing twice; every text is in the end
  indexed or marked;
- data alignment: rules do not overlap, one version is published, a run's verdict agrees with its
  results, and a checkpoint only advances, behind a run that succeeded;
- jobs: runs exclude each other as their job asks; a drained runtime stays drained; rows tell what
  became of a run; every run ends;
- outbox: a delivered event was handled by every handler; two workers process one event only if a
  lease ran out.

## Modules

| Module | What it is |
|---|---|
| `Registry` | the operations of the registry on one record, as guards (`Can...`) and the records they store |
| `AppRegistry` | the registry as a service: any operation at any time, and the repository's save checks written separately |
| `CallContract` | abstract: what a caller may conclude from the outcome of a call |
| `AppProcess` | one application process with its children, channels, timers and calls; implements `CallContract` |
| `AppHost` | one installed application: record, management job, process as the host sees it, calls, platform operations, crash and boot; uses the operations of `Registry` |
| `Maintenance` | prepare and restore over several applications, the lifecycle operations of their hosts with every way they fail, the file, the gate, crashes |
| `Updater` | the updater, its commands, failures and recoveries, on top of `Maintenance`, whose actions are the API's |
| `Gateway` | invocations with work, deadline, audit and slots; implements `CallContract` for writes |
| `Admission` | one employee's requests, the two readings of the evidence, the cache |
| `Chat` | conversations with turns, runs, timeouts and restarts |
| `Attendance` | abstract: what a record with signatures promises |
| `Signatures` | the commands on one request and its evidence; implements `Attendance` |
| `Notifications` | one notice with its intents, attempts and workers |
| `WorkItems` | a batch with its items under READ COMMITTED; one recurrence rule, whose policy and schedule are replaced |
| `BusinessAuthorization` | one application's roles, rules, members and delegations, the switch to them, and the owner's screen |
| `Duty` | periods, assignments, replacements and the catalog of one organization |
| `Attachments` | uploads, rows and retention of one application's records |
| `KnowledgeIndex` | one library: writes with request ids, one indexer per process, the model, searches |
| `Alignment` | the rules, profile versions, runs and checkpoints of one external system |
| `Jobs` | one job on several processes: runs, attempts, the advisory lock, stop |
| `Outbox` | events, dispatchers and leases |
| `RegistryProofs` | lemmas about the operations of `Registry` on one record, used by the next and by `HostProofs` |
| `RowsProofs` | theorems about `AppRegistry`, `Attachments`, `Outbox`, `Jobs` |
| `ProcessProofs`, `HostProofs` | theorems about `AppProcess` and `AppHost` |
| `MaintenanceProofs` | theorems about `Maintenance` and `Updater` |
| `EmployeeProofs` | theorems about `Admission`, `Gateway`, `Chat` |
| `ServicesProofs` | theorems about `Notifications`, `WorkItems`, `BusinessAuthorization`, `Signatures` |
| `PlatformProofs` | theorems about `Duty`, `Alignment`, `KnowledgeIndex` |
| `MC...` | constants for TLC; most put modules that share no state beside each other |

The correspondence in short:

- A registry operation runs in one transaction that locks the row, so it is one step. A call that
  throws stores nothing and is a stuttering step. Random identifiers are named after the revision
  that made them. Callers name the revision they read; a stale one is refused.
- In `AppProcess` a step is one callback of the parent (a message, an exit, a timer, a call), one
  callback of the child, or the death of a child. Channels are FIFO; the exit event is not ordered
  with what the child sent before. The crash window is a choice of how many earlier crashes are
  still in it. The restart timer fires after the pipes of dead children are read: the delay is at
  least a second.
- In `AppHost` and `Maintenance` a step is what happens between two awaits. `job` (in `AppHost`)
  and `pc` (in `Maintenance`) say where the coroutine stands and what it carries in its local
  variables, so a value read before an await is used after it, as in the code. `Fail` is the throw
  that ends a job. `Crash` clears everything that is not in the database or the file.
- In `Updater` a step is one command of the worker or of the operator's recovery. A command that
  fails may have taken effect; `Interrupted` is the except clause or a death, and the restarted
  updater does nothing but wait for the operator. The API's steps are those of `Maintenance`.
- In `Gateway`, `Admission`, `Chat`, `Jobs` and `KnowledgeIndex` a step is again what happens
  between two awaits. A handler of a job may take any time, fail, and ignore its signal.
- In the database services a step is a transaction from its first lock on. What it read before is
  kept (`call`, `command`, `reports`, `screens`, ...) and may be out of date; where the code takes
  no lock, the statements are steps of their own.
- Time is what the code compares: in `Outbox` and `KnowledgeIndex` a lease has run out or not, in
  `Attachments` and `Alignment` there is a clock that may advance at any step, in `Duty` a date and
  three windows of a day.
- The history variables (`issued`, `torn`, `edited`, `unserved`, `attempt`, `was`, `disables`,
  `enables`) are read by properties only. The definitions under `\* Mutant:` are plausible
  mistakes kept beside the definition they replace; nothing refers to them in the specifications.

## Runs

| Run | Question | Constants and why they are enough |
|---|---|---|
| `stored_rows` | registry: do lifecycle, grants and credentials ever disagree, would the repository refuse what the service computes; attachments: are bytes, access and retention kept; jobs: do runs exclude each other and rows tell the truth; outbox: is a delivered event handled | registry: two versions, the second with fewer permissions, a rebuilt package of the first, two permissions, no operation from revision 7 on (long enough for install, grants, upgrade and further edits); attachments: two uploads for one record, two intents, two editors, two instants, three changes; jobs: two processes, two runs, two attempts, one failing write; outbox: two events, two dispatchers, two handlers, batches of two, two deliveries, one failing write or death |
| `app_process` | outcomes, one child, final stop, crash limit; stop returns and calls are answered | three calls with room for two, two crashes to the limit, three children: a start and two restarts |
| `app_process_stop` (violated) | does stop wait for calls | one call |
| `app_host` | what a job leaves behind, and does it end | three packages of two versions, three jobs, one grant edit, one crash, one call and one platform operation: enough for install, upgrade and a repair with an interruption in any of them |
| `app_host_retry` (violated) | can a failed upload be retried | one job, no crash |
| `app_host_downgrade` (violated) | can an upload take the program back | three jobs, one crash |
| `updater` | maintenance alone: gate, no repetition, restored intent; an update: does an interrupted or recovered one ever mix versions, migrate unsafely or end out of service | two applications, enabled or not at the start; alone, two tasks, one edit, one crash; in an update, two releases, four request identifiers (a download and an install for each release), two interruptions of the updater (so a recovery may be interrupted too) and one crash of the API, with every recovery an operator may choose |
| `updater_probe` (violated) | is the platform in maintenance when a recovery probes for it | one application, one release, one interruption |
| `employee` | stale or mixed admissions; do reply, audit and work of a call agree, is it answered; runs and endings of conversations | admissions: two requests, two identities, two changes and two clears, so a load can be overtaken twice; gateway: one read and one write with a slot each, whose work, deadline and audit race (that background work stays within the slots is proved for any number); conversations: two messages of one employee in one or two conversations, or of two employees, one place for runs, one failing write, one restart |
| `services` | evidence, accounts of delivery, batches, recurrences, roles | two signers, two transactions and three images; one notice with one channel, two workers and two attempts; two items of one batch; a rule over four instants with three schedules and room for two occurrences in one run, so a rule falls behind and is caught up under another schedule; two employees, workgroups, roles and screens, two revisions after the first |
| `platform` | duty: what is published holds, cover leaves nobody with two duties; alignment: definitions, verdicts and checkpoints agree | rosters: one person, two periods, two dates, two assignments, two clients; replacements: a published period with two day shifts of two people, whom a third may replace, two replacements, so one can relieve the substitute of the other; definitions: two rules, two versions, two instants, the first run under them; runs: two, one queued with two records and one without any, one kind of decision, two advances |
| `background` | does every run of a job and every stop end, is every text in the end indexed; what do index, search and pause rest on | jobs: one process, two runs, two attempts; index: one text, two processes, two requests, two versions, two changes of the model, one death or slow answer |

`stored_rows`, `employee`, `services`, `platform` and `background` put modules beside each other that
share no state: `subject` says which of them moves, so the state space is the sum and not the
product of theirs. The actions, and the fairness of `Gateway`, `Chat`, `Jobs` and `KnowledgeIndex`,
are those of the modules. `updater` chooses between maintenance alone and an update in the same way.
In `platform`, the roster and definition questions narrow what is enumerated, not what an action
does: rules end at their start or never, only day shifts are closed, and the runs of the last
question begin as one that is queued and one that is running.

Deadlock checking is off because the models stop at their bounds (`MaxRevision`, `MaxChildren`,
`MaxJobs`, `MaxEdits`, `MaxCrashes`, `MaxTasks`, `MaxInterrupts`, `MaxChanges`, `MaxClears`,
`MaxFaults`, `MaxRestarts`, `MaxAttempts`, `MaxWriteFaults`, `MaxRevisions`, `MaxDeliveries`,
`MaxLosses`, `MaxTime`, `MaxVersion`, `MaxAssignments`, `MaxReplacements`, `MaxRuns`, `MaxAdvances`,
`Days`, `Images`) and because a call, an invocation, a run or a message is made once.
Symmetry is used for identifiers that are only compared (request identifiers of updates, signers,
transactions, workers, processes, periods, clients, rules) and never in a run with liveness.

Every module has a type invariant (`TypeOK`, `SigTypeOK`, ...). All of them are proved, some as
theorems of their own, most inside the inductive invariants; `AttachmentsKept`, `RunsHold`,
`EventsHold`, `UpgradeIsSafe`, `ChildrenObey`, `ServesOneEnabled` and `AlignmentHolds` also include
theirs, so that the runs check them.

Several properties are conjunctions of parts with names of their own:

- `ChildrenObey`: `OneChildServes` and `NothingBringsItBack`; `CallsAndStopEnd`: `StopReturns` and
  `CallsSettle`;
- `ServesOneEnabled`: `OneGeneration` and `QuietUnlessEnabled`;
- `UpgradeIsSafe`: `OldNeverOnNew` and `MigratesSafely`;
- `WorkHolds`: `BatchFollowsItems` and `NoOccurrenceLost`;
- `PublishedRosters`: `PublishedApart` and `AssignmentsEffective` in every state, and
  `PublishedIsFixed` of every step;
- `IndexHolds`, `AttachmentsKept`, `RunsHold`, `EventsHold`, `AlignmentHolds` and `AlignmentMoves`:
  the parts that the comments above them name.

Some results that are not obvious from the code:

- `EnabledIsAdmitted` needs its two exceptions: after a failed start at boot, and after a grant
  edit, the database says enabled and employees are refused, until the next recover or lifecycle
  change. Grant edits raise the revision that admission compares.
- `QuietUnlessEnabled` needs one too: a grant edit between begin and
  settle makes the settling fail with `STALE_REVISION`, and leaves the operation running, the
  process up and the record disabled.
- An application can be enabled without a service identity (an administrator enables it after the
  migration of its first installation failed); `UploadsAreComplete` says the next successful upload
  repairs that.
- `BatchFollowsItems` needs `late`: an item may be created in a batch that has been closed and
  leaves it closed over unfinished work until one of its items is reopened or all are done.
- `TurnsEnd` needs `abandoned`: a turn whose last write fails stays 'running', and keeps its
  conversation busy, until somebody cancels it or the service restarts.

What the models reach and no property forbids, because the repository says nothing of it:

- a call admitted under one version can be dispatched to the process of the next;
- `cancel` of a conversation that falls between the commit of the turn and its entry in the map of
  runs changes the row only, and the run goes on behind it, up to calling the application;
- an image that was stored for a signature that is then refused, rolled back or replaced stays in
  the object storage;
- a delegation of somebody who changed workgroup cannot be taken back by its holders, and while it
  is there the membership cannot be introduced (`business-authorization/service.ts:67,125`);
  a withdrawn delegation policy that is given again revives what was delegated under it;
- a lifecycle operation that changed the record but answered with an error clears no session, so
  an admission may be up to thirty seconds old after it;
- a task of the updater that was interrupted in 'draining' before its request reached the API can
  only be recovered once the API knows a snapshot of that task;
- two ticks of a job with a lock may overlap within one process, because a database session may take
  its own advisory lock again; `stop()` may answer 'drained' while a run awaits the lock; and an
  abort that falls between two attempts does not keep the next one from starting;
- once a lease of the outbox has run out, its event may be claimed a third time under a live second
  claim: the statements that settle an event carry no token;
- a text that was marked as failed is tried again whenever the model is replaced;
- a night shift on the last date of a period reaches into the day shift of the next one: publication
  compares the shifts of one period only;
- a substitute has two duties at a time while the replacement that relieves him is only proposed or
  has been cancelled;
- a child that outlived its operation (see `QuietUnlessEnabled` above) belongs to a disabled
  application, so `prepare` passes over it (`updates/maintenance.ts:43`) and the file may say 'paused'
  while it runs; no later lifecycle operation is accepted for it, and it ends when the API does, which
  the updater stops before the backup;
- replacing the schedule of a recurrence rule withdraws the occurrences that were due under the old
  one and not generated yet, also under the policy 'all', and the new one may add some in the past:
  the next run counts from the last occurrence on (`work-items/index.ts:404,933-934`);
- a synchronization run goes on after its profile is retired or its rule closed, and rules and
  profiles may be created for a system that has just been deactivated.

### Disagreements with the documentation

1. `app_host_retry`: `v2/installer.ts:29-30` and `docs/app-model-v2.md:266` say a failed upload is
   continued by uploading the same package again. After a failed start the operation is stored as
   failed, and `registry/index.ts:61` refuses every later one.
2. `app_process_stop`: `docs/app-model-v2.md:143` has stop wait up to ten seconds for calls in
   flight. `v2/process.ts:76-87` does not.
3. `app_host_downgrade`: `docs/app-model-v2.md:267` says downgrades are refused. If the API dies
   between the version switch and `setRuntimePackage` of an upgrade, the record has the new
   manifest and the old package. The preview compares with the package, so the old file is taken
   for a repair, and the upload ends in success with the old program under the new manifest. This
   needs an upgrade without new migrations, which would otherwise reject the old file.
4. `updater_probe`: an updater that starts and finds a task in any active phase, also one that was
   only downloading, makes it `recovery_required`. `restart-current`, which
   `docs/linux-installation.md:74-75` offers to bring the old services back, then stops the
   platform and runs `probe.mjs`, which takes for granted that applications are stopped before an
   update (`deploy/probe.mjs:6`). Nothing has stopped them, the probe refuses, and the platform
   stays down with the task in `recovery_required`.
5. Without a run of its own: `docs/developer/storage-files.md:43` says a record has at most 500
   attachments. `employee/attachment-service.ts:84` counts the rows before the bytes are stored, and
   nobody counts again, so uploads in parallel all pass. In `Attachments`, `StartUpload` counts and a
   later step adds the row, and a record may end with more rows than `Limit`.

## Fairness

`AppProcess`: the restart, ready, stop and call timers fire, the kernel executes a SIGKILL and
reports an exit, and the event loop delivers what has arrived. Nothing is assumed of the
application: `Load`, `Handle`, `Finish` and a voluntary `Die` have no fairness.

`AppHost`: awaits return (`JobStep`), a child that is being stopped exits (what `StopReturns`
shows of `AppProcess`), and an operation inside the platform is identified and released. Whether
a start succeeds is a choice; requests, edits and crashes have no fairness.

`Gateway`: the deadline and the grace period are timers, and the continuation of a promise that
has settled runs (`Abort`, `Expire`, `Settle`). Nothing is assumed of operations, authorization or
the audit store, so `InvocationsAnswered` holds although each of them may hang.

`Chat`: the sixty-second timer fires, settled promises continue, the database answers the last
write, a turn that was committed starts, and the service is started again after it died. Nothing
is assumed of the model that routes or of the application that is called.

`Jobs`: intervals, timeouts, retry delays and the shutdown deadline are timers, the database answers
with or without an error, and promises that have settled continue. Nothing is assumed of a handler.

`KnowledgeIndex`: ticks of the indexer follow each other, an embedding request is answered or times
out (after sixty seconds, well before a lease of two minutes), and the lease of a process that died
runs out. Nobody has to edit, search, replace the model or pause.

`Maintenance` and `Updater` are checked for safety only: the code blocks and waits for an operator
in every doubt, so nothing has to happen. So are the admission, the outbox (which nothing runs) and
the database services, whose operations happen when somebody asks for them.

## Proofs

Every safety property of the runs that pass is a theorem of the component's specification, for all
values of the constants that satisfy the named assumptions: any number of versions, permissions,
applications, employees, calls, records, people, processes, and any bound. The assumptions are
typing, distinctness of the values that mean "nothing", and finiteness of sets that the code can
list. What follows says what has to be added to the promises to make them inductive.

Registry (`RegistryProofs`, `RowsProofs`; `RegistryAssumption`, `MaxRevisionAssumption`). `Good(r)`
says of one record that it is a record, `WellFormed` (the promises as facts about it, and "an open
version change has a target version") and `Aged`: identity, secret and operation id are not younger
than the revision. One lemma per operation (`BegunOK`, `SettledOK`, `WithGrantOK`, ...) shows that it
maps a good record to a good record. `RegistryInv` adds that no credential ever handed out is younger
than the record: a new secret is named after the next revision, which none of them can have.
`NextStores` and `StoredKeeps` lift that to `Next`, and `Invariance`, `TypeCorrect`,
`EnablingIsSettled`, `GrantsStayBound`, `UninstallStays` and `CredentialsStayDead` follow.
`LayersAgree` computes that the record each operation stores is one the repository accepts.

Attachments, outbox, jobs (`RowsProofs`): `AttachmentsAreKept`, from where each upload stands with
its bytes and its row, and from what a command that has read may still decide;
`EventsAreNeitherLostNorDoubled`, from `LeaseOK` (an event whose lease was not overtaken is in the
batch of at most one dispatcher, and then it is 'processing') and `DispatchersOK` (which handlers the
event at hand has passed); `RunsKeepTheirPromise`, from `SessionsHold` (with a lock, one session holds
it, once for every run of its process that is under way), `EntryHolds` (without one, the run under way
is the entry of its process, and what `stop()` waits for) and `RunTells` (what the rows say at each
point of a run).

Process (`ProcessProofs`): `ChildrenObeyTheirParent` and `CallsAreKept`, which is the refinement of
`CallContract`. `Family` says that all children but the last have exited; `Piped` what the pipes may
hold by what the child has come to; `Accounted` that a call is on its way at most once or was entered
once; `GivenUp` what is left behind after the last crash and the end.

Host (`HostProofs`): `OneGenerationServes`, `AdmissionFollows` and `UploadsComplete`. `Carried` says
that the record a job holds in its local variable is the stored one but for grants edited since;
`JobOK`, that a switch either owns the open operation or replaces the process of an enabled
application, and that an installer works on one that is out of service; `ProcessOK`, that there is
one process, of the package the record names, outside of a switch only of an enabled application or
of one whose switch lost its operation; `TrafficOK` and `AdmissionOK` follow calls, operations and
the remembered revision. The registry's lemmas are used as they are.

Maintenance and updater (`MaintenanceProofs`): `MaintenanceTypes`, `MaintenanceGated`,
`MaintenanceQuiet`, `MaintenanceOnce`, `MaintenanceRestores`. What makes the invariant inductive is
what a restarted API has to go by. `Claims(s)` says what a snapshot may claim: before its list is
made nothing was changed; after it every entry remembers what the application was, and an entry
'stopped' means exactly one disable and no enable. `Recorded` holds it of the file and of the memory.
`Phased` says that an intent is in the file before the operation it announces (so an operation whose
answer is lost is 'stopping' or 'starting' on the disk and is never retried), `Counted` and `Progress`
how far the loops have come, `Gated` why the gate follows from either snapshot. `Hosted` says whose
child may run: that of an enabled application, or of one with an operation that was not completed,
which the task has not stopped; `Operated` sums up what an operation leaves, however it ends
(`AnsweredOK`, `BrokenOK`). `OnlyCompleteEnds` is
the extra fact that the action property needs. On top of it `UpgradesAreSafe` and
`UpdatesEndInService`: the schema is that of the running version or of the task's, and where the
worker stands says which (`Deployed`); the phase in the task file tells where the worker is
(`Posted`); what the operator may still do follows from where the task failed first (`Resumed`); and
a task that has asked for nothing has begun no maintenance (`Asked`). `Gone` is what a crash of the
API and its stop by the updater have in common.

Admission, gateway, chat (`EmployeeProofs`): `AdmissionTypes`, `NothingIsStale` and
`EvidenceIsOfOneMoment`. The access is read twice around the installation and revisions never
return, so if the readings agree the pair existed; and each request has a floor, the latest
announcement it has to see, which is passed on to the load that it waits for. `GatewayTypes`,
`AuditIsTrue`, `BackgroundStaysBounded` and `WritesAreKept` (the refinement of `CallContract` by
writes), from what reply, audit note and abort each may say at every stage of the work, and from the
slots being those whose work goes on. `OneRunIsEnough` and `EndingsStay`, from counting the places
for runs together with those who are being admitted.

Services (`ServicesProofs`): `DeliveriesAreAccounted`; `BatchesAndRulesAccount`, where the lock of the
batch makes what a transaction has listed stay true until it commits, and the first occurrences that
a run takes are all that are due up to the last of them (`FirstAreFirst`, `RunLeavesTheRest`); `ScreensAreNotBlind` and
`IntroductionTakesNothing`, where a screen follows the tables as long as its revision is current;
`SignatureTypes`, `EvidenceIsKept`, `CancelledStays` and `AttendanceIsKept`, the refinement of
`Attendance`, from what each command may have found before its lock.

Duty, data alignment, knowledge (`PlatformProofs`): `DutyInvariance`, `CoverIsSound` and
`PublishedRostersHold`. Replacements in force share no assignment, so who works a duty is decided by
one row at most and does not depend on its approval; the cover of a period stands as long as none of
its rows was cancelled. `AlignmentAgrees` and `AlignmentAdvances`: the verdict that a completion
carries agrees with the counts it was given for, and an advance carries a run that has succeeded.
`IndexIsTrue`: the token of an entry tells what its process is making, and for which text and model.

Only model-checked are the liveness properties `RunsEnd`, `CallsAndStopEnd`, `JobsEnd`,
`InvocationsAnswered`, `TurnsEnd` and `EventuallyIndexed`: fairness and ENABLED are out of the reach of
the prover's backends. The four violated properties are counterexamples that TLC shows. Theorems
without a run of their own (`Invariance`, `TypeCorrect`, `UninstallStays`, `MaintenanceTypes`,
`MaintenanceQuiet`, `GatewayTypes`, `BackgroundStaysBounded`, `SignatureTypes`, `CancelledStays`,
`AdmissionTypes`, `DutyInvariance`) are type correctness, inductive invariants worth reading, and
promises that the checked ones do not imply.

## Not modelled

In the modelled parts: the child's 'error' event and the fork that fails; the abort message (its
only effect is inside the application); the IPC ping the design mentions, which the code does not
have; the development mode that replaces a running package; applications without a back end (no
process; grants in delegated mode); the time limits of grants; the registry's history rows and
audit; orderly shutdown; the order in which boot starts several applications; a platform version
that no longer fits a manifest (the settle that re-checks compatibility). Of the updater: the first
installation, the verification of releases and archives, and releases of format 1, which have no
maintenance. Of the gateway: the operations behind it, except those on signatures, and the rates.
Of the services: signers known by name only, positions, public tokens and histories; preferences
and recipients by organization; assignment, progress, candidates and visibility of work items;
audiences and the scopes 'department' and 'self' of business roles; the texts and the routing of
chat; the calendar of duty, the creation of catalog versions, people who leave and the import of old
rosters; reading and archives of attachments; libraries with exact retrieval, the ranking of texts
and the protocols of the models; dictionaries, directory references and owners of data alignment. Of
the jobs: a database session that is lost with its lock.

Whole components, with the reasons (see also `PROJECT.json`):

- manifests, packages and migrations parse and validate, or are one transaction of the installer;
- the administration API, AI tools, submissions and the developer download are requests and answers
  over the database, without state of their own between them;
- accounts and sessions, and the master data (people, locations, assets, authorization,
  responsibility, audit): each command is one transaction on its own rows;
- the core services (configuration, database, HTTP, the runtime's start and stop, the core's own
  migrations, observability) are infrastructure, of which the models assume transactions and locks;
- the front end, the SDK, the command line and the sample applications are presentation and
  programs on top of the platform; from here they are handlers that may do anything.

This is also why the share of the code that the models stand for is small: most of the lines are
pages, parsing, validation, SQL and its rows.

## Plan

Done: `Registry`, `AppRegistry`, `CallContract`, `AppProcess`, `AppHost`, `Maintenance`, `Updater`,
`Gateway`, `Admission`, `Chat`, `Attendance`, `Signatures`, `Notifications`, `WorkItems`,
`BusinessAuthorization`, `Duty`, `Attachments`, `KnowledgeIndex`, `Alignment`, `Jobs`, `Outbox`; and
the proofs of every safety property their runs check.

Further work, in this order:

1. `Updater` with releases of format 1, and the operator's first installation;
2. assignment and candidates of work items, and the recipients of notifications;
3. what the models reach and no property forbids, once the repository says what is meant: the
   overlapping ticks of a locked job, the settling statements of the outbox, the duties at the end
   of a period.
