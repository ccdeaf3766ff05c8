-------------------------------- MODULE Jobs --------------------------------
(***************************************************************************)
(* The runtime of background jobs (core/jobs/index.ts): one job, several   *)
(* processes that may run it, ticks that call run(), retries, timeouts,    *)
(* the advisory lock and the orderly stop.                                 *)
(*                                                                         *)
(* A step is what happens between two awaits.  A handler is the program of *)
(* whoever registered the job: it may take any time, fail, and ignore its  *)
(* signal.  The advisory lock belongs to the database session of a         *)
(* process, which counts how often it has taken it.                        *)
(***************************************************************************)
EXTENDS Integers, FiniteSets

CONSTANTS
  Hosts,          \* processes, each with a runtime
  Runs,           \* calls of run()
  MaxAttempts,    \* maxAttempts of the job
  MaxWriteFaults, \* bound on failing writes of core_job_runs
  NoRun

ASSUME JobsAssumption ==
  MaxAttempts \in Nat \ {0} /\ MaxWriteFaults \in Nat /\ IsFiniteSet(Runs) /\ NoRun \notin Runs

Attempts == 1..MaxAttempts
Verdicts == {"succeeded", "failed", "timeout", "dead_letter", "cancelled"}
Launched == {"starting", "working", "recording", "waiting", "releasing"}

NotCalled == [pc |-> "idle"]

VARIABLES
  job,       \* whether it has an advisoryLockKey, a timeoutMs, a retryDelayMs
  runtime,   \* per process: stopped, the entry of `running`, what stop() waits for and said
  run,       \* per call: where it stands, its process, attempt, controller and verdict
  locks,     \* how often each session holds the advisory lock
  handlers,  \* attempts whose handler has not settled
  told,      \* attempts whose signal has been aborted
  rows,      \* core_job_runs.status of each attempt
  writeFaults

jobVars == <<job, runtime, run, locks, handlers, told, rows, writeFaults>>

JobTypeOK ==
  /\ job \in [locked : BOOLEAN, timed : BOOLEAN, delayed : BOOLEAN]
  /\ runtime \in [Hosts -> [stopped : BOOLEAN, running : Runs \cup {NoRun}, awaits : Runs \cup {NoRun},
                            answer : {"none", "waiting", "drained", "late"}]]
  /\ run \in [Runs -> {NotCalled} \cup
       [pc : Launched \cup {"acquiring", "skipped", "ended"}, host : Hosts, attempt : 0..MaxAttempts,
        aborted : BOOLEAN, verdict : Verdicts \cup {"none", "threw"}]]
  /\ locks \in [Hosts -> 0..Cardinality(Runs)]
  /\ handlers \subseteq Runs \X Attempts /\ told \subseteq Runs \X Attempts
  /\ rows \in [Runs -> [Attempts -> Verdicts \cup {"none", "running"}]]
  /\ writeFaults \in 0..MaxWriteFaults

JobInit ==
  /\ job \in [locked : BOOLEAN, timed : BOOLEAN, delayed : BOOLEAN]
  /\ runtime = [h \in Hosts |-> [stopped |-> FALSE, running |-> NoRun, awaits |-> NoRun, answer |-> "none"]]
  /\ run = [r \in Runs |-> NotCalled]
  /\ locks = [h \in Hosts |-> 0] /\ handlers = {} /\ told = {} /\ writeFaults = 0
  /\ rows = [r \in Runs |-> [a \in Attempts |-> "none"]]
-----------------------------------------------------------------------------
Host(r) == run[r].host
Attempt(r) == <<r, run[r].attempt>>
RunGoes(r, pc) == run' = [run EXCEPT ![r].pc = pc]

\* The rest of run() up to the first await: the entry replaces what was there.
Launch(r) ==
  /\ run' = [run EXCEPT ![r].pc = "starting", ![r].attempt = 1]
  /\ runtime' = [runtime EXCEPT ![Host(r)].running = r]

Skip(r) == RunGoes(r, "skipped") /\ UNCHANGED runtime

Call(r, h, pc, attempt) ==
  run' = [run EXCEPT ![r] = [pc |-> pc, host |-> h, attempt |-> attempt, aborted |-> FALSE, verdict |-> "none"]]

\* run(), by hand or by an interval.
Tick(r, h) ==
  /\ run[r] = NotCalled
  /\ \/ /\ runtime[h].stopped \/ runtime[h].running # NoRun
        /\ Call(r, h, "skipped", 0) /\ UNCHANGED runtime
     \/ /\ ~runtime[h].stopped /\ runtime[h].running = NoRun
        /\ \/ job.locked /\ Call(r, h, "acquiring", 0) /\ UNCHANGED runtime
           \/ /\ ~job.locked /\ Call(r, h, "starting", 1)
              /\ runtime' = [runtime EXCEPT ![h].running = r]
  /\ UNCHANGED <<job, locks, handlers, told, rows, writeFaults>>

\* Mutant: the answer is not looked at.
AcquireAnyway(r) ==
  /\ run[r].pc = "acquiring" /\ locks' = [locks EXCEPT ![Host(r)] = @ + 1] /\ Launch(r)
  /\ UNCHANGED <<job, handlers, told, rows, writeFaults>>

\* pg_try_advisory_lock(): a session never keeps itself out.
Acquire(r) ==
  /\ run[r].pc = "acquiring"
  /\ \/ \E h \in Hosts \ {Host(r)} : locks[h] > 0 /\ Skip(r) /\ UNCHANGED locks
     \/ /\ \A h \in Hosts \ {Host(r)} : locks[h] = 0
        /\ locks' = [locks EXCEPT ![Host(r)] = @ + 1] /\ Launch(r)
  /\ UNCHANGED <<job, handlers, told, rows, writeFaults>>

\* The row is written; without a timeout the handler is called unless the job was aborted
\* meanwhile, with one it is called in any case, and with a signal of its own.
Started(r) ==
  /\ run[r].pc = "starting"
  /\ rows' = [rows EXCEPT ![r][run[r].attempt] = "running"]
  /\ \/ /\ run[r].aborted /\ ~job.timed
        /\ run' = [run EXCEPT ![r].pc = "recording", ![r].verdict = "cancelled"] /\ UNCHANGED handlers
     \/ /\ ~run[r].aborted \/ job.timed
        /\ handlers' = handlers \cup {Attempt(r)} /\ RunGoes(r, "working")
  /\ UNCHANGED <<job, runtime, locks, told, writeFaults>>

\* The catch clause of runAttempts().
Failed(r, status) ==
  run' = [run EXCEPT ![r].pc = "recording",
                     ![r].verdict = CASE run[r].aborted -> "cancelled"
                                      [] ~run[r].aborted /\ run[r].attempt = MaxAttempts -> "dead_letter"
                                      [] OTHER -> status]

HandlerEnds(r) ==
  /\ run[r].pc = "working" /\ handlers' = handlers \ {Attempt(r)}
  /\ \/ Attempt(r) \notin told /\ run' = [run EXCEPT ![r].pc = "recording", ![r].verdict = "succeeded"]
     \/ Failed(r, "failed")
  /\ UNCHANGED <<job, runtime, locks, told, rows, writeFaults>>

\* Mutant: the handler is told, and the race goes on.
TimeoutOnlyTells(r) ==
  /\ run[r].pc = "working" /\ job.timed
  /\ told' = told \cup {Attempt(r)}
  /\ UNCHANGED <<job, runtime, run, locks, handlers, rows, writeFaults>>

\* The race is over; the handler is told and goes on as it likes.
Timeout(r) ==
  /\ run[r].pc = "working" /\ job.timed
  /\ told' = told \cup {Attempt(r)} /\ Failed(r, "timeout")
  /\ UNCHANGED <<job, runtime, locks, handlers, rows, writeFaults>>

AbandonedEnds(r, a) ==
  /\ <<r, a>> \in handlers /\ (run[r].pc = "working" => run[r].attempt # a)
  /\ handlers' = handlers \ {<<r, a>>}
  /\ UNCHANGED <<job, runtime, run, locks, told, rows, writeFaults>>

NextAttempt(r) == run' = [run EXCEPT ![r].pc = "starting", ![r].attempt = @ + 1]

Retries(r) == run[r].verdict \in {"failed", "timeout"}

\* finishRun() has returned.
Recorded(r) ==
  /\ run[r].pc = "recording"
  /\ rows' = [rows EXCEPT ![r][run[r].attempt] = run[r].verdict]
  /\ \/ ~Retries(r) /\ RunGoes(r, "releasing")
     \/ Retries(r) /\ job.delayed /\ RunGoes(r, "waiting")
     \/ Retries(r) /\ ~job.delayed /\ NextAttempt(r)
  /\ UNCHANGED <<job, runtime, locks, handlers, told, writeFaults>>

\* The write of a row fails.  A success that cannot be recorded counts as a failure of the
\* job; any other failing write ends the run with an exception.
WriteFails(r) ==
  /\ writeFaults < MaxWriteFaults /\ writeFaults' = writeFaults + 1
  /\ \/ run[r].pc = "recording" /\ run[r].verdict = "succeeded" /\ Failed(r, "failed")
     \/ /\ run[r].pc \in {"starting", "recording"} /\ (run[r].pc = "recording" => run[r].verdict # "succeeded")
        /\ run' = [run EXCEPT ![r].pc = "releasing", ![r].verdict = "threw"]
  /\ UNCHANGED <<job, runtime, locks, handlers, told, rows>>

\* The delay is over, or its signal was aborted.
Wait(r) ==
  /\ run[r].pc = "waiting"
  /\ \/ ~run[r].aborted /\ NextAttempt(r)
     \/ run[r].aborted /\ run' = [run EXCEPT ![r].pc = "recording", ![r].verdict = "cancelled"]
  /\ UNCHANGED <<job, runtime, locks, handlers, told, rows, writeFaults>>

Unlocked(r) == IF job.locked THEN [locks EXCEPT ![Host(r)] = @ - 1] ELSE locks

\* pg_advisory_unlock() has returned; run() deletes the entry of its job.
Release(r) ==
  /\ run[r].pc = "releasing" /\ RunGoes(r, "ended") /\ locks' = Unlocked(r)
  /\ runtime' = [runtime EXCEPT ![Host(r)].running = NoRun]
  /\ UNCHANGED <<job, handlers, told, rows, writeFaults>>

\* stop(): aborts what is in `running`, and waits for it.
Stop(h) ==
  LET r == runtime[h].running IN
  /\ ~runtime[h].stopped
  /\ runtime' = [runtime EXCEPT ![h] = [stopped |-> TRUE, running |-> r, awaits |-> r,
                                         answer |-> IF r = NoRun THEN "drained" ELSE "waiting"]]
  /\ run' = IF r = NoRun THEN run ELSE [run EXCEPT ![r].aborted = TRUE]
  /\ told' = IF r # NoRun /\ run[r].pc = "working" THEN told \cup {Attempt(r)} ELSE told
  /\ UNCHANGED <<job, locks, handlers, rows, writeFaults>>

Answer(h, answer) ==
  /\ runtime[h].answer = "waiting" /\ runtime' = [runtime EXCEPT ![h].answer = answer]
  /\ UNCHANGED <<job, run, locks, handlers, told, rows, writeFaults>>

Drained(h) == runtime[h].answer = "waiting" /\ run[runtime[h].awaits].pc = "ended" /\ Answer(h, "drained")
ShutdownTimeout(h) == Answer(h, "late")

JobNext ==
  \/ \E r \in Runs : \/ \E h \in Hosts : Tick(r, h)
                     \/ Acquire(r) \/ Started(r) \/ HandlerEnds(r) \/ Timeout(r)
                     \/ Recorded(r) \/ WriteFails(r) \/ Wait(r) \/ Release(r)
                     \/ \E a \in Attempts : AbandonedEnds(r, a)
  \/ \E h \in Hosts : Stop(h) \/ Drained(h) \/ ShutdownTimeout(h)

\* Timers fire, the database answers, and promises continue; handlers do what they like.
JobFairness ==
  /\ \A r \in Runs : WF_jobVars(Acquire(r) \/ Started(r) \/ Recorded(r) \/ Wait(r) \/ Release(r) \/ Timeout(r))
  /\ \A h \in Hosts : WF_jobVars(Drained(h) \/ ShutdownTimeout(h))

JobSpec == JobInit /\ [][JobNext]_jobVars /\ JobFairness
-----------------------------------------------------------------------------
\* Two runs of the job are never under way at once in one process when it has no lock,
\* nor in two processes when it has one, through retries, timeouts and stops
\* (index.ts:183-199).
RunsExclude ==
  \A r, s \in Runs : r # s /\ run[r].pc \in Launched /\ run[s].pc \in Launched =>
    job.locked = (Host(r) = Host(s))

\* Without a lock, a runtime that said it was drained has no run under way and starts
\* none (index.ts:258-285).
DrainedStaysDrained ==
  \A r \in Runs : run[r].pc \in Launched => job.locked \/ runtime[Host(r)].answer # "drained"

\* What the rows say of a run that has ended: its attempts in a row, each failed but the
\* last, which says what became of the run, unless a row could not be written.
RowsTell ==
  \A r \in Runs : run[r].pc = "ended" /\ run[r].verdict # "threw" =>
    /\ rows[r][run[r].attempt] = run[r].verdict
    /\ \A a \in Attempts : /\ a < run[r].attempt => rows[r][a] \in {"failed", "timeout"}
                           /\ a > run[r].attempt => rows[r][a] = "none"

\* Every run of a job that has a timeout ends, whatever its handlers do, and stop()
\* returns also for one that has none.
RunsEnd ==
  /\ \A r \in Runs : (run[r].pc \in Launched /\ job.timed) ~> run[r].pc = "ended"
  /\ \A h \in Hosts : runtime[h].stopped ~> runtime[h].answer \in {"drained", "late"}

\* What run() promises whoever calls it and reads the rows: the three above together
\* (index.ts:183-210, 258-285, 305-340).
RunsHold == JobTypeOK /\ RunsExclude /\ DrainedStaysDrained /\ RowsTell
=============================================================================
