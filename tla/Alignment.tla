------------------------------ MODULE Alignment ------------------------------
(***************************************************************************)
(* The alignment of the platform's data with one external system           *)
(* (platform/data-alignment): rules that say who has the last word on an   *)
(* entity type in which period, versions of one mapping profile, and the   *)
(* synchronization runs under a profile, with a result for each record of  *)
(* the source, conflicts to decide, and a checkpoint.                      *)
(*                                                                         *)
(* The service (index.ts) reads and validates without a lock and stamps    *)
(* what it is going to write; the repository (repository.ts) locks,        *)
(* validates some of it again and writes.  `command` is what a client's    *)
(* command carries from the one to the other.  A command that is refused   *)
(* is Refuse.  Commands whose update names the status they have read are   *)
(* one step: any other status refuses them.  The version of a run and of a *)
(* result follows from its status; only that of a checkpoint is kept.      *)
(*                                                                         *)
(* Dictionaries, references of directories, owners, rules created inactive *)
(* and the evidence of a result beyond its outcome are left out.           *)
(***************************************************************************)
EXTENDS Integers, FiniteSets, Sequences

CONSTANTS
  Rules, Profiles, Requests, Records, Callers,
  Decisions,   \* keep_platform, accept_external, custom
  MaxTime,     \* 1..MaxTime: the instants
  MaxRuns,     \* bound on the runs created
  MaxAdvances, \* bound on the versions of a checkpoint
  Forever      \* a rule without an end

ASSUME AlignmentAssumption ==
  /\ MaxTime \in Nat \ {0} /\ MaxRuns \in Nat /\ MaxAdvances \in Nat
  /\ IsFiniteSet(Records)
  /\ Decisions \cap {"none", "done", "failed", "open"} = {}
  /\ Forever \in Nat /\ Forever > MaxTime

Times == 1..MaxTime
Ends == Times \cup {Forever}

VARIABLES
  now,         \* the clock
  system,      \* status of the external system
  rule,        \* status and period of each rule of authority
  profile,     \* status of each version of the profile, and its rule
  run,         \* the runs with their results, in the order of their creation
  checkpoint,  \* of one partition, for each version of the profile
  command         \* what each command carries into its transaction

alignmentVars == <<now, system, rule, profile, run, checkpoint, command>>

Ended == {"succeeded", "partial", "failed"}
\* A decided conflict is its decision.
Conflicted == {"open"} \cup Decisions
Outcomes == {"done", "failed"} \cup Conflicted

Rule == [status : {"none", "active", "inactive"}, from : Times, to : Ends]
Profile == [status : {"none", "draft", "published", "retired"}, rule : Rules]
Counts == [processed : Nat, conflicts : Nat, failures : Nat]
Run == [profile : Profiles, request : Requests, wanted : 0..Cardinality(Records), queued : Times,
        status : {"queued", "running", "cancelled"} \cup Ended, result : [Records -> Outcomes \cup {"none"}],
        counted : Counts, completed : 0..MaxTime]
\* Version 0 is no checkpoint, watermark 0 none; a checkpoint names the run that advanced it.
Checkpoint == [version : Nat, watermark : 0..MaxTime, run : Nat]

NoCommand == [op |-> "idle"]
Command ==
  {NoCommand} \cup [op : {"rule"}, rule : Rules, from : Times, to : Ends] \cup [op : {"draft"}, profile : Profiles, rule : Rules]
  \cup [op : {"publish"}, profile : Profiles, at : Times]
  \cup [op : {"run"}, profile : Profiles, request : Requests, wanted : 0..Cardinality(Records), at : Times]
  \cup [op : {"complete"}, run : Nat, status : Ended, counted : Counts, at : Times]
  \cup [op : {"advance"}, profile : Profiles, run : Nat, watermark : 0..MaxTime, seen : Nat]

AlignmentTypeOK ==
  /\ now \in Times /\ system \in {"active", "inactive"}
  /\ rule \in [Rules -> Rule] /\ profile \in [Profiles -> Profile]
  /\ run \in Seq(Run) /\ checkpoint \in [Profiles -> Checkpoint]
  /\ command \in [Callers -> Command]

AlignmentInit ==
  /\ now = 1 /\ system = "active"
  /\ rule = [r \in Rules |-> [status |-> "none", from |-> 1, to |-> Forever]]
  /\ \E r \in Rules : profile = [p \in Profiles |-> [status |-> "none", rule |-> r]]
  /\ run = <<>>
  /\ checkpoint = [p \in Profiles |-> [version |-> 0, watermark |-> 0, run |-> 0]]
  /\ command = [c \in Callers |-> NoCommand]
-----------------------------------------------------------------------------
Carry(c, what) == command[c] = NoCommand /\ command' = [command EXCEPT ![c] = what]
Drop(c) == command' = [command EXCEPT ![c] = NoCommand]

Refuse(c) == command[c] # NoCommand /\ Drop(c) /\ UNCHANGED <<now, system, rule, profile, run, checkpoint>>

Tick == now < MaxTime /\ now' = now + 1 /\ UNCHANGED <<system, rule, profile, run, checkpoint, command>>

\* updateExternalSystem()
SetSystem(status) ==
  /\ system' = status
  /\ UNCHANGED <<now, rule, profile, run, checkpoint, command>>
-----------------------------------------------------------------------------
(* Rules and profiles *)

\* rangesOverlap()
Overlap(a, b) == a.from <= b.to /\ b.from <= a.to
Overlapping(period) == {r \in Rules : rule[r].status = "active" /\ Overlap(rule[r], period)}

InEffect(r, at) == rule[r].status = "active" /\ rule[r].from <= at /\ at <= rule[r].to

\* createSourceOfTruthRule(), before its transaction
AskRule(c, r, from, to) ==
  /\ system = "active" /\ from <= to
  /\ Overlapping([from |-> from, to |-> to]) = {}
  /\ Carry(c, [op |-> "rule", rule |-> r, from |-> from, to |-> to])
  /\ UNCHANGED <<now, system, rule, profile, run, checkpoint>>

\* The transaction locks the system, so that two rules of it are never created at once.
CreateRule(c) ==
  /\ command[c].op = "rule" /\ rule[command[c].rule].status = "none"
  /\ Overlapping(command[c]) = {}
  /\ \A r \in Rules : rule[r].status # "none" => rule[r].from # command[c].from
  /\ rule' = [rule EXCEPT ![command[c].rule] = [status |-> "active", from |-> command[c].from, to |-> command[c].to]]
  /\ Drop(c) /\ UNCHANGED <<now, system, profile, run, checkpoint>>

\* closeSourceOfTruthRule()
CloseRule(r, to) ==
  /\ rule[r].status = "active" /\ rule[r].to = Forever /\ rule[r].from <= to
  /\ rule' = [rule EXCEPT ![r] = [@ EXCEPT !.status = "inactive", !.to = to]]
  /\ UNCHANGED <<now, system, profile, run, checkpoint, command>>

\* createMappingProfile(): neither the system nor the rule is read again.
AskProfile(c, p, r) ==
  /\ system = "active" /\ rule[r].status = "active"
  /\ Carry(c, [op |-> "draft", profile |-> p, rule |-> r])
  /\ UNCHANGED <<now, system, rule, profile, run, checkpoint>>

CreateProfile(c) ==
  /\ command[c].op = "draft" /\ profile[command[c].profile].status = "none"
  /\ profile' = [profile EXCEPT ![command[c].profile] = [status |-> "draft", rule |-> command[c].rule]]
  /\ Drop(c) /\ UNCHANGED <<now, system, rule, run, checkpoint>>

AskPublish(c, p) ==
  /\ profile[p].status = "draft" /\ system = "active" /\ InEffect(profile[p].rule, now)
  /\ Carry(c, [op |-> "publish", profile |-> p, at |-> now])
  /\ UNCHANGED <<now, system, rule, profile, run, checkpoint>>

\* A partial unique index admits one published version.
PublishProfile(c) ==
  /\ command[c].op = "publish"
  /\ LET p == command[c].profile
     IN /\ profile[p].status = "draft" /\ system = "active" /\ InEffect(profile[p].rule, command[c].at)
        /\ \A q \in Profiles : profile[q].status # "published"
        /\ profile' = [profile EXCEPT ![p] = [@ EXCEPT !.status = "published"]]
  /\ Drop(c) /\ UNCHANGED <<now, system, rule, run, checkpoint>>

RetireProfile(p) ==
  /\ profile[p].status = "published"
  /\ profile' = [profile EXCEPT ![p] = [@ EXCEPT !.status = "retired"]]
  /\ UNCHANGED <<now, system, rule, run, checkpoint, command>>
-----------------------------------------------------------------------------
(* Runs *)

Usable(p, at) == profile[p].status = "published" /\ system = "active" /\ InEffect(profile[p].rule, at)

Requested(p, request) == {r \in DOMAIN run : run[r].profile = p /\ run[r].request = request}

\* createSyncRun(): a request that has its run is answered with it and changes nothing.
AskRun(c, p, request, wanted) ==
  /\ Requested(p, request) = {} /\ Usable(p, now)
  /\ Carry(c, [op |-> "run", profile |-> p, request |-> request, wanted |-> wanted, at |-> now])
  /\ UNCHANGED <<now, system, rule, profile, run, checkpoint>>

\* The transaction locks profile, system and rule, then looks for the request once more.
CreateRun(c) ==
  /\ command[c].op = "run" /\ Len(run) < MaxRuns
  /\ Usable(command[c].profile, command[c].at) /\ Requested(command[c].profile, command[c].request) = {}
  /\ run' = Append(run, [profile |-> command[c].profile, request |-> command[c].request, wanted |-> command[c].wanted,
                         queued |-> command[c].at, status |-> "queued", result |-> [k \in Records |-> "none"],
                         counted |-> [processed |-> 0, conflicts |-> 0, failures |-> 0], completed |-> 0])
  /\ Drop(c) /\ UNCHANGED <<now, system, rule, profile, checkpoint>>

StartRun(r) ==
  /\ r \in DOMAIN run /\ run[r].status = "queued"
  /\ run' = [run EXCEPT ![r] = [@ EXCEPT !.status = "running"]]
  /\ UNCHANGED <<now, system, rule, profile, checkpoint, command>>

\* cancelSyncRun(): the results stay, and are not counted.
CancelRun(r) ==
  /\ r \in DOMAIN run /\ run[r].status \in {"queued", "running"}
  /\ run' = [run EXCEPT ![r] = [@ EXCEPT !.status = "cancelled", !.completed = now]]
  /\ UNCHANGED <<now, system, rule, profile, checkpoint, command>>

Recorded(result) == {k \in Records : result[k] # "none"}
\* resultCounters()
Counted(result) ==
  [processed |-> Cardinality(Recorded(result)),
   conflicts |-> Cardinality({k \in Records : result[k] \in Conflicted}),
   failures |-> Cardinality({k \in Records : result[k] = "failed"})]

\* createSyncRecordResult(): a record that has its result keeps it.
RecordResult(r, k, outcome) ==
  /\ r \in DOMAIN run /\ run[r].status = "running"
  /\ run[r].result[k] = "none" /\ Cardinality(Recorded(run[r].result)) < run[r].wanted
  /\ run' = [run EXCEPT ![r].result[k] = outcome]
  /\ UNCHANGED <<now, system, rule, profile, checkpoint, command>>

\* resolveSyncConflict(): also after the run has ended.
Resolve(r, k, decision) ==
  /\ r \in DOMAIN run /\ run[r].result[k] = "open"
  /\ run' = [run EXCEPT ![r].result[k] = decision]
  /\ UNCHANGED <<now, system, rule, profile, checkpoint, command>>

Covers(counts, wanted) == counts.processed = wanted /\ counts.conflicts = 0 /\ counts.failures = 0

\* completeSyncRun(), before its transaction
AskComplete(c, r, status) ==
  /\ r \in DOMAIN run /\ run[r].status = "running"
  /\ LET counts == Counted(run[r].result)
     IN /\ status = "succeeded" => Covers(counts, run[r].wanted)
        /\ status = "partial" => ~Covers(counts, run[r].wanted)
        /\ Carry(c, [op |-> "complete", run |-> r, status |-> status, counted |-> counts, at |-> now])
  /\ UNCHANGED <<now, system, rule, profile, run, checkpoint>>

\* Mutant: assertRunCounters() is forgotten.
CompleteAsRead(c) ==
  /\ command[c].op = "complete" /\ run[command[c].run].status = "running"
  /\ run' = [run EXCEPT ![command[c].run] = [@ EXCEPT !.status = command[c].status, !.counted = command[c].counted,
                                                   !.completed = command[c].at]]
  /\ Drop(c) /\ UNCHANGED <<now, system, rule, profile, checkpoint>>

\* updateSyncRun(): the run is locked, as whoever adds a result does, and counted again.
CompleteRun(c) ==
  /\ command[c].op = "complete" /\ run[command[c].run].status = "running"
  /\ command[c].counted = Counted(run[command[c].run].result)
  /\ run' = [run EXCEPT ![command[c].run] = [@ EXCEPT !.status = command[c].status, !.counted = command[c].counted,
                                                   !.completed = command[c].at]]
  /\ Drop(c) /\ UNCHANGED <<now, system, rule, profile, checkpoint>>
-----------------------------------------------------------------------------
(* Checkpoints *)

\* advanceSyncCheckpoint(): the caller names the version it has seen.
AskAdvance(c, r, watermark) ==
  /\ r \in DOMAIN run /\ run[r].status = "succeeded"
  /\ checkpoint[run[r].profile].version < MaxAdvances
  /\ Carry(c, [op |-> "advance", profile |-> run[r].profile, run |-> r, watermark |-> watermark,
               seen |-> checkpoint[run[r].profile].version])
  /\ UNCHANGED <<now, system, rule, profile, run, checkpoint>>

\* Mutant: the expected version is forgotten.
AdvanceUnseen(c) ==
  /\ command[c].op = "advance"
  /\ LET p == command[c].profile
         old == checkpoint[p]
     IN /\ old.version > 0 => /\ old.watermark <= command[c].watermark
                              /\ run[old.run].completed <= run[command[c].run].completed
        /\ checkpoint' = [checkpoint EXCEPT ![p] = [version |-> old.version + 1, watermark |-> command[c].watermark,
                                                    run |-> command[c].run]]
  /\ Drop(c) /\ UNCHANGED <<now, system, rule, profile, run>>

Advance(c) ==
  /\ command[c].op = "advance"
  /\ LET p == command[c].profile
         old == checkpoint[p]
     IN /\ old.version = command[c].seen
        /\ old.version > 0 => /\ old.watermark <= command[c].watermark
                              /\ run[old.run].completed <= run[command[c].run].completed
        /\ checkpoint' = [checkpoint EXCEPT ![p] = [version |-> old.version + 1, watermark |-> command[c].watermark,
                                                    run |-> command[c].run]]
  /\ Drop(c) /\ UNCHANGED <<now, system, rule, profile, run>>
-----------------------------------------------------------------------------
DefinitionsNext ==
  \/ Tick
  \/ \E status \in {"active", "inactive"} : SetSystem(status)
  \/ \E r \in Rules, to \in Times : CloseRule(r, to)
  \/ \E p \in Profiles : RetireProfile(p)
  \/ \E c \in Callers :
       \/ \E r \in Rules, from \in Times, to \in Ends : AskRule(c, r, from, to)
       \/ CreateRule(c)
       \/ \E p \in Profiles, r \in Rules : AskProfile(c, p, r)
       \/ CreateProfile(c)
       \/ \E p \in Profiles : AskPublish(c, p)
       \/ PublishProfile(c)

RunsNext ==
  \/ Tick
  \/ \E r \in 1..MaxRuns : \/ StartRun(r) \/ CancelRun(r)
                           \/ \E k \in Records, outcome \in {"done", "failed", "open"} : RecordResult(r, k, outcome)
                           \/ \E k \in Records, decision \in Decisions : Resolve(r, k, decision)
  \/ \E c \in Callers :
       \/ \E r \in 1..MaxRuns, status \in Ended : AskComplete(c, r, status)
       \/ CompleteRun(c)
       \/ \E r \in 1..MaxRuns, watermark \in 0..MaxTime : AskAdvance(c, r, watermark)
       \/ Advance(c)

CreateNext ==
  \E c \in Callers :
    \/ \E p \in Profiles, request \in Requests, wanted \in 0..Cardinality(Records) : AskRun(c, p, request, wanted)
    \/ CreateRun(c)

AlignmentNext == DefinitionsNext \/ RunsNext \/ CreateNext \/ \E c \in Callers : Refuse(c)

AlignmentSpec == AlignmentInit /\ [][AlignmentNext]_alignmentVars
-----------------------------------------------------------------------------
(* Properties *)

OneAuthority ==
  \A a, b \in Rules :
    (a # b /\ rule[a].status = "active" /\ rule[b].status = "active") => ~Overlap(rule[a], rule[b])

OnePublished ==
  \A p, q \in Profiles : (profile[p].status = "published" /\ profile[q].status = "published") => p = q

OneRunPerRequest ==
  \A r, s \in DOMAIN run : (run[r].profile = run[s].profile /\ run[r].request = run[s].request) => r = s

RunsAddUp ==
  \A r \in DOMAIN run :
    /\ Cardinality(Recorded(run[r].result)) <= run[r].wanted
    /\ run[r].status \in Ended => run[r].counted = Counted(run[r].result)
    /\ run[r].status = "succeeded" => Covers(Counted(run[r].result), run[r].wanted)
    /\ run[r].status = "partial" => ~Covers(Counted(run[r].result), run[r].wanted)

CheckpointsAreEarned ==
  \A p \in Profiles :
    checkpoint[p].version > 0 =>
      /\ checkpoint[p].run \in DOMAIN run
      /\ run[checkpoint[p].run].status = "succeeded" /\ run[checkpoint[p].run].profile = p

(***************************************************************************)
(* However the reads, stamps and transactions of clients interleave, an    *)
(* instant has one authority, a profile one published version, a request   *)
(* one run; a run that ended says of its results what they are, and keeps  *)
(* saying it; and a checkpoint stands on a run that covered every record   *)
(* without a conflict or a failure.                                        *)
(***************************************************************************)
AlignmentHolds ==
  AlignmentTypeOK /\ OneAuthority /\ OnePublished /\ OneRunPerRequest /\ RunsAddUp /\ CheckpointsAreEarned

QueuedInForce ==
  \A r \in DOMAIN run' \ DOMAIN run :
    LET at == run'[r].queued IN Usable(run'[r].profile, at)

EndedStays ==
  \A r \in DOMAIN run :
    run[r].status \in Ended \cup {"cancelled"} =>
      /\ run'[r].status = run[r].status /\ run'[r].counted = run[r].counted
      /\ \A k \in Records : run'[r].result[k] = run[r].result[k] \/ run[r].result[k] = "open"

CheckpointsAdvance ==
  \A p \in Profiles :
    LET old == checkpoint[p]
        new == checkpoint'[p]
    IN new # old =>
         /\ new.version = old.version + 1 /\ old.watermark <= new.watermark
         /\ old.version > 0 => run[old.run].completed <= run[new.run].completed
         /\ \E c \in Callers : command[c].op = "advance" /\ command[c].run = new.run /\ command[c].seen = old.version

(***************************************************************************)
(* A run is queued under a published profile whose rule is in force at the *)
(* instant the run bears, whatever changed since it was asked for; what    *)
(* ended stays as it ended but for conflicts being decided, each once; and *)
(* a checkpoint never goes back, neither to older data nor to an older     *)
(* run, nor is replaced by a caller who has not seen it.                   *)
(***************************************************************************)
AlignmentMoves == [][QueuedInForce /\ EndedStays /\ CheckpointsAdvance]_alignmentVars
=============================================================================
