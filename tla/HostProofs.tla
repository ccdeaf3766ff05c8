----------------------------- MODULE HostProofs -----------------------------
(*****************************************************************************)
(* One application with its installer, host and traffic, for any versions,   *)
(* packages, calls, operations and numbers of jobs, edits and crashes.  A    *)
(* job carries the record as it is but for the grants edited since; while it *)
(* switches, it owns the open operation or the process of an enabled         *)
(* application; and outside a switch there is a process only of an enabled   *)
(* application, or of one whose switch lost its operation.                   *)
(*****************************************************************************)
EXTENDS AppHost, RegistryProofs, FiniteSetTheorems

\* Where a job stands: stopping and starting the process, or installing a package.
Switching == {"stop", "exit", "drain", "spawn", "starting", "settle"}
Installing == {"migrate", "upgrade", "upgraded", "package", "credential", "grants", "launch"}

\* Grant edits change neither of these, so what a job carries of them is so.
Alike(s, r) ==
  s.ver = r.ver /\ s.pkg = r.pkg /\ s.enabled = r.enabled /\ s.op = r.op /\ s.identity = r.identity

\* The record a job carries is the stored one but for grants edited since.
Carried ==
  IF job.pc = "idle" THEN job = Idle
  ELSE /\ up /\ Present /\ job.record \in Installation
       /\ Alike(job.record, rec)
       /\ job.record.rev <= rec.rev
       /\ job.record.rev = rec.rev => job.record = rec
       /\ job.pc \in Switching /\ ~edited => job.record.rev = rec.rev

\* A switch is a process of the enabled application that is replaced, or a lifecycle
\* operation of the job's own that is open.
SwitchOK ==
  /\ IF job.act = "serve" THEN rec.enabled /\ job.kind = "none" /\ ~job.failed /\ job.pc # "settle"
     ELSE /\ job.act \in {"install", "enable", "disable"}
          /\ rec.op.action = job.act /\ rec.op.status = "running"
  /\ job.failed => job.act \in {"install", "enable"} /\ job.pc \in {"stop", "exit", "drain", "settle"}
  /\ job.pc \in {"spawn", "starting"} => job.act # "disable"

\* An installer at work has an application that is not enabled.
InstallerOK ==
  /\ job.act = "none" /\ job.kind # "none" /\ ~rec.enabled
  /\ job.pc = "upgraded" => rec.op.action = "upgrade" /\ rec.op.status = "running"
  /\ job.pc \in {"package", "credential", "grants", "launch"} /\ job.kind = "upgrade" => rec.op # NoOp
  /\ job.pc \in {"grants", "launch"} => rec.identity # 0

JobOK ==
  /\ job.pc \in Switching => SwitchOK
  /\ job.pc \in Installing => InstallerOK
  /\ job.pc = "begin" => job.act \in {"install", "enable", "disable"}
  /\ job.failed => job.pc \in Switching
  /\ job.kind # "none" => /\ job.pkg \in Packages /\ attempt = job.pkg
                          /\ job.act \in {"install", "enable"} => rec.identity # 0

\* Only one process can have a child, and it runs the package of the record.  Out of a
\* switch there is a process only of an enabled application, or of one whose switch lost
\* its operation.
ProcessOK ==
  /\ live \subseteq IF job.pc = "exit" THEN {job.old} ELSE {proc}
  /\ \A p \in live \cup ({proc} \ {0}) : Present /\ runtime[p] = rec.pkg
  /\ job.pc \in {"exit", "drain", "spawn"} => proc = 0
  /\ job.pc = "starting" => proc # 0
  /\ job.pc = "settle" => (proc = 0 <=> job.failed \/ job.act = "disable")
  /\ job.pc \notin Switching /\ proc # 0
       => rec.enabled \/ (rec.op.status = "running" /\ torn /\ job.pc # "upgraded")
  /\ ~up => job = Idle /\ proc = 0

\* Handlers run in a child that lives; an operation past the check of its identity has
\* the one the record has, until its application is drained.
TrafficOK ==
  /\ \A k \in Calls : calls[k].pc # "idle" => Present
  /\ \A k \in Calls : calls[k].pc = "running" => calls[k].on \in live /\ job.pc # "starting"
  /\ \A o \in Ops : ops[o].pc # "none" => Present
  /\ \A o \in Ops : ops[o].pc = "working" =>
       /\ ops[o].identity = rec.identity /\ ops[o].ver = rec.ver
       /\ rec.enabled \/ job.pc \in {"stop", "exit", "drain"}

\* What the host remembers of an application that may be admitted.
AdmissionOK ==
  Present /\ rec.enabled /\ up /\ job.pc \in {"idle", "begin"}
    => unserved \/ edited \/ (active # NoApp /\ active.rev = rec.rev /\ proc # 0)

HostInv ==
  /\ TypeOK /\ (Present => Good(rec))
  /\ Carried /\ JobOK /\ ProcessOK /\ TrafficOK /\ AdmissionOK /\ UploadsAreComplete
-----------------------------------------------------------------------------
(***************************************************************************)
(* What the operations on the record mean to the host.                     *)
(***************************************************************************)
\* An open operation and an enabled application exclude each other.
LEMMA OpenIsOff ==
  ASSUME NEW r, Good(r), r.op.status = "running"
  PROVE  ~r.enabled /\ r.op # NoOp
BY DEF Good, WellFormed, NoOp, Installation

\* No installation is mistaken for none.
LEMMA NoAppIsNoRecord ==
  ASSUME NEW r \in Installation
  PROVE  r # NoApp /\ r.rev \in Nat /\ r.rev # 0
<1>1. r.rev \in Nat /\ r.rev # 0
  BY DEF Installation
<1> QED
  BY <1>1 DEF NoApp

\* No package is mistaken for none.
LEMMA NoPkgIsNoPackage ==
  ASSUME NEW p \in Packages
  PROVE  p # NoPkg
<1>1. p.ver # 0
  BY RegistryAssumption
<1> QED
  BY <1>1 DEF NoPkg

\* What beginning an operation stores.
LEMMA BegunHost ==
  ASSUME NEW r, NEW a \in Actions, NEW t \in Versions \cup {0}, Good(r), CanBegin(r, a, t)
  PROVE  LET n == Begun(r, a, t)
         IN /\ Good(n) /\ n.rev = r.rev + 1 /\ ~n.enabled
            /\ n.op.action = a /\ n.op.status = "running"
            /\ n.ver = r.ver /\ n.pkg = r.pkg /\ n.identity = r.identity
<1>1. r \in Installation
  BY DEF Good
<1> QED
  BY <1>1, BegunOK DEF Begun, Installation

\* What settling it stores.  Only a version change touches the identity.
LEMMA SettledHost ==
  ASSUME NEW r, NEW s \in {"completed", "failed"}, Good(r), r.op.status = "running"
  PROVE  LET n == Settled(r, s)
         IN /\ Good(n) /\ n.rev = r.rev + 1 /\ n.pkg = r.pkg
            /\ n.enabled = (s = "completed" /\ r.op.action \in {"install", "enable"})
            /\ n.op.action = r.op.action /\ n.op.status = s /\ n.op # NoOp
            /\ r.op.action \notin VersionChanges \cup {"uninstall"}
                 => n.identity = r.identity /\ n.ver = r.ver
<1> DEFINE n == Settled(r, s)
<1>1. r \in Installation /\ r.op # NoOp /\ r.op \in Operation
  BY OpenIsOff DEF Good, Installation
<1>2. CanSettle(r, r.op.id) /\ s \in Outcomes
  BY <1>1 DEF CanSettle, Closed, Outcomes
<1>3. Good(n)
  BY <1>2, SettledOK
<1>4. /\ n.rev = r.rev + 1 /\ n.pkg = r.pkg
      /\ n.enabled = (s = "completed" /\ r.op.action \in {"install", "enable"})
      /\ n.op.action = r.op.action /\ n.op.status = s
  BY <1>1 DEF Settled, Installation, Operation
<1>5. r.op.action \notin VersionChanges \cup {"uninstall"} => n.identity = r.identity /\ n.ver = r.ver
  BY <1>1 DEF Settled, Installation
<1>6. n.op # NoOp
  BY <1>1, <1>4 DEF NoOp, Operation, Actions, VersionChanges
<1> QED
  BY <1>3, <1>4, <1>5, <1>6

\* What a package and a new identity leave as they were.
LEMMA PackageHost ==
  ASSUME NEW r, NEW p \in Packages, Good(r)
  PROVE  LET n == WithPackage(r, p)
         IN /\ Good(n) /\ n.rev = r.rev + 1 /\ n.pkg = p
            /\ n.enabled = r.enabled /\ n.op = r.op /\ n.ver = r.ver /\ n.identity = r.identity
<1>1. r \in Installation
  BY DEF Good
<1> QED
  BY <1>1, WithPackageOK DEF WithPackage, Installation

\* A new identity leaves the package and the operation as they were.
LEMMA CredentialHost ==
  ASSUME NEW r, Good(r), CanChange(r, "credential-issued")
  PROVE  LET n == WithCredential(r)
         IN /\ Good(n) /\ n.rev = r.rev + 1 /\ n.identity # 0
            /\ n.enabled = r.enabled /\ n.op = r.op /\ n.ver = r.ver /\ n.pkg = r.pkg
<1>1. r \in Installation /\ r.rev + 1 # 0
  BY DEF Good, Installation
<1> QED
  BY <1>1, WithCredentialOK DEF WithCredential, Installation

\* An edit of the grants leaves the rest alone.
LEMMA EditHost ==
  ASSUME NEW r, Good(r), NEW n,
         \/ \E p \in Perms : CanApprove(r, "service", p) /\ n = WithGrant(r, "service", p)
         \/ \E g \in r.grants : n = WithRevoked(r, g)
  PROVE  Good(n) /\ n.rev = r.rev + 1 /\ Alike(r, n)
<1>1. r \in Installation
  BY DEF Good
<1>2. ASSUME NEW gs, n = [r EXCEPT !.grants = gs, !.rev = r.rev + 1]
      PROVE  n.rev = r.rev + 1 /\ Alike(r, n)
  BY <1>1, <1>2 DEF Installation, Alike
<1>3. ASSUME NEW p \in Perms, CanApprove(r, "service", p), n = WithGrant(r, "service", p)
      PROVE  Good(n) /\ n.rev = r.rev + 1 /\ Alike(r, n)
  <2>1. Good(n)
    BY <1>3, WithGrantOK DEF Modes
  <2> QED
    BY <1>2, <1>3, <2>1 DEF WithGrant
<1>4. ASSUME NEW g \in r.grants, n = WithRevoked(r, g)
      PROVE  Good(n) /\ n.rev = r.rev + 1 /\ Alike(r, n)
  <2>1. Good(n)
    BY <1>4, WithRevokedOK
  <2> QED
    BY <1>2, <1>4, <2>1 DEF WithRevoked
<1> QED
  BY <1>3, <1>4

\* Approving what the manifest asks for is one edit after the other.
LEMMA GrantedHost ==
  ASSUME NEW r, Good(r), \A p \in Declares[r.ver] : CanApprove(r, "service", p)
  PROVE  Good(Granted(r)) /\ Granted(r).rev >= r.rev /\ Alike(r, Granted(r))
<1> DEFINE asked == Declares[r.ver]
           new == {[mode |-> "service", perm |-> p, active |-> TRUE, identity |-> r.identity] : p \in asked}
           gs == {g \in r.grants : g.mode # "service" \/ g.perm \notin asked} \cup new
           n == Granted(r)
           c == Cardinality(asked)
<1>1. /\ r \in Installation /\ r.ver \in Versions /\ r.rev \in Nat \ {0} /\ r.identity \in Nat
      /\ r.grants \subseteq Grant /\ asked \subseteq Perms
  BY RegistryAssumption DEF Good, Installation
<1>2. c \in Nat
  BY <1>1, FS_CardinalityType, HostAssumption
<1>3. new \subseteq Grant
  <2>1. ASSUME NEW p \in asked
        PROVE  [mode |-> "service", perm |-> p, active |-> TRUE, identity |-> r.identity] \in Grant
    BY <1>1, <2>1 DEF Grant, Modes
  <2> QED
    BY <2>1
<1>4. gs \in SUBSET Grant
  BY <1>1, <1>3
<1>5. /\ \A g \in gs : g.perm \in Declares[r.ver]
      /\ \A g \in gs : g.mode = "service" => g.identity = r.identity /\ r.secret # 0
  BY DEF Good, WellFormed, ServiceGrants, CanApprove
<1>6. Uninstalled(r) => asked = {} /\ r.grants = {}
  BY DEF CanApprove, CanChange, Blocked, Uninstalled, NoOp, Good, WellFormed
<1>7. n = [r EXCEPT !.grants = gs, !.rev = r.rev + c]
  BY DEF Granted
<1>8. asked = {} => new = {}
  OBVIOUS
<1>9. Uninstalled(r) => gs = {}
  BY <1>6, <1>8
<1> HIDE DEF gs, c
<1>15. r.rev + c \in Nat \ {0}
  BY <1>1, <1>2
<1>10. n \in Installation
  BY <1>1, <1>4, <1>7, <1>15 DEF Installation
<1>11. /\ n.op = r.op /\ n.ver = r.ver /\ n.rev = r.rev + c /\ n.enabled = r.enabled /\ n.pkg = r.pkg
       /\ n.identity = r.identity /\ n.secret = r.secret /\ n.grants = gs
  BY <1>1, <1>7 DEF Installation
<1>12. WellFormed(n)
  BY <1>5, <1>9, <1>11 DEF Good, WellFormed, ServiceGrants, Uninstalled
<1>13. r.op.id \in Nat /\ r.secret \in Nat
  BY <1>1 DEF Installation, Operation, NoOp
<1>14. Aged(n)
  BY <1>1, <1>2, <1>11, <1>13 DEF Good, Aged
<1> HIDE DEF n
<1> QED
  BY <1>1, <1>2, <1>10, <1>11, <1>12, <1>14 DEF Good, Alike, n
-----------------------------------------------------------------------------
\* Before anything was uploaded.
LEMMA HostStarts == Init => HostInv
<1> SUFFICES ASSUME Init PROVE HostInv
  OBVIOUS
<1>1. ~Present /\ job = Idle /\ job.pc = "idle" /\ job.kind = "none" /\ ~job.failed
  BY DEF Init, Present, Idle
<1>2. NoCall \in CallRecord /\ NoOperation \in OperationRecord /\ Idle \in JobRecord
  BY DEF NoCall, NoOperation, Idle, CallRecord, OperationRecord, JobRecord
<1>3. TypeOK
  <2>1. runtime \in Seq(Packages) /\ Len(runtime) = 0
    BY DEF Init
  <2>2. calls \in [Calls -> CallRecord] /\ ops \in [Ops -> OperationRecord]
    BY <1>2 DEF Init
  <2>3. proc \in 0..Len(runtime) /\ 0 \in 0..MaxJobs /\ 0 \in 0..MaxEdits /\ 0 \in 0..MaxCrashes
    BY <2>1, HostAssumption DEF Init
  <2> QED
    BY <1>2, <2>1, <2>2, <2>3 DEF Init, TypeOK
<1>4. TrafficOK
  BY DEF Init, TrafficOK, NoCall, NoOperation
<1>5. Carried /\ JobOK /\ ProcessOK
  BY <1>1 DEF Init, Carried, JobOK, ProcessOK, Switching, Installing
<1> QED
  BY <1>1, <1>3, <1>4, <1>5 DEF HostInv, AdmissionOK, UploadsAreComplete

\* A step of the traffic leaves the application, its host and its job alone.
LEMMA TrafficKeeps ==
  ASSUME HostInv, UNCHANGED <<rec, up, job, host, counters, history>>,
         calls' \in [Calls -> CallRecord], ops' \in [Ops -> OperationRecord], TrafficOK'
  PROVE  HostInv'
<1>1. /\ TypeOK' /\ (Present => Good(rec))' /\ Carried'
  BY DEF HostInv, TypeOK, Present, Carried, host, counters, history
<1>2. JobOK' /\ ProcessOK' /\ AdmissionOK' /\ UploadsAreComplete'
  BY DEF HostInv, Present, JobOK, SwitchOK, InstallerOK, ProcessOK, AdmissionOK, UploadsAreComplete,
         host, history
<1> QED
  BY <1>1, <1>2 DEF HostInv

\* Calls: who runs has gone to a child that lives.
LEMMA CallsKeep ==
  ASSUME HostInv, NEW k \in Calls, Admit(k) \/ Dispatch(k) \/ Return(k)
  PROVE  HostInv'
<1>1. TypeOK /\ TrafficOK /\ (Present => Good(rec))
  BY DEF HostInv
<1>2. PICK c \in CallRecord : /\ calls' = [calls EXCEPT ![k] = c]
                              /\ c.pc # "idle" => Present
                              /\ c.pc = "running" => c.on \in live /\ job.pc # "starting"
  <2>1. NoCall \in CallRecord /\ NoCall.pc = "idle"
    BY DEF NoCall, CallRecord
  <2>2. CASE Admit(k)
    <3>1. Present /\ rec.ver \in Versions
      <4>1. active \in Installation /\ rec.rev = active.rev
        BY <1>1, <2>2 DEF Admit, Admitted, TypeOK
      <4>2. rec # NoApp
        BY <4>1, NoAppIsNoRecord DEF NoApp
      <4> QED
        BY <1>1, <4>2 DEF TypeOK, Installation, Present
    <3>2. PICK c : c = [pc |-> "admitted", ver |-> rec.ver, on |-> 0]
      OBVIOUS
    <3>3. c \in CallRecord /\ c.pc = "admitted"
      BY <3>1, <3>2 DEF CallRecord
    <3>4. calls' = [calls EXCEPT ![k] = c]
      BY <2>2, <3>2 DEF Admit
    <3> QED
      BY <3>1, <3>3, <3>4
  <2>3. CASE Dispatch(k)
    <3>1. proc \in Nat /\ Present /\ calls[k].ver \in Versions \cup {0}
      BY <1>1, <2>3 DEF TypeOK, CallRecord, TrafficOK, Dispatch
    <3>2. PICK c : c = [pc |-> "running", ver |-> calls[k].ver, on |-> proc]
      OBVIOUS
    <3>3. c \in CallRecord /\ c.pc = "running" /\ c.on = proc
      BY <3>1, <3>2 DEF CallRecord
    <3>4. CASE proc \in live /\ job.pc # "starting"
      <4>1. calls' = [calls EXCEPT ![k] = c]
        BY <2>3, <3>2, <3>4 DEF Dispatch
      <4> QED
        BY <3>1, <3>3, <3>4, <4>1
    <3>5. CASE ~(proc \in live /\ job.pc # "starting")
      BY <2>1, <2>3, <3>5 DEF Dispatch
    <3> QED
      BY <3>4, <3>5
  <2>4. CASE Return(k)
    BY <2>1, <2>4 DEF Return
  <2> QED
    BY <2>2, <2>3, <2>4
<1>3. UNCHANGED <<rec, up, job, host, ops, counters, history>>
  BY DEF Admit, Dispatch, Return
<1>4. calls' \in [Calls -> CallRecord] /\ ops' \in [Ops -> OperationRecord]
  BY <1>1, <1>2, <1>3 DEF TypeOK
<1>5. TrafficOK'
  BY <1>1, <1>2, <1>3 DEF TrafficOK, TypeOK, Present, host
<1> QED
  BY <1>3, <1>4, <1>5, TrafficKeeps

\* Operations: who works has the identity of now and an enabled application.
LEMMA OperationsKeep ==
  ASSUME HostInv, NEW o \in Ops, Enter(o) \/ Identify(o) \/ Release(o)
  PROVE  HostInv'
<1>1. TypeOK /\ TrafficOK /\ (live # {} => Present)
  BY DEF HostInv, ProcessOK
<1>2. UNCHANGED <<rec, up, job, host, counters, history>>
  BY DEF Enter, Identify, Release
<1>3. calls' = calls \/ \E k \in Calls : calls' = [calls EXCEPT ![k] = NoCall]
  BY DEF Enter, Identify, Release
<1>4. NoCall \in CallRecord /\ NoCall.pc = "idle" /\ NoOperation \in OperationRecord /\ NoOperation.pc = "none"
  BY DEF NoCall, CallRecord, NoOperation, OperationRecord
<1>5. calls' \in [Calls -> CallRecord] /\ \A k \in Calls : calls'[k] # NoCall => calls'[k] = calls[k]
  BY <1>1, <1>3, <1>4 DEF TypeOK
<1>6. PICK x \in OperationRecord :
        /\ ops' = [ops EXCEPT ![o] = x]
        /\ x.pc # "none" => Present
        /\ x.pc = "working" => rec.enabled /\ x.identity = rec.identity /\ x.ver = rec.ver
  <2>1. CASE Enter(o)
    <3>1. Present
      BY <1>1, <2>1 DEF Enter, TrafficOK
    <3>2. PICK x : x = [ops[o] EXCEPT !.pc = "entered"]
      OBVIOUS
    <3>3. x \in OperationRecord /\ x.pc = "entered"
      BY <1>1, <3>2 DEF TypeOK, OperationRecord
    <3>4. ops' = [ops EXCEPT ![o] = x]
      BY <2>1, <3>2 DEF Enter
    <3> QED
      BY <3>1, <3>3, <3>4
  <2>2. CASE Identify(o)
    <3>1. Present /\ rec.identity \in Nat /\ rec.ver \in Versions
      BY <1>1, <2>2 DEF TypeOK, Present, Installation, TrafficOK, Identify
    <3>2. [pc |-> "working", identity |-> rec.identity, ver |-> rec.ver] \in OperationRecord
      BY <3>1 DEF OperationRecord
    <3> QED
      BY <1>4, <2>2, <3>1, <3>2 DEF Identify
  <2>3. CASE Release(o)
    BY <1>4, <2>3 DEF Release
  <2> QED
    BY <2>1, <2>2, <2>3
<1>7. ops' \in [Ops -> OperationRecord]
  BY <1>1, <1>6 DEF TypeOK
<1>8. TrafficOK'
  BY <1>1, <1>2, <1>4, <1>5, <1>6 DEF TrafficOK, TypeOK, Present, host
<1> QED
  BY <1>2, <1>5, <1>7, <1>8, TrafficKeeps

\* A child exits or comes back; nothing else changes.
LEMMA ChildrenKeep ==
  ASSUME HostInv, ChildRestart \/ \E p \in DOMAIN runtime : ChildExit(p)
  PROVE  HostInv'
<1>1. TypeOK /\ ProcessOK /\ TrafficOK
  BY DEF HostInv
<1>2. /\ UNCHANGED <<rec, up, job, proc, active, runtime, ops, counters, history>>
      /\ live' \subseteq live \cup ({proc} \ {0})
      /\ job.pc = "exit" => live' \subseteq live
  BY <1>1 DEF ChildRestart, ChildExit, traffic, ProcessOK
<1>3. /\ calls' \in [Calls -> CallRecord]
      /\ \A k \in Calls : /\ calls'[k].pc # "idle" => Present
                          /\ calls'[k].pc = "running" => calls'[k].on \in live' /\ job.pc # "starting"
  <2>1. NoCall \in CallRecord /\ NoCall.pc = "idle"
    BY DEF NoCall, CallRecord
  <2>2. CASE ChildRestart
    BY <1>1, <2>2 DEF ChildRestart, traffic, TypeOK, TrafficOK
  <2>3. ASSUME NEW p, ChildExit(p)
        PROVE  /\ calls' \in [Calls -> CallRecord]
               /\ \A k \in Calls : calls'[k] = NoCall \/ (calls'[k] = calls[k] /\ calls[k].on # p)
    BY <1>1, <2>1, <2>3 DEF ChildExit, TypeOK
  <2>4. ASSUME NEW p, ChildExit(p)
        PROVE  \A k \in Calls : /\ calls'[k].pc # "idle" => Present
                                /\ calls'[k].pc = "running" => calls'[k].on \in live' /\ job.pc # "starting"
    BY <1>1, <2>1, <2>3, <2>4 DEF ChildExit, TrafficOK
  <2> QED
    BY <2>2, <2>3, <2>4
<1>4. live' \subseteq 1..Len(runtime)
  BY <1>1, <1>2 DEF TypeOK
<1>5. TypeOK' /\ (Present => Good(rec))' /\ Carried' /\ JobOK' /\ UploadsAreComplete'
  BY <1>2, <1>3, <1>4
     DEF HostInv, TypeOK, Present, Carried, JobOK, SwitchOK, InstallerOK, UploadsAreComplete, counters, history
<1>6. ProcessOK' /\ AdmissionOK'
  BY <1>1, <1>2 DEF HostInv, ProcessOK, AdmissionOK, Present, history
<1>7. TrafficOK'
  BY <1>1, <1>2, <1>3 DEF TrafficOK, Present
<1> QED
  BY <1>5, <1>6, <1>7 DEF HostInv

\* An edit of the grants between two steps of a job.
LEMMA EditKeeps ==
  ASSUME HostInv, EditGrant
  PROVE  HostInv'
<1>1. /\ TypeOK /\ Carried /\ JobOK /\ ProcessOK /\ TrafficOK /\ UploadsAreComplete
      /\ Present /\ Good(rec) /\ rec \in Installation /\ rec.rev \in Nat
  BY NoAppIsNoRecord DEF HostInv, EditGrant, Good
<1>2. Good(rec') /\ rec'.rev = rec.rev + 1 /\ Alike(rec, rec')
  BY <1>1, EditHost DEF EditGrant
<1>3. /\ rec' \in Installation /\ rec' # NoApp /\ Present'
  BY <1>2, NoAppIsNoRecord DEF Good, Present
<1>4. /\ edited' = TRUE /\ edits' \in 0..MaxEdits
      /\ UNCHANGED <<up, job, host, traffic, jobs, crashes, torn, unserved, attempt>>
  BY <1>1, HostAssumption DEF EditGrant, TypeOK
<1>5. TypeOK'
  BY <1>1, <1>3, <1>4 DEF TypeOK, host, traffic
<1>6. Carried'
  <2>1. job.pc # "idle" => job.record \in Installation /\ job.record.rev \in Nat
    BY <1>1, NoAppIsNoRecord DEF Carried
  <2> QED
    BY <1>1, <1>2, <1>3, <1>4, <2>1 DEF Carried, Alike
<1>7. JobOK' /\ ProcessOK' /\ TrafficOK'
  BY <1>1, <1>2, <1>3, <1>4 DEF JobOK, SwitchOK, InstallerOK, ProcessOK, TrafficOK, Alike, host, traffic
<1>8. AdmissionOK' /\ UploadsAreComplete'
  BY <1>1, <1>2, <1>3, <1>4 DEF AdmissionOK, UploadsAreComplete, Alike
<1> QED
  BY <1>2, <1>5, <1>6, <1>7, <1>8 DEF HostInv

\* The API dies, and comes back.
LEMMA CrashKeeps ==
  ASSUME HostInv, Crash
  PROVE  HostInv'
<1>1. TypeOK /\ UploadsAreComplete /\ (Present => Good(rec))
  BY DEF HostInv
<1>2. NoCall \in CallRecord /\ NoOperation \in OperationRecord /\ Idle \in JobRecord
  BY DEF NoCall, NoOperation, Idle, CallRecord, OperationRecord, JobRecord
<1>3. torn' \in BOOLEAN /\ crashes' \in 0..MaxCrashes
  BY <1>1, HostAssumption DEF Crash, TypeOK
<1>4. Present' = Present /\ job' = Idle /\ job'.pc = "idle" /\ job'.kind = "none" /\ job'.failed = FALSE
  BY DEF Crash, Present, Idle
<1>5. TypeOK'
  <2>1. calls' \in [Calls -> CallRecord] /\ ops' \in [Ops -> OperationRecord]
    BY <1>2 DEF Crash
  <2>2. proc' \in 0..Len(runtime') /\ live' \subseteq 1..Len(runtime')
    BY <1>1 DEF Crash, TypeOK
  <2> QED
    BY <1>1, <1>2, <1>3, <2>1, <2>2 DEF Crash, TypeOK
<1>6. TrafficOK'
  BY DEF Crash, TrafficOK, NoCall, NoOperation
<1>7. Carried' /\ JobOK' /\ ProcessOK'
  BY <1>4 DEF Crash, Carried, JobOK, ProcessOK, Switching, Installing
<1>8. AdmissionOK' /\ UploadsAreComplete' /\ (Present => Good(rec))'
  BY <1>1, <1>4 DEF Crash, AdmissionOK, UploadsAreComplete
<1> QED
  BY <1>5, <1>6, <1>7, <1>8 DEF HostInv

\* A job that serves the application enters the switch with the record of now.
LEMMA ServeKeeps ==
  ASSUME HostInv, Present, rec.enabled, job = Idle,
         job' = [Idle EXCEPT !.pc = "stop", !.act = "serve", !.record = rec],
         up' = TRUE, edited' = FALSE, jobs' \in 0..MaxJobs,
         UNCHANGED <<rec, host, traffic, edits, crashes, torn, unserved, attempt>>
  PROVE  HostInv'
<1>1. /\ TypeOK /\ ProcessOK /\ TrafficOK /\ Good(rec) /\ rec \in Installation /\ rec.rev \in Nat
      /\ job.pc = "idle" /\ Present' = Present
  BY NoAppIsNoRecord DEF HostInv, Good, Idle, Present
<1>2. /\ job' \in JobRecord
      /\ job'.pc = "stop" /\ job'.act = "serve" /\ job'.record = rec /\ job'.kind = "none" /\ job'.failed = FALSE
  BY <1>1 DEF Idle, JobRecord
<1>3. TypeOK'
  BY <1>1, <1>2 DEF TypeOK, host, traffic
<1>4. Carried' /\ JobOK'
  BY <1>1, <1>2 DEF Carried, Alike, JobOK, SwitchOK, Switching, Installing
<1>5. ProcessOK' /\ TrafficOK'
  BY <1>1, <1>2 DEF ProcessOK, TrafficOK, Switching, host, traffic
<1>6. AdmissionOK' /\ UploadsAreComplete' /\ (Present => Good(rec))'
  BY <1>1, <1>2 DEF HostInv, AdmissionOK, UploadsAreComplete
<1> QED
  BY <1>3, <1>4, <1>5, <1>6 DEF HostInv

\* The application is served again if it is enabled.
LEMMA BootKeeps ==
  ASSUME HostInv, Boot
  PROVE  HostInv'
<1>1. TypeOK /\ job = Idle /\ proc = 0
  BY DEF HostInv, ProcessOK, Boot
<1>2. CASE Present /\ rec.enabled
  BY <1>1, <1>2, ServeKeeps DEF Boot, counters, TypeOK
<1>3. CASE ~(Present /\ rec.enabled)
  <2>1. job' = job /\ Present' = Present /\ job.pc = "idle" /\ job.kind = "none" /\ ~job.failed
    BY <1>1, <1>3 DEF Boot, Present, Idle
  <2>2. TypeOK' /\ (Present => Good(rec))' /\ Carried' /\ JobOK' /\ UploadsAreComplete'
    BY <2>1 DEF HostInv, Boot, TypeOK, Carried, JobOK, UploadsAreComplete, counters, host, traffic, Switching, Installing
  <2>3. ProcessOK' /\ TrafficOK' /\ AdmissionOK'
    BY <1>3, <2>1 DEF HostInv, Boot, ProcessOK, TrafficOK, AdmissionOK, host, traffic
  <2> QED
    BY <2>2, <2>3 DEF HostInv
<1> QED
  BY <1>2, <1>3

\* Recovery serves it again on request.
LEMMA RecoverKeeps ==
  ASSUME HostInv, Recover
  PROVE  HostInv'
<1>1. TypeOK /\ job = Idle /\ up
  BY DEF HostInv, Recover, Take, Carried
<1>2. jobs' \in 0..MaxJobs
  BY <1>1, HostAssumption DEF Recover, Take, TypeOK
<1> QED
  BY <1>1, <1>2, ServeKeeps DEF Recover, Take, TypeOK

\* A request is taken with the record last read.
LEMMA ExecuteKeeps ==
  ASSUME HostInv, NEW action \in {"enable", "disable"}, Execute(action)
  PROVE  HostInv'
<1>1. /\ TypeOK /\ ProcessOK /\ TrafficOK /\ job = Idle /\ job.pc = "idle" /\ up
      /\ Present /\ Good(rec) /\ rec \in Installation /\ rec.rev \in Nat
  BY NoAppIsNoRecord DEF HostInv, Good, Idle, Carried, Execute, Take
<1>2. jobs' \in 0..MaxJobs /\ Present' = Present
  BY <1>1, HostAssumption DEF Execute, Take, TypeOK, Present
<1>3. /\ job' \in JobRecord
      /\ job'.pc = "begin" /\ job'.act = action /\ job'.record = rec /\ job'.kind = "none" /\ job'.failed = FALSE
  BY <1>1 DEF Execute, Take, Idle, JobRecord
<1>4. TypeOK'
  BY <1>1, <1>2, <1>3 DEF Execute, Take, TypeOK, host, traffic, history
<1>5. Carried' /\ JobOK'
  BY <1>1, <1>2, <1>3 DEF Execute, Take, Carried, Alike, JobOK, Switching, Installing
<1>6. ProcessOK' /\ TrafficOK' /\ AdmissionOK'
  BY <1>1, <1>2, <1>3 DEF HostInv, Execute, Take, ProcessOK, TrafficOK, AdmissionOK, Switching, host, traffic, history
<1>7. UploadsAreComplete' /\ (Present => Good(rec))'
  BY <1>1, <1>2 DEF HostInv, Execute, UploadsAreComplete, history
<1> QED
  BY <1>4, <1>5, <1>6, <1>7 DEF HostInv

\* The installer registers a new application, or begins with the one there is.
LEMMA UploadKeeps ==
  ASSUME HostInv, NEW p \in Packages, Upload(p)
  PROVE  HostInv'
<1> DEFINE kind == Kind(rec, p)
           new == IF kind = "install" THEN Registered(p) ELSE rec
<1>1. TypeOK /\ ProcessOK /\ TrafficOK /\ job = Idle /\ job.pc = "idle" /\ up
  BY DEF HostInv, Idle, Carried, Upload, Take
<1>2. /\ kind \in {"install", "upgrade", "reinstall"}
      /\ kind = "install" <=> ~Present
  BY DEF Upload, Installable, Kind, Present
<1>3. Good(new) /\ new \in Installation /\ new # NoApp /\ new.rev \in Nat
  BY <1>2, RegisteredOK, NoAppIsNoRecord DEF HostInv, Good, Present
<1>4. Present => new = rec
  BY <1>2
<1>5. ~Present => ~new.enabled
  BY <1>2 DEF Registered
<1>6. /\ rec' = new /\ attempt' = p /\ jobs' = jobs + 1 /\ jobs < MaxJobs
      /\ job' = [Idle EXCEPT !.pc = IF new.enabled THEN "begin" ELSE "migrate",
                             !.act = IF new.enabled THEN "disable" ELSE "none",
                             !.record = new, !.pkg = p, !.kind = kind, !.was = new.enabled]
      /\ UNCHANGED <<up, host, traffic, edits, crashes, torn, edited, unserved>>
  BY DEF Upload, Take
<1>7. new.enabled \in BOOLEAN
  BY <1>3 DEF Installation
<1> HIDE DEF kind, new
<1>8. /\ job'.pc = (IF new.enabled THEN "begin" ELSE "migrate")
      /\ job'.act = (IF new.enabled THEN "disable" ELSE "none")
      /\ job'.record = new /\ job'.kind = kind /\ job'.pkg = p /\ job'.failed = FALSE
      /\ job' \in JobRecord
  BY <1>2, <1>3, <1>6, <1>7 DEF Idle, JobRecord
<1>9. Present' /\ jobs' \in 0..MaxJobs
  BY <1>1, <1>3, <1>6, HostAssumption DEF TypeOK, Present
<1>10. TypeOK'
  BY <1>1, <1>3, <1>6, <1>8, <1>9 DEF TypeOK, host, traffic
<1>11. Carried' /\ JobOK'
  BY <1>1, <1>2, <1>3, <1>6, <1>8, <1>9 DEF Carried, Alike, JobOK, InstallerOK, Switching, Installing
<1>12. ProcessOK' /\ TrafficOK'
  <2>1. ~Present => live = {} /\ proc = 0
    BY <1>1 DEF ProcessOK, TypeOK
  <2> QED
    BY <1>1, <1>4, <1>6, <1>8, <1>9, <2>1 DEF ProcessOK, TrafficOK, Switching, host, traffic
<1>13. AdmissionOK'
  BY <1>1, <1>4, <1>5, <1>6, <1>8 DEF HostInv, AdmissionOK, host
<1>14. UploadsAreComplete'
  BY <1>6, NoPkgIsNoPackage DEF UploadsAreComplete
<1> QED
  BY <1>3, <1>6, <1>10, <1>11, <1>12, <1>13, <1>14 DEF HostInv

\* Whatever a job leaves open when it ends is known to be torn.
LEMMA JobEnds ==
  ASSUME HostInv, job.pc \in {"begin", "settle"} \cup Installing, job' = Idle,
         torn' \in BOOLEAN, torn => torn', job.pc = "settle" => torn',
         attempt' = attempt \/ (attempt' = NoPkg /\ rec.identity # 0 /\ rec.op # NoOp),
         UNCHANGED <<rec, up, host, traffic, counters, edited, unserved>>
  PROVE  HostInv'
<1>1. /\ TypeOK /\ ProcessOK /\ TrafficOK /\ JobOK /\ Present' = Present
      /\ Idle \in JobRecord /\ Idle.pc = "idle" /\ Idle.kind = "none" /\ Idle.failed = FALSE
  BY DEF HostInv, Present, Idle, JobRecord
<1>2. job.pc # "begin" => ~rec.enabled
  <2>1. CASE job.pc = "settle"
    <3>1. rec.op.status = "running" /\ Present /\ Good(rec)
      BY <1>1, <2>1 DEF HostInv, JobOK, SwitchOK, Switching, Carried
    <3> QED
      BY <3>1, OpenIsOff
  <2>2. CASE job.pc \in Installing
    BY <1>1, <2>2 DEF JobOK, InstallerOK
  <2> QED
    BY <2>1, <2>2
<1>3. job.pc = "settle" => rec.op.status = "running"
  BY <1>1, <1>2 DEF HostInv, JobOK, SwitchOK, Switching
<1>4. TypeOK' /\ Carried' /\ JobOK' /\ (Present => Good(rec))'
  BY <1>1 DEF HostInv, TypeOK, Carried, JobOK, Switching, Installing, host, traffic, counters
<1>5. ProcessOK'
  BY <1>1, <1>2, <1>3 DEF HostInv, ProcessOK, Carried, Switching, Installing, host
<1>6. TrafficOK' /\ AdmissionOK'
  BY <1>1, <1>2 DEF HostInv, TrafficOK, AdmissionOK, Carried, Installing, host, traffic
<1>7. UploadsAreComplete'
  BY <1>1 DEF HostInv, UploadsAreComplete
<1> QED
  BY <1>4, <1>5, <1>6, <1>7 DEF HostInv

\* An error ends a job.
LEMMA FailEnds ==
  ASSUME HostInv, job.pc \in {"begin", "settle"} \cup Installing, Fail,
         UNCHANGED <<up, host, traffic, counters, edited, unserved, attempt>>
  PROVE  HostInv'
<1>1. torn' \in BOOLEAN /\ (torn => torn') /\ (rec.op.status = "running" => torn')
  BY DEF HostInv, TypeOK, Fail
<1>2. job.pc = "settle" => rec.op.status = "running"
  BY DEF HostInv, JobOK, SwitchOK, Switching
<1> QED
  BY <1>1, <1>2, JobEnds DEF Fail

\* An operation begins on an application that has none open, and disables it.
LEMMA BeginKeeps ==
  ASSUME HostInv, Begin
  PROVE  HostInv'
<1>1. /\ TypeOK /\ Carried /\ JobOK /\ ProcessOK /\ TrafficOK /\ job \in JobRecord
      /\ job.pc = "begin" /\ Present /\ Good(rec)
  BY DEF HostInv, Begin, TypeOK, Carried
<1>2. CASE ~(Current /\ CanBegin(rec, job.act, 0))
  BY <1>1, <1>2, FailEnds DEF Begin
<1>3. CASE Current /\ CanBegin(rec, job.act, 0)
  <2> DEFINE n == Begun(rec, job.act, 0)
  <2>1. /\ rec' = n /\ job' = [job EXCEPT !.pc = "stop", !.record = n] /\ edited' = FALSE
        /\ CanBegin(rec, job.act, 0) /\ job.act \in {"install", "enable", "disable"}
        /\ UNCHANGED <<up, host, traffic, counters, torn, unserved, attempt>>
    BY <1>1, <1>3 DEF Begin, JobOK
  <2>2. /\ Good(n) /\ n.rev = rec.rev + 1 /\ ~n.enabled
        /\ n.op.action = job.act /\ n.op.status = "running"
        /\ n.ver = rec.ver /\ n.pkg = rec.pkg /\ n.identity = rec.identity
    BY <1>1, <2>1, BegunHost DEF Actions, VersionChanges
  <2> HIDE DEF n
  <2>3. n \in Installation /\ n # NoApp /\ n.rev \in Nat /\ n.op # NoOp /\ Present'
    BY <2>1, <2>2, NoAppIsNoRecord, OpenIsOff DEF Good, Present
  <2>4. /\ job' \in JobRecord /\ job'.pc = "stop" /\ job'.record = n
        /\ job'.act = job.act /\ job'.kind = job.kind /\ job'.pkg = job.pkg /\ job'.failed = job.failed
    BY <1>1, <2>1, <2>3 DEF JobRecord
  <2>5. TypeOK'
    BY <1>1, <2>1, <2>3, <2>4 DEF TypeOK, host, traffic, counters
  <2>6. Carried' /\ JobOK'
    BY <1>1, <2>1, <2>2, <2>3, <2>4 DEF Carried, Alike, JobOK, SwitchOK, Switching, Installing
  <2>9. ProcessOK'
    <3>1. UNCHANGED <<up, proc, live, runtime, torn>>
      BY <2>1 DEF host
    <3>2. live \subseteq {proc} /\ \A p \in live \cup ({proc} \ {0}) : runtime[p] = rec.pkg
      BY <1>1 DEF ProcessOK
    <3> QED
      BY <1>1, <2>1, <2>2, <2>3, <2>4, <3>1, <3>2 DEF ProcessOK, Carried, Switching
  <2>7. TrafficOK'
    BY <1>1, <2>1, <2>2, <2>3, <2>4 DEF TrafficOK, host, traffic
  <2>8. AdmissionOK' /\ UploadsAreComplete'
    BY <1>1, <2>1, <2>2, <2>3, <2>4 DEF HostInv, AdmissionOK, UploadsAreComplete
  <2> QED
    BY <2>1, <2>2, <2>5, <2>6, <2>7, <2>8, <2>9 DEF HostInv
<1> QED
  BY <1>2, <1>3

\* What a step within a switch leaves as it is when it changes neither the record nor
\* what callers see.
LEMMA SwitchMoves ==
  ASSUME HostInv, job.pc \in Switching, job' \in JobRecord, job'.pc \in Switching,
         job'.act = job.act, job'.record = job.record, job'.kind = job.kind, job'.pkg = job.pkg,
         SwitchOK', UNCHANGED <<rec, up, edited, attempt>>
  PROVE  Carried' /\ JobOK' /\ AdmissionOK' /\ UploadsAreComplete' /\ (Present => Good(rec))'
<1>1. Present' = Present /\ job.pc \notin Installing \cup {"idle", "begin"} /\ job'.pc \notin Installing \cup {"idle", "begin"}
  BY DEF Present, Switching, Installing
<1>2. Carried' /\ JobOK'
  BY <1>1 DEF HostInv, Carried, JobOK
<1>3. AdmissionOK' /\ UploadsAreComplete' /\ (Present => Good(rec))'
  BY <1>1 DEF HostInv, AdmissionOK, UploadsAreComplete
<1> QED
  BY <1>2, <1>3

\* The process is taken out of service, and waited for.
LEMMA StopProcessKeeps ==
  ASSUME HostInv, StopProcess
  PROVE  HostInv'
<1>1. TypeOK /\ JobOK /\ ProcessOK /\ TrafficOK /\ job \in JobRecord /\ job.pc = "stop" /\ up /\ Present
  BY DEF HostInv, StopProcess, TypeOK, Carried
<1>8. proc \in Nat
  BY <1>1 DEF TypeOK
<1>2. /\ job' \in JobRecord /\ job'.pc = "exit" /\ job'.old = proc
      /\ job'.act = job.act /\ job'.record = job.record /\ job'.kind = job.kind /\ job'.pkg = job.pkg
      /\ job'.failed = job.failed
  BY <1>1, <1>8 DEF StopProcess, JobRecord
<1>3. UNCHANGED <<rec, up, live, runtime, traffic, counters, history>> /\ proc' = 0 /\ active' = NoApp
  BY DEF StopProcess
<1>4. TypeOK'
  BY <1>1, <1>2, <1>3 DEF TypeOK, traffic, counters, history
<1>5. SwitchOK'
  BY <1>1, <1>2, <1>3 DEF JobOK, SwitchOK, Switching
<1>6. Carried' /\ JobOK' /\ AdmissionOK' /\ UploadsAreComplete' /\ (Present => Good(rec))'
  BY <1>1, <1>2, <1>3, <1>5, SwitchMoves DEF Switching, history
<1>7. ProcessOK' /\ TrafficOK'
  BY <1>1, <1>2, <1>3 DEF ProcessOK, TrafficOK, Present, Switching, traffic
<1> QED
  BY <1>4, <1>6, <1>7 DEF HostInv

\* stop() has returned; the gateway has drained.
LEMMA StoppedKeeps ==
  ASSUME HostInv, Stopped \/ Drained
  PROVE  HostInv'
<1>1. /\ TypeOK /\ JobOK /\ ProcessOK /\ TrafficOK /\ job \in JobRecord /\ job.pc \in {"exit", "drain"}
      /\ up /\ Present
  BY DEF HostInv, Stopped, Drained, TypeOK, Carried
<1>2. PICK pc \in {"drain", "spawn", "settle"} :
        /\ job' = [job EXCEPT !.pc = pc]
        /\ pc = "drain" => job.pc = "exit" /\ job.old \notin live
        /\ pc # "drain" => job.pc = "drain" /\ \A o \in Ops : ops[o].pc = "none"
        /\ pc = "settle" => job.act = "disable" \/ job.failed
        /\ pc = "spawn" => job.act # "disable" /\ ~job.failed
  BY DEF Stopped, Drained, Goto
<1>3. /\ job' \in JobRecord /\ job'.pc = pc
      /\ job'.act = job.act /\ job'.record = job.record /\ job'.kind = job.kind /\ job'.pkg = job.pkg
      /\ job'.failed = job.failed
  BY <1>1, <1>2 DEF JobRecord
<1>4. UNCHANGED <<rec, up, host, traffic, counters, history>>
  BY DEF Stopped, Drained
<1>5. TypeOK'
  BY <1>1, <1>3, <1>4 DEF TypeOK, host, traffic, counters, history
<1>6. SwitchOK'
  BY <1>1, <1>2, <1>3, <1>4 DEF JobOK, SwitchOK, Switching
<1>7. Carried' /\ JobOK' /\ AdmissionOK' /\ UploadsAreComplete' /\ (Present => Good(rec))'
  BY <1>1, <1>3, <1>4, <1>6, SwitchMoves DEF Switching, history
<1>8. live = {} /\ proc = 0
  BY <1>1, <1>2 DEF ProcessOK, TypeOK
<1>9. ProcessOK' /\ TrafficOK'
  BY <1>1, <1>2, <1>3, <1>4, <1>8 DEF ProcessOK, TrafficOK, Present, Switching, host, traffic
<1> QED
  BY <1>5, <1>7, <1>9 DEF HostInv

\* The only process there is runs the package of the record.
LEMMA SpawnKeeps ==
  ASSUME HostInv, Spawn
  PROVE  HostInv'
<1>1. /\ TypeOK /\ JobOK /\ ProcessOK /\ TrafficOK /\ job \in JobRecord /\ job.pc = "spawn"
      /\ up /\ Present /\ rec \in Installation /\ job.record.pkg = rec.pkg /\ rec.pkg \in Packages
  BY DEF HostInv, Spawn, TypeOK, Carried, Alike, Good, Installation
<1>2. /\ job' \in JobRecord /\ job'.pc = "starting"
      /\ job'.act = job.act /\ job'.record = job.record /\ job'.kind = job.kind /\ job'.pkg = job.pkg
      /\ job'.failed = job.failed
  BY <1>1 DEF Spawn, Goto, JobRecord
<1>3. UNCHANGED <<rec, up, active, traffic, counters, history>>
  BY DEF Spawn
<1>4. live = {} /\ proc = 0
  BY <1>1 DEF ProcessOK, TypeOK
<1>5. runtime \in Seq(Packages)
  BY <1>1 DEF TypeOK
<1>6. /\ runtime' \in Seq(Packages) /\ Len(runtime') = Len(runtime) + 1 /\ Len(runtime) \in Nat
      /\ runtime'[Len(runtime) + 1] = rec.pkg
  BY <1>1, <1>5 DEF Spawn
<1>7. proc' = Len(runtime) + 1 /\ live' = {proc'} /\ proc' # 0
  BY <1>4, <1>6 DEF Spawn
<1>8. proc' \in 0..Len(runtime') /\ live' \subseteq 1..Len(runtime')
  BY <1>6, <1>7
<1>9. TypeOK'
  BY <1>1, <1>2, <1>3, <1>6, <1>8 DEF TypeOK, traffic, counters, history
<1>10. SwitchOK'
  BY <1>1, <1>2, <1>3 DEF JobOK, SwitchOK, Switching
<1>11. Carried' /\ JobOK' /\ AdmissionOK' /\ UploadsAreComplete' /\ (Present => Good(rec))'
  BY <1>1, <1>2, <1>3, <1>10, SwitchMoves DEF Switching, history
<1>12. ProcessOK'
  BY <1>1, <1>2, <1>3, <1>6, <1>7 DEF ProcessOK, Present, Switching
<1>13. TrafficOK'
  BY <1>1, <1>2, <1>3, <1>4 DEF TrafficOK, Present, traffic
<1> QED
  BY <1>9, <1>11, <1>12, <1>13 DEF HostInv

\* A start ends: the record carried is served, or a failure takes the process away again.
LEMMA StartKeeps ==
  ASSUME HostInv, Started \/ StartFails
  PROVE  HostInv'
<1>1. /\ TypeOK /\ JobOK /\ ProcessOK /\ TrafficOK /\ SwitchOK /\ Carried
      /\ job \in JobRecord /\ job.pc = "starting"
      /\ up /\ Present /\ proc # 0 /\ job.record \in Installation /\ job.record # NoApp
  BY NoAppIsNoRecord DEF HostInv, Started, StartFails, TypeOK, Carried, JobOK, ProcessOK, Switching
<1>2. /\ UNCHANGED <<rec, up, proc, runtime, traffic, counters, torn, edited, attempt>>
      /\ live' \subseteq live /\ active' \in {active, job.record}
  BY DEF Started, StartFails
<1>3. \A k \in Calls : calls[k].pc # "running"
  BY <1>1 DEF TrafficOK
<1>4. TypeOK /\ unserved' \in BOOLEAN /\ active' \in Installation \cup {NoApp}
  BY <1>1, <1>2 DEF Started, StartFails, TypeOK
<1>5. CASE job.act = "serve"
  <2>1. /\ job' = Idle /\ Idle \in JobRecord /\ Idle.pc = "idle" /\ Idle.kind = "none" /\ Idle.failed = FALSE
        /\ unserved' = TRUE \/ active' = job.record
    BY <1>5 DEF Started, StartFails, Idle, JobRecord
  <2>2. TypeOK'
    BY <1>2, <1>4, <2>1 DEF TypeOK, traffic, counters
  <2>3. Carried' /\ JobOK'
    BY <2>1 DEF Carried, JobOK, Switching, Installing
  <2>4. ProcessOK' /\ TrafficOK'
    BY <1>1, <1>2, <1>3, <1>5, <2>1 DEF SwitchOK, ProcessOK, TrafficOK, Present, Switching, traffic
  <2>5. AdmissionOK'
    BY <1>1, <1>2, <2>1 DEF AdmissionOK, Carried, Present, Switching
  <2>6. UploadsAreComplete' /\ (Present => Good(rec))'
    BY <1>2 DEF HostInv, UploadsAreComplete, Present
  <2> QED
    BY <2>2, <2>3, <2>4, <2>5, <2>6 DEF HostInv
<1>6. CASE job.act # "serve"
  <2>1. PICK pc \in {"settle", "stop"} :
          job' = [job EXCEPT !.pc = pc, !.failed = (pc = "stop")]
    <3>1. job.failed = FALSE
      BY <1>1 DEF SwitchOK, JobRecord
    <3>2. CASE Started
      <4>1. job' = [job EXCEPT !.pc = "settle"]
        BY <1>6, <3>2 DEF Started, Goto
      <4>2. job' = [job EXCEPT !.pc = "settle", !.failed = FALSE]
        BY <1>1, <3>1, <4>1 DEF JobRecord
      <4> QED
        BY <4>2
    <3>3. CASE StartFails
      BY <1>6, <3>3 DEF StartFails
    <3> QED
      BY <3>2, <3>3
  <2>2. /\ job' \in JobRecord /\ job'.pc = pc /\ job'.failed = (pc = "stop")
        /\ job'.act = job.act /\ job'.record = job.record /\ job'.kind = job.kind /\ job'.pkg = job.pkg
    BY <1>1, <2>1 DEF JobRecord
  <2>3. TypeOK'
    BY <1>2, <1>4, <2>2 DEF TypeOK, traffic, counters
  <2>4. SwitchOK'
    BY <1>1, <1>2, <1>6, <2>2 DEF SwitchOK
  <2>5. Carried' /\ JobOK' /\ AdmissionOK' /\ UploadsAreComplete' /\ (Present => Good(rec))'
    BY <1>1, <1>2, <2>2, <2>4, SwitchMoves DEF Switching
  <2>6. ProcessOK'
    BY <1>1, <1>2, <1>6, <2>2 DEF ProcessOK, SwitchOK, Present, Switching
  <2>7. TrafficOK'
    BY <1>1, <1>2, <1>3, <2>2 DEF TrafficOK, Present, traffic
  <2> QED
    BY <2>3, <2>5, <2>6, <2>7 DEF HostInv
<1> QED
  BY <1>5, <1>6

\* An operation is settled as it went, and what is served is the record settled.
LEMMA SettleKeeps ==
  ASSUME HostInv, Settle
  PROVE  HostInv'
<1> DEFINE outcome == IF job.failed THEN "failed" ELSE "completed"
           n == Settled(rec, outcome)
           goes == job.failed \/ job.kind = "none" \/ job.act # "disable"
<1>1. /\ TypeOK /\ JobOK /\ ProcessOK /\ TrafficOK /\ SwitchOK /\ Carried
      /\ job \in JobRecord /\ job.pc = "settle"
      /\ up /\ Present /\ Good(rec)
  BY DEF HostInv, Settle, TypeOK, Carried, JobOK, Switching
<1>2. CASE Current /\ CanSettle(rec, job.record.op.id)
  <2>1. /\ rec' = n
        /\ job' = IF goes THEN Idle ELSE [job EXCEPT !.pc = "migrate", !.act = "none", !.record = n]
        /\ active' = IF job.failed \/ job.act = "disable" THEN active ELSE n
        /\ attempt' = IF ~job.failed /\ job.kind # "none" /\ job.act # "disable" THEN NoPkg ELSE attempt
        /\ unserved' = IF job.failed \/ job.act = "disable" THEN unserved ELSE FALSE
        /\ UNCHANGED <<up, proc, live, runtime, traffic, counters, torn, edited>>
    BY <1>2 DEF Settle, Serves
  <2>2. /\ job.act \in {"install", "enable", "disable"} /\ rec.op.action = job.act /\ rec.op.status = "running"
        /\ ~rec.enabled /\ job.failed \in BOOLEAN
    BY <1>1, OpenIsOff DEF SwitchOK, JobRecord
  <2>3. /\ Good(n) /\ n.rev = rec.rev + 1 /\ n.pkg = rec.pkg /\ n.op # NoOp
        /\ n.enabled = (~job.failed /\ job.act # "disable")
        /\ n.identity = rec.identity /\ n.ver = rec.ver
    BY <1>1, <2>2, SettledHost DEF VersionChanges
  <2> HIDE DEF n, outcome
  <2>4. n \in Installation /\ n # NoApp /\ n.rev \in Nat /\ Present'
    BY <2>1, <2>3, NoAppIsNoRecord DEF Good, Present
  <2>5. TypeOK'
    <3>1. job' \in JobRecord
      BY <1>1, <2>1, <2>4 DEF JobRecord, Idle
    <3>2. attempt' \in Packages \cup {NoPkg} /\ unserved' \in BOOLEAN /\ active' \in Installation \cup {NoApp}
      BY <1>1, <2>1, <2>4 DEF TypeOK
    <3> QED
      BY <1>1, <2>1, <2>4, <3>1, <3>2 DEF TypeOK, traffic, counters
  <2>6. goes => job'.pc = "idle" /\ job' = Idle /\ job'.kind = "none" /\ job'.failed = FALSE
    BY <2>1 DEF Idle
  <2>7. ~goes => /\ job'.pc = "migrate" /\ job'.act = "none" /\ job'.record = n /\ job'.kind = job.kind
                 /\ job'.pkg = job.pkg /\ job'.failed = FALSE /\ job.kind # "none" /\ ~n.enabled
                 /\ attempt' = attempt /\ job.act = "disable"
    BY <1>1, <2>1, <2>2, <2>3 DEF JobRecord
  <2>8. job'.pc \in {"idle", "migrate"} /\ (job'.pc = "migrate" => ~goes)
    BY <2>6, <2>7
  <2> HIDE DEF goes
  <2>9. Carried' /\ JobOK'
    BY <1>1, <2>1, <2>3, <2>4, <2>6, <2>7, <2>8 DEF Carried, Alike, JobOK, InstallerOK, Switching, Installing
  <2>10. ProcessOK'
    <3>1. proc # 0 => n.enabled
      BY <1>1, <2>3 DEF ProcessOK
    <3>2. live \subseteq {proc} /\ \A p \in live \cup ({proc} \ {0}) : runtime[p] = rec.pkg
      BY <1>1 DEF ProcessOK
    <3> QED
      BY <1>1, <2>1, <2>3, <2>4, <2>8, <3>1, <3>2 DEF ProcessOK, Switching
  <2>11. TrafficOK'
    BY <1>1, <2>1, <2>2, <2>4, <2>8 DEF TrafficOK, traffic
  <2>12. AdmissionOK'
    <3>1. n.enabled => proc # 0 /\ active' = n
      BY <1>1, <2>1, <2>3 DEF ProcessOK
    <3> QED
      BY <2>1, <2>4, <3>1 DEF AdmissionOK
  <2>13. UploadsAreComplete'
    <3>1. attempt' = NoPkg => rec.identity # 0
      <4>1. CASE attempt' = attempt
        BY <1>1, <4>1 DEF HostInv, UploadsAreComplete
      <4>2. CASE attempt' # attempt
        BY <1>1, <2>1, <2>2, <4>2 DEF JobOK
      <4> QED
        BY <4>1, <4>2
    <3> QED
      BY <2>1, <2>3, <3>1 DEF UploadsAreComplete
  <2> QED
    BY <2>1, <2>3, <2>5, <2>9, <2>10, <2>11, <2>12, <2>13 DEF HostInv
<1>3. CASE ~(Current /\ CanSettle(rec, job.record.op.id))
  <2>1. Fail /\ UNCHANGED <<up, host, traffic, counters, edited, unserved, attempt>>
    BY <1>3 DEF Settle, host
  <2> QED
    BY <1>1, <2>1, FailEnds
<1> QED
  BY <1>2, <1>3
-----------------------------------------------------------------------------
\* A step of the installer works on an application out of service: the record may be
\* replaced by a later one, but its package and its operation only where no process is.
LEMMA InstallerMoves ==
  ASSUME HostInv, job.pc \in Installing, job' \in JobRecord, job'.pc \in Installing,
         job'.act = job.act, job'.kind = job.kind, job'.pkg = job.pkg, job'.failed = job.failed,
         Good(rec'), rec'.rev >= rec.rev,
         job'.record = rec' \/ (rec' = rec /\ job'.record = job.record),
         InstallerOK',
         proc # 0 => rec'.pkg = rec.pkg /\ rec'.op = rec.op /\ job'.pc # "upgraded",
         UNCHANGED <<up, host, traffic, counters, history>>
  PROVE  HostInv'
<1>1. /\ TypeOK /\ Carried /\ JobOK /\ InstallerOK /\ ProcessOK /\ TrafficOK
      /\ up /\ Present /\ ~rec.enabled /\ ~rec'.enabled
      /\ job.pc \notin Switching \cup {"idle", "begin"} /\ job'.pc \notin Switching \cup {"idle", "begin"}
  BY DEF HostInv, Carried, JobOK, InstallerOK, Switching, Installing
<1>2. rec' \in Installation /\ Present' /\ rec'.rev \in Nat
  BY NoAppIsNoRecord DEF Good, Present
<1>3. TypeOK'
  BY <1>1, <1>2 DEF TypeOK, host, traffic, counters, history
<1>4. Carried'
  BY <1>1, <1>2 DEF Carried, Alike
<1>5. JobOK'
  BY <1>1 DEF JobOK, InstallerOK, history
<1>6. ProcessOK'
  <2>1. /\ live \subseteq {proc} /\ 0 \notin live
        /\ \A p \in live \cup ({proc} \ {0}) : runtime[p] = rec.pkg
        /\ proc # 0 => rec.op.status = "running" /\ torn
    BY <1>1 DEF ProcessOK, TypeOK, Switching
  <2>2. \A p \in live \cup ({proc} \ {0}) : runtime[p] = rec'.pkg
    BY <2>1
  <2>3. job'.pc \notin {"exit", "drain", "spawn", "starting", "settle"}
    BY <1>1 DEF Switching
  <2> QED
    BY <1>1, <1>2, <2>1, <2>2, <2>3 DEF ProcessOK, host, history
<1>7. TrafficOK'
  <2>1. \A o \in Ops : ops[o].pc # "working"
    BY <1>1 DEF TrafficOK, Switching
  <2> QED
    BY <1>1, <1>2, <2>1 DEF TrafficOK, Switching, host, traffic
<1>8. AdmissionOK'
  BY <1>1 DEF AdmissionOK
<1>9. UploadsAreComplete'
  BY <1>1, NoPkgIsNoPackage DEF UploadsAreComplete, JobOK, InstallerOK, history
<1> QED
  BY <1>2, <1>3, <1>4, <1>5, <1>6, <1>7, <1>8, <1>9 DEF HostInv

\* The installer goes on without touching the record.
LEMMA InstallerGoes ==
  ASSUME HostInv, job.pc \in Installing, NEW pc \in Installing \ {"upgraded"}, Goto(pc),
         pc \in {"package", "credential", "grants", "launch"} /\ job.kind = "upgrade" => rec.op # NoOp,
         pc \in {"grants", "launch"} => rec.identity # 0,
         UNCHANGED <<rec, up, host, traffic, counters, history>>
  PROVE  HostInv'
<1>1. /\ job \in JobRecord /\ InstallerOK /\ Good(rec) /\ rec.rev \in Nat
  BY NoAppIsNoRecord DEF HostInv, TypeOK, JobOK, Carried, Installing, Good
<1>2. /\ job' \in JobRecord /\ job'.pc = pc /\ job'.record = job.record
      /\ job'.act = job.act /\ job'.kind = job.kind /\ job'.pkg = job.pkg /\ job'.failed = job.failed
  BY <1>1 DEF Goto, JobRecord, Installing
<1>3. InstallerOK'
  BY <1>1, <1>2 DEF InstallerOK
<1> QED
  BY <1>1, <1>2, <1>3, InstallerMoves

\* A change of the record that the registry accepts is carried on.
LEMMA InstallerStores ==
  ASSUME HostInv, job.pc \in Installing, NEW n, NEW pc \in Installing,
         rec' = n, job' = [job EXCEPT !.pc = pc, !.record = n],
         UNCHANGED <<up, host, traffic, counters, history>>,
         Good(n), n.rev >= rec.rev, ~n.enabled,
         proc # 0 => n.pkg = rec.pkg /\ n.op = rec.op /\ pc # "upgraded",
         pc = "upgraded" => n.op.action = "upgrade" /\ n.op.status = "running",
         pc \in {"package", "credential", "grants", "launch"} /\ job.kind = "upgrade" => n.op # NoOp,
         pc \in {"grants", "launch"} => n.identity # 0
  PROVE  HostInv'
<1>1. job \in JobRecord /\ InstallerOK /\ n \in Installation
  BY DEF HostInv, TypeOK, JobOK, Installing, Good
<1>2. /\ job' \in JobRecord /\ job'.pc = pc /\ job'.record = n
      /\ job'.act = job.act /\ job'.kind = job.kind /\ job'.pkg = job.pkg /\ job'.failed = job.failed
  BY <1>1 DEF JobRecord, Installing
<1>3. InstallerOK'
  BY <1>1, <1>2 DEF InstallerOK
<1> QED
  BY <1>2, <1>3, InstallerMoves

\* Migrations and the upgrade of the record.
LEMMA UpgradesKeep ==
  ASSUME HostInv, Migrate \/ UpgradeBegin \/ UpgradeSettle
  PROVE  HostInv'
<1>1. /\ TypeOK /\ JobOK /\ ProcessOK /\ job.pc \in {"migrate", "upgrade", "upgraded"} /\ job.pc \in Installing
      /\ InstallerOK /\ Present /\ Good(rec) /\ rec.rev \in Nat /\ job.pkg \in Packages /\ ~rec.enabled
  BY NoAppIsNoRecord DEF HostInv, Migrate, UpgradeBegin, UpgradeSettle, JobOK, InstallerOK, Carried, Installing, Good
<1>2. CASE Migrate
  <2>1. CASE job' = Idle
    BY <1>1, <1>2, <2>1, JobEnds DEF Migrate, history, TypeOK
  <2>2. CASE job' # Idle
    <3>1. PICK pc \in {"upgrade", "package"} : Goto(pc) /\ (pc = "package" => job.kind # "upgrade")
      BY <1>2, <2>2 DEF Migrate, Goto
    <3> QED
      BY <1>1, <1>2, <3>1, InstallerGoes DEF Migrate, Installing
  <2> QED
    BY <2>1, <2>2
<1>3. CASE UpgradeBegin
  <2> DEFINE n == Begun(rec, "upgrade", job.pkg.ver)
  <2>1. CASE Current /\ CanBegin(rec, "upgrade", job.pkg.ver)
    <3>1. /\ rec' = n /\ job' = [job EXCEPT !.pc = "upgraded", !.record = n]
          /\ UNCHANGED <<up, host, traffic, counters, history>>
      BY <1>3, <2>1 DEF UpgradeBegin, RegistryStep, history
    <3>2. job.pkg.ver \in Versions
      BY <1>1, RegistryAssumption
    <3>3. Good(n) /\ n.rev = rec.rev + 1 /\ ~n.enabled /\ n.op.action = "upgrade" /\ n.op.status = "running"
      BY <1>1, <2>1, <3>2, BegunHost DEF Actions, VersionChanges
    <3> HIDE DEF n
    <3>5. n.rev >= rec.rev
      BY <1>1, <3>3
    <3>4. proc = 0
      BY <1>1, <2>1 DEF ProcessOK, CanBegin, Blocked, Closed, Switching, Installing
    <3> QED
      BY <1>1, <3>1, <3>3, <3>4, <3>5, InstallerStores DEF Installing
  <2>2. CASE ~(Current /\ CanBegin(rec, "upgrade", job.pkg.ver))
    <3>1. Fail /\ UNCHANGED <<up, host, traffic, counters, edited, unserved, attempt>>
      BY <1>3, <2>2 DEF UpgradeBegin, RegistryStep
    <3> QED
      BY <1>1, <3>1, FailEnds
  <2> QED
    BY <2>1, <2>2
<1>4. CASE UpgradeSettle
  <2> DEFINE n == Settled(rec, "completed")
  <2>1. CASE Current /\ CanSettle(rec, job.record.op.id)
    <3>1. /\ rec' = n /\ job' = [job EXCEPT !.pc = "package", !.record = n]
          /\ UNCHANGED <<up, host, traffic, counters, history>>
      BY <1>4, <2>1 DEF UpgradeSettle, RegistryStep, history
    <3>2. job.pc = "upgraded" /\ rec.op.action = "upgrade" /\ rec.op.status = "running"
      BY <1>1, <1>4 DEF UpgradeSettle, InstallerOK
    <3>3. Good(n) /\ n.rev = rec.rev + 1 /\ ~n.enabled /\ n.op # NoOp
      BY <1>1, <3>2, SettledHost
    <3> HIDE DEF n
    <3>5. n.rev >= rec.rev
      BY <1>1, <3>3
    <3>4. proc = 0
      BY <1>1, <3>2 DEF ProcessOK, Switching
    <3> QED
      BY <1>1, <3>1, <3>3, <3>4, <3>5, InstallerStores DEF Installing
  <2>2. CASE ~(Current /\ CanSettle(rec, job.record.op.id))
    <3>1. Fail /\ UNCHANGED <<up, host, traffic, counters, edited, unserved, attempt>>
      BY <1>4, <2>2 DEF UpgradeSettle, RegistryStep
    <3> QED
      BY <1>1, <3>1, FailEnds
  <2> QED
    BY <2>1, <2>2
<1> QED
  BY <1>2, <1>3, <1>4

\* The package, the service identity and its grants.
LEMMA EquipsKeep ==
  ASSUME HostInv, SetPackage \/ Credential \/ Grants
  PROVE  HostInv'
<1>1. /\ TypeOK /\ JobOK /\ ProcessOK /\ job.pc \in {"package", "credential", "grants"} /\ job.pc \in Installing
      /\ InstallerOK /\ Present /\ Good(rec) /\ rec.rev \in Nat /\ job.pkg \in Packages /\ ~rec.enabled
      /\ Alike(job.record, rec) /\ (job.kind = "upgrade" => rec.op # NoOp)
  BY NoAppIsNoRecord DEF HostInv, SetPackage, Credential, Grants, JobOK, InstallerOK, Carried, Installing, Good
<1>2. CASE SetPackage
  <2> DEFINE n == WithPackage(rec, job.pkg)
  <2>1. CASE job.record.pkg = job.pkg
    BY <1>1, <1>2, <2>1, InstallerGoes DEF SetPackage, Installing
  <2>2. CASE job.record.pkg # job.pkg /\ Current /\ CanSetPackage(rec, job.pkg)
    <3>1. /\ rec' = n /\ job' = [job EXCEPT !.pc = "credential", !.record = n]
          /\ UNCHANGED <<up, host, traffic, counters, history>>
      BY <1>2, <2>2 DEF SetPackage, RegistryStep, history
    <3>2. /\ Good(n) /\ n.rev = rec.rev + 1 /\ ~n.enabled /\ n.op = rec.op
      BY <1>1, PackageHost
    <3> HIDE DEF n
    <3>5. n.rev >= rec.rev
      BY <1>1, <3>2
    <3>3. proc = 0
      BY <1>1, <2>2 DEF ProcessOK, CanSetPackage, CanChange, Blocked, Closed, NoOp, Switching, Installing
    <3> QED
      BY <1>1, <3>1, <3>2, <3>3, <3>5, InstallerStores DEF Installing
  <2>3. CASE job.record.pkg # job.pkg /\ ~(Current /\ CanSetPackage(rec, job.pkg))
    <3>1. Fail /\ UNCHANGED <<up, host, traffic, counters, edited, unserved, attempt>>
      BY <1>2, <2>3 DEF SetPackage, RegistryStep
    <3> QED
      BY <1>1, <3>1, FailEnds
  <2> QED
    BY <2>1, <2>2, <2>3
<1>3. CASE Credential
  <2> DEFINE n == WithCredential(rec)
  <2>1. CASE job.record.identity # 0
    BY <1>1, <1>3, <2>1, InstallerGoes DEF Credential, Installing, Alike
  <2>2. CASE job.record.identity = 0 /\ Current /\ CanChange(rec, "credential-issued")
    <3>1. /\ rec' = n /\ job' = [job EXCEPT !.pc = "grants", !.record = n]
          /\ UNCHANGED <<up, host, traffic, counters, history>>
      BY <1>3, <2>2 DEF Credential, RegistryStep, history
    <3>2. /\ Good(n) /\ n.rev = rec.rev + 1 /\ ~n.enabled /\ n.op = rec.op
          /\ n.pkg = rec.pkg /\ n.identity # 0
      BY <1>1, <2>2, CredentialHost
    <3> HIDE DEF n
    <3>5. n.rev >= rec.rev
      BY <1>1, <3>2
    <3> QED
      BY <1>1, <3>1, <3>2, <3>5, InstallerStores DEF Installing
  <2>3. CASE job.record.identity = 0 /\ ~(Current /\ CanChange(rec, "credential-issued"))
    <3>1. Fail /\ UNCHANGED <<up, host, traffic, counters, edited, unserved, attempt>>
      BY <1>3, <2>3 DEF Credential, RegistryStep
    <3> QED
      BY <1>1, <3>1, FailEnds
  <2> QED
    BY <2>1, <2>2, <2>3
<1>4. CASE Grants
  <2> DEFINE n == Granted(rec)
  <2>1. job.pc = "grants" /\ rec.identity # 0 /\ UNCHANGED <<up, host, traffic, counters, edited, unserved, attempt>>
    BY <1>1, <1>4 DEF Grants, InstallerOK
  <2>2. CASE rec' = rec /\ Goto("launch") /\ torn' = torn
    BY <1>1, <2>1, <2>2, InstallerGoes DEF Installing, history
  <2>3. CASE /\ \A p \in Declares[rec.ver] : CanApprove(rec, "service", p)
             /\ rec' = n /\ job' = [job EXCEPT !.pc = "launch", !.record = n] /\ torn' = torn
    <3>1. Good(n) /\ n.rev >= rec.rev /\ Alike(rec, n)
      BY <1>1, <2>3, GrantedHost
    <3> HIDE DEF n
    <3> QED
      BY <1>1, <2>1, <2>3, <3>1, InstallerStores DEF Installing, Alike, history
  <2>4. CASE Fail
    BY <1>1, <2>1, <2>4, FailEnds
  <2>5. \/ rec' = rec /\ Goto("launch") /\ torn' = torn
        \/ /\ \A p \in Declares[rec.ver] : CanApprove(rec, "service", p)
           /\ rec' = n /\ job' = [job EXCEPT !.pc = "launch", !.record = n] /\ torn' = torn
        \/ Fail
    BY <1>4 DEF Grants
  <2> QED
    BY <2>2, <2>3, <2>4, <2>5
<1> QED
  BY <1>2, <1>3, <1>4

\* The installer starts what it has installed, or reports success.
LEMMA LaunchKeeps ==
  ASSUME HostInv, Launch
  PROVE  HostInv'
<1>1. /\ TypeOK /\ JobOK /\ ProcessOK /\ TrafficOK /\ Carried /\ job \in JobRecord /\ job.pc = "launch"
      /\ job.pc \in Installing /\ InstallerOK /\ up /\ Present /\ ~rec.enabled
  BY DEF HostInv, Launch, JobOK, InstallerOK, Carried, TypeOK, Installing
<1>2. rec.identity # 0 /\ (job.kind = "upgrade" => rec.op # NoOp) /\ job.failed = FALSE
  BY <1>1 DEF InstallerOK, JobOK, JobRecord, Switching
<1>3. UNCHANGED <<rec, up, host, traffic, counters, torn, edited, unserved>>
  BY DEF Launch
<1>4. CASE job.kind = "upgrade" /\ ~job.was
  BY <1>1, <1>2, <1>3, <1>4, JobEnds DEF Launch, TypeOK
<1>5. CASE ~(job.kind = "upgrade" /\ ~job.was)
  <2>1. PICK act \in {"install", "enable"} : job' = [job EXCEPT !.pc = "begin", !.act = act]
    BY <1>5 DEF Launch
  <2>2. /\ job' \in JobRecord /\ job'.pc = "begin" /\ job'.act = act /\ job'.record = job.record
        /\ job'.kind = job.kind /\ job'.pkg = job.pkg /\ job'.failed = FALSE
    BY <1>1, <1>2, <2>1 DEF JobRecord
  <2>3. attempt' = attempt /\ Present' = Present
    BY <1>3, <1>5 DEF Launch, Present
  <2>4. TypeOK'
    BY <1>1, <1>3, <2>2, <2>3 DEF TypeOK, host, traffic, counters
  <2>5. Carried' /\ JobOK'
    BY <1>1, <1>2, <1>3, <2>2, <2>3 DEF Carried, JobOK, Switching, Installing
  <2>6. ProcessOK' /\ TrafficOK'
    BY <1>1, <1>3, <2>2, <2>3 DEF ProcessOK, TrafficOK, Switching, host, traffic
  <2>7. AdmissionOK' /\ UploadsAreComplete' /\ (Present => Good(rec))'
    BY <1>1, <1>3, <2>3 DEF HostInv, AdmissionOK, UploadsAreComplete
  <2> QED
    BY <2>4, <2>5, <2>6, <2>7 DEF HostInv
<1> QED
  BY <1>4, <1>5
-----------------------------------------------------------------------------
\* No step of the host, the installer or anybody around them breaks the invariant.
LEMMA HostStays == HostInv /\ [Next]_vars => HostInv'
<1> SUFFICES ASSUME HostInv, [Next]_vars PROVE HostInv'
  OBVIOUS
<1>1. CASE UNCHANGED vars
  <2>1. /\ UNCHANGED <<rec, up, job, host, counters, history>> /\ calls' = calls /\ ops' = ops
    BY <1>1 DEF vars, traffic
  <2>2. TrafficOK' /\ calls' \in [Calls -> CallRecord] /\ ops' \in [Ops -> OperationRecord]
    BY <2>1 DEF HostInv, TypeOK, TrafficOK, Present, host
  <2> QED
    BY <2>1, <2>2, TrafficKeeps
<1>2. CASE JobStep
  BY <1>2, BeginKeeps, StopProcessKeeps, StoppedKeeps, SpawnKeeps, StartKeeps, SettleKeeps,
     UpgradesKeep, EquipsKeep, LaunchKeeps DEF JobStep
<1>3. CASE Next /\ ~JobStep
  BY <1>3, ExecuteKeeps, RecoverKeeps, UploadKeeps, EditKeeps, CrashKeeps, BootKeeps, ChildrenKeep,
     CallsKeep, OperationsKeep DEF Next
<1> QED
  BY <1>1, <1>2, <1>3

\* The invariant holds in every reachable state.
LEMMA HostInvariance == Spec => []HostInv
BY HostStarts, HostStays, PTL DEF Spec

\* For any versions, packages, calls, operations and bounds: one process at most, of the
\* package the record names; operations with the identity and version the record has; and
\* nothing serves that is not meant to (host.ts:64-100, installer.ts:62-79).
THEOREM OneGenerationServes == Spec => []ServesOneEnabled
<1>1. ASSUME HostInv PROVE ServesOneEnabled
  <2>1. TypeOK /\ Carried /\ JobOK /\ ProcessOK /\ TrafficOK /\ (Present => Good(rec))
    BY <1>1 DEF HostInv
  <2>2. OneGeneration
    <3>1. PICK x : live \subseteq {x}
      BY <2>1 DEF ProcessOK
    <3>2. IsFiniteSet({x}) /\ Cardinality({x}) = 1
      BY FS_Singleton
    <3>3. Cardinality(live) <= 1
      BY <3>1, <3>2, FS_Subset
    <3> QED
      BY <2>1, <3>3 DEF OneGeneration, ProcessOK, TrafficOK
  <2>3. live # {} /\ ~rec.enabled => job.pc # "idle" \/ torn
    BY <2>1 DEF ProcessOK, TypeOK, Switching
  <2>4. ASSUME Present, rec.op.action = "disable", rec.op.status = "completed"
        PROVE  /\ live = {} /\ proc = 0
               /\ \A k \in Calls : calls[k].pc # "running"
               /\ \A o \in Ops : ops[o].pc # "working"
    <3>1. ~rec.enabled
      BY <2>1, <2>4 DEF Good, WellFormed, NoOp
    <3>2. job.pc \notin Switching
      BY <2>1, <2>4, <3>1 DEF JobOK, SwitchOK
    <3>3. proc = 0 /\ live = {}
      BY <2>1, <2>4, <3>1, <3>2 DEF ProcessOK, TypeOK, Switching
    <3> QED
      BY <2>1, <3>1, <3>2, <3>3 DEF TrafficOK, Switching
  <2> QED
    BY <2>1, <2>2, <2>3, <2>4 DEF ServesOneEnabled, QuietUnlessEnabled
<1> QED
  BY <1>1, HostInvariance, PTL

\* For any of these: between jobs an enabled application is admitted, unless its last start
\* failed or a grant was edited since (host.ts:98, 124-130).
THEOREM AdmissionFollows == Spec => []EnabledIsAdmitted
<1>1. ASSUME HostInv PROVE EnabledIsAdmitted
  BY <1>1 DEF HostInv, AdmissionOK, EnabledIsAdmitted, Admitted
<1> QED
  BY <1>1, HostInvariance, PTL

\* For any of these: no upload reports success and leaves the application without a service
\* identity or without a lifecycle (installer.ts:73-83).
THEOREM UploadsComplete == Spec => []UploadsAreComplete
<1>1. HostInv => UploadsAreComplete
  BY DEF HostInv
<1> QED
  BY <1>1, HostInvariance, PTL
=============================================================================
