----------------------------- MODULE RowsProofs -----------------------------
(*****************************************************************************)
(* What the rows of MCRows can be relied on for, with any number of          *)
(* revisions, uploads, events, workers, processes and runs.  They share no   *)
(* state, and neither do their proofs: installations, attachments, events,   *)
(* runs.                                                                     *)
(*****************************************************************************)
EXTENDS RegistryProofs, AppRegistry, Attachments, Outbox, Jobs, SequenceTheorems, FiniteSetTheorems

(*****************************************************************************)
(* Installations.  Every operation maps a well-formed record to a well-      *)
(* formed record (RegistryProofs), and the credentials handed out are never  *)
(* younger than the record.                                                  *)
(*****************************************************************************)
\* No credential handed out is younger than the record.
IssuedInv ==
  \A c \in issued : Present /\ c[1] <= rec.rev /\ c[2] <= rec.rev

\* The inductive invariant: typing, the promises, and the age of identifiers.
RegistryInv == TypeOK /\ (Present => Good(rec)) /\ IssuedInv

\* Every step that changes anything stores a good record with a later revision.
Stored == Present' /\ Good(rec') /\ (Present => rec'.rev = rec.rev + 1)

\* Such a step keeps the invariant.
LEMMA StoredKeeps ==
  ASSUME RegistryInv, Stored,
         issued' = issued \/ issued' = issued \cup {<<rec'.identity, rec'.secret>>}
  PROVE  RegistryInv'
<1>1. rec' \in Installation /\ rec'.identity \in Nat /\ rec'.secret \in Nat /\ rec'.rev \in Nat
  BY DEF Stored, Good, Installation
<1>2. TypeOK'
  BY <1>1 DEF RegistryInv, TypeOK
<1>3. Present => rec.rev \in Nat
  BY DEF RegistryInv, Good, Installation
<1>4. IssuedInv'
  <2>1. ASSUME NEW c \in issued PROVE c[1] <= rec'.rev /\ c[2] <= rec'.rev
    <3>1. Present /\ c[1] <= rec.rev /\ c[2] <= rec.rev /\ c[1] \in Nat /\ c[2] \in Nat
      BY <2>1 DEF RegistryInv, IssuedInv, TypeOK
    <3>2. QED
      BY <3>1, <1>1, <1>3 DEF Stored
  <2>2. rec'.identity <= rec'.rev /\ rec'.secret <= rec'.rev
    BY DEF Stored, Good, Aged
  <2>3. QED
    BY <2>1, <2>2 DEF IssuedInv, Stored
<1>5. QED
  BY <1>2, <1>4 DEF RegistryInv, Stored

\* No installation is mistaken for none.
LEMMA NoAppIsNoInstallation ==
  ASSUME NEW r \in Installation
  PROVE  r # NoApp
<1>1. r.rev # 0
  BY DEF Installation
<1>2. QED
  BY <1>1 DEF NoApp

\* What each disjunct of Next stores and hands out.
LEMMA NextStores ==
  ASSUME RegistryInv, Next
  PROVE  /\ Stored
         /\ \/ issued' = issued
            \/ issued' = issued \cup {<<rec'.identity, rec'.secret>>}
<1> SUFFICES /\ Good(rec') /\ (Present => rec'.rev = rec.rev + 1)
             /\ \/ issued' = issued
                \/ issued' = issued \cup {<<rec'.identity, rec'.secret>>}
  BY NoAppIsNoInstallation DEF Stored, Present, Good
<1>1. Present => Good(rec) /\ rec \in Installation /\ rec.rev + 1 \in Nat
  BY DEF RegistryInv, Good, Installation
<1>2. CASE \E p \in Packages : Register(p)
  <2>1. PICK p \in Packages : Register(p)
    BY <1>2
  <2>2. QED
    BY <2>1, RegisteredOK DEF Register
<1>3. CASE \E p \in Packages : SetRuntimePackage(p)
  <2>1. PICK p \in Packages : SetRuntimePackage(p)
    BY <1>3
  <2>2. rec'.rev = rec.rev + 1
    BY <2>1, <1>1 DEF SetRuntimePackage, MayWrite, WithPackage, Installation
  <2>3. QED
    BY <2>1, <2>2, <1>1, WithPackageOK DEF SetRuntimePackage, MayWrite
<1>4. CASE \E a \in Actions, t \in Versions \cup {0} : BeginLifecycle(a, t)
  <2>1. PICK a \in Actions, t \in Versions \cup {0} : BeginLifecycle(a, t)
    BY <1>4
  <2>2. rec'.rev = rec.rev + 1
    BY <2>1, <1>1 DEF BeginLifecycle, MayWrite, Begun, Installation
  <2>3. QED
    BY <2>1, <2>2, <1>1, BegunOK DEF BeginLifecycle, MayWrite
<1>5. CASE \E o \in Outcomes : Present /\ SettleLifecycle(rec.op.id, o)
  <2>1. PICK o \in Outcomes : SettleLifecycle(rec.op.id, o)
    BY <1>5
  <2>2. rec'.rev = rec.rev + 1
    BY <2>1, <1>1 DEF SettleLifecycle, MayWrite, Settled, Installation
  <2>3. QED
    BY <2>1, <2>2, <1>1, SettledOK DEF SettleLifecycle, MayWrite
<1>6. CASE \E on \in BOOLEAN : SetEnabled(on)
  <2>1. PICK on \in BOOLEAN : SetEnabled(on)
    BY <1>6
  <2>2. rec'.rev = rec.rev + 1
    BY <2>1, <1>1 DEF SetEnabled, MayWrite, WithEnabled, Installation
  <2>3. QED
    BY <2>1, <2>2, <1>1, WithEnabledOK DEF SetEnabled, MayWrite
<1>7. CASE \E m \in Modes, p \in Perms : ApproveGrant(m, p)
  <2>1. PICK m \in Modes, p \in Perms : ApproveGrant(m, p)
    BY <1>7
  <2>2. rec'.rev = rec.rev + 1
    BY <2>1, <1>1 DEF ApproveGrant, MayWrite, WithGrant, Installation
  <2>3. QED
    BY <2>1, <2>2, <1>1, WithGrantOK DEF ApproveGrant, MayWrite
<1>8. CASE Present /\ \E g \in rec.grants : RevokeGrant(g)
  <2>1. PICK g \in rec.grants : RevokeGrant(g)
    BY <1>8
  <2>2. rec'.rev = rec.rev + 1
    BY <2>1, <1>1 DEF RevokeGrant, MayWrite, WithRevoked, Installation
  <2>3. QED
    BY <2>1, <2>2, <1>1, WithRevokedOK DEF RevokeGrant, MayWrite
<1>9. CASE IssueServiceCredential
  <2>1. rec'.rev = rec.rev + 1
    BY <1>9, <1>1 DEF IssueServiceCredential, MayWrite, WithCredential, Installation
  <2>2. QED
    BY <1>9, <2>1, <1>1, WithCredentialOK DEF IssueServiceCredential, MayWrite
<1>10. CASE RenewServiceCredential
  <2>1. rec'.rev = rec.rev + 1
    BY <1>10, <1>1 DEF RenewServiceCredential, MayWrite, WithRenewed, Installation
  <2>2. QED
    BY <1>10, <2>1, <1>1, WithRenewedOK DEF RenewServiceCredential, MayWrite
<1>11. CASE RevokeServiceCredential
  <2>1. rec'.rev = rec.rev + 1
    BY <1>11, <1>1 DEF RevokeServiceCredential, MayWrite, WithoutCredential, Installation
  <2>2. QED
    BY <1>11, <2>1, <1>1, WithoutCredentialOK DEF RevokeServiceCredential, MayWrite
<1>12. QED
  BY <1>2, <1>3, <1>4, <1>5, <1>6, <1>7, <1>8, <1>9, <1>10, <1>11 DEF Next
-----------------------------------------------------------------------------
\* Typing, the promises about the record and the age of every credential ever
\* handed out hold in every reachable state of the registry.
THEOREM Invariance == Spec => []RegistryInv
<1>1. Init => RegistryInv
  BY DEF Init, RegistryInv, TypeOK, IssuedInv, Present
<1>2. RegistryInv /\ [Next]_vars => RegistryInv'
  <2> SUFFICES ASSUME RegistryInv, [Next]_vars PROVE RegistryInv'
    OBVIOUS
  <2>1. CASE Next
    BY <2>1, NextStores, StoredKeeps
  <2>2. CASE UNCHANGED vars
    BY <2>2 DEF vars, RegistryInv, TypeOK, IssuedInv, Present, NoApp
  <2>3. QED
    BY <2>1, <2>2
<1>3. QED
  BY <1>1, <1>2, PTL DEF Spec

\* The stored record and the credentials are well typed.
THEOREM TypeCorrect == Spec => []TypeOK
<1>1. RegistryInv => TypeOK
  BY DEF RegistryInv
<1>2. QED
  BY <1>1, Invariance, PTL

\* However edits and lifecycle operations interleave, an application that has had
\* a lifecycle operation is enabled only by a completed install or enable.
THEOREM EnablingIsSettled == Spec => []EnabledOnlyBySettlement
<1>1. RegistryInv => EnabledOnlyBySettlement
  BY DEF RegistryInv, Good, WellFormed, EnabledOnlyBySettlement
<1>2. QED
  BY <1>1, Invariance, PTL

\* No grant survives the service identity it was approved for, nor the manifest that
\* declared its permission.
THEOREM GrantsStayBound == Spec => []GrantsAreBound
<1>1. RegistryInv => GrantsAreBound
  BY DEF RegistryInv, Good, WellFormed, GrantsAreBound
<1>2. QED
  BY <1>1, Invariance, PTL

\* Nothing comes after a finished uninstall.
THEOREM UninstallStays == Spec => []UninstallIsFinal
<1>1. RegistryInv => UninstallIsFinal
  BY DEF RegistryInv, Good, WellFormed, UninstallIsFinal, CanBegin, Blocked
<1>2. QED
  BY <1>1, Invariance, PTL
-----------------------------------------------------------------------------
\* A credential once replaced or revoked is never valid again, although renewal,
\* reissue and revocation may follow one another in any order.
THEOREM CredentialsStayDead == Spec => NoCredentialRevival
<1>1. ASSUME RegistryInv, Next, NEW c \in issued, ~Current(c)
      PROVE  ~Current(c)'
  <2>1. Present /\ c[2] <= rec.rev /\ c[2] \in Nat
    BY <1>1 DEF RegistryInv, IssuedInv, TypeOK
  <2>2. rec \in Installation /\ rec.rev \in Nat /\ rec.secret \in Nat /\ rec.identity \in Nat
    BY <1>1, <2>1 DEF RegistryInv, Good, Installation
  <2>3. rec'.secret \in {0, rec.rev + 1} \/ (rec'.secret = rec.secret /\ rec'.identity = rec.identity)
    <3>1. CASE \E p \in Packages : Register(p)
      BY <3>1, <2>1 DEF Register
    <3>2. CASE \E p \in Packages : SetRuntimePackage(p)
      BY <3>2, <2>2 DEF SetRuntimePackage, WithPackage, Installation
    <3>3. CASE \E a \in Actions, t \in Versions \cup {0} : BeginLifecycle(a, t)
      BY <3>3, <2>2 DEF BeginLifecycle, Begun, Installation
    <3>4. CASE \E o \in Outcomes : Present /\ SettleLifecycle(rec.op.id, o)
      BY <3>4, <2>2 DEF SettleLifecycle, Settled, Installation
    <3>5. CASE \E on \in BOOLEAN : SetEnabled(on)
      BY <3>5, <2>2 DEF SetEnabled, WithEnabled, Installation
    <3>6. CASE \E m \in Modes, p \in Perms : ApproveGrant(m, p)
      BY <3>6, <2>2 DEF ApproveGrant, WithGrant, Installation
    <3>7. CASE Present /\ \E g \in rec.grants : RevokeGrant(g)
      BY <3>7, <2>2 DEF RevokeGrant, WithRevoked, Installation
    <3>8. CASE IssueServiceCredential
      BY <3>8, <2>2 DEF IssueServiceCredential, WithCredential, Installation
    <3>9. CASE RenewServiceCredential
      BY <3>9, <2>2 DEF RenewServiceCredential, WithRenewed, Installation
    <3>10. CASE RevokeServiceCredential
      BY <3>10, <2>2 DEF RevokeServiceCredential, WithoutCredential, Installation
    <3>11. QED
      BY <1>1, <3>1, <3>2, <3>3, <3>4, <3>5, <3>6, <3>7, <3>8, <3>9, <3>10 DEF Next
  <2>4. QED
    BY <1>1, <2>1, <2>2, <2>3 DEF Current
<1>2. RegistryInv /\ [Next]_vars => [\A c \in issued : ~Current(c) => ~Current(c)']_vars
  BY <1>1 DEF vars
<1>3. QED
  BY <1>2, Invariance, PTL DEF Spec, NoCredentialRevival
-----------------------------------------------------------------------------
\* Settling stores exactly the record the repository recomputes.
LEMMA SettledIsAccepted ==
  ASSUME NEW r, NEW s \in Outcomes, Good(r), CanSettle(r, r.op.id)
  PROVE  LifecycleAccepts(r, Settled(r, s))
<1> DEFINE n == Settled(r, s)
           done == [r EXCEPT !.rev = r.rev + 1, !.enabled = FALSE, !.op = [r.op EXCEPT !.status = s]]
           gone == [done EXCEPT !.grants = {}, !.identity = 0, !.secret = 0]
<1>1. r \in Installation /\ r.op \in Operation /\ r.op # NoOp /\ r.op.status \notin Closed
  BY DEF Good, Installation, CanSettle
<1>2. n.op.id = r.op.id /\ n.op.status = s
  BY <1>1 DEF Settled, Installation, Operation
<1>3. SUFFICES SettlingAccepted(r, n)
  BY <1>1, <1>2 DEF LifecycleAccepts
<1>4. CASE s # "completed"
  <2>1. n = done
    BY <1>1, <1>4 DEF Settled, Installation
  <2>2. QED
    BY <1>1, <1>2, <1>4, <2>1 DEF SettlingAccepted
<1>5. CASE s = "completed" /\ r.op.action \in VersionChanges
  <2>1. (r.op.action \in {"install", "enable"}) = FALSE
    BY <1>5 DEF VersionChanges
  <2>2. n = [gone EXCEPT !.ver = r.op.target]
    BY <1>1, <1>5, <2>1 DEF Settled, Installation
  <2>3. QED
    BY <1>1, <1>2, <1>5, <2>1, <2>2 DEF SettlingAccepted
<1>6. CASE s = "completed" /\ r.op.action = "uninstall"
  <2>1. (r.op.action \in {"install", "enable"}) = FALSE
    BY <1>6
  <2>2. n = gone
    BY <1>1, <1>6, <2>1 DEF Settled, Installation, VersionChanges
  <2>3. QED
    BY <1>1, <1>2, <1>6, <2>1, <2>2 DEF SettlingAccepted, VersionChanges
<1>7. CASE s = "completed" /\ r.op.action \in {"install", "enable"}
  <2>1. (s = "completed" /\ r.op.action \in {"install", "enable"}) = TRUE
    BY <1>7
  <2>2. n = [done EXCEPT !.enabled = TRUE]
    BY <1>1, <1>7, <2>1 DEF Settled, Installation, VersionChanges
  <2>3. QED
    BY <1>1, <1>2, <1>7, <2>2 DEF SettlingAccepted
<1>8. CASE s = "completed" /\ r.op.action = "disable"
  <2>1. (r.op.action \in {"install", "enable"}) = FALSE
    BY <1>8
  <2>2. n = done
    BY <1>1, <1>8, <2>1 DEF Settled, Installation, VersionChanges
  <2>3. QED
    BY <1>1, <1>2, <1>8, <2>2 DEF SettlingAccepted, VersionChanges
<1>9. QED
  BY <1>1, <1>4, <1>5, <1>6, <1>7, <1>8 DEF Operation, Actions

LEMMA BegunIsAccepted ==
  ASSUME NEW r, NEW a \in Actions, NEW t \in Versions \cup {0}, Good(r), CanBegin(r, a, t)
  PROVE  LifecycleAccepts(r, Begun(r, a, t))
<1> DEFINE n == Begun(r, a, t)
<1>1. r \in Installation /\ r.rev \in Nat /\ r.op \in Operation \cup {NoOp}
  BY DEF Good, Installation
<1>2. r.op.id \in Nat /\ r.op.id <= r.rev
  BY <1>1 DEF Operation, NoOp, Good, Aged
<1>3. n.op = [id |-> r.rev + 1, action |-> a, status |-> "running", target |-> t]
  BY <1>1 DEF Begun, Installation
<1>4. n.op.id # r.op.id
  BY <1>1, <1>2, <1>3
<1>5. n = [r EXCEPT !.rev = r.rev + 1, !.enabled = FALSE, !.op = n.op]
  BY <1>1, <1>3 DEF Begun, Installation
<1>6. a \in VersionChanges => t # 0
  BY RegistryAssumption DEF CanBegin
<1>7. QED
  BY <1>3, <1>4, <1>5, <1>6 DEF LifecycleAccepts, OpeningAccepted, CanBegin

\* The two layers agree: whatever the service computes, the repository accepts.
THEOREM LayersAgree == Spec => RepositoryAgrees
<1> DEFINE OK == Present => SaveAccepts(rec, rec') \/ LifecycleAccepts(rec, rec')
<1>1. ASSUME RegistryInv, Next, Present PROVE SaveAccepts(rec, rec') \/ LifecycleAccepts(rec, rec')
  <2>1. Good(rec) /\ rec \in Installation
    BY <1>1 DEF RegistryInv, Good
  <2>2. CASE \E p \in Packages : Register(p)
    BY <2>2, <1>1 DEF Register
  <2>3. CASE \E p \in Packages : SetRuntimePackage(p)
    BY <2>1, <2>3 DEF SetRuntimePackage, WithPackage, Installation, SaveAccepts
  <2>4. CASE \E a \in Actions, t \in Versions \cup {0} : BeginLifecycle(a, t)
    BY <2>1, <2>4, BegunIsAccepted DEF BeginLifecycle
  <2>5. CASE \E o \in Outcomes : Present /\ SettleLifecycle(rec.op.id, o)
    BY <2>1, <2>5, SettledIsAccepted DEF SettleLifecycle
  <2>6. CASE \E on \in BOOLEAN : SetEnabled(on)
    BY <2>1, <2>6 DEF SetEnabled, WithEnabled, Installation, SaveAccepts, CanChange
  <2>7. CASE \E m \in Modes, p \in Perms : ApproveGrant(m, p)
    BY <2>1, <2>7 DEF ApproveGrant, WithGrant, Installation, SaveAccepts
  <2>8. CASE Present /\ \E g \in rec.grants : RevokeGrant(g)
    BY <2>1, <2>8 DEF RevokeGrant, WithRevoked, Installation, SaveAccepts
  <2>9. CASE IssueServiceCredential
    BY <2>1, <2>9 DEF IssueServiceCredential, WithCredential, Installation, SaveAccepts
  <2>10. CASE RenewServiceCredential
    BY <2>1, <2>10 DEF RenewServiceCredential, WithRenewed, Installation, SaveAccepts
  <2>11. CASE RevokeServiceCredential
    BY <2>1, <2>11 DEF RevokeServiceCredential, WithoutCredential, Installation, SaveAccepts
  <2>12. QED
    BY <1>1, <2>2, <2>3, <2>4, <2>5, <2>6, <2>7, <2>8, <2>9, <2>10, <2>11 DEF Next
<1>2. RegistryInv /\ [Next]_vars => [OK]_rec
  BY <1>1 DEF vars
<1>3. QED
  BY <1>2, Invariance, PTL DEF Spec, RepositoryAgrees
-----------------------------------------------------------------------------
(*****************************************************************************)
(* Attachments.  How far an upload has come tells whether its bytes and its  *)
(* row exist; what a command decided on a row stays permitted as long as the *)
(* row is the one it read.                                                   *)
(*****************************************************************************)
BegunUpload == [pc : {"storing", "stored", "allowed", "registering", "ended"}, record : Records, intent : Intents,
          attempted : BOOLEAN, late : BOOLEAN, kept : BOOLEAN]
Write == [op : {"write"}, at : Uploads, before : Row, after : Row]

\* How far an upload has come tells what there is of it: `has` a row, `in` storage.
UploadOK(x, has, in, gone) ==
  /\ has => x.pc = "ended" /\ x.attempted /\ ~x.late /\ in
  /\ x.pc \in {"idle", "storing"} => ~in
  /\ x.pc \in {"stored", "allowed", "registering"} => in
  /\ x.pc \in {"allowed", "registering"} => ~x.late
  /\ x.pc \in {"storing", "stored"} => ~x.attempted /\ (x.late => x.record \in gone)
  /\ x.pc = "allowed" => ~x.attempted
  /\ x.pc = "registering" => x.attempted
  /\ x.pc = "ended" /\ ~x.attempted /\ ~x.kept => ~in

UploadsOK == \A u \in Uploads : UploadOK(upload[u], HasRow(u), u \in object, revoked)

\* What was decided on a row that is as it was read may still be done.
Decided(m, t) ==
  m # NoCommand => /\ m.before.lifecycle = "active"
                   /\ m.after.lifecycle = "removed" =>
                        ~m.before.hold /\ m.before.retain # Forever /\ m.before.retain <= t

CommandsOK == \A c \in Editors : Decided(command[c], now)

AttachmentInv == AttachmentTypeOK /\ UploadsOK /\ CommandsOK

\* A row is one, or none.
LEMMA RowShapes ==
  /\ NoRow \notin Row /\ NewRow \in Row /\ NewRow.lifecycle = "active" /\ NewRow # NoRow
  /\ \A x \in Row \cup {NoRow} : x.lifecycle \in {"active", "removed"} => x \in Row
<1>1. NoRow.lifecycle = "none" /\ \A x \in Row : x.lifecycle \in {"active", "removed"}
  BY DEF NoRow, Row
<1>2. NewRow \in Row /\ NewRow.lifecycle = "active"
  BY DEF NewRow, Row
<1> QED
  BY <1>1, <1>2

\* An upload is idle, or the record of one.
LEMMA UploadShapes ==
  ASSUME NEW x \in {NoUpload} \cup BegunUpload
  PROVE  /\ x.pc = "idle" <=> x = NoUpload
         /\ x # NoUpload => x \in BegunUpload
         /\ x.pc # "idle" => x \in BegunUpload
         /\ NoUpload.pc = "idle"
BY DEF NoUpload, BegunUpload

\* A command is none, or a write with the row it read.
LEMMA CommandShapes ==
  ASSUME NEW x \in {NoCommand} \cup Write, x # NoCommand
  PROVE  x \in Write
OBVIOUS

\* Nothing has been uploaded.
LEMMA AttachmentStarts == AttachmentInit => AttachmentInv
<1> SUFFICES ASSUME AttachmentInit PROVE AttachmentInv
  OBVIOUS
<1>1. AttachmentTypeOK
  BY AttachmentAssumption DEF AttachmentInit, AttachmentTypeOK
<1>2. UploadsOK
  BY DEF AttachmentInit, UploadsOK, UploadOK, HasRow, NoUpload
<1>3. CommandsOK
  BY DEF AttachmentInit, CommandsOK, Decided
<1> QED
  BY <1>1, <1>2, <1>3 DEF AttachmentInv

\* A step of one upload, which may add a row.
LEMMA UploadKeeps ==
  ASSUME AttachmentInv, NEW u \in Uploads, NEW x \in BegunUpload,
         upload' = [upload EXCEPT ![u] = x], object' \subseteq Uploads,
         \A v \in Uploads \ {u} : v \in object' <=> v \in object,
         row' = row \/ row' = [row EXCEPT ![u] = NewRow],
         UploadOK(x, row'[u] # NoRow, u \in object', revoked),
         UNCHANGED <<command, revoked, now, changes>>
  PROVE  AttachmentInv'
<1>1. /\ upload \in [Uploads -> {NoUpload} \cup BegunUpload] /\ row \in [Uploads -> Row \cup {NoRow}]
      /\ NewRow \in Row
  BY RowShapes DEF AttachmentInv, AttachmentTypeOK, BegunUpload
<1>2. upload' \in [Uploads -> {NoUpload} \cup BegunUpload] /\ row' \in [Uploads -> Row \cup {NoRow}]
  BY <1>1
<1>3. AttachmentTypeOK'
  BY <1>2 DEF AttachmentInv, AttachmentTypeOK, BegunUpload
<1>4. ASSUME NEW v \in Uploads PROVE UploadOK(upload'[v], row'[v] # NoRow, v \in object', revoked)
  <2>1. CASE v = u
    BY <1>1, <2>1
  <2>2. CASE v # u
    <3>1. upload'[v] = upload[v] /\ row'[v] = row[v] /\ (v \in object' <=> v \in object)
      BY <1>1, <2>2
    <3>2. UploadOK(upload[v], row[v] # NoRow, v \in object, revoked)
      BY DEF AttachmentInv, UploadsOK, HasRow
    <3> QED
      BY <3>1, <3>2 DEF UploadOK
  <2> QED
    BY <2>1, <2>2
<1>5. UploadsOK'
  BY <1>4 DEF UploadsOK, HasRow
<1>6. CommandsOK'
  BY DEF AttachmentInv, CommandsOK
<1> QED
  BY <1>3, <1>5, <1>6 DEF AttachmentInv

\* The same upload at another point, refused or not.
LEMMA Further ==
  ASSUME NEW x \in BegunUpload, NEW pc \in {"storing", "stored", "allowed", "registering", "ended"}
  PROVE  /\ [x EXCEPT !.pc = pc] \in BegunUpload
         /\ [x EXCEPT !.pc = "ended", !.kept = TRUE] \in BegunUpload
         /\ [x EXCEPT !.pc = "registering", !.attempted = TRUE] \in BegunUpload
BY DEF BegunUpload

\* Uploads in parallel, retries, revocations and commands keep rows and objects together.
LEMMA AttachmentStays ==
  ASSUME AttachmentInv, [AttachmentNext]_attachmentVars
  PROVE  AttachmentInv'
<1>0. /\ upload \in [Uploads -> {NoUpload} \cup BegunUpload] /\ row \in [Uploads -> Row \cup {NoRow}]
      /\ object \subseteq Uploads /\ revoked \subseteq Records
      /\ command \in [Editors -> {NoCommand} \cup Write] /\ now \in 0..MaxTime /\ changes \in 0..MaxChanges
      /\ MaxTime \in Nat /\ MaxChanges \in Nat /\ Forever \notin Nat
  BY AttachmentAssumption DEF AttachmentInv, AttachmentTypeOK, BegunUpload, Write
<1>1. ASSUME NEW u \in Uploads, NEW r \in Records, NEW i \in Intents, StartUpload(u, r, i) PROVE AttachmentInv'
  <2> DEFINE x == [pc |-> "storing", record |-> r, intent |-> i, attempted |-> FALSE, late |-> FALSE, kept |-> FALSE]
  <2>1. x \in BegunUpload /\ upload[u] = NoUpload /\ upload' = [upload EXCEPT ![u] = x]
        /\ UNCHANGED <<object, row, command, revoked, now, changes>>
    BY <1>1 DEF BegunUpload, StartUpload
  <2>2. UploadOK(upload[u], HasRow(u), u \in object, revoked) /\ upload[u].pc = "idle"
    BY <2>1, UploadShapes DEF AttachmentInv, UploadsOK
  <2>3. UploadOK(x, row'[u] # NoRow, u \in object', revoked)
    BY <2>1, <2>2 DEF UploadOK, HasRow
  <2> QED
    BY <1>0, <2>1, <2>3, UploadKeeps
<1>2. ASSUME NEW u \in Uploads, StoreBytes(u) \/ StoreFails(u) \/ AuthorizeAfter(u) \/ RegisterUpload(u) \/ Commit(u)
      PROVE  AttachmentInv'
  <2> DEFINE x == upload[u]
  <2>0. upload[u].pc # "idle"
    BY <1>2 DEF StoreBytes, StoreFails, AuthorizeAfter, RegisterUpload, Commit
  <2>1. x \in BegunUpload /\ UploadOK(x, HasRow(u), u \in object, revoked)
    BY <1>0, <2>0, UploadShapes DEF AttachmentInv, UploadsOK
  <2> DEFINE Point(pc) == [x EXCEPT !.pc = pc]
             Kept == [x EXCEPT !.pc = "ended", !.kept = TRUE]
             Tried == [x EXCEPT !.pc = "registering", !.attempted = TRUE]
  <2>2. Kept \in BegunUpload /\ Tried \in BegunUpload
        /\ \A pc \in {"storing", "stored", "allowed", "registering", "ended"} : Point(pc) \in BegunUpload
    BY <2>1, Further
  <2>3. /\ Kept.pc = "ended" /\ Kept.kept /\ Kept.attempted = x.attempted /\ Kept.late = x.late
        /\ Kept.record = x.record
    BY <2>1 DEF BegunUpload
  <2>4. /\ Tried.pc = "registering" /\ Tried.kept = x.kept /\ Tried.attempted /\ Tried.late = x.late
        /\ Tried.record = x.record
    BY <2>1 DEF BegunUpload
  <2>5. \A pc \in {"storing", "stored", "allowed", "registering", "ended"} :
          /\ Point(pc).pc = pc /\ Point(pc).kept = x.kept /\ Point(pc).attempted = x.attempted /\ Point(pc).late = x.late
          /\ Point(pc).record = x.record
    BY <2>1 DEF BegunUpload
  <2>6. \A pc : upload' = [upload EXCEPT ![u].pc = pc] => upload' = [upload EXCEPT ![u] = Point(pc)]
    BY <1>0
  <2>7. UNCHANGED <<command, revoked, now, changes>>
    BY <1>2 DEF StoreBytes, StoreFails, AuthorizeAfter, RegisterUpload, Commit
  <2> HIDE DEF x, Point, Kept, Tried
  <2>8. CASE StoreBytes(u)
    <3>1. upload' = [upload EXCEPT ![u] = Point("stored")] /\ object' = object \cup {u} /\ row' = row
          /\ x.pc = "storing"
      BY <2>6, <2>8 DEF StoreBytes, UploadGoes, x
    <3>2. UploadOK(Point("stored"), row'[u] # NoRow, u \in object', revoked)
      BY <2>1, <2>5, <3>1 DEF UploadOK, HasRow
    <3> QED
      BY <1>0, <2>2, <2>7, <3>1, <3>2, UploadKeeps
  <2>9. CASE StoreFails(u)
    <3>1. upload' = [upload EXCEPT ![u] = Point("ended")] /\ object' = object /\ row' = row /\ x.pc = "storing"
      BY <2>6, <2>9 DEF StoreFails, UploadGoes, x
    <3>2. UploadOK(Point("ended"), row'[u] # NoRow, u \in object', revoked)
      BY <2>1, <2>5, <3>1 DEF UploadOK, HasRow
    <3> QED
      BY <1>0, <2>2, <2>7, <3>1, <3>2, UploadKeeps
  <2>10. CASE Refuse(u) /\ x.pc \in {"stored", "allowed"} /\ row' = row
    <3>1. CASE object' = object \ {u} /\ UploadGoes(u, "ended")
      <4>1. upload' = [upload EXCEPT ![u] = Point("ended")]
        BY <2>6, <3>1 DEF UploadGoes
      <4>2. UploadOK(Point("ended"), row'[u] # NoRow, u \in object', revoked)
        BY <2>1, <2>5, <2>10, <3>1 DEF UploadOK, HasRow
      <4> QED
        BY <1>0, <2>2, <2>7, <2>10, <3>1, <4>1, <4>2, UploadKeeps
    <3>2. CASE upload' = [upload EXCEPT ![u].pc = "ended", ![u].kept = TRUE] /\ UNCHANGED object
      <4>1. upload' = [upload EXCEPT ![u] = Kept]
        BY <1>0, <3>2 DEF Kept, x
      <4>2. UploadOK(Kept, row'[u] # NoRow, u \in object', revoked)
        BY <2>1, <2>3, <2>10, <3>2 DEF UploadOK, HasRow
      <4> QED
        BY <1>0, <2>2, <2>7, <2>10, <3>2, <4>1, <4>2, UploadKeeps
    <3> QED
      BY <2>10, <3>1, <3>2 DEF Refuse
  <2>11. CASE AuthorizeAfter(u)
    <3>1. x.pc = "stored" /\ row' = row
      BY <2>11 DEF AuthorizeAfter, x
    <3>2. CASE upload[u].record \notin revoked /\ UploadGoes(u, "allowed") /\ UNCHANGED object
      <4>1. upload' = [upload EXCEPT ![u] = Point("allowed")] /\ x.record \notin revoked
        BY <2>6, <3>2 DEF UploadGoes, x
      <4>2. UploadOK(Point("allowed"), row'[u] # NoRow, u \in object', revoked)
        BY <2>1, <2>5, <3>1, <3>2, <4>1 DEF UploadOK, HasRow
      <4> QED
        BY <1>0, <2>2, <2>7, <3>1, <3>2, <4>1, <4>2, UploadKeeps
    <3> QED
      BY <2>10, <2>11, <3>1, <3>2 DEF AuthorizeAfter
  <2>12. CASE RegisterUpload(u)
    <3>1. x.pc = "allowed" /\ row' = row
      BY <2>12 DEF RegisterUpload, x
    <3>2. CASE upload' = [upload EXCEPT ![u].pc = "registering", ![u].attempted = TRUE] /\ UNCHANGED object
      <4>1. upload' = [upload EXCEPT ![u] = Tried]
        BY <1>0, <3>2 DEF Tried, x
      <4>2. UploadOK(Tried, row'[u] # NoRow, u \in object', revoked)
        BY <2>1, <2>4, <3>1, <3>2 DEF UploadOK, HasRow
      <4> QED
        BY <1>0, <2>2, <2>7, <3>1, <3>2, <4>1, <4>2, UploadKeeps
    <3> QED
      BY <2>10, <2>12, <3>1, <3>2 DEF RegisterUpload
  <2>13. CASE Commit(u)
    <3>1. x.pc = "registering" /\ upload' = [upload EXCEPT ![u] = Point("ended")] /\ object' = object
          /\ (row' = row \/ row' = [row EXCEPT ![u] = NewRow])
      BY <2>6, <2>13 DEF Commit, Insert, UploadGoes, x
    <3>2. UploadOK(Point("ended"), row'[u] # NoRow, u \in object', revoked)
      BY <2>1, <2>5, <3>1 DEF UploadOK, HasRow
    <3> QED
      BY <1>0, <2>2, <2>7, <3>1, <3>2, UploadKeeps
  <2> QED
    BY <1>2, <2>8, <2>9, <2>11, <2>12, <2>13
<1>3. ASSUME NEW c \in Editors, NEW u \in Uploads,
             ChangeVisibility(c, u) \/ ChangeRetention(c, u) \/ RemoveAttachment(c, u)
      PROVE  AttachmentInv'
  <2>1. PICK after : /\ ReadAndDecide(c, u, after) /\ after \in Row
                     /\ after.lifecycle = "removed" => Removable(row[u])
    <3>1. row[u].lifecycle = "active"
      BY <1>3 DEF ChangeVisibility, ChangeRetention, RemoveAttachment, ReadAndDecide
    <3>2. row[u] \in Row
      BY <1>0, <3>1, RowShapes
    <3>3. CASE ChangeVisibility(c, u)
      <4> DEFINE after == [row[u] EXCEPT !.visible = ~@]
      <4>1. after \in Row /\ after.lifecycle = row[u].lifecycle
        BY <3>2 DEF Row
      <4> QED
        BY <3>1, <3>3, <4>1 DEF ChangeVisibility
    <3>4. CASE ChangeRetention(c, u)
      <4>1. PICK after \in Retained(row[u]) : ReadAndDecide(c, u, after)
        BY <3>4 DEF ChangeRetention
      <4>2. after \in Row /\ after.lifecycle = row[u].lifecycle
        BY <4>1 DEF Retained
      <4> QED
        BY <3>1, <4>1, <4>2
    <3>5. CASE RemoveAttachment(c, u)
      <4> DEFINE after == [row[u] EXCEPT !.lifecycle = "removed"]
      <4>1. after \in Row
        BY <3>2 DEF Row
      <4> QED
        BY <3>5, <4>1 DEF RemoveAttachment
    <3> QED
      BY <1>3, <3>3, <3>4, <3>5
  <2> DEFINE what == [op |-> "write", at |-> u, before |-> row[u], after |-> after]
  <2>2. /\ command' = [command EXCEPT ![c] = what] /\ row[u].lifecycle = "active"
        /\ UNCHANGED <<upload, object, row, revoked, now, changes>>
    BY <2>1 DEF ReadAndDecide
  <2>3. row[u] \in Row
    BY <1>0, <2>2, RowShapes
  <2>4. what \in Write /\ Decided(what, now)
    BY <2>1, <2>2, <2>3 DEF Write, Decided, Removable
  <2> HIDE DEF what
  <2>5. command' \in [Editors -> {NoCommand} \cup Write] /\ \A d \in Editors \ {c} : command'[d] = command[d]
        /\ command'[c] = what
    BY <1>0, <2>2, <2>4
  <2>6. AttachmentTypeOK'
    BY <1>0, <2>2, <2>5 DEF AttachmentInv, AttachmentTypeOK, Write
  <2>7. UploadsOK'
    BY <2>2 DEF AttachmentInv, UploadsOK, HasRow
  <2>8. CommandsOK'
    BY <2>2, <2>4, <2>5 DEF AttachmentInv, CommandsOK
  <2> QED
    BY <2>6, <2>7, <2>8 DEF AttachmentInv
<1>4. ASSUME NEW r \in Records, Revoke(r) PROVE AttachmentInv'
  <2>1. UNCHANGED <<object, row, command, now, changes>> /\ revoked' = revoked \cup {r}
    BY <1>4 DEF Revoke
  <2>2. ASSUME NEW u \in Uploads
        PROVE  /\ upload'[u] \in {NoUpload} \cup BegunUpload
               /\ UploadOK(upload'[u], HasRow(u), u \in object, revoked')
    <3> DEFINE x == upload[u]
    <3>0. x \in {NoUpload} \cup BegunUpload /\ UploadOK(x, HasRow(u), u \in object, revoked)
      BY <1>0 DEF AttachmentInv, UploadsOK
    <3>1. CASE x.pc \in {"storing", "stored"} /\ x.record = r
      <4>1. x \in BegunUpload /\ upload'[u] = [x EXCEPT !.late = TRUE]
        BY <1>4, <3>0, <3>1, UploadShapes DEF Revoke
      <4>2. /\ upload'[u] \in BegunUpload /\ upload'[u].pc = x.pc /\ upload'[u].record = r
            /\ upload'[u].attempted = x.attempted
        BY <3>1, <4>1 DEF BegunUpload
      <4> QED
        BY <2>1, <3>0, <3>1, <4>2 DEF UploadOK
    <3>2. CASE ~(x.pc \in {"storing", "stored"} /\ x.record = r)
      <4>1. upload'[u] = x
        BY <1>4, <3>2 DEF Revoke
      <4> QED
        BY <2>1, <3>0, <4>1 DEF UploadOK
    <3> QED
      BY <3>1, <3>2
  <2>3. upload' \in [Uploads -> {NoUpload} \cup BegunUpload]
    BY <1>4, <2>2 DEF Revoke
  <2>4. AttachmentTypeOK'
    BY <1>0, <2>1, <2>3 DEF AttachmentInv, AttachmentTypeOK, BegunUpload
  <2>5. UploadsOK' /\ CommandsOK'
    BY <2>1, <2>2 DEF AttachmentInv, UploadsOK, CommandsOK, HasRow
  <2> QED
    BY <2>4, <2>5 DEF AttachmentInv
<1>5. ASSUME NEW c \in Editors, Update(c) PROVE AttachmentInv'
  <2>1. /\ command[c] # NoCommand /\ command' = [command EXCEPT ![c] = NoCommand]
        /\ UNCHANGED <<upload, object, revoked, now>>
    BY <1>5 DEF Update
  <2>2. command[c] \in Write /\ Decided(command[c], now)
    BY <1>0, <2>1, CommandShapes DEF AttachmentInv, CommandsOK
  <2>3. /\ command[c].at \in Uploads /\ command[c].before \in Row /\ command[c].after \in Row
    BY <2>2 DEF Write
  <2>4. /\ row' \in [Uploads -> Row \cup {NoRow}] /\ changes' \in 0..MaxChanges
        /\ \A u \in Uploads : row'[u] # NoRow <=> row[u] # NoRow
    <3>1. CASE UNCHANGED <<row, changes>>
      BY <1>0, <3>1 DEF HasRow
    <3>2. CASE /\ row[command[c].at] = command[c].before /\ changes < MaxChanges /\ changes' = changes + 1
               /\ row' = [row EXCEPT ![command[c].at] = command[c].after]
      BY <1>0, <2>3, <3>2, RowShapes DEF HasRow
    <3> QED
      BY <1>5, <3>1, <3>2 DEF Update
  <2>5. AttachmentTypeOK'
    BY <1>0, <2>1, <2>4 DEF AttachmentInv, AttachmentTypeOK, Write
  <2>6. UploadsOK'
    BY <2>1, <2>4 DEF AttachmentInv, UploadsOK, UploadOK, HasRow
  <2>7. CommandsOK'
    BY <1>0, <2>1 DEF AttachmentInv, CommandsOK, Decided
  <2> QED
    BY <2>5, <2>6, <2>7 DEF AttachmentInv
<1>6. CASE ClockTicks
  <2>1. /\ UNCHANGED <<upload, object, row, command, revoked, changes>> /\ now' \in 0..MaxTime /\ now' = now + 1
    BY <1>0, <1>6 DEF ClockTicks
  <2>2. ASSUME NEW c \in Editors PROVE Decided(command[c], now')
    <3>1. CASE command[c] = NoCommand
      BY <3>1 DEF Decided
    <3>2. CASE command[c] # NoCommand
      <4>1. command[c].before \in Row /\ Decided(command[c], now)
        BY <1>0, <3>2, CommandShapes DEF Write, AttachmentInv, CommandsOK
      <4>2. command[c].before.retain # Forever => command[c].before.retain \in Nat
        BY <1>0, <4>1 DEF Row
      <4> QED
        BY <1>0, <2>1, <4>1, <4>2 DEF Decided
    <3> QED
      BY <3>1, <3>2
  <2>3. AttachmentTypeOK' /\ UploadsOK' /\ CommandsOK'
    BY <1>0, <2>1, <2>2 DEF AttachmentInv, AttachmentTypeOK, UploadsOK, CommandsOK, HasRow
  <2> QED
    BY <2>3 DEF AttachmentInv
<1>7. CASE UNCHANGED attachmentVars
  BY <1>7 DEF attachmentVars, AttachmentInv, AttachmentTypeOK, UploadsOK, CommandsOK, HasRow
<1> QED
  BY <1>1, <1>2, <1>3, <1>4, <1>5, <1>6, <1>7 DEF AttachmentNext

\* A row that is there is written by the transaction of a command only.
LEMMA OnlyRemovable ==
  ASSUME AttachmentInv, [AttachmentNext]_attachmentVars, NEW u \in Uploads, HasRow(u), row'[u] # row[u]
  PROVE  /\ row[u].lifecycle = "active"
         /\ row'[u].lifecycle = "removed" => Removable(row[u])
<1>0. /\ row \in [Uploads -> Row \cup {NoRow}] /\ command \in [Editors -> {NoCommand} \cup Write]
  BY DEF AttachmentInv, AttachmentTypeOK, Write
<1>1. ASSUME NEW v \in Uploads, Commit(v) PROVE row'[u] = row[u]
  <2>1. row' = row \/ row' = [row EXCEPT ![v] = NewRow]
    BY <1>1 DEF Commit, Insert
  <2>2. v # u
    BY <1>1 DEF AttachmentInv, UploadsOK, UploadOK, Commit
  <2> QED
    BY <1>0, <2>1, <2>2
<1>2. PICK c \in Editors : Update(c)
  BY <1>1 DEF AttachmentNext, attachmentVars, StartUpload, StoreBytes, StoreFails, AuthorizeAfter, RegisterUpload,
     ChangeVisibility, ChangeRetention, RemoveAttachment, ReadAndDecide, Revoke, ClockTicks
<1>3. /\ command[c] # NoCommand /\ row[command[c].at] = command[c].before
      /\ row' = [row EXCEPT ![command[c].at] = command[c].after]
  BY <1>2 DEF Update
<1>4. command[c] \in Write /\ Decided(command[c], now)
  BY <1>0, <1>2, <1>3, CommandShapes DEF AttachmentInv, CommandsOK
<1>5. command[c].at = u
  BY <1>0, <1>3
<1>6. row'[u] = command[c].after
  BY <1>0, <1>3, <1>5
<1> QED
  BY <1>3, <1>4, <1>5, <1>6 DEF Decided, Removable

\* For any uploads, records, intents and editors: an attachment always has its bytes, is no
\* longer added to a record once access to it was gone, and is removed only while nothing
\* retains it, whatever interleaves with the upload or the command (employee/attachment-
\* service.ts:95-108, platform/attachments/index.ts:137-157, repository.ts:240-247).
THEOREM AttachmentsAreKept == AttachmentSpec => AttachmentsKept
<1> DEFINE Fixed == \A u \in Uploads : HasRow(u) /\ row'[u] # row[u] =>
                      /\ row[u].lifecycle = "active"
                      /\ row'[u].lifecycle = "removed" => Removable(row[u])
<1>1. AttachmentInv => AttachmentTypeOK /\ RowsHaveBytes /\ RefusedLeavesNothing /\ NothingLate
  BY DEF AttachmentInv, UploadsOK, UploadOK, RowsHaveBytes, RefusedLeavesNothing, NothingLate
<1>2. AttachmentInv /\ [AttachmentNext]_attachmentVars => AttachmentInv'
  BY AttachmentStays
<1>3. AttachmentInv /\ [AttachmentNext]_attachmentVars => Fixed
  BY OnlyRemovable
<1> HIDE DEF Fixed
<1>4. AttachmentSpec => [](AttachmentTypeOK /\ RowsHaveBytes /\ RefusedLeavesNothing /\ NothingLate) /\ [][Fixed]_attachmentVars
  BY <1>1, <1>2, <1>3, AttachmentStarts, PTL DEF AttachmentSpec
<1> QED
  BY <1>4 DEF Fixed, AttachmentsKept, RetentionIsKept
-----------------------------------------------------------------------------
(*****************************************************************************)
(* Outbox events.  The batches of dispatchers are apart but for events whose *)
(* lease ran out while they were being handled (overtaken).                  *)
(*****************************************************************************)
Dispatcher == [pc : {"idle", "publishing", "delivered", "failed"}, batch : Seq(Events), handler : 0..Handlers]

\* The events a dispatcher has, and how far it has come with the first of them.
Held(x) == ToSet(x.batch)
DispatcherOK(x, done) ==
  /\ x.pc = "idle" <=> x.batch = <<>>
  /\ IsInjective(x.batch)
  /\ x.pc = "publishing" => x.handler < Handlers /\ \A h \in 1..x.handler : <<Head(x.batch), h>> \in done
  /\ x.pc = "delivered" => {Head(x.batch)} \X (1..Handlers) \subseteq done

DispatchersOK == \A w \in Workers : DispatcherOK(worker[w], handled)

\* While its lease runs an event is processed by the one worker that has it.
LeaseOK(e, stored, workers) ==
  /\ \A v, w \in Workers : e \in Held(workers[v]) /\ e \in Held(workers[w]) => v = w
  /\ \A w \in Workers : e \in Held(workers[w]) => stored.status = "processing" /\ ~stored.expired

LeasesHold == \A e \in Events \ overtaken : LeaseOK(e, event[e], worker)

OutboxInv == OutboxTypeOK /\ DispatchersOK /\ LeasesHold /\ DeliveredWasHandled

\* A dispatcher without a batch has no event.
LEMMA BatchEmpty == ToSet(<<>>) = {} /\ IsInjective(<<>>) /\ <<>> \in Seq(Events)
BY DEF ToSet, IsInjective

\* What is left of a batch when its first event is done.
LEMMA BatchRest ==
  ASSUME NEW b \in Seq(Events), b # <<>>, IsInjective(b)
  PROVE  /\ Head(b) \in Events /\ Head(b) \in ToSet(b)
         /\ Len(b) = 1 => ToSet(b) = {Head(b)}
         /\ Len(b) # 1 => /\ Tail(b) \in Seq(Events) /\ Tail(b) # <<>> /\ IsInjective(Tail(b))
                          /\ ToSet(Tail(b)) = ToSet(b) \ {Head(b)}
<1>1. /\ Len(b) \in Nat \ {0} /\ DOMAIN b = 1..Len(b) /\ Head(b) = b[1]
  BY EmptySeq, LenProperties
<1>2. \A k \in 1..Len(b) : b[k] \in Events
  BY ElementOfSeq
<1>3. ToSet(b) = {b[k] : k \in 1..Len(b)} /\ \A j, k \in 1..Len(b) : b[j] = b[k] => j = k
  BY <1>1 DEF ToSet, IsInjective
<1>4. Len(b) = 1 => ToSet(b) = {Head(b)}
  BY <1>1, <1>3
<1>5. ASSUME Len(b) # 1
      PROVE  /\ Tail(b) \in Seq(Events) /\ Tail(b) # <<>> /\ IsInjective(Tail(b))
             /\ ToSet(Tail(b)) = ToSet(b) \ {Head(b)}
  <2>1. /\ Tail(b) \in Seq(Events) /\ Len(Tail(b)) = Len(b) - 1 /\ DOMAIN Tail(b) = 1..(Len(b) - 1)
        /\ \A k \in 1..(Len(b) - 1) : Tail(b)[k] = b[k + 1]
    BY <1>1, HeadTailProperties, LenProperties
  <2>2. Tail(b) # <<>>
    <3>1. Len(Tail(b)) # 0
      BY <1>1, <1>5, <2>1
    <3>2. Len(<<>>) = 0
      OBVIOUS
    <3> QED
      BY <3>1, <3>2
  <2>3. IsInjective(Tail(b))
    BY <1>1, <1>3, <2>1 DEF IsInjective
  <2>4. ToSet(Tail(b)) = {b[k + 1] : k \in 1..(Len(b) - 1)}
    BY <2>1 DEF ToSet
  <2>5. ToSet(Tail(b)) = ToSet(b) \ {Head(b)}
    <3>1. ASSUME NEW e \in ToSet(Tail(b)) PROVE e \in ToSet(b) \ {Head(b)}
      <4>1. PICK k \in 1..(Len(b) - 1) : e = b[k + 1]
        BY <2>4, <3>1
      <4>2. k + 1 \in 1..Len(b) /\ k + 1 # 1 /\ 1 \in 1..Len(b)
        BY <1>1
      <4> QED
        BY <1>1, <1>3, <4>1, <4>2
    <3>2. ASSUME NEW e \in ToSet(b) \ {Head(b)} PROVE e \in ToSet(Tail(b))
      <4>1. PICK k \in 1..Len(b) : e = b[k]
        BY <1>3, <3>2
      <4>2. k - 1 \in 1..(Len(b) - 1) /\ e = b[(k - 1) + 1]
        BY <1>1, <3>2, <4>1
      <4> QED
        BY <2>4, <4>2
    <3> QED
      BY <3>1, <3>2
  <2> QED
    BY <2>1, <2>2, <2>3, <2>5
<1> QED
  BY <1>1, <1>2, <1>3, <1>4, <1>5

\* Nothing has been published.
LEMMA OutboxStarts == OutboxInit => OutboxInv
<1> SUFFICES ASSUME OutboxInit PROVE OutboxInv
  OBVIOUS
<1>1. NoBatch \in Dispatcher /\ NoBatch.pc = "idle" /\ NoBatch.batch = <<>> /\ Held(NoBatch) = {}
  BY BatchEmpty, OutboxAssumption DEF NoBatch, Dispatcher, Held
<1>2. OutboxTypeOK
  BY <1>1, OutboxAssumption DEF OutboxInit, OutboxTypeOK, EventRow, Dispatcher
<1>3. DispatchersOK
  BY <1>1, BatchEmpty DEF OutboxInit, DispatchersOK, DispatcherOK
<1>4. LeasesHold /\ DeliveredWasHandled
  BY <1>1 DEF OutboxInit, LeasesHold, LeaseOK, DeliveredWasHandled
<1> QED
  BY <1>2, <1>3, <1>4 DEF OutboxInv

\* One dispatcher moves, to events that it had or may have, and the rows keep up with it.
LEMMA DispatcherKeeps ==
  ASSUME OutboxInv, NEW w \in Workers, NEW x \in Dispatcher, worker' = [worker EXCEPT ![w] = x],
         DispatcherOK(x, handled'), handled \subseteq handled', handled' \subseteq Events \X (1..Handlers),
         event' \in [Events -> EventRow], losses' \in 0..MaxLosses, overtaken' = overtaken,
         \A e \in Events \ overtaken :
           /\ e \in Held(x) => /\ event'[e].status = "processing" /\ ~event'[e].expired
                               /\ \A v \in Workers \ {w} : e \notin Held(worker[v])
           /\ event'[e] # event[e] => \A v \in Workers \ {w} : e \notin Held(worker[v]),
         \A e \in Events : event'[e].status = "delivered" =>
           event[e].status = "delivered" \/ {e} \X (1..Handlers) \subseteq handled'
  PROVE  OutboxInv'
<1>1. worker \in [Workers -> Dispatcher] /\ overtaken \subseteq Events
  BY DEF OutboxInv, OutboxTypeOK, Dispatcher
<1>2. worker' \in [Workers -> Dispatcher] /\ worker'[w] = x /\ \A v \in Workers \ {w} : worker'[v] = worker[v]
  BY <1>1
<1>3. \A v \in Workers : DispatcherOK(worker'[v], handled')
  <2>1. ASSUME NEW v \in Workers \ {w} PROVE DispatcherOK(worker[v], handled')
    BY DEF OutboxInv, DispatchersOK, DispatcherOK
  <2> QED
    BY <1>2, <2>1
<1>4. OutboxTypeOK'
  BY <1>1, <1>2, <1>3 DEF OutboxTypeOK, Dispatcher, DispatcherOK
<1>5. ASSUME NEW e \in Events \ overtaken PROVE LeaseOK(e, event'[e], worker')
  <2>1. LeaseOK(e, event[e], worker)
    BY DEF OutboxInv, LeasesHold
  <2> QED
    BY <1>2, <2>1 DEF LeaseOK
<1>6. LeasesHold'
  BY <1>5 DEF LeasesHold
<1>7. DeliveredWasHandled'
  BY DEF OutboxInv, DeliveredWasHandled
<1> QED
  BY <1>3, <1>4, <1>6, <1>7 DEF OutboxInv, DispatchersOK

\* The dispatcher turns to its next event; what becomes of the row of the first is up to it.
LEMMA NextEvent ==
  ASSUME OutboxInv, NEW w \in Workers, NEW stored \in EventRow, worker[w].pc \in {"delivered", "failed"},
         worker' = [worker EXCEPT ![w] = Remaining(w)],
         event' = [event EXCEPT ![Record(w)] = stored],
         stored.status = "delivered" => worker[w].pc = "delivered",
         UNCHANGED <<handled, overtaken, losses>>
  PROVE  OutboxInv'
<1>1. /\ worker[w] \in Dispatcher /\ DispatcherOK(worker[w], handled) /\ losses \in 0..MaxLosses
      /\ event \in [Events -> EventRow] /\ handled \subseteq Events \X (1..Handlers)
  BY DEF OutboxInv, OutboxTypeOK, Dispatcher, DispatchersOK
<1>2. worker[w].batch \in Seq(Events) /\ worker[w].batch # <<>> /\ IsInjective(worker[w].batch)
  BY <1>1 DEF Dispatcher, DispatcherOK
<1>3. Record(w) \in Events /\ Record(w) \in Held(worker[w])
  BY <1>2, BatchRest DEF Record, Held
<1>4. Remaining(w) \in Dispatcher /\ DispatcherOK(Remaining(w), handled)
      /\ Held(Remaining(w)) = Held(worker[w]) \ {Record(w)}
  <2>1. CASE Len(worker[w].batch) = 1
    BY <1>2, <2>1, BatchRest, BatchEmpty, OutboxAssumption DEF Remaining, NoBatch, Held, Record, Dispatcher, DispatcherOK
  <2>2. CASE Len(worker[w].batch) # 1
    <3> DEFINE x == [pc |-> "publishing", batch |-> Tail(worker[w].batch), handler |-> 0]
    <3>1. Remaining(w) = x
      BY <2>2 DEF Remaining
    <3>2. x \in Dispatcher /\ Held(x) = Held(worker[w]) \ {Record(w)}
      BY <1>2, <2>2, BatchRest, OutboxAssumption DEF Dispatcher, Held, Record
    <3>3. DispatcherOK(x, handled)
      BY <1>2, <2>2, BatchRest, OutboxAssumption DEF DispatcherOK
    <3> QED
      BY <3>1, <3>2, <3>3
  <2> QED
    BY <2>1, <2>2
<1>5. /\ event' \in [Events -> EventRow] /\ event'[Record(w)] = stored
      /\ \A e \in Events \ {Record(w)} : event'[e] = event[e]
  BY <1>1, <1>3
<1>6. \A e \in Events \ overtaken : LeaseOK(e, event[e], worker)
  BY DEF OutboxInv, LeasesHold
<1>7. \A e \in Events : event'[e].status = "delivered" =>
        event[e].status = "delivered" \/ {e} \X (1..Handlers) \subseteq handled
  BY <1>1, <1>5 DEF DispatcherOK, Record
<1>8. \A e \in Events \ overtaken :
        /\ e \in Held(Remaining(w)) => /\ event'[e].status = "processing" /\ ~event'[e].expired
                                       /\ \A v \in Workers \ {w} : e \notin Held(worker[v])
        /\ event'[e] # event[e] => \A v \in Workers \ {w} : e \notin Held(worker[v])
  BY <1>3, <1>4, <1>5, <1>6 DEF LeaseOK
<1> HIDE DEF Remaining
<1> QED
  BY <1>1, <1>4, <1>5, <1>7, <1>8, DispatcherKeeps

\* Only one row changes, of an event that nobody has unless its lease has run out.
LEMMA RowKeeps ==
  ASSUME OutboxInv, NEW e \in Events, NEW stored \in EventRow, event' = [event EXCEPT ![e] = stored],
         stored.status = "delivered" => event[e].status = "delivered",
         overtaken \subseteq overtaken', overtaken' \subseteq Events,
         e \notin overtaken' => \A w \in Workers : e \notin Held(worker[w]),
         UNCHANGED <<worker, handled, losses>>
  PROVE  OutboxInv'
<1>1. event \in [Events -> EventRow]
  BY DEF OutboxInv, OutboxTypeOK
<1>2. event' \in [Events -> EventRow] /\ event'[e] = stored /\ \A f \in Events \ {e} : event'[f] = event[f]
  BY <1>1
<1>3. OutboxTypeOK'
  BY <1>2 DEF OutboxInv, OutboxTypeOK
<1>4. DispatchersOK'
  BY DEF OutboxInv, DispatchersOK
<1>5. LeasesHold'
  <2>1. ASSUME NEW f \in Events \ overtaken' PROVE LeaseOK(f, event'[f], worker)
    <3>1. LeaseOK(f, event[f], worker)
      BY DEF OutboxInv, LeasesHold
    <3>2. CASE f = e
      BY <3>1, <3>2 DEF LeaseOK
    <3>3. CASE f # e
      BY <1>2, <3>1, <3>3
    <3> QED
      BY <3>2, <3>3
  <2> QED
    BY <2>1 DEF LeasesHold
<1>6. DeliveredWasHandled'
  BY <1>2 DEF OutboxInv, DeliveredWasHandled
<1> QED
  BY <1>3, <1>4, <1>5, <1>6 DEF OutboxInv

\* Claims, failures, retries, lost processes and expired leases keep the rows and the
\* dispatchers together.
LEMMA OutboxStays ==
  ASSUME OutboxInv, [OutboxNext]_outboxVars
  PROVE  OutboxInv'
<1> USE OutboxAssumption
<1>0. /\ event \in [Events -> EventRow] /\ worker \in [Workers -> Dispatcher]
      /\ handled \subseteq Events \X (1..Handlers) /\ overtaken \subseteq Events /\ losses \in 0..MaxLosses
      /\ \A w \in Workers : DispatcherOK(worker[w], handled)
      /\ \A e \in Events \ overtaken : LeaseOK(e, event[e], worker)
  BY DEF OutboxInv, OutboxTypeOK, Dispatcher, DispatchersOK, LeasesHold
<1>1. ASSUME NEW e \in Events, Enqueue(e) PROVE OutboxInv'
  <2> DEFINE stored == [event[e] EXCEPT !.status = "pending", !.due = TRUE]
  <2>1. event[e] \in EventRow /\ event[e].status = "none"
    BY <1>0, <1>1 DEF Enqueue
  <2>2. stored \in EventRow /\ stored.status = "pending" /\ event' = [event EXCEPT ![e] = stored]
    BY <1>0, <1>1, <2>1 DEF EventRow, Enqueue
  <2>3. \A w \in Workers : e \in Held(worker[w]) => e \in overtaken
    BY <1>0, <2>1 DEF LeaseOK
  <2> QED
    BY <1>0, <1>1, <2>2, <2>3, RowKeeps DEF Enqueue
<1>2. ASSUME NEW e \in Events, ComesDue(e) PROVE OutboxInv'
  <2> DEFINE stored == [event[e] EXCEPT !.due = TRUE]
  <2>1. event[e] \in EventRow /\ event[e].status = "failed"
    BY <1>0, <1>2 DEF ComesDue
  <2>2. stored \in EventRow /\ stored.status = "failed" /\ event' = [event EXCEPT ![e] = stored]
    BY <1>0, <1>2, <2>1 DEF EventRow, ComesDue
  <2>3. \A w \in Workers : e \in Held(worker[w]) => e \in overtaken
    BY <1>0, <2>1 DEF LeaseOK
  <2> QED
    BY <1>0, <1>2, <2>2, <2>3, RowKeeps DEF ComesDue
<1>3. ASSUME NEW e \in Events, LeaseRunsOut(e) PROVE OutboxInv'
  <2> DEFINE stored == [event[e] EXCEPT !.expired = TRUE]
  <2>1. event[e] \in EventRow /\ event[e].status = "processing"
    BY <1>0, <1>3 DEF LeaseRunsOut
  <2>2. stored \in EventRow /\ stored.status = "processing" /\ event' = [event EXCEPT ![e] = stored]
    BY <1>0, <1>3, <2>1 DEF EventRow, LeaseRunsOut
  <2>3. /\ overtaken \subseteq overtaken' /\ overtaken' \subseteq Events
        /\ e \notin overtaken' => \A w \in Workers : e \notin Held(worker[w])
    BY <1>0, <1>3 DEF LeaseRunsOut, Held
  <2> QED
    BY <1>3, <2>2, <2>3, RowKeeps DEF LeaseRunsOut
<1>4. ASSUME NEW w \in Workers, ClaimBatch(w) PROVE OutboxInv'
  <2>1. PICK n \in 1..BatchSize : \E batch \in [1..n -> {e \in Events : ToClaim(e)}] :
          /\ IsInjective(batch)
          /\ worker' = [worker EXCEPT ![w] = [pc |-> "publishing", batch |-> batch, handler |-> 0]]
          /\ event' = [e \in Events |->
                         IF e \in ToSet(batch) THEN [event[e] EXCEPT !.status = "processing", !.expired = FALSE]
                         ELSE event[e]]
    BY <1>4 DEF ClaimBatch
  <2>2. PICK batch \in [1..n -> {e \in Events : ToClaim(e)}] :
          /\ IsInjective(batch)
          /\ worker' = [worker EXCEPT ![w] = [pc |-> "publishing", batch |-> batch, handler |-> 0]]
          /\ event' = [e \in Events |->
                         IF e \in ToSet(batch) THEN [event[e] EXCEPT !.status = "processing", !.expired = FALSE]
                         ELSE event[e]]
    BY <2>1
  <2> DEFINE x == [pc |-> "publishing", batch |-> batch, handler |-> 0]
  <2>3. batch \in Seq(Events) /\ batch # <<>> /\ \A e \in ToSet(batch) : e \in Events /\ ToClaim(e)
    <3>1. n \in Nat \ {0} /\ batch \in [1..n -> Events] /\ DOMAIN batch = 1..n
      OBVIOUS
    <3>2. batch \in Seq(Events) /\ Len(batch) = n
      BY <3>1
    <3>3. Len(<<>>) = 0
      OBVIOUS
    <3> QED
      BY <3>1, <3>2, <3>3 DEF ToSet
  <2>4. x \in Dispatcher /\ Held(x) = ToSet(batch) /\ DispatcherOK(x, handled)
    <3>1. x.pc = "publishing" /\ x.batch = batch /\ x.handler = 0
      OBVIOUS
    <3>2. x \in Dispatcher
      BY <2>3 DEF Dispatcher
    <3> HIDE DEF x
    <3>3. 0 < Handlers /\ 1..0 = {}
      OBVIOUS
    <3>4. Held(x) = ToSet(batch) /\ IsInjective(x.batch) /\ x.batch # <<>>
      BY <2>2, <2>3, <3>1 DEF Held
    <3> QED
      BY <3>1, <3>2, <3>3, <3>4 DEF DispatcherOK
  <2>5. \A e \in Events : e \in ToSet(batch) =>
          event'[e] \in EventRow /\ event'[e].status = "processing" /\ ~event'[e].expired
    BY <1>0, <2>2 DEF EventRow
  <2>6. event' \in [Events -> EventRow] /\ \A e \in Events : e \notin ToSet(batch) => event'[e] = event[e]
    BY <1>0, <2>2, <2>5
  <2>7. \A e \in Events \ overtaken : ToClaim(e) => \A v \in Workers : e \notin Held(worker[v])
    BY <1>0 DEF ToClaim, LeaseOK
  <2>8. UNCHANGED <<handled, overtaken, losses>> /\ worker' = [worker EXCEPT ![w] = x]
    BY <1>4, <2>2 DEF ClaimBatch
  <2> HIDE DEF x
  <2>9. \A e \in Events \ overtaken :
          /\ e \in Held(x) => /\ event'[e].status = "processing" /\ ~event'[e].expired
                              /\ \A v \in Workers \ {w} : e \notin Held(worker[v])
          /\ event'[e] # event[e] => \A v \in Workers \ {w} : e \notin Held(worker[v])
    BY <2>3, <2>4, <2>5, <2>6, <2>7
  <2> QED
    BY <1>0, <2>4, <2>5, <2>6, <2>8, <2>9, DispatcherKeeps
<1>5. ASSUME NEW w \in Workers, NEW x \in Dispatcher, worker' = [worker EXCEPT ![w] = x],
             DispatcherOK(x, handled'), handled \subseteq handled', handled' \subseteq Events \X (1..Handlers),
             Held(x) \subseteq Held(worker[w]), losses' \in 0..MaxLosses, UNCHANGED <<event, overtaken>>
      PROVE  OutboxInv'
  <2>1. \A e \in Events \ overtaken :
          /\ e \in Held(x) => /\ event'[e].status = "processing" /\ ~event'[e].expired
                              /\ \A v \in Workers \ {w} : e \notin Held(worker[v])
          /\ event'[e] # event[e] => \A v \in Workers \ {w} : e \notin Held(worker[v])
    BY <1>0, <1>5 DEF LeaseOK
  <2> QED
    BY <1>0, <1>5, <2>1, DispatcherKeeps
<1>6. ASSUME NEW w \in Workers, Handle(w) PROVE OutboxInv'
  <2> DEFINE next == worker[w].handler + 1
             turn == IF next = Handlers THEN "delivered" ELSE "publishing"
             x == [worker[w] EXCEPT !.handler = next, !.pc = turn]
             y == [worker[w] EXCEPT !.pc = "failed"]
  <2>1. /\ worker[w] \in Dispatcher /\ worker[w].pc = "publishing" /\ worker[w].batch # <<>>
        /\ worker[w].batch \in Seq(Events) /\ worker[w].handler \in 0..Handlers /\ worker[w].handler < Handlers
        /\ IsInjective(worker[w].batch) /\ UNCHANGED <<event, overtaken, losses>>
        /\ \A h \in 1..worker[w].handler : <<Head(worker[w].batch), h>> \in handled
    BY <1>0, <1>6 DEF Handle, DispatcherOK, Dispatcher
  <2>2. Record(w) \in Events
    BY <2>1, BatchRest DEF Record
  <2>3. CASE /\ handled' = handled \cup {<<Record(w), next>>}
             /\ worker' = [worker EXCEPT ![w].handler = next, ![w].pc = IF next = Handlers THEN "delivered" ELSE "publishing"]
    <3>1. next \in 1..Handlers
      BY <2>1
    <3>2. worker' = [worker EXCEPT ![w] = x]
      BY <1>0, <2>3
    <3>3. x \in Dispatcher /\ x.batch = worker[w].batch /\ x.handler = next
          /\ x.pc = (IF next = Handlers THEN "delivered" ELSE "publishing")
      <4>1. turn \in {"delivered", "publishing"} /\ next \in 0..Handlers
        BY <3>1
      <4> HIDE DEF turn, next
      <4>2. x \in Dispatcher /\ x.batch = worker[w].batch /\ x.handler = next /\ x.pc = turn
        BY <2>1, <4>1 DEF Dispatcher
      <4> QED
        BY <4>2 DEF turn
    <3> HIDE DEF x
    <3>4. handled' \subseteq Events \X (1..Handlers) /\ handled \subseteq handled'
      BY <1>0, <2>2, <2>3, <3>1
    <3>5. \A h \in 1..next : <<Head(worker[w].batch), h>> \in handled'
      BY <2>1, <2>3, <3>1 DEF Record
    <3>6. DispatcherOK(x, handled')
      BY <2>1, <3>1, <3>3, <3>5 DEF DispatcherOK
    <3>7. Held(x) = Held(worker[w])
      BY <3>3 DEF Held
    <3> QED
      BY <1>0, <1>5, <2>1, <3>2, <3>3, <3>4, <3>6, <3>7
  <2>4. CASE worker' = [worker EXCEPT ![w].pc = "failed"] /\ UNCHANGED handled
    <3>1. worker' = [worker EXCEPT ![w] = y]
      BY <1>0, <2>4
    <3>2. y \in Dispatcher /\ y.batch = worker[w].batch /\ y.pc = "failed"
      BY <2>1 DEF Dispatcher
    <3> HIDE DEF y
    <3>3. DispatcherOK(y, handled) /\ Held(y) = Held(worker[w])
      BY <2>1, <3>2 DEF DispatcherOK, Held
    <3> QED
      BY <1>0, <1>5, <2>1, <2>4, <3>1, <3>2, <3>3
  <2> QED
    BY <1>6, <2>3, <2>4 DEF Handle
<1>7. ASSUME NEW w \in Workers, MarkDelivered(w) PROVE OutboxInv'
  <2> DEFINE stored == [event[Record(w)] EXCEPT !.status = "delivered", !.expired = FALSE]
  <2>1. Record(w) \in Events
    BY <1>0, <1>7, BatchRest DEF MarkDelivered, DispatcherOK, Dispatcher, Record
  <2>2. stored \in EventRow /\ event' = [event EXCEPT ![Record(w)] = stored]
    BY <1>0, <1>7, <2>1 DEF EventRow, MarkDelivered
  <2> QED
    BY <1>7, <2>2, NextEvent DEF MarkDelivered
<1>8. ASSUME NEW w \in Workers, MarkFailed(w) PROVE OutboxInv'
  <2> DEFINE attempts == event[Record(w)].attempts + 1
             stored == [status |-> IF attempts >= MaxDeliveries THEN "dead_letter" ELSE "failed",
                     attempts |-> attempts, due |-> FALSE, expired |-> FALSE]
  <2>1. Record(w) \in Events
    BY <1>0, <1>8, BatchRest DEF MarkFailed, DispatcherOK, Dispatcher, Record
  <2>2. attempts \in Nat
    BY <1>0, <2>1 DEF EventRow
  <2>3. stored \in EventRow /\ stored.status # "delivered"
    BY <2>2 DEF EventRow
  <2>4. event' = [event EXCEPT ![Record(w)] = stored]
    BY <1>8 DEF MarkFailed
  <2> HIDE DEF stored, attempts
  <2> QED
    BY <1>8, <2>3, <2>4, NextEvent DEF MarkFailed
<1>9. ASSUME NEW w \in Workers, Fault(w) PROVE OutboxInv'
  <2>1. losses' \in 0..MaxLosses /\ UNCHANGED <<event, handled, overtaken>>
    BY <1>0, <1>9 DEF Fault
  <2>2. CASE worker[w].pc = "delivered" /\ worker' = [worker EXCEPT ![w].pc = "failed"]
    <3> DEFINE y == [worker[w] EXCEPT !.pc = "failed"]
    <3>1. worker' = [worker EXCEPT ![w] = y]
      BY <1>0, <2>2
    <3>2. y \in Dispatcher /\ y.batch = worker[w].batch /\ y.pc = "failed"
      BY <1>0 DEF Dispatcher
    <3> HIDE DEF y
    <3>3. DispatcherOK(y, handled) /\ Held(y) = Held(worker[w])
      BY <1>0, <2>2, <3>2 DEF DispatcherOK, Held
    <3> QED
      BY <1>0, <1>5, <2>1, <3>1, <3>2, <3>3
  <2>3. CASE worker' = [worker EXCEPT ![w] = NoBatch]
    <3>1. NoBatch \in Dispatcher /\ DispatcherOK(NoBatch, handled) /\ Held(NoBatch) = {}
      BY BatchEmpty DEF NoBatch, Dispatcher, DispatcherOK, Held
    <3> QED
      BY <1>0, <1>5, <2>1, <2>3, <3>1
  <2> QED
    BY <1>9, <2>2, <2>3 DEF Fault
<1>10. CASE UNCHANGED outboxVars
  BY <1>10 DEF outboxVars, OutboxInv, OutboxTypeOK, DispatchersOK, LeasesHold, DeliveredWasHandled
<1> QED
  BY <1>1, <1>2, <1>3, <1>4, <1>6, <1>7, <1>8, <1>9, <1>10 DEF OutboxNext

\* For any events, workers and handlers: what is marked as delivered has been handled by
\* every handler, and no two workers process an event whose lease nobody has overtaken
\* (core/events/index.ts:394-433, 489-512).
THEOREM EventsAreNeitherLostNorDoubled == OutboxSpec => []EventsHold
<1>1. OutboxInv => EventsHold
  <2> SUFFICES ASSUME OutboxInv PROVE EventsHold
    OBVIOUS
  <2>1. ClaimsExclude
    BY DEF OutboxInv, LeasesHold, LeaseOK, ClaimsExclude, At, Held
  <2> QED
    BY <2>1 DEF OutboxInv, EventsHold
<1>2. OutboxInv /\ [OutboxNext]_outboxVars => OutboxInv'
  BY OutboxStays
<1> QED
  BY <1>1, <1>2, OutboxStarts, PTL DEF OutboxSpec
-----------------------------------------------------------------------------
(*****************************************************************************)
(* Job runs.  With a lock, a session holds it once for every run of its      *)
(* process that is under way; without one, the run under way is the entry of *)
(* its process.  How far a run has come tells what its rows say.             *)
(*****************************************************************************)
Called == [pc : Launched \cup {"acquiring", "skipped", "ended"}, host : Hosts, attempt : 0..MaxAttempts,
           aborted : BOOLEAN, verdict : Verdicts \cup {"none", "threw"}]
Runtime == [stopped : BOOLEAN, running : Runs \cup {NoRun}, awaits : Runs \cup {NoRun},
            answer : {"none", "waiting", "drained", "late"}]
RowsOfRun == [Attempts -> Verdicts \cup {"none", "running"}]

\* The runs of a process that are under way.
Underway(h, runs) == {r \in Runs : runs[r].pc \in Launched /\ runs[r].host = h}

\* With a lock: a session holds it as often as its process has runs under way, and only one
\* session holds it.
SessionsHold(locked, runs, held) ==
  IF locked THEN /\ \A h \in Hosts : held[h] = Cardinality(Underway(h, runs))
                 /\ \A g, h \in Hosts : held[g] > 0 /\ held[h] > 0 => g = h
  ELSE \A h \in Hosts : held[h] = 0

\* Without one: the run under way is the entry of its process, and what stop() waits for.
EntryHolds(locked, x, r, entries) ==
  ~locked => /\ x.pc # "acquiring"
             /\ x.pc \in Launched =>
                  /\ entries[x.host].running = r
                  /\ entries[x.host].stopped => entries[x.host].awaits = r
                  /\ entries[x.host].answer # "drained"

StopsAnswer == \A h \in Hosts : ~runtime[h].stopped => runtime[h].answer = "none"

\* How far a run has come tells what its rows say.
RunTells(x, marks) ==
  /\ x.pc \in {"idle", "acquiring", "skipped"} => \A a \in Attempts : marks[a] = "none"
  /\ x.pc \in Launched \cup {"ended"} =>
       /\ x.attempt \in Attempts
       /\ x.verdict # "threw" => \A a \in Attempts : /\ a < x.attempt => marks[a] \in {"failed", "timeout"}
                                                     /\ a > x.attempt => marks[a] = "none"
  /\ x.pc \in {"acquiring", "starting", "working", "waiting", "recording"} => x.verdict # "threw"
  /\ x.pc = "recording" => x.verdict \in Verdicts
  /\ x.pc \in {"recording", "waiting"} /\ x.verdict \in {"failed", "timeout"} => x.attempt < MaxAttempts
  /\ x.pc = "waiting" => x.verdict \in {"failed", "timeout"} /\ marks[x.attempt] = x.verdict
  /\ x.pc \in {"releasing", "ended"} /\ x.verdict # "threw" => marks[x.attempt] = x.verdict

\* An entry is of a run that has been launched.
EntriesCalled == \A h \in Hosts :
  runtime[h].running # NoRun => run[runtime[h].running].pc \in Launched \cup {"ended"}

JobInv ==
  /\ JobTypeOK /\ EntriesCalled /\ SessionsHold(job.locked, run, locks) /\ StopsAnswer
  /\ \A r \in Runs : EntryHolds(job.locked, run[r], r, runtime) /\ RunTells(run[r], rows[r])

\* A run has not been called, or has the fields of one.
LEMMA RunShapes ==
  ASSUME NEW x \in {NotCalled} \cup Called
  PROVE  /\ x.pc = "idle" <=> x = NotCalled
         /\ x.pc # "idle" => x \in Called
BY DEF NotCalled, Called, Launched

\* No more runs are under way than there are.
LEMMA UnderwayFinite ==
  ASSUME NEW h, NEW runs
  PROVE  /\ IsFiniteSet(Underway(h, runs)) /\ Cardinality(Underway(h, runs)) \in 0..Cardinality(Runs)
         /\ Cardinality(Runs) \in Nat
<1>1. IsFiniteSet(Runs) /\ Underway(h, runs) \subseteq Runs
  BY JobsAssumption DEF Underway
<1> HIDE DEF Underway
<1>2. IsFiniteSet(Underway(h, runs)) /\ Cardinality(Underway(h, runs)) <= Cardinality(Runs)
  BY <1>1, FS_Subset
<1> QED
  BY <1>1, <1>2, FS_CardinalityType

\* No run has been called.
LEMMA JobStarts == JobInit => JobInv
<1> SUFFICES ASSUME JobInit PROVE JobInv
  OBVIOUS
<1>1. \A h \in Hosts : Underway(h, run) = {}
  BY DEF JobInit, Underway, NotCalled, Launched
<1>2. Cardinality({}) = 0 /\ Cardinality(Runs) \in Nat
  BY FS_EmptySet, FS_CardinalityType, JobsAssumption
<1>3. JobTypeOK
  BY <1>2, JobsAssumption DEF JobInit, JobTypeOK
<1>4. SessionsHold(job.locked, run, locks)
  <2>1. \A h \in Hosts : locks[h] = 0
    BY DEF JobInit
  <2> QED
    BY <1>1, <1>2, <2>1 DEF SessionsHold
<1>5. StopsAnswer
  BY DEF StopsAnswer, JobInit
<1>6. \A r \in Runs : EntryHolds(job.locked, run[r], r, runtime) /\ RunTells(run[r], rows[r])
  BY DEF JobInit, EntryHolds, RunTells, NotCalled, Launched
<1>7. EntriesCalled
  BY DEF JobInit, EntriesCalled
<1> QED
  BY <1>3, <1>4, <1>5, <1>6, <1>7 DEF JobInv

\* A run that is under way goes on.
LEMMA RunGoesOn ==
  ASSUME JobInv, NEW r \in Runs, NEW x \in Called, NEW marks \in RowsOfRun,
         run[r].pc \in Launched, x.pc \in Launched, x.host = run[r].host, RunTells(x, marks),
         run' = [run EXCEPT ![r] = x], rows' = [rows EXCEPT ![r] = marks],
         handlers' \subseteq Runs \X Attempts, told' \subseteq Runs \X Attempts, writeFaults' \in 0..MaxWriteFaults,
         UNCHANGED <<job, runtime, locks>>
  PROVE  JobInv'
<1>1. run \in [Runs -> {NotCalled} \cup Called] /\ rows \in [Runs -> RowsOfRun]
  BY DEF JobInv, JobTypeOK, Called, RowsOfRun
<1>2. /\ run' \in [Runs -> {NotCalled} \cup Called] /\ run'[r] = x /\ \A s \in Runs \ {r} : run'[s] = run[s]
      /\ rows' \in [Runs -> RowsOfRun] /\ rows'[r] = marks /\ \A s \in Runs \ {r} : rows'[s] = rows[s]
  BY <1>1
<1>3. JobTypeOK'
  BY <1>2 DEF JobInv, JobTypeOK, Called, RowsOfRun
<1>4. \A h \in Hosts : Underway(h, run') = Underway(h, run)
  BY <1>2 DEF Underway
<1>5. SessionsHold(job.locked, run', locks)
  BY <1>4 DEF JobInv, SessionsHold
<1>6. ASSUME NEW s \in Runs PROVE EntryHolds(job.locked, run'[s], s, runtime) /\ RunTells(run'[s], rows'[s])
  <2>1. EntryHolds(job.locked, run[s], s, runtime) /\ RunTells(run[s], rows[s])
    BY DEF JobInv
  <2>2. CASE s # r
    BY <1>2, <2>1, <2>2
  <2>3. CASE s = r
    <3>1. x.pc # "acquiring"
      BY DEF Launched
    <3> QED
      BY <1>2, <2>1, <2>3, <3>1 DEF EntryHolds
  <2> QED
    BY <2>2, <2>3
<1>7. EntriesCalled'
  BY <1>2 DEF JobInv, JobTypeOK, EntriesCalled
<1> QED
  BY <1>3, <1>5, <1>6, <1>7 DEF JobInv, StopsAnswer

\* A run that is called, skipped or launched, or comes to its end.
LEMMA RunComesAndGoes ==
  ASSUME JobInv, NEW r \in Runs, NEW x \in Called,
         run[r].pc # "ended", run[r].pc \in Launched => x.pc = "ended",
         run' = [run EXCEPT ![r] = x], RunTells(x, rows[r]),
         locks' \in [Hosts -> 0..Cardinality(Runs)], SessionsHold(job.locked, run', locks'),
         \/ runtime' = runtime
         \/ /\ \/ x.pc \in Launched /\ runtime' = [runtime EXCEPT ![x.host].running = r]
               \/ runtime' = [runtime EXCEPT ![x.host].running = NoRun]
            /\ ~job.locked => \A s \in Runs \ {r} : ~(run[s].pc \in Launched /\ run[s].host = x.host),
         EntryHolds(job.locked, x, r, runtime'),
         UNCHANGED <<job, handlers, told, rows, writeFaults>>
  PROVE  JobInv'
<1>1. run \in [Runs -> {NotCalled} \cup Called] /\ runtime \in [Hosts -> Runtime]
  BY DEF JobInv, JobTypeOK, Called, Runtime
<1>2. run' \in [Runs -> {NotCalled} \cup Called] /\ run'[r] = x /\ \A s \in Runs \ {r} : run'[s] = run[s]
  BY <1>1
<1>3. x.host \in Hosts
  BY DEF Called
<1>4. /\ runtime' \in [Hosts -> Runtime] /\ \A h \in Hosts \ {x.host} : runtime'[h] = runtime[h]
      /\ \A h \in Hosts : runtime'[h].stopped = runtime[h].stopped /\ runtime'[h].answer = runtime[h].answer
  <2>1. CASE runtime' = runtime
    BY <1>1, <2>1
  <2>2. CASE \E entry \in {r, NoRun} : runtime' = [runtime EXCEPT ![x.host].running = entry]
    BY <1>1, <1>3, <2>2 DEF Runtime
  <2> QED
    BY <2>1, <2>2
<1>5. JobTypeOK'
  BY <1>2, <1>4 DEF JobInv, JobTypeOK, Called, Runtime
<1>6. ASSUME NEW s \in Runs PROVE EntryHolds(job.locked, run'[s], s, runtime') /\ RunTells(run'[s], rows[s])
  <2>1. CASE s = r
    BY <1>2, <2>1
  <2>2. CASE s # r
    <3>1. EntryHolds(job.locked, run[s], s, runtime) /\ RunTells(run[s], rows[s]) /\ run'[s] = run[s]
      BY <1>2, <2>2 DEF JobInv
    <3>2. CASE job.locked \/ run[s].pc \notin Launched
      BY <3>1, <3>2 DEF EntryHolds
    <3>3. CASE ~job.locked /\ run[s].pc \in Launched
      <4>1. run[s].host \in Hosts
        BY <1>1, <3>3, RunShapes DEF Called, Launched
      <4>2. runtime'[run[s].host] = runtime[run[s].host]
        BY <1>4, <2>2, <3>3, <4>1
      <4> QED
        BY <3>1, <4>2 DEF EntryHolds
    <3> QED
      BY <3>1, <3>2, <3>3
  <2> QED
    BY <2>1, <2>2
<1>7. StopsAnswer'
  BY <1>4 DEF JobInv, StopsAnswer
<1>8. EntriesCalled'
  <2>1. ASSUME NEW h \in Hosts, runtime'[h].running # NoRun
        PROVE  run'[runtime'[h].running].pc \in Launched \cup {"ended"}
    <3>1. CASE runtime'[h].running = runtime[h].running
      <4>1. runtime[h].running \in Runs /\ run[runtime[h].running].pc \in Launched \cup {"ended"}
        BY <1>1, <2>1, <3>1 DEF JobInv, EntriesCalled, Runtime
      <4> QED
        BY <1>2, <3>1, <4>1
    <3>2. CASE runtime'[h].running # runtime[h].running
      <4>1. runtime'[h].running = r /\ x.pc \in Launched
        BY <1>1, <1>3, <2>1, <3>2 DEF Runtime
      <4> QED
        BY <1>2, <4>1
    <3> QED
      BY <3>1, <3>2
  <2> QED
    BY <2>1 DEF EntriesCalled
<1> QED
  BY <1>5, <1>6, <1>7, <1>8 DEF JobInv

\* A failure is recorded; the last attempt is never retried.
LEMMA FailureTells ==
  ASSUME JobInv, NEW r \in Runs, NEW status \in {"failed", "timeout"}, Failed(r, status),
         run[r].pc \in {"working", "recording"}
  PROVE  \E x \in Called : /\ run' = [run EXCEPT ![r] = x] /\ x.pc = "recording" /\ x.host = run[r].host
                            /\ RunTells(x, rows[r])
<1>1. run \in [Runs -> {NotCalled} \cup Called] /\ run[r] \in Called /\ RunTells(run[r], rows[r])
      /\ MaxAttempts \in Nat \ {0}
  BY RunShapes, JobsAssumption DEF JobInv, JobTypeOK, Called
<1> DEFINE v == CASE run[r].aborted -> "cancelled"
                  [] ~run[r].aborted /\ run[r].attempt = MaxAttempts -> "dead_letter"
                  [] OTHER -> status
           x == [run[r] EXCEPT !.pc = "recording", !.verdict = v]
<1>2. v \in {"cancelled", "dead_letter", status} /\ (v = status => run[r].attempt # MaxAttempts)
  <2>1. CASE run[r].aborted
    BY <2>1
  <2>2. CASE ~run[r].aborted /\ run[r].attempt = MaxAttempts
    BY <2>2
  <2>3. CASE ~run[r].aborted /\ run[r].attempt # MaxAttempts
    BY <2>3
  <2> QED
    BY <2>1, <2>2, <2>3
<1>3. run' = [run EXCEPT ![r].pc = "recording", ![r].verdict = v]
  BY DEF Failed
<1> HIDE DEF v
<1>4. run' = [run EXCEPT ![r] = x]
  BY <1>1, <1>3
<1>5. v \in Verdicts
  BY <1>2 DEF Verdicts
<1>6. /\ x \in Called /\ x.pc = "recording" /\ x.host = run[r].host /\ x.attempt = run[r].attempt /\ x.verdict = v
  BY <1>1, <1>5 DEF Called, Launched
<1> HIDE DEF x
<1>7. run[r].attempt \in Attempts
  BY <1>1 DEF RunTells, Launched
<1>8. v \in {"failed", "timeout"} => run[r].attempt < MaxAttempts
  BY <1>1, <1>2, <1>7 DEF Attempts
<1>9. run[r].verdict # "threw"
  BY <1>1 DEF RunTells
<1>10. \A a \in Attempts : /\ a < run[r].attempt => rows[r][a] \in {"failed", "timeout"}
                           /\ a > run[r].attempt => rows[r][a] = "none"
  BY <1>1, <1>9 DEF RunTells, Launched
<1>11. RunTells(x, rows[r])
  BY <1>1, <1>5, <1>6, <1>7, <1>8, <1>10 DEF RunTells, Launched, Verdicts
<1> QED
  BY <1>4, <1>6, <1>11

\* What the program of a run does between its awaits.
LEMMA WorkKeeps ==
  ASSUME JobInv, NEW r \in Runs,
         \/ Started(r) \/ HandlerEnds(r) \/ Timeout(r) \/ Recorded(r) \/ WriteFails(r) \/ Wait(r)
  PROVE  JobInv'
<1> DEFINE m == run[r]
<1>0. /\ run \in [Runs -> {NotCalled} \cup Called] /\ rows \in [Runs -> RowsOfRun] /\ job.locked \in BOOLEAN
      /\ handlers \subseteq Runs \X Attempts /\ told \subseteq Runs \X Attempts /\ writeFaults \in 0..MaxWriteFaults
      /\ MaxWriteFaults \in Nat /\ MaxAttempts \in Nat \ {0}
  BY JobsAssumption DEF JobInv, JobTypeOK, Called, RowsOfRun
<1>1. m.pc \in {"starting", "working", "recording", "waiting"} /\ m.pc \in Launched /\ UNCHANGED <<job, runtime, locks>>
  BY DEF Started, HandlerEnds, Timeout, Recorded, WriteFails, Wait, Launched
<1>2. m \in Called /\ RunTells(m, rows[r]) /\ rows[r] \in RowsOfRun
  BY <1>0, <1>1, RunShapes DEF JobInv, Launched
<1>3. m.attempt \in Attempts /\ m.verdict # "threw" /\ Attempt(r) \in Runs \X Attempts
  BY <1>1, <1>2 DEF RunTells, Attempt
<1>4. \A a \in Attempts : /\ a < m.attempt => rows[r][a] \in {"failed", "timeout"}
                          /\ a > m.attempt => rows[r][a] = "none"
  BY <1>1, <1>2, <1>3 DEF RunTells
<1>5. rows = [rows EXCEPT ![r] = rows[r]]
  BY <1>0
<1> DEFINE Stamp(status) == [rows[r] EXCEPT ![m.attempt] = status]
<1>6. ASSUME NEW status \in Verdicts \cup {"none", "running"}, rows' = [rows EXCEPT ![r][run[r].attempt] = status]
      PROVE  /\ rows' = [rows EXCEPT ![r] = Stamp(status)] /\ Stamp(status) \in RowsOfRun
             /\ Stamp(status)[m.attempt] = status
             /\ \A a \in Attempts \ {m.attempt} : Stamp(status)[a] = rows[r][a]
  <2>1. rows' = [rows EXCEPT ![r] = Stamp(status)]
    BY <1>6, <1>0
  <2>2. Stamp(status) \in RowsOfRun /\ Stamp(status)[m.attempt] = status
        /\ \A a \in Attempts \ {m.attempt} : Stamp(status)[a] = rows[r][a]
    BY <1>2, <1>3, <1>6 DEF RowsOfRun
  <2> QED
    BY <2>1, <2>2
<1>7. CASE Started(r)
  <2>1. /\ m.pc = "starting" /\ rows' = [rows EXCEPT ![r] = Stamp("running")] /\ Stamp("running") \in RowsOfRun
        /\ \A a \in Attempts \ {m.attempt} : Stamp("running")[a] = rows[r][a]
    BY <1>6, <1>7 DEF Started
  <2> HIDE DEF Stamp
  <2>2. CASE m.aborted /\ ~job.timed
    <3> DEFINE x == [m EXCEPT !.pc = "recording", !.verdict = "cancelled"]
    <3>1. run' = [run EXCEPT ![r].pc = "recording", ![r].verdict = "cancelled"] /\ handlers' = handlers
      BY <1>7, <2>2 DEF Started
    <3>2. run' = [run EXCEPT ![r] = x]
      BY <1>0, <3>1
    <3>3. /\ x \in Called /\ x.pc = "recording" /\ x.host = m.host /\ x.attempt = m.attempt /\ x.verdict = "cancelled"
      BY <1>2 DEF Called, Launched, Verdicts
    <3> HIDE DEF x, m
    <3>4. RunTells(x, Stamp("running"))
      BY <1>3, <1>4, <2>1, <3>3 DEF RunTells, Launched, Verdicts, Attempts
    <3>5. told' = told /\ writeFaults' = writeFaults
      BY <1>7 DEF Started
    <3> QED
      BY <1>0, <1>1, <2>1, <3>1, <3>2, <3>3, <3>4, <3>5, RunGoesOn DEF Launched, m
  <2>3. CASE ~m.aborted \/ job.timed
    <3> DEFINE x == [m EXCEPT !.pc = "working"]
    <3>1. run' = [run EXCEPT ![r].pc = "working"] /\ handlers' = handlers \cup {Attempt(r)}
      BY <1>7, <2>3 DEF Started, RunGoes
    <3>2. run' = [run EXCEPT ![r] = x]
      BY <1>0, <3>1
    <3>3. /\ x \in Called /\ x.pc = "working" /\ x.host = m.host /\ x.attempt = m.attempt /\ x.verdict = m.verdict
      BY <1>2 DEF Called, Launched
    <3> HIDE DEF x, m
    <3>4. RunTells(x, Stamp("running"))
      BY <1>3, <1>4, <2>1, <3>3 DEF RunTells, Launched, Attempts
    <3>5. told' = told /\ writeFaults' = writeFaults /\ handlers' \subseteq Runs \X Attempts
      BY <1>0, <1>3, <1>7, <3>1 DEF Started
    <3> QED
      BY <1>0, <1>1, <2>1, <3>2, <3>3, <3>4, <3>5, RunGoesOn DEF Launched, m
  <2> QED
    BY <1>7, <2>2, <2>3 DEF Started
<1>8. ASSUME NEW status \in {"failed", "timeout"}, Failed(r, status), m.pc \in {"working", "recording"}, rows' = rows,
             handlers' \subseteq handlers, told' \subseteq told \cup {Attempt(r)}, writeFaults' \in 0..MaxWriteFaults
      PROVE  JobInv'
  <2>1. PICK x \in Called : /\ run' = [run EXCEPT ![r] = x] /\ x.pc = "recording" /\ x.host = run[r].host
                            /\ RunTells(x, rows[r])
    BY <1>8, FailureTells
  <2>2. handlers' \subseteq Runs \X Attempts /\ told' \subseteq Runs \X Attempts /\ x.pc \in Launched
    BY <1>0, <1>3, <1>8, <2>1 DEF Launched
  <2> HIDE DEF Stamp
  <2>3. rows' = [rows EXCEPT ![r] = rows[r]]
    BY <1>5, <1>8
  <2> QED
    BY <1>1, <1>2, <1>8, <2>1, <2>2, <2>3, RunGoesOn
<1>9. CASE HandlerEnds(r)
  <2>1. /\ m.pc = "working" /\ handlers' \subseteq handlers /\ UNCHANGED <<told, rows, writeFaults>>
    BY <1>9 DEF HandlerEnds
  <2>2. CASE run' = [run EXCEPT ![r].pc = "recording", ![r].verdict = "succeeded"]
    <3> DEFINE x == [m EXCEPT !.pc = "recording", !.verdict = "succeeded"]
    <3>1. run' = [run EXCEPT ![r] = x]
      BY <1>0, <2>2
    <3>2. /\ x \in Called /\ x.pc = "recording" /\ x.host = m.host /\ x.attempt = m.attempt /\ x.verdict = "succeeded"
      BY <1>2 DEF Called, Launched, Verdicts
    <3> HIDE DEF x, m, Stamp
    <3>3. RunTells(x, rows[r])
      BY <1>3, <1>4, <3>2 DEF RunTells, Launched, Verdicts
    <3>4. x.pc \in Launched /\ handlers' \subseteq Runs \X Attempts
      BY <1>0, <2>1, <3>2 DEF Launched
    <3>5. rows' = [rows EXCEPT ![r] = rows[r]]
      BY <1>5, <2>1
    <3> QED
      BY <1>0, <1>1, <1>2, <2>1, <3>1, <3>2, <3>3, <3>4, <3>5, RunGoesOn DEF m
  <2> QED
    BY <1>0, <1>8, <1>9, <2>1, <2>2 DEF HandlerEnds
<1>10. CASE Timeout(r)
  BY <1>0, <1>8, <1>10 DEF Timeout
<1>11. CASE Recorded(r)
  <2>0. m.pc = "recording" /\ m.verdict \in Verdicts /\ UNCHANGED <<handlers, told, writeFaults>>
    BY <1>2, <1>11 DEF Recorded, RunTells
  <2>1. /\ rows' = [rows EXCEPT ![r] = Stamp(m.verdict)] /\ Stamp(m.verdict) \in RowsOfRun
        /\ Stamp(m.verdict)[m.attempt] = m.verdict
        /\ \A a \in Attempts \ {m.attempt} : Stamp(m.verdict)[a] = rows[r][a]
    BY <1>6, <1>11, <2>0 DEF Recorded
  <2> DEFINE marks == Stamp(m.verdict)
  <2> HIDE DEF Stamp
  <2>2. Retries(r) => m.verdict \in {"failed", "timeout"} /\ m.attempt < MaxAttempts
    BY <1>2, <2>0 DEF Retries, RunTells
  <2>3. CASE ~Retries(r) /\ RunGoes(r, "releasing")
    <3> DEFINE x == [m EXCEPT !.pc = "releasing"]
    <3>1. run' = [run EXCEPT ![r] = x]
      BY <1>0, <2>3 DEF RunGoes
    <3>2. /\ x \in Called /\ x.pc = "releasing" /\ x.host = m.host /\ x.attempt = m.attempt /\ x.verdict = m.verdict
      BY <1>2 DEF Called, Launched
    <3> HIDE DEF x, m, marks
    <3>3. RunTells(x, marks)
      BY <1>3, <1>4, <2>1, <3>2 DEF RunTells, Launched, Attempts, marks
    <3> QED
      BY <1>0, <1>1, <2>0, <2>1, <3>1, <3>2, <3>3, RunGoesOn DEF Launched, m, marks
  <2>4. CASE Retries(r) /\ RunGoes(r, "waiting")
    <3> DEFINE x == [m EXCEPT !.pc = "waiting"]
    <3>1. run' = [run EXCEPT ![r] = x]
      BY <1>0, <2>4 DEF RunGoes
    <3>2. /\ x \in Called /\ x.pc = "waiting" /\ x.host = m.host /\ x.attempt = m.attempt /\ x.verdict = m.verdict
      BY <1>2 DEF Called, Launched
    <3> HIDE DEF x, m, marks
    <3>3. RunTells(x, marks)
      BY <1>3, <1>4, <2>1, <2>2, <2>4, <3>2 DEF RunTells, Launched, Attempts, marks
    <3> QED
      BY <1>0, <1>1, <2>0, <2>1, <3>1, <3>2, <3>3, RunGoesOn DEF Launched, m, marks
  <2>5. CASE Retries(r) /\ NextAttempt(r)
    <3> DEFINE x == [m EXCEPT !.pc = "starting", !.attempt = m.attempt + 1]
    <3>1. run' = [run EXCEPT ![r] = x]
      BY <1>0, <2>5 DEF NextAttempt
    <3>2. m.attempt + 1 \in Attempts /\ m.attempt + 1 \in 0..MaxAttempts
      BY <1>0, <1>3, <2>2, <2>5 DEF Attempts
    <3>3. /\ x \in Called /\ x.pc = "starting" /\ x.host = m.host /\ x.attempt = m.attempt + 1
          /\ x.verdict = m.verdict
      BY <1>2, <3>2 DEF Called, Launched
    <3> HIDE DEF x, m, marks
    <3>4. \A a \in Attempts : /\ a < m.attempt + 1 => marks[a] \in {"failed", "timeout"}
                              /\ a > m.attempt + 1 => marks[a] = "none"
      BY <1>3, <1>4, <2>1, <2>2, <2>5 DEF Attempts, marks
    <3>5. RunTells(x, marks)
      BY <1>3, <3>2, <3>3, <3>4 DEF RunTells, Launched
    <3> QED
      BY <1>0, <1>1, <2>0, <2>1, <3>1, <3>3, <3>5, RunGoesOn DEF Launched, m, marks
  <2> QED
    BY <1>11, <2>3, <2>4, <2>5 DEF Recorded
<1>12. CASE WriteFails(r)
  <2>1. writeFaults' \in 0..MaxWriteFaults /\ UNCHANGED <<handlers, told, rows>>
    BY <1>0, <1>12 DEF WriteFails
  <2>2. CASE run' = [run EXCEPT ![r].pc = "releasing", ![r].verdict = "threw"]
    <3> DEFINE x == [m EXCEPT !.pc = "releasing", !.verdict = "threw"]
    <3>1. run' = [run EXCEPT ![r] = x]
      BY <1>0, <2>2
    <3>2. /\ x \in Called /\ x.pc = "releasing" /\ x.host = m.host /\ x.attempt = m.attempt /\ x.verdict = "threw"
      BY <1>2 DEF Called, Launched
    <3> HIDE DEF x, m, Stamp
    <3>3. RunTells(x, rows[r])
      BY <1>3, <3>2 DEF RunTells, Launched
    <3>4. rows' = [rows EXCEPT ![r] = rows[r]]
      BY <1>5, <2>1
    <3> QED
      BY <1>0, <1>1, <1>2, <2>1, <3>1, <3>2, <3>3, <3>4, RunGoesOn DEF Launched, m
  <2>3. CASE m.pc = "recording" /\ Failed(r, "failed")
    BY <1>8, <2>1, <2>3
  <2> QED
    BY <1>12, <2>2, <2>3 DEF WriteFails
<1>13. CASE Wait(r)
  <2>0. m.pc = "waiting" /\ UNCHANGED <<handlers, told, rows, writeFaults>>
    BY <1>13 DEF Wait
  <2>1. m.verdict \in {"failed", "timeout"} /\ m.attempt < MaxAttempts /\ rows[r][m.attempt] = m.verdict
    BY <1>2, <2>0 DEF RunTells
  <2>2. CASE NextAttempt(r)
    <3> DEFINE x == [m EXCEPT !.pc = "starting", !.attempt = m.attempt + 1]
    <3>1. run' = [run EXCEPT ![r] = x]
      BY <1>0, <2>2 DEF NextAttempt
    <3>2. m.attempt + 1 \in Attempts /\ m.attempt + 1 \in 0..MaxAttempts
      BY <1>0, <1>3, <2>1 DEF Attempts
    <3>3. /\ x \in Called /\ x.pc = "starting" /\ x.host = m.host /\ x.attempt = m.attempt + 1
          /\ x.verdict = m.verdict
      BY <1>2, <3>2 DEF Called, Launched
    <3> HIDE DEF x, m, Stamp
    <3>4. \A a \in Attempts : /\ a < m.attempt + 1 => rows[r][a] \in {"failed", "timeout"}
                              /\ a > m.attempt + 1 => rows[r][a] = "none"
      BY <1>3, <1>4, <2>1 DEF Attempts
    <3>5. RunTells(x, rows[r])
      BY <1>3, <3>2, <3>3, <3>4 DEF RunTells, Launched
    <3>6. rows' = [rows EXCEPT ![r] = rows[r]]
      BY <1>5, <2>0
    <3> QED
      BY <1>0, <1>1, <1>2, <2>0, <3>1, <3>3, <3>5, <3>6, RunGoesOn DEF Launched, m
  <2>3. CASE run' = [run EXCEPT ![r].pc = "recording", ![r].verdict = "cancelled"]
    <3> DEFINE x == [m EXCEPT !.pc = "recording", !.verdict = "cancelled"]
    <3>1. run' = [run EXCEPT ![r] = x]
      BY <1>0, <2>3
    <3>2. /\ x \in Called /\ x.pc = "recording" /\ x.host = m.host /\ x.attempt = m.attempt /\ x.verdict = "cancelled"
      BY <1>2 DEF Called, Launched, Verdicts
    <3> HIDE DEF x, m, Stamp
    <3>3. RunTells(x, rows[r])
      BY <1>3, <1>4, <3>2 DEF RunTells, Launched, Verdicts
    <3>4. rows' = [rows EXCEPT ![r] = rows[r]]
      BY <1>5, <2>0
    <3> QED
      BY <1>0, <1>1, <1>2, <2>0, <3>1, <3>2, <3>3, <3>4, RunGoesOn DEF Launched, m
  <2> QED
    BY <1>13, <2>2, <2>3 DEF Wait
<1> QED
  BY <1>7, <1>9, <1>10, <1>11, <1>12, <1>13

\* run() is called: skipped, or launched at once when there is no lock to take.
LEMMA TickKeeps ==
  ASSUME JobInv, NEW r \in Runs, NEW h \in Hosts, Tick(r, h)
  PROVE  JobInv'
<1>0. /\ run[r] = NotCalled /\ run[r].pc = "idle" /\ UNCHANGED <<job, locks, handlers, told, rows, writeFaults>>
      /\ locks \in [Hosts -> 0..Cardinality(Runs)] /\ RunTells(run[r], rows[r]) /\ 1 \in Attempts
      /\ run \in [Runs -> {NotCalled} \cup Called] /\ runtime \in [Hosts -> Runtime]
  BY JobsAssumption DEF Tick, JobInv, JobTypeOK, NotCalled, Called, Runtime, Attempts
<1>1. \A a \in Attempts : rows[r][a] = "none"
  BY <1>0 DEF RunTells
<1> DEFINE Begins(pc, attempt) == [pc |-> pc, host |-> h, attempt |-> attempt, aborted |-> FALSE, verdict |-> "none"]
<1>2. ASSUME NEW pc \in {"skipped", "acquiring"}, Call(r, h, pc, 0), UNCHANGED runtime, pc = "acquiring" => job.locked
      PROVE  JobInv'
  <2> DEFINE x == Begins(pc, 0)
  <2>1. x \in Called /\ x.pc = pc /\ x.host = h
    BY <1>2, JobsAssumption DEF Called
  <2>2. run' = [run EXCEPT ![r] = x]
    BY <1>2 DEF Call
  <2>3. RunTells(x, rows[r])
    BY <1>1, <1>2 DEF RunTells, Launched
  <2>4. EntryHolds(job.locked, x, r, runtime)
    BY <1>2 DEF EntryHolds, Launched
  <2> HIDE DEF x
  <2>5. \A g \in Hosts : Underway(g, run') = Underway(g, run)
    BY <1>0, <1>2, <2>1, <2>2 DEF Underway, Launched
  <2>6. SessionsHold(job.locked, run', locks')
    BY <1>0, <2>5 DEF JobInv, SessionsHold
  <2>7. run[r].pc # "ended" /\ ~(run[r].pc \in Launched) /\ locks' \in [Hosts -> 0..Cardinality(Runs)]
    BY <1>0 DEF Launched
  <2>8. runtime' = runtime /\ EntryHolds(job.locked, x, r, runtime') /\ UNCHANGED <<job, handlers, told, rows, writeFaults>>
    BY <1>0, <1>2, <2>4
  <2> QED
    BY <2>1, <2>2, <2>3, <2>6, <2>7, <2>8, RunComesAndGoes
<1>3. ASSUME ~runtime[h].stopped, runtime[h].running = NoRun, ~job.locked, Call(r, h, "starting", 1),
             runtime' = [runtime EXCEPT ![h].running = r]
      PROVE  JobInv'
  <2> DEFINE x == Begins("starting", 1)
  <2>1. x \in Called /\ x.pc = "starting" /\ x.host = h /\ x.attempt = 1 /\ x.verdict = "none"
    BY JobsAssumption DEF Called, Launched
  <2>2. run' = [run EXCEPT ![r] = x]
    BY <1>3 DEF Call
  <2> HIDE DEF x
  <2>3. RunTells(x, rows[r])
    <3>1. \A a \in Attempts : ~(a < 1)
      BY DEF Attempts
    <3> QED
      BY <1>0, <1>1, <2>1, <3>1 DEF RunTells, Launched
  <2>4. /\ runtime'[h].running = r /\ ~runtime'[h].stopped /\ runtime'[h].answer = "none"
    BY <1>0, <1>3 DEF JobInv, StopsAnswer, Runtime
  <2>5. EntryHolds(job.locked, x, r, runtime')
    BY <2>1, <2>4 DEF EntryHolds
  <2>6. \A s \in Runs \ {r} : ~(run[s].pc \in Launched /\ run[s].host = h)
    BY <1>3, JobsAssumption DEF JobInv, EntryHolds
  <2>7. SessionsHold(job.locked, run', locks') /\ locks' \in [Hosts -> 0..Cardinality(Runs)]
    BY <1>0, <1>3 DEF JobInv, SessionsHold
  <2>8. run[r].pc # "ended" /\ ~(run[r].pc \in Launched) /\ x.pc \in Launched
        /\ UNCHANGED <<job, handlers, told, rows, writeFaults>>
        /\ runtime' = [runtime EXCEPT ![x.host].running = r]
    BY <1>0, <1>3, <2>1 DEF Launched
  <2>9. \A s \in Runs \ {r} : ~(run[s].pc \in Launched /\ run[s].host = x.host)
    BY <2>1, <2>6
  <2> QED
    BY <2>1, <2>2, <2>3, <2>5, <2>7, <2>8, <2>9, RunComesAndGoes
<1> HIDE DEF Begins
<1> QED
  BY <1>2, <1>3 DEF Tick

\* The lock is taken, or held by another session.
LEMMA AcquireKeeps ==
  ASSUME JobInv, NEW r \in Runs, Acquire(r)
  PROVE  JobInv'
<1> DEFINE m == run[r]
<1>0. /\ m.pc = "acquiring" /\ UNCHANGED <<job, handlers, told, rows, writeFaults>>
      /\ locks \in [Hosts -> 0..Cardinality(Runs)] /\ RunTells(m, rows[r]) /\ 1 \in Attempts
      /\ run \in [Runs -> {NotCalled} \cup Called] /\ runtime \in [Hosts -> Runtime]
      /\ EntryHolds(job.locked, m, r, runtime) /\ SessionsHold(job.locked, run, locks)
      /\ \A s \in Runs : EntryHolds(job.locked, run[s], s, runtime)
  BY JobsAssumption DEF Acquire, JobInv, JobTypeOK, Called, Runtime, Attempts
<1>1. /\ \A a \in Attempts : rows[r][a] = "none"
      /\ m \in Called /\ m.verdict # "threw" /\ job.locked /\ m.host \in Hosts
  <2>1. m \in Called
    BY <1>0, RunShapes
  <2> QED
    BY <1>0, <2>1 DEF RunTells, EntryHolds, Called
<1>2. ASSUME RunGoes(r, "skipped"), UNCHANGED <<runtime, locks>> PROVE JobInv'
  <2> DEFINE x == [m EXCEPT !.pc = "skipped"]
  <2>1. x \in Called /\ x.pc = "skipped" /\ x.host = m.host
    BY <1>1 DEF Called
  <2>2. run' = [run EXCEPT ![r] = x]
    BY <1>0, <1>2 DEF RunGoes
  <2> HIDE DEF x
  <2>3. RunTells(x, rows[r])
    BY <1>1, <2>1 DEF RunTells, Launched
  <2>4. EntryHolds(job.locked, x, r, runtime)
    BY <1>1 DEF EntryHolds
  <2>5. \A g \in Hosts : Underway(g, run') = Underway(g, run)
    BY <1>0, <2>1, <2>2 DEF Underway, Launched
  <2>6. SessionsHold(job.locked, run', locks') /\ locks' \in [Hosts -> 0..Cardinality(Runs)]
    BY <1>0, <1>2, <2>5 DEF SessionsHold
  <2>7. run[r].pc # "ended" /\ ~(run[r].pc \in Launched)
    BY <1>0 DEF Launched
  <2>8. runtime' = runtime /\ EntryHolds(job.locked, x, r, runtime') /\ UNCHANGED <<job, handlers, told, rows, writeFaults>>
    BY <1>0, <1>2, <2>4
  <2> HIDE DEF m
  <2> QED
    BY <2>1, <2>2, <2>3, <2>6, <2>7, <2>8, RunComesAndGoes
<1>3. ASSUME \A g \in Hosts \ {m.host} : locks[g] = 0, locks' = [locks EXCEPT ![m.host] = @ + 1], Launch(r) PROVE JobInv'
  <2> DEFINE x == [m EXCEPT !.pc = "starting", !.attempt = 1]
  <2>1. x \in Called /\ x.pc = "starting" /\ x.host = m.host /\ x.attempt = 1 /\ x.verdict = m.verdict
    <3>1. 1 \in 0..MaxAttempts
      BY JobsAssumption
    <3> QED
      BY <1>1, <3>1 DEF Called, Launched
  <2>2. run' = [run EXCEPT ![r] = x] /\ runtime' = [runtime EXCEPT ![m.host].running = r]
    BY <1>0, <1>3 DEF Launch, Host
  <2> HIDE DEF x
  <2>3. RunTells(x, rows[r])
    <3>1. \A a \in Attempts : ~(a < 1)
      BY DEF Attempts
    <3> QED
      BY <1>0, <1>1, <2>1, <3>1 DEF RunTells, Launched
  <2>4. EntryHolds(job.locked, x, r, runtime')
    BY <1>1 DEF EntryHolds
  <2>5. Underway(m.host, run') = Underway(m.host, run) \cup {r} /\ r \notin Underway(m.host, run)
    BY <1>0, <2>1, <2>2 DEF Underway, Launched
  <2>6. \A g \in Hosts \ {m.host} : Underway(g, run') = Underway(g, run)
    BY <1>0, <2>1, <2>2 DEF Underway, Launched
  <2>7. Cardinality(Underway(m.host, run')) = Cardinality(Underway(m.host, run)) + 1
    BY <2>5, UnderwayFinite, FS_AddElement
  <2>8. \A g \in Hosts : locks'[g] = Cardinality(Underway(g, run'))
    BY <1>0, <1>1, <1>3, <2>6, <2>7 DEF SessionsHold
  <2>9. SessionsHold(job.locked, run', locks')
    BY <1>0, <1>1, <1>3, <2>8 DEF SessionsHold
  <2>10. locks' \in [Hosts -> 0..Cardinality(Runs)]
    <3>1. \A g \in Hosts : Cardinality(Underway(g, run')) \in 0..Cardinality(Runs)
      BY UnderwayFinite
    <3>2. locks' = [g \in Hosts |-> locks'[g]] /\ \A g \in Hosts : locks'[g] \in 0..Cardinality(Runs)
      BY <1>0, <1>3, <2>8, <3>1
    <3> QED
      BY <3>2
  <2>11. run[r].pc # "ended" /\ ~(run[r].pc \in Launched) /\ x.pc \in Launched
    BY <1>0, <2>1 DEF Launched
  <2>12. UNCHANGED <<job, handlers, told, rows, writeFaults>> /\ runtime' = [runtime EXCEPT ![x.host].running = r]
         /\ job.locked
    BY <1>0, <1>1, <2>1, <2>2
  <2> HIDE DEF m
  <2> QED
    BY <2>1, <2>2, <2>3, <2>4, <2>9, <2>10, <2>11, <2>12, RunComesAndGoes
<1> QED
  BY <1>2, <1>3 DEF Acquire, Skip, Host

\* A run ends; only one session can have held the lock, and without one the entry was its own.
LEMMA ReleaseKeeps ==
  ASSUME JobInv, NEW r \in Runs, Release(r)
  PROVE  JobInv'
<1> DEFINE m == run[r]
           x == [m EXCEPT !.pc = "ended"]
<1>0. /\ m.pc = "releasing" /\ UNCHANGED <<job, handlers, told, rows, writeFaults>> /\ locks' = Unlocked(r)
      /\ locks \in [Hosts -> 0..Cardinality(Runs)] /\ RunTells(m, rows[r])
      /\ run \in [Runs -> {NotCalled} \cup Called] /\ runtime \in [Hosts -> Runtime]
      /\ SessionsHold(job.locked, run, locks) /\ m.pc \in Launched
      /\ \A s \in Runs : EntryHolds(job.locked, run[s], s, runtime)
      /\ runtime' = [runtime EXCEPT ![m.host].running = NoRun]
  BY DEF Release, JobInv, JobTypeOK, Called, Runtime, Launched, Host
<1>1. m \in Called /\ m.host \in Hosts
  <2>1. m \in Called
    BY <1>0, RunShapes
  <2> QED
    BY <2>1 DEF Called
<1>2. /\ x \in Called /\ x.pc = "ended" /\ x.host = m.host /\ x.attempt = m.attempt /\ x.verdict = m.verdict
  BY <1>1 DEF Called
<1>3. run' = [run EXCEPT ![r] = x]
  BY <1>0 DEF Release, RunGoes
<1> HIDE DEF x
<1>4. RunTells(x, rows[r])
  BY <1>0, <1>2 DEF RunTells, Launched
<1>5. EntryHolds(job.locked, x, r, runtime')
  BY <1>2 DEF EntryHolds, Launched
<1>6. ~job.locked => \A s \in Runs \ {r} : ~(run[s].pc \in Launched /\ run[s].host = m.host)
  BY <1>0 DEF EntryHolds
<1>7. SessionsHold(job.locked, run', locks') /\ locks' \in [Hosts -> 0..Cardinality(Runs)]
  <2>1. CASE ~job.locked
    BY <1>0, <2>1 DEF SessionsHold, Unlocked
  <2>2. CASE job.locked
    <3>1. Underway(m.host, run') = Underway(m.host, run) \ {r} /\ r \in Underway(m.host, run)
      BY <1>0, <1>2, <1>3 DEF Underway, Launched
    <3>2. \A g \in Hosts \ {m.host} : Underway(g, run') = Underway(g, run)
      BY <1>0, <1>2, <1>3 DEF Underway, Launched
    <3>3. Cardinality(Underway(m.host, run')) = Cardinality(Underway(m.host, run)) - 1
      BY <3>1, UnderwayFinite, FS_RemoveElement
    <3>4. locks' = [locks EXCEPT ![m.host] = @ - 1]
      BY <1>0, <2>2 DEF Unlocked, Host
    <3>5. \A g \in Hosts : locks'[g] = Cardinality(Underway(g, run'))
      BY <1>0, <1>1, <2>2, <3>2, <3>3, <3>4 DEF SessionsHold
    <3>6. \A g \in Hosts : Cardinality(Underway(g, run')) \in 0..Cardinality(Runs)
      BY UnderwayFinite
    <3>7. locks' \in [Hosts -> 0..Cardinality(Runs)]
      BY <1>0, <3>4, <3>5, <3>6
    <3>8. \A g \in Hosts : locks'[g] <= locks[g] /\ locks[g] \in Nat /\ locks'[g] \in Nat
      <4>1. Cardinality(Runs) \in Nat
        BY UnderwayFinite
      <4> QED
        BY <1>0, <1>1, <3>4, <3>7, <4>1
    <3>9. \A g, h \in Hosts : locks'[g] > 0 /\ locks'[h] > 0 => g = h
      BY <1>0, <2>2, <3>8 DEF SessionsHold
    <3> QED
      BY <2>2, <3>5, <3>7, <3>9 DEF SessionsHold
  <2> QED
    BY <2>1, <2>2
<1>8. /\ run[r].pc # "ended" /\ runtime' = [runtime EXCEPT ![x.host].running = NoRun]
      /\ UNCHANGED <<job, handlers, told, rows, writeFaults>>
      /\ ~job.locked => \A s \in Runs \ {r} : ~(run[s].pc \in Launched /\ run[s].host = x.host)
  BY <1>0, <1>2, <1>6
<1> HIDE DEF m
<1> QED
  BY <1>2, <1>3, <1>4, <1>5, <1>7, <1>8, RunComesAndGoes

\* stop() aborts the entry of its process and waits for it.
LEMMA StopKeeps ==
  ASSUME JobInv, NEW h \in Hosts, Stop(h)
  PROVE  JobInv'
<1> DEFINE r == runtime[h].running
           entry == [stopped |-> TRUE, running |-> r, awaits |-> r, answer |-> IF r = NoRun THEN "drained" ELSE "waiting"]
           x == [run[r] EXCEPT !.aborted = TRUE]
<1>0. /\ run \in [Runs -> {NotCalled} \cup Called] /\ runtime \in [Hosts -> Runtime] /\ r \in Runs \cup {NoRun}
      /\ told \subseteq Runs \X Attempts /\ ~runtime[h].stopped /\ runtime' = [runtime EXCEPT ![h] = entry]
      /\ UNCHANGED <<job, locks, handlers, rows, writeFaults>>
      /\ \A s \in Runs : EntryHolds(job.locked, run[s], s, runtime) /\ RunTells(run[s], rows[s])
      /\ SessionsHold(job.locked, run, locks) /\ EntriesCalled
  BY DEF JobInv, JobTypeOK, Called, Runtime, Stop
<1>1. entry \in Runtime /\ entry.stopped /\ entry.running = r /\ entry.awaits = r
      /\ (entry.answer = "drained" => r = NoRun)
  BY <1>0 DEF Runtime
<1>2. runtime' \in [Hosts -> Runtime] /\ runtime'[h] = entry /\ \A g \in Hosts \ {h} : runtime'[g] = runtime[g]
  BY <1>0, <1>1
<1> HIDE DEF entry
<1>3. r # NoRun => /\ r \in Runs /\ run[r] \in Called /\ run' = [run EXCEPT ![r] = x] /\ x \in Called
                   /\ x.pc = run[r].pc /\ x.host = run[r].host /\ x.attempt = run[r].attempt
                   /\ x.verdict = run[r].verdict
  <2> SUFFICES ASSUME r # NoRun
               PROVE  /\ r \in Runs /\ run[r] \in Called /\ run' = [run EXCEPT ![r] = x] /\ x \in Called
                      /\ x.pc = run[r].pc /\ x.host = run[r].host /\ x.attempt = run[r].attempt
                      /\ x.verdict = run[r].verdict
    OBVIOUS
  <2>1. r \in Runs /\ run[r].pc # "idle"
    BY <1>0 DEF EntriesCalled, Launched
  <2>2. run[r] \in Called
    BY <1>0, <2>1, RunShapes
  <2>3. run' = [run EXCEPT ![r] = x]
    BY <1>0, <2>1 DEF Stop
  <2> QED
    BY <2>1, <2>2, <2>3 DEF Called
<1>4. r = NoRun => run' = run
  BY DEF Stop
<1> HIDE DEF x
<1>5. /\ run' \in [Runs -> {NotCalled} \cup Called]
      /\ \A s \in Runs : run'[s].pc = run[s].pc /\ (run[s].pc # "idle" =>
            run'[s].host = run[s].host /\ run'[s].attempt = run[s].attempt /\ run'[s].verdict = run[s].verdict)
  <2>1. CASE r = NoRun
    BY <1>0, <1>4, <2>1
  <2>2. CASE r # NoRun
    BY <1>0, <1>3, <2>2
  <2> QED
    BY <2>1, <2>2
<1>6. told' \subseteq Runs \X Attempts
  <2>1. CASE r # NoRun /\ run[r].pc = "working"
    <3>1. Attempt(r) \in Runs \X Attempts
      BY <1>0, <1>3, <2>1 DEF RunTells, Launched, Attempt
    <3> QED
      BY <1>0, <2>1, <3>1 DEF Stop
  <2>2. CASE ~(r # NoRun /\ run[r].pc = "working")
    BY <1>0, <2>2 DEF Stop
  <2> QED
    BY <2>1, <2>2
<1>7. JobTypeOK'
  BY <1>0, <1>2, <1>5, <1>6 DEF JobInv, JobTypeOK, Called, Runtime
<1>8. \A g \in Hosts : Underway(g, run') = Underway(g, run)
  BY <1>5 DEF Underway, Launched
<1>9. SessionsHold(job.locked, run', locks)
  BY <1>0, <1>8 DEF SessionsHold
<1>10. ASSUME NEW s \in Runs PROVE EntryHolds(job.locked, run'[s], s, runtime') /\ RunTells(run'[s], rows[s])
  <2>1. EntryHolds(job.locked, run[s], s, runtime) /\ RunTells(run[s], rows[s])
    BY <1>0
  <2>2. RunTells(run'[s], rows[s])
    BY <1>5, <2>1 DEF RunTells, Launched
  <2>3. EntryHolds(job.locked, run'[s], s, runtime')
    <3>1. CASE job.locked \/ run[s].pc \notin Launched
      BY <1>5, <2>1, <3>1 DEF EntryHolds
    <3>2. CASE ~job.locked /\ run[s].pc \in Launched
      <4>1. run[s].pc # "idle" /\ run[s].host \in Hosts
        BY <1>0, <3>2, RunShapes DEF Launched, Called
      <4>2. run'[s].pc = run[s].pc /\ run'[s].host = run[s].host
        BY <1>5, <4>1
      <4>3. CASE run[s].host # h
        BY <1>2, <2>1, <4>1, <4>2, <4>3 DEF EntryHolds
      <4>4. CASE run[s].host = h
        <5>1. r = s /\ r # NoRun
          BY <2>1, <3>2, <4>4, JobsAssumption DEF EntryHolds
        <5> QED
          BY <1>1, <1>2, <2>1, <4>2, <4>4, <5>1 DEF EntryHolds
      <4> QED
        BY <4>3, <4>4
    <3> QED
      BY <3>1, <3>2
  <2> QED
    BY <2>2, <2>3
<1>11. EntriesCalled'
  <2>1. \A g \in Hosts : runtime'[g].running = runtime[g].running
    BY <1>1, <1>2
  <2>2. \A g \in Hosts : runtime[g].running # NoRun => runtime[g].running \in Runs
    BY <1>0 DEF Runtime
  <2> QED
    BY <1>0, <1>5, <2>1, <2>2 DEF EntriesCalled
<1>12. StopsAnswer'
  BY <1>1, <1>2 DEF JobInv, StopsAnswer
<1> HIDE DEF r
<1> QED
  BY <1>0, <1>7, <1>9, <1>10, <1>11, <1>12 DEF JobInv

\* stop() answers.
LEMMA AnswerKeeps ==
  ASSUME JobInv, NEW h \in Hosts, Drained(h) \/ ShutdownTimeout(h)
  PROVE  JobInv'
<1> DEFINE answer == IF Drained(h) THEN "drained" ELSE "late"
<1>0. /\ runtime \in [Hosts -> Runtime] /\ runtime[h].answer = "waiting"
      /\ UNCHANGED <<job, run, locks, handlers, told, rows, writeFaults>>
      /\ \A s \in Runs : EntryHolds(job.locked, run[s], s, runtime)
      /\ run \in [Runs -> {NotCalled} \cup Called]
  BY DEF JobInv, JobTypeOK, Drained, ShutdownTimeout, Answer, Runtime, Called
<1>1. PICK said \in {"drained", "late"} :
        /\ runtime' = [runtime EXCEPT ![h].answer = said]
        /\ said = "drained" => run[runtime[h].awaits].pc = "ended"
  BY DEF Drained, ShutdownTimeout, Answer
<1>2. /\ runtime' \in [Hosts -> Runtime] /\ \A g \in Hosts \ {h} : runtime'[g] = runtime[g]
      /\ \A g \in Hosts : /\ runtime'[g].stopped = runtime[g].stopped /\ runtime'[g].running = runtime[g].running
                           /\ runtime'[g].awaits = runtime[g].awaits
      /\ runtime'[h].answer = said
  BY <1>0, <1>1 DEF Runtime
<1>3. runtime[h].stopped
  BY <1>0 DEF JobInv, StopsAnswer
<1>4. ASSUME NEW s \in Runs PROVE EntryHolds(job.locked, run[s], s, runtime')
  <2>1. EntryHolds(job.locked, run[s], s, runtime)
    BY <1>0
  <2>2. CASE job.locked \/ run[s].pc \notin Launched
    BY <2>1, <2>2 DEF EntryHolds
  <2>3. CASE ~job.locked /\ run[s].pc \in Launched
    <3>1. run[s].host \in Hosts
      BY <1>0, <2>3, RunShapes DEF Launched, Called
    <3>2. CASE run[s].host # h
      BY <1>2, <2>1, <3>1, <3>2 DEF EntryHolds
    <3>3. CASE run[s].host = h
      <4>1. runtime[h].awaits = s
        BY <1>3, <2>1, <2>3, <3>3 DEF EntryHolds
      <4>2. said # "drained"
        BY <1>1, <2>3, <4>1 DEF Launched
      <4> QED
        BY <1>2, <2>1, <3>3, <4>2 DEF EntryHolds
    <3> QED
      BY <3>2, <3>3
  <2> QED
    BY <2>2, <2>3
<1>5. JobTypeOK'
  BY <1>0, <1>2 DEF JobInv, JobTypeOK, Runtime
<1>6. StopsAnswer' /\ EntriesCalled'
  BY <1>0, <1>2, <1>3 DEF JobInv, StopsAnswer, EntriesCalled
<1> QED
  BY <1>0, <1>4, <1>5, <1>6 DEF JobInv

\* Ticks, retries, timeouts, failing writes and stops keep runs, locks, entries and rows
\* together.
LEMMA JobStays ==
  ASSUME JobInv, [JobNext]_jobVars
  PROVE  JobInv'
<1>1. ASSUME NEW r \in Runs, NEW a \in Attempts, AbandonedEnds(r, a) PROVE JobInv'
  BY <1>1 DEF AbandonedEnds, JobInv, JobTypeOK, StopsAnswer, EntriesCalled
<1>2. CASE UNCHANGED jobVars
  BY <1>2 DEF jobVars, JobInv, JobTypeOK, StopsAnswer, EntriesCalled
<1> QED
  BY <1>1, <1>2, TickKeeps, AcquireKeeps, WorkKeeps, ReleaseKeeps, StopKeeps, AnswerKeeps DEF JobNext

\* For any processes, runs and attempts: runs exclude each other as the job asks, a runtime
\* that said it was drained stays so, and the rows tell what became of a run (core/jobs/
\* index.ts:183-210, 258-285, 305-340).
THEOREM RunsKeepTheirPromise == JobSpec => []RunsHold
<1>1. ASSUME JobInv PROVE RunsHold
  <2>0. job.locked \in BOOLEAN /\ run \in [Runs -> {NotCalled} \cup Called]
        /\ locks \in [Hosts -> 0..Cardinality(Runs)] /\ Cardinality(Runs) \in Nat
    BY <1>1, UnderwayFinite DEF JobInv, JobTypeOK, Called
  <2>1. ASSUME NEW r \in Runs, NEW s \in Runs, r # s, run[r].pc \in Launched, run[s].pc \in Launched
        PROVE  job.locked = (Host(r) = Host(s))
    <3>1. run[r].host \in Hosts /\ run[s].host \in Hosts
      BY <2>0, <2>1, RunShapes DEF Launched, Called
    <3>2. CASE job.locked
      <4>1. \A h \in Hosts : Underway(h, run) # {} => locks[h] > 0
        <5> SUFFICES ASSUME NEW h \in Hosts, Underway(h, run) # {} PROVE locks[h] > 0
          OBVIOUS
        <5>1. IsFiniteSet(Underway(h, run)) /\ Cardinality(Underway(h, run)) \in Nat
              /\ locks[h] = Cardinality(Underway(h, run))
          BY <1>1, <2>0, <3>2, UnderwayFinite DEF JobInv, SessionsHold
        <5>2. Cardinality(Underway(h, run)) # 0
          BY <5>1, FS_EmptySet
        <5> QED
          BY <5>1, <5>2
      <4>2. r \in Underway(run[r].host, run) /\ s \in Underway(run[s].host, run)
        BY <2>1 DEF Underway
      <4>3. run[r].host = run[s].host
        BY <1>1, <3>1, <3>2, <4>1, <4>2 DEF JobInv, SessionsHold
      <4> QED
        BY <3>2, <4>3 DEF Host
    <3>3. CASE ~job.locked
      <4>1. run[r].host # run[s].host
        BY <1>1, <2>1, <3>3 DEF JobInv, EntryHolds
      <4> QED
        BY <2>0, <3>3, <4>1 DEF Host
    <3> QED
      BY <3>2, <3>3
  <2>2. RunsExclude
    BY <2>1 DEF RunsExclude
  <2>3. DrainedStaysDrained
    BY <1>1 DEF JobInv, EntryHolds, DrainedStaysDrained, Host
  <2>4. RowsTell
    BY <1>1 DEF JobInv, RunTells, RowsTell
  <2> QED
    BY <1>1, <2>2, <2>3, <2>4 DEF JobInv, RunsHold
<1>2. JobInv /\ [JobNext]_jobVars => JobInv'
  BY JobStays
<1> QED
  BY <1>1, <1>2, JobStarts, PTL DEF JobSpec
=============================================================================
