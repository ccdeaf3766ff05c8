----------------------------- MODULE AppRegistry ----------------------------
(***************************************************************************)
(* The application registry as a service: every public operation of        *)
(* AppRegistryService on one installation, in any order its callers may    *)
(* choose.  Callers name the revision they last read; a call with another  *)
(* revision is refused with STALE_REVISION and is a stuttering step here.  *)
(* The two save checks of the repository are modelled separately, as the   *)
(* code writes them separately.                                            *)
(***************************************************************************)
EXTENDS Registry, FiniteSets

CONSTANT MaxRevision     \* bound of the model: no operation starts at this revision

ASSUME MaxRevisionAssumption == MaxRevision \in Nat \ {0}

VARIABLES
  rec,       \* the stored record, or NoApp
  issued     \* every credential <<identity, secret>> ever handed out

vars == <<rec, issued>>

NoApp == [rev |-> 0]
Present == rec # NoApp
MayWrite == Present /\ rec.rev < MaxRevision

TypeOK ==
  /\ rec \in Installation \cup {NoApp}
  /\ issued \subseteq Nat \X Nat

Init == rec = NoApp /\ issued = {}
-----------------------------------------------------------------------------
Register(p) ==
  /\ ~Present
  /\ rec' = Registered(p)
  /\ UNCHANGED issued

BeginLifecycle(action, target) ==
  /\ MayWrite /\ CanBegin(rec, action, target)
  /\ rec' = Begun(rec, action, target)
  /\ UNCHANGED issued

SettleLifecycle(id, outcome) ==
  /\ MayWrite /\ CanSettle(rec, id)
  /\ rec' = Settled(rec, outcome)
  /\ UNCHANGED issued

SetEnabled(on) ==
  /\ MayWrite /\ CanChange(rec, IF on THEN "enabled" ELSE "disabled")
  /\ rec' = WithEnabled(rec, on)
  /\ UNCHANGED issued

SetRuntimePackage(p) ==
  /\ MayWrite /\ CanSetPackage(rec, p)
  /\ rec' = WithPackage(rec, p)
  /\ UNCHANGED issued

ApproveGrant(mode, perm) ==
  /\ MayWrite /\ CanApprove(rec, mode, perm)
  /\ rec' = WithGrant(rec, mode, perm)
  /\ UNCHANGED issued

RevokeGrant(grant) ==
  /\ MayWrite /\ CanChange(rec, "grant-revoked")
  /\ rec' = WithRevoked(rec, grant)
  /\ UNCHANGED issued

IssueServiceCredential ==
  /\ MayWrite /\ CanChange(rec, "credential-issued")
  /\ rec' = WithCredential(rec)
  /\ issued' = issued \cup {<<rec'.identity, rec'.secret>>}

RenewServiceCredential ==
  /\ MayWrite /\ CanRenew(rec)
  /\ rec' = WithRenewed(rec)
  /\ issued' = issued \cup {<<rec'.identity, rec'.secret>>}

RevokeServiceCredential ==
  /\ MayWrite /\ CanChange(rec, "credential-revoked")
  /\ rec' = WithoutCredential(rec)
  /\ UNCHANGED issued

Next ==
  \/ \E p \in Packages : Register(p) \/ SetRuntimePackage(p)
  \/ \E a \in Actions, t \in Versions \cup {0} : BeginLifecycle(a, t)
  \/ \E o \in Outcomes : Present /\ SettleLifecycle(rec.op.id, o)
  \/ \E on \in BOOLEAN : SetEnabled(on)
  \/ \E m \in Modes, p \in Perms : ApproveGrant(m, p)
  \/ Present /\ \E g \in rec.grants : RevokeGrant(g)
  \/ IssueServiceCredential
  \/ RenewServiceCredential
  \/ RevokeServiceCredential

Spec == Init /\ [][Next]_vars

\* What authenticateServiceCredential compares, apart from the record being enabled.
Current(c) == Present /\ rec.secret # 0 /\ c = <<rec.identity, rec.secret>>
-----------------------------------------------------------------------------
(***************************************************************************)
(* The repository's own checks (registry/repository.ts), written against   *)
(* the old and the new record and not against the operation.               *)
(***************************************************************************)
\* The WHERE clause of save: manifest and lifecycle untouched, one revision
\* further, and no enabling of a disabled record that has a lifecycle.
SaveAccepts(old, new) ==
  /\ new.rev = old.rev + 1
  /\ new.ver = old.ver
  /\ new.op = old.op
  /\ old.op = NoOp \/ old.enabled \/ ~new.enabled

\* validateLifecycleTransition: the only record a lifecycle step may store.
OpeningAccepted(old, new) ==
  /\ ~Blocked(old)
  /\ new.op.status = "running"
  /\ new.op.action = "install" => old.op = NoOp /\ ~old.enabled
  /\ IF new.op.action \in VersionChanges
     THEN new.op.target # old.ver /\ new.op.target # 0
     ELSE new.op.target = 0
  /\ new = [old EXCEPT !.rev = @ + 1, !.enabled = FALSE, !.op = new.op]

SettlingAccepted(old, new) ==
  LET settling == [old EXCEPT !.rev = @ + 1, !.enabled = FALSE, !.op.status = new.op.status]
      cleared  == [settling EXCEPT !.grants = {}, !.identity = 0, !.secret = 0]
      done     == new.op.status = "completed"
  IN  /\ old.op.status \notin Closed
      /\ new.op.status \in Outcomes
      /\ \/ (done => old.op.action = "disable") /\ new = settling
         \/ done /\ old.op.action \in {"install", "enable"}
                 /\ new = [settling EXCEPT !.enabled = TRUE]
         \/ done /\ old.op.action \in VersionChanges
                 /\ new = [cleared EXCEPT !.ver = old.op.target]
         \/ done /\ old.op.action = "uninstall" /\ new = cleared

LifecycleAccepts(old, new) ==
  IF old.op = NoOp \/ new.op.id # old.op.id THEN OpeningAccepted(old, new)
                                            ELSE SettlingAccepted(old, new)
-----------------------------------------------------------------------------
(***************************************************************************)
(* What the registry promises.                                             *)
(***************************************************************************)
\* Once an installation has had a lifecycle operation, it is enabled only while
\* its latest operation is a completed install or enable: no other edit, in
\* whatever order, leaves an application enabled behind an open, failed or
\* different operation (registry/index.ts:89, 216).
EnabledOnlyBySettlement ==
  Present /\ rec.enabled /\ rec.op # NoOp
    => rec.op.action \in {"install", "enable"} /\ rec.op.status = "completed"

\* A grant is bound to what it was approved for: a service grant names the service
\* identity of now, never one that was reissued, revoked or dropped by a version change
\* since; and every grant is for a permission the current version declares, through
\* upgrades and rollbacks.
GrantsAreBound ==
  Present =>
    /\ \A g \in ServiceGrants(rec) : g.identity = rec.identity /\ rec.secret # 0
    /\ \A g \in rec.grants : g.perm \in Declares[rec.ver]

\* A finished uninstall is the end: nothing enables the record, gives it an
\* identity or a grant, or starts another operation on it.
UninstallIsFinal ==
  Present /\ Uninstalled(rec)
    => /\ ~rec.enabled /\ rec.identity = 0 /\ rec.secret = 0 /\ rec.grants = {}
       /\ \A a \in Actions, t \in Versions \cup {0} : ~CanBegin(rec, a, t)

\* A credential that has been replaced or revoked never authenticates again, although
\* identities and secrets come and go separately (registry/index.ts:166-188).
NoCredentialRevival == [][\A c \in issued : ~Current(c) => ~Current(c)']_vars

\* The repository never refuses what the service computed: each stored change
\* passes the check of the save the service uses for it, although both layers
\* spell out the rules independently (registry/repository.ts:63, 85-115).
RepositoryAgrees ==
  [][Present => SaveAccepts(rec, rec') \/ LifecycleAccepts(rec, rec')]_rec
=============================================================================
