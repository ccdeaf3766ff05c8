------------------------------ MODULE Registry ------------------------------
(***************************************************************************)
(* One installation record of the application registry                     *)
(* (server/src/app-platform/registry).  Every operation of the service is  *)
(* given as a guard (Can...) over the stored record and, where the record  *)
(* changes, the record it stores.  The operations run under a row lock in  *)
(* one database transaction, so each is a single step of every module that *)
(* uses it.  A call that is refused throws and stores nothing.             *)
(*                                                                         *)
(* Random identifiers (operation ids, service identities, secrets) are     *)
(* represented by the revision that created them, which no other revision  *)
(* reuses; 0 stands for null.                                              *)
(***************************************************************************)
EXTENDS Integers

CONSTANTS
  Versions,   \* manifest versions, ordered as numbers
  Packages,   \* uploaded .mopkg files: a version and the digest of its bytes
  Perms,      \* permission codes
  Declares    \* the permissions the manifest of each version requests or defines

ASSUME RegistryAssumption ==
  /\ Versions \subseteq Nat \ {0}
  /\ Packages \subseteq [ver : Versions, sha : Nat]
  /\ Declares \in [Versions -> SUBSET Perms]

Modes == {"service", "delegated_user"}
VersionChanges == {"upgrade", "rollback"}
Actions == {"install", "enable", "disable", "uninstall"} \cup VersionChanges
Outcomes == {"completed", "failed", "cancelled"}
Closed == {"completed", "cancelled"}

NoOp == [id |-> 0, action |-> "none", status |-> "completed", target |-> 0]
Operation == [id : Nat \ {0}, action : Actions, status : Outcomes \cup {"running"},
              target : Versions \cup {0}]
Grant == [mode : Modes, perm : Perms, identity : Nat, active : BOOLEAN]
Installation == [ver : Versions, pkg : Packages, enabled : BOOLEAN, rev : Nat \ {0},
                 op : Operation \cup {NoOp}, identity : Nat, secret : Nat,
                 grants : SUBSET Grant]

\* A first installation of package p: disabled, revision 1, no identity, no grant.
Registered(p) == [ver |-> p.ver, pkg |-> p, enabled |-> FALSE, rev |-> 1, op |-> NoOp,
                  identity |-> 0, secret |-> 0, grants |-> {}]
-----------------------------------------------------------------------------
Uninstalled(r) == r.op.action = "uninstall" /\ r.op.status = "completed"

\* LIFECYCLE_BLOCKED: an operation that is not closed, or a finished uninstall.
Blocked(r) == r.op.status \notin Closed \/ Uninstalled(r)

CanBegin(r, action, target) ==
  /\ ~Blocked(r)
  /\ action = "install" => r.op = NoOp /\ ~r.enabled
  /\ IF action \in VersionChanges THEN target \in Versions \ {r.ver} ELSE target = 0

\* Mutant: an operation begins on an enabled record.
BegunEnabled(r, action, target) ==
  [r EXCEPT !.rev = @ + 1,
            !.op = [id |-> r.rev + 1, action |-> action, status |-> "running",
                    target |-> target]]

Begun(r, action, target) ==
  [r EXCEPT !.enabled = FALSE, !.rev = @ + 1,
            !.op = [id |-> r.rev + 1, action |-> action, status |-> "running",
                    target |-> target]]

\* A failed operation may still be settled again under the same id.
CanSettle(r, id) == r.op # NoOp /\ r.op.id = id /\ r.op.status \notin Closed

\* Completing a version change or an uninstall drops identity, secret and grants.
Settled(r, outcome) ==
  LET done  == outcome = "completed"
      moved == done /\ r.op.action \in VersionChanges
      clear == moved \/ (done /\ r.op.action = "uninstall")
  IN [r EXCEPT !.enabled  = done /\ r.op.action \in {"install", "enable"},
               !.ver      = IF moved THEN r.op.target ELSE @,
               !.grants   = IF clear THEN {} ELSE @,
               !.identity = IF clear THEN 0 ELSE @,
               !.secret   = IF clear THEN 0 ELSE @,
               !.op.status = outcome,
               !.rev = @ + 1]
-----------------------------------------------------------------------------
\* Mutant: setEnabled works on a record with a lifecycle.
CanChangeEnabled(r, action) ==
  r.op = NoOp \/ (Blocked(r) => action \in {"disabled", "grant-revoked", "credential-revoked"})

\* The guard common to every change outside a lifecycle operation: while one is
\* open only changes that take something away are allowed, and once a record has
\* had a lifecycle operation nothing but another one can enable it.
CanChange(r, action) ==
  \/ r.op = NoOp
  \/ /\ action # "enabled"
     /\ Blocked(r) => action \in {"disabled", "grant-revoked", "credential-revoked"}

ServiceGrants(r) == {g \in r.grants : g.mode = "service"}

WithEnabled(r, on) == [r EXCEPT !.enabled = on, !.rev = @ + 1]

CanSetPackage(r, p) ==
  CanChange(r, "runtime-package-changed") /\ ~r.enabled /\ p.ver = r.ver
WithPackage(r, p) == [r EXCEPT !.pkg = p, !.rev = @ + 1]

CanApprove(r, mode, perm) ==
  /\ CanChange(r, "grant-approved")
  /\ perm \in Declares[r.ver]
  /\ mode = "service" => r.secret # 0

\* One approval per mode and permission; the earlier one is replaced.
WithGrant(r, mode, perm) ==
  [r EXCEPT !.grants = {g \in @ : ~(g.mode = mode /\ g.perm = perm)} \cup
                       {[mode |-> mode, perm |-> perm, active |-> TRUE,
                         identity |-> IF mode = "service" THEN r.identity ELSE 0]},
            !.rev = @ + 1]

WithRevoked(r, grant) ==
  [r EXCEPT !.grants = (@ \ {grant}) \cup {[grant EXCEPT !.active = FALSE]}, !.rev = @ + 1]

\* Mutant: a new identity inherits the grants of the old one.
WithCredentialKeepingGrants(r) ==
  [r EXCEPT !.identity = r.rev + 1, !.secret = r.rev + 1, !.rev = @ + 1]
\* Mutant: identity and secret are derived from the version.
WithCredentialOfVersion(r) ==
  [r EXCEPT !.identity = r.ver, !.secret = r.ver, !.grants = @ \ ServiceGrants(r), !.rev = @ + 1]

WithCredential(r) ==
  [r EXCEPT !.identity = r.rev + 1, !.secret = r.rev + 1, !.grants = @ \ ServiceGrants(r),
            !.rev = @ + 1]

CanRenew(r) ==
  CanChange(r, "credential-issued") /\ ~r.enabled /\ r.identity # 0 /\ r.secret # 0
WithRenewed(r) == [r EXCEPT !.secret = r.rev + 1, !.rev = @ + 1]

WithoutCredential(r) ==
  [r EXCEPT !.identity = 0, !.secret = 0, !.grants = @ \ ServiceGrants(r), !.rev = @ + 1]
=============================================================================
