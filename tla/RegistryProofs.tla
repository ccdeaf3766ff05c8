--------------------------- MODULE RegistryProofs ---------------------------
(*****************************************************************************)
(* One installation record.  Every operation of Registry maps a well-formed  *)
(* record to a well-formed record that is one revision later; what is proved *)
(* here of a record holds wherever the registry is used.                     *)
(*****************************************************************************)
EXTENDS Registry, TLAPS

\* What an installation record promises.
WellFormed(r) ==
  /\ r.enabled /\ r.op # NoOp
       => r.op.action \in {"install", "enable"} /\ r.op.status = "completed"
  /\ \A g \in ServiceGrants(r) : g.identity = r.identity /\ r.secret # 0
  /\ \A g \in r.grants : g.perm \in Declares[r.ver]
  /\ Uninstalled(r) => ~r.enabled /\ r.identity = 0 /\ r.secret = 0 /\ r.grants = {}
  /\ r.op.action \in VersionChanges => r.op.target \in Versions

\* Identifiers are named after the revision that made them, hence not younger.
Aged(r) == r.identity <= r.rev /\ r.secret <= r.rev /\ r.op.id <= r.rev

Good(r) == r \in Installation /\ WellFormed(r) /\ Aged(r)
-----------------------------------------------------------------------------
\* Ages survive a step that keeps each identifier, clears it or names it anew.
LEMMA AgedOK ==
  ASSUME NEW r, NEW n, Good(r), n.rev = r.rev + 1,
         n.identity \in {0, r.identity, n.rev}, n.secret \in {0, r.secret, n.rev},
         n.op.id \in {r.op.id, n.rev}
  PROVE  Aged(n)
<1>1. r.rev \in Nat /\ r.identity \in Nat /\ r.secret \in Nat /\ r.op \in Operation \cup {NoOp}
  BY DEF Good, Installation
<1>2. r.op.id \in Nat
  BY <1>1 DEF Operation, NoOp
<1>3. r.identity <= r.rev /\ r.secret <= r.rev /\ r.op.id <= r.rev
  BY DEF Good, Aged
<1>4. QED
  BY <1>1, <1>2, <1>3 DEF Aged

\* A first installation is well formed.
LEMMA RegisteredOK ==
  ASSUME NEW p \in Packages
  PROVE  Good(Registered(p))
<1>1. p.ver \in Versions
  BY RegistryAssumption
<1>2. QED
  BY <1>1 DEF Registered, Installation, Good, WellFormed, Aged, ServiceGrants, Uninstalled,
     NoOp, Operation, Grant, VersionChanges

\* So is a record with an operation just begun,
LEMMA BegunOK ==
  ASSUME NEW r, NEW a \in Actions, NEW t \in Versions \cup {0},
         Good(r), CanBegin(r, a, t)
  PROVE  Good(Begun(r, a, t))
<1> DEFINE o == [id |-> r.rev + 1, action |-> a, status |-> "running", target |-> t]
           n == [r EXCEPT !.enabled = FALSE, !.rev = r.rev + 1, !.op = o]
<1>1. r \in Installation /\ r.rev \in Nat \ {0} /\ r.rev + 1 \in Nat \ {0}
  BY DEF Good, Installation
<1>2. o \in Operation
  BY <1>1 DEF Operation
<1> HIDE DEF o
<1>3. n \in Installation
  BY <1>1, <1>2 DEF Installation
<1>4. WellFormed(n)
  BY <1>1 DEF WellFormed, Good, Installation, ServiceGrants, Uninstalled, o, CanBegin
<1>5. Aged(n)
  BY <1>1, AgedOK DEF Installation, o
<1>6. Begun(r, a, t) = n
  BY DEF Begun, o
<1>7. QED
  BY <1>3, <1>4, <1>5, <1>6 DEF Good

\* or settled in any way.
LEMMA SettledOK ==
  ASSUME NEW r, NEW id, NEW s \in Outcomes, Good(r), CanSettle(r, id)
  PROVE  Good(Settled(r, s))
<1> DEFINE n == Settled(r, s)
<1>1. /\ r \in Installation /\ r.rev \in Nat \ {0} /\ r.rev + 1 \in Nat \ {0}
      /\ r.op \in Operation
  BY DEF Good, Installation, CanSettle
<1>2. r.op.action \in VersionChanges => r.op.target \in Versions
  BY DEF Good, WellFormed
<1>3. [r.op EXCEPT !.status = s] \in Operation
  BY <1>1 DEF Operation, Outcomes
<1>4. n \in Installation
  BY <1>1, <1>2, <1>3 DEF Settled, Installation
<1>5. /\ n.op.action = r.op.action /\ n.op.target = r.op.target /\ n.op.status = s
      /\ n.op.id = r.op.id
      /\ n.enabled = (s = "completed" /\ r.op.action \in {"install", "enable"})
      /\ n.rev = r.rev + 1
  BY <1>1 DEF Settled, Installation, Operation
<1>6. CASE s = "completed" /\ r.op.action \in VersionChanges \cup {"uninstall"}
  <2>1. n.grants = {} /\ n.identity = 0 /\ n.secret = 0
    BY <1>1, <1>6 DEF Settled, Installation
  <2>2. WellFormed(n)
    BY <1>5, <1>6, <1>2, <2>1 DEF WellFormed, ServiceGrants, Uninstalled, VersionChanges
  <2>3. QED
    BY <1>4, <1>5, <2>1, <2>2, AgedOK DEF Good
<1>7. CASE ~(s = "completed" /\ r.op.action \in VersionChanges \cup {"uninstall"})
  <2>1. /\ n.grants = r.grants /\ n.identity = r.identity /\ n.secret = r.secret
        /\ n.ver = r.ver
    BY <1>1, <1>7 DEF Settled, Installation
  <2>2. WellFormed(n)
    BY <1>5, <1>7, <1>2, <2>1 DEF Good, WellFormed, ServiceGrants, Uninstalled, VersionChanges
  <2>3. QED
    BY <1>4, <1>5, <2>1, <2>2, AgedOK DEF Good
<1>8. QED
  BY <1>6, <1>7

-----------------------------------------------------------------------------
(***************************************************************************)
(* The edits that leave the lifecycle operation alone: each keeps the      *)
(* operation and the version, and the lemma says what else it keeps.       *)
(***************************************************************************)
\* Switching an application that never had an operation.
LEMMA WithEnabledOK ==
  ASSUME NEW r, NEW on \in BOOLEAN, Good(r),
         CanChange(r, IF on THEN "enabled" ELSE "disabled")
  PROVE  Good(WithEnabled(r, on))
<1> DEFINE n == WithEnabled(r, on)
<1>1. r \in Installation /\ r.rev + 1 \in Nat \ {0} /\ r.rev + 1 \in Nat
  BY DEF Good, Installation
<1>2. on => r.op = NoOp
  BY DEF CanChange
<1>3. n \in Installation
  BY <1>1, <1>2 DEF Installation, WithEnabled
<1>4. /\ n.op = r.op /\ n.ver = r.ver /\ n.rev = r.rev + 1
      /\ n.enabled = on
      /\ n.identity = r.identity /\ n.secret = r.secret
      /\ n.grants = r.grants
  BY <1>1 DEF Installation, WithEnabled
<1>5. WellFormed(n)
  BY <1>1, <1>2, <1>4 DEF Good, WellFormed, ServiceGrants, Uninstalled, NoOp
<1>6. QED
  BY <1>3, <1>4, <1>5, AgedOK DEF Good

\* Another package of the same version.
LEMMA WithPackageOK ==
  ASSUME NEW r, NEW p \in Packages, Good(r)
  PROVE  Good(WithPackage(r, p))
<1> DEFINE n == WithPackage(r, p)
<1>1. r \in Installation /\ r.rev + 1 \in Nat \ {0} /\ r.rev + 1 \in Nat
  BY DEF Good, Installation
<1>3. n \in Installation
  BY <1>1 DEF Installation, WithPackage
<1>4. /\ n.op = r.op /\ n.ver = r.ver /\ n.rev = r.rev + 1
      /\ n.enabled = r.enabled
      /\ n.identity = r.identity /\ n.secret = r.secret
      /\ n.grants = r.grants
  BY <1>1 DEF Installation, WithPackage
<1>5. WellFormed(n)
  BY <1>1, <1>4 DEF Good, WellFormed, ServiceGrants, Uninstalled
<1>6. QED
  BY <1>3, <1>4, <1>5, AgedOK DEF Good

\* An approval, for the identity of now.
LEMMA WithGrantOK ==
  ASSUME NEW r, NEW m \in Modes, NEW p \in Perms, Good(r), CanApprove(r, m, p)
  PROVE  Good(WithGrant(r, m, p))
<1> DEFINE new == [mode |-> m, perm |-> p, active |-> TRUE,
                   identity |-> IF m = "service" THEN r.identity ELSE 0]
           gs  == {g \in r.grants : ~(g.mode = m /\ g.perm = p)} \cup {new}
           n   == WithGrant(r, m, p)
<1>1. r \in Installation /\ r.rev + 1 \in Nat \ {0}
  BY DEF Good, Installation
<1>2. new \in Grant
  BY <1>1 DEF Grant, Installation
<1>3. gs \in SUBSET Grant
  BY <1>1, <1>2 DEF Installation
<1>4. n = [r EXCEPT !.grants = gs, !.rev = r.rev + 1]
  BY DEF WithGrant
<1>5. /\ \A g \in gs : g.perm \in Declares[r.ver]
      /\ \A g \in gs : g.mode = "service" => g.identity = r.identity /\ r.secret # 0
  BY DEF Good, WellFormed, ServiceGrants, CanApprove
<1>6. ~Uninstalled(r)
  BY DEF CanApprove, CanChange, Blocked, Uninstalled, NoOp
<1> HIDE DEF gs
<1>7. n \in Installation
  BY <1>1, <1>3, <1>4 DEF Installation
<1>8. /\ n.op = r.op /\ n.ver = r.ver /\ n.rev = r.rev + 1 /\ n.enabled = r.enabled
      /\ n.identity = r.identity /\ n.secret = r.secret /\ n.grants = gs
  BY <1>1, <1>4 DEF Installation
<1>9. WellFormed(n)
  BY <1>5, <1>6, <1>8 DEF Good, WellFormed, ServiceGrants, Uninstalled
<1>10. QED
  BY <1>7, <1>8, <1>9, AgedOK DEF Good

\* A revoked grant stays in the record.
LEMMA WithRevokedOK ==
  ASSUME NEW r, NEW g \in r.grants, Good(r)
  PROVE  Good(WithRevoked(r, g))
<1> DEFINE off == [g EXCEPT !.active = FALSE]
           gs  == (r.grants \ {g}) \cup {off}
           n   == WithRevoked(r, g)
<1>1. r \in Installation /\ r.rev + 1 \in Nat \ {0} /\ g \in Grant
  BY DEF Good, Installation
<1>2. off \in Grant /\ off.mode = g.mode /\ off.perm = g.perm /\ off.identity = g.identity
  BY <1>1 DEF Grant
<1>3. n = [r EXCEPT !.grants = gs, !.rev = r.rev + 1]
  BY DEF WithRevoked
<1> HIDE DEF off
<1>4. /\ gs \in SUBSET Grant
      /\ \A h \in gs : h.perm \in Declares[r.ver]
      /\ \A h \in gs : h.mode = "service" => h.identity = r.identity /\ r.secret # 0
      /\ Uninstalled(r) => FALSE
  BY <1>1, <1>2 DEF Good, WellFormed, ServiceGrants, Installation
<1> HIDE DEF gs
<1>5. n \in Installation
  BY <1>1, <1>3, <1>4 DEF Installation
<1>6. /\ n.op = r.op /\ n.ver = r.ver /\ n.rev = r.rev + 1 /\ n.enabled = r.enabled
      /\ n.identity = r.identity /\ n.secret = r.secret /\ n.grants = gs
  BY <1>1, <1>3 DEF Installation
<1>7. WellFormed(n)
  BY <1>4, <1>6 DEF Good, WellFormed, ServiceGrants, Uninstalled
<1>8. QED
  BY <1>5, <1>6, <1>7, AgedOK DEF Good

\* A new or removed identity takes every service grant with it.
LEMMA WithCredentialOK ==
  ASSUME NEW r, Good(r), CanChange(r, "credential-issued")
  PROVE  Good(WithCredential(r))
<1> DEFINE n == WithCredential(r)
<1>1. r \in Installation /\ r.rev + 1 \in Nat \ {0} /\ r.rev + 1 \in Nat
  BY DEF Good, Installation
<1>2. ~Uninstalled(r)
  BY DEF CanChange, Blocked, Uninstalled, NoOp
<1>3. n \in Installation
  BY <1>1, <1>2 DEF Installation, WithCredential
<1>4. /\ n.op = r.op /\ n.ver = r.ver /\ n.rev = r.rev + 1
      /\ n.enabled = r.enabled
      /\ n.identity = r.rev + 1 /\ n.secret = r.rev + 1
      /\ n.grants = r.grants \ ServiceGrants(r)
  BY <1>1 DEF Installation, WithCredential
<1>5. WellFormed(n)
  BY <1>1, <1>2, <1>4 DEF Good, WellFormed, ServiceGrants, Uninstalled
<1>6. QED
  BY <1>3, <1>4, <1>5, AgedOK DEF Good

\* The same holds when no identity follows.
LEMMA WithoutCredentialOK ==
  ASSUME NEW r, Good(r)
  PROVE  Good(WithoutCredential(r))
<1> DEFINE n == WithoutCredential(r)
<1>1. r \in Installation /\ r.rev + 1 \in Nat \ {0} /\ r.rev + 1 \in Nat
  BY DEF Good, Installation
<1>3. n \in Installation
  BY <1>1 DEF Installation, WithoutCredential
<1>4. /\ n.op = r.op /\ n.ver = r.ver /\ n.rev = r.rev + 1
      /\ n.enabled = r.enabled
      /\ n.identity = 0 /\ n.secret = 0
      /\ n.grants = r.grants \ ServiceGrants(r)
  BY <1>1 DEF Installation, WithoutCredential
<1>5. WellFormed(n)
  BY <1>1, <1>4 DEF Good, WellFormed, ServiceGrants, Uninstalled
<1>6. QED
  BY <1>3, <1>4, <1>5, AgedOK DEF Good

\* A new secret for the same identity.
LEMMA WithRenewedOK ==
  ASSUME NEW r, Good(r), CanRenew(r)
  PROVE  Good(WithRenewed(r))
<1> DEFINE n == WithRenewed(r)
<1>1. r \in Installation /\ r.rev + 1 \in Nat \ {0} /\ r.rev + 1 \in Nat
  BY DEF Good, Installation
<1>2. ~Uninstalled(r)
  BY DEF CanRenew, CanChange, Blocked, Uninstalled, NoOp
<1>3. n \in Installation
  BY <1>1, <1>2 DEF Installation, WithRenewed
<1>4. /\ n.op = r.op /\ n.ver = r.ver /\ n.rev = r.rev + 1
      /\ n.enabled = r.enabled
      /\ n.identity = r.identity /\ n.secret = r.rev + 1
      /\ n.grants = r.grants
  BY <1>1 DEF Installation, WithRenewed
<1>5. WellFormed(n)
  BY <1>1, <1>2, <1>4 DEF Good, WellFormed, ServiceGrants, Uninstalled
<1>6. QED
  BY <1>3, <1>4, <1>5, AgedOK DEF Good
=============================================================================
