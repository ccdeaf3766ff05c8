----------------------- MODULE BusinessAuthorization -----------------------
(***************************************************************************)
(* Business roles of one application (business-authorization/service.ts):  *)
(* its owner edits roles, members and delegations from a screen and puts   *)
(* them in force (mode "application" instead of "legacy"), holders of a    *)
(* permission delegate a role inside their workgroup, and once a           *)
(* membership is introduced everybody has exactly one role.                *)
(*                                                                         *)
(* Every change is one transaction under the lock of this service, accepted *)
(* only with the revision the screen was opened with, and draws a new      *)
(* revision (a counter here).  The screen itself is read in several        *)
(* statements, each a step.  Audiences, names and the other scopes are     *)
(* left out.                                                               *)
(***************************************************************************)
EXTENDS Integers, FiniteSets

CONSTANTS
  Staff,        \* employees
  Groups,       \* workgroups
  Roles,        \* platform_app_business_roles.id
  Default,      \* the role named for ordinary members
  Permissions,  \* permissions the manifest defines, with scopes "workgroup" and "all"
  RuleSets,     \* the rules a role may be given
  Owners,       \* the owner's screens
  MaxRevisions, \* bound
  NoRole, NoPermission

ASSUME AuthorizationAssumption ==
  /\ IsFiniteSet(Roles) /\ Default \in Roles /\ NoRole \notin Roles /\ NoPermission \notin Permissions
  /\ MaxRevisions \in Nat
  /\ \A rules \in RuleSets : rules \subseteq [permission : Permissions, scope : {"workgroup", "all"}]

VARIABLES
  rev,        \* platform_app_authorization.revision
  mode,       \* "legacy" until the owner activates the roles
  default,    \* default_role_id
  roles,      \* status and rules, status "none" without a row
  members,    \* platform_app_business_members
  policy,     \* platform_app_role_delegations: the permission that lets delegate a role
  delegated,  \* platform_app_delegated_members
  assigned,   \* platform_app_member_roles
  group,      \* workgroup of an employee
  screen      \* what an owner has read, and how much of it

authVars == <<rev, mode, default, roles, members, policy, delegated, assigned, group, screen>>

Unassigned == [p \in Staff |-> NoRole]
NoRow == [status |-> "none", rules |-> {}]
NoScreen == [pc |-> "closed", rev |-> 0, default |-> NoRole, roles |-> [r \in Roles |-> NoRow], members |-> {}]

Role == [status : {"none", "active", "inactive"}, rules : RuleSets \cup {{}}]

AuthTypeOK ==
  /\ rev \in 0..MaxRevisions /\ mode \in {"legacy", "application"} /\ default \in Roles \cup {NoRole}
  /\ roles \in [Roles -> Role]
  /\ members \subseteq Roles \X Staff /\ policy \in [Roles -> Permissions \cup {NoPermission}]
  /\ delegated \subseteq Roles \X Staff \X Groups /\ assigned \in [Staff -> Roles \cup {NoRole}]
  /\ group \in [Staff -> Groups]
  /\ screen \in [Owners -> [pc : {"closed", "revision", "roles", "read"}, rev : 0..MaxRevisions,
                           default : Roles \cup {NoRole}, roles : [Roles -> Role], members : SUBSET (Roles \X Staff)]]

\* A role may be delegated by the holders of a permission if all it grants is for the
\* workgroup, and not that permission itself.
Safe(rules, permission) ==
  rules # {} /\ \A rule \in rules : rule.scope = "workgroup" /\ rule.permission # permission

\* Roles, members and delegation policies as the owner may have set them up.
AuthInit ==
  /\ rev = 0 /\ mode \in {"legacy", "application"} /\ default = NoRole /\ assigned = Unassigned
  /\ \E set \in [Roles -> RuleSets] :
       \/ roles = [r \in Roles |-> [status |-> "active", rules |-> set[r]]]
       \/ roles = [r \in Roles |-> IF r = Default THEN NoRow ELSE [status |-> "active", rules |-> set[r]]]
  /\ members \in SUBSET ({r \in Roles : roles[r] # NoRow} \X Staff)
  /\ delegated = {} /\ policy \in [Roles -> Permissions \cup {NoPermission}]
  /\ \A r \in Roles : policy[r] # NoPermission => Safe(roles[r].rules, policy[r])
  /\ \E g \in Groups : group = [p \in Staff |-> g]
  /\ screen = [o \in Owners |-> NoScreen]
-----------------------------------------------------------------------------
Active(r) == roles[r].status = "active"

\* resolveWith() in mode "application"; in mode "legacy" the roles are prepared, and nothing
\* is resolved yet.  Delegated roles count where their holder still is and while they are
\* safe; with a membership the one role counts alone.
RolesOf(p) ==
  IF default # NoRole
  THEN {r \in Roles : Active(r) /\ r = IF assigned[p] # NoRole THEN assigned[p] ELSE default}
  ELSE {r \in Roles : Active(r) /\
         \/ <<r, p>> \in members
         \/ /\ <<r, p, group[p]>> \in delegated /\ policy[r] # NoPermission
            /\ Safe(roles[r].rules, policy[r])}

Grants(p) == UNION {roles[r].rules : r \in RolesOf(p)}
GrantedIn(p, permission, g) == \E rule \in Grants(p) :
  rule.permission = permission /\ (rule.scope = "all" \/ group[p] = g)
-----------------------------------------------------------------------------
\* snapshot(): the row with the revision, the roles and the members, one after the other.
OpenScreen(o) ==
  /\ screen[o].pc = "closed"
  /\ screen' = [screen EXCEPT ![o].pc = "revision", ![o].rev = rev, ![o].default = default]
  /\ UNCHANGED <<rev, mode, default, roles, members, policy, delegated, assigned, group>>

ReadRoles(o) ==
  /\ screen[o].pc = "revision" /\ screen' = [screen EXCEPT ![o].pc = "roles", ![o].roles = roles]
  /\ UNCHANGED <<rev, mode, default, roles, members, policy, delegated, assigned, group>>

\* Mutant: the revision is read last.
ReadMembersAndRevision(o) ==
  /\ screen[o].pc = "roles"
  /\ screen' = [screen EXCEPT ![o].pc = "read", ![o].members = members, ![o].rev = rev]
  /\ UNCHANGED <<rev, mode, default, roles, members, policy, delegated, assigned, group>>

ReadMembers(o) ==
  /\ screen[o].pc = "roles" /\ screen' = [screen EXCEPT ![o].pc = "read", ![o].members = members]
  /\ UNCHANGED <<rev, mode, default, roles, members, policy, delegated, assigned, group>>

\* A change is accepted with the current revision; otherwise STALE_REVISION, and the owner
\* opens the screen again.
Accepted(o) ==
  /\ screen[o].pc = "read" /\ screen[o].rev = rev /\ rev < MaxRevisions
  /\ rev' = rev + 1 /\ screen' = [screen EXCEPT ![o] = NoScreen]

Refused(o) ==
  /\ screen[o].pc = "read" /\ screen[o].rev # rev /\ screen' = [screen EXCEPT ![o] = NoScreen]
  /\ UNCHANGED <<rev, mode, default, roles, members, policy, delegated, assigned, group>>

\* Mutant: employees with two roles, or a delegated one, are not looked for.
IntroducibleAnyhow == Active(Default) \/ roles[Default].status = "none"

\* Nobody has two roles, nobody a delegated one, and the default role was not closed.
Introducible ==
  /\ \A p \in Staff : Cardinality({r \in Roles : <<r, p>> \in members}
                                  \cup {r \in Roles : \E g \in Groups : <<r, p, g>> \in delegated}) <= 1
  /\ delegated = {} /\ roles[Default].status # "inactive"

\* change('membership'): the first time every member keeps the one role he has.
Membership(o) ==
  /\ Accepted(o) /\ mode' = "application"
  /\ \/ default # NoRole /\ UNCHANGED <<default, roles, assigned>>
     \/ /\ default = NoRole /\ Introducible /\ default' = Default
        /\ roles' = [roles EXCEPT ![Default] = IF @.status = "none" THEN [@ EXCEPT !.status = "active"] ELSE @]
        /\ assigned' = [p \in Staff |-> IF \E r \in Roles : <<r, p>> \in members
                                        THEN CHOOSE r \in Roles : <<r, p>> \in members ELSE NoRole]
  /\ UNCHANGED <<members, policy, delegated, group>>

\* change('activate')
Activate(o) ==
  /\ Accepted(o) /\ mode' = "application"
  /\ UNCHANGED <<default, roles, members, policy, delegated, assigned, group>>

\* change('assign')
Assign(o, r, p) ==
  /\ Accepted(o) /\ default # NoRole /\ Active(r) /\ assigned' = [assigned EXCEPT ![p] = r]
  /\ UNCHANGED <<mode, default, roles, members, policy, delegated, group>>

\* change('role'): once it is the default role it stays open.
EditRole(o, r, status, rules) ==
  /\ Accepted(o) /\ (r = default => status = "active")
  /\ roles' = [roles EXCEPT ![r] = [status |-> status, rules |-> rules]]
  /\ UNCHANGED <<mode, default, members, policy, delegated, assigned, group>>

\* change('member')
Member(o, r, p, enabled) ==
  /\ Accepted(o) /\ default = NoRole /\ roles[r].status # "none"
  /\ members' = IF enabled THEN members \cup {<<r, p>>} ELSE members \ {<<r, p>>}
  /\ UNCHANGED <<mode, default, roles, policy, delegated, assigned, group>>

\* change('delegation'): what has been delegated stays when the policy is withdrawn.
SetPolicy(o, r, permission) ==
  /\ Accepted(o) /\ roles[r].status # "none"
  /\ permission # NoPermission => Safe(roles[r].rules, permission)
  /\ policy' = [policy EXCEPT ![r] = permission]
  /\ UNCHANGED <<mode, default, roles, members, delegated, assigned, group>>

\* delegate(): both in the workgroup, where the actor has the permission, of roles in force.
Delegate(actor, r, p, enabled) ==
  LET row == <<r, p, group[actor]>> IN
  /\ rev < MaxRevisions /\ rev' = rev + 1
  /\ mode = "application" /\ default = NoRole
  /\ policy[r] # NoPermission /\ Active(r) /\ Safe(roles[r].rules, policy[r])
  /\ group[p] = group[actor] /\ GrantedIn(actor, policy[r], group[actor])
  /\ delegated' = IF enabled THEN delegated \cup {row} ELSE delegated \ {row}
  /\ UNCHANGED <<mode, default, roles, members, policy, assigned, group, screen>>

\* The administrator names another owner; an employee changes the workgroup.
SetOwner ==
  /\ rev < MaxRevisions /\ rev' = rev + 1
  /\ UNCHANGED <<mode, default, roles, members, policy, delegated, assigned, group, screen>>

MoveTo(p, g) ==
  /\ group[p] # g /\ group' = [group EXCEPT ![p] = g]
  /\ UNCHANGED <<rev, mode, default, roles, members, policy, delegated, assigned, screen>>

AuthNext ==
  \/ \E o \in Owners :
       \/ OpenScreen(o) \/ ReadRoles(o) \/ ReadMembers(o) \/ Refused(o) \/ Membership(o) \/ Activate(o)
       \/ \E r \in Roles :
            \/ \E status \in {"active", "inactive"}, rules \in RuleSets : EditRole(o, r, status, rules)
            \/ \E permission \in Permissions \cup {NoPermission} : SetPolicy(o, r, permission)
            \/ \E p \in Staff : Assign(o, r, p) \/ \E enabled \in BOOLEAN : Member(o, r, p, enabled)
  \/ \E actor, p \in Staff, r \in Roles, enabled \in BOOLEAN : Delegate(actor, r, p, enabled)
  \/ SetOwner
  \/ \E p \in Staff, g \in Groups : MoveTo(p, g)

AuthSpec == AuthInit /\ [][AuthNext]_authVars
-----------------------------------------------------------------------------
\* No owner edits blindly: a screen whose revision would be accepted shows the roles and
\* members as they are, although it was read piece by piece while others changed them
\* (service.ts:30, 58, 109).
NoBlindEdit == \A o \in Owners :
  screen[o].pc = "read" /\ screen[o].rev = rev =>
    screen[o].roles = roles /\ screen[o].members = members /\ screen[o].default = default

\* Introducing the membership, which also activates the roles, takes nothing that his roles
\* give from anybody and adds nothing to them for a member, whatever roles and delegations
\* preceded it (service.ts:64-74, 178-180).
IntroductionKeepsRoles ==
  [][default = NoRole /\ default' # NoRole =>
       \A p \in Staff : /\ Grants(p) \subseteq Grants(p)'
                        /\ (\E r \in Roles : <<r, p>> \in members) => Grants(p)' = Grants(p)]_authVars
=============================================================================
