----------------------------- MODULE MCServices -----------------------------
(***************************************************************************)
(* Four services of the platform that share no state, checked in one run:  *)
(* every behaviour is a behaviour of one of them, its subject.  The        *)
(* batches and the rules of work items are subjects of their own.          *)
(***************************************************************************)
EXTENDS Signatures, Notifications, WorkItems, BusinessAuthorization, TLC

VARIABLE subject

Rule(permission, scope) == [permission |-> permission, scope |-> scope]
MCRuleSets == {{Rule("work", "workgroup")}, {Rule("lead", "workgroup")}}
MCSchedules == {{1, 2, 3, 4}, {2, 4}, {1, 3}}
MCPermissions == {"work", "lead"}
MCSymmetry == Permutations(People) \cup Permutations(Clients) \cup Permutations(Workers)

Init ==
  /\ subject \in {"signatures", "notifications", "batches", "rules", "authorization"}
  /\ SigInit /\ NoticeInit /\ WorkInit /\ AuthInit
  /\ subject # "batches" => \A i \in Items : item[i] = "none"
  /\ subject # "rules" => rule.policy = "all" /\ rule.schedule = {1, 3}
  /\ subject # "authorization" =>
       /\ mode = "application" /\ members = {} /\ \A r \in Roles : policy[r] = NoPermission /\ roles[r] = roles[Default]
       /\ \A r \in Roles : \A row \in roles[r].rules : row.permission = "work"

Next ==
  /\ \/ subject = "signatures" /\ SigNext /\ UNCHANGED <<noticeVars, workVars, authVars>>
     \/ subject = "notifications" /\ NoticeNext /\ UNCHANGED <<sigVars, workVars, authVars>>
     \/ subject = "batches" /\ BatchNext /\ UNCHANGED <<sigVars, noticeVars, authVars>>
     \/ subject = "rules" /\ RuleNext /\ UNCHANGED <<sigVars, noticeVars, authVars>>
     \/ subject = "authorization" /\ AuthNext /\ UNCHANGED <<sigVars, noticeVars, workVars>>
  /\ UNCHANGED subject

Spec == Init /\ [][Next]_<<subject, sigVars, noticeVars, workVars, authVars>>
=============================================================================
