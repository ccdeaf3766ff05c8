----------------------------- MODULE Admission -----------------------------
(***************************************************************************)
(* Admission of one employee to one application: employee/admission.ts     *)
(* reads identity, access and installation twice, and                      *)
(* employee/app-session.ts keeps the result for thirty seconds, lets       *)
(* concurrent requests share one load and is cleared after every change    *)
(* the platform makes on purpose.                                          *)
(*                                                                         *)
(* A step is what happens between two awaits.  Revisions of the access and *)
(* of the installation are counters here; the code draws new ones, and     *)
(* never an old one again.                                                 *)
(***************************************************************************)
EXTENDS Integers

CONSTANTS
  Requests,      \* calls of get()
  Identities,    \* identities the employee may present: session, organization
  MaxChanges,    \* bound: changes of the revisions
  MaxClears,     \* bound: calls of clear()
  Nobody         \* neither a request nor a cached value

ASSUME AdmissionAssumption ==
  MaxChanges \in Nat /\ MaxClears \in Nat /\ Nobody \notin Requests

VARIABLES
  access,      \* revision of the employee's access to the application
  revision,    \* revision of the installation
  generation,  \* EmployeeAppSessions.generation
  entry,       \* entries: the cached admission
  pending,     \* pending: the request whose load is shared
  requests,    \* what every call of get() is doing
  together,    \* history: the pairs of revisions that existed at one moment
  announced    \* history: the revisions when the sessions were last cleared

admVars == <<access, revision, generation, entry, pending, requests, together, announced>>

Admissions == [who : Identities, access : Nat, revision : Nat]
Now == [access |-> access, revision |-> revision]
NoRequest ==
  [pc |-> "idle", who |-> Nobody, access |-> 0, revision |-> 0, generation |-> 0,
   on |-> Nobody, since |-> [access |-> 0, revision |-> 0]]

AdmTypeOK ==
  /\ access \in 0..MaxChanges /\ revision \in 0..MaxChanges /\ generation \in 0..MaxClears
  /\ entry \in Admissions \cup {Nobody} /\ pending \in Requests \cup {Nobody}
  /\ \A r \in Requests :
       /\ requests[r].pc \in {"idle", "access", "installation", "access again",
                              "installation again", "loaded", "waiting", "served", "refused"}
       /\ requests[r].who \in Identities \cup {Nobody} /\ requests[r].on \in Requests \cup {Nobody}

AdmInit ==
  /\ access = 0 /\ revision = 0 /\ generation = 0 /\ entry = Nobody /\ pending = Nobody
  /\ requests = [r \in Requests |-> NoRequest]
  /\ together = {Now} /\ announced = Now
-----------------------------------------------------------------------------

\* get(): the cached admission, the load under way, or a load of one's own; each only
\* for the same identity.
LookUp(r, request) ==
  LET hit == entry # Nobody /\ entry.who = request.who
      shared == pending # Nobody /\ requests[pending].who = request.who
  IN
  \/ /\ hit
     /\ requests' = [requests EXCEPT ![r] = [request EXCEPT
          !.pc = "served", !.access = entry.access, !.revision = entry.revision]]
     /\ UNCHANGED <<entry, pending>>
  \/ /\ ~hit /\ shared
     /\ requests' = [requests EXCEPT ![r] = [request EXCEPT !.pc = "waiting", !.on = pending]]
     /\ entry' = Nobody /\ UNCHANGED pending
  \/ /\ ~hit /\ ~shared
     /\ requests' = [requests EXCEPT ![r] =
                       [request EXCEPT !.pc = "access", !.generation = generation]]
     /\ entry' = Nobody /\ pending' = r

\* A caller that has its answer may come again, once those who shared it have theirs.
Get(r) ==
  /\ requests[r].pc \in {"idle", "served", "refused"} /\ \A s \in Requests : requests[s].on # r
  /\ \E who \in Identities : LookUp(r, [NoRequest EXCEPT !.who = who, !.since = announced])
  /\ UNCHANGED <<access, revision, generation, together, announced>>

Reading == {"access", "installation", "access again", "installation again"}

\* Mutant: the second reading of the access is left out.
EvidenceOnce(pc) ==
  CASE pc = "access" -> "installation"
    [] pc = "installation" -> "installation again"
    [] pc = "installation again" -> "loaded"

\* The order in which admitEmployeeApplication gathers its evidence.
Evidence(pc) ==
  CASE pc = "access" -> "installation"
    [] pc = "installation" -> "access again"
    [] pc = "access again" -> "installation again"
    [] pc = "installation again" -> "loaded"

\* One read of the load; a second reading must agree with the first.
Read(r) ==
  /\ requests[r].pc \in Reading
  /\ requests[r].pc = "access again" => requests[r].access = access
  /\ requests[r].pc = "installation again" => requests[r].revision = revision
  /\ requests' = [requests EXCEPT
       ![r].pc = Evidence(@),
       ![r].access = IF requests[r].pc = "access" THEN access ELSE @,
       ![r].revision = IF requests[r].pc = "installation" THEN revision ELSE @]
  /\ UNCHANGED <<access, revision, generation, entry, pending, together, announced>>

\* Evidence that changed, an identity that is no longer the same, no access, an
\* application that is not admitted: the load fails, and so does every request on it.
Deny(r) ==
  /\ requests[r].pc \in Reading
  /\ requests' = [requests EXCEPT ![r] = [NoRequest EXCEPT !.pc = "refused", !.who = requests[r].who]]
  /\ pending' = IF pending = r THEN Nobody ELSE pending
  /\ UNCHANGED <<access, revision, generation, entry, together, announced>>

\* Mutant: the generation is not compared.
LoadedAnyhow(r) ==
  /\ requests[r].pc = "loaded"
  /\ requests' = [requests EXCEPT ![r].pc = "served"]
  /\ entry' = [who |-> requests[r].who, access |-> requests[r].access,
               revision |-> requests[r].revision]
  /\ pending' = IF pending = r THEN Nobody ELSE pending
  /\ UNCHANGED <<access, revision, generation, together, announced>>

\* The load has returned: after a clear() it is thrown away and get() starts again;
\* otherwise it is cached, unless a load for another identity has replaced it.
Loaded(r) ==
  /\ requests[r].pc = "loaded"
  /\ \/ requests[r].generation # generation /\ LookUp(r, requests[r])
     \/ /\ requests[r].generation = generation
        /\ requests' = [requests EXCEPT ![r].pc = "served"]
        /\ entry' = IF pending = r
                    THEN [who |-> requests[r].who, access |-> requests[r].access,
                          revision |-> requests[r].revision]
                    ELSE entry
        /\ pending' = IF pending = r THEN Nobody ELSE pending
  /\ UNCHANGED <<access, revision, generation, together, announced>>

\* A request that shared a load has its answer.
Shared(r) ==
  /\ requests[r].pc = "waiting" /\ requests[requests[r].on].pc \in {"served", "refused"}
  /\ requests' = [requests EXCEPT
       ![r].pc = requests[requests[r].on].pc, ![r].on = Nobody,
       ![r].access = requests[requests[r].on].access,
       ![r].revision = requests[requests[r].on].revision]
  /\ UNCHANGED <<access, revision, generation, entry, pending, together, announced>>

\* The thirty seconds are over, or 512 other admissions have displaced this one.
ExpireEntry ==
  /\ entry # Nobody /\ entry' = Nobody
  /\ UNCHANGED <<access, revision, generation, pending, requests, together, announced>>

\* An administrator, an owner or a lifecycle operation changes a revision.
Change ==
  /\ access + revision < MaxChanges
  /\ \/ access' = access + 1 /\ UNCHANGED revision
     \/ revision' = revision + 1 /\ UNCHANGED access
  /\ together' = together \cup {[access |-> access', revision |-> revision']}
  /\ UNCHANGED <<generation, entry, pending, requests, announced>>

\* clear(), after a change that succeeded, a logout or a new password.
Clear ==
  /\ generation < MaxClears /\ generation' = generation + 1
  /\ entry' = Nobody /\ pending' = Nobody /\ announced' = Now
  /\ UNCHANGED <<access, revision, requests, together>>

AdmNext ==
  \/ \E r \in Requests : Get(r) \/ Read(r) \/ Deny(r) \/ Loaded(r) \/ Shared(r)
  \/ ExpireEntry \/ Change \/ Clear

AdmSpec == AdmInit /\ [][AdmNext]_admVars
-----------------------------------------------------------------------------
(***************************************************************************)
(* What an admitted request may rely on.                                   *)
(***************************************************************************)
Served(r) == requests[r].pc = "served"

\* A change that was announced before a request began is seen by the request, also when
\* its admission was being loaded, shared or cached meanwhile (app-session.ts:27-31, 41).
NothingStale == \A r \in Requests : Served(r) =>
  requests[r].access >= requests[r].since.access /\ requests[r].revision >= requests[r].since.revision

\* An admission never combines an access and an installation that did not exist at one
\* moment: both readings of either agree and overlap (admission.ts:13-24).
EvidenceCoexisted == \A r \in Requests : Served(r) =>
  [access |-> requests[r].access, revision |-> requests[r].revision] \in together
=============================================================================
