--------------------------- MODULE EmployeeProofs ---------------------------
(*****************************************************************************)
(* What admitted requests, calls and conversations may rely on, for any      *)
(* number of requests, changes, invocations, slots, people and turns.        *)
(* Admission, gateway and chat share no state, and neither do their proofs.  *)
(*****************************************************************************)
EXTENDS Admission, Gateway, Chat, FiniteSetTheorems, TLAPS

(*****************************************************************************)
(* Admission.  The access is read twice around the installation, and         *)
(* revisions never return, so if the two readings agree the pair existed.    *)
(* And every request has a floor, the latest announcement that it or a       *)
(* request waiting for it has to see; floors are passed on to the load that  *)
(* is waited for.                                                            *)
(*****************************************************************************)
Pairs == [access : Nat, revision : Nat]
PCs == Reading \cup {"idle", "loaded", "waiting", "served", "refused"}
RequestType ==
  [pc : PCs, who : Identities \cup {Nobody}, access : Nat, revision : Nat, generation : Nat,
   on : Requests \cup {Nobody}, since : Pairs]

Types ==
  /\ access \in Nat /\ revision \in Nat /\ generation \in Nat
  /\ access + revision <= MaxChanges /\ generation <= MaxClears
  /\ entry \in Admissions \cup {Nobody} /\ pending \in Requests \cup {Nobody}
  /\ requests \in [Requests -> RequestType] /\ announced \in Pairs

Covers(a, b) == a.access >= b.access /\ a.revision >= b.revision
Existed(a) == [access |-> a.access, revision |-> a.revision] \in together

Loading(r) == requests[r].pc \in Reading \cup {"loaded"}

\* What has been read is not newer than what is; if the generation is still the same it is
\* not older than the announcement; and a second reading that agrees is evidence.
LoadOK(r) ==
  /\ requests[r].generation <= generation
  /\ requests[r].pc \in {"installation", "access again", "installation again", "loaded"} =>
       /\ requests[r].access <= access
       /\ (requests[r].generation = generation => requests[r].access >= announced.access)
  /\ requests[r].pc \in {"access again", "installation again", "loaded"} =>
       (requests[r].generation = generation => requests[r].revision >= announced.revision)
  /\ requests[r].pc = "access again" /\ requests[r].access = access => Existed(requests[r])
  /\ requests[r].pc \in {"installation again", "loaded", "served"} => Existed(requests[r])

\* The shared parts.
CacheOK ==
  /\ access >= announced.access /\ revision >= announced.revision /\ Now \in together
  /\ entry # Nobody => Covers(entry, announced) /\ Existed(entry)
  /\ pending # Nobody => Loading(pending) /\ requests[pending].generation = generation

RequestOK(r) ==
  /\ requests[r].on # Nobody <=> requests[r].pc = "waiting"
  /\ requests[r].pc # "idle" => requests[r].who \in Identities

\* floor[r]: what the admission of r has to cover.
FloorOK(floor, r) ==
  /\ requests[r].pc \in Reading \cup {"loaded", "waiting"} => Covers(announced, floor[r])
  /\ requests[r].pc \in Reading \cup {"loaded", "waiting", "served"} => Covers(floor[r], requests[r].since)
  /\ requests[r].pc = "waiting" => Covers(floor[requests[r].on], floor[r])
  /\ requests[r].pc = "served" => Covers(requests[r], floor[r])

FloorsOK == \E floor \in [Requests -> Pairs] : \A r \in Requests : FloorOK(floor, r)

AdmissionInv == Types /\ CacheOK /\ (\A r \in Requests : LoadOK(r) /\ RequestOK(r)) /\ FloorsOK
-----------------------------------------------------------------------------
LEMMA CoversTransitive ==
  ASSUME NEW a, NEW b, NEW c, a.access \in Nat, a.revision \in Nat, b \in Pairs, c \in Pairs,
         Covers(a, b), Covers(b, c)
  PROVE  Covers(a, c)
BY DEF Covers, Pairs

\* The three outcomes of a look-up, with the request it leaves.
LEMMA LookedUp ==
  ASSUME AdmissionInv, NEW r \in Requests, NEW request \in RequestType, LookUp(r, request), request.on = Nobody
  PROVE  /\ requests'[r].who = request.who
         /\ requests' \in [Requests -> RequestType]
         /\ \A s \in Requests \ {r} : requests'[s] = requests[s]
         /\ requests'[r].since = request.since
         /\ entry' \in Admissions \cup {Nobody} /\ pending' \in Requests \cup {Nobody}
         /\ \/ /\ requests'[r].pc = "served" /\ requests'[r].on = Nobody
               /\ requests'[r].access = entry.access /\ requests'[r].revision = entry.revision
               /\ requests'[r].generation = request.generation
               /\ entry # Nobody /\ UNCHANGED <<entry, pending>>
            \/ /\ requests'[r].pc = "waiting" /\ requests'[r].on = pending
               /\ requests'[r].generation = request.generation
               /\ pending # Nobody /\ entry' = Nobody /\ UNCHANGED pending
            \/ /\ requests'[r].pc = "access" /\ requests'[r].on = Nobody
               /\ requests'[r].generation = generation
               /\ entry' = Nobody /\ pending' = r
<1>1. requests \in [Requests -> RequestType] /\ entry \in Admissions \cup {Nobody}
      /\ pending \in Requests \cup {Nobody} /\ generation \in Nat
  BY DEF AdmissionInv, Types
<1>2. CASE /\ entry # Nobody /\ UNCHANGED <<entry, pending>>
           /\ requests' = [requests EXCEPT ![r] = [request EXCEPT
                !.pc = "served", !.access = entry.access, !.revision = entry.revision]]
  <2> DEFINE n == [request EXCEPT !.pc = "served", !.access = entry.access, !.revision = entry.revision]
  <2>1. /\ n \in RequestType /\ n.pc = "served" /\ n.access = entry.access /\ n.revision = entry.revision
        /\ n.generation = request.generation /\ n.on = Nobody /\ n.since = request.since /\ n.who = request.who
    BY <1>1, <1>2 DEF RequestType, PCs, Admissions
  <2> HIDE DEF n
  <2>2. QED
    BY <1>1, <1>2, <2>1 DEF n
<1>3. CASE /\ pending # Nobody /\ entry' = Nobody /\ UNCHANGED pending
           /\ requests' = [requests EXCEPT ![r] = [request EXCEPT !.pc = "waiting", !.on = pending]]
  <2> DEFINE n == [request EXCEPT !.pc = "waiting", !.on = pending]
  <2>1. /\ n \in RequestType /\ n.pc = "waiting" /\ n.on = pending
        /\ n.generation = request.generation /\ n.since = request.since /\ n.who = request.who
    BY <1>1, <1>3 DEF RequestType, PCs
  <2> HIDE DEF n
  <2>2. QED
    BY <1>1, <1>3, <2>1 DEF n
<1>4. CASE /\ entry' = Nobody /\ pending' = r
           /\ requests' = [requests EXCEPT ![r] = [request EXCEPT !.pc = "access", !.generation = generation]]
  <2> DEFINE n == [request EXCEPT !.pc = "access", !.generation = generation]
  <2>1. /\ n \in RequestType /\ n.pc = "access" /\ n.on = Nobody
        /\ n.generation = generation /\ n.since = request.since /\ n.who = request.who
    BY <1>1, <1>4 DEF RequestType, PCs, Reading
  <2> HIDE DEF n
  <2>2. QED
    BY <1>1, <1>4, <2>1 DEF n
<1>5. QED
  BY <1>2, <1>3, <1>4 DEF LookUp

\* A look-up keeps the invariant: whoever joins a load raises its floor to the latest
\* announcement, which that load will cover.
LEMMA LookUpKeeps ==
  ASSUME AdmissionInv, NEW r \in Requests, NEW request \in RequestType, LookUp(r, request),
         request.on = Nobody, request.who \in Identities, request.generation <= generation, pending # r,
         UNCHANGED <<access, revision, generation, together, announced>>,
         NEW floor \in [Requests -> Pairs], \A s \in Requests : FloorOK(floor, s),
         NEW base \in Pairs, Covers(announced, base), Covers(base, request.since),
         \A s \in Requests : requests[s].pc = "waiting" /\ requests[s].on = r => Covers(base, floor[s])
  PROVE  AdmissionInv'
<1>1. /\ requests' \in [Requests -> RequestType]
      /\ \A s \in Requests \ {r} : requests'[s] = requests[s]
      /\ requests'[r].since = request.since /\ requests'[r].who = request.who
      /\ entry' \in Admissions \cup {Nobody} /\ pending' \in Requests \cup {Nobody}
  BY LookedUp
<1>2. Types'
  BY <1>1 DEF AdmissionInv, Types
<1>3. CASE /\ requests'[r].pc = "served" /\ requests'[r].on = Nobody
           /\ requests'[r].access = entry.access /\ requests'[r].revision = entry.revision
           /\ requests'[r].generation = request.generation
           /\ entry # Nobody /\ UNCHANGED <<entry, pending>>
  <2>1. CacheOK'
    BY <1>1, <1>3 DEF AdmissionInv, CacheOK, Covers, Existed, Loading, Now, Types
  <2>2. ASSUME NEW s \in Requests PROVE LoadOK(s)' /\ RequestOK(s)'
    BY <1>1, <1>3 DEF AdmissionInv, LoadOK, RequestOK, CacheOK, Existed
  <2>3. FloorsOK'
    <3> DEFINE g == [floor EXCEPT ![r] = base]
    <3>1. g \in [Requests -> Pairs] /\ g[r] = base /\ \A s \in Requests \ {r} : g[s] = floor[s]
      OBVIOUS
    <3> HIDE DEF g
    <3>2. entry.access \in Nat /\ entry.revision \in Nat /\ announced \in Pairs /\ Covers(entry, announced)
      BY <1>3 DEF AdmissionInv, Types, Admissions, CacheOK
    <3>3. Covers(requests'[r], base)
      BY <1>3, <3>2 DEF Covers, Pairs
    <3>4. FloorOK(g, r)'
      BY <1>1, <1>3, <3>1, <3>3 DEF FloorOK, Reading
    <3>5. ASSUME NEW s \in Requests \ {r} PROVE FloorOK(g, s)'
      <4>1. requests[s].pc = "waiting" => requests[s].on \in Requests
        BY DEF AdmissionInv, Types, RequestType, RequestOK
      <4>2. QED
        BY <1>1, <3>1, <4>1 DEF FloorOK
    <3>6. QED
      BY <3>1, <3>4, <3>5 DEF FloorsOK
  <2>4. QED
    BY <1>2, <2>1, <2>2, <2>3 DEF AdmissionInv
<1>4. CASE /\ requests'[r].pc = "waiting" /\ requests'[r].on = pending
           /\ requests'[r].generation = request.generation
           /\ pending # Nobody /\ entry' = Nobody /\ UNCHANGED pending
  <2>1. CacheOK'
    BY <1>1, <1>4 DEF AdmissionInv, CacheOK, Loading, Now, Types
  <2>2. ASSUME NEW s \in Requests PROVE LoadOK(s)' /\ RequestOK(s)'
    BY <1>1, <1>4 DEF AdmissionInv, LoadOK, RequestOK, CacheOK, Existed
  <2>3. FloorsOK'
    <3>0. PICK u \in Requests : u = pending
      BY <1>4 DEF AdmissionInv, Types
    <3>1. u # r /\ announced \in Pairs /\ requests[u].pc \in Reading \cup {"loaded"}
      BY <1>4, <3>0 DEF AdmissionInv, Types, CacheOK, Loading
    <3>2. PICK g \in [Requests -> Pairs] :
            /\ g[r] = base /\ g[u] = announced
            /\ \A s \in Requests \ {r, u} : g[s] = floor[s]
      <4> DEFINE h == [floor EXCEPT ![r] = base, ![u] = announced]
      <4>1. /\ h \in [Requests -> Pairs] /\ h[r] = base /\ h[u] = announced
            /\ \A s \in Requests \ {r, u} : h[s] = floor[s]
        BY <3>1
      <4> HIDE DEF h
      <4>2. QED
        BY <4>1
    <3>3. FloorOK(g, r)'
      BY <1>1, <1>4, <3>0, <3>2 DEF FloorOK, Reading
    <3>4. /\ Covers(announced, announced) /\ Covers(announced, floor[u])
          /\ Covers(floor[u], requests[u].since)
      BY <3>0, <3>1 DEF FloorOK, Covers, Pairs
    <3>5. requests[u].since \in Pairs /\ floor[u] \in Pairs
      BY <3>1 DEF AdmissionInv, Types, RequestType
    <3>6. Covers(announced, requests[u].since)
      BY <3>1, <3>4, <3>5 DEF Covers, Pairs
    <3>7. FloorOK(g, u)'
      BY <1>1, <3>1, <3>2, <3>4, <3>6 DEF FloorOK, Reading
    <3>8. ASSUME NEW s \in Requests \ {r, u} PROVE FloorOK(g, s)'
      <4>1. requests[s].pc = "waiting" => requests[s].on \in Requests
        BY DEF AdmissionInv, Types, RequestType, RequestOK
      <4>2. CASE requests[s].pc = "waiting" /\ requests[s].on = u
        BY <1>1, <3>1, <3>2, <4>2 DEF FloorOK
      <4>3. QED
        BY <1>1, <3>2, <4>1, <4>2 DEF FloorOK
    <3>9. QED
      BY <3>2, <3>3, <3>7, <3>8 DEF FloorsOK
  <2>4. QED
    BY <1>2, <2>1, <2>2, <2>3 DEF AdmissionInv
<1>5. CASE /\ requests'[r].pc = "access" /\ requests'[r].on = Nobody
           /\ requests'[r].generation = generation
           /\ entry' = Nobody /\ pending' = r
  <2>1. CacheOK'
    BY <1>1, <1>5 DEF AdmissionInv, CacheOK, Loading, Now, Reading
  <2>2. ASSUME NEW s \in Requests PROVE LoadOK(s)' /\ RequestOK(s)'
    <3>1. CASE s = r
      <4>1. generation \in Nat /\ generation <= generation
        BY DEF AdmissionInv, Types
      <4>2. QED
        BY <1>1, <1>5, <3>1, <4>1 DEF LoadOK, RequestOK
    <3>2. CASE s # r
      BY <1>1, <3>2 DEF AdmissionInv, LoadOK, RequestOK, Existed
    <3>3. QED
      BY <3>1, <3>2
  <2>3. FloorsOK'
    <3> DEFINE g == [floor EXCEPT ![r] = base]
    <3>1. g \in [Requests -> Pairs] /\ g[r] = base /\ \A s \in Requests \ {r} : g[s] = floor[s]
      OBVIOUS
    <3> HIDE DEF g
    <3>2. FloorOK(g, r)'
      BY <1>1, <1>5, <3>1 DEF FloorOK, Reading
    <3>3. ASSUME NEW s \in Requests \ {r} PROVE FloorOK(g, s)'
      <4>1. requests[s].pc = "waiting" => requests[s].on \in Requests
        BY DEF AdmissionInv, Types, RequestType, RequestOK
      <4>2. QED
        BY <1>1, <3>1, <4>1 DEF FloorOK
    <3>4. QED
      BY <3>1, <3>2, <3>3 DEF FloorsOK
  <2>4. QED
    BY <1>2, <2>1, <2>2, <2>3 DEF AdmissionInv
<1>6. QED
  BY <1>3, <1>4, <1>5, LookedUp
-----------------------------------------------------------------------------
LEMMA GetKeeps ==
  ASSUME AdmissionInv, NEW r \in Requests, Get(r)
  PROVE  AdmissionInv'
<1>1. PICK who \in Identities : LookUp(r, [NoRequest EXCEPT !.who = who, !.since = announced])
  BY DEF Get
<1> DEFINE request == [NoRequest EXCEPT !.who = who, !.since = announced]
<1>2. /\ request \in RequestType /\ request.on = Nobody /\ request.generation = 0
      /\ request.since = announced /\ request.who = who
  BY DEF NoRequest, RequestType, PCs, Reading, Pairs, AdmissionInv, Types
<1>3. LookUp(r, request)
  BY <1>1
<1> HIDE DEF request
<1>4. /\ UNCHANGED <<access, revision, generation, together, announced>>
      /\ requests[r].pc \in {"idle", "served", "refused"}
      /\ \A s \in Requests : requests[s].on # r
  BY DEF Get
<1>5. request.generation <= generation
  BY <1>2 DEF AdmissionInv, Types
<1>6. pending # r
  BY <1>4, AdmissionAssumption DEF AdmissionInv, CacheOK, Loading, Reading
<1>7. announced \in Pairs /\ Covers(announced, announced)
  BY DEF AdmissionInv, Types, Pairs, Covers
<1>8. PICK b \in Pairs : b = announced
  BY <1>7
<1>9. PICK floor \in [Requests -> Pairs] : \A s \in Requests : FloorOK(floor, s)
  BY DEF AdmissionInv, FloorsOK
<1>10. QED
  BY <1>2, <1>3, <1>4, <1>5, <1>6, <1>7, <1>8, <1>9, LookUpKeeps

\* A load that was overtaken by a clear starts again, with the floor it had.
LEMMA RestartKeeps ==
  ASSUME AdmissionInv, NEW r \in Requests, requests[r].pc = "loaded", requests[r].generation # generation,
         LookUp(r, requests[r]), UNCHANGED <<access, revision, generation, together, announced>>
  PROVE  AdmissionInv'
<1>1. /\ requests[r] \in RequestType /\ requests[r].on = Nobody /\ requests[r].who \in Identities
      /\ requests[r].generation <= generation
  BY DEF AdmissionInv, Types, RequestOK, LoadOK
<1>2. pending # r
  BY AdmissionAssumption DEF AdmissionInv, CacheOK
<1>3. PICK floor \in [Requests -> Pairs] : \A s \in Requests : FloorOK(floor, s)
  BY DEF AdmissionInv, FloorsOK
<1>4. /\ floor[r] \in Pairs /\ Covers(announced, floor[r]) /\ Covers(floor[r], requests[r].since)
      /\ \A s \in Requests : requests[s].pc = "waiting" /\ requests[s].on = r => Covers(floor[r], floor[s])
  BY <1>3 DEF FloorOK
<1>5. QED
  BY <1>1, <1>2, <1>3, <1>4, LookUpKeeps

\* Floors survive a step of one request that keeps its own.
LEMMA FloorsKept ==
  ASSUME AdmissionInv, NEW r \in Requests, announced' = announced,
         \A s \in Requests \ {r} : requests'[s] = requests[s],
         NEW floor \in [Requests -> Pairs], \A s \in Requests : FloorOK(floor, s),
         FloorOK(floor, r)'
  PROVE  FloorsOK'
<1>1. ASSUME NEW s \in Requests PROVE FloorOK(floor, s)'
  BY DEF FloorOK
<1>2. QED
  BY <1>1 DEF FloorsOK

LEMMA ReadKeeps ==
  ASSUME AdmissionInv, NEW r \in Requests, Read(r)
  PROVE  AdmissionInv'
<1> DEFINE n == [requests[r] EXCEPT
              !.pc = Evidence(@),
              !.access = IF requests[r].pc = "access" THEN access ELSE @,
              !.revision = IF requests[r].pc = "installation" THEN revision ELSE @]
<1>1. requests[r] \in RequestType /\ access \in Nat /\ revision \in Nat /\ requests[r].pc \in Reading
  BY DEF AdmissionInv, Types, Read
<1>2. Evidence(requests[r].pc) \in PCs
  BY <1>1 DEF Evidence, Reading, PCs
<1>3. /\ n \in RequestType /\ n.pc = Evidence(requests[r].pc) /\ n.on = requests[r].on
      /\ n.access = IF requests[r].pc = "access" THEN access ELSE requests[r].access
      /\ n.revision = IF requests[r].pc = "installation" THEN revision ELSE requests[r].revision
      /\ n.generation = requests[r].generation /\ n.since = requests[r].since /\ n.who = requests[r].who
  BY <1>1, <1>2 DEF RequestType
<1>4. requests' = [requests EXCEPT ![r] = n]
      /\ UNCHANGED <<access, revision, generation, entry, pending, together, announced>>
  BY <1>1 DEF Read, AdmissionInv, Types
<1> HIDE DEF n
<1>5. /\ requests' \in [Requests -> RequestType] /\ requests'[r] = n
      /\ \A s \in Requests \ {r} : requests'[s] = requests[s]
  BY <1>3, <1>4 DEF AdmissionInv, Types
<1>6. Types'
  BY <1>4, <1>5 DEF AdmissionInv, Types
<1>7. CacheOK'
  <2>1. n.pc \in Reading \cup {"loaded"}
    BY <1>1, <1>3 DEF Evidence, Reading
  <2>2. QED
    BY <1>3, <1>4, <1>5, <2>1 DEF AdmissionInv, CacheOK, Existed, Loading, Now
<1>8. LoadOK(r)' /\ RequestOK(r)'
  <2>1. LoadOK(r) /\ RequestOK(r) /\ CacheOK
    BY DEF AdmissionInv
  <2>2. /\ requests[r].pc = "access again" => requests[r].access = access
        /\ requests[r].pc = "installation again" => requests[r].revision = revision
    BY DEF Read
  <2>3. RequestOK(r)'
    BY <1>1, <1>3, <1>5, <2>1 DEF RequestOK, Evidence, Reading
  <2>4. CASE requests[r].pc = "access"
    <3>1. n.pc = "installation" /\ n.access = access /\ n.generation = requests[r].generation
      BY <1>3, <2>4 DEF Evidence
    <3>2. n.generation <= generation
      BY <2>1, <3>1 DEF LoadOK
    <3>3. n.access <= access
      BY <1>1, <3>1
    <3>4. n.access >= announced.access
      BY <2>1, <3>1 DEF CacheOK
    <3>5. QED
      BY <1>4, <1>5, <2>3, <3>1, <3>2, <3>3, <3>4 DEF LoadOK
  <2>5. CASE requests[r].pc = "installation"
    <3>1. n.pc = "access again" /\ n.access = requests[r].access /\ n.revision = revision
      BY <1>3, <2>5 DEF Evidence
    <3>2. n.access = access => Existed(n)
      BY <2>1, <3>1 DEF Existed, CacheOK, Now
    <3>3. QED
      BY <1>1, <1>3, <1>4, <1>5, <2>1, <2>3, <2>5, <3>1, <3>2 DEF LoadOK, CacheOK, Existed
  <2>6. CASE requests[r].pc \in {"access again", "installation again"}
    <3>1. /\ n.pc \in {"installation again", "loaded"} /\ n.access = requests[r].access
          /\ n.revision = requests[r].revision
      BY <1>3, <2>6 DEF Evidence
    <3>2. Existed(requests[r])
      BY <2>1, <2>2, <2>6 DEF LoadOK
    <3>3. QED
      BY <1>1, <1>3, <1>4, <1>5, <2>1, <2>3, <2>6, <3>1, <3>2 DEF LoadOK, Existed
  <2>7. QED
    BY <1>1, <2>4, <2>5, <2>6 DEF Reading
<1>9. ASSUME NEW s \in Requests \ {r} PROVE LoadOK(s)' /\ RequestOK(s)'
  BY <1>4, <1>5 DEF AdmissionInv, LoadOK, RequestOK, Existed
<1>10. FloorsOK'
  <2>1. PICK floor \in [Requests -> Pairs] : \A s \in Requests : FloorOK(floor, s)
    BY DEF AdmissionInv, FloorsOK
  <2>2. n.pc \in Reading \cup {"loaded"}
    BY <1>1, <1>3 DEF Evidence, Reading
  <2>3. FloorOK(floor, r)'
    BY <1>1, <1>3, <1>4, <1>5, <2>1, <2>2 DEF FloorOK, Reading
  <2>4. QED
    BY <1>4, <1>5, <2>1, <2>3, FloorsKept
<1>11. QED
  BY <1>6, <1>7, <1>8, <1>9, <1>10 DEF AdmissionInv

LEMMA DenyKeeps ==
  ASSUME AdmissionInv, NEW r \in Requests, Deny(r)
  PROVE  AdmissionInv'
<1> DEFINE n == [NoRequest EXCEPT !.pc = "refused", !.who = requests[r].who]
<1>1. requests[r] \in RequestType /\ requests[r].pc \in Reading
  BY DEF AdmissionInv, Types, Deny
<1>2. n \in RequestType /\ n.pc = "refused" /\ n.on = Nobody /\ n.generation = 0 /\ n.who = requests[r].who
  BY <1>1 DEF NoRequest, RequestType, PCs, Pairs
<1>3. /\ requests' = [requests EXCEPT ![r] = n]
      /\ pending' = IF pending = r THEN Nobody ELSE pending
      /\ UNCHANGED <<access, revision, generation, entry, together, announced>>
  BY DEF Deny
<1> HIDE DEF n
<1>4. /\ requests' \in [Requests -> RequestType] /\ requests'[r] = n
      /\ \A s \in Requests \ {r} : requests'[s] = requests[s]
  BY <1>2, <1>3 DEF AdmissionInv, Types
<1>5. Types'
  BY <1>3, <1>4 DEF AdmissionInv, Types
<1>6. CacheOK'
  BY <1>3, <1>4 DEF AdmissionInv, Types, CacheOK, Existed, Loading, Now, Covers
<1>7. LoadOK(r)' /\ RequestOK(r)'
  <2>1. requests[r].who \in Identities
    BY <1>1 DEF AdmissionInv, RequestOK, Reading
  <2>2. generation \in Nat
    BY DEF AdmissionInv, Types
  <2>3. RequestOK(r)'
    BY <1>2, <1>4, <2>1 DEF RequestOK
  <2>4. 0 <= generation
    BY <2>2
  <2>5. LoadOK(r)'
    BY <1>2, <1>3, <1>4, <2>4 DEF LoadOK
  <2>6. QED
    BY <2>3, <2>5
<1>8. ASSUME NEW s \in Requests \ {r} PROVE LoadOK(s)' /\ RequestOK(s)'
  BY <1>3, <1>4 DEF AdmissionInv, LoadOK, RequestOK, Existed
<1>9. FloorsOK'
  <2>1. PICK floor \in [Requests -> Pairs] : \A s \in Requests : FloorOK(floor, s)
    BY DEF AdmissionInv, FloorsOK
  <2>2. FloorOK(floor, r)'
    BY <1>2, <1>4 DEF FloorOK, Reading
  <2>3. QED
    BY <1>3, <1>4, <2>1, <2>2, FloorsKept
<1>10. QED
  BY <1>5, <1>6, <1>7, <1>8, <1>9 DEF AdmissionInv

\* A load that was not overtaken is served, and cached if it is still the shared one.
LEMMA LoadedKeeps ==
  ASSUME AdmissionInv, NEW r \in Requests, Loaded(r)
  PROVE  AdmissionInv'
<1>1. /\ requests[r] \in RequestType /\ requests[r].pc = "loaded"
      /\ UNCHANGED <<access, revision, generation, together, announced>>
  BY DEF AdmissionInv, Types, Loaded
<1>2. CASE requests[r].generation # generation
  BY <1>1, <1>2, RestartKeeps DEF Loaded
<1>3. CASE requests[r].generation = generation
  <2> DEFINE n == [requests[r] EXCEPT !.pc = "served"]
             e == [who |-> requests[r].who, access |-> requests[r].access,
                   revision |-> requests[r].revision]
  <2>1. /\ n \in RequestType /\ n.pc = "served" /\ n.on = requests[r].on
        /\ n.access = requests[r].access /\ n.revision = requests[r].revision
        /\ n.generation = requests[r].generation /\ n.since = requests[r].since /\ n.who = requests[r].who
    BY <1>1 DEF RequestType, PCs
  <2>2. e.access = requests[r].access /\ e.revision = requests[r].revision
    OBVIOUS
  <2>3. /\ requests' = [requests EXCEPT ![r] = n]
        /\ entry' = IF pending = r THEN e ELSE entry
        /\ pending' = IF pending = r THEN Nobody ELSE pending
    BY <1>3 DEF Loaded, AdmissionInv, Types
  <2>4. /\ requests' \in [Requests -> RequestType] /\ requests'[r] = n
        /\ \A s \in Requests \ {r} : requests'[s] = requests[s]
    BY <2>1, <2>3 DEF AdmissionInv, Types
  <2>5. requests[r].who \in Identities => e \in Admissions
    BY <1>1 DEF Admissions, RequestType
  <2> HIDE DEF n, e
  <2>6. /\ LoadOK(r) /\ RequestOK(r) /\ Existed(requests[r])
        /\ requests[r].access >= announced.access /\ requests[r].revision >= announced.revision
    BY <1>1, <1>3 DEF AdmissionInv, LoadOK
  <2>7. Types'
    BY <1>1, <2>3, <2>4, <2>5, <2>6 DEF AdmissionInv, Types, RequestOK
  <2>8. CacheOK'
    BY <1>1, <2>2, <2>3, <2>4, <2>6 DEF AdmissionInv, Types, CacheOK, Existed, Loading, Now, Covers
  <2>9. LoadOK(r)' /\ RequestOK(r)'
    BY <1>1, <2>1, <2>4, <2>6 DEF LoadOK, RequestOK, Existed
  <2>10. ASSUME NEW s \in Requests \ {r} PROVE LoadOK(s)' /\ RequestOK(s)'
    BY <1>1, <2>4 DEF AdmissionInv, LoadOK, RequestOK, Existed
  <2>11. FloorsOK'
    <3>1. PICK floor \in [Requests -> Pairs] : \A s \in Requests : FloorOK(floor, s)
      BY DEF AdmissionInv, FloorsOK
    <3>2. Covers(announced, floor[r]) /\ Covers(floor[r], requests[r].since)
      BY <1>1, <3>1 DEF FloorOK
    <3>3. Covers(n, floor[r])
      <4>1. /\ n.access \in Nat /\ n.revision \in Nat /\ announced \in Pairs /\ floor[r] \in Pairs
            /\ Covers(n, announced)
        BY <2>1, <2>6, <3>1 DEF AdmissionInv, Types, RequestType, Covers
      <4>2. QED
        BY <3>2, <4>1, CoversTransitive
    <3>4. FloorOK(floor, r)'
      BY <2>1, <2>4, <3>2, <3>3 DEF FloorOK, Reading
    <3>5. QED
      BY <1>1, <2>4, <3>1, <3>4, FloorsKept
  <2>12. QED
    BY <2>7, <2>8, <2>9, <2>10, <2>11 DEF AdmissionInv
<1>4. QED
  BY <1>2, <1>3

\* Whoever waited is served what the load covers, which includes his own floor.
LEMMA SharedKeeps ==
  ASSUME AdmissionInv, NEW r \in Requests, Shared(r)
  PROVE  AdmissionInv'
<1>1. PICK u \in Requests : u = requests[r].on
  BY DEF Shared, AdmissionInv, Types, RequestType, RequestOK
<1> DEFINE n == [requests[r] EXCEPT !.pc = requests[u].pc, !.on = Nobody,
                   !.access = requests[u].access, !.revision = requests[u].revision]
<1>2. /\ requests[r] \in RequestType /\ requests[u] \in RequestType /\ requests[r].pc = "waiting"
      /\ requests[u].pc \in {"served", "refused"}
      /\ UNCHANGED <<access, revision, generation, entry, pending, together, announced>>
  BY <1>1 DEF Shared, AdmissionInv, Types
<1>3. /\ n \in RequestType /\ n.pc = requests[u].pc /\ n.on = Nobody
      /\ n.access = requests[u].access /\ n.revision = requests[u].revision
      /\ n.generation = requests[r].generation /\ n.since = requests[r].since /\ n.who = requests[r].who
  BY <1>2 DEF RequestType
<1>4. requests' = [requests EXCEPT ![r] = n]
  BY <1>1, <1>2 DEF Shared, AdmissionInv, Types
<1> HIDE DEF n
<1>5. /\ requests' \in [Requests -> RequestType] /\ requests'[r] = n
      /\ \A s \in Requests \ {r} : requests'[s] = requests[s]
  BY <1>3, <1>4 DEF AdmissionInv, Types
<1>6. Types'
  BY <1>2, <1>5 DEF AdmissionInv, Types
<1>7. CacheOK'
  <2>1. pending # r
    BY <1>2, AdmissionAssumption DEF AdmissionInv, CacheOK, Loading, Reading
  <2>2. QED
    BY <1>2, <1>5, <2>1 DEF AdmissionInv, Types, CacheOK, Existed, Loading, Now
<1>8. LoadOK(r)' /\ RequestOK(r)'
  <2>1. requests[r].who \in Identities /\ requests[r].generation <= generation
    BY <1>2 DEF AdmissionInv, LoadOK, RequestOK
  <2>2. requests[u].pc = "served" => Existed(requests[u])
    BY DEF AdmissionInv, LoadOK
  <2>3. RequestOK(r)'
    BY <1>2, <1>3, <1>5, <2>1 DEF RequestOK
  <2>4. n.pc = "served" => Existed(n)
    BY <1>3, <2>2 DEF Existed
  <2>5. LoadOK(r)'
    BY <1>2, <1>3, <1>5, <2>1, <2>4 DEF LoadOK, Existed
  <2>6. QED
    BY <2>3, <2>5
<1>9. ASSUME NEW s \in Requests \ {r} PROVE LoadOK(s)' /\ RequestOK(s)'
  BY <1>2, <1>5 DEF AdmissionInv, LoadOK, RequestOK, Existed
<1>10. FloorsOK'
  <2>1. PICK floor \in [Requests -> Pairs] : \A s \in Requests : FloorOK(floor, s)
    BY DEF AdmissionInv, FloorsOK
  <2>2. Covers(floor[r], requests[r].since) /\ Covers(floor[u], floor[r])
    BY <1>1, <1>2, <2>1 DEF FloorOK
  <2>3. requests[u].pc = "served" => Covers(requests[u], floor[u])
    BY <2>1 DEF FloorOK
  <2>4. n.pc = "served" => Covers(n, floor[r])
    <3>1. SUFFICES ASSUME n.pc = "served" PROVE Covers(n, floor[r])
      OBVIOUS
    <3>2. /\ n.access \in Nat /\ n.revision \in Nat /\ floor[u] \in Pairs /\ floor[r] \in Pairs
          /\ Covers(n, floor[u])
      BY <1>2, <1>3, <2>1, <2>3, <3>1 DEF RequestType, Covers
    <3>3. QED
      BY <2>2, <3>2, CoversTransitive
  <2>5. FloorOK(floor, r)'
    BY <1>2, <1>3, <1>5, <2>2, <2>4 DEF FloorOK, Reading
  <2>6. QED
    BY <1>2, <1>5, <2>1, <2>5, FloorsKept
<1>11. QED
  BY <1>6, <1>7, <1>8, <1>9, <1>10 DEF AdmissionInv

LEMMA ExpireKeeps ==
  ASSUME AdmissionInv, entry' \in {entry, Nobody},
         UNCHANGED <<access, revision, generation, pending, requests, together, announced>>
  PROVE  AdmissionInv'
<1>1. Types'
  BY DEF AdmissionInv, Types
<1>2. CacheOK'
  BY DEF AdmissionInv, CacheOK, Existed, Loading, Now
<1>3. ASSUME NEW s \in Requests PROVE LoadOK(s)' /\ RequestOK(s)'
  BY DEF AdmissionInv, LoadOK, RequestOK, Existed
<1>4. FloorsOK'
  BY DEF AdmissionInv, FloorsOK, FloorOK
<1>5. QED
  BY <1>1, <1>2, <1>3, <1>4 DEF AdmissionInv

LEMMA BoundKept ==
  ASSUME NEW a \in Nat, NEW b \in Nat, NEW c \in Nat, NEW d \in Nat, NEW m \in Nat,
         c + d = a + b + 1, a + b < m
  PROVE  c + d <= m
OBVIOUS

\* A change makes revisions newer: what was read may be out of date, and will not agree.
LEMMA ChangeKeeps ==
  ASSUME AdmissionInv, Change
  PROVE  AdmissionInv'
<1>1. /\ access \in Nat /\ revision \in Nat /\ access' \in {access, access + 1}
      /\ revision' \in {revision, revision + 1} /\ access' + revision' = access + revision + 1
      /\ access + revision < MaxChanges /\ MaxChanges \in Nat
      /\ Now' \in together' /\ together \subseteq together'
      /\ UNCHANGED <<generation, entry, pending, requests, announced>>
  BY AdmissionAssumption DEF Change, AdmissionInv, Types, Now
<1>2. Types'
  <2>1. access' \in Nat /\ revision' \in Nat
    BY <1>1
  <2>2. access' + revision' <= MaxChanges
    BY <1>1, <2>1, BoundKept
  <2>3. QED
    BY <1>1, <2>1, <2>2 DEF AdmissionInv, Types
<1>3. CacheOK'
  <2>1. access' >= announced.access /\ revision' >= announced.revision
    BY <1>1 DEF AdmissionInv, CacheOK, Types, Pairs
  <2>2. QED
    BY <1>1, <2>1 DEF AdmissionInv, CacheOK, Existed, Loading
<1>4. ASSUME NEW s \in Requests PROVE LoadOK(s)' /\ RequestOK(s)'
  <2>1. requests[s].access \in Nat
    BY DEF AdmissionInv, Types, RequestType
  <2>2. LoadOK(s) /\ RequestOK(s)
    BY DEF AdmissionInv
  <2>3. RequestOK(s)'
    BY <1>1, <2>2 DEF RequestOK
  <2>4. Existed(requests[s]) => Existed(requests[s])'
    BY <1>1 DEF Existed
  <2>5. requests[s].access <= access => requests[s].access <= access'
    BY <1>1, <2>1
  <2>6. requests[s].access <= access /\ requests[s].access = access' => access = access'
    BY <1>1, <2>1
  <2>7. LoadOK(s)'
    BY <1>1, <2>2, <2>4, <2>5, <2>6 DEF LoadOK
  <2>8. QED
    BY <2>3, <2>7
<1>5. FloorsOK'
  BY <1>1 DEF AdmissionInv, FloorsOK, FloorOK
<1>6. QED
  BY <1>2, <1>3, <1>4, <1>5 DEF AdmissionInv

\* After a clear nothing is cached, and no load that began before it counts.
LEMMA ClearKeeps ==
  ASSUME AdmissionInv, Clear
  PROVE  AdmissionInv'
<1>1. /\ generation \in Nat /\ generation < MaxClears /\ MaxClears \in Nat /\ generation' = generation + 1
      /\ entry' = Nobody /\ pending' = Nobody /\ announced' = Now
      /\ UNCHANGED <<access, revision, requests, together>>
  BY AdmissionAssumption DEF Clear, AdmissionInv, Types
<1>2. Now \in Pairs /\ Now.access = access /\ Now.revision = revision /\ Covers(Now, announced)
  BY DEF Now, Pairs, AdmissionInv, Types, CacheOK, Covers
<1>3. Types'
  BY <1>1, <1>2 DEF AdmissionInv, Types
<1>4. CacheOK'
  <2>1. access >= access /\ revision >= revision
    BY DEF AdmissionInv, Types
  <2>2. Now' = Now
    BY <1>1 DEF Now
  <2>3. QED
    BY <1>1, <1>2, <2>1, <2>2 DEF AdmissionInv, CacheOK
<1>5. ASSUME NEW s \in Requests PROVE LoadOK(s)' /\ RequestOK(s)'
  <2>1. LoadOK(s) /\ RequestOK(s) /\ requests[s].generation \in Nat
    BY DEF AdmissionInv, Types, RequestType
  <2>2. requests[s].generation <= generation
    BY <2>1 DEF LoadOK
  <2>3. requests[s].generation <= generation' /\ requests[s].generation # generation'
    BY <1>1, <2>1, <2>2
  <2>4. QED
    BY <1>1, <2>1, <2>3 DEF LoadOK, RequestOK, Existed
<1>6. FloorsOK'
  <2>1. PICK floor \in [Requests -> Pairs] : \A s \in Requests : FloorOK(floor, s)
    BY DEF AdmissionInv, FloorsOK
  <2>2. ASSUME NEW s \in Requests, Covers(announced, floor[s]) PROVE Covers(Now, floor[s])
    <3>1. Now.access \in Nat /\ Now.revision \in Nat /\ announced \in Pairs /\ floor[s] \in Pairs
      BY <1>2, <2>1 DEF AdmissionInv, Types, Pairs
    <3>2. QED
      BY <1>2, <2>2, <3>1, CoversTransitive
  <2>3. ASSUME NEW s \in Requests PROVE FloorOK(floor, s)'
    BY <1>1, <2>1, <2>2 DEF FloorOK
  <2>4. QED
    BY <2>1, <2>3 DEF FloorsOK
<1>7. QED
  BY <1>3, <1>4, <1>5, <1>6 DEF AdmissionInv

LEMMA NextKeepsIInv == AdmissionInv /\ [AdmNext]_admVars => AdmissionInv'
<1> SUFFICES ASSUME AdmissionInv, [AdmNext]_admVars PROVE AdmissionInv'
  OBVIOUS
<1>1. CASE UNCHANGED admVars
  BY <1>1, ExpireKeeps DEF admVars
<1>2. CASE ExpireEntry
  BY <1>2, ExpireKeeps DEF ExpireEntry
<1>3. QED
  BY <1>1, <1>2, GetKeeps, ReadKeeps, DenyKeeps, LoadedKeeps, SharedKeeps, ChangeKeeps, ClearKeeps DEF AdmNext

LEMMA InitIsIInv == AdmInit => AdmissionInv
<1> SUFFICES ASSUME AdmInit PROVE AdmissionInv
  OBVIOUS
<1>1. /\ Now = [access |-> 0, revision |-> 0] /\ Now \in Pairs /\ announced = Now /\ together = {Now}
      /\ access = 0 /\ revision = 0 /\ generation = 0 /\ entry = Nobody /\ pending = Nobody
  BY DEF AdmInit, Now, Pairs
<1>2. /\ NoRequest \in RequestType /\ NoRequest.pc = "idle" /\ NoRequest.on = Nobody
      /\ NoRequest.generation = 0
  BY DEF NoRequest, RequestType, PCs, Pairs
<1>3. requests \in [Requests -> RequestType] /\ \A r \in Requests : requests[r] = NoRequest
  BY <1>2 DEF AdmInit
<1>4. Types
  BY <1>1, <1>3, AdmissionAssumption DEF Types
<1>5. CacheOK
  BY <1>1 DEF CacheOK
<1>6. ASSUME NEW r \in Requests PROVE LoadOK(r) /\ RequestOK(r)
  <2>1. requests[r].pc = "idle" /\ requests[r].on = Nobody /\ requests[r].generation = 0
    BY <1>2, <1>3
  <2>2. requests[r].generation <= generation
    BY <1>1, <2>1
  <2>3. QED
    BY <2>1, <2>2 DEF LoadOK, RequestOK
<1>7. FloorsOK
  <2>1. [r \in Requests |-> [access |-> 0, revision |-> 0]] \in [Requests -> Pairs]
    BY DEF Pairs
  <2>2. ASSUME NEW floor, NEW r \in Requests PROVE FloorOK(floor, r)
    BY <1>2, <1>3 DEF FloorOK, Reading
  <2>3. QED
    BY <2>1, <2>2 DEF FloorsOK
<1>8. QED
  BY <1>4, <1>5, <1>6, <1>7 DEF AdmissionInv

\* Cache, loads in flight and waiting requests keep their floors in every reachable state,
\* for any number of requests, changes and clears (app-session.ts:18-41, admission.ts:14-24).
THEOREM AdmissionInvariance == AdmSpec => []AdmissionInv
BY InitIsIInv, NextKeepsIInv, PTL DEF AdmSpec
-----------------------------------------------------------------------------
\* Every cached value and every request is well formed (app-session.ts:5-19).
THEOREM AdmissionTypes == AdmSpec => []Types
<1>1. AdmissionInv => Types
  BY DEF AdmissionInv
<1>2. QED
  BY <1>1, AdmissionInvariance, PTL

\* No request is admitted on what it was told before it began is over
\* (app-session.ts:27-31, 41).
THEOREM NothingIsStale == AdmSpec => []NothingStale
<1>1. ASSUME AdmissionInv PROVE NothingStale
  <2>1. PICK floor \in [Requests -> Pairs] : \A s \in Requests : FloorOK(floor, s)
    BY <1>1 DEF AdmissionInv, FloorsOK
  <2>2. ASSUME NEW r \in Requests, Served(r) PROVE Covers(requests[r], requests[r].since)
    <3>1. /\ requests[r].access \in Nat /\ requests[r].revision \in Nat
          /\ requests[r].since \in Pairs /\ floor[r] \in Pairs
      BY <1>1, <2>1 DEF AdmissionInv, Types, RequestType
    <3>2. Covers(requests[r], floor[r]) /\ Covers(floor[r], requests[r].since)
      BY <2>1, <2>2 DEF FloorOK, Served
    <3>3. QED
      BY <3>1, <3>2, CoversTransitive
  <2>3. QED
    BY <2>2 DEF NothingStale, Covers
<1>2. QED
  BY <1>1, AdmissionInvariance, PTL

\* An admission is evidence of one moment (admission.ts:13-24).
THEOREM EvidenceIsOfOneMoment == AdmSpec => []EvidenceCoexisted
<1>1. AdmissionInv => EvidenceCoexisted
  BY DEF AdmissionInv, LoadOK, EvidenceCoexisted, Served, Existed
<1>2. QED
  BY <1>1, AdmissionInvariance, PTL
-----------------------------------------------------------------------------
(*****************************************************************************)
(* The gateway.  Each step moves one invocation, so the invariant is a       *)
(* conjunction over invocations of how the parts of one belong together, and *)
(* a count of those that hold a slot.                                        *)
(*****************************************************************************)
Ran(i) == stage[i] \in {"executing", "rechecking", "recording"}
Closed(i) == stage[i] \in {"recording", "failing", "settled"}

\* The parts of one invocation: when its write was entered ...
WriteOK(i) ==
  /\ entered[i] = IF started[i] THEN 1 ELSE 0
  /\ started[i] => i \in Writes
  /\ Ran(i) => (started[i] <=> i \in Writes)
  /\ stage[i] \in {"new", "refused", "reading", "identifying", "authorizing"} => ~started[i]

\* ... what a deadline has seen ...
AbortOK(i) ==
  /\ aborted[i] # "no" => aborted[i] = Verdict(i) /\ audit[i] # "none"
  /\ stage[i] \in {"new", "refused"} => aborted[i] = "no"

\* ... what the record says ...
NoteOK(i) ==
  /\ audit[i] = "none" <=> note[i] = "none"
  /\ audit[i] # "none" => aborted[i] # "no" \/ Closed(i)
  /\ Closed(i) => audit[i] # "none"
  /\ note[i] \in Verdicts => note[i] = Verdict(i)
  /\ note[i] = "succeeded" => stage[i] \in {"recording", "settled"} /\ (started[i] <=> i \in Writes)
  /\ stage[i] = "recording" /\ aborted[i] = "no" => note[i] = "succeeded"
  /\ audit[i] = "pending" => stage[i] \in Working

\* ... and what the caller was told.
ReplyOK(i) ==
  /\ reply[i] # "none" => aborted[i] # "no" \/ stage[i] \in {"refused", "settled"}
  /\ stage[i] \in {"refused", "settled"} => reply[i] # "none"
  /\ stage[i] = "new" => reply[i] = "none"
  /\ reply[i] = "ok" => audit[i] = "stored" /\ note[i] = "succeeded" /\ stage[i] = "settled"
  /\ reply[i] \in Verdicts => reply[i] = Verdict(i)

Ok(i) == WriteOK(i) /\ AbortOK(i) /\ NoteOK(i) /\ ReplyOK(i)

\* The invocations that hold a slot.
Underway == {i \in Invocations : stage[i] \in Working}
SlotsOK == IsFiniteSet(Underway) /\ active = Cardinality(Underway)

GatewayInv == TypeOK /\ SlotsOK /\ \A i \in Invocations : Ok(i)
-----------------------------------------------------------------------------
Step(i) ==
  \/ Enter(i) \/ Refuse(i) \/ Prepare(i) \/ Execute(i) \/ Executed(i) \/ Succeed(i) \/ Throw(i)
  \/ AuditReturns(i) \/ Settle(i) \/ Abort(i) \/ Expire(i)

\* A step of one invocation keeps the types.
LEMMA TypesKept ==
  ASSUME TypeOK, NEW i \in Invocations, Step(i), Ok(i), SlotsOK
  PROVE  TypeOK'
<1> USE DEF TypeOK, Working, Verdicts, Record, Reply, Verdict, Returns
<1>1. CASE Enter(i) BY <1>1, GatewayAssumption DEF Enter
<1>2. CASE Refuse(i) BY <1>2 DEF Refuse
<1>3. CASE Prepare(i) BY <1>3 DEF Prepare
<1>4. CASE Execute(i) BY <1>4 DEF Execute
<1>5. CASE Executed(i) BY <1>5 DEF Executed
<1>6. CASE Succeed(i) BY <1>6 DEF Succeed
<1>7. CASE Throw(i) BY <1>7 DEF Throw
<1>8. CASE AuditReturns(i) BY <1>8 DEF AuditReturns
<1>9. CASE Settle(i)
  <2>1. i \in Underway
    BY <1>9 DEF Settle, Underway
  <2>2. active # 0
    BY <2>1, FS_EmptySet DEF SlotsOK
  <2>3. active' \in 0..Concurrency
    BY <1>9, <2>2, GatewayAssumption DEF Settle
  <2>4. QED
    BY <1>9, <2>3 DEF Settle
<1>10. CASE Abort(i) BY <1>10 DEF Abort
<1>11. CASE Expire(i) BY <1>11 DEF Expire
<1>12. QED
  BY <1>1, <1>2, <1>3, <1>4, <1>5, <1>6, <1>7, <1>8, <1>9, <1>10, <1>11 DEF Step

\* A step of one invocation does not touch another.
LEMMA OthersKept ==
  ASSUME TypeOK, NEW i \in Invocations, Step(i), NEW j \in Invocations, j # i
  PROVE  /\ stage'[j] = stage[j] /\ started'[j] = started[j] /\ entered'[j] = entered[j]
         /\ aborted'[j] = aborted[j] /\ audit'[j] = audit[j] /\ note'[j] = note[j]
         /\ reply'[j] = reply[j]
BY DEF TypeOK, Step, Enter, Refuse, Prepare, Execute, Executed, Succeed, Throw, AuditReturns,
   Settle, Abort, Expire, Record, Reply, Returns

\* Its own parts still belong together.
LEMMA PartsKept ==
  ASSUME TypeOK, NEW i \in Invocations, Step(i), Ok(i)
  PROVE  Ok(i)'
<1> USE DEF TypeOK, Ok, WriteOK, AbortOK, NoteOK, ReplyOK, Ran, Closed, Working, Verdicts, Record,
            Reply, Verdict, Returns
<1>1. CASE Enter(i) BY <1>1 DEF Enter
<1>2. CASE Refuse(i) BY <1>2 DEF Refuse
<1>3. CASE Prepare(i) BY <1>3 DEF Prepare
<1>4. CASE Execute(i)
  <2>1. /\ ~started[i] /\ entered[i] = 0 /\ aborted[i] = "no"
        /\ audit[i] = "none" /\ note[i] = "none" /\ reply[i] = "none"
    BY <1>4 DEF Execute
  <2>2. started'[i] <=> i \in Writes
    BY <1>4, Zenon DEF Execute
  <2>3. entered'[i] = IF i \in Writes THEN 1 ELSE 0
    BY <1>4, <2>1 DEF Execute
  <2>4. /\ stage'[i] = "executing" /\ aborted'[i] = "no"
        /\ audit'[i] = "none" /\ note'[i] = "none" /\ reply'[i] = "none"
    BY <1>4, <2>1 DEF Execute
  <2>5. QED
    BY <2>2, <2>3, <2>4
<1>5. CASE Executed(i) BY <1>5 DEF Executed
<1>6. CASE Succeed(i) BY <1>6 DEF Succeed
<1>7. CASE Throw(i) BY <1>7 DEF Throw
<1>8. CASE AuditReturns(i) BY <1>8 DEF AuditReturns
<1>9. CASE Settle(i) BY <1>9 DEF Settle
<1>10. CASE Abort(i) BY <1>10 DEF Abort
<1>11. CASE Expire(i) BY <1>11 DEF Expire
<1>12. QED
  BY <1>1, <1>2, <1>3, <1>4, <1>5, <1>6, <1>7, <1>8, <1>9, <1>10, <1>11 DEF Step

\* The count of slots follows the invocations that hold one.
LEMMA SlotsKept ==
  ASSUME TypeOK, SlotsOK, NEW i \in Invocations, Step(i)
  PROVE  SlotsOK'
<1>1. CASE Enter(i)
  <2>1. Underway' = Underway \cup {i} /\ i \notin Underway
    BY <1>1 DEF Enter, Underway, Working, TypeOK
  <2>2. QED
    BY <1>1, <2>1, FS_AddElement DEF SlotsOK, Enter
<1>2. CASE Settle(i)
  <2>1. Underway' = Underway \ {i} /\ i \in Underway
    BY <1>2 DEF Settle, Underway, Working, TypeOK
  <2>2. QED
    BY <1>2, <2>1, FS_RemoveElement DEF SlotsOK, Settle
<1>3. CASE ~Enter(i) /\ ~Settle(i)
  <2>1. active' = active
    BY <1>3 DEF Step, Refuse, Prepare, Execute, Executed, Succeed, Throw, AuditReturns, Abort, Expire
  <2>2. (i \in Underway)' <=> i \in Underway
    BY <1>3 DEF Step, Refuse, Prepare, Execute, Executed, Succeed, Throw, AuditReturns, Abort, Expire,
       Returns, Underway, Working, TypeOK
  <2>3. Underway' = Underway
    BY <2>2, OthersKept DEF Underway
  <2>4. QED
    BY <2>1, <2>3 DEF SlotsOK
<1>4. QED
  BY <1>1, <1>2, <1>3

LEMMA GatewayStays == GatewayInv /\ [Next]_vars => GatewayInv'
<1> SUFFICES ASSUME GatewayInv, [Next]_vars PROVE GatewayInv'
  OBVIOUS
<1>1. CASE UNCHANGED vars
  BY <1>1 DEF GatewayInv, vars, TypeOK, SlotsOK, Underway, Ok, WriteOK, AbortOK, NoteOK, ReplyOK, Ran, Closed, Verdict
<1>2. ASSUME NEW i \in Invocations, Step(i) PROVE GatewayInv'
  <2>1. TypeOK' /\ SlotsOK' /\ Ok(i)'
    BY <1>2, TypesKept, SlotsKept, PartsKept DEF GatewayInv
  <2>2. ASSUME NEW j \in Invocations, j # i PROVE Ok(j)'
    BY <1>2, <2>2, OthersKept DEF GatewayInv, Ok, WriteOK, AbortOK, NoteOK, ReplyOK, Ran, Closed, Verdict
  <2>3. QED
    BY <2>1, <2>2 DEF GatewayInv
<1>3. QED
  BY <1>1, <1>2 DEF Next, Step

LEMMA GatewayStarts == Init => GatewayInv
<1> SUFFICES ASSUME Init PROVE GatewayInv
  OBVIOUS
<1>1. TypeOK
  BY GatewayAssumption DEF Init, TypeOK
<1>2. Underway = {}
  BY DEF Init, Underway, Working
<1>3. SlotsOK
  BY <1>2, FS_EmptySet DEF Init, SlotsOK
<1>4. ASSUME NEW i \in Invocations PROVE Ok(i)
  BY DEF Init, Ok, WriteOK, AbortOK, NoteOK, ReplyOK, Ran, Closed, Working, Verdicts
<1>5. QED
  BY <1>1, <1>3, <1>4 DEF GatewayInv

\* Work, deadline, audit and slots of every invocation belong together in every reachable
\* state (gateway.ts:86-185).
THEOREM GatewayInvariance == Spec => []GatewayInv
BY GatewayStarts, GatewayStays, PTL DEF Spec
-----------------------------------------------------------------------------
\* The variables keep their types (gateway.ts:86-112).
THEOREM GatewayTypes == Spec => []TypeOK
<1>1. GatewayInv => TypeOK
  BY DEF GatewayInv
<1>2. QED
  BY <1>1, GatewayInvariance, PTL

\* The record and the reply tell the same story, and the true one (gateway.ts:107-112, 171).
THEOREM AuditIsTrue == Spec => []AuditTellsTheTruth
<1>1. GatewayInv => AuditTellsTheTruth
  BY DEF GatewayInv, AuditTellsTheTruth, Ok, WriteOK, NoteOK, ReplyOK, Verdict, Verdicts, Invocations
<1>2. QED
  BY <1>1, GatewayInvariance, PTL

\* What is under way behind the replies never exceeds the limit (gateway.ts:174-182).
THEOREM BackgroundStaysBounded == Spec => []BackgroundBounded
<1>1. ASSUME GatewayInv PROVE BackgroundBounded
  <2>1. {i \in Invocations : stage[i] \in Working \/ audit[i] = "pending"} = Underway
    BY <1>1 DEF GatewayInv, Ok, NoteOK, Underway
  <2>2. QED
    BY <1>1, <2>1, GatewayAssumption DEF GatewayInv, TypeOK, SlotsOK, BackgroundBounded
<1>2. QED
  BY <1>1, GatewayInvariance, PTL
-----------------------------------------------------------------------------
\* Each step of a write is a step of the contract, or none.
LEMMA StepKeepsContract ==
  ASSUME GatewayInv, NEW i \in Invocations, Step(i)
  PROVE  [Contract!Next]_<<[k \in Writes |-> Told(k)], [k \in Writes |-> entered[k]]>>
<1> DEFINE phase == [k \in Writes |-> Told(k)]
           runs == [k \in Writes |-> entered[k]]
<1>1. \A k \in Writes \ {i} : Told(k)' = Told(k) /\ entered'[k] = entered[k]
  BY OthersKept DEF GatewayInv, Told, Invocations
<1>2. CASE i \notin Writes
  BY <1>1, <1>2
<1>3. CASE i \in Writes
  <2>1. ASSUME Told(i)' = Told(i), entered'[i] = entered[i] PROVE UNCHANGED <<phase, runs>>
    BY <1>1, <2>1
  <2>2. ASSUME NEW p, Told(i)' = p, entered'[i] = entered[i]
        PROVE phase' = [phase EXCEPT ![i] = p] /\ UNCHANGED runs
    BY <1>1, <1>3, <2>2
  <2>3. ASSUME Told(i)' = Told(i), entered'[i] = 1
        PROVE runs' = [runs EXCEPT ![i] = 1] /\ UNCHANGED phase
    BY <1>1, <1>3, <2>3
  <2>4. CASE Enter(i)
    <3>1. Told(i) = "new" /\ Told(i)' = "open" /\ entered'[i] = entered[i]
      BY <2>4 DEF Enter, Told, GatewayInv, TypeOK, Ok, ReplyOK
    <3>2. Contract!Accept(i)
      BY <1>3, <2>2, <3>1 DEF Contract!Accept
    <3>3. QED
      BY <1>3, <3>2 DEF Contract!Next
  <2>5. CASE Refuse(i)
    <3>1. /\ stage[i] = "new" /\ reply[i] = "none"
          /\ stage'[i] = "refused" /\ reply'[i] = "not_started" /\ entered'[i] = entered[i]
      BY <2>5 DEF Refuse, GatewayInv, TypeOK, Ok, ReplyOK
    <3>2. Told(i) = "new" /\ Told(i)' = "refused"
      BY <3>1 DEF Told
    <3>3. entered[i] = 0
      BY <3>1 DEF GatewayInv, Ok, WriteOK
    <3>4. Contract!Refuse(i)
      BY <1>3, <2>2, <3>1, <3>2, <3>3 DEF Contract!Refuse
    <3>5. QED
      BY <1>3, <3>4 DEF Contract!Next
  <2>6. CASE Prepare(i) \/ Executed(i) \/ Succeed(i) \/ Throw(i) \/ AuditReturns(i) \/ Abort(i)
    <3>1. reply' = reply /\ entered' = entered /\ (stage'[i] = "new" <=> stage[i] = "new")
      BY <2>6 DEF Prepare, Executed, Succeed, Throw, AuditReturns, Abort, Returns, Working, GatewayInv, TypeOK
    <3>2. Told(i)' = Told(i) /\ entered'[i] = entered[i]
      BY <3>1 DEF Told
    <3>3. QED
      BY <2>1, <3>2
  <2>7. CASE Execute(i)
    <3>1. Told(i) = "open" /\ Told(i)' = Told(i) /\ entered[i] = 0
      BY <2>7 DEF Execute, Returns, Told, GatewayInv, TypeOK, Ok, WriteOK, ReplyOK
    <3>2. entered'[i] = 1
      BY <1>3, <2>7, <3>1 DEF Execute, GatewayInv, TypeOK
    <3>3. Contract!Run(i)
      BY <1>3, <2>3, <3>1, <3>2 DEF Contract!Run
    <3>4. QED
      BY <1>3, <3>3 DEF Contract!Next
  <2>8. CASE Settle(i) \/ Expire(i)
    <3>1. entered' = entered /\ stage[i] # "new" /\ stage'[i] # "new"
      BY <2>8 DEF Settle, Expire, GatewayInv, TypeOK, Ok, AbortOK
    <3>2. CASE reply[i] # "none"
      <4>1. reply' = reply
        BY <2>8, <3>2 DEF Settle, Expire, Reply
      <4>2. Told(i)' = Told(i)
        BY <3>1, <4>1 DEF Told
      <4>3. QED
        BY <2>1, <3>1, <4>2
    <3>3. CASE reply[i] = "none"
      <4>1. Told(i) = "open"
        BY <3>1, <3>3 DEF Told
      <4>2. CASE reply'[i] = "ok"
        <5>1. Told(i)' = "answered"
          BY <3>1, <4>2 DEF Told
        <5>2. Ok(i)'
          BY PartsKept DEF GatewayInv
        <5>3. started'[i] /\ started' = started
          BY <1>3, <2>8, <4>2, <5>2 DEF Ok, ReplyOK, NoteOK, Settle, Expire
        <5>4. entered[i] = 1
          BY <5>3 DEF GatewayInv, Ok, WriteOK
        <5>5. Contract!Answer(i)
          BY <1>3, <2>2, <3>1, <4>1, <5>1, <5>4 DEF Contract!Answer
        <5>6. QED
          BY <1>3, <5>5 DEF Contract!Next
      <4>3. CASE reply'[i] = "not_started"
        <5>1. Told(i)' = "refused"
          BY <3>1, <4>3 DEF Told
        <5>2. Ok(i)' /\ started' = started
          BY <2>8, PartsKept DEF GatewayInv, Settle, Expire
        <5>3. entered[i] = 0
          BY <3>1, <4>3, <5>2 DEF Ok, WriteOK, ReplyOK, Verdict, Verdicts, GatewayInv
        <5>4. Contract!Refuse(i)
          BY <1>3, <2>2, <3>1, <4>1, <5>1, <5>3 DEF Contract!Refuse
        <5>5. QED
          BY <1>3, <5>4 DEF Contract!Next
      <4>4. CASE reply'[i] = "unknown"
        <5>1. Told(i)' = "lost"
          BY <3>1, <4>4 DEF Told
        <5>2. phase' = [phase EXCEPT ![i] = "lost"] /\ UNCHANGED runs
          BY <2>2, <3>1, <5>1
        <5>3. Contract!Lose({i})
          BY <1>3, <4>1, <5>2 DEF Contract!Lose
        <5>4. QED
          BY <1>3, <5>3 DEF Contract!Next
      <4>5. reply'[i] \in {"ok"} \cup Verdicts
        BY <2>8, <3>3 DEF Settle, Expire, Reply, Verdict, Verdicts, GatewayInv, TypeOK, Ok, AbortOK
      <4>6. QED
        BY <4>2, <4>3, <4>4, <4>5 DEF Verdicts
    <3>4. QED
      BY <3>2, <3>3
  <2>9. QED
    BY <2>4, <2>5, <2>6, <2>7, <2>8 DEF Step
<1>4. QED
  BY <1>2, <1>3

\* The gateway keeps, of every write, what an application's process keeps of a call: the
\* caller may rely on 'not_started' (gateway.ts:105, 121, 160, 179).
THEOREM WritesAreKept == Spec => WritesKeepPromise
<1>1. Init => Contract!Init
  BY DEF Init, Contract!Init, Told, Invocations
<1>2. GatewayInv /\ [Next]_vars
        => [Contract!Next]_<<[i \in Writes |-> Told(i)], [i \in Writes |-> entered[i]]>>
  <2>1. CASE UNCHANGED vars
    BY <2>1 DEF vars, Told
  <2>2. CASE Next
    BY <2>2, StepKeepsContract DEF Next, Step
  <2>3. QED
    BY <2>1, <2>2
<1>3. QED
  BY <1>1, <1>2, GatewayInvariance, PTL DEF Spec, WritesKeepPromise, Contract!Spec
-----------------------------------------------------------------------------
(*****************************************************************************)
(* Conversations.  Places are counted with those that are being admitted,    *)
(* and whoever is being admitted has no run, so one that starts is his       *)
(* first.                                                                    *)
(*****************************************************************************)
\* The places of runs, those that are being started included.
PlacesSuffice == IsFiniteSet(Active) /\ Cardinality(Active) + Cardinality(created) <= Capacity

RunsApart == \A t, u \in Active : t # u => Person(t) # Person(u)

\* A turn that has been created belongs to who sends it, who has no run, and was not invoked.
CreatedIsNext ==
  /\ \A p \in People : admitting[p] # NoTurn => place[admitting[p]].person = p
  /\ \A p \in created :
       /\ admitting[p] # NoTurn /\ invoked[admitting[p]] = 0 /\ status[admitting[p]] # "none"
       /\ \A u \in Active : Person(u) # p

InvokedOnce == \A t \in Turns :
  /\ invoked[t] <= 1
  /\ status[t] = "none" => invoked[t] = 0 /\ work[t] = "none"
  /\ work[t] = "routing" => invoked[t] = 0

ChatInv == ChatTypeOK /\ PlacesSuffice /\ RunsApart /\ CreatedIsNext /\ InvokedOnce

\* No conversation has begun.
LEMMA ChatStarts == ChatInit => ChatInv
<1> SUFFICES ASSUME ChatInit PROVE ChatInv
  OBVIOUS
<1>1. ChatTypeOK
  BY ChatAssumption DEF ChatInit, ChatTypeOK
<1>2. Active = {}
  BY DEF ChatInit, Active
<1>3. PlacesSuffice
  BY <1>2, FS_EmptySet, ChatAssumption DEF ChatInit, PlacesSuffice
<1> QED
  BY <1>1, <1>2, <1>3 DEF ChatInit, ChatInv, RunsApart, CreatedIsNext, InvokedOnce

\* A step that starts no run and calls nothing: runs and admissions may only go away.
LEMMA NothingStarts ==
  ASSUME ChatInv, ChatTypeOK', Active' \subseteq Active, created' \subseteq created, UNCHANGED <<place, invoked>>,
         \A p \in People : admitting'[p] # NoTurn => admitting'[p] = admitting[p],
         \A p \in created' : admitting'[p] = admitting[p],
         \A t \in Turns : /\ status'[t] = "none" => status[t] = "none"
                          /\ work'[t] = "routing" => work[t] = "routing"
  PROVE  ChatInv'
<1>1. created \subseteq People /\ created' \subseteq People /\ IsFiniteSet(People) /\ IsFiniteSet(Active)
      /\ Capacity \in Nat /\ place \in Placements
  BY ChatAssumption DEF ChatInv, ChatTypeOK, PlacesSuffice
<1>2. IsFiniteSet(created) /\ IsFiniteSet(created') /\ Cardinality(created') <= Cardinality(created)
      /\ Cardinality(created) \in Nat /\ Cardinality(created') \in Nat
  BY <1>1, FS_Subset, FS_CardinalityType
<1>3. IsFiniteSet(Active') /\ Cardinality(Active') <= Cardinality(Active)
      /\ Cardinality(Active) \in Nat /\ Cardinality(Active') \in Nat
  BY <1>1, FS_Subset, FS_CardinalityType
<1>4. PlacesSuffice'
  BY <1>1, <1>2, <1>3 DEF ChatInv, PlacesSuffice
<1>5. \A t \in Turns : Person(t)' = Person(t)
  BY DEF Person
<1>6. RunsApart'
  BY <1>5 DEF ChatInv, RunsApart, Active
<1>7. CreatedIsNext'
  <2>1. \A p \in People : admitting'[p] # NoTurn => place'[admitting'[p]].person = p
    BY DEF ChatInv, CreatedIsNext
  <2>2. ASSUME NEW p \in created'
        PROVE  /\ admitting'[p] # NoTurn /\ invoked'[admitting'[p]] = 0 /\ status'[admitting'[p]] # "none"
               /\ \A u \in Active' : Person(u)' # p
    <3>1. p \in created /\ p \in People /\ admitting'[p] = admitting[p] /\ admitting[p] \in Turns
      BY <1>1, <2>2 DEF ChatInv, ChatTypeOK, CreatedIsNext
    <3>2. \A u \in Active' : u \in Active /\ Person(u)' = Person(u)
      BY <1>5 DEF Active
    <3> QED
      BY <3>1, <3>2 DEF ChatInv, CreatedIsNext
  <2> QED
    BY <2>1, <2>2 DEF CreatedIsNext
<1>8. InvokedOnce'
  BY DEF ChatInv, InvokedOnce, ChatTypeOK, Active
<1> QED
  BY <1>4, <1>6, <1>7, <1>8 DEF ChatInv

\* The transaction that creates a turn takes one of the places it has counted.
LEMMA AdmissionTakesPlace ==
  ASSUME ChatInv, NEW p \in People, Transact(p)
  PROVE  ChatInv'
<1> DEFINE t == admitting[p]
<1>0. t \in Turns /\ p \notin created /\ Person(t) = p /\ place \in Placements /\ created \subseteq People
      /\ UNCHANGED <<place, work, signalled, cancelling, invoked, served, restarts>>
  BY DEF Transact, ChatInv, ChatTypeOK, CreatedIsNext, Person
<1>1. ChatTypeOK'
  <2>1. status' \in [Turns -> {"none", "running"} \cup Endings]
    BY <1>0 DEF Transact, ChatInv, ChatTypeOK
  <2>2. admitting' \in [People -> Turns \cup {NoTurn}] /\ created' \subseteq People /\ abandoned' \subseteq Turns
    BY <1>0 DEF Transact, ChatInv, ChatTypeOK
  <2>3. faults' \in 0..MaxFaults
    BY ChatAssumption DEF Transact, ChatInv, ChatTypeOK
  <2> QED
    BY <1>0, <2>1, <2>2, <2>3 DEF ChatInv, ChatTypeOK
<1>2. Active' = Active /\ \A u \in Turns : Person(u)' = Person(u)
  BY <1>0 DEF Active, Person
<1>3. CASE created' = created
  <2>1. admitting' = [admitting EXCEPT ![p] = NoTurn] /\ \A u \in Turns : status'[u] = "none" => status[u] = "none"
    BY <1>0, <1>3 DEF Transact, ChatInv, ChatTypeOK
  <2> QED
    BY <1>0, <1>1, <1>2, <1>3, <2>1, NothingStarts DEF ChatInv, ChatTypeOK
<1>4. CASE created' # created
  <2>1. /\ Fresh(t) /\ ~Busy(t) /\ status' = [status EXCEPT ![t] = "running"]
        /\ created' = created \cup {p} /\ UNCHANGED admitting
    BY <1>4 DEF Transact
  <2>2. PlacesSuffice'
    <3> DEFINE sending == {q \in People : admitting[q] # NoTurn}
    <3>1. IsFiniteSet(sending) /\ Cardinality(sending) \in Nat
      BY ChatAssumption, FS_Subset, FS_CardinalityType
    <3>2. created' \subseteq sending
      BY <1>0, <2>1, ChatAssumption DEF ChatInv, CreatedIsNext
    <3>3. IsFiniteSet(created') /\ Cardinality(created') <= Cardinality(sending) /\ Cardinality(created') \in Nat
      BY <3>1, <3>2, FS_Subset, FS_CardinalityType
    <3>4. Cardinality(Active) + Cardinality(sending) <= Capacity
      BY <2>1, <3>1, FS_CardinalityType, ChatAssumption DEF Busy, ChatInv, PlacesSuffice
    <3>5. Cardinality(Active) \in Nat /\ IsFiniteSet(Active)
      BY FS_CardinalityType DEF ChatInv, PlacesSuffice
    <3> QED
      BY <1>2, <3>1, <3>3, <3>4, <3>5, ChatAssumption DEF PlacesSuffice
  <2>3. RunsApart'
    BY <1>2 DEF ChatInv, RunsApart, Active
  <2>4. CreatedIsNext'
    <3>1. status[t] = "none" /\ invoked[t] = 0 /\ status'[t] # "none"
      BY <1>0, <2>1 DEF Fresh, ChatInv, ChatTypeOK, InvokedOnce
    <3>2. \A u \in Active : Person(u) # p
      BY <1>0, <2>1 DEF Busy
    <3>3. \A q \in created : status'[admitting[q]] # "none"
      BY <1>0, <2>1 DEF ChatInv, ChatTypeOK, CreatedIsNext
    <3>4. \A u \in Active' : u \in Active /\ Person(u)' = Person(u)
      BY <1>2 DEF Active
    <3>5. \A q \in People : admitting'[q] # NoTurn => place'[admitting'[q]].person = q
      BY <1>0, <2>1 DEF ChatInv, CreatedIsNext, Person
    <3>6. ASSUME NEW q \in created'
          PROVE  /\ admitting'[q] # NoTurn /\ invoked'[admitting'[q]] = 0 /\ status'[admitting'[q]] # "none"
                 /\ \A u \in Active' : Person(u)' # q
      <4>1. CASE q = p
        BY <1>0, <2>1, <3>1, <3>2, <3>4, <4>1, ChatAssumption
      <4>2. CASE q \in created
        BY <1>0, <2>1, <3>3, <3>4, <4>2 DEF ChatInv, CreatedIsNext
      <4> QED
        BY <2>1, <3>6, <4>1, <4>2
    <3> QED
      BY <3>5, <3>6 DEF CreatedIsNext
  <2>5. InvokedOnce'
    BY <1>0, <2>1 DEF ChatInv, InvokedOnce, ChatTypeOK
  <2> QED
    BY <1>1, <2>2, <2>3, <2>4, <2>5 DEF ChatInv
<1> QED
  BY <1>3, <1>4

\* A run takes over the place of its admission.
LEMMA StartKeepsPlace ==
  ASSUME ChatInv, NEW p \in People, Start(p)
  PROVE  ChatInv'
<1> DEFINE t == admitting[p]
<1>0. /\ p \in created /\ t \in Turns /\ Person(t) = p /\ invoked[t] = 0 /\ status[t] # "none"
      /\ created' = created \ {p} /\ admitting' = [admitting EXCEPT ![p] = NoTurn]
      /\ work' = [work EXCEPT ![t] = "routing"] /\ signalled' = [signalled EXCEPT ![t] = "no"]
      /\ UNCHANGED <<place, status, cancelling, invoked, served, abandoned, faults, restarts>>
  BY DEF Start, ChatInv, ChatTypeOK, CreatedIsNext, Person
<1>1. ChatTypeOK'
  BY <1>0 DEF ChatInv, ChatTypeOK
<1>2. Active' = Active \cup {t} /\ (\A u \in Turns : Person(u)' = Person(u)) /\ \A u \in Active : Person(u) # p
  BY <1>0 DEF Active, Person, ChatInv, ChatTypeOK, CreatedIsNext
<1>3. PlacesSuffice'
  <2>1. IsFiniteSet(created) /\ IsFiniteSet(Active)
    BY ChatAssumption, FS_Subset DEF ChatInv, ChatTypeOK, PlacesSuffice
  <2>2. Cardinality(created') = Cardinality(created) - 1 /\ IsFiniteSet(created')
    BY <1>0, <2>1, FS_RemoveElement
  <2>3. t \notin Active
    BY <1>0, <1>2
  <2>4. Cardinality(Active') = Cardinality(Active) + 1 /\ IsFiniteSet(Active')
    BY <1>2, <2>1, <2>3, FS_AddElement
  <2>5. Cardinality(created) \in Nat /\ Cardinality(Active) \in Nat
    BY <2>1, FS_CardinalityType
  <2> QED
    BY <2>2, <2>4, <2>5, ChatAssumption DEF ChatInv, PlacesSuffice
<1>4. RunsApart'
  <2>1. \A u \in Active' : Person(u)' = Person(u)
    BY <1>0, <1>2 DEF Active
  <2> QED
    BY <1>0, <1>2, <2>1 DEF ChatInv, RunsApart
<1>5. CreatedIsNext'
  <2>1. \A q \in People : admitting'[q] # NoTurn => place'[admitting'[q]].person = q
    BY <1>0 DEF ChatInv, ChatTypeOK, CreatedIsNext, Person
  <2>2. ASSUME NEW q \in created'
        PROVE  /\ admitting'[q] # NoTurn /\ invoked'[admitting'[q]] = 0 /\ status'[admitting'[q]] # "none"
               /\ \A u \in Active' : Person(u)' # q
    <3>1. q \in created /\ q # p /\ admitting'[q] = admitting[q]
      BY <1>0, <2>2 DEF ChatInv, ChatTypeOK
    <3>2. \A u \in Active' : Person(u)' = Person(u)
      BY <1>0, <1>2 DEF Active
    <3> QED
      BY <1>0, <1>2, <3>1, <3>2 DEF ChatInv, CreatedIsNext
  <2> QED
    BY <2>1, <2>2 DEF CreatedIsNext
<1>6. InvokedOnce'
  BY <1>0 DEF ChatInv, InvokedOnce, ChatTypeOK
<1> QED
  BY <1>1, <1>3, <1>4, <1>5, <1>6 DEF ChatInv

\* Only a run that routes calls, and it has not called before.
LEMMA RouteCallsOnce ==
  ASSUME ChatInv, NEW t \in Turns, Route(t)
  PROVE  ChatInv'
<1>0. /\ work[t] = "routing" /\ invoked[t] = 0 /\ status[t] # "none"
      /\ UNCHANGED <<place, status, admitting, created, signalled, cancelling, served, abandoned, faults, restarts>>
  BY DEF Route, ChatInv, InvokedOnce
<1>1. ChatTypeOK'
  BY DEF Route, ChatInv, ChatTypeOK
<1>2. Active' = Active /\ \A u \in Turns : Person(u)' = Person(u)
  BY <1>0 DEF Route, Active, Person, ChatInv, ChatTypeOK
<1>3. CASE invoked' = [invoked EXCEPT ![t] = @ + 1] /\ work' = [work EXCEPT ![t] = "calling"]
  <2>1. \A p \in created : admitting[p] # t /\ admitting[p] \in Turns
    BY <1>0 DEF ChatInv, ChatTypeOK, CreatedIsNext, Active, Person
  <2>2. PlacesSuffice' /\ RunsApart'
    BY <1>0, <1>2 DEF ChatInv, PlacesSuffice, RunsApart, Active
  <2>3. CreatedIsNext'
    <3>1. \A q \in People : admitting'[q] # NoTurn => place'[admitting'[q]].person = q
      BY <1>0 DEF ChatInv, CreatedIsNext, Person
    <3>2. \A q \in created' : invoked'[admitting'[q]] = invoked[admitting[q]]
      BY <1>0, <1>3, <2>1 DEF ChatInv, ChatTypeOK
    <3>3. \A u \in Active' : u \in Active /\ Person(u)' = Person(u)
      BY <1>2 DEF Active
    <3> QED
      BY <1>0, <3>1, <3>2, <3>3 DEF ChatInv, CreatedIsNext
  <2>4. InvokedOnce'
    BY <1>0, <1>3 DEF ChatInv, InvokedOnce, ChatTypeOK
  <2> QED
    BY <1>1, <2>2, <2>3, <2>4 DEF ChatInv
<1>4. CASE UNCHANGED invoked
  <2>1. work' \in {[work EXCEPT ![t] = "completed"], [work EXCEPT ![t] = "failed"]}
    BY <1>4, <1>0 DEF Route, ChatInv, ChatTypeOK
  <2>2. \A u \in Turns : work'[u] = "routing" => work[u] = "routing"
    BY <2>1 DEF ChatInv, ChatTypeOK
  <2> QED
    BY <1>0, <1>1, <1>2, <1>4, <2>2, NothingStarts
<1> QED
  BY <1>3, <1>4 DEF Route

\* Places, people and invocations are accounted for by every step of the service.
LEMMA ChatStays ==
  ASSUME ChatInv, [ChatNext]_chatVars
  PROVE  ChatInv'
<1>0. ChatTypeOK
  BY DEF ChatInv
<1>1. ASSUME NEW p \in People, Transact(p) PROVE ChatInv'
  BY <1>1, AdmissionTakesPlace
<1>2. ASSUME NEW p \in People, Start(p) PROVE ChatInv'
  BY <1>2, StartKeepsPlace
<1>3. ASSUME NEW t \in Turns, Send(t) PROVE ChatInv'
  <2>1. Person(t) \in People
    BY <1>0, <1>3, ChatAssumption DEF ChatTypeOK, Person
  <2>2. /\ admitting[Person(t)] = NoTurn /\ admitting' = [admitting EXCEPT ![Person(t)] = t]
        /\ UNCHANGED <<place, status, created, work, signalled, cancelling, invoked, served, abandoned, faults,
                       restarts>>
    BY <1>3 DEF Send
  <2>3. ChatTypeOK'
    BY <1>0, <1>3, <2>1, <2>2 DEF ChatTypeOK
  <2>4. PlacesSuffice' /\ RunsApart' /\ InvokedOnce'
    BY <2>2 DEF ChatInv, PlacesSuffice, RunsApart, InvokedOnce, Active, Person
  <2>5. Active' = Active /\ \A q \in created : admitting'[q] = admitting[q]
    BY <1>0, <2>1, <2>2 DEF Active, ChatInv, ChatTypeOK, CreatedIsNext
  <2>6. CreatedIsNext'
    <3>1. \A q \in People : admitting'[q] # NoTurn => place'[admitting'[q]].person = q
      BY <1>0, <2>1, <2>2 DEF ChatInv, ChatTypeOK, CreatedIsNext, Person
    <3>2. \A u \in Active' : u \in Active /\ Person(u)' = Person(u)
      BY <2>2, <2>5 DEF Person
    <3> QED
      BY <2>2, <2>5, <3>1, <3>2 DEF ChatInv, CreatedIsNext
  <2> QED
    BY <2>3, <2>4, <2>6 DEF ChatInv
<1>4. ASSUME NEW t \in Turns, Route(t) PROVE ChatInv'
  BY <1>4, RouteCallsOnce
<1>5. ASSUME NEW t \in Turns, Answered(t) \/ Stopped(t) PROVE ChatInv'
  <2>1. /\ work[t] \in {"routing", "calling"}
        /\ work' \in {[work EXCEPT ![t] = end] : end \in {"completed", "failed", "cancelled"}}
        /\ UNCHANGED <<place, status, admitting, created, signalled, cancelling, invoked, served, abandoned, faults,
                       restarts>>
    BY <1>5 DEF Answered, Stopped
  <2>2. ChatTypeOK' /\ Active' = Active /\ \A u \in Turns : work'[u] = "routing" => work[u] = "routing"
    BY <1>0, <2>1 DEF ChatTypeOK, Active
  <2> QED
    BY <2>1, <2>2, NothingStarts
<1>6. ASSUME NEW t \in Turns, Timeout(t) PROVE ChatInv'
  <2>1. ChatTypeOK' /\ Active' = Active
    BY <1>0, <1>6 DEF Timeout, ChatTypeOK, Active
  <2> QED
    BY <1>6, <2>1, NothingStarts DEF Timeout
<1>7. ASSUME NEW t \in Turns, Write(t) PROVE ChatInv'
  <2>1. /\ work[t] \in {"completed", "failed", "cancelled"}
        /\ work' \in {[work EXCEPT ![t] = end] : end \in {"none", "failed", "cancelled"}}
        /\ status' \in {status, [status EXCEPT ![t] = IF @ = "running" THEN work[t] ELSE @]}
        /\ UNCHANGED <<place, admitting, created, cancelling, invoked, served, restarts>>
    BY <1>7 DEF Write
  <2>2. /\ signalled' \in {signalled, [signalled EXCEPT ![t] = "no"]} /\ abandoned' \in {abandoned, abandoned \cup {t}}
        /\ faults' \in 0..MaxFaults
    BY <1>0, <1>7, ChatAssumption DEF Write, ChatTypeOK
  <2>3. status' \in [Turns -> {"none", "running"} \cup Endings]
        /\ \A u \in Turns : status'[u] = "none" => status[u] = "none"
    BY <1>0, <2>1 DEF ChatTypeOK, Endings
  <2>4. /\ work' \in [Turns -> {"none", "routing", "calling", "completed", "failed", "cancelled"}]
        /\ Active' \subseteq Active /\ \A u \in Turns : work'[u] = "routing" => work[u] = "routing"
    BY <1>0, <2>1 DEF ChatTypeOK, Active
  <2>5. ChatTypeOK'
    BY <1>0, <1>7, <2>1, <2>2, <2>3, <2>4 DEF ChatTypeOK
  <2> QED
    BY <2>1, <2>3, <2>4, <2>5, NothingStarts
<1>8. ASSUME NEW t \in Turns, Cancel(t) PROVE ChatInv'
  <2>1. ChatTypeOK' /\ Active' = Active
    BY <1>0, <1>8 DEF Cancel, ChatTypeOK, Active
  <2> QED
    BY <1>8, <2>1, NothingStarts DEF Cancel
<1>9. ASSUME NEW t \in Turns, Cancelled(t) PROVE ChatInv'
  <2>1. ChatTypeOK' /\ Active' = Active /\ \A u \in Turns : status'[u] = "none" => status[u] = "none"
    BY <1>0, <1>9 DEF Cancelled, ChatTypeOK, Active, Endings
  <2> QED
    BY <1>9, <2>1, NothingStarts DEF Cancelled
<1>10. CASE Close
  <2>1. ChatTypeOK' /\ Active' = Active
    BY <1>0, <1>10 DEF Close, ChatTypeOK, Active
  <2> QED
    BY <1>10, <2>1, NothingStarts DEF Close
<1>11. CASE Crash
  <2>1. ChatTypeOK' /\ Active' = {}
    <3>1. Active' = {} /\ restarts' \in 0..MaxRestarts
      BY <1>0, <1>11, ChatAssumption DEF Crash, ChatTypeOK, Active
    <3> QED
      BY <1>0, <1>11, <3>1 DEF Crash, ChatTypeOK
  <2>2. \A p \in People : admitting'[p] = NoTurn
    BY <1>11 DEF Crash
  <2>3. \A t \in Turns : work'[t] = "none"
    BY <1>11 DEF Crash
  <2> QED
    BY <1>11, <2>1, <2>2, <2>3, NothingStarts DEF Crash
<1>12. CASE Boot
  <2>1. ChatTypeOK' /\ Active' = Active /\ \A u \in Turns : status'[u] = "none" => status[u] = "none"
    BY <1>0, <1>12 DEF Boot, ChatTypeOK, Active, Endings
  <2> QED
    BY <1>12, <2>1, NothingStarts DEF Boot
<1>13. CASE UNCHANGED chatVars
  <2>1. ChatTypeOK' /\ Active' = Active
    BY <1>0, <1>13 DEF chatVars, ChatTypeOK, Active
  <2> QED
    BY <1>13, <2>1, NothingStarts DEF chatVars
<1> QED
  BY <1>1, <1>2, <1>3, <1>4, <1>5, <1>6, <1>7, <1>8, <1>9, <1>10, <1>11, <1>12, <1>13 DEF ChatNext

\* For any people and turns: one run per employee and no more than the capacity, also while
\* messages are being admitted, and no message invoked twice (chat/index.ts:30, 49, 58-61).
THEOREM OneRunIsEnough == ChatSpec => []OneRunEach
<1>1. ASSUME ChatInv PROVE OneRunEach
  <2>1. IsFiniteSet(Active) /\ created \subseteq People /\ IsFiniteSet(People)
    BY <1>1, ChatAssumption DEF ChatInv, ChatTypeOK, PlacesSuffice
  <2>2. Cardinality(Active) \in Nat /\ Cardinality(created) \in Nat
    BY <2>1, FS_Subset, FS_CardinalityType
  <2> QED
    BY <1>1, <2>2, ChatAssumption DEF ChatInv, PlacesSuffice, RunsApart, InvokedOnce, OneRunEach
<1>2. ChatInv /\ [ChatNext]_chatVars => ChatInv'
  BY ChatStays
<1> QED
  BY <1>1, <1>2, ChatStarts, PTL DEF ChatSpec

\* However late an answer, a cancellation or a timeout comes, a turn that ended stays as it
\* ended (chat/index.ts:80, 119, 124).
THEOREM EndingsStay == ChatSpec => EndingIsFinal
<1> DEFINE Stays == \A t \in Turns : status[t] \in Endings => status'[t] = status[t]
<1>1. ASSUME ChatInv, [ChatNext]_chatVars PROVE [Stays]_chatVars
  <2>1. status \in [Turns -> {"none", "running"} \cup Endings]
    BY <1>1 DEF ChatInv, ChatTypeOK
  <2>2. ASSUME NEW p \in People, Transact(p) PROVE Stays
    BY <2>1, <2>2 DEF Transact, Fresh, Endings
  <2>3. ASSUME NEW t \in Turns, Write(t) \/ Cancelled(t) PROVE Stays
    BY <2>1, <2>3 DEF Write, Cancelled, Endings
  <2>4. CASE Boot
    BY <2>1, <2>4 DEF Boot, Endings
  <2>5. CASE \/ Close \/ Crash \/ UNCHANGED chatVars \/ \E p \in People : Start(p)
             \/ \E t \in Turns : \/ Send(t) \/ Route(t) \/ Answered(t) \/ Timeout(t) \/ Stopped(t) \/ Cancel(t)
    BY <2>5 DEF Close, Crash, chatVars, Start, Send, Route, Answered, Timeout, Stopped, Cancel
  <2> QED
    BY <1>1, <2>2, <2>3, <2>4, <2>5 DEF ChatNext
<1>2. ChatInv /\ [ChatNext]_chatVars => ChatInv'
  BY ChatStays
<1> HIDE DEF Stays
<1>3. ChatInv /\ [ChatNext]_chatVars => [Stays]_chatVars
  BY <1>1
<1>4. ChatSpec => [][Stays]_chatVars
  BY <1>2, <1>3, ChatStarts, PTL DEF ChatSpec
<1> QED
  BY <1>4 DEF Stays, EndingIsFinal
=============================================================================
