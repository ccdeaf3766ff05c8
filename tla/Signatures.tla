----------------------------- MODULE Signatures -----------------------------
(***************************************************************************)
(* Signature requests (platform/signatures/index.ts): the list of signers  *)
(* that an application keeps for one of its records, and their evidence.   *)
(*                                                                         *)
(* Every command is one transaction.  It first looks up, without a lock,   *)
(* which request it is about; then it locks the row of the request, reads  *)
(* everything again and writes.  All writers hold that lock until they     *)
(* commit, so from the lock on a command is one step, and what it saw      *)
(* before is kept in `call` to be out of date.  A command that is refused  *)
(* or rolled back leaves nothing in the database (Abandon), but the image  *)
(* it has stored stays.                                                    *)
(*                                                                         *)
(* One request, found by its key; authorization only refuses.  Positions,  *)
(* public tokens, signers known by name only and the history are left out. *)
(***************************************************************************)
EXTENDS Integers, FiniteSets

CONSTANTS
  People,    \* possible signers
  Clients,   \* concurrent transactions
  Images,    \* signature images (bound on the signatures given)
  NoImage

ASSUME SignaturesAssumption == NoImage \notin Images

VARIABLES
  request,   \* status of the request
  session,   \* status of its session
  expiry,    \* the session's expiresAt: never, open or passed
  signer,    \* status of each person's row among the signers
  evidence,  \* the image in each person's row of evidence
  stored,    \* images in the object storage
  call       \* what each transaction has read before its lock

sigVars == <<request, session, expiry, signer, evidence, stored, call>>

Statuses == {"none", "dispatched", "completed", "cancelled"}
Idle == [op |-> "idle"]
Calls ==
  {Idle}
  \cup [op : {"associate"}, present : SUBSET People, found : BOOLEAN]
  \cup [op : {"sign", "submit"}, who : People, was : {"pending", "signed", "revoked"}, image : Images \cup {NoImage}]
  \cup [op : {"revoke"}, who : People, was : {"pending", "signed", "revoked"}]

SigTypeOK ==
  /\ request \in Statuses /\ session \in Statuses /\ expiry \in {"never", "open", "passed"}
  /\ signer \in [People -> {"absent", "pending", "signed", "revoked"}]
  /\ evidence \in [People -> Images \cup {NoImage}]
  /\ stored \subseteq Images
  /\ call \in [Clients -> Calls]

SigInit ==
  /\ request = "none" /\ session = "none" /\ expiry = "never"
  /\ signer = [p \in People |-> "absent"] /\ evidence = [p \in People |-> NoImage]
  /\ stored = {} /\ call = [c \in Clients |-> Idle]
-----------------------------------------------------------------------------
\* canCompleteSignature()
Ready(rows) == LET active == {p \in People : rows[p] \in {"pending", "signed"}}
               IN  active # {} /\ \A p \in active : rows[p] = "signed"

\* requireOpenSession()
Open == request = "dispatched" /\ session = "dispatched" /\ expiry # "passed"

\* completeWhenReady(), after the signers have become `rows`.
CompleteWhenReady(rows) ==
  IF Ready(rows) THEN request' = "completed" /\ session' = "completed"
  ELSE UNCHANGED <<request, session>>

Begin(c, what) == call[c] = Idle /\ call' = [call EXCEPT ![c] = what]
End(c) == call' = [call EXCEPT ![c] = Idle]

\* createSignatureRequest(): a request that exists is returned or is a conflict.
Create(present, limited) ==
  /\ request = "none" /\ present # {}
  /\ request' = "dispatched" /\ session' = "dispatched"
  /\ expiry' = IF limited THEN "open" ELSE "never"
  /\ signer' = [p \in People |-> IF p \in present THEN "pending" ELSE "absent"]
  /\ UNCHANGED evidence

\* The unlocked reads: findRequestByKey() ...
LocateRequest(c, present) ==
  /\ present # {} /\ Begin(c, [op |-> "associate", present |-> present, found |-> request # "none"])
  /\ UNCHANGED <<request, session, expiry, signer, evidence, stored>>

\* ... the list of signers in the gateway, and the session or the signer in the service.
LocateSigner(c, p) ==
  /\ signer[p] # "absent"
  /\ \/ \E op \in {"sign", "submit"} :
          /\ op = "sign" => signer[p] # "revoked"
          /\ Begin(c, [op |-> op, who |-> p, was |-> signer[p], image |-> NoImage])
     \/ Begin(c, [op |-> "revoke", who |-> p, was |-> signer[p]])
  /\ UNCHANGED <<request, session, expiry, signer, evidence, stored>>

\* The image is written before anything is locked.
Store(c, image) ==
  /\ call[c].op \in {"sign", "submit"} /\ call[c].image = NoImage /\ image \notin stored
  /\ stored' = stored \cup {image} /\ call' = [call EXCEPT ![c].image = image]
  /\ UNCHANGED <<request, session, expiry, signer, evidence>>

\* Mutant: whoever is put back on the list has to sign again.
ReseatedAnew(p, present) ==
  CASE p \notin present /\ signer[p] # "absent" -> "revoked"
    [] p \in present /\ signer[p] \in {"absent", "revoked"} -> "pending"
    [] OTHER -> signer[p]

\* The row of signer p after the list has become `present`.
Reseated(p, present) ==
  CASE p \notin present /\ signer[p] # "absent" -> "revoked"
    [] p \in present /\ signer[p] = "absent" -> "pending"
    [] p \in present /\ signer[p] = "revoked" ->
         IF evidence[p] # NoImage THEN "signed" ELSE "pending"
    [] OTHER -> signer[p]

\* associateRecord(): created if the lookup found nothing, otherwise the list is replaced.
Associate(c) ==
  /\ call[c].op = "associate" /\ End(c)
  /\ \/ ~call[c].found /\ Create(call[c].present, FALSE)
     \/ ~call[c].found /\ request # "none" /\ UNCHANGED <<request, session, expiry, signer, evidence>>
     \/ /\ call[c].found /\ request # "cancelled"
        /\ signer' = [p \in People |-> Reseated(p, call[c].present)]
        /\ request' = IF Ready(signer') THEN "completed" ELSE "dispatched"
        /\ session' = request' /\ expiry' = "never"
        /\ UNCHANGED evidence
  /\ UNCHANGED stored

CreateRequest(present, limited) == Create(present, limited) /\ UNCHANGED <<stored, call>>

\* Mutant: the signer is the one that was read before the lock.
SubmitRead(c) ==
  LET p == call[c].who IN
  /\ Open /\ call[c].was = "pending"
  /\ evidence' = [evidence EXCEPT ![p] = call[c].image]
  /\ signer' = [signer EXCEPT ![p] = "signed"]
  /\ CompleteWhenReady(signer')

\* submitSignatureCommand() under the lock.
Submit(c) ==
  LET p == call[c].who IN
  /\ Open /\ signer[p] = "pending" /\ evidence[p] = NoImage
  /\ evidence' = [evidence EXCEPT ![p] = call[c].image]
  /\ signer' = [signer EXCEPT ![p] = "signed"]
  /\ CompleteWhenReady(signer')

\* submitOwnSignature() of somebody who has signed: the evidence is replaced, also in a
\* completed request.
Replace(c) ==
  LET p == call[c].who IN
  /\ signer[p] = "signed" /\ evidence[p] # NoImage
  /\ request # "cancelled" /\ session # "cancelled" /\ expiry # "passed"
  /\ evidence' = [evidence EXCEPT ![p] = call[c].image]
  /\ UNCHANGED <<request, session, signer>>

Sign(c) ==
  /\ call[c].op \in {"sign", "submit"} /\ call[c].image # NoImage /\ End(c)
  /\ Submit(c) \/ (call[c].op = "sign" /\ Replace(c))
  /\ UNCHANGED <<expiry, stored>>

Revoke(c) ==
  /\ call[c].op = "revoke" /\ End(c)
  /\ Open /\ signer' = [signer EXCEPT ![call[c].who] = "revoked"]
  /\ IF signer' = signer THEN UNCHANGED <<request, session>> ELSE CompleteWhenReady(signer')
  /\ UNCHANGED <<expiry, evidence, stored>>

Finalize ==
  /\ request = "completed" \/ (Open /\ Ready(signer))
  /\ request' = "completed" /\ session' = IF request = "completed" THEN session ELSE "completed"
  /\ UNCHANGED <<expiry, signer, evidence, stored, call>>

Cancel ==
  /\ request \notin {"none", "completed"}
  /\ request' = "cancelled" /\ session' = IF request = "cancelled" THEN session ELSE "cancelled"
  /\ UNCHANGED <<expiry, signer, evidence, stored, call>>

\* The command is refused, aborted or loses its connection: the transaction is rolled back.
Abandon(c) ==
  /\ call[c] # Idle /\ End(c)
  /\ UNCHANGED <<request, session, expiry, signer, evidence, stored>>

Expire ==
  /\ expiry = "open" /\ expiry' = "passed"
  /\ UNCHANGED <<request, session, signer, evidence, stored, call>>

SigNext ==
  \/ \E present \in SUBSET People, limited \in BOOLEAN : CreateRequest(present, limited)
  \/ \E c \in Clients :
       \/ \E present \in SUBSET People : LocateRequest(c, present)
       \/ \E p \in People : LocateSigner(c, p)
       \/ \E image \in Images : Store(c, image)
       \/ Associate(c) \/ Sign(c) \/ Revoke(c) \/ Abandon(c)
  \/ Finalize \/ Cancel \/ Expire

SigSpec == SigInit /\ [][SigNext]_sigVars
-----------------------------------------------------------------------------
(***************************************************************************)
(* What signature requests promise.                                        *)
(***************************************************************************)
State == IF request = session THEN request ELSE "torn"
Attending == {p \in People : signer[p] \in {"pending", "signed"}}
Evident == {p \in People : evidence[p] # NoImage}

Record == INSTANCE Attendance WITH state <- State, attending <- Attending, signed <- Evident

\* However commands interleave, a request is completed exactly when somebody is to sign
\* and all who are have signed, and nobody who comes back has to sign again
\* (signatures/index.ts:111-130, 438-445, 581-584).
AttendanceKept == Record!Spec

\* Whoever counts as signed has evidence whose image is stored, nobody who has not signed
\* has any, and no two people share an image (signatures/index.ts:120-123, 174-186;
\* gateway/signatures.ts:52-57).
SignedHasEvidence == \A p \in People :
  /\ signer[p] = "signed" => evidence[p] # NoImage
  /\ signer[p] \in {"absent", "pending"} => evidence[p] = NoImage
  /\ evidence[p] # NoImage =>
       evidence[p] \in stored /\ \A q \in People \ {p} : evidence[q] # evidence[p]

\* A cancelled request never changes again, in particular not by a signature that was
\* under way; "cancellation competes atomically with signing"
\* (test/platform-signatures.test.ts:475).
CancelledIsFinal ==
  [][request = "cancelled" => UNCHANGED <<request, session, signer, evidence>>]_sigVars
=============================================================================
