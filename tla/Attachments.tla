----------------------------- MODULE Attachments -----------------------------
(***************************************************************************)
(* Attachments of the records of one application (platform/attachments and *)
(* the upload of app-platform/employee): bytes are stored first and then   *)
(* registered, and registered attachments are kept or removed by rules of  *)
(* retention.                                                              *)
(*                                                                         *)
(* Storage, the application that authorizes, and the database fail one by  *)
(* one.  An upload writes an object of its own, so the object and the row  *)
(* that it registers are named by the upload.  The time stamp of a row     *)
(* also takes part in the comparison before a write; two changes may share *)
(* a millisecond, so it is left out.                                       *)
(***************************************************************************)
EXTENDS Integers, FiniteSets

CONSTANTS
  Uploads, Records, Intents, Editors,
  Limit,        \* attachments of a record (500)
  MaxTime,      \* bound on the clock
  MaxChanges,   \* bound on changes of attachments
  Forever       \* no end of retention

ASSUME AttachmentAssumption == Limit \in Nat \ {0} /\ {MaxTime, MaxChanges} \subseteq Nat /\ Forever \notin Nat

VARIABLES
  upload,    \* where each upload stands, its record and intent
  object,    \* uploads whose object is in storage
  row,       \* platform_attachments
  command,   \* what a command has read, and what it will write
  revoked,   \* records whose application no longer allows uploads
  now, changes

attachmentVars == <<upload, object, row, command, revoked, now, changes>>

NoUpload == [pc |-> "idle"]
NoRow == [lifecycle |-> "none", visible |-> FALSE, hold |-> FALSE, retain |-> Forever]
NewRow == [lifecycle |-> "active", visible |-> FALSE, hold |-> FALSE, retain |-> Forever]
Row == [lifecycle : {"active", "removed"}, visible : BOOLEAN, hold : BOOLEAN, retain : {Forever} \cup 1..MaxTime]
NoCommand == [op |-> "none"]

AttachmentTypeOK ==
  /\ upload \in [Uploads -> {NoUpload} \cup
        [pc : {"storing", "stored", "allowed", "registering", "ended"}, record : Records, intent : Intents,
         attempted : BOOLEAN, late : BOOLEAN, kept : BOOLEAN]]
  /\ object \subseteq Uploads /\ row \in [Uploads -> Row \cup {NoRow}] /\ revoked \subseteq Records
  /\ command \in [Editors -> {NoCommand} \cup [op : {"write"}, at : Uploads, before : Row, after : Row]]
  /\ now \in 0..MaxTime /\ changes \in 0..MaxChanges

AttachmentInit ==
  /\ upload = [u \in Uploads |-> NoUpload]
  /\ object = {} /\ row = [u \in Uploads |-> NoRow] /\ command = [c \in Editors |-> NoCommand]
  /\ revoked = {} /\ now = 0 /\ changes = 0
-----------------------------------------------------------------------------
HasRow(u) == row[u] # NoRow
OfRecord(r) == {u \in Uploads : HasRow(u) /\ upload[u].record = r}
OfIntent(i) == {u \in Uploads : HasRow(u) /\ upload[u].intent = i}
UploadGoes(u, pc) == upload' = [upload EXCEPT ![u].pc = pc]

\* The employee is authorized, the attachments are counted, and the format is looked at.
StartUpload(u, r, i) ==
  /\ upload[u] = NoUpload /\ r \notin revoked /\ Cardinality(OfRecord(r)) < Limit
  /\ upload' = [upload EXCEPT ![u] = [pc |-> "storing", record |-> r, intent |-> i,
                                      attempted |-> FALSE, late |-> FALSE, kept |-> FALSE]]
  /\ UNCHANGED <<object, row, command, revoked, now, changes>>

StoreBytes(u) ==
  /\ upload[u].pc = "storing" /\ object' = object \cup {u} /\ UploadGoes(u, "stored")
  /\ UNCHANGED <<row, command, revoked, now, changes>>

StoreFails(u) ==
  /\ upload[u].pc = "storing" /\ UploadGoes(u, "ended")
  /\ UNCHANGED <<object, row, command, revoked, now, changes>>

\* The upload is refused before anything was registered: its object is deleted, unless
\* that fails too.
Refuse(u) ==
  \/ object' = object \ {u} /\ UploadGoes(u, "ended")
  \/ upload' = [upload EXCEPT ![u].pc = "ended", ![u].kept = TRUE] /\ UNCHANGED object

AuthorizeAfter(u) ==
  /\ upload[u].pc = "stored"
  /\ \/ upload[u].record \notin revoked /\ UploadGoes(u, "allowed") /\ UNCHANGED object
     \/ Refuse(u)
  /\ UNCHANGED <<row, command, revoked, now, changes>>

\* registerAttachment() up to createAttachment(): an intent that was registered before has
\* another object, so the hash of its content is another one.
RegisterUpload(u) ==
  /\ upload[u].pc = "allowed"
  /\ \/ /\ OfIntent(upload[u].intent) = {}
        /\ upload' = [upload EXCEPT ![u].pc = "registering", ![u].attempted = TRUE] /\ UNCHANGED object
     \/ Refuse(u)
  /\ UNCHANGED <<row, command, revoked, now, changes>>

Insert(u) == OfIntent(upload[u].intent) = {} /\ row' = [row EXCEPT ![u] = NewRow]

\* Mutant: whatever the error of the registration, the object is deleted.
CommitOrDelete(u) ==
  /\ upload[u].pc = "registering" /\ UploadGoes(u, "ended")
  /\ \/ Insert(u) /\ object' \in {object, object \ {u}}
     \/ UNCHANGED row /\ object' = object \ {u}
  /\ UNCHANGED <<command, revoked, now, changes>>

\* createAttachment(): the transaction commits, and its answer may still be lost, or it
\* fails, for instance because another upload of the intent was faster.
Commit(u) ==
  /\ upload[u].pc = "registering" /\ UploadGoes(u, "ended")
  /\ \/ Insert(u)
     \/ UNCHANGED row
  /\ UNCHANGED <<object, command, revoked, now, changes>>

\* The application withdraws what it allowed.
Revoke(r) ==
  /\ r \notin revoked /\ revoked' = revoked \cup {r}
  /\ upload' = [u \in Uploads |->
                  IF upload[u].pc \in {"storing", "stored"} /\ upload[u].record = r
                  THEN [upload[u] EXCEPT !.late = TRUE] ELSE upload[u]]
  /\ UNCHANGED <<object, row, command, now, changes>>
-----------------------------------------------------------------------------
\* changeRetention(): the new date lies in the future, or there is none again (null).
Retained(before) == {after \in Row \ {before} :
  /\ after.lifecycle = before.lifecycle /\ after.visible = before.visible
  /\ after.retain \notin {before.retain, Forever} => after.retain > now}

\* removeAttachment()
Removable(before) == ~before.hold /\ before.retain # Forever /\ before.retain <= now

\* What is read and decided before the transaction.
ReadAndDecide(c, u, after) ==
  /\ command[c] = NoCommand /\ row[u].lifecycle = "active" /\ changes < MaxChanges
  /\ command' = [command EXCEPT ![c] = [op |-> "write", at |-> u, before |-> row[u], after |-> after]]
  /\ UNCHANGED <<upload, object, row, revoked, now, changes>>

ChangeVisibility(c, u) == ReadAndDecide(c, u, [row[u] EXCEPT !.visible = ~@])
ChangeRetention(c, u) == \E after \in Retained(row[u]) : ReadAndDecide(c, u, after)
RemoveAttachment(c, u) == Removable(row[u]) /\ ReadAndDecide(c, u, [row[u] EXCEPT !.lifecycle = "removed"])

\* updateAttachment(): the row is locked and compared with what was read.
Update(c) ==
  /\ command[c] # NoCommand /\ command' = [command EXCEPT ![c] = NoCommand]
  /\ \/ /\ row[command[c].at] = command[c].before /\ changes < MaxChanges /\ changes' = changes + 1
        /\ row' = [row EXCEPT ![command[c].at] = command[c].after]
     \/ UNCHANGED <<row, changes>>
  /\ UNCHANGED <<upload, object, revoked, now>>

ClockTicks == now < MaxTime /\ now' = now + 1 /\ UNCHANGED <<upload, object, row, command, revoked, changes>>

AttachmentNext ==
  \/ \E u \in Uploads :
       \/ \E r \in Records, i \in Intents : StartUpload(u, r, i)
       \/ StoreBytes(u) \/ StoreFails(u) \/ AuthorizeAfter(u) \/ RegisterUpload(u) \/ Commit(u)
       \/ \E c \in Editors : ChangeVisibility(c, u) \/ ChangeRetention(c, u) \/ RemoveAttachment(c, u)
  \/ \E r \in Records : Revoke(r)
  \/ \E c \in Editors : Update(c)
  \/ ClockTicks

AttachmentSpec == AttachmentInit /\ [][AttachmentNext]_attachmentVars
-----------------------------------------------------------------------------
\* Every attachment that is registered has its bytes in storage, whatever became of the
\* answer to its registration (attachment-service.ts:104-108).
RowsHaveBytes == \A u \in Uploads : HasRow(u) => u \in object

\* An upload that ended before its registration was tried leaves no object, unless its
\* deletion failed as well (attachment-service.ts:101-102, 108).
RefusedLeavesNothing ==
  \A u \in Uploads : upload[u].pc = "ended" /\ ~upload[u].attempted /\ ~upload[u].kept => u \notin object

\* An upload whose permission was withdrawn while its bytes were on their way is never
\* registered (attachment-service.ts:101).
NothingLate == \A u \in Uploads : HasRow(u) => ~upload[u].late

\* An attachment is removed only while no legal hold and no retention is in force, although
\* both may have been set since the removal was decided, and stays as it is from then on
\* (index.ts:137-157, repository.ts:240-247).
RetentionIsKept ==
  [][\A u \in Uploads : HasRow(u) /\ row'[u] # row[u] =>
       /\ row[u].lifecycle = "active"
       /\ row'[u].lifecycle = "removed" => Removable(row[u])]_attachmentVars

\* However uploads, withdrawn permissions and edits interleave, storage and table agree and
\* nothing leaves a record before its time: all of the above
\* (attachment-service.ts:95-108, index.ts:137-157).
AttachmentsKept ==
  /\ [](AttachmentTypeOK /\ RowsHaveBytes /\ RefusedLeavesNothing /\ NothingLate)
  /\ RetentionIsKept
=============================================================================
