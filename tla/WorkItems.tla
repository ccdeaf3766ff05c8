----------------------------- MODULE WorkItems -----------------------------
(***************************************************************************)
(* Work items (platform/work-items/index.ts): the batch that groups items  *)
(* opens and closes with them, and a recurrence rule produces one item per *)
(* occurrence, whoever generates and however often, while its schedule and *)
(* its policy are replaced.                                                *)
(*                                                                         *)
(* A command is a transaction at READ COMMITTED: it locks the row of its   *)
(* item, changes it, locks the row of the batch, and only then lists the   *)
(* other items, of which it sees what has been committed and what is its   *)
(* own.  The lock of the batch is also what makes an insert into the batch *)
(* wait (the foreign key).  Assignment, progress and candidates do not     *)
(* touch a batch or the end of an item and are left out.                   *)
(***************************************************************************)
EXTENDS Integers, FiniteSets

CONSTANTS
  Items,        \* items of one batch; the rows that commands lock
  Days,         \* 1..Days: the instants at which an occurrence may fall
  Schedules,    \* the instants at which a rule is scheduled, for each schedule
  CatchUp,      \* 31: occurrences of policy "all" in one run
  NoItem

ASSUME WorkItemsAssumption ==
  /\ Days \in Nat /\ Schedules \subseteq SUBSET (1..Days)
  /\ CatchUp \in Nat \ {0} /\ NoItem \notin Items

Done == {"completed", "cancelled"}
Policies == {"skip", "latest_only", "all"}

VARIABLES
  item,       \* platform_work_items.status as committed, "none" without a row
  batch,      \* platform_work_item_batches.status
  tx,         \* the transaction on an item: what it has written, not yet committed
  holder,     \* the item whose transaction holds the lock of the batch
  late,       \* history: items added while the batch was closed
  today,      \* the clock, in instants
  rule,       \* status, policy, schedule and lastGeneratedScheduledAt of the rule
  generated,  \* occurrences that have an item
  came,       \* history: occurrences that have ever been due
  owed,       \* history: occurrences that a policy has passed over
  withdrawn   \* history: occurrences whose schedule was replaced while they were due

workVars == <<item, batch, tx, holder, late, today, rule, generated, came, owed, withdrawn>>

Quiet == [pc |-> "idle", status |-> "none", was |-> "open", ended |-> FALSE]

WorkTypeOK ==
  /\ item \in [Items -> {"none", "pending", "completed", "cancelled"}] /\ batch \in {"open", "closed"}
  /\ tx \in [Items -> [pc : {"idle", "written", "locked", "listed"},
                       status : {"none", "pending", "completed", "cancelled"},
                       was : {"open", "closed"}, ended : BOOLEAN]]
  /\ holder \in Items \cup {NoItem} /\ late \subseteq Items
  /\ today \in 0..Days /\ {generated, came, owed, withdrawn} \subseteq SUBSET (1..Days)
  /\ rule \in [active : BOOLEAN, policy : Policies, schedule : Schedules, last : 0..Days]

WorkInit ==
  /\ \E first \in SUBSET Items :
       /\ item = [i \in Items |-> IF i \in first THEN "pending" ELSE "none"]
  /\ batch = "open" /\ tx = [i \in Items |-> Quiet] /\ holder = NoItem /\ late = {}
  /\ today = 0 /\ generated = {} /\ came = {} /\ owed = {} /\ withdrawn = {}
  /\ \E policy \in Policies, schedule \in Schedules :
       rule = [active |-> TRUE, policy |-> policy, schedule |-> schedule, last |-> 0]

Rules == <<today, rule, generated, came, owed, withdrawn>>
-----------------------------------------------------------------------------
\* createWorkItem() with a batch: whether it is still open is not asked.  The row is
\* inserted when nobody holds the batch.
AddToBatch(i) ==
  /\ item[i] = "none" /\ holder = NoItem
  /\ item' = [item EXCEPT ![i] = "pending"]
  /\ late' = IF batch = "closed" THEN late \cup {i} ELSE late
  /\ UNCHANGED <<batch, tx, holder, Rules>>

\* completeWorkItem(), cancelWorkItem(), reopenWorkItem(): the row is locked, checked and
\* written.
WriteItem(i, status) ==
  /\ tx[i].pc = "idle" /\ item[i] # "none"
  /\ (item[i] \in Done) = (status = "pending")
  /\ tx' = [tx EXCEPT ![i].pc = "written", ![i].status = status]
  /\ UNCHANGED <<item, batch, holder, late, Rules>>

\* Mutant: the batch is read without its lock.
ReadBatch(i) ==
  /\ tx[i].pc = "written"
  /\ tx' = [tx EXCEPT ![i].pc = "locked", ![i].was = batch]
  /\ UNCHANGED <<item, batch, holder, late, Rules>>

\* findBatchById(): FOR UPDATE.
LockBatch(i) ==
  /\ tx[i].pc = "written" /\ holder = NoItem /\ holder' = i
  /\ tx' = [tx EXCEPT ![i].pc = "locked", ![i].was = batch]
  /\ UNCHANGED <<item, batch, late, Rules>>

Seen(i) == [item EXCEPT ![i] = tx[i].status]

\* The items of the batch, as committed by now.
ListItems(i) ==
  /\ tx[i].pc = "locked"
  /\ tx' = [tx EXCEPT ![i].pc = "listed",
                      ![i].ended = \A j \in Items : Seen(i)[j] \in Done \cup {"none"}]
  /\ UNCHANGED <<item, batch, holder, late, Rules>>

\* What closeBatchIfDone() and reopenBatchIfNeeded() make of the batch.
BatchAfter(was, status, ended) ==
  CASE was = "closed" /\ status = "pending" -> "open"
    [] was = "open" /\ status \in Done /\ ended -> "closed"
    [] OTHER -> batch

Commit(i) ==
  /\ tx[i].pc = "listed" /\ tx' = [tx EXCEPT ![i] = Quiet]
  /\ holder' = IF holder = i THEN NoItem ELSE holder
  /\ item' = Seen(i) /\ batch' = BatchAfter(tx[i].was, tx[i].status, tx[i].ended)
  /\ late' = IF batch' = "open" THEN {} ELSE late \ {i}
  /\ UNCHANGED Rules

\* Something after the lock fails, and all of it is undone.
Rollback(i) ==
  /\ tx[i].pc # "idle" /\ tx' = [tx EXCEPT ![i] = Quiet]
  /\ holder' = IF holder = i THEN NoItem ELSE holder
  /\ UNCHANGED <<item, batch, late, Rules>>

Batches == <<item, batch, tx, holder, late>>

\* enumerateDueOccurrences(): what the present schedule has since the last occurrence.
Due == {d \in rule.schedule : rule.last < d /\ d <= today}

Tomorrow ==
  /\ today < Days /\ today' = today + 1
  /\ UNCHANGED <<Batches, rule, generated, owed, withdrawn>> /\ came' = came \cup Due'

\* updateRecurrenceRule(), disableRecurrenceRule(), under the lock of the rule.  A new
\* schedule counts from the last occurrence on, the past included: what was due under the
\* old one alone is not due any more.
ChangeRule ==
  /\ \/ \E policy \in Policies, schedule \in Schedules :
          rule' = [rule EXCEPT !.policy = policy, !.schedule = schedule]
     \/ rule' = [rule EXCEPT !.active = FALSE]
  /\ UNCHANGED <<Batches, today, generated, owed>>
  /\ came' = came \cup Due' /\ withdrawn' = (withdrawn \cup Due) \ Due'

LatestOf(days) == CHOOSE d \in days : \A e \in days : e <= d
FirstOf(days, n) == {d \in days : Cardinality({e \in days : e <= d}) <= n}

\* selectOccurrences(): which are generated, and up to where the rule is then done.
Selected ==
  CASE rule.policy = "skip" -> {}
    [] rule.policy = "latest_only" -> {LatestOf(Due)}
    [] OTHER -> FirstOf(Due, CatchUp)
DoneUpTo == LatestOf(IF rule.policy = "all" THEN Selected ELSE Due)

\* generateDueRecurrences(): the rules are locked until the end; what an earlier run has
\* generated is not generated again.
Generate ==
  /\ rule.active /\ Due # {}
  /\ generated' = generated \cup Selected
  /\ owed' = IF rule.policy = "all" THEN owed ELSE owed \cup (Due \ Selected)
  /\ rule' = [rule EXCEPT !.last = DoneUpTo]
  /\ UNCHANGED <<Batches, today, came, withdrawn>>

BatchNext == \E i \in Items :
  \/ AddToBatch(i) \/ LockBatch(i) \/ ListItems(i) \/ Commit(i) \/ Rollback(i)
  \/ \E status \in {"pending", "completed", "cancelled"} : WriteItem(i, status)
RuleNext == Tomorrow \/ ChangeRule \/ Generate
WorkNext == BatchNext \/ RuleNext

WorkSpec == WorkInit /\ [][WorkNext]_workVars
-----------------------------------------------------------------------------
\* A batch follows its items, although they end and reopen at the same time: it is never
\* open when all have ended, unless there are none, nor closed over one that has not,
\* except an item that was put into a closed batch (index.ts:817-831).
BatchFollowsItems ==
  LET there == {i \in Items : item[i] # "none"} IN
  /\ batch = "open" /\ there # {} => \E i \in there : item[i] \notin Done
  /\ batch = "closed" => \A i \in there \ late : item[i] \in Done

\* No occurrence is lost, however late and in however many runs the rule is caught up, and
\* whatever becomes of its schedule meanwhile: each that has ever been due has its item, was
\* passed over by a policy that does so, lost its schedule while it was due, or is still
\* due, and only one of these.
NoOccurrenceLost ==
  /\ came = generated \cup owed \cup withdrawn \cup Due
  /\ generated \cap owed = {} /\ (generated \cup owed) \cap withdrawn = {}
  /\ (generated \cup owed \cup withdrawn) \cap Due = {}

\* Batches and rules account for every item and every occurrence: both of the above
\* (index.ts:817-831, 932-956, with the schedule replaced at 404).
WorkHolds == BatchFollowsItems /\ NoOccurrenceLost
=============================================================================
