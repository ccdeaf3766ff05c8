--------------------------- MODULE ServicesProofs ---------------------------
(*****************************************************************************)
(* What the services of MCServices promise, for any number of people,        *)
(* transactions, items and roles.  They share no state, and neither do their *)
(* proofs: notifications, work items, authorization, signatures.             *)
(*****************************************************************************)
EXTENDS Notifications, WorkItems, BusinessAuthorization, Signatures, FiniteSetTheorems, TLAPS

(*****************************************************************************)
(* Notifications: what was said of a delivery and what its row tells of it   *)
(* are one account of it, step by step.                                      *)
(*****************************************************************************)
NoticeInv == NoticeTypeOK /\ DeliveryIsAccounted

\* The books of one intent.
AccountedFor(before, said, status) ==
  LET n == Len(said) IN
  /\ before.attempts = n
  /\ n > 0 /\ before.status # "cancelled" => before.status = said[n]
  /\ \A k \in 1..n : said[k] \in {"sent", "cancelled"} => k = n
  /\ n > 0 /\ said[n] = "sent" => before.status = "sent"
  /\ status = "cancelled" => before.status \notin {"pending", "queued"}

\* Nothing has been sent before the first notification.
LEMMA NoticeStarts == NoticeInit => NoticeInv
BY NotificationsAssumption DEF NoticeInit, NoticeInv, NoticeTypeOK, DeliveryIsAccounted, Fresh0, Delivery, Intents

\* A report is counted once and decides the intent only while it waits (index.ts:166-184).
LEMMA ReportsAreAccounted ==
  ASSUME NoticeInv, NEW w \in Workers, NEW status \in Delivery, Report(w, status)
  PROVE  NoticeInv'
<1> DEFINE i == located[w].intent
<1>1. i \in Intents /\ Len(tried[i]) < MaxAttempts /\ UNCHANGED <<notice, read>>
  BY DEF Report, NoticeInv, NoticeTypeOK
<1>2. located' \in [Workers -> [intent : Intents \cup {NoIntent}, was : [status : Delivery, attempts : 0..MaxAttempts]]]
  BY DEF Report, NoticeInv, NoticeTypeOK
<1>3. CASE Terminal(i, intent[i])
  BY <1>1, <1>2, <1>3 DEF Report, NoticeInv, NoticeTypeOK, DeliveryIsAccounted
<1>4. CASE ~Terminal(i, intent[i])
  <2>1. /\ intent' = [intent EXCEPT ![i] = [status |-> status, attempts |-> intent[i].attempts + 1]]
        /\ tried' = [tried EXCEPT ![i] = Append(tried[i], status)]
    BY <1>4 DEF Report, Reported
  <2>2. /\ intent[i].attempts = Len(tried[i]) /\ tried[i] \in Seq(Delivery)
        /\ intent[i].status \notin {"cancelled", "sent"} /\ notice[i[1]] # "cancelled"
    BY <1>1, <1>4 DEF NoticeInv, NoticeTypeOK, DeliveryIsAccounted, Terminal
  <2>3. ASSUME NEW k \in 1..Len(tried[i]) PROVE tried[i][k] \notin {"sent", "cancelled"}
    <3>1. SUFFICES ASSUME tried[i][k] \in {"sent", "cancelled"} PROVE FALSE
      OBVIOUS
    <3>2. k = Len(tried[i]) /\ Len(tried[i]) > 0
      BY <1>1, <2>2, <3>1 DEF NoticeInv, DeliveryIsAccounted
    <3>3. intent[i].status = tried[i][k]
      BY <1>1, <2>2, <3>2 DEF NoticeInv, DeliveryIsAccounted
    <3> QED
      BY <2>2, <3>1, <3>3
  <2> DEFINE said == Append(tried[i], status)
  <2>4. /\ said \in Seq(Delivery) /\ Len(said) = Len(tried[i]) + 1 /\ Len(said) \in Nat
        /\ said[Len(said)] = status /\ \A k \in 1..Len(tried[i]) : said[k] = tried[i][k]
    BY <2>2
  <2>5. [status |-> status, attempts |-> intent[i].attempts + 1] \in [status : Delivery, attempts : 0..MaxAttempts]
    BY <1>1, <2>2, <2>4, NotificationsAssumption
  <2>6. NoticeTypeOK'
    BY <1>1, <1>2, <2>1, <2>2, <2>4, <2>5, NotificationsAssumption DEF NoticeInv, NoticeTypeOK
  <2>7. /\ intent'[i].status = status /\ intent'[i].attempts = Len(said) /\ tried'[i] = said
        /\ \A j \in Intents : j # i => intent'[j] = intent[j] /\ tried'[j] = tried[j]
    BY <1>1, <2>1, <2>2, <2>4 DEF NoticeInv, NoticeTypeOK
  <2>8. \A k \in 1..Len(said) : said[k] \in {"sent", "cancelled"} => k = Len(said)
    BY <2>2, <2>3, <2>4
  <2>9. ASSUME NEW j \in Intents PROVE AccountedFor(intent'[j], tried'[j], notice'[j[1]])
    <3>1. CASE j = i
      BY <1>1, <2>2, <2>4, <2>7, <2>8, <3>1 DEF AccountedFor
    <3>2. CASE j # i
      BY <1>1, <2>7, <2>9, <3>2 DEF NoticeInv, DeliveryIsAccounted, AccountedFor
    <3> QED
      BY <3>1, <3>2
  <2> QED
    BY <2>6, <2>9 DEF NoticeInv, DeliveryIsAccounted, AccountedFor
<1> QED
  BY <1>3, <1>4

\* No step of the service breaks the books.
LEMMA NoticeStays ==
  ASSUME NoticeInv, [NoticeNext]_noticeVars
  PROVE  NoticeInv'
<1>1. ASSUME NEW n \in Notices, CreateNotification(n) PROVE NoticeInv'
  BY <1>1 DEF CreateNotification, NoticeInv, NoticeTypeOK, DeliveryIsAccounted, Intents
<1>2. ASSUME NEW n \in Notices, CancelNotification(n) PROVE NoticeInv'
  <2> DEFINE cancelled(i) == [intent[i] EXCEPT !.status = "cancelled"]
  <2>0. ASSUME NEW i \in Intents
        PROVE  /\ cancelled(i) \in [status : Delivery, attempts : 0..MaxAttempts]
               /\ cancelled(i).status = "cancelled" /\ cancelled(i).attempts = intent[i].attempts
    <3>1. intent[i] \in [status : Delivery, attempts : 0..MaxAttempts]
      BY <2>0 DEF NoticeInv, NoticeTypeOK
    <3> QED
      BY <3>1, SMT DEF Delivery
  <2> HIDE DEF cancelled
  <2>3. /\ intent' = [i \in Intents |-> IF i[1] = n /\ intent[i].status \in {"pending", "queued"}
                                        THEN cancelled(i) ELSE intent[i]]
        /\ notice' = [notice EXCEPT ![n] = "cancelled"] /\ UNCHANGED <<tried, read, located>>
    BY <1>2 DEF CancelNotification, cancelled
  <2>1. NoticeTypeOK'
    BY <2>0, <2>3 DEF NoticeInv, NoticeTypeOK
  <2>2. ASSUME NEW i \in Intents
        PROVE  AccountedFor(intent'[i], tried'[i], notice'[i[1]])
    <3>1. UNCHANGED tried /\ intent'[i].attempts = intent[i].attempts
          /\ (i[1] = n /\ intent[i].status \in {"pending", "queued"} => intent'[i].status = "cancelled")
          /\ (~(i[1] = n /\ intent[i].status \in {"pending", "queued"}) => intent'[i].status = intent[i].status)
          /\ (i[1] # n => notice'[i[1]] = notice[i[1]])
      BY <2>0, <2>2, <2>3 DEF NoticeInv, NoticeTypeOK, Intents
    <3>2. Len(tried[i]) \in Nat
      BY <2>2 DEF NoticeInv, NoticeTypeOK
    <3> QED
      BY <2>2, <3>1, <3>2 DEF NoticeInv, DeliveryIsAccounted, AccountedFor
  <2> QED
    BY <2>1, <2>2 DEF NoticeInv, DeliveryIsAccounted, AccountedFor
<1>3. ASSUME NEW n \in Notices, NEW p \in Recipients, MarkRead(n, p) PROVE NoticeInv'
  BY <1>3 DEF MarkRead, NoticeInv, NoticeTypeOK, DeliveryIsAccounted
<1>4. ASSUME NEW w \in Workers, NEW i \in Intents, Locate(w, i) PROVE NoticeInv'
  BY <1>4 DEF Locate, NoticeInv, NoticeTypeOK, DeliveryIsAccounted
<1>5. CASE UNCHANGED noticeVars
  BY <1>5 DEF noticeVars, NoticeInv, NoticeTypeOK, DeliveryIsAccounted
<1> QED
  BY <1>1, <1>2, <1>3, <1>4, <1>5, ReportsAreAccounted DEF NoticeNext

\* For any notices, recipients and workers: every attempt is counted, the intent says what
\* the last one said, and nothing is attempted once it was sent or its notification was
\* cancelled (notifications/index.ts:166-184, 252-256).
THEOREM DeliveriesAreAccounted == NoticeSpec => []DeliveryIsAccounted
<1>1. NoticeInv => DeliveryIsAccounted
  BY DEF NoticeInv
<1>2. NoticeInv /\ [NoticeNext]_noticeVars => NoticeInv'
  BY NoticeStays
<1> QED
  BY <1>1, <1>2, NoticeStarts, PTL DEF NoticeSpec
-----------------------------------------------------------------------------
(*****************************************************************************)
(* Work items.  A transaction that has listed a batch holds its lock, so     *)
(* what it has seen of the items of others stays true until it commits; a    *)
(* rule has looked at days that have passed only.                            *)
(*****************************************************************************)
Transaction == [pc : {"idle", "written", "locked", "listed"}, status : {"none", "pending", "completed", "cancelled"},
                was : {"open", "closed"}, ended : BOOLEAN]

\* Who holds the batch is exactly who has read it, and what he has read stays true.
BatchIsHeld == \A i \in Items :
  /\ tx[i].pc # "idle" => item[i] # "none" /\ tx[i].status # "none"
  /\ holder = i <=> tx[i].pc \in {"locked", "listed"}
  /\ tx[i].pc \in {"locked", "listed"} => tx[i].was = batch
  /\ tx[i].pc = "listed" =>
       IF tx[i].ended THEN \A j \in Items : Seen(i)[j] \in Done \cup {"none"}
                      ELSE \E j \in Items : Seen(i)[j] \notin Done \cup {"none"}

\* A rule has looked at the past only.
RuleIsBehind == rule.last <= today /\ generated \cup owed \subseteq 1..rule.last /\ came \subseteq 1..today

WorkInv == WorkTypeOK /\ BatchIsHeld /\ RuleIsBehind /\ WorkHolds

\* Of some natural numbers one is the least.
LEMMA LeastOf ==
  ASSUME NEW S \in SUBSET Nat, S # {}
  PROVE  \E d \in S : \A e \in S : d <= e
<1> DEFINE less == OpToRel(<, Nat)
<1>1. PICK d \in S : \A e \in S : <<e, d>> \notin less
  <2>1. IsWellFoundedOn(less, Nat)
    BY NatLessThanWellFounded
  <2> HIDE DEF less
  <2> QED
    BY <2>1, WFMin
<1>2. ASSUME NEW e \in S PROVE d <= e
  <2>1. SUFFICES ASSUME e < d PROVE FALSE
    OBVIOUS
  <2>2. <<e, d>> \in less
    BY <2>1 DEF OpToRel
  <2> QED
    BY <1>1, <2>2
<1> QED
  BY <1>2

\* Of some instants one is the latest.
LEMMA LatestIsThere ==
  ASSUME NEW S \in SUBSET (1..Days), S # {}
  PROVE  LatestOf(S) \in S /\ \A e \in S : e <= LatestOf(S)
<1> DEFINE back == {Days - d : d \in S}
<1>0. Days \in Nat /\ \A d \in S : d \in Int /\ 1 <= d /\ d <= Days
  BY WorkItemsAssumption
<1>1. PICK b \in back : \A e \in back : b <= e
  <2>0. \A d \in S : Days - d \in Nat
    BY <1>0
  <2>1. back \in SUBSET Nat /\ back # {}
    BY <2>0
  <2> QED
    BY <2>1, LeastOf
<1>2. PICK d \in S : b = Days - d
  BY <1>1
<1>3. ASSUME NEW e \in S PROVE e <= d
  <2>1. Days - d <= Days - e
    BY <1>1, <1>2, <1>3
  <2>2. Days \in Int /\ d \in Int /\ e \in Int
    BY <1>0, <1>2, <1>3
  <2> HIDE DEF back
  <2> QED
    BY <2>1, <2>2
<1> HIDE DEF back
<1> QED
  BY <1>2, <1>3 DEF LatestOf

\* The first n of some instants are some of them, and none before one of these is left out.
LEMMA FirstAreFirst ==
  ASSUME NEW S \in SUBSET (1..Days), S # {}, NEW n \in Nat \ {0}
  PROVE  /\ FirstOf(S, n) # {} /\ FirstOf(S, n) \subseteq S
         /\ \A d \in FirstOf(S, n), e \in S : e <= d => e \in FirstOf(S, n)
<1> DEFINE upTo(d) == {e \in S : e <= d}
<1>0. Days \in Nat /\ S \in SUBSET Nat /\ \A d \in S : d \in Int
  BY WorkItemsAssumption
<1>1. ASSUME NEW d \in S PROVE IsFiniteSet(upTo(d)) /\ Cardinality(upTo(d)) \in Nat
  <2>1. IsFiniteSet(1..Days)
    BY <1>0, FS_Interval
  <2>2. upTo(d) \in SUBSET (1..Days)
    OBVIOUS
  <2>3. IsFiniteSet(upTo(d))
    BY <2>1, <2>2, FS_Subset
  <2> QED
    BY <2>3, FS_CardinalityType
<1>2. ASSUME NEW d \in S, NEW e \in S, e <= d PROVE Cardinality(upTo(e)) <= Cardinality(upTo(d))
  <2>1. d \in Int /\ e \in Int
    BY <1>0, <1>2
  <2>2. ASSUME NEW x \in S, x <= e PROVE x <= d
    BY <1>0, <1>2, <2>1, <2>2
  <2>3. upTo(e) \in SUBSET upTo(d)
    BY <2>2
  <2> QED
    BY <1>1, <1>2, <2>3, FS_Subset
<1>3. PICK d \in S : \A e \in S : d <= e
  BY <1>0, LeastOf
<1>4. upTo(d) = {d}
  <2>1. ASSUME NEW x \in S, x <= d PROVE x = d
    <3>1. d <= x /\ x \in Int /\ d \in Int
      BY <1>0, <1>3, <2>1
    <3> QED
      BY <2>1, <3>1
  <2>2. d \in S /\ d <= d
    BY <1>0, <1>3
  <2> QED
    BY <2>1, <2>2
<1>5. Cardinality(upTo(d)) = 1
  BY <1>4, FS_Singleton
<1>6. FirstOf(S, n) = {e \in S : Cardinality(upTo(e)) <= n}
  BY DEF FirstOf
<1> HIDE DEF upTo
<1>7. d \in FirstOf(S, n)
  BY <1>3, <1>5, <1>6
<1>8. ASSUME NEW a \in FirstOf(S, n), NEW e \in S, e <= a PROVE e \in FirstOf(S, n)
  <2>1. a \in S /\ Cardinality(upTo(a)) <= n
    BY <1>6, <1>8
  <2>2. Cardinality(upTo(e)) <= Cardinality(upTo(a)) /\ {Cardinality(upTo(e)), Cardinality(upTo(a)), n} \subseteq Int
    BY <1>1, <1>2, <1>8, <2>1
  <2>3. Cardinality(upTo(e)) <= n
    BY <2>1, <2>2
  <2> QED
    BY <1>6, <1>8, <2>3
<1> QED
  BY <1>6, <1>7, <1>8

\* A run takes of what is due the first, or up to the last of it.
LEMMA RunTakesInOrder ==
  ASSUME WorkTypeOK, Generate
  PROVE  /\ Due \in SUBSET (1..Days) /\ Selected \subseteq Due /\ DoneUpTo \in Due
         /\ \A d \in Due : d <= DoneUpTo => rule.policy # "all" \/ d \in Selected
         /\ \A d \in Selected : d <= DoneUpTo
         /\ rule.policy # "all" => \A d \in Due : d <= DoneUpTo
<1>1. /\ Due \in SUBSET (1..Days) /\ Due # {} /\ CatchUp \in Nat \ {0} /\ rule.policy \in Policies
  BY WorkItemsAssumption DEF WorkTypeOK, Generate, Due
<1>2. LatestOf(Due) \in Due /\ \A e \in Due : e <= LatestOf(Due)
  BY <1>1, LatestIsThere
<1>3. CASE rule.policy # "all"
  <2>1. DoneUpTo = LatestOf(Due) /\ Selected \in {{}, {LatestOf(Due)}}
    BY <1>1, <1>3 DEF DoneUpTo, Selected, Policies
  <2> QED
    BY <1>1, <1>2, <1>3, <2>1
<1>4. CASE rule.policy = "all"
  <2>1. DoneUpTo = LatestOf(Selected) /\ Selected = FirstOf(Due, CatchUp)
    BY <1>4 DEF DoneUpTo, Selected
  <2>2. /\ Selected # {} /\ Selected \subseteq Due
        /\ \A d \in Selected, e \in Due : e <= d => e \in Selected
    BY <1>1, <2>1, FirstAreFirst
  <2>3. LatestOf(Selected) \in Selected /\ \A e \in Selected : e <= LatestOf(Selected)
    BY <1>1, <2>2, LatestIsThere
  <2> QED
    BY <1>1, <1>4, <2>1, <2>2, <2>3
<1> QED
  BY <1>3, <1>4
\* Empty batches and fresh rules account for everything.
LEMMA WorkStarts == WorkInit => WorkInv
<1> SUFFICES ASSUME WorkInit PROVE WorkInv
  OBVIOUS
<1>1. WorkTypeOK
  BY WorkItemsAssumption DEF WorkInit, WorkTypeOK, Quiet
<1>2. BatchIsHeld
  BY WorkItemsAssumption DEF WorkInit, BatchIsHeld, Quiet
<1>3. RuleIsBehind
  BY DEF WorkInit, RuleIsBehind
<1>4. BatchFollowsItems
  BY DEF WorkInit, BatchFollowsItems, Done
<1>5. NoOccurrenceLost
  <2>1. rule.schedule \in SUBSET (1..Days) /\ rule.last = 0 /\ today = 0
    BY WorkItemsAssumption DEF WorkInit
  <2>2. Due = {}
    BY <2>1, WorkItemsAssumption DEF Due
  <2> QED
    BY <2>2 DEF WorkInit, NoOccurrenceLost
<1>6. WorkHolds
  BY <1>4, <1>5 DEF WorkHolds
<1> QED
  BY <1>1, <1>2, <1>3, <1>6 DEF WorkInv

\* The lock of the batch: while it is taken nothing else is inserted or committed.
LEMMA BatchStays ==
  ASSUME WorkInv, NEW i \in Items, UNCHANGED Rules,
         \/ AddToBatch(i) \/ LockBatch(i) \/ ListItems(i) \/ Commit(i) \/ Rollback(i)
         \/ \E status \in {"pending", "completed", "cancelled"} : WriteItem(i, status)
  PROVE  WorkTypeOK' /\ BatchIsHeld' /\ BatchFollowsItems'
<1> USE WorkItemsAssumption
<1>0. WorkTypeOK /\ BatchIsHeld /\ BatchFollowsItems
  BY DEF WorkInv, WorkHolds
<1>1. CASE AddToBatch(i)
  <2>1. WorkTypeOK'
    BY <1>0, <1>1 DEF AddToBatch, WorkTypeOK, Rules
  <2>2. BatchIsHeld'
    BY <1>0, <1>1 DEF AddToBatch, BatchIsHeld, WorkTypeOK
  <2>3. BatchFollowsItems'
    BY <1>0, <1>1 DEF AddToBatch, BatchFollowsItems, WorkTypeOK, Done
  <2> QED
    BY <2>1, <2>2, <2>3
<1>2. CASE LockBatch(i)
  <2>1. tx \in [Items -> Transaction] /\ batch \in {"open", "closed"}
    BY <1>0 DEF WorkTypeOK, Transaction
  <2>2. /\ tx' = [tx EXCEPT ![i].pc = "locked", ![i].was = batch]
        /\ holder = NoItem /\ holder' = i /\ tx[i].pc = "written" /\ UNCHANGED <<item, batch, late>>
    BY <1>2 DEF LockBatch
  <2>3. /\ tx' \in [Items -> Transaction] /\ \A j \in Items : j # i => tx'[j] = tx[j]
        /\ tx'[i].pc = "locked" /\ tx'[i].status = tx[i].status /\ tx'[i].was = batch
    BY <2>1, <2>2 DEF Transaction
  <2>4. WorkTypeOK'
    BY <1>0, <2>2, <2>3 DEF WorkTypeOK, Rules, Transaction
  <2>5. BatchIsHeld'
    <3>1. \A j \in Items : Seen(j)' = Seen(j)
      BY <2>2, <2>3 DEF Seen
    <3> QED
      BY <1>0, <2>2, <2>3, <3>1 DEF BatchIsHeld
  <2>6. BatchFollowsItems'
    BY <1>0, <2>2 DEF BatchFollowsItems
  <2> QED
    BY <2>4, <2>5, <2>6
<1>3. CASE ListItems(i)
  <2> DEFINE ended == \A j \in Items : Seen(i)[j] \in Done \cup {"none"}
  <2>1. tx \in [Items -> Transaction] /\ ended \in BOOLEAN
    BY <1>0 DEF WorkTypeOK, Transaction
  <2>2. /\ tx' = [tx EXCEPT ![i].pc = "listed", ![i].ended = ended]
        /\ tx[i].pc = "locked" /\ UNCHANGED <<item, batch, holder, late>>
    BY <1>3 DEF ListItems
  <2> HIDE DEF ended
  <2>3. /\ tx' \in [Items -> Transaction] /\ \A j \in Items : j # i => tx'[j] = tx[j]
        /\ tx'[i].pc = "listed" /\ tx'[i].status = tx[i].status /\ tx'[i].was = tx[i].was
        /\ tx'[i].ended = ended
    BY <2>1, <2>2 DEF Transaction
  <2>4. \A j \in Items : Seen(j)' = Seen(j)
    BY <2>2, <2>3 DEF Seen
  <2>5. ASSUME ended PROVE BatchIsHeld'
    <3>1. tx'[i].ended /\ \A j \in Items : Seen(i)'[j] \in Done \cup {"none"}
      BY <2>3, <2>4, <2>5 DEF ended
    <3> QED
      BY <1>0, <2>2, <2>3, <2>4, <3>1 DEF BatchIsHeld
  <2>6. ASSUME ~ended PROVE BatchIsHeld'
    <3>1. ~tx'[i].ended /\ \E j \in Items : Seen(i)'[j] \notin Done \cup {"none"}
      BY <2>3, <2>4, <2>6 DEF ended
    <3> QED
      BY <1>0, <2>2, <2>3, <2>4, <3>1 DEF BatchIsHeld
  <2>7. WorkTypeOK'
    BY <1>0, <2>2, <2>3 DEF WorkTypeOK, Rules, Transaction
  <2>8. BatchFollowsItems'
    BY <1>0, <2>2 DEF BatchFollowsItems
  <2> QED
    BY <2>5, <2>6, <2>7, <2>8
<1>4. CASE Commit(i)
  <2>1. /\ holder = i /\ item[i] # "none" /\ tx[i].was = batch
        /\ tx[i].status \in Done \cup {"pending"}
        /\ tx[i].ended = \A j \in Items : Seen(i)[j] \in Done \cup {"none"}
    BY <1>0, <1>4 DEF Commit, BatchIsHeld, WorkTypeOK, Done
  <2>2. /\ item' = [item EXCEPT ![i] = tx[i].status] /\ holder' = NoItem
        /\ tx' = [tx EXCEPT ![i] = Quiet]
    BY <1>4, <2>1 DEF Commit, Seen
  <2>3. \A j \in Items : j # i => tx[j].pc \notin {"locked", "listed"}
    BY <1>0, <2>1 DEF BatchIsHeld
  <2>4. batch' \in {"open", "closed"}
    BY <1>0, <1>4, <2>1 DEF Commit, BatchAfter, WorkTypeOK
  <2>5. WorkTypeOK'
    <3>1. item' \in [Items -> {"none", "pending", "completed", "cancelled"}]
      BY <1>0, <2>1, <2>2 DEF WorkTypeOK
    <3>2. tx' \in [Items -> [pc : {"idle", "written", "locked", "listed"},
                             status : {"none", "pending", "completed", "cancelled"},
                             was : {"open", "closed"}, ended : BOOLEAN]]
      BY <1>0, <2>2 DEF WorkTypeOK, Quiet
    <3>3. late' \subseteq Items
      BY <1>0, <1>4 DEF Commit, WorkTypeOK
    <3> QED
      BY <1>0, <2>2, <2>4, <3>1, <3>2, <3>3 DEF WorkTypeOK, Rules
  <2>6. BatchIsHeld'
    BY <1>0, <2>1, <2>2, <2>3 DEF BatchIsHeld, WorkTypeOK, Quiet
  <2>7. BatchFollowsItems'
    <3>1. CASE batch = "closed" /\ tx[i].status = "pending"
      BY <1>0, <1>4, <2>1, <2>2, <3>1 DEF Commit, BatchAfter, BatchFollowsItems, WorkTypeOK, Done
    <3>2. CASE batch = "open" /\ tx[i].status \in Done /\ tx[i].ended
      BY <1>0, <1>4, <2>1, <2>2, <3>2 DEF Commit, Seen, BatchAfter, BatchFollowsItems, WorkTypeOK, Done
    <3>3. CASE batch = "open" /\ ~(tx[i].status \in Done /\ tx[i].ended)
      <4>1. batch' = "open"
        BY <1>4, <2>1, <3>3 DEF Commit, BatchAfter
      <4>2. \E j \in Items : item'[j] \notin Done \cup {"none"}
        BY <1>0, <2>1, <2>2, <3>3 DEF Seen, WorkTypeOK, Done
      <4> QED
        BY <4>1, <4>2 DEF BatchFollowsItems
    <3>4. CASE batch = "closed" /\ tx[i].status # "pending"
      <4>1. batch' = "closed" /\ late' = late \ {i}
        BY <1>4, <2>1, <3>4 DEF Commit, BatchAfter
      <4> QED
        BY <1>0, <2>1, <2>2, <3>4, <4>1 DEF BatchFollowsItems, WorkTypeOK
    <3> QED
      BY <1>0, <3>1, <3>2, <3>3, <3>4 DEF WorkTypeOK
  <2> QED
    BY <2>5, <2>6, <2>7
<1>5. CASE Rollback(i)
  <2>1. WorkTypeOK'
    BY <1>0, <1>5 DEF Rollback, WorkTypeOK, Rules, Quiet
  <2>2. BatchIsHeld'
    BY <1>0, <1>5 DEF Rollback, BatchIsHeld, WorkTypeOK, Seen, Quiet
  <2>3. BatchFollowsItems'
    BY <1>0, <1>5 DEF Rollback, BatchFollowsItems
  <2> QED
    BY <2>1, <2>2, <2>3
<1>6. ASSUME NEW status \in {"pending", "completed", "cancelled"}, WriteItem(i, status)
      PROVE  WorkTypeOK' /\ BatchIsHeld' /\ BatchFollowsItems'
  <2>1. tx \in [Items -> Transaction] /\ status \in {"pending", "completed", "cancelled"}
    BY <1>0, <1>6 DEF WorkTypeOK, Transaction
  <2>2. /\ tx' = [tx EXCEPT ![i].pc = "written", ![i].status = status]
        /\ tx[i].pc = "idle" /\ item[i] # "none" /\ UNCHANGED <<item, batch, holder, late>>
    BY <1>6 DEF WriteItem
  <2>3. /\ tx' \in [Items -> Transaction] /\ \A j \in Items : j # i => tx'[j] = tx[j]
        /\ tx'[i].pc = "written" /\ tx'[i].status # "none"
    BY <2>1, <2>2 DEF Transaction
  <2>4. WorkTypeOK'
    BY <1>0, <2>2, <2>3 DEF WorkTypeOK, Rules, Transaction
  <2>5. BatchIsHeld'
    <3>1. \A j \in Items \ {i} : Seen(j)' = Seen(j)
      BY <2>2, <2>3 DEF Seen
    <3> QED
      BY <1>0, <2>2, <2>3, <3>1 DEF BatchIsHeld
  <2>6. BatchFollowsItems'
    BY <1>0, <2>2 DEF BatchFollowsItems
  <2> QED
    BY <2>4, <2>5, <2>6
<1> QED
  BY <1>1, <1>2, <1>3, <1>4, <1>5, <1>6

\* What is due after a run is what it has not taken.
LEMMA RunLeavesTheRest ==
  ASSUME WorkInv, Generate
  PROVE  /\ rule' = [rule EXCEPT !.last = DoneUpTo] /\ rule'.last = DoneUpTo
         /\ DoneUpTo \in (rule.last + 1)..today /\ DoneUpTo \in 1..Days
         /\ Due' = IF rule.policy = "all" THEN Due \ Selected ELSE {}
         /\ Selected \subseteq Due /\ Due \subseteq 1..today
         /\ Selected \subseteq 1..DoneUpTo /\ (rule.policy # "all" => Due \subseteq 1..DoneUpTo)
<1>1. /\ rule \in [active : BOOLEAN, policy : Policies, schedule : Schedules, last : 0..Days]
      /\ today \in 0..Days /\ Days \in Nat /\ WorkTypeOK
  BY WorkItemsAssumption DEF WorkInv, WorkTypeOK
<1>2. /\ rule' = [rule EXCEPT !.last = DoneUpTo] /\ rule'.last = DoneUpTo /\ rule'.schedule = rule.schedule
      /\ today' = today
  BY <1>1 DEF Generate
<1>3. /\ Due \in SUBSET (1..Days) /\ Selected \subseteq Due /\ DoneUpTo \in Due
      /\ \A d \in Due : d <= DoneUpTo => rule.policy # "all" \/ d \in Selected
      /\ \A d \in Selected : d <= DoneUpTo
      /\ rule.policy # "all" => \A d \in Due : d <= DoneUpTo
  BY <1>1, RunTakesInOrder
<1>4. \A d : d \in Due <=> d \in rule.schedule /\ rule.last < d /\ d <= today
  BY DEF Due
<1>5. \A d : d \in Due' <=> d \in rule.schedule /\ DoneUpTo < d /\ d <= today
  BY <1>2 DEF Due
<1>6. rule.schedule \in SUBSET (1..Days)
  BY <1>1, WorkItemsAssumption
<1> DEFINE upTo == DoneUpTo
<1>7. /\ upTo \in Due /\ \A d \in Due : d <= upTo => rule.policy # "all" \/ d \in Selected
      /\ \A d \in Selected : d <= upTo
      /\ rule.policy # "all" => \A d \in Due : d <= upTo
      /\ \A d : d \in Due' <=> d \in rule.schedule /\ upTo < d /\ d <= today
  BY <1>3, <1>5
<1> HIDE DEF upTo
<1>8. \A d \in rule.schedule : d \in Int
  BY <1>6
<1>9. upTo \in Int /\ rule.last \in Int /\ rule.last < upTo /\ upTo <= today /\ today \in Int
  BY <1>1, <1>4, <1>6, <1>7
<1>10. ASSUME NEW d PROVE d \in Due' <=> d \in (IF rule.policy = "all" THEN Due \ Selected ELSE {})
  <2>1. CASE d \in rule.schedule
    BY <1>3, <1>4, <1>7, <1>8, <1>9, <2>1
  <2>2. CASE d \notin rule.schedule
    BY <1>4, <1>7, <2>2
  <2> QED
    BY <2>1, <2>2
<1>11. Due \subseteq 1..today /\ Selected \subseteq 1..upTo /\ (rule.policy # "all" => Due \subseteq 1..upTo)
  BY <1>1, <1>3, <1>4, <1>7, <1>9
<1>12. upTo \in (rule.last + 1)..today /\ upTo \in 1..Days
  BY <1>1, <1>3, <1>7, <1>9
<1> QED
  BY <1>2, <1>3, <1>10, <1>11, <1>12 DEF upTo

\* No transaction and no run of the generator loses an item or a date.
LEMMA WorkStays ==
  ASSUME WorkInv, [WorkNext]_workVars
  PROVE  WorkInv'
<1> USE WorkItemsAssumption
<1>0. /\ rule \in [active : BOOLEAN, policy : Policies, schedule : Schedules, last : 0..Days]
      /\ today \in 0..Days /\ Days \in Nat /\ rule.last <= today
      /\ generated \cup owed \subseteq 1..rule.last /\ came \subseteq 1..today
      /\ came = generated \cup owed \cup withdrawn \cup Due
      /\ generated \cap owed = {} /\ (generated \cup owed) \cap withdrawn = {}
      /\ (generated \cup owed \cup withdrawn) \cap Due = {}
  BY DEF WorkInv, WorkTypeOK, RuleIsBehind, WorkHolds, NoOccurrenceLost
<1>1. ASSUME NEW i \in Items,
             \/ AddToBatch(i) \/ LockBatch(i) \/ ListItems(i) \/ Commit(i) \/ Rollback(i)
             \/ \E status \in {"pending", "completed", "cancelled"} : WriteItem(i, status)
      PROVE  WorkInv'
  <2>1. UNCHANGED Rules
    BY <1>1 DEF AddToBatch, LockBatch, ListItems, Commit, Rollback, WriteItem
  <2>2. RuleIsBehind' /\ NoOccurrenceLost'
    BY <2>1 DEF Rules, WorkInv, WorkHolds, RuleIsBehind, NoOccurrenceLost, Due
  <2>3. WorkTypeOK' /\ BatchIsHeld' /\ BatchFollowsItems'
    BY <1>1, <2>1, BatchStays
  <2> QED
    BY <2>2, <2>3 DEF WorkInv, WorkHolds
<1>2. CASE Tomorrow
  <2>1. BatchIsHeld' /\ BatchFollowsItems'
    BY <1>2 DEF Tomorrow, Batches, WorkInv, WorkHolds, BatchIsHeld, BatchFollowsItems, Seen
  <2>2. /\ today' = today + 1 /\ today' \in 0..Days /\ came' = came \cup Due'
        /\ UNCHANGED <<Batches, rule, generated, owed, withdrawn>>
    BY <1>0, <1>2 DEF Tomorrow
  <2>3. rule.schedule \in SUBSET (1..Days)
    BY <1>0
  <2>4. Due' = Due \cup ({today + 1} \cap rule.schedule)
    BY <1>0, <2>2, <2>3 DEF Due
  <2>5. today + 1 \notin came /\ Due' \subseteq 1..today'
    BY <1>0, <2>2, <2>3 DEF Due
  <2>6. NoOccurrenceLost'
    BY <1>0, <2>2, <2>4, <2>5 DEF NoOccurrenceLost
  <2>7. came' \subseteq 1..today'
    <3>1. 1..today \subseteq 1..today'
      BY <1>0, <2>2
    <3> QED
      BY <1>0, <2>2, <2>5, <3>1
  <2>8. RuleIsBehind'
    BY <1>0, <2>2, <2>7 DEF RuleIsBehind
  <2>9. came' \subseteq 1..Days
    BY <2>2, <2>7
  <2>10. WorkTypeOK'
    BY <2>2, <2>9 DEF Batches, WorkInv, WorkTypeOK
  <2> QED
    BY <2>1, <2>6, <2>8, <2>10 DEF WorkInv, WorkHolds
<1>3. CASE ChangeRule
  <2>1. BatchIsHeld' /\ BatchFollowsItems'
    BY <1>3 DEF ChangeRule, Batches, WorkInv, WorkHolds, BatchIsHeld, BatchFollowsItems, Seen
  <2>2. /\ rule' \in [active : BOOLEAN, policy : Policies, schedule : Schedules, last : 0..Days]
        /\ rule'.last = rule.last
    BY <1>0, <1>3 DEF ChangeRule
  <2>3. /\ came' = came \cup Due' /\ withdrawn' = (withdrawn \cup Due) \ Due'
        /\ UNCHANGED <<Batches, today, generated, owed>>
    BY <1>3 DEF ChangeRule
  <2>4. /\ Due' \subseteq 1..today /\ Due' \subseteq 1..Days
        /\ \A d \in Due' : d \notin generated \cup owed
    <3>1. rule'.schedule \in SUBSET (1..Days)
      BY <2>2
    <3>2. \A d \in Due' : d \in rule'.schedule /\ rule.last < d /\ d <= today
      BY <2>2, <2>3 DEF Due
    <3> QED
      BY <1>0, <3>1, <3>2
  <2>5. NoOccurrenceLost'
    BY <1>0, <2>3, <2>4 DEF NoOccurrenceLost
  <2>6. RuleIsBehind'
    BY <1>0, <2>2, <2>3, <2>4 DEF RuleIsBehind
  <2>7. came' \subseteq 1..Days /\ withdrawn' \subseteq 1..Days
    BY <1>0, <2>3, <2>4 DEF WorkInv, WorkTypeOK
  <2>8. WorkTypeOK'
    BY <2>2, <2>3, <2>7 DEF Batches, WorkInv, WorkTypeOK
  <2> QED
    BY <2>1, <2>5, <2>6, <2>8 DEF WorkInv, WorkHolds
<1>4. CASE Generate
  <2>1. BatchIsHeld' /\ BatchFollowsItems'
    BY <1>4 DEF Generate, Batches, WorkInv, WorkHolds, BatchIsHeld, BatchFollowsItems, Seen
  <2>2. /\ generated' = generated \cup Selected
        /\ owed' = IF rule.policy = "all" THEN owed ELSE owed \cup (Due \ Selected)
        /\ UNCHANGED <<Batches, today, came, withdrawn>>
    BY <1>4 DEF Generate
  <2>3. /\ rule' = [rule EXCEPT !.last = DoneUpTo] /\ rule'.last = DoneUpTo
        /\ DoneUpTo \in (rule.last + 1)..today /\ DoneUpTo \in 1..Days
        /\ Due' = IF rule.policy = "all" THEN Due \ Selected ELSE {}
        /\ Selected \subseteq Due /\ Due \subseteq 1..today
        /\ Selected \subseteq 1..DoneUpTo /\ (rule.policy # "all" => Due \subseteq 1..DoneUpTo)
    BY <1>4, RunLeavesTheRest
  <2>4. NoOccurrenceLost'
    BY <1>0, <2>2, <2>3 DEF NoOccurrenceLost
  <2>5. generated' \cup owed' \subseteq 1..DoneUpTo
    BY <1>0, <2>2, <2>3
  <2>6. RuleIsBehind'
    BY <1>0, <2>2, <2>3, <2>5 DEF RuleIsBehind
  <2>7. /\ rule' \in [active : BOOLEAN, policy : Policies, schedule : Schedules, last : 0..Days]
        /\ generated' \subseteq 1..Days /\ owed' \subseteq 1..Days
    BY <1>0, <2>3, <2>5
  <2>8. WorkTypeOK'
    BY <2>2, <2>7 DEF WorkInv, WorkTypeOK, Batches
  <2> QED
    BY <2>1, <2>4, <2>6, <2>8 DEF WorkInv, WorkHolds
<1>5. CASE UNCHANGED workVars
  BY <1>5 DEF workVars, WorkInv, WorkTypeOK, BatchIsHeld, RuleIsBehind, WorkHolds, BatchFollowsItems,
     NoOccurrenceLost, Due, Seen
<1> QED
  BY <1>1, <1>2, <1>3, <1>4, <1>5 DEF WorkNext, BatchNext, RuleNext

\* For any items, instants and schedules: a batch is as its items are, whatever transactions
\* end and reopen them at the same time, and every occurrence that has ever been due has its
\* item, was passed over by policy, lost its schedule when that was replaced, or is still
\* due (work-items/index.ts:404, 817-831, 932-956).
THEOREM BatchesAndRulesAccount == WorkSpec => []WorkHolds
<1>1. WorkInv => WorkHolds
  BY DEF WorkInv
<1>2. WorkInv /\ [WorkNext]_workVars => WorkInv'
  BY WorkStays
<1> QED
  BY <1>1, <1>2, WorkStarts, PTL DEF WorkSpec
-----------------------------------------------------------------------------
(*****************************************************************************)
(* Authorization.  A screen is read in pieces under the revision it began    *)
(* with, and as long as that is the current one each piece is still true.    *)
(*****************************************************************************)
Screen == [pc : {"closed", "revision", "roles", "read"}, rev : 0..MaxRevisions, default : Roles \cup {NoRole},
           roles : [Roles -> Role], members : SUBSET (Roles \X Staff)]

\* What a screen shows so far is the truth as long as its revision is the current one.
ScreensFollow == \A o \in Owners :
  /\ screen[o].rev <= rev
  /\ screen[o].pc # "closed" /\ screen[o].rev = rev =>
       /\ screen[o].default = default
       /\ screen[o].pc \in {"roles", "read"} => screen[o].roles = roles
       /\ screen[o].pc = "read" => screen[o].members = members

MembersHaveRoles == \A r \in Roles, p \in Staff : <<r, p>> \in members => roles[r].status # "none"

AuthInv == AuthTypeOK /\ ScreensFollow /\ MembersHaveRoles

\* The roles an installation starts with.
LEMMA AuthStarts == AuthInit => AuthInv
<1> SUFFICES ASSUME AuthInit PROVE AuthInv
  OBVIOUS
<1> USE AuthorizationAssumption
<1>0. NoRow \in Role /\ NoRow.status = "none"
  BY DEF NoRow, Role
<1>1. roles \in [Roles -> Role]
  <2>1. PICK set \in [Roles -> RuleSets] :
          \/ roles = [r \in Roles |-> [status |-> "active", rules |-> set[r]]]
          \/ roles = [r \in Roles |-> IF r = Default THEN NoRow ELSE [status |-> "active", rules |-> set[r]]]
    BY DEF AuthInit
  <2>2. \A r \in Roles : [status |-> "active", rules |-> set[r]] \in Role
    BY <2>1 DEF Role
  <2> QED
    BY <1>0, <2>1, <2>2
<1>2. screen \in [Owners -> Screen] /\ \A o \in Owners : screen[o].pc = "closed" /\ screen[o].rev = 0
  <2>1. NoScreen \in Screen /\ NoScreen.pc = "closed" /\ NoScreen.rev = 0
    BY <1>0 DEF NoScreen, Screen
  <2> QED
    BY <2>1 DEF AuthInit
<1>3. AuthTypeOK
  <2>1. members \in SUBSET ({r \in Roles : roles[r] # NoRow} \X Staff)
    BY DEF AuthInit
  <2>2. members \subseteq Roles \X Staff
    BY <2>1
  <2> QED
    BY <1>1, <1>2, <2>2 DEF AuthInit, AuthTypeOK, Screen, Unassigned
<1>4. ScreensFollow
  BY <1>2 DEF AuthInit, ScreensFollow
<1>5. MembersHaveRoles
  <2>1. PICK set \in [Roles -> RuleSets] :
          \/ roles = [r \in Roles |-> [status |-> "active", rules |-> set[r]]]
          \/ roles = [r \in Roles |-> IF r = Default THEN NoRow ELSE [status |-> "active", rules |-> set[r]]]
    BY DEF AuthInit
  <2>2. \A r \in Roles : roles[r] = NoRow \/ roles[r].status = "active"
    BY <2>1
  <2>3. members \in SUBSET ({r \in Roles : roles[r] # NoRow} \X Staff)
    BY DEF AuthInit
  <2> QED
    BY <2>2, <2>3 DEF MembersHaveRoles
<1> QED
  BY <1>3, <1>4, <1>5 DEF AuthInv

\* An accepted change closes the screen it came from and outdates all the others.
LEMMA AcceptedOutdates ==
  ASSUME AuthInv, NEW o \in Owners, Accepted(o)
  PROVE  rev' \in 0..MaxRevisions /\ screen' \in [Owners -> Screen] /\ ScreensFollow'
<1> USE AuthorizationAssumption
<1>1. rev \in 0..MaxRevisions /\ rev < MaxRevisions /\ rev' = rev + 1 /\ screen \in [Owners -> Screen]
  BY DEF Accepted, AuthInv, AuthTypeOK, Screen
<1>2. NoScreen \in Screen /\ NoScreen.pc = "closed" /\ NoScreen.rev = 0
  BY DEF NoScreen, NoRow, Role, Screen
<1>3. screen' = [screen EXCEPT ![o] = NoScreen]
  BY DEF Accepted
<1>4. \A a \in Owners : screen'[a] = screen[a] \/ screen'[a] = NoScreen
  BY <1>1, <1>3
<1>5. ASSUME NEW a \in Owners PROVE screen'[a].rev <= rev /\ screen'[a].rev \in Nat
  BY <1>1, <1>2, <1>4, <1>5 DEF AuthInv, ScreensFollow, Screen
<1>6. ScreensFollow'
  BY <1>1, <1>5 DEF ScreensFollow
<1> QED
  BY <1>1, <1>2, <1>3, <1>6

\* A change that draws a revision without a screen outdates them all.
LEMMA RevisionOutdates ==
  ASSUME AuthInv, rev < MaxRevisions, rev' = rev + 1, UNCHANGED screen
  PROVE  rev' \in 0..MaxRevisions /\ ScreensFollow'
<1>1. rev \in 0..MaxRevisions /\ screen \in [Owners -> Screen] /\ MaxRevisions \in Nat
  BY AuthorizationAssumption DEF AuthInv, AuthTypeOK, Screen
<1>2. \A a \in Owners : screen[a].rev <= rev /\ screen[a].rev \in Nat
  BY <1>1 DEF AuthInv, ScreensFollow, Screen
<1> QED
  BY <1>1, <1>2 DEF ScreensFollow

\* Every change that screens show raises the revision, and nothing else touches it.
LEMMA AuthStays ==
  ASSUME AuthInv, [AuthNext]_authVars
  PROVE  AuthInv'
<1> USE AuthorizationAssumption
<1>0. AuthTypeOK /\ ScreensFollow /\ MembersHaveRoles /\ screen \in [Owners -> Screen] /\ rev \in 0..MaxRevisions
  BY DEF AuthInv, AuthTypeOK, Screen
<1>1. ASSUME NEW o \in Owners, OpenScreen(o) PROVE AuthInv'
  <2>1. /\ screen' \in [Owners -> Screen] /\ \A a \in Owners : a # o => screen'[a] = screen[a]
        /\ screen'[o].pc = "revision" /\ screen'[o].rev = rev /\ screen'[o].default = default
        /\ UNCHANGED <<rev, mode, default, roles, members, policy, delegated, assigned, group>>
    <3>1. rev \in 0..MaxRevisions /\ default \in Roles \cup {NoRole}
      BY <1>0 DEF AuthTypeOK
    <3>2. /\ screen' = [screen EXCEPT ![o].pc = "revision", ![o].rev = rev, ![o].default = default]
          /\ UNCHANGED <<rev, mode, default, roles, members, policy, delegated, assigned, group>>
      BY <1>1 DEF OpenScreen
    <3>3. screen[o] \in Screen
      BY <1>0, <1>1
    <3> DEFINE first == [screen[o] EXCEPT !.pc = "revision"]
               second == [first EXCEPT !.rev = rev]
               third == [second EXCEPT !.default = default]
    <3>4. first \in Screen /\ first.pc = "revision"
      BY <3>3 DEF Screen
    <3> HIDE DEF first
    <3>5. second \in Screen /\ second.pc = "revision" /\ second.rev = rev
      BY <3>1, <3>4 DEF Screen
    <3> HIDE DEF second
    <3>6. third \in Screen /\ third.pc = "revision" /\ third.rev = rev /\ third.default = default
      BY <3>1, <3>5 DEF Screen
    <3>7. screen' = [screen EXCEPT ![o] = third]
      BY <1>0, <1>1, <3>2, <3>3 DEF first, second, third
    <3> HIDE DEF third
    <3> QED
      BY <1>0, <1>1, <3>2, <3>6, <3>7
  <2>2. AuthTypeOK' /\ MembersHaveRoles'
    BY <1>0, <2>1 DEF AuthTypeOK, MembersHaveRoles, Screen, Role
  <2>3. ScreensFollow'
    BY <1>0, <2>1 DEF ScreensFollow
  <2> QED
    BY <2>2, <2>3 DEF AuthInv
<1>2. ASSUME NEW o \in Owners, ReadRoles(o) PROVE AuthInv'
  <2>1. /\ screen' \in [Owners -> Screen] /\ \A a \in Owners : a # o => screen'[a] = screen[a]
        /\ screen[o].pc = "revision" /\ screen'[o].pc = "roles" /\ screen'[o].rev = screen[o].rev
        /\ screen'[o].default = screen[o].default /\ screen'[o].roles = roles
        /\ UNCHANGED <<rev, mode, default, roles, members, policy, delegated, assigned, group>>
    <3>1. roles \in [Roles -> Role]
      BY <1>0 DEF AuthTypeOK
    <3>2. /\ screen' = [screen EXCEPT ![o].pc = "roles", ![o].roles = roles] /\ screen[o].pc = "revision"
          /\ UNCHANGED <<rev, mode, default, roles, members, policy, delegated, assigned, group>>
      BY <1>2 DEF ReadRoles
    <3> QED
      BY <1>0, <1>2, <3>1, <3>2 DEF Screen
  <2>2. AuthTypeOK' /\ MembersHaveRoles'
    BY <1>0, <2>1 DEF AuthTypeOK, MembersHaveRoles, Screen, Role
  <2>3. ScreensFollow'
    BY <1>0, <2>1 DEF ScreensFollow
  <2> QED
    BY <2>2, <2>3 DEF AuthInv
<1>3. ASSUME NEW o \in Owners, ReadMembers(o) PROVE AuthInv'
  <2>1. /\ screen' \in [Owners -> Screen] /\ \A a \in Owners : a # o => screen'[a] = screen[a]
        /\ screen[o].pc = "roles" /\ screen'[o].pc = "read" /\ screen'[o].rev = screen[o].rev
        /\ screen'[o].default = screen[o].default /\ screen'[o].roles = screen[o].roles
        /\ screen'[o].members = members
        /\ UNCHANGED <<rev, mode, default, roles, members, policy, delegated, assigned, group>>
    BY <1>0, <1>3 DEF ReadMembers, AuthTypeOK, Screen
  <2>2. AuthTypeOK' /\ MembersHaveRoles'
    BY <1>0, <2>1 DEF AuthTypeOK, MembersHaveRoles, Screen, Role
  <2>3. ScreensFollow'
    BY <1>0, <2>1 DEF ScreensFollow
  <2> QED
    BY <2>2, <2>3 DEF AuthInv
<1>4. ASSUME NEW o \in Owners, Refused(o) PROVE AuthInv'
  <2>1. NoScreen \in Screen /\ NoScreen.pc = "closed" /\ NoScreen.rev = 0
    BY DEF NoScreen, NoRow, Role, Screen
  <2>2. /\ screen' = [screen EXCEPT ![o] = NoScreen]
        /\ UNCHANGED <<rev, mode, default, roles, members, policy, delegated, assigned, group>>
    BY <1>4 DEF Refused
  <2>3. AuthTypeOK' /\ MembersHaveRoles'
    BY <1>0, <2>1, <2>2 DEF AuthTypeOK, MembersHaveRoles, Screen, Role
  <2>4. ScreensFollow'
    BY <1>0, <2>1, <2>2 DEF ScreensFollow
  <2> QED
    BY <2>3, <2>4 DEF AuthInv
<1>5. ASSUME NEW o \in Owners, Membership(o) PROVE AuthInv'
  <2>1. Accepted(o) /\ mode' = "application" /\ UNCHANGED <<members, policy, delegated, group>>
    BY <1>5 DEF Membership
  <2>2. rev' \in 0..MaxRevisions /\ screen' \in [Owners -> Screen] /\ ScreensFollow'
    BY <2>1, AcceptedOutdates
  <2>3. CASE UNCHANGED <<default, roles, assigned>>
    BY <1>0, <2>1, <2>2, <2>3 DEF AuthInv, AuthTypeOK, MembersHaveRoles, Screen, Role
  <2>4. CASE /\ default' = Default
             /\ roles' = [roles EXCEPT ![Default] = IF @.status = "none" THEN [@ EXCEPT !.status = "active"] ELSE @]
             /\ assigned' = [p \in Staff |-> IF \E r \in Roles : <<r, p>> \in members
                                             THEN CHOOSE r \in Roles : <<r, p>> \in members ELSE NoRole]
    <3>1. roles' \in [Roles -> Role] /\ \A r \in Roles : roles[r].status # "none" => roles'[r].status # "none"
      <4>1. roles \in [Roles -> Role]
        BY <1>0 DEF AuthTypeOK
      <4>2. CASE roles[Default].status = "none"
        <5>1. roles' = [roles EXCEPT ![Default] = [roles[Default] EXCEPT !.status = "active"]]
          BY <2>4, <4>2
        <5>2. /\ [roles[Default] EXCEPT !.status = "active"] \in Role
              /\ [roles[Default] EXCEPT !.status = "active"].status = "active"
          BY <4>1 DEF Role
        <5> QED
          BY <4>1, <5>1, <5>2
      <4>3. CASE roles[Default].status # "none"
        <5>1. roles' = [roles EXCEPT ![Default] = roles[Default]]
          BY <2>4, <4>3
        <5> QED
          BY <4>1, <5>1
      <4> QED
        BY <4>2, <4>3
    <3>2. assigned' \in [Staff -> Roles \cup {NoRole}]
      BY <2>4
    <3>3. AuthTypeOK'
      BY <1>0, <2>1, <2>2, <2>4, <3>1, <3>2 DEF AuthTypeOK, Screen
    <3>4. MembersHaveRoles'
      BY <1>0, <2>1, <3>1 DEF MembersHaveRoles
    <3> QED
      BY <2>2, <3>3, <3>4 DEF AuthInv
  <2> QED
    BY <1>5, <2>3, <2>4 DEF Membership
<1>6. ASSUME NEW o \in Owners, NEW r \in Roles, NEW p \in Staff, Assign(o, r, p) PROVE AuthInv'
  <2>1. Accepted(o) /\ UNCHANGED <<mode, default, roles, members, policy, delegated, group>>
        /\ assigned' = [assigned EXCEPT ![p] = r]
    BY <1>6 DEF Assign
  <2>2. rev' \in 0..MaxRevisions /\ screen' \in [Owners -> Screen] /\ ScreensFollow'
    BY <2>1, AcceptedOutdates
  <2> QED
    BY <1>0, <2>1, <2>2 DEF AuthInv, AuthTypeOK, MembersHaveRoles, Screen
<1>7. ASSUME NEW o \in Owners, NEW r \in Roles, NEW status \in {"active", "inactive"}, NEW rules \in RuleSets,
             EditRole(o, r, status, rules)
      PROVE  AuthInv'
  <2>1. Accepted(o) /\ UNCHANGED <<mode, default, members, policy, delegated, assigned, group>>
        /\ roles' = [roles EXCEPT ![r] = [status |-> status, rules |-> rules]]
    BY <1>7 DEF EditRole
  <2>2. rev' \in 0..MaxRevisions /\ screen' \in [Owners -> Screen] /\ ScreensFollow'
    BY <2>1, AcceptedOutdates
  <2>3. [status |-> status, rules |-> rules] \in Role
    BY <1>7 DEF Role
  <2>4. AuthTypeOK'
    BY <1>0, <2>1, <2>2, <2>3 DEF AuthTypeOK, Screen
  <2>5. MembersHaveRoles'
    BY <1>0, <1>7, <2>1 DEF AuthTypeOK, MembersHaveRoles
  <2> QED
    BY <2>2, <2>4, <2>5 DEF AuthInv
<1>8. ASSUME NEW o \in Owners, NEW r \in Roles, NEW p \in Staff, NEW enabled \in BOOLEAN, Member(o, r, p, enabled)
      PROVE  AuthInv'
  <2>1. Accepted(o) /\ UNCHANGED <<mode, default, roles, policy, delegated, assigned, group>>
        /\ roles[r].status # "none" /\ members' \in {members \cup {<<r, p>>}, members \ {<<r, p>>}}
    BY <1>8 DEF Member
  <2>2. rev' \in 0..MaxRevisions /\ screen' \in [Owners -> Screen] /\ ScreensFollow'
    BY <2>1, AcceptedOutdates
  <2>3. AuthTypeOK'
    BY <1>0, <1>8, <2>1, <2>2 DEF AuthTypeOK, Screen
  <2>4. MembersHaveRoles'
    BY <1>0, <1>8, <2>1 DEF MembersHaveRoles
  <2> QED
    BY <2>2, <2>3, <2>4 DEF AuthInv
<1>9. ASSUME NEW o \in Owners, NEW r \in Roles, NEW permission \in Permissions \cup {NoPermission},
             SetPolicy(o, r, permission)
      PROVE  AuthInv'
  <2>1. Accepted(o) /\ UNCHANGED <<mode, default, roles, members, delegated, assigned, group>>
        /\ policy' = [policy EXCEPT ![r] = permission]
    BY <1>9 DEF SetPolicy
  <2>2. rev' \in 0..MaxRevisions /\ screen' \in [Owners -> Screen] /\ ScreensFollow'
    BY <2>1, AcceptedOutdates
  <2> QED
    BY <1>0, <1>9, <2>1, <2>2 DEF AuthInv, AuthTypeOK, MembersHaveRoles, Screen
<1>10. ASSUME NEW actor \in Staff, NEW p \in Staff, NEW r \in Roles, NEW enabled \in BOOLEAN,
              Delegate(actor, r, p, enabled)
       PROVE  AuthInv'
  <2>1. /\ rev < MaxRevisions /\ rev' = rev + 1
        /\ UNCHANGED <<mode, default, roles, members, policy, assigned, group, screen>>
        /\ delegated' \in {delegated \cup {<<r, p, group[actor]>>}, delegated \ {<<r, p, group[actor]>>}}
    BY <1>10 DEF Delegate
  <2>2. rev' \in 0..MaxRevisions /\ ScreensFollow'
    BY <2>1, RevisionOutdates
  <2>3. delegated' \subseteq Roles \X Staff \X Groups
    <3>1. <<r, p, group[actor]>> \in Roles \X Staff \X Groups
      BY <1>0, <1>10 DEF AuthTypeOK
    <3> QED
      BY <1>0, <2>1, <3>1 DEF AuthTypeOK
  <2> QED
    BY <1>0, <2>1, <2>2, <2>3 DEF AuthInv, AuthTypeOK, MembersHaveRoles, Screen
<1>11. CASE SetOwner
  <2>1. rev' \in 0..MaxRevisions /\ ScreensFollow'
    BY <1>11, RevisionOutdates DEF SetOwner
  <2> QED
    BY <1>0, <1>11, <2>1 DEF SetOwner, AuthInv, AuthTypeOK, MembersHaveRoles
<1>12. ASSUME NEW p \in Staff, NEW g \in Groups, MoveTo(p, g) PROVE AuthInv'
  BY <1>0, <1>12 DEF MoveTo, AuthInv, AuthTypeOK, MembersHaveRoles, ScreensFollow
<1>13. ASSUME NEW o \in Owners, Activate(o) PROVE AuthInv'
  <2>1. Accepted(o) /\ mode' = "application" /\ UNCHANGED <<default, roles, members, policy, delegated, assigned, group>>
    BY <1>13 DEF Activate
  <2>2. rev' \in 0..MaxRevisions /\ screen' \in [Owners -> Screen] /\ ScreensFollow'
    BY <2>1, AcceptedOutdates
  <2> QED
    BY <1>0, <2>1, <2>2 DEF AuthInv, AuthTypeOK, MembersHaveRoles, Screen
<1>14. CASE UNCHANGED authVars
  BY <1>14 DEF authVars, AuthInv, AuthTypeOK, MembersHaveRoles, ScreensFollow
<1> QED
  BY <1>1, <1>2, <1>3, <1>4, <1>5, <1>6, <1>7, <1>8, <1>9, <1>10, <1>11, <1>12, <1>13, <1>14 DEF AuthNext

\* For any owners, roles and staff: a screen whose revision would be accepted shows the roles
\* and members as they are, although it was read in pieces (business-authorization/
\* service.ts:30, 58, 109).
THEOREM ScreensAreNotBlind == AuthSpec => []NoBlindEdit
<1>1. AuthInv => NoBlindEdit
  BY DEF AuthInv, ScreensFollow, NoBlindEdit
<1>2. AuthInv /\ [AuthNext]_authVars => AuthInv'
  BY AuthStays
<1> QED
  BY <1>1, <1>2, AuthStarts, PTL DEF AuthSpec

\* What a set with one member at most contains.
LEMMA AtMostOne ==
  ASSUME NEW S, IsFiniteSet(S), Cardinality(S) <= 1, NEW x \in S, NEW y \in S
  PROVE  x = y
<1> SUFFICES ASSUME x # y PROVE FALSE
  OBVIOUS
<1>1. IsFiniteSet(S \ {x}) /\ Cardinality(S \ {x}) = Cardinality(S) - 1 /\ Cardinality(S) \in Nat
  BY FS_RemoveElement, FS_CardinalityType
<1>2. Cardinality(S \ {x}) \in Nat
  BY <1>1, FS_CardinalityType
<1>3. Cardinality(S \ {x}) = 0
  BY <1>1, <1>2
<1>4. S \ {x} = {}
  BY <1>1, <1>3, FS_EmptySet
<1> QED
  BY <1>4

\* The step that introduces the membership: who had a role has this one, and no other.
LEMMA IntroductionKeeps ==
  ASSUME AuthInv, NEW o \in Owners, Membership(o), default = NoRole, default' # NoRole, NEW p \in Staff
  PROVE  /\ Grants(p) \subseteq Grants(p)'
         /\ (\E r \in Roles : <<r, p>> \in members) => Grants(p)' = Grants(p)
<1> USE AuthorizationAssumption
<1>1. /\ Introducible /\ default' = Default /\ default' # NoRole
      /\ roles' = [roles EXCEPT ![Default] = IF @.status = "none" THEN [@ EXCEPT !.status = "active"] ELSE @]
      /\ assigned' = [q \in Staff |-> IF \E r \in Roles : <<r, q>> \in members
                                      THEN CHOOSE r \in Roles : <<r, q>> \in members ELSE NoRole]
  BY DEF Membership
<1>2. RolesOf(p) = {r \in Roles : Active(r) /\ <<r, p>> \in members}
  BY <1>1 DEF RolesOf, Introducible
<1>3. CASE ~\E r \in Roles : <<r, p>> \in members
  <2>1. RolesOf(p) = {}
    BY <1>2, <1>3
  <2> QED
    BY <1>3, <2>1 DEF Grants
<1>4. ASSUME NEW role \in Roles, <<role, p>> \in members
      PROVE  Grants(p)' = Grants(p)
  <2> DEFINE S == {r \in Roles : <<r, p>> \in members} \cup {r \in Roles : \E g \in Groups : <<r, p, g>> \in delegated}
  <2>1. \A r \in Roles : <<r, p>> \in members => r = role
    <3>1. IsFiniteSet(S) /\ Cardinality(S) <= 1
      <4>1. S \subseteq Roles
        OBVIOUS
      <4>2. Cardinality(S) <= 1
        BY <1>1 DEF Introducible
      <4> QED
        BY <4>1, <4>2, FS_Subset
    <3>2. role \in S
      BY <1>4
    <3> QED
      BY <3>1, <3>2, AtMostOne
  <2>2. assigned'[p] = role
    BY <1>1, <1>4, <2>1
  <2>3. roles[role].status # "none"
    BY <1>4 DEF AuthInv, MembersHaveRoles
  <2>4. roles'[role] = roles[role]
    BY <1>1, <2>3 DEF AuthInv, AuthTypeOK
  <2>5. role # NoRole
    OBVIOUS
  <2>6. RolesOf(p)' = {r \in Roles : roles'[r].status = "active" /\ r = role}
    BY <1>1, <2>2, <2>5 DEF RolesOf, Active
  <2>7. RolesOf(p) = {r \in Roles : roles[r].status = "active" /\ r = role}
    BY <1>2, <1>4, <2>1 DEF Active
  <2>8. RolesOf(p)' = RolesOf(p) /\ \A r \in RolesOf(p) : roles'[r] = roles[r]
    BY <2>4, <2>6, <2>7
  <2> QED
    BY <2>8 DEF Grants
<1> QED
  BY <1>3, <1>4

\* For any roles and delegations that precede it: introducing the membership takes nothing
\* from anybody and gives nothing to a member (service.ts:64-74, 178-180).
THEOREM IntroductionTakesNothing == AuthSpec => IntroductionKeepsRoles
<1> DEFINE Keeps == default = NoRole /\ default' # NoRole =>
                      \A p \in Staff : /\ Grants(p) \subseteq Grants(p)'
                                       /\ (\E r \in Roles : <<r, p>> \in members) => Grants(p)' = Grants(p)
<1>1. ASSUME AuthInv, [AuthNext]_authVars PROVE Keeps
  <2>1. SUFFICES ASSUME default = NoRole, default' # NoRole, NEW p \in Staff
                 PROVE  /\ Grants(p) \subseteq Grants(p)'
                        /\ (\E r \in Roles : <<r, p>> \in members) => Grants(p)' = Grants(p)
    OBVIOUS
  <2>2. PICK o \in Owners : Membership(o)
    BY <1>1, <2>1 DEF AuthNext, authVars, OpenScreen, ReadRoles, ReadMembers, Refused, Activate, Assign, EditRole, Member,
       SetPolicy, Delegate, SetOwner, MoveTo
  <2> QED
    BY <1>1, <2>1, <2>2, IntroductionKeeps
<1>2. AuthInv /\ [AuthNext]_authVars => AuthInv'
  BY AuthStays
<1> HIDE DEF Keeps
<1>3. AuthInv /\ [AuthNext]_authVars => [Keeps]_authVars
  BY <1>1
<1>4. AuthSpec => [][Keeps]_authVars
  BY <1>2, <1>3, AuthStarts, PTL DEF AuthSpec
<1> QED
  BY <1>4 DEF Keeps, IntroductionKeepsRoles
-----------------------------------------------------------------------------
(*****************************************************************************)
(* Signatures.  Whatever a transaction has read before its lock can only be  *)
(* out of date in harmless ways: a request that was found stays, a signer    *)
(* that was found stays, and an image stored for one command belongs to      *)
(* nobody else.                                                              *)
(*****************************************************************************)
Signing(c) == call[c].op \in {"sign", "submit"}

\* The statuses follow from the rows ...
StatusOK ==
  /\ session = request
  /\ request = "none" => \A p \in People : signer[p] = "absent"
  /\ request = "completed" => Ready(signer)
  /\ request = "dispatched" => ~Ready(signer)

\* ... the rows from the evidence ...
RowsOK == \A p \in People :
  /\ signer[p] = "signed" => evidence[p] # NoImage
  /\ signer[p] \in {"absent", "pending"} => evidence[p] = NoImage

\* ... every image has one use ...
ImagesOK ==
  /\ \A p \in People : evidence[p] # NoImage =>
       evidence[p] \in stored /\ \A q \in People \ {p} : evidence[q] # evidence[p]
  /\ \A c \in Clients : Signing(c) /\ call[c].image # NoImage =>
       /\ call[c].image \in stored
       /\ \A p \in People : evidence[p] # call[c].image
       /\ \A d \in Clients \ {c} : Signing(d) => call[d].image # call[c].image

\* ... and what was found before the lock is still there.
FoundOK == \A c \in Clients :
  /\ call[c].op = "associate" => call[c].present # {} /\ (call[c].found => request # "none")
  /\ call[c].op \in {"sign", "submit", "revoke"} => signer[call[c].who] # "absent"

SigInv == SigTypeOK /\ StatusOK /\ RowsOK /\ ImagesOK /\ FoundOK
-----------------------------------------------------------------------------
\* What a transaction carries, by its command.
LEMMA Carried ==
  ASSUME SigTypeOK, NEW c \in Clients
  PROVE  /\ call[c].op = "associate" => call[c].present \in SUBSET People /\ call[c].found \in BOOLEAN
         /\ Signing(c) => call[c].who \in People /\ call[c].image \in Images \cup {NoImage}
         /\ call[c].op = "revoke" => call[c].who \in People
         /\ call[c] = Idle <=> call[c].op = "idle"
BY DEF SigTypeOK, Calls, Idle, Signing

\* A transaction that ends leaves the others as they are.
LEMMA Ended ==
  ASSUME SigTypeOK, NEW c \in Clients, End(c)
  PROVE  /\ call' \in [Clients -> Calls] /\ call'[c].op = "idle"
         /\ \A d \in Clients \ {c} : call'[d] = call[d]
BY DEF SigTypeOK, End, Calls, Idle

\* A transaction that ends cannot spoil what was found, as long as requests and signers
\* stay, nor the use of images that nobody else takes.
LEMMA EndKeepsFound ==
  ASSUME SigInv, NEW c \in Clients, End(c),
         request # "none" => request' # "none",
         \A p \in People : signer[p] # "absent" => signer'[p] # "absent"
  PROVE  FoundOK'
<1>1. ASSUME NEW d \in Clients
      PROVE  /\ (call'[d].op = "associate" => call'[d].present # {} /\ (call'[d].found => request' # "none"))
             /\ (call'[d].op \in {"sign", "submit", "revoke"} => signer'[call'[d].who] # "absent")
  <2>1. CASE d = c
    BY <2>1, Ended DEF SigInv
  <2>2. CASE d # c
    BY <2>2, Ended, Carried DEF SigInv, FoundOK, Signing
  <2>3. QED
    BY <2>1, <2>2
<1>2. QED
  BY <1>1 DEF FoundOK

LEMMA EndKeepsImages ==
  ASSUME SigInv, NEW c \in Clients, End(c), UNCHANGED <<evidence, stored>>
  PROVE  ImagesOK'
BY Ended DEF SigInv, ImagesOK, Signing

\* What completeWhenReady() leaves is what the rows say.
LEMMA CompletedWhenReady ==
  ASSUME request = "dispatched", session = request, CompleteWhenReady(signer')
  PROVE  StatusOK'
BY DEF CompleteWhenReady, StatusOK, Ready

LEMMA CompletedTypes ==
  ASSUME SigTypeOK, NEW rows, CompleteWhenReady(rows)
  PROVE  request' \in Statuses /\ session' \in Statuses /\ (request # "none" => request' # "none")
BY DEF SigTypeOK, CompleteWhenReady, Statuses
-----------------------------------------------------------------------------
LEMMA CreateKeeps ==
  ASSUME SigInv, NEW present \in SUBSET People, NEW limited \in BOOLEAN, Create(present, limited)
  PROVE  /\ request' \in Statuses /\ session' \in Statuses /\ expiry' \in {"never", "open", "passed"}
         /\ signer' \in [People -> {"absent", "pending", "signed", "revoked"}]
         /\ StatusOK' /\ RowsOK' /\ request' # "none"
         /\ \A p \in People : signer[p] = "absent"
<1>1. \A p \in People : evidence[p] = NoImage /\ signer[p] = "absent"
  BY DEF SigInv, StatusOK, RowsOK, Create
<1>2. ~Ready(signer')
  BY DEF Create, Ready
<1>3. QED
  BY <1>1, <1>2 DEF Create, Statuses, StatusOK, RowsOK

LEMMA CreateRequestKeeps ==
  ASSUME SigInv, NEW present \in SUBSET People, NEW limited \in BOOLEAN, CreateRequest(present, limited)
  PROVE  SigInv'
<1>1. Create(present, limited) /\ UNCHANGED <<stored, call, evidence>>
  BY DEF CreateRequest, Create
<1>2. SigTypeOK'
  BY <1>1, CreateKeeps DEF SigInv, SigTypeOK
<1>3. StatusOK' /\ RowsOK'
  BY <1>1, CreateKeeps
<1>4. ImagesOK'
  BY <1>1 DEF SigInv, ImagesOK, Signing
<1>5. FoundOK'
  BY <1>1, CreateKeeps, Carried DEF SigInv, FoundOK, Signing
<1>6. QED
  BY <1>2, <1>3, <1>4, <1>5 DEF SigInv

\* A transaction begins with what it has found, and without an image.
LEMMA BeginKeeps ==
  ASSUME SigInv, NEW c \in Clients, NEW what \in Calls, Begin(c, what),
         UNCHANGED <<request, session, expiry, signer, evidence, stored>>,
         what.op \in {"sign", "submit"} => what.image = NoImage,
         what.op = "associate" => what.present # {} /\ (what.found => request # "none"),
         what.op \in {"sign", "submit", "revoke"} => signer[what.who] # "absent"
  PROVE  SigInv'
<1>1. call' \in [Clients -> Calls] /\ call'[c] = what /\ \A d \in Clients \ {c} : call'[d] = call[d]
  BY DEF Begin, SigInv, SigTypeOK
<1>2. SigTypeOK' /\ StatusOK' /\ RowsOK'
  BY <1>1 DEF SigInv, SigTypeOK, StatusOK, RowsOK, Ready
<1>3. ImagesOK'
  BY <1>1 DEF SigInv, ImagesOK, Signing
<1>4. FoundOK'
  BY <1>1 DEF SigInv, FoundOK
<1>5. QED
  BY <1>2, <1>3, <1>4 DEF SigInv

LEMMA LocateRequestKeeps ==
  ASSUME SigInv, NEW c \in Clients, NEW present \in SUBSET People, LocateRequest(c, present)
  PROVE  SigInv'
<1> DEFINE what == [op |-> "associate", present |-> present, found |-> request # "none"]
<1>1. what \in Calls /\ what.op = "associate" /\ what.present = present /\ (what.found <=> request # "none")
  BY DEF Calls
<1>2. /\ Begin(c, what) /\ present # {}
      /\ UNCHANGED <<request, session, expiry, signer, evidence, stored>>
  BY DEF LocateRequest
<1> HIDE DEF what
<1>3. QED
  BY <1>1, <1>2, BeginKeeps

LEMMA LocateSignerKeeps ==
  ASSUME SigInv, NEW c \in Clients, NEW p \in People, LocateSigner(c, p)
  PROVE  SigInv'
<1>1. signer[p] \in {"pending", "signed", "revoked"}
  BY DEF LocateSigner, SigInv, SigTypeOK
<1>2. UNCHANGED <<request, session, expiry, signer, evidence, stored>>
  BY DEF LocateSigner
<1>3. ASSUME NEW op \in {"sign", "submit"},
             Begin(c, [op |-> op, who |-> p, was |-> signer[p], image |-> NoImage])
      PROVE  SigInv'
  <2> DEFINE what == [op |-> op, who |-> p, was |-> signer[p], image |-> NoImage]
  <2>1. what \in Calls /\ what.op \in {"sign", "submit"} /\ what.who = p /\ what.image = NoImage
    BY <1>1 DEF Calls
  <2>2. Begin(c, what)
    BY <1>3
  <2> HIDE DEF what
  <2>3. QED
    BY <1>1, <1>2, <2>1, <2>2, BeginKeeps
<1>4. ASSUME Begin(c, [op |-> "revoke", who |-> p, was |-> signer[p]])
      PROVE  SigInv'
  <2> DEFINE what == [op |-> "revoke", who |-> p, was |-> signer[p]]
  <2>1. what \in Calls /\ what.op = "revoke" /\ what.who = p
    BY <1>1 DEF Calls
  <2>2. Begin(c, what)
    BY <1>4
  <2> HIDE DEF what
  <2>3. QED
    BY <1>1, <1>2, <2>1, <2>2, BeginKeeps
<1>5. QED
  BY <1>3, <1>4 DEF LocateSigner

\* A stored image is new, so it belongs to this command alone.
LEMMA StoreKeeps ==
  ASSUME SigInv, NEW c \in Clients, NEW image \in Images, Store(c, image)
  PROVE  SigInv'
<1>1. Signing(c) /\ call[c].image = NoImage /\ image \notin stored /\ stored' = stored \cup {image}
      /\ call' = [call EXCEPT ![c].image = image]
      /\ UNCHANGED <<request, session, expiry, signer, evidence>>
  BY DEF Store, Signing
<1>2. call[c] \in [op : {"sign", "submit"}, who : People, was : {"pending", "signed", "revoked"},
                   image : Images \cup {NoImage}]
  BY <1>1 DEF SigInv, SigTypeOK, Calls, Idle, Signing
<1>3. /\ call'[c] \in Calls /\ call'[c].op = call[c].op /\ call'[c].who = call[c].who
      /\ call'[c].image = image
  BY <1>1, <1>2 DEF SigInv, SigTypeOK, Calls
<1>4. /\ call' \in [Clients -> Calls]
      /\ \A d \in Clients \ {c} : call'[d] = call[d]
  BY <1>1, <1>3 DEF SigInv, SigTypeOK
<1>5. SigTypeOK' /\ StatusOK' /\ RowsOK'
  BY <1>1, <1>4 DEF SigInv, SigTypeOK, StatusOK, RowsOK, Ready
<1>6. image # NoImage
  BY SignaturesAssumption
<1>7. ImagesOK'
  BY <1>1, <1>3, <1>4, <1>6 DEF SigInv, ImagesOK, Signing
<1>8. FoundOK'
  BY <1>1, <1>3, <1>4 DEF SigInv, FoundOK, Signing
<1>9. QED
  BY <1>5, <1>7, <1>8 DEF SigInv
-----------------------------------------------------------------------------
\* The list is replaced: who comes back with evidence has signed.
LEMMA AssociateKeeps ==
  ASSUME SigInv, NEW c \in Clients, Associate(c)
  PROVE  SigInv'
<1>1. End(c) /\ call[c].op = "associate" /\ stored' = stored /\ evidence' = evidence
  BY DEF Associate, Create
<1>2. call[c].present \in SUBSET People /\ call[c].present # {} /\ call' \in [Clients -> Calls]
  BY <1>1, Carried, Ended DEF SigInv, FoundOK
<1>3. ImagesOK'
  BY <1>1, EndKeepsImages
<1>4. CASE Create(call[c].present, FALSE)
  <2>1. SigTypeOK'
    BY <1>1, <1>2, <1>4, CreateKeeps DEF SigInv, SigTypeOK
  <2>2. FoundOK'
    BY <1>1, <1>2, <1>4, CreateKeeps, EndKeepsFound
  <2>3. QED
    BY <1>2, <1>3, <1>4, <2>1, <2>2, CreateKeeps DEF SigInv
<1>5. CASE UNCHANGED <<request, session, expiry, signer, evidence>>
  <2>1. SigTypeOK' /\ StatusOK' /\ RowsOK'
    BY <1>1, <1>2, <1>5 DEF SigInv, SigTypeOK, StatusOK, RowsOK, Ready
  <2>2. FoundOK'
    BY <1>1, <1>5, EndKeepsFound
  <2>3. QED
    BY <1>3, <2>1, <2>2 DEF SigInv
<1>6. CASE /\ call[c].found /\ request # "cancelled"
           /\ signer' = [p \in People |-> Reseated(p, call[c].present)]
           /\ request' = IF Ready(signer') THEN "completed" ELSE "dispatched"
           /\ session' = request' /\ expiry' = "never"
  <2>1. \A p \in People : /\ Reseated(p, call[c].present) \in {"absent", "pending", "signed", "revoked"}
                          /\ signer[p] # "absent" => Reseated(p, call[c].present) # "absent"
    BY DEF Reseated, SigInv, SigTypeOK
  <2>2. SigTypeOK'
    BY <1>1, <1>2, <1>6, <2>1 DEF SigInv, SigTypeOK, Statuses
  <2>3. StatusOK'
    BY <1>6 DEF StatusOK
  <2>4. RowsOK'
    BY <1>1, <1>6, <2>1 DEF SigInv, RowsOK, Reseated, SigTypeOK
  <2>5. FoundOK'
    BY <1>1, <1>6, <2>1, EndKeepsFound
  <2>6. QED
    BY <1>3, <2>2, <2>3, <2>4, <2>5 DEF SigInv
<1>7. QED
  BY <1>4, <1>5, <1>6 DEF Associate

\* The image of the command moves into the signer's row.
LEMMA SignKeeps ==
  ASSUME SigInv, NEW c \in Clients, Sign(c)
  PROVE  SigInv'
<1> DEFINE p == call[c].who
           image == call[c].image
<1>1. Signing(c) /\ image # NoImage /\ End(c) /\ UNCHANGED <<expiry, stored>>
  BY DEF Sign, Signing
<1>2. p \in People /\ image \in Images /\ signer[p] # "absent" /\ call' \in [Clients -> Calls]
  BY <1>1, Carried, Ended DEF SigInv, FoundOK, Signing
<1>3. evidence' = [evidence EXCEPT ![p] = image] /\ (Submit(c) \/ Replace(c))
  BY DEF Sign, Submit, Replace
<1>4. evidence' \in [People -> Images \cup {NoImage}]
  BY <1>2, <1>3 DEF SigInv, SigTypeOK
<1>5. ImagesOK'
  <2>1. ASSUME NEW q \in People, evidence'[q] # NoImage
        PROVE  evidence'[q] \in stored' /\ \A r \in People \ {q} : evidence'[r] # evidence'[q]
    BY <1>1, <1>2, <1>3, <2>1 DEF SigInv, ImagesOK, SigTypeOK
  <2>2. ASSUME NEW d \in Clients, Signing(d)', call'[d].image # NoImage
        PROVE  /\ call'[d].image \in stored'
               /\ \A q \in People : evidence'[q] # call'[d].image
               /\ \A e \in Clients \ {d} : Signing(e)' => call'[e].image # call'[d].image
    <3>1. d # c /\ call'[d] = call[d] /\ ~Signing(c)'
      BY <1>1, <2>2, Ended DEF SigInv, Signing
    <3>2. Signing(d) /\ call[d].image # NoImage /\ call[d].image # image
      BY <1>1, <2>2, <3>1 DEF SigInv, ImagesOK, Signing
    <3>3. \A q \in People : evidence'[q] # call[d].image
      BY <1>2, <1>3, <3>2 DEF SigInv, ImagesOK, SigTypeOK
    <3>4. \A e \in Clients \ {d} : Signing(e)' => call'[e].image # call[d].image
      BY <1>1, <3>1, <3>2, Ended DEF SigInv, ImagesOK, Signing
    <3>5. call[d].image \in stored'
      BY <1>1, <3>2 DEF SigInv, ImagesOK
    <3>6. QED
      BY <3>1, <3>3, <3>4, <3>5
  <2>3. QED
    BY <2>1, <2>2 DEF ImagesOK
<1>6. CASE Submit(c)
  <2>1. /\ request = "dispatched" /\ session = request /\ CompleteWhenReady(signer')
        /\ signer' = [signer EXCEPT ![p] = "signed"]
    BY <1>6 DEF Submit, Open
  <2>2. SigTypeOK'
    BY <1>1, <1>2, <1>4, <2>1, CompletedTypes DEF SigInv, SigTypeOK
  <2>3. StatusOK'
    BY <2>1, CompletedWhenReady
  <2>4. RowsOK'
    BY <1>1, <1>2, <1>3, <2>1 DEF SigInv, RowsOK, SigTypeOK
  <2>5. FoundOK'
    BY <1>1, <1>2, <2>1, CompletedTypes, EndKeepsFound DEF SigInv, SigTypeOK
  <2>6. QED
    BY <1>5, <2>2, <2>3, <2>4, <2>5 DEF SigInv
<1>7. CASE Replace(c)
  <2>1. UNCHANGED <<request, session, signer>> /\ signer[p] = "signed"
    BY <1>7 DEF Replace
  <2>2. SigTypeOK' /\ StatusOK'
    BY <1>1, <1>2, <1>4, <2>1 DEF SigInv, SigTypeOK, StatusOK, Ready
  <2>3. RowsOK'
    BY <1>1, <1>2, <1>3, <2>1 DEF SigInv, RowsOK, SigTypeOK
  <2>4. FoundOK'
    BY <1>1, <2>1, EndKeepsFound
  <2>5. QED
    BY <1>5, <2>2, <2>3, <2>4 DEF SigInv
<1>8. QED
  BY <1>3, <1>6, <1>7

LEMMA RevokeKeeps ==
  ASSUME SigInv, NEW c \in Clients, Revoke(c)
  PROVE  SigInv'
<1> DEFINE p == call[c].who
<1>1. /\ End(c) /\ call[c].op = "revoke" /\ UNCHANGED <<expiry, evidence, stored>>
      /\ request = "dispatched" /\ session = request
      /\ signer' = [signer EXCEPT ![p] = "revoked"]
      /\ (UNCHANGED <<request, session, signer>> \/ CompleteWhenReady(signer'))
  BY DEF Revoke, Open
<1>2. p \in People /\ signer[p] # "absent" /\ call' \in [Clients -> Calls]
  BY <1>1, Carried, Ended DEF SigInv, FoundOK
<1>3. StatusOK'
  BY <1>1, CompletedWhenReady DEF SigInv, StatusOK, Ready
<1>4. SigTypeOK' /\ request' # "none"
  BY <1>1, <1>2, CompletedTypes DEF SigInv, SigTypeOK
<1>5. RowsOK'
  BY <1>1, <1>2 DEF SigInv, RowsOK, SigTypeOK
<1>6. ImagesOK'
  BY <1>1, EndKeepsImages
<1>7. FoundOK'
  BY <1>1, <1>2, <1>4, EndKeepsFound DEF SigInv, SigTypeOK
<1>8. QED
  BY <1>3, <1>4, <1>5, <1>6, <1>7 DEF SigInv

\* Commands without an earlier read, and the passing of time.
LEMMA OthersKeep ==
  ASSUME SigInv, Finalize \/ Cancel \/ Expire \/ UNCHANGED sigVars
  PROVE  SigInv'
<1>1. /\ UNCHANGED <<signer, evidence, stored, call>>
      /\ request' \in Statuses /\ session' = request' /\ (request # "none" => request' # "none")
      /\ expiry' \in {"never", "open", "passed"}
      /\ request' \in {request, "cancelled"}
  BY DEF Finalize, Cancel, Expire, sigVars, SigInv, SigTypeOK, StatusOK, Statuses, Open
<1>2. SigTypeOK' /\ StatusOK' /\ RowsOK'
  BY <1>1 DEF SigInv, SigTypeOK, StatusOK, RowsOK, Ready
<1>3. ImagesOK' /\ FoundOK'
  BY <1>1 DEF SigInv, ImagesOK, FoundOK, Signing
<1>4. QED
  BY <1>2, <1>3 DEF SigInv

LEMMA AbandonKeeps ==
  ASSUME SigInv, NEW c \in Clients, Abandon(c)
  PROVE  SigInv'
<1>1. End(c) /\ UNCHANGED <<request, session, expiry, signer, evidence, stored>>
  BY DEF Abandon
<1>2. SigTypeOK' /\ StatusOK' /\ RowsOK'
  BY <1>1, Ended DEF SigInv, SigTypeOK, StatusOK, RowsOK, Ready
<1>3. QED
  BY <1>1, <1>2, EndKeepsImages, EndKeepsFound DEF SigInv

LEMMA SigStays == SigInv /\ [SigNext]_sigVars => SigInv'
BY CreateRequestKeeps, LocateRequestKeeps, LocateSignerKeeps, StoreKeeps, AssociateKeeps, SignKeeps,
   RevokeKeeps, AbandonKeeps, OthersKeep DEF SigNext

LEMMA SigStarts == SigInit => SigInv
BY DEF SigInit, SigInv, SigTypeOK, Statuses, Calls, StatusOK, RowsOK, ImagesOK, FoundOK, Signing, Idle

\* Statuses, rows, images and the reads before a lock belong together in every reachable
\* state, for any number of signers and transactions (signatures/index.ts:111-130, 174-194).
THEOREM SignatureInvariance == SigSpec => []SigInv
BY SigStarts, SigStays, PTL DEF SigSpec
-----------------------------------------------------------------------------
\* The rows keep their types (signatures/index.ts:100-130).
THEOREM SignatureTypes == SigSpec => []SigTypeOK
<1>1. SigInv => SigTypeOK
  BY DEF SigInv
<1>2. QED
  BY <1>1, SignatureInvariance, PTL

\* Whoever counts as signed has stored evidence of his own (signatures/index.ts:174-186).
THEOREM EvidenceIsKept == SigSpec => []SignedHasEvidence
<1>1. SigInv => SignedHasEvidence
  BY DEF SigInv, SignedHasEvidence, RowsOK, ImagesOK
<1>2. QED
  BY <1>1, SignatureInvariance, PTL

\* A cancelled request is never changed (signatures/index.ts:194, 581-584).
THEOREM CancelledStays == SigSpec => CancelledIsFinal
<1>1. SigInv /\ [SigNext]_sigVars =>
        [request = "cancelled" => UNCHANGED <<request, session, signer, evidence>>]_sigVars
  <2> SUFFICES ASSUME SigInv, SigNext, request = "cancelled"
               PROVE  UNCHANGED <<request, session, signer, evidence>>
    OBVIOUS
  <2>1. ASSUME NEW c \in Clients, Associate(c) PROVE UNCHANGED <<request, session, signer, evidence>>
    BY <2>1 DEF Associate, Create
  <2>2. ASSUME NEW c \in Clients, Sign(c) PROVE FALSE
    BY <2>2 DEF Sign, Submit, Replace, Open
  <2>3. ASSUME NEW c \in Clients, Revoke(c) PROVE FALSE
    BY <2>3 DEF Revoke, Open
  <2>4. ASSUME NEW present, NEW limited, CreateRequest(present, limited) PROVE FALSE
    BY <2>4 DEF CreateRequest, Create
  <2>5. ASSUME NEW c \in Clients, NEW q,
               LocateRequest(c, q) \/ LocateSigner(c, q) \/ Store(c, q) \/ Abandon(c)
        PROVE  UNCHANGED <<request, session, signer, evidence>>
    BY <2>5 DEF LocateRequest, LocateSigner, Store, Abandon
  <2>6. CASE Finalize \/ Cancel \/ Expire
    BY <2>6 DEF Finalize, Cancel, Expire, Open
  <2>7. QED
    BY <2>1, <2>2, <2>3, <2>4, <2>5, <2>6 DEF SigNext
<1>2. QED
  BY <1>1, SignatureInvariance, PTL DEF SigSpec, CancelledIsFinal
-----------------------------------------------------------------------------
(* The request as the application sees it.                                 *)

\* Those who attend and have evidence have signed, so a request is ready when the
\* abstract record is complete.
LEMMA ReadyIsComplete ==
  ASSUME RowsOK
  PROVE  Ready(signer) <=> Attending # {} /\ Attending \subseteq Evident
BY DEF RowsOK, Ready, Attending, Evident

LEMMA StateFollows ==
  ASSUME StatusOK, RowsOK, request \in {"dispatched", "completed"}
  PROVE  State = Record!StateOf(Attending, Evident)
BY ReadyIsComplete DEF StatusOK, State, Record!StateOf

LEMMA StepKeepsRecord ==
  ASSUME SigInv, SigInv', SigNext
  PROVE  [Record!Next]_<<State, Attending, Evident>>
<1>1. State = request /\ State' = request'
  BY DEF SigInv, StatusOK, State
<1>2. request' \in {"dispatched", "completed"} => State' = Record!StateOf(Attending', Evident')
  <2>1. StatusOK' /\ RowsOK'
    BY DEF SigInv
  <2>2. (request \in {"dispatched", "completed"} => State = Record!StateOf(Attending, Evident))'
    BY <2>1, StateFollows, PTL
  <2>3. QED
    BY <2>2 DEF Record!StateOf
<1>3. ASSUME UNCHANGED <<request, session, signer>>, Evident' = Evident
      PROVE  UNCHANGED <<State, Attending, Evident>>
  BY <1>3 DEF State, Attending
<1>4. ASSUME NEW present \in SUBSET People, NEW limited, Create(present, limited)
      PROVE  Record!Associate(present)
  <2>1. Attending' = present /\ Evident' = Evident /\ Evident = {}
    BY <1>4 DEF Create, Attending, Evident, SigInv, StatusOK, RowsOK
  <2>2. QED
    BY <1>1, <1>4, <2>1 DEF Create, Record!Associate, Record!StateOf
<1>5. ASSUME NEW c \in Clients, Associate(c) PROVE [Record!Next]_<<State, Attending, Evident>>
  <2>1. call[c].op = "associate" /\ call[c].present \in SUBSET People /\ call[c].present # {}
    BY <1>5, Carried DEF Associate, SigInv, FoundOK
  <2>2. CASE Create(call[c].present, FALSE)
    BY <1>4, <2>1, <2>2 DEF Record!Next
  <2>3. CASE UNCHANGED <<request, session, expiry, signer, evidence>>
    BY <1>3, <2>3 DEF Evident
  <2>4. CASE /\ request # "cancelled" /\ UNCHANGED evidence
             /\ signer' = [p \in People |-> Reseated(p, call[c].present)]
             /\ request' = IF Ready(signer') THEN "completed" ELSE "dispatched"
    <3>1. Evident' = Evident
      BY <2>4 DEF Evident
    <3>2. Attending' = call[c].present
      BY <2>1, <2>4 DEF Attending, Reseated, SigInv, SigTypeOK
    <3>3. Record!Associate(call[c].present)
      BY <1>1, <1>2, <2>1, <2>4, <3>1, <3>2 DEF Record!Associate
    <3>4. QED
      BY <2>1, <3>3 DEF Record!Next
  <2>5. QED
    BY <1>5, <2>2, <2>3, <2>4 DEF Associate
<1>6. ASSUME NEW c \in Clients, Sign(c) PROVE [Record!Next]_<<State, Attending, Evident>>
  <2> DEFINE p == call[c].who
  <2>1. p \in People /\ call[c].image # NoImage /\ evidence' = [evidence EXCEPT ![p] = call[c].image]
    BY <1>6, Carried DEF Sign, Submit, Replace, Signing, SigInv
  <2>2. Evident' = Evident \cup {p}
    BY <2>1 DEF Evident, SigInv, SigTypeOK
  <2>3. CASE Submit(c)
    <3>1. /\ request = "dispatched" /\ signer[p] = "pending"
          /\ signer' = [signer EXCEPT ![p] = "signed"] /\ request' \in {"dispatched", "completed"}
      BY <2>3 DEF Submit, Open, CompleteWhenReady
    <3>2. p \in Attending /\ Attending' = Attending
      BY <2>1, <3>1 DEF Attending, SigInv, SigTypeOK
    <3>3. Record!Sign(p)
      BY <1>1, <1>2, <2>2, <3>1, <3>2 DEF Record!Sign
    <3>4. QED
      BY <2>1, <3>3 DEF Record!Next
  <2>4. CASE Replace(c)
    <3>1. p \in Evident
      BY <2>1, <2>4 DEF Replace, Evident
    <3>2. QED
      BY <1>3, <2>2, <2>4, <3>1 DEF Replace
  <2>5. QED
    BY <1>6, <2>3, <2>4 DEF Sign
<1>7. ASSUME NEW c \in Clients, Revoke(c) PROVE [Record!Next]_<<State, Attending, Evident>>
  <2> DEFINE p == call[c].who
  <2>1. /\ request = "dispatched" /\ signer' = [signer EXCEPT ![p] = "revoked"]
        /\ p \in People /\ signer[p] # "absent" /\ Evident' = Evident
    BY <1>7, Carried DEF Revoke, Open, SigInv, FoundOK, Evident
  <2>2. CASE signer' = signer
    BY <1>3, <1>7, <2>1, <2>2 DEF Revoke
  <2>3. CASE signer' # signer
    <3>1. p \in Attending /\ Attending' = Attending \ {p}
      BY <2>1, <2>3 DEF Attending, SigInv, SigTypeOK
    <3>2. request' \in {"dispatched", "completed"}
      BY <1>7, <2>1, <2>3 DEF Revoke, CompleteWhenReady
    <3>3. Record!Revoke(p)
      BY <1>1, <1>2, <2>1, <3>1, <3>2 DEF Record!Revoke
    <3>4. QED
      BY <2>1, <3>3 DEF Record!Next
  <2>4. QED
    BY <2>2, <2>3
<1>8. CASE Finalize
  BY <1>3, <1>8 DEF Finalize, Open, SigInv, StatusOK, Evident
<1>9. CASE Cancel
  <2>1. Attending' = Attending /\ Evident' = Evident
    BY <1>9 DEF Cancel, Attending, Evident
  <2>2. request = "cancelled" \/ request = "dispatched"
    BY <1>9 DEF Cancel, SigInv, SigTypeOK, Statuses
  <2>3. QED
    BY <1>1, <1>9, <2>1, <2>2 DEF Cancel, Record!Cancel, Record!Next
<1>10. ASSUME NEW c \in Clients, NEW q,
              LocateRequest(c, q) \/ LocateSigner(c, q) \/ Store(c, q) \/ Abandon(c)
       PROVE  UNCHANGED <<State, Attending, Evident>>
  BY <1>10 DEF LocateRequest, LocateSigner, Store, Abandon, State, Attending, Evident
<1>11. CASE Expire
  BY <1>11 DEF Expire, State, Attending, Evident
<1>12. ASSUME NEW present \in SUBSET People, NEW limited \in BOOLEAN, CreateRequest(present, limited)
       PROVE  Record!Next
  BY <1>4, <1>12 DEF CreateRequest, Record!Next
<1>13. QED
  BY <1>5, <1>6, <1>7, <1>8, <1>9, <1>10, <1>11, <1>12 DEF SigNext

\* The service keeps the promise of Attendance, however transactions interleave and for
\* any number of signers (signatures/index.ts:111-130, 438-445, 581-584).
THEOREM AttendanceIsKept == SigSpec => AttendanceKept
<1>1. SigInit => Record!Init
  BY DEF SigInit, Record!Init, State, Attending, Evident
<1>2. SigInv /\ SigInv' /\ [SigNext]_sigVars => [Record!Next]_<<State, Attending, Evident>>
  <2>1. CASE UNCHANGED sigVars
    BY <2>1 DEF sigVars, State, Attending, Evident
  <2>2. QED
    BY <2>1, StepKeepsRecord
<1>3. QED
  BY <1>1, <1>2, SignatureInvariance, PTL DEF SigSpec, AttendanceKept, Record!Spec
=============================================================================
