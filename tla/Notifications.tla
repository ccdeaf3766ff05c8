--------------------------- MODULE Notifications ---------------------------
(***************************************************************************)
(* Delivery of notifications (platform/notifications/index.ts): every      *)
(* channel of a notification is an intent that workers report on, while    *)
(* the application may retry the creation or cancel the whole.             *)
(*                                                                         *)
(* All commands lock the row of the notification, after which a            *)
(* transaction is one step; what is read before that lock is a step of its *)
(* own.  A command that is refused or rolled back changes nothing.         *)
(***************************************************************************)
EXTENDS Naturals, Sequences

CONSTANTS
  Notices,      \* notification keys of an application
  Channels,     \* channels of a notification, one intent each
  Recipients,   \* persons it is addressed to
  Workers,      \* who delivers
  MaxAttempts,  \* bound: deliveries reported on an intent
  NoIntent

ASSUME NotificationsAssumption == MaxAttempts \in Nat /\ NoIntent \notin Notices \X Channels

Intents == Notices \X Channels
Delivery == {"pending", "queued", "sent", "failed", "skipped", "cancelled"}
Fresh0 == [status |-> "pending", attempts |-> 0]

VARIABLES
  notice,   \* platform_notifications.status, "none" without a row
  intent,   \* platform_notification_channel_intents: status and attempts
  tried,    \* platform_notification_delivery_attempts: the statuses reported, in order
  read,     \* platform_notification_reads
  located   \* the intent a worker has read before its lock, and what it read

noticeVars == <<notice, intent, tried, read, located>>

NoticeTypeOK ==
  /\ notice \in [Notices -> {"none", "active", "cancelled"}]
  /\ intent \in [Intents -> [status : Delivery, attempts : 0..MaxAttempts]]
  /\ tried \in [Intents -> Seq(Delivery)] /\ \A i \in Intents : Len(tried[i]) <= MaxAttempts
  /\ read \in [Notices -> SUBSET Recipients]
  /\ located \in [Workers -> [intent : Intents \cup {NoIntent}, was : [status : Delivery, attempts : 0..MaxAttempts]]]

NoticeInit ==
  /\ notice = [n \in Notices |-> "none"] /\ read = [n \in Notices |-> {}]
  /\ intent = [i \in Intents |-> Fresh0] /\ tried = [i \in Intents |-> <<>>]
  /\ located = [w \in Workers |-> [intent |-> NoIntent, was |-> Fresh0]]
-----------------------------------------------------------------------------
\* A retry finds the row, cancelled or not, and is answered with it; two at once meet at
\* the unique key.
CreateNotification(n) ==
  /\ notice[n] = "none" /\ notice' = [notice EXCEPT ![n] = "active"]
  /\ UNCHANGED <<intent, tried, read, located>>

\* updateDelivery() finds the notification through the intent, without a lock.
Locate(w, i) ==
  /\ notice[i[1]] # "none" /\ located[w].intent = NoIntent
  /\ located' = [located EXCEPT ![w] = [intent |-> i, was |-> intent[i]]]
  /\ UNCHANGED <<notice, intent, tried, read>>

\* What a report makes of an intent.
Reported(before, status) == [status |-> status, attempts |-> before.attempts + 1]
Terminal(i, before) == notice[i[1]] = "cancelled" \/ before.status \in {"cancelled", "sent"}

\* Mutant: the intent is not read again under the lock.
ReportLocated(w, status) ==
  LET i == located[w].intent  before == located[w].was IN
  /\ i # NoIntent /\ Len(tried[i]) < MaxAttempts
  /\ located' = [located EXCEPT ![w].intent = NoIntent]
  /\ IF Terminal(i, before)
     THEN UNCHANGED <<intent, tried>>
     ELSE /\ intent' = [intent EXCEPT ![i] = Reported(before, status)]
          /\ tried' = [tried EXCEPT ![i] = Append(@, status)]
  /\ UNCHANGED <<notice, read>>

\* Under the lock the intent is read again, and a terminal one is refused.
Report(w, status) ==
  LET i == located[w].intent  before == intent[i] IN
  /\ i # NoIntent /\ Len(tried[i]) < MaxAttempts
  /\ located' = [located EXCEPT ![w].intent = NoIntent]
  /\ IF Terminal(i, before)
     THEN UNCHANGED <<intent, tried>>
     ELSE /\ intent' = [intent EXCEPT ![i] = Reported(before, status)]
          /\ tried' = [tried EXCEPT ![i] = Append(@, status)]
  /\ UNCHANGED <<notice, read>>

\* cancelNotification(): with it goes what waits to be sent; an intent that failed or was
\* skipped keeps saying so.
CancelNotification(n) ==
  /\ notice[n] = "active" /\ notice' = [notice EXCEPT ![n] = "cancelled"]
  /\ intent' = [i \in Intents |-> IF i[1] = n /\ intent[i].status \in {"pending", "queued"}
                                  THEN [intent[i] EXCEPT !.status = "cancelled"] ELSE intent[i]]
  /\ UNCHANGED <<tried, read, located>>

\* markRead(): by a recipient, once, of a cancelled notification too.
MarkRead(n, p) ==
  /\ notice[n] # "none" /\ read' = [read EXCEPT ![n] = @ \cup {p}]
  /\ UNCHANGED <<notice, intent, tried, located>>

NoticeNext ==
  \/ \E n \in Notices : \/ CreateNotification(n) \/ CancelNotification(n)
                        \/ \E p \in Recipients : MarkRead(n, p)
  \/ \E w \in Workers : \/ \E i \in Intents : Locate(w, i)
                        \/ \E status \in Delivery : Report(w, status)

NoticeSpec == NoticeInit /\ [][NoticeNext]_noticeVars
-----------------------------------------------------------------------------
\* The books of a delivery agree, whoever reports at the same time: every attempt is
\* counted and the intent says what the last one said; nothing is attempted after it was
\* sent, nor after the notification was cancelled, of which nothing waits to be sent
\* (index.ts:166-184, 252-256).
DeliveryIsAccounted == \A i \in Intents :
  LET said == tried[i]  n == Len(said) IN
  /\ intent[i].attempts = n
  /\ n > 0 /\ intent[i].status # "cancelled" => intent[i].status = said[n]
  /\ \A k \in 1..n : said[k] \in {"sent", "cancelled"} => k = n
  /\ n > 0 /\ said[n] = "sent" => intent[i].status = "sent"
  /\ notice[i[1]] = "cancelled" => intent[i].status \notin {"pending", "queued"}
=============================================================================
