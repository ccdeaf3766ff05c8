------------------------------- MODULE Outbox -------------------------------
(***************************************************************************)
(* The outbox of events (core/events/index.ts): events are stored with the *)
(* transaction that causes them, and dispatchers claim them in batches,    *)
(* publish them to the handlers and mark them.                             *)
(*                                                                         *)
(* A claim is a lease: `lockedAt` is all that says whose it is, and the    *)
(* statements that mark an event do not ask for it.  Time is abstracted to *)
(* whether the lease of an event has run out and whether it is due.        *)
(***************************************************************************)
EXTENDS Integers, Sequences, SequencesExt, FiniteSets

CONSTANTS
  Events,        \* idempotency keys of events
  Workers,       \* calls of dispatchCoreOutboxBatch()
  Handlers,      \* subscribers, in the order of their subscription: 1..Handlers
  BatchSize,
  MaxDeliveries, \* maxAttempts of an event
  MaxLosses      \* bound on failing writes and dying workers

ASSUME OutboxAssumption ==
  /\ {Handlers, BatchSize, MaxDeliveries} \subseteq Nat \ {0} /\ MaxLosses \in Nat

VARIABLES
  event,      \* row: status, attempts, whether it is due, whether its lease has run out
  worker,     \* where a dispatcher stands in its batch
  handled,    \* history: handlers that have processed an event
  overtaken,  \* history: events whose lease ran out while their worker was at it
  losses

outboxVars == <<event, worker, handled, overtaken, losses>>

EventRow == [status : {"none", "pending", "processing", "failed", "delivered", "dead_letter"},
             attempts : Nat, due : BOOLEAN, expired : BOOLEAN]

OutboxTypeOK ==
  /\ event \in [Events -> EventRow]
  /\ worker \in [Workers -> [pc : {"idle", "publishing", "delivered", "failed"}, batch : Seq(Events),
                             handler : 0..Handlers]]
  /\ \A w \in Workers : worker[w].pc = "idle" <=> worker[w].batch = <<>>
  /\ handled \subseteq Events \X (1..Handlers) /\ overtaken \subseteq Events
  /\ losses \in 0..MaxLosses

NoBatch == [pc |-> "idle", batch |-> <<>>, handler |-> 0]

OutboxInit ==
  /\ event = [e \in Events |-> [status |-> "none", attempts |-> 0, due |-> FALSE, expired |-> FALSE]]
  /\ worker = [w \in Workers |-> NoBatch] /\ handled = {} /\ overtaken = {} /\ losses = 0
-----------------------------------------------------------------------------
\* enqueue(): an event with the same key is there already, and stays as it is.
Enqueue(e) ==
  /\ event[e].status = "none"
  /\ event' = [event EXCEPT ![e].status = "pending", ![e].due = TRUE]
  /\ UNCHANGED <<worker, handled, overtaken, losses>>

\* next_attempt_at has come; the processing lease has passed.
ComesDue(e) ==
  /\ event[e].status = "failed" /\ ~event[e].due /\ event' = [event EXCEPT ![e].due = TRUE]
  /\ UNCHANGED <<worker, handled, overtaken, losses>>

LeaseRunsOut(e) ==
  /\ event[e].status = "processing" /\ ~event[e].expired
  /\ event' = [event EXCEPT ![e].expired = TRUE]
  /\ overtaken' = IF \E w \in Workers : e \in ToSet(worker[w].batch) THEN overtaken \cup {e} ELSE overtaken
  /\ UNCHANGED <<worker, handled, losses>>

\* Mutant: a claim does not ask how old another one is.
ToClaimAtOnce(e) == event[e].status = "processing" \/ (event[e].status \in {"pending", "failed"} /\ event[e].due)

ToClaim(e) ==
  \/ event[e].status \in {"pending", "failed"} /\ event[e].due
  \/ event[e].status = "processing" /\ event[e].expired

\* claimBatch(): one statement; the rows of other claims under way are skipped.
ClaimBatch(w) ==
  /\ worker[w].pc = "idle"
  /\ \E n \in 1..BatchSize : \E batch \in [1..n -> {e \in Events : ToClaim(e)}] :
       /\ IsInjective(batch)
       /\ worker' = [worker EXCEPT ![w] = [pc |-> "publishing", batch |-> batch, handler |-> 0]]
       /\ event' = [e \in Events |->
                      IF e \in ToSet(batch) THEN [event[e] EXCEPT !.status = "processing", !.expired = FALSE]
                      ELSE event[e]]
  /\ UNCHANGED <<handled, overtaken, losses>>

Record(w) == Head(worker[w].batch)   \* the event a worker is at

\* publish(): one handler after the other, up to the first that throws.
Handle(w) ==
  /\ worker[w].pc = "publishing"
  /\ LET next == worker[w].handler + 1 IN
     \/ /\ handled' = handled \cup {<<Record(w), next>>}
        /\ worker' = [worker EXCEPT ![w].handler = next, ![w].pc = IF next = Handlers THEN "delivered" ELSE "publishing"]
     \/ worker' = [worker EXCEPT ![w].pc = "failed"] /\ UNCHANGED handled
  /\ UNCHANGED <<event, overtaken, losses>>

Remaining(w) ==
  IF Len(worker[w].batch) = 1 THEN NoBatch ELSE [pc |-> "publishing", batch |-> Tail(worker[w].batch), handler |-> 0]

MarkDelivered(w) ==
  /\ worker[w].pc = "delivered" /\ worker' = [worker EXCEPT ![w] = Remaining(w)]
  /\ event' = [event EXCEPT ![Record(w)].status = "delivered", ![Record(w)].expired = FALSE]
  /\ UNCHANGED <<handled, overtaken, losses>>

MarkFailed(w) ==
  LET attempts == event[Record(w)].attempts + 1 IN
  /\ worker[w].pc = "failed" /\ worker' = [worker EXCEPT ![w] = Remaining(w)]
  /\ event' = [event EXCEPT ![Record(w)] =
       [status |-> IF attempts >= MaxDeliveries THEN "dead_letter" ELSE "failed",
        attempts |-> attempts, due |-> FALSE, expired |-> FALSE]]
  /\ UNCHANGED <<handled, overtaken, losses>>

\* An event that was delivered but cannot be marked counts as failed; when that cannot be
\* written either, or the process dies, the rest of the batch waits for its leases.
Fault(w) ==
  /\ losses < MaxLosses /\ losses' = losses + 1
  /\ \/ worker[w].pc = "delivered" /\ worker' = [worker EXCEPT ![w].pc = "failed"]
     \/ worker[w].pc # "idle" /\ worker' = [worker EXCEPT ![w] = NoBatch]
  /\ UNCHANGED <<event, handled, overtaken>>

OutboxNext ==
  \/ \E e \in Events : Enqueue(e) \/ ComesDue(e) \/ LeaseRunsOut(e)
  \/ \E w \in Workers : ClaimBatch(w) \/ Handle(w) \/ MarkDelivered(w) \/ MarkFailed(w) \/ Fault(w)

OutboxSpec == OutboxInit /\ [][OutboxNext]_outboxVars
-----------------------------------------------------------------------------
\* An event that has been marked as delivered has been through every handler, however many
\* workers, failures and deaths it took (index.ts:489-500).
DeliveredWasHandled ==
  \A e \in Events : event[e].status = "delivered" => {e} \X (1..Handlers) \subseteq handled

At(w, e) == worker[w].batch # <<>> /\ e \in ToSet(worker[w].batch)

\* An event whose lease never ran out under a worker is with one worker at a time, and what
\* became of it stays (index.ts:394-418).
ClaimsExclude ==
  \A e \in Events \ overtaken :
    /\ \A v, w \in Workers : At(v, e) /\ At(w, e) => v = w
    /\ event[e].status \in {"delivered", "dead_letter"} => \A w \in Workers : ~At(w, e)

\* Events are neither lost behind 'delivered' nor handed out twice while their lease runs:
\* the two above together (index.ts:394-433, 489-512).
EventsHold == OutboxTypeOK /\ DeliveredWasHandled /\ ClaimsExclude
=============================================================================
