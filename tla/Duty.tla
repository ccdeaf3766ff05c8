-------------------------------- MODULE Duty --------------------------------
(***************************************************************************)
(* Duty rosters of one organization (platform/duty): periods with          *)
(* assignments that are drafted, published and cancelled, temporary        *)
(* replacements in a published period, and the catalog of shifts and       *)
(* statuses, whose versions end.                                           *)
(*                                                                         *)
(* The service (index.ts) reads and validates without a lock; then the     *)
(* repository (repository.ts) locks some of the rows and validates some of *)
(* it again in the transaction that writes.  `call` is what a command has  *)
(* read before its transaction.  A command that is refused is Abandon.     *)
(*                                                                         *)
(* Minutes of the day are abstracted to three windows: a day shift holds   *)
(* its day, a night shift the night and the following morning, where the   *)
(* day shift of that date has already begun (19:00-09:00 and 08:30).       *)
(* People who leave, the calendar, and the import of old rosters are left  *)
(* out.                                                                    *)
(***************************************************************************)
EXTENDS Integers, FiniteSets, Sequences

CONSTANTS
  Periods, People, Clients,
  Days,              \* 1..Days: the dates
  DayShifts, NightShifts, Rests,    \* versions in the catalog
  MaxAssignments,    \* bound on the assignments made
  MaxReplacements,   \* bound on the replacements proposed
  Nothing            \* no assignment, no return duty, no shift of its own

Dates == 1..Days
Shifts == DayShifts \cup NightShifts
Catalog == Shifts \cup Rests
Keys == [period : Periods, person : People, date : Dates]

ASSUME DutyAssumption ==
  /\ Days \in Nat \ {0} /\ MaxReplacements \in Nat
  /\ DayShifts \cap NightShifts = {} /\ Nothing \notin Catalog \cup Keys

VARIABLES
  period,       \* status and dates of each period
  assignment,   \* what each person does on each date of a period
  until,        \* effectiveTo of each version, Days + 1 while it is open
  replacement,  \* the replacements, in the order of their creation
  call          \* what each command has read before its transaction

dutyVars == <<period, assignment, until, replacement, call>>

Replacement == [original : Keys, back : Keys \cup {Nothing}, by : People, shift : Shifts \cup {Nothing},
                status : {"proposed", "approved", "cancelled"}]
NoCall == [op |-> "idle"]
Calls ==
  {NoCall} \cup [op : {"assign"}, key : Keys, target : Catalog, known : BOOLEAN]
  \cup [op : {"publish"}, period : Periods] \cup [op : {"cancel period"}, period : Periods, was : {"draft", "published"}]
  \cup [op : {"close"}, version : Catalog, to : Dates] \cup [op : {"propose"}, replacement : Replacement]
  \cup [op : {"approve", "cancel"}, index : 1..MaxReplacements, was : {"proposed", "approved"}]

DutyTypeOK ==
  /\ period \in [Periods -> [status : {"none", "draft", "published", "cancelled"}, from : Dates, to : Dates]]
  /\ assignment \in [Keys -> Catalog \cup {Nothing}]
  /\ until \in [Catalog -> 1..(Days + 1)]
  /\ replacement \in Seq(Replacement) /\ Len(replacement) <= MaxReplacements
  /\ call \in [Clients -> Calls]

DutyInit ==
  /\ period = [p \in Periods |-> [status |-> "none", from |-> 1, to |-> 1]]
  /\ assignment = [k \in Keys |-> Nothing]
  /\ until = [v \in Catalog |-> Days + 1]
  /\ replacement = <<>> /\ call = [c \in Clients |-> NoCall]
-----------------------------------------------------------------------------
Begin(c, what) == call[c] = NoCall /\ call' = [call EXCEPT ![c] = what]
End(c) == call' = [call EXCEPT ![c] = NoCall]

\* isDutyCatalogEffective()
Effective(version, date) == date <= until[version]

Assigned(p) == {k \in Keys : k.period = p /\ assignment[k] # Nothing}
Duties(p) == {k \in Assigned(p) : assignment[k] \in Shifts}
Inside(k) == k.date \in period[k.period].from..period[k.period].to
SameDates(p, q) == period[p].from <= period[q].to /\ period[q].from <= period[p].to
Conflicts(p) == {q \in Periods \ {p} : period[q].status = "published" /\ SameDates(p, q)}

Rows == {replacement[r] : r \in DOMAIN replacement}
\* Mutant: only those that have been approved count.
ActiveInForce(p, rows) == {r \in rows : r.original.period = p /\ r.status = "approved"}

Active(p, rows) == {r \in rows : r.original.period = p /\ r.status # "cancelled"}

\* Who works an assignment and which shift, with the replacements `rs` in force.
Outgoing(k, rs) == {r \in rs : r.original = k}
Returning(k, rs) == {r \in rs : r.back = k}
Worker(k, rs) ==
  IF Outgoing(k, rs) # {} THEN (CHOOSE r \in Outgoing(k, rs) : TRUE).by
  ELSE IF Returning(k, rs) # {} THEN (CHOOSE r \in Returning(k, rs) : TRUE).original.person
  ELSE k.person
Worked(k, rs) ==
  IF \E r \in Outgoing(k, rs) : r.shift # Nothing THEN (CHOOSE r \in Outgoing(k, rs) : TRUE).shift
  ELSE assignment[k]

\* getDutyShiftWindow(): the parts of the days a shift takes, three to a day.
Window(date, shift) ==
  IF shift \in DayShifts THEN {3 * date, 3 * date + 1} ELSE {3 * date + 2, 3 * date + 3}

Apart(duties, rs) ==
  \A k, l \in duties : k # l /\ Worker(k, rs) = Worker(l, rs) =>
    Window(k.date, Worked(k, rs)) \cap Window(l.date, Worked(l, rs)) = {}

\* assertDutyWindowsDoNotOverlap()
WindowsOK(p, rs) ==
  /\ \A k \in Duties(p) : /\ Cardinality(Outgoing(k, rs)) + Cardinality(Returning(k, rs)) <= 1
                          /\ Effective(Worked(k, rs), k.date)
  /\ Apart(Duties(p), rs)
-----------------------------------------------------------------------------
CreatePeriod(p, from, to) ==
  /\ period[p].status = "none" /\ from <= to
  /\ period' = [period EXCEPT ![p] = [status |-> "draft", from |-> from, to |-> to]]
  /\ UNCHANGED <<assignment, until, replacement, call>>

\* setAssignment(): a row that is found is updated under its id.
ReadAssignment(c, k, target) ==
  /\ period[k.period].status = "draft" /\ Inside(k) /\ Effective(target, k.date)
  /\ assignment[k] = Nothing => Cardinality({l \in Keys : assignment[l] # Nothing}) < MaxAssignments
  /\ Begin(c, [op |-> "assign", key |-> k, target |-> target, known |-> assignment[k] # Nothing])
  /\ UNCHANGED <<period, assignment, until, replacement>>

Store(c) ==
  /\ assignment[call[c].key] # Nothing => call[c].known
  /\ assignment' = [assignment EXCEPT ![call[c].key] = call[c].target]
  /\ End(c) /\ UNCHANGED <<period, until, replacement>>

\* The period is locked, and the version against being closed.
Assign(c) ==
  /\ call[c].op = "assign" /\ period[call[c].key.period].status = "draft"
  /\ Effective(call[c].target, call[c].key.date) /\ Store(c)

\* publishPeriod() and validatePublishableAssignments()
Publishable(p) ==
  /\ period[p].status = "draft" /\ Assigned(p) # {} /\ Conflicts(p) = {}
  /\ \A k \in Assigned(p) : Effective(assignment[k], k.date)
  /\ WindowsOK(p, {})

ReadPublish(c, p) ==
  /\ Publishable(p) /\ Begin(c, [op |-> "publish", period |-> p])
  /\ UNCHANGED <<period, assignment, until, replacement>>

\* Mutant: the roster is validated again, the other periods are not.
PublishAnyway(c) ==
  /\ call[c].op = "publish" /\ period[call[c].period].status = "draft" /\ WindowsOK(call[c].period, {})
  /\ period' = [period EXCEPT ![call[c].period].status = "published"]
  /\ End(c) /\ UNCHANGED <<assignment, until, replacement>>

\* updatePeriod() for "published": organization and period are locked, everything is
\* validated again.
Publish(c) ==
  /\ call[c].op = "publish" /\ Publishable(call[c].period)
  /\ period' = [period EXCEPT ![call[c].period].status = "published"]
  /\ End(c) /\ UNCHANGED <<assignment, until, replacement>>

ReadCancelPeriod(c, p) ==
  /\ period[p].status \in {"draft", "published"}
  /\ Begin(c, [op |-> "cancel period", period |-> p, was |-> period[p].status])
  /\ UNCHANGED <<period, assignment, until, replacement>>

CancelPeriod(c) ==
  /\ call[c].op = "cancel period" /\ period[call[c].period].status = call[c].was
  /\ period' = [period EXCEPT ![call[c].period].status = "cancelled"]
  /\ End(c) /\ UNCHANGED <<assignment, until, replacement>>

\* closeShiftTypeVersion(), closeDutyStatusVersion()
ReadClose(c, version, to) ==
  /\ until[version] > Days /\ Begin(c, [op |-> "close", version |-> version, to |-> to])
  /\ UNCHANGED <<period, assignment, until, replacement>>

\* updateShiftType(), updateDutyStatus(): assignments after the last date are in the way;
\* the shift of a replacement is not.
Close(c) ==
  LET version == call[c].version  to == call[c].to IN
  /\ call[c].op = "close" /\ until[version] > Days
  /\ \A k \in Keys : assignment[k] = version => k.date <= to
  /\ until' = [until EXCEPT ![version] = to]
  /\ End(c) /\ UNCHANGED <<period, assignment, replacement>>

\* validateReplacement() and validatePostgresReplacement(): `others` are the active
\* replacements of the period without this one.
Acceptable(r, others) ==
  /\ period[r.original.period].status = "published" /\ assignment[r.original] \in Shifts
  /\ r.by # r.original.person
  /\ r.back # Nothing => /\ r.back \in Duties(r.original.period) /\ r.back.person = r.by
                         /\ r.back # r.original
  /\ \A o \in others : {o.original, o.back} \cap ({r.original, r.back} \ {Nothing}) = {}
  /\ WindowsOK(r.original.period, others \cup {r})

Others(r, rows) == Active(r.original.period, rows) \ {r}

\* proposeReplacement()
ReadPropose(c, k, by, back, shift) ==
  LET r == [original |-> k, back |-> back, by |-> by, shift |-> shift, status |-> "proposed"] IN
  /\ Len(replacement) < MaxReplacements /\ Acceptable(r, Others(r, Rows))
  /\ Begin(c, [op |-> "propose", replacement |-> r])
  /\ UNCHANGED <<period, assignment, until, replacement>>

\* createReplacement(): the organization is locked and everything is validated again.
Propose(c) ==
  LET r == call[c].replacement IN
  /\ call[c].op = "propose" /\ Len(replacement) < MaxReplacements
  /\ Acceptable(r, Active(r.original.period, Rows))
  /\ replacement' = Append(replacement, r)
  /\ End(c) /\ UNCHANGED <<period, assignment, until>>

\* approveReplacement(): validated before the transaction only.
ReadApprove(c, i) ==
  LET r == replacement[i] IN
  /\ r.status = "proposed" /\ Acceptable(r, Others(r, Rows))
  /\ Begin(c, [op |-> "approve", index |-> i, was |-> "proposed"])
  /\ UNCHANGED <<period, assignment, until, replacement>>

\* cancelReplacement()
ReadCancel(c, i) ==
  /\ replacement[i].status # "cancelled"
  /\ Begin(c, [op |-> "cancel", index |-> i, was |-> replacement[i].status])
  /\ UNCHANGED <<period, assignment, until, replacement>>

\* updateReplacement()
Decide(c) ==
  LET i == call[c].index IN
  /\ call[c].op \in {"approve", "cancel"} /\ replacement[i].status = call[c].was
  /\ replacement' = [replacement EXCEPT ![i].status = IF call[c].op = "approve" THEN "approved" ELSE "cancelled"]
  /\ End(c) /\ UNCHANGED <<period, assignment, until>>

Abandon(c) == call[c] # NoCall /\ End(c) /\ UNCHANGED <<period, assignment, until, replacement>>

RosterNext ==
  \/ \E p \in Periods, from, to \in Dates : CreatePeriod(p, from, to)
  \/ \E c \in Clients :
       \/ \E k \in Keys, target \in Catalog : ReadAssignment(c, k, target)
       \/ \E p \in Periods : ReadPublish(c, p) \/ ReadCancelPeriod(c, p)
       \/ \E version \in Catalog, to \in Dates : ReadClose(c, version, to)
       \/ Assign(c) \/ Publish(c) \/ CancelPeriod(c) \/ Close(c)

ReplacementNext == \E c \in Clients :
  \/ \E p \in Periods, by \in People, shift \in Shifts \cup {Nothing} :
       \E k \in Duties(p), back \in Duties(p) \cup {Nothing} : ReadPropose(c, k, by, back, shift)
  \/ \E i \in DOMAIN replacement : ReadApprove(c, i) \/ ReadCancel(c, i)
  \/ Propose(c) \/ Decide(c)

DutyNext == RosterNext \/ ReplacementNext \/ \E c \in Clients : Abandon(c)

DutySpec == DutyInit /\ [][DutyNext]_dutyVars
-----------------------------------------------------------------------------
\* Published periods of the organization never share a date, although each is published
\* after a look at the others (repository.ts:353-361); where they do, resolveDutyAt()
\* refuses to say who is on duty.
PublishedApart == \A p \in Periods : period[p].status = "published" => Conflicts(p) = {}

\* What has been published stays as it is: its only change is to be cancelled, and its
\* assignments are those of the publication, whoever was still editing the draft.
PublishedIsFixed ==
  [][\A p \in Periods :
       /\ period[p].status = "published" =>
            /\ period'[p].status \in {"published", "cancelled"}
            /\ \A k \in Keys : k.period = p => assignment'[k] = assignment[k]
       /\ period[p].status = "cancelled" => period'[p] = period[p]]_dutyVars

\* In a published period all of whose replacements have been approved nobody has two
\* duties at a time, and no assignment is part of two replacements, although each was
\* validated while others were proposed (repository.ts:605-650).
CoverHolds ==
  \A p \in Periods :
    LET rs == {r \in Rows : r.original.period = p} IN
    period[p].status = "published" /\ (\A r \in rs : r.status = "approved") =>
      /\ Apart(Duties(p), rs)
      /\ \A k \in Duties(p) : Cardinality(Outgoing(k, rs)) + Cardinality(Returning(k, rs)) <= 1

\* Every assignment is for a version of the catalog that is effective on its date, although
\* versions are closed while rosters are drafted (repository.ts:273-275, 421-427).
AssignmentsEffective == \A k \in Keys : assignment[k] # Nothing => Effective(assignment[k], k.date)

\* The three hold together through interleaved edits, publications and closures: what is
\* published is apart from the rest, in force, and stays as it was.
PublishedRosters == [](PublishedApart /\ AssignmentsEffective) /\ PublishedIsFixed
=============================================================================
