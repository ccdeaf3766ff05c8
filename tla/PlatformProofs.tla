--------------------------- MODULE PlatformProofs ---------------------------
(*****************************************************************************)
(* Duty, data alignment and the knowledge index, which share no state, for   *)
(* any people, calendar, rules, profiles, records, clients, entries,         *)
(* processes and bounds.                                                     *)
(*****************************************************************************)
EXTENDS Duty, Alignment, KnowledgeIndex, FiniteSetTheorems, TLAPS

(*****************************************************************************)
(* Duty.  Replacements in force share no assignment, so who works a duty is  *)
(* decided by one row at most and does not depend on whether it has been     *)
(* approved: while no replacement of a period has been cancelled its duties  *)
(* are apart as they were when it was published.                             *)
(*****************************************************************************)
\* The operators of the model, of a given table of assignments or replacements.
InPeriod(p, rows) == {i \in DOMAIN rows : rows[i].original.period = p}
RowsOf(p, rows) == {rows[i] : i \in InPeriod(p, rows)}
DutiesOf(p, table) == {k \in Keys : k.period = p /\ table[k] # Nothing /\ table[k] \in Shifts}
WorkedOf(k, rs, table) ==
  IF \E r \in Outgoing(k, rs) : r.shift # Nothing THEN (CHOOSE r \in Outgoing(k, rs) : TRUE).shift ELSE table[k]
ApartOf(duties, rs, table) ==
  \A k, l \in duties : k # l /\ Worker(k, rs) = Worker(l, rs) =>
    Window(k.date, WorkedOf(k, rs, table)) \cap Window(l.date, WorkedOf(l, rs, table)) = {}

\* Replacements in force share no assignment.
KeysApart(rows) ==
  /\ \A i \in DOMAIN rows : rows[i].status # "cancelled" => rows[i].back # rows[i].original
  /\ \A p \in Periods : \A i, j \in InPeriod(p, rows) :
       i # j /\ rows[i].status # "cancelled" /\ rows[j].status # "cancelled" =>
         /\ rows[i].original # rows[j].original /\ rows[i].original # rows[j].back
         /\ rows[i].back # Nothing => rows[i].back # rows[j].back

\* Replacements are of periods that have been published, and a decision is about one of them.
RowsOfPublished == \A i \in DOMAIN replacement : period[replacement[i].original.period].status \in {"published", "cancelled"}
CallsKnow == \A c \in Clients : call[c].op \in {"approve", "cancel"} => call[c].index \in DOMAIN replacement

\* While no replacement of a published period has been cancelled its duties are apart,
\* whether the replacements are approved or only proposed.
Covered(p, table, rows) ==
  (\A i \in InPeriod(p, rows) : rows[i].status # "cancelled") => ApartOf(DutiesOf(p, table), RowsOf(p, rows), table)
CoverStands == \A p \in Periods : period[p].status = "published" => Covered(p, assignment, replacement)

DutyInv ==
  /\ DutyTypeOK /\ PublishedApart /\ AssignmentsEffective
  /\ KeysApart(replacement) /\ RowsOfPublished /\ CallsKnow /\ CoverStands

\* They are the operators of the model, at its tables.
LEMMA OfTheModel ==
  /\ \A p : Duties(p) = DutiesOf(p, assignment)
  /\ \A duties, rs : Apart(duties, rs) <=> ApartOf(duties, rs, assignment)
  /\ \A p : RowsOf(p, replacement) = {r \in Rows : r.original.period = p}
<1>1. \A p : Duties(p) = DutiesOf(p, assignment)
  BY DEF Duties, Assigned, DutiesOf
<1>2. \A k, rs : Worked(k, rs) = WorkedOf(k, rs, assignment)
  BY DEF Worked, WorkedOf
<1>3. \A duties, rs : Apart(duties, rs) <=> ApartOf(duties, rs, assignment)
  BY <1>2 DEF Apart, ApartOf
<1>4. \A p : RowsOf(p, replacement) = {r \in Rows : r.original.period = p}
  BY DEF RowsOf, InPeriod, Rows
<1> QED
  BY <1>1, <1>3, <1>4

\* Replacements of which no two share an assignment, and others that differ from them in
\* their status only.
Exclusive(rs) == \A x, y \in rs :
  /\ x.original = y.original => x = y
  /\ x.original # y.back
  /\ x.back # Nothing /\ x.back = y.back => x = y
SameDuties(x, y) == x.original = y.original /\ x.back = y.back /\ x.by = y.by /\ x.shift = y.shift
Alike(xs, ys) == (\A x \in xs : \E y \in ys : SameDuties(x, y)) /\ (\A y \in ys : \E x \in xs : SameDuties(x, y))

\* The rows of a period are exclusive when their keys are apart.
LEMMA RowsAreExclusive ==
  ASSUME NEW rows, NEW p \in Periods, KeysApart(rows), \A i \in InPeriod(p, rows) : rows[i].status # "cancelled"
  PROVE  Exclusive(RowsOf(p, rows))
BY DEF Exclusive, RowsOf, KeysApart, InPeriod

\* The worker and the shift of an assignment do not depend on the status of replacements.
LEMMA SameWorkers ==
  ASSUME NEW F, NEW G, NEW k, NEW table, k # Nothing, Exclusive(F), Exclusive(G), Alike(F, G)
  PROVE  Worker(k, F) = Worker(k, G) /\ WorkedOf(k, F, table) = WorkedOf(k, G, table)
<1>1. ASSUME NEW x \in F, x.original = k
      PROVE  Worker(k, F) = Worker(k, G) /\ WorkedOf(k, F, table) = WorkedOf(k, G, table)
  <2>1. PICK y \in G : SameDuties(x, y)
    BY <1>1 DEF Alike
  <2>2. Outgoing(k, F) = {x} /\ Outgoing(k, G) = {y}
    BY <1>1, <2>1 DEF Outgoing, Exclusive, SameDuties
  <2>3. (CHOOSE r \in {x} : TRUE) = x /\ (CHOOSE r \in {y} : TRUE) = y
    OBVIOUS
  <2>4. Worker(k, F) = x.by /\ Worker(k, G) = y.by
    BY <2>2, <2>3 DEF Worker
  <2>5. WorkedOf(k, F, table) = (IF x.shift # Nothing THEN x.shift ELSE table[k])
    BY <2>2, <2>3 DEF WorkedOf
  <2>6. WorkedOf(k, G, table) = (IF y.shift # Nothing THEN y.shift ELSE table[k])
    BY <2>2, <2>3 DEF WorkedOf
  <2> QED
    BY <2>1, <2>4, <2>5, <2>6 DEF SameDuties
<1>2. ASSUME \A x \in F : x.original # k
      PROVE  Worker(k, F) = Worker(k, G) /\ WorkedOf(k, F, table) = WorkedOf(k, G, table)
  <2>1. Outgoing(k, F) = {} /\ Outgoing(k, G) = {}
    BY <1>2 DEF Outgoing, Alike, SameDuties
  <2>2. WorkedOf(k, F, table) = table[k] /\ WorkedOf(k, G, table) = table[k]
    BY <2>1 DEF WorkedOf
  <2>3. ASSUME NEW x \in F, x.back = k PROVE Worker(k, F) = Worker(k, G)
    <3>1. PICK y \in G : SameDuties(x, y)
      BY <2>3 DEF Alike
    <3>2. Returning(k, F) = {x} /\ Returning(k, G) = {y}
      BY <2>3, <3>1 DEF Returning, Exclusive, SameDuties
    <3>3. (CHOOSE r \in {x} : TRUE) = x /\ (CHOOSE r \in {y} : TRUE) = y
      OBVIOUS
    <3>4. Worker(k, F) = x.original.person /\ Worker(k, G) = y.original.person
      BY <2>1, <3>2, <3>3 DEF Worker
    <3> QED
      BY <3>1, <3>4 DEF SameDuties
  <2>4. ASSUME \A x \in F : x.back # k PROVE Worker(k, F) = Worker(k, G)
    <3>1. Returning(k, F) = {} /\ Returning(k, G) = {}
      BY <2>4 DEF Returning, Alike, SameDuties
    <3> QED
      BY <2>1, <3>1 DEF Worker
  <2> QED
    BY <2>2, <2>3, <2>4
<1> QED
  BY <1>1, <1>2

\* An assignment takes part in at most one of them.
LEMMA OneRowEach ==
  ASSUME NEW F, NEW k, k # Nothing, Exclusive(F)
  PROVE  Cardinality(Outgoing(k, F)) + Cardinality(Returning(k, F)) <= 1
<1>1. ASSUME NEW x \in F, x.original = k PROVE Cardinality(Outgoing(k, F)) = 1 /\ Cardinality(Returning(k, F)) = 0
  <2>1. Outgoing(k, F) = {x} /\ Returning(k, F) = {}
    BY <1>1 DEF Outgoing, Returning, Exclusive
  <2> QED
    BY <2>1, FS_Singleton, FS_EmptySet
<1>2. ASSUME \A x \in F : x.original # k PROVE Cardinality(Outgoing(k, F)) = 0 /\ Cardinality(Returning(k, F)) \in {0, 1}
  <2>1. Outgoing(k, F) = {}
    BY <1>2 DEF Outgoing
  <2>2. ASSUME \A x \in F : x.back # k PROVE Cardinality(Returning(k, F)) = 0
    <3>1. Returning(k, F) = {}
      BY <2>2 DEF Returning
    <3> QED
      BY <3>1, FS_EmptySet
  <2>3. ASSUME NEW x \in F, x.back = k PROVE Cardinality(Returning(k, F)) = 1
    <3>1. Returning(k, F) = {x}
      BY <2>3 DEF Returning, Exclusive
    <3> QED
      BY <3>1, FS_Singleton
  <2> QED
    BY <2>1, <2>2, <2>3, FS_EmptySet
<1> QED
  BY <1>1, <1>2

\* There are no rosters.
LEMMA DutyStarts == DutyInit => DutyInv
<1> SUFFICES ASSUME DutyInit PROVE DutyInv
  OBVIOUS
<1>1. DutyTypeOK
  BY DutyAssumption DEF DutyInit, DutyTypeOK, Dates, Calls, NoCall
<1>2. /\ PublishedApart /\ AssignmentsEffective /\ RowsOfPublished /\ CallsKnow
  BY DEF DutyInit, PublishedApart, AssignmentsEffective, RowsOfPublished, CallsKnow, NoCall
<1>3. DOMAIN replacement = {}
  BY DEF DutyInit
<1>4. KeysApart(replacement) /\ CoverStands
  BY <1>3 DEF DutyInit, KeysApart, CoverStands, InPeriod
<1> QED
  BY <1>1, <1>2, <1>4 DEF DutyInv
-----------------------------------------------------------------------------
\* The fields of a call are those of its operation.
LEMMA CallShapes ==
  ASSUME NEW m \in Calls
  PROVE  /\ m.op = "assign" => m.key \in Keys /\ m.target \in Catalog
         /\ m.op \in {"publish", "cancel period"} => m.period \in Periods
         /\ m.op = "cancel period" => m.was \in {"draft", "published"}
         /\ m.op = "close" => m.version \in Catalog /\ m.to \in Dates
         /\ m.op = "propose" => m.replacement \in Replacement
         /\ m.op \in {"approve", "cancel"} => m.was \in {"proposed", "approved"}
<1>1. CASE m = NoCall
  BY <1>1 DEF NoCall
<1>2. CASE m \in [op : {"assign"}, key : Keys, target : Catalog, known : BOOLEAN]
  BY <1>2
<1>3. CASE m \in [op : {"publish"}, period : Periods]
  BY <1>3
<1>4. CASE m \in [op : {"cancel period"}, period : Periods, was : {"draft", "published"}]
  BY <1>4
<1>5. CASE m \in [op : {"close"}, version : Catalog, to : Dates]
  BY <1>5
<1>6. CASE m \in [op : {"propose"}, replacement : Replacement]
  BY <1>6
<1>7. CASE m \in [op : {"approve", "cancel"}, index : 1..MaxReplacements, was : {"proposed", "approved"}]
  BY <1>7
<1> QED
  BY <1>1, <1>2, <1>3, <1>4, <1>5, <1>6, <1>7 DEF Calls

\* A step that leaves the tables alone only remembers what it has read.
LEMMA OnlyReads ==
  ASSUME DutyInv, UNCHANGED <<period, assignment, until, replacement>>, NEW c \in Clients, NEW what \in Calls,
         call' = [call EXCEPT ![c] = what],
         what.op \in {"approve", "cancel"} => what.index \in DOMAIN replacement
  PROVE  DutyInv'
<1>1. DutyTypeOK' /\ CallsKnow'
  BY DEF DutyInv, DutyTypeOK, CallsKnow
<1>2. PublishedApart' /\ AssignmentsEffective' /\ RowsOfPublished'
  BY DEF DutyInv, PublishedApart, Conflicts, SameDates, AssignmentsEffective, Effective, RowsOfPublished
<1>3. KeysApart(replacement)' /\ CoverStands'
  BY DEF DutyInv, CoverStands
<1> QED
  BY <1>1, <1>2, <1>3 DEF DutyInv

\* End(c)
LEMMA EndForgets ==
  ASSUME DutyInv, NEW c \in Clients, End(c), DOMAIN replacement \subseteq DOMAIN replacement'
  PROVE  call' \in [Clients -> Calls] /\ CallsKnow'
<1>1. NoCall \in Calls /\ NoCall.op = "idle"
  BY DEF Calls, NoCall
<1>2. call' = [call EXCEPT ![c] = NoCall]
  BY DEF End
<1> QED
  BY <1>1, <1>2 DEF DutyInv, DutyTypeOK, CallsKnow

\* The cover of a published period depends on its roster only.
LEMMA CoverOfRoster ==
  ASSUME NEW p, NEW table, NEW after, NEW rows, Covered(p, table, rows), \A k \in Keys : k.period = p => after[k] = table[k]
  PROVE  Covered(p, after, rows)
<1>1. DutiesOf(p, after) = DutiesOf(p, table)
  BY DEF DutiesOf
<1>2. \A k \in DutiesOf(p, table) : after[k] = table[k]
  BY DEF DutiesOf
<1>3. \A rs : \A k \in DutiesOf(p, table) : WorkedOf(k, rs, after) = WorkedOf(k, rs, table)
  BY <1>2 DEF WorkedOf
<1> QED
  BY <1>1, <1>3 DEF Covered, ApartOf

\* A period that has no replacement yet, as when it is published.
LEMMA CoverOfNone ==
  ASSUME NEW p, NEW table, NEW rows, InPeriod(p, rows) = {}, ApartOf(DutiesOf(p, table), {}, table)
  PROVE  Covered(p, table, rows)
<1>1. RowsOf(p, rows) = {}
  BY DEF RowsOf
<1> QED
  BY <1>1 DEF Covered

\* setAssignment() changes drafts only.
LEMMA AssignKeeps ==
  ASSUME DutyInv, NEW c \in Clients, Assign(c)
  PROVE  DutyInv'
<1> DEFINE k == call[c].key
           target == call[c].target
<1>1. call[c] \in Calls /\ call[c].op = "assign"
  BY DEF Assign, DutyInv, DutyTypeOK
<1>2. /\ k \in Keys /\ target \in Catalog /\ period[k.period].status = "draft" /\ Effective(target, k.date)
      /\ assignment' = [assignment EXCEPT ![k] = target] /\ End(c) /\ UNCHANGED <<period, until, replacement>>
  BY <1>1, CallShapes DEF Assign, Store
<1>3. call' \in [Clients -> Calls] /\ CallsKnow'
  BY <1>2, EndForgets
<1>4. DutyTypeOK'
  BY <1>2, <1>3 DEF DutyInv, DutyTypeOK
<1>5. PublishedApart' /\ RowsOfPublished' /\ KeysApart(replacement)'
  BY <1>2 DEF DutyInv, PublishedApart, Conflicts, SameDates, RowsOfPublished
<1>6. AssignmentsEffective'
  BY <1>2 DEF DutyInv, DutyTypeOK, AssignmentsEffective, Effective
<1>7. ASSUME NEW p \in Periods, period'[p].status = "published" PROVE Covered(p, assignment', replacement')
  <2>1. Covered(p, assignment, replacement) /\ p # k.period
    BY <1>2, <1>7 DEF DutyInv, CoverStands
  <2>2. \A l \in Keys : l.period = p => assignment'[l] = assignment[l]
    BY <1>2, <2>1 DEF DutyInv, DutyTypeOK
  <2> QED
    BY <1>2, <2>1, <2>2, CoverOfRoster
<1> QED
  BY <1>3, <1>4, <1>5, <1>6, <1>7 DEF DutyInv, CoverStands

\* A roster is published whole, and beside it nothing of the same dates.
LEMMA PublishKeeps ==
  ASSUME DutyInv, NEW c \in Clients, Publish(c)
  PROVE  DutyInv'
<1> DEFINE p == call[c].period
<1>1. call[c] \in Calls /\ call[c].op = "publish"
  BY DEF Publish, DutyInv, DutyTypeOK
<1>2. /\ p \in Periods /\ Publishable(p) /\ period' = [period EXCEPT ![p].status = "published"]
      /\ End(c) /\ UNCHANGED <<assignment, until, replacement>>
  BY <1>1, CallShapes DEF Publish
<1>3. call' \in [Clients -> Calls] /\ CallsKnow'
  BY <1>2, EndForgets
<1>4. /\ period[p].status = "draft" /\ Conflicts(p) = {} /\ ApartOf(DutiesOf(p, assignment), {}, assignment)
  BY <1>2, OfTheModel DEF Publishable, WindowsOK
<1>5. /\ period' \in [Periods -> [status : {"none", "draft", "published", "cancelled"}, from : Dates, to : Dates]]
      /\ period'[p].status = "published"
      /\ \A q \in Periods : period'[q].from = period[q].from /\ period'[q].to = period[q].to
      /\ \A q \in Periods \ {p} : period'[q].status = period[q].status
  BY <1>2 DEF DutyInv, DutyTypeOK
<1>6. DutyTypeOK'
  BY <1>2, <1>3, <1>5 DEF DutyInv, DutyTypeOK
<1>7. PublishedApart'
  <2>1. ASSUME NEW q \in Periods, period'[q].status = "published", NEW o \in Conflicts(q)' PROVE FALSE
    <3>1. /\ o \in Periods /\ o # q /\ period'[o].status = "published"
          /\ period[q].from <= period[o].to /\ period[o].from <= period[q].to
      BY <1>5, <2>1 DEF Conflicts, SameDates
    <3>2. CASE q = p
      BY <1>4, <1>5, <3>1, <3>2 DEF Conflicts, SameDates
    <3>3. CASE o = p
      BY <1>4, <1>5, <2>1, <3>1, <3>3 DEF Conflicts, SameDates
    <3>4. CASE q # p /\ o # p
      BY <1>5, <2>1, <3>1, <3>4 DEF DutyInv, PublishedApart, Conflicts, SameDates
    <3> QED
      BY <3>2, <3>3, <3>4
  <2> QED
    BY <2>1 DEF PublishedApart
<1>8. AssignmentsEffective' /\ KeysApart(replacement)'
  BY <1>2 DEF DutyInv, AssignmentsEffective, Effective
<1>9. RowsOfPublished'
  BY <1>2, <1>4, <1>5 DEF DutyInv, DutyTypeOK, RowsOfPublished, Replacement, Keys
<1>10. ASSUME NEW q \in Periods, period'[q].status = "published" PROVE Covered(q, assignment', replacement')
  <2>1. CASE q = p
    <3>1. InPeriod(p, replacement) = {}
      BY <1>4 DEF DutyInv, RowsOfPublished, InPeriod
    <3> QED
      BY <1>2, <1>4, <2>1, <3>1, CoverOfNone
  <2>2. CASE q # p
    BY <1>2, <1>5, <1>10, <2>2 DEF DutyInv, CoverStands
  <2> QED
    BY <2>1, <2>2
<1> QED
  BY <1>3, <1>6, <1>7, <1>8, <1>9, <1>10 DEF DutyInv, CoverStands

\* Cancelling a period asks nothing of its replacements.
LEMMA CancelPeriodKeeps ==
  ASSUME DutyInv, NEW c \in Clients, CancelPeriod(c)
  PROVE  DutyInv'
<1> DEFINE p == call[c].period
<1>1. call[c] \in Calls /\ call[c].op = "cancel period"
  BY DEF CancelPeriod, DutyInv, DutyTypeOK
<1>2. /\ p \in Periods /\ period' = [period EXCEPT ![p].status = "cancelled"]
      /\ End(c) /\ UNCHANGED <<assignment, until, replacement>>
  BY <1>1, CallShapes DEF CancelPeriod
<1>3. call' \in [Clients -> Calls] /\ CallsKnow'
  BY <1>2, EndForgets
<1>4. /\ period' \in [Periods -> [status : {"none", "draft", "published", "cancelled"}, from : Dates, to : Dates]]
      /\ period'[p].status = "cancelled"
      /\ \A q \in Periods : period'[q].from = period[q].from /\ period'[q].to = period[q].to
      /\ \A q \in Periods \ {p} : period'[q].status = period[q].status
  BY <1>2 DEF DutyInv, DutyTypeOK
<1>5. DutyTypeOK'
  BY <1>2, <1>3, <1>4 DEF DutyInv, DutyTypeOK
<1>6. \A q \in Periods : period'[q].status = "published" => period[q].status = "published"
  BY <1>4
<1>7. PublishedApart'
  BY <1>4, <1>6 DEF DutyInv, PublishedApart, Conflicts, SameDates
<1>8. AssignmentsEffective' /\ KeysApart(replacement)'
  BY <1>2 DEF DutyInv, AssignmentsEffective, Effective
<1>9. RowsOfPublished'
  BY <1>2, <1>4 DEF DutyInv, DutyTypeOK, RowsOfPublished, Replacement, Keys
<1>10. CoverStands'
  BY <1>2, <1>6 DEF DutyInv, CoverStands
<1> QED
  BY <1>3, <1>5, <1>7, <1>8, <1>9, <1>10 DEF DutyInv

\* A version is not closed before the last assignment that uses it.
LEMMA CloseKeeps ==
  ASSUME DutyInv, NEW c \in Clients, Close(c)
  PROVE  DutyInv'
<1> DEFINE version == call[c].version
           to == call[c].to
<1>1. call[c] \in Calls /\ call[c].op = "close"
  BY DEF Close, DutyInv, DutyTypeOK
<1>2. /\ version \in Catalog /\ to \in Dates /\ until' = [until EXCEPT ![version] = to]
      /\ \A k \in Keys : assignment[k] = version => k.date <= to
      /\ End(c) /\ UNCHANGED <<period, assignment, replacement>>
  BY <1>1, CallShapes DEF Close
<1>3. call' \in [Clients -> Calls] /\ CallsKnow'
  BY <1>2, EndForgets
<1>4. DutyTypeOK'
  BY <1>2, <1>3, DutyAssumption DEF DutyInv, DutyTypeOK, Dates
<1>5. PublishedApart' /\ RowsOfPublished' /\ KeysApart(replacement)' /\ CoverStands'
  BY <1>2 DEF DutyInv, PublishedApart, Conflicts, SameDates, RowsOfPublished, CoverStands
<1>6. AssignmentsEffective'
  BY <1>2 DEF DutyInv, DutyTypeOK, AssignmentsEffective, Effective
<1> QED
  BY <1>3, <1>4, <1>5, <1>6 DEF DutyInv

\* A replacement is proposed for assignments that no other uses, and the duties of its
\* period are apart with it.
LEMMA ProposeKeeps ==
  ASSUME DutyInv, NEW c \in Clients, Propose(c)
  PROVE  DutyInv'
<1> DEFINE r == call[c].replacement
           p == r.original.period
           n == Len(replacement) + 1
<1>1. call[c] \in Calls /\ call[c].op = "propose"
  BY DEF Propose, DutyInv, DutyTypeOK
<1>2. /\ r \in Replacement /\ Acceptable(r, Active(p, Rows)) /\ replacement' = Append(replacement, r)
      /\ Len(replacement) < MaxReplacements /\ replacement \in Seq(Replacement)
      /\ End(c) /\ UNCHANGED <<period, assignment, until>>
  BY <1>1, CallShapes DEF Propose, DutyInv, DutyTypeOK
<1>3. /\ replacement' \in Seq(Replacement) /\ Len(replacement') = n /\ DOMAIN replacement' = DOMAIN replacement \cup {n}
      /\ n \notin DOMAIN replacement /\ replacement'[n] = r
      /\ \A i \in DOMAIN replacement : replacement'[i] = replacement[i]
  BY <1>2
<1>4. call' \in [Clients -> Calls] /\ CallsKnow'
  BY <1>2, <1>3, EndForgets
<1>5. DutyTypeOK'
  BY <1>2, <1>3, <1>4, DutyAssumption DEF DutyInv, DutyTypeOK
<1>6. PublishedApart' /\ AssignmentsEffective'
  BY <1>2 DEF DutyInv, PublishedApart, Conflicts, SameDates, AssignmentsEffective, Effective
<1>7. /\ period[p].status = "published" /\ r.back # r.original
      /\ \A o \in Active(p, Rows) : {o.original, o.back} \cap ({r.original, r.back} \ {Nothing}) = {}
      /\ WindowsOK(p, Active(p, Rows) \cup {r})
      /\ r.original \in Keys /\ r.original # Nothing
  <2>1. r.original \in Keys /\ r.original # Nothing
    BY <1>2, DutyAssumption DEF Replacement, Acceptable
  <2>2. r.back # r.original
    BY <1>2, <2>1 DEF Acceptable
  <2> QED
    BY <1>2, <2>1, <2>2 DEF Acceptable
<1>8. RowsOfPublished'
  BY <1>2, <1>3, <1>7 DEF DutyInv, RowsOfPublished
<1>9. KeysApart(replacement')
  <2>1. ASSUME NEW i \in InPeriod(p, replacement), replacement[i].status # "cancelled"
        PROVE  /\ replacement[i].original \notin {r.original, r.back} /\ replacement[i].back # r.original
               /\ replacement[i].back # Nothing => replacement[i].back # r.back
    <3>1. replacement[i] \in Active(p, Rows)
      BY <2>1 DEF Active, Rows, InPeriod
    <3>2. replacement[i].original # Nothing
      <4>1. replacement[i] \in Replacement
        BY <2>1, <1>2 DEF InPeriod
      <4> QED
        BY <4>1, DutyAssumption DEF Replacement
    <3> QED
      BY <1>7, <3>1, <3>2
  <2>2. KeysApart(replacement)
    BY DEF DutyInv
  <2>3. ASSUME NEW q \in Periods, NEW i \in InPeriod(q, replacement'), NEW j \in InPeriod(q, replacement'), i # j,
               replacement'[i].status # "cancelled", replacement'[j].status # "cancelled"
        PROVE  /\ replacement'[i].original # replacement'[j].original /\ replacement'[i].original # replacement'[j].back
               /\ replacement'[i].back # Nothing => replacement'[i].back # replacement'[j].back
    <3>1. CASE i # n /\ j # n
      BY <1>3, <2>2, <2>3, <3>1 DEF KeysApart, InPeriod
    <3>2. CASE i = n
      BY <1>3, <2>1, <2>3, <3>2 DEF InPeriod
    <3>3. CASE j = n
      BY <1>3, <2>1, <2>3, <3>3 DEF InPeriod
    <3> QED
      BY <3>1, <3>2, <3>3
  <2>4. \A i \in DOMAIN replacement' : replacement'[i].status # "cancelled" => replacement'[i].back # replacement'[i].original
    BY <1>3, <1>7, <2>2 DEF KeysApart
  <2> QED
    BY <2>3, <2>4 DEF KeysApart
<1>10. ASSUME NEW q \in Periods, period'[q].status = "published" PROVE Covered(q, assignment', replacement')
  <2>1. CASE q # p
    <3>1. InPeriod(q, replacement') = InPeriod(q, replacement)
      BY <1>3, <2>1 DEF InPeriod
    <3>2. \A i \in InPeriod(q, replacement) : replacement'[i] = replacement[i]
      BY <1>3 DEF InPeriod
    <3>3. RowsOf(q, replacement') = RowsOf(q, replacement)
      BY <3>1, <3>2 DEF RowsOf
    <3>4. Covered(q, assignment, replacement)
      BY <1>2, <1>10 DEF DutyInv, CoverStands
    <3> QED
      BY <1>2, <3>1, <3>2, <3>3, <3>4 DEF Covered
  <2>2. CASE q = p
    <3>1. SUFFICES ASSUME \A i \in InPeriod(p, replacement') : replacement'[i].status # "cancelled"
                   PROVE  ApartOf(DutiesOf(p, assignment'), RowsOf(p, replacement'), assignment')
      BY <2>2 DEF Covered
    <3>2. RowsOf(p, replacement') = Active(p, Rows) \cup {r}
      <4>1. InPeriod(p, replacement') = InPeriod(p, replacement) \cup {n}
        BY <1>3 DEF InPeriod
      <4>2. RowsOf(p, replacement') = RowsOf(p, replacement) \cup {r}
        BY <1>3, <4>1 DEF RowsOf, InPeriod
      <4>3. RowsOf(p, replacement) = Active(p, Rows)
        BY <1>3, <3>1, <4>1 DEF RowsOf, Active, Rows, InPeriod
      <4> QED
        BY <4>2, <4>3
    <3>3. Apart(Duties(p), Active(p, Rows) \cup {r})
      BY <1>7 DEF WindowsOK
    <3> QED
      BY <1>2, <3>2, <3>3, OfTheModel
  <2> QED
    BY <2>1, <2>2
<1> QED
  BY <1>4, <1>5, <1>6, <1>8, <1>9, <1>10 DEF DutyInv, CoverStands

\* A decision changes the status of one replacement, and with it nobody's duty unless it is
\* cancelled.
LEMMA DecideKeeps ==
  ASSUME DutyInv, NEW c \in Clients, Decide(c)
  PROVE  DutyInv'
<1> DEFINE i == call[c].index
           to == IF call[c].op = "approve" THEN "approved" ELSE "cancelled"
<1>1. call[c] \in Calls /\ call[c].op \in {"approve", "cancel"}
  BY DEF Decide, DutyInv, DutyTypeOK
<1>2. /\ i \in DOMAIN replacement /\ replacement[i].status \in {"proposed", "approved"}
      /\ replacement' = [replacement EXCEPT ![i].status = to] /\ replacement \in Seq(Replacement)
      /\ End(c) /\ UNCHANGED <<period, assignment, until>>
  BY <1>1, CallShapes DEF Decide, DutyInv, DutyTypeOK, CallsKnow
<1>3. /\ replacement' \in Seq(Replacement) /\ Len(replacement') = Len(replacement)
      /\ DOMAIN replacement' = DOMAIN replacement
      /\ \A j \in DOMAIN replacement : /\ replacement'[j].original = replacement[j].original
                                       /\ replacement'[j].back = replacement[j].back
                                       /\ replacement'[j].by = replacement[j].by
                                       /\ replacement'[j].shift = replacement[j].shift
                                       /\ replacement'[j].status # "cancelled" => replacement[j].status # "cancelled"
  <2> HIDE DEF to
  <2>1. to \in {"approved", "cancelled"}
    BY DEF to
  <2>2. replacement[i] \in Replacement /\ DOMAIN replacement = 1..Len(replacement) /\ Len(replacement) \in Nat
    BY <1>2
  <2> DEFINE decided == [replacement[i] EXCEPT !.status = to]
  <2>3. /\ decided \in Replacement /\ decided.original = replacement[i].original /\ decided.back = replacement[i].back
        /\ decided.by = replacement[i].by /\ decided.shift = replacement[i].shift /\ decided.status = to
    BY <2>1, <2>2, SMT DEF Replacement
  <2>4. replacement' = [replacement EXCEPT ![i] = decided]
    BY <1>2
  <2> HIDE DEF decided
  <2> QED
    BY <1>2, <2>2, <2>3, <2>4
<1>4. call' \in [Clients -> Calls] /\ CallsKnow'
  BY <1>2, <1>3, EndForgets
<1>5. DutyTypeOK'
  BY <1>2, <1>3, <1>4 DEF DutyInv, DutyTypeOK
<1>6. PublishedApart' /\ AssignmentsEffective' /\ RowsOfPublished'
  BY <1>2, <1>3 DEF DutyInv, PublishedApart, Conflicts, SameDates, AssignmentsEffective, Effective, RowsOfPublished
<1>7. \A p : InPeriod(p, replacement') = InPeriod(p, replacement)
  BY <1>3 DEF InPeriod
<1>8. KeysApart(replacement')
  BY <1>3, <1>7 DEF DutyInv, KeysApart, InPeriod
<1>9. ASSUME NEW p \in Periods, period'[p].status = "published" PROVE Covered(p, assignment', replacement')
  <2> DEFINE I == InPeriod(p, replacement)
  <2>1. SUFFICES ASSUME \A j \in I : replacement'[j].status # "cancelled"
                 PROVE  ApartOf(DutiesOf(p, assignment), RowsOf(p, replacement'), assignment)
    BY <1>2, <1>7 DEF Covered
  <2>2. \A j \in I : replacement[j].status # "cancelled" /\ j \in DOMAIN replacement
    BY <1>3, <2>1 DEF InPeriod
  <2>3. ApartOf(DutiesOf(p, assignment), RowsOf(p, replacement), assignment)
    BY <1>2, <1>9, <2>2 DEF DutyInv, CoverStands, Covered
  <2>4. Exclusive(RowsOf(p, replacement)) /\ Exclusive(RowsOf(p, replacement'))
    BY <1>7, <1>8, <2>1, <2>2, RowsAreExclusive DEF DutyInv
  <2>5. Alike(RowsOf(p, replacement), RowsOf(p, replacement'))
    BY <1>3, <1>7, <2>2 DEF Alike, SameDuties, RowsOf
  <2>7. ASSUME NEW k \in DutiesOf(p, assignment)
        PROVE  /\ Worker(k, RowsOf(p, replacement)) = Worker(k, RowsOf(p, replacement'))
               /\ WorkedOf(k, RowsOf(p, replacement), assignment) = WorkedOf(k, RowsOf(p, replacement'), assignment)
    <3>1. k # Nothing
      BY <2>7, DutyAssumption DEF DutiesOf
    <3> QED
      BY <2>4, <2>5, <3>1, SameWorkers
  <2> QED
    BY <2>3, <2>7 DEF ApartOf
<1> QED
  BY <1>2, <1>4, <1>5, <1>6, <1>8, <1>9 DEF DutyInv, CoverStands

\* Reads, transactions and refusals keep it all.
LEMMA DutyStays ==
  ASSUME DutyInv, [DutyNext]_dutyVars
  PROVE  DutyInv'
<1> USE DutyAssumption
<1>0. DutyTypeOK
  BY DEF DutyInv
<1>1. ASSUME NEW p \in Periods, NEW from \in Dates, NEW to \in Dates, CreatePeriod(p, from, to) PROVE DutyInv'
  <2>1. /\ period[p].status = "none" /\ period' = [period EXCEPT ![p] = [status |-> "draft", from |-> from, to |-> to]]
        /\ UNCHANGED <<assignment, until, replacement, call>>
    BY <1>1 DEF CreatePeriod
  <2>2. /\ period' \in [Periods -> [status : {"none", "draft", "published", "cancelled"}, from : Dates, to : Dates]]
        /\ period'[p].status = "draft" /\ \A q \in Periods \ {p} : period'[q] = period[q]
    BY <1>0, <1>1, <2>1 DEF DutyTypeOK
  <2>3. DutyTypeOK'
    BY <1>0, <2>1, <2>2 DEF DutyTypeOK
  <2>4. PublishedApart'
    BY <2>2 DEF DutyInv, PublishedApart, Conflicts, SameDates
  <2>5. AssignmentsEffective' /\ KeysApart(replacement)' /\ CallsKnow'
    BY <2>1 DEF DutyInv, AssignmentsEffective, Effective, CallsKnow
  <2>6. RowsOfPublished'
    BY <2>1, <2>2 DEF DutyInv, DutyTypeOK, RowsOfPublished, Replacement, Keys
  <2>7. CoverStands'
    BY <2>1, <2>2 DEF DutyInv, CoverStands
  <2> QED
    BY <2>3, <2>4, <2>5, <2>6, <2>7 DEF DutyInv
<1>2. ASSUME NEW c \in Clients, NEW k \in Keys, NEW target \in Catalog, ReadAssignment(c, k, target) PROVE DutyInv'
  <2> DEFINE what == [op |-> "assign", key |-> k, target |-> target, known |-> assignment[k] # Nothing]
  <2>1. what \in Calls /\ what.op = "assign"
    BY <1>2 DEF Calls
  <2> QED
    BY <1>2, <2>1, OnlyReads DEF ReadAssignment, Begin
<1>3. ASSUME NEW c \in Clients, NEW p \in Periods, ReadPublish(c, p) PROVE DutyInv'
  <2> DEFINE what == [op |-> "publish", period |-> p]
  <2>1. what \in Calls /\ what.op = "publish"
    BY <1>3 DEF Calls
  <2> QED
    BY <1>3, <2>1, OnlyReads DEF ReadPublish, Begin
<1>4. ASSUME NEW c \in Clients, NEW p \in Periods, ReadCancelPeriod(c, p) PROVE DutyInv'
  <2> DEFINE what == [op |-> "cancel period", period |-> p, was |-> period[p].status]
  <2>1. what \in Calls /\ what.op = "cancel period"
    BY <1>4 DEF Calls, ReadCancelPeriod
  <2> QED
    BY <1>4, <2>1, OnlyReads DEF ReadCancelPeriod, Begin
<1>5. ASSUME NEW c \in Clients, NEW version \in Catalog, NEW to \in Dates, ReadClose(c, version, to) PROVE DutyInv'
  <2> DEFINE what == [op |-> "close", version |-> version, to |-> to]
  <2>1. what \in Calls /\ what.op = "close"
    BY <1>5 DEF Calls
  <2> QED
    BY <1>5, <2>1, OnlyReads DEF ReadClose, Begin
<1>6. ASSUME NEW c \in Clients, NEW p \in Periods, NEW by \in People, NEW shift \in Shifts \cup {Nothing},
             NEW k \in Duties(p), NEW back \in Duties(p) \cup {Nothing}, ReadPropose(c, k, by, back, shift)
      PROVE  DutyInv'
  <2> DEFINE r == [original |-> k, back |-> back, by |-> by, shift |-> shift, status |-> "proposed"]
             what == [op |-> "propose", replacement |-> r]
  <2>1. Duties(p) \subseteq Keys
    BY DEF Duties, Assigned
  <2>2. r \in Replacement
    BY <1>6, <2>1 DEF Replacement
  <2> HIDE DEF r
  <2>3. what \in Calls /\ what.op = "propose"
    BY <2>2 DEF Calls
  <2>4. call' = [call EXCEPT ![c] = what] /\ UNCHANGED <<period, assignment, until, replacement>>
    BY <1>6 DEF ReadPropose, Begin, r
  <2> QED
    BY <1>6, <2>3, <2>4, OnlyReads
<1>7. ASSUME NEW c \in Clients, NEW i \in DOMAIN replacement, ReadApprove(c, i) \/ ReadCancel(c, i) PROVE DutyInv'
  <2>1. i \in 1..MaxReplacements /\ replacement[i].status \in {"proposed", "approved", "cancelled"}
    <3>1. replacement \in Seq(Replacement) /\ Len(replacement) <= MaxReplacements /\ MaxReplacements \in Nat
      BY <1>0, DutyAssumption DEF DutyInv, DutyTypeOK
    <3>2. DOMAIN replacement = 1..Len(replacement) /\ Len(replacement) \in Nat
      BY <3>1
    <3>3. i \in 1..Len(replacement)
      BY <1>7, <3>2
    <3>4. replacement[i] \in Replacement
      BY <3>1, <3>3
    <3>5. replacement[i].status \in {"proposed", "approved", "cancelled"}
      BY <3>4 DEF Replacement
    <3> QED
      BY <3>1, <3>2, <3>3, <3>5
  <2>2. \E what \in Calls : /\ what.op \in {"approve", "cancel"} /\ what.index = i
                           /\ call' = [call EXCEPT ![c] = what] /\ UNCHANGED <<period, assignment, until, replacement>>
    <3>1. CASE ReadApprove(c, i)
      <4> DEFINE what == [op |-> "approve", index |-> i, was |-> "proposed"]
      <4>1. what \in Calls /\ what.op = "approve" /\ what.index = i
        BY <2>1 DEF Calls
      <4> QED
        BY <3>1, <4>1 DEF ReadApprove, Begin
    <3>2. CASE ReadCancel(c, i)
      <4> DEFINE what == [op |-> "cancel", index |-> i, was |-> replacement[i].status]
      <4>1. what \in Calls /\ what.op = "cancel" /\ what.index = i
        BY <2>1, <3>2 DEF Calls, ReadCancel
      <4> QED
        BY <3>2, <4>1 DEF ReadCancel, Begin
    <3> QED
      BY <1>7, <3>1, <3>2
  <2> QED
    BY <1>7, <2>2, OnlyReads
<1>8. ASSUME NEW c \in Clients, Abandon(c) PROVE DutyInv'
  <2>1. NoCall \in Calls /\ NoCall.op = "idle"
    BY DEF Calls, NoCall
  <2> QED
    BY <1>8, <2>1, OnlyReads DEF Abandon, End
<1>9. CASE UNCHANGED dutyVars
  BY <1>9 DEF dutyVars, DutyInv, DutyTypeOK, PublishedApart, Conflicts, SameDates, AssignmentsEffective, Effective,
     RowsOfPublished, CallsKnow, CoverStands
<1> QED
  BY <1>1, <1>2, <1>3, <1>4, <1>5, <1>6, <1>7, <1>8, <1>9, AssignKeeps, PublishKeeps, CancelPeriodKeeps, CloseKeeps,
     ProposeKeeps, DecideKeeps DEF DutyNext, RosterNext, ReplacementNext

\* Periods, assignments, replacements and the calls under way belong together in every
\* reachable state (platform/duty/repository.ts).
THEOREM DutyInvariance == DutySpec => []DutyInv
<1>1. DutyInv /\ [DutyNext]_dutyVars => DutyInv'
  BY DutyStays
<1> QED
  BY <1>1, DutyStarts, PTL DEF DutySpec

\* For any people, catalog and calendar: when all replacements of a published period are
\* approved, nobody has two duties at a time and no assignment is part of two replacements
\* (platform/duty/repository.ts:605-650).
THEOREM CoverIsSound == DutySpec => []CoverHolds
<1>1. ASSUME DutyInv PROVE CoverHolds
  <2>1. ASSUME NEW p \in Periods, period[p].status = "published",
               \A r \in RowsOf(p, replacement) : r.status = "approved"
        PROVE  /\ Apart(Duties(p), RowsOf(p, replacement))
               /\ \A k \in Duties(p) : Cardinality(Outgoing(k, RowsOf(p, replacement)))
                                       + Cardinality(Returning(k, RowsOf(p, replacement))) <= 1
    <3>1. \A i \in InPeriod(p, replacement) : replacement[i].status # "cancelled"
      BY <2>1 DEF RowsOf
    <3>2. ApartOf(DutiesOf(p, assignment), RowsOf(p, replacement), assignment)
      BY <1>1, <2>1, <3>1 DEF DutyInv, CoverStands, Covered
    <3>3. Apart(Duties(p), RowsOf(p, replacement))
      BY <3>2, OfTheModel
    <3>4. Exclusive(RowsOf(p, replacement))
      BY <1>1, <3>1, RowsAreExclusive DEF DutyInv
    <3>5. \A k \in Duties(p) : k # Nothing
      BY DutyAssumption DEF Duties, Assigned
    <3> QED
      BY <3>3, <3>4, <3>5, OneRowEach
  <2>2. \A p \in Periods : {r \in Rows : r.original.period = p} = RowsOf(p, replacement)
    BY OfTheModel
  <2> QED
    BY <2>1, <2>2 DEF CoverHolds
<1> QED
  BY <1>1, DutyInvariance, PTL

\* Only a cancellation changes a published period.
LEMMA PublishedStaysFixed ==
  ASSUME DutyInv, [DutyNext]_dutyVars, NEW p \in Periods
  PROVE  /\ period[p].status = "published" =>
              /\ period'[p].status \in {"published", "cancelled"}
              /\ \A k \in Keys : k.period = p => assignment'[k] = assignment[k]
         /\ period[p].status = "cancelled" => period'[p] = period[p]
<1>0. DutyTypeOK
  BY DEF DutyInv
<1>1. ASSUME NEW c \in Clients, Assign(c) PROVE UNCHANGED period /\ \A k \in Keys :
               period[k.period].status # "draft" => assignment'[k] = assignment[k]
  BY <1>0, <1>1 DEF Assign, Store, DutyTypeOK
<1>2. ASSUME NEW c \in Clients, Publish(c) \/ CancelPeriod(c)
      PROVE  /\ UNCHANGED assignment
             /\ period'[p] = period[p] \/ (period[p].status \in {"draft", "published"} /\ period'[p].status \in {"published", "cancelled"})
  <2>1. call[c] \in Calls
    BY <1>0, <1>2 DEF DutyTypeOK
  <2>2. CASE Publish(c)
    BY <1>0, <2>2 DEF Publish, Publishable, DutyTypeOK
  <2>3. CASE CancelPeriod(c)
    <3>1. call[c].op = "cancel period" /\ call[c].was \in {"draft", "published"}
      BY <2>1, <2>3, CallShapes DEF CancelPeriod
    <3> QED
      BY <1>0, <2>3, <3>1 DEF CancelPeriod, DutyTypeOK
  <2> QED
    BY <1>2, <2>2, <2>3
<1>3. ASSUME NEW q \in Periods, NEW from \in Dates, NEW to \in Dates, CreatePeriod(q, from, to)
      PROVE  UNCHANGED assignment /\ (period'[p] = period[p] \/ period[p].status = "none")
  BY <1>0, <1>3 DEF CreatePeriod, DutyTypeOK
<1>4. ASSUME NEW c \in Clients,
             \/ Close(c) \/ Propose(c) \/ Decide(c) \/ Abandon(c)
             \/ \E k \in Keys, target \in Catalog : ReadAssignment(c, k, target)
             \/ \E q \in Periods : ReadPublish(c, q) \/ ReadCancelPeriod(c, q)
             \/ \E version \in Catalog, to \in Dates : ReadClose(c, version, to)
             \/ \E k, back : \E by \in People, shift \in Shifts \cup {Nothing} : ReadPropose(c, k, by, back, shift)
             \/ \E i \in DOMAIN replacement : ReadApprove(c, i) \/ ReadCancel(c, i)
      PROVE  UNCHANGED <<period, assignment>>
  BY <1>4 DEF Close, Propose, Decide, Abandon, ReadAssignment, ReadPublish, ReadCancelPeriod, ReadClose, ReadPropose,
     ReadApprove, ReadCancel
<1>5. CASE UNCHANGED dutyVars
  BY <1>5 DEF dutyVars
<1>6. \A k \in Keys : k.period = p /\ period[p].status # "draft" => period[k.period].status # "draft"
  OBVIOUS
<1> QED
  BY <1>1, <1>2, <1>3, <1>4, <1>5, <1>6 DEF DutyNext, RosterNext, ReplacementNext

\* What is published is apart from other periods, effective, and stays as it was, for any
\* interleaving of edits, publications and closures (platform/duty/repository.ts:273-275,
\* 421-427).
THEOREM PublishedRostersHold == DutySpec => PublishedRosters
<1> DEFINE Fixed == \A p \in Periods :
             /\ period[p].status = "published" =>
                  /\ period'[p].status \in {"published", "cancelled"}
                  /\ \A k \in Keys : k.period = p => assignment'[k] = assignment[k]
             /\ period[p].status = "cancelled" => period'[p] = period[p]
<1>1. ASSUME DutyInv, [DutyNext]_dutyVars PROVE Fixed
  BY <1>1, PublishedStaysFixed
<1>2. DutyInv => PublishedApart /\ AssignmentsEffective
  BY DEF DutyInv
<1> HIDE DEF Fixed
<1>3. DutyInv /\ [DutyNext]_dutyVars => [Fixed]_dutyVars
  BY <1>1
<1>4. DutySpec => [](PublishedApart /\ AssignmentsEffective) /\ [][Fixed]_dutyVars
  BY <1>2, <1>3, DutyInvariance, PTL DEF DutySpec
<1> QED
  BY <1>4 DEF Fixed, PublishedRosters, PublishedIsFixed
-----------------------------------------------------------------------------
(*****************************************************************************)
(* Data alignment: AlignmentHolds and AlignmentMoves.  What makes the        *)
(* invariant inductive is what the commands carry (Carried): the verdict on  *)
(* a run agrees with the counts it was given for, whatever has been recorded *)
(* since, and a checkpoint is advanced by a run that has succeeded, which no *)
(* step takes back.                                                          *)
(*****************************************************************************)
CarriedBy(m, runs) ==
  /\ m.op = "complete" => /\ m.run \in DOMAIN runs
                          /\ m.status = "succeeded" => Covers(m.counted, runs[m.run].wanted)
                          /\ m.status = "partial" => ~Covers(m.counted, runs[m.run].wanted)
  /\ m.op = "advance" => /\ m.run \in DOMAIN runs
                         /\ runs[m.run].status = "succeeded" /\ runs[m.run].profile = m.profile

Carried == \A c \in Callers : CarriedBy(command[c], run)

Fresh == \A p \in Profiles : checkpoint[p].version = 0 => checkpoint[p].watermark = 0

AlignmentInv == AlignmentHolds /\ Carried /\ Fresh

\* What every step keeps of the runs there are.
RunsKept ==
  /\ DOMAIN run \subseteq DOMAIN run'
  /\ \A r \in DOMAIN run :
       /\ run'[r].profile = run[r].profile /\ run'[r].request = run[r].request /\ run'[r].wanted = run[r].wanted
       /\ run[r].status = "succeeded" => run'[r].status = "succeeded"

\* The fields of a command are those of its operation.
LEMMA CommandFields ==
  ASSUME NEW m \in Command
  PROVE  /\ m.op = "rule" => m.rule \in Rules /\ m.from \in Times /\ m.to \in Ends
         /\ m.op = "draft" => m.profile \in Profiles /\ m.rule \in Rules
         /\ m.op = "publish" => m.profile \in Profiles /\ m.at \in Times
         /\ m.op = "run" => /\ m.profile \in Profiles /\ m.request \in Requests
                            /\ m.wanted \in 0..Cardinality(Records) /\ m.at \in Times
         /\ m.op = "complete" => m.run \in Nat /\ m.status \in Ended /\ m.counted \in Counts /\ m.at \in Times
         /\ m.op = "advance" => /\ m.profile \in Profiles /\ m.run \in Nat
                                /\ m.watermark \in 0..MaxTime /\ m.seen \in Nat
BY DEF Command, NoCommand

\* A step that changes one run leaves the others, and their number.
LEMMA OneRunChanges ==
  ASSUME run \in Seq(Run), NEW r \in DOMAIN run, NEW new \in Run, run' = [run EXCEPT ![r] = new]
  PROVE  /\ run' \in Seq(Run) /\ DOMAIN run' = DOMAIN run /\ run'[r] = new
         /\ \A s \in DOMAIN run : s # r => run'[s] = run[s]
OBVIOUS

\* Runs have finitely many results, and their counts are numbers.
LEMMA CountsAreNumbers ==
  ASSUME NEW results
  PROVE  Counted(results) \in Counts /\ IsFiniteSet(Recorded(results))
<1>1. IsFiniteSet(Recorded(results)) /\ IsFiniteSet({k \in Records : results[k] \in Conflicted})
        /\ IsFiniteSet({k \in Records : results[k] = "failed"})
  BY AlignmentAssumption, FS_Subset DEF Recorded
<1> QED
  BY <1>1, FS_CardinalityType DEF Counted, Counts

\* A decision changes no count.
LEMMA DecisionsCountAsConflicts ==
  ASSUME NEW results \in [Records -> Outcomes \cup {"none"}], NEW k \in Records, NEW decision \in Decisions,
         results[k] = "open"
  PROVE  /\ Counted([results EXCEPT ![k] = decision]) = Counted(results)
         /\ Recorded([results EXCEPT ![k] = decision]) = Recorded(results)
<1> DEFINE new == [results EXCEPT ![k] = decision]
<1>1. decision # "none" /\ decision # "failed" /\ decision \in Conflicted /\ "open" \in Conflicted
  BY AlignmentAssumption DEF Conflicted
<1>2. \A j \in Records : /\ (new[j] # "none") = (results[j] # "none")
                         /\ (new[j] \in Conflicted) = (results[j] \in Conflicted)
                         /\ (new[j] = "failed") = (results[j] = "failed")
  BY <1>1
<1> HIDE DEF new
<1>3. /\ Recorded(new) = Recorded(results)
      /\ {j \in Records : new[j] \in Conflicted} = {j \in Records : results[j] \in Conflicted}
      /\ {j \in Records : new[j] = "failed"} = {j \in Records : results[j] = "failed"}
  BY <1>2 DEF Recorded
<1>4. Counted(new) = Counted(results)
  BY <1>3 DEF Counted
<1> QED
  BY <1>3, <1>4 DEF new

\* Recording a result adds one.
LEMMA ResultsAddOne ==
  ASSUME NEW results \in [Records -> Outcomes \cup {"none"}], NEW k \in Records, NEW outcome \in Outcomes,
         results[k] = "none"
  PROVE  Cardinality(Recorded([results EXCEPT ![k] = outcome])) = Cardinality(Recorded(results)) + 1
<1>1. outcome # "none"
  BY AlignmentAssumption DEF Outcomes, Conflicted
<1>2. Recorded([results EXCEPT ![k] = outcome]) = Recorded(results) \cup {k} /\ k \notin Recorded(results)
  BY <1>1 DEF Recorded
<1> QED
  BY <1>2, CountsAreNumbers, FS_AddElement

\* What commands carry and checkpoints stand on outlives every change of the runs.
LEMMA KeptRunsBear ==
  ASSUME RunsKept
  PROVE  /\ \A m : CarriedBy(m, run) => CarriedBy(m, run')
         /\ (CheckpointsAreEarned /\ UNCHANGED checkpoint) => CheckpointsAreEarned'
<1>1. ASSUME NEW m, CarriedBy(m, run) PROVE CarriedBy(m, run')
  BY <1>1 DEF RunsKept, CarriedBy
<1>2. ASSUME CheckpointsAreEarned, UNCHANGED checkpoint PROVE CheckpointsAreEarned'
  BY <1>2 DEF RunsKept, CheckpointsAreEarned
<1> QED
  BY <1>1, <1>2

LEMMA InitIsGood == AlignmentInit => AlignmentInv
<1> SUFFICES ASSUME AlignmentInit PROVE AlignmentInv
  OBVIOUS
<1>1. AlignmentTypeOK
  BY AlignmentAssumption DEF AlignmentInit, AlignmentTypeOK, Rule, Profile, Checkpoint, Command, Times, Ends
<1> QED
  BY <1>1 DEF AlignmentInit, AlignmentInv, AlignmentHolds, OneAuthority, OnePublished, OneRunPerRequest, RunsAddUp,
              CheckpointsAreEarned, Carried, CarriedBy, NoCommand, Fresh

-----------------------------------------------------------------------------
\* The commands after a transaction of client c, or after c's is refused.
LEMMA TheRestIsCarried ==
  ASSUME AlignmentTypeOK, Carried, RunsKept, NEW c \in Callers, Drop(c)
  PROVE  command' \in [Callers -> Command] /\ Carried'
<1>1. NoCommand \in Command /\ \A m : m = NoCommand => CarriedBy(m, run')
  BY DEF Command, NoCommand, CarriedBy
<1>2. command' \in [Callers -> Command]
  BY <1>1 DEF AlignmentTypeOK, Drop
<1>3. ASSUME NEW d \in Callers PROVE CarriedBy(command'[d], run')
  BY <1>1, KeptRunsBear DEF AlignmentTypeOK, Carried, Drop
<1> QED
  BY <1>2, <1>3 DEF Carried

LEMMA RunsStay ==
  ASSUME UNCHANGED run
  PROVE  RunsKept
BY DEF RunsKept

\* A read gives a command something to carry.
LEMMA AskKeepsIInv ==
  ASSUME AlignmentInv, NEW c \in Callers, NEW m \in Command, CarriedBy(m, run), Carry(c, m),
         UNCHANGED <<now, system, rule, profile, run, checkpoint>>
  PROVE  AlignmentInv'
<1>1. AlignmentTypeOK'
  BY DEF AlignmentInv, AlignmentHolds, AlignmentTypeOK, Carry
<1>2. Carried'
  BY DEF AlignmentInv, AlignmentHolds, AlignmentTypeOK, Carried, CarriedBy, Carry
<1> QED
  BY <1>1, <1>2 DEF AlignmentInv, AlignmentHolds, OneAuthority, OnePublished, OneRunPerRequest, RunsAddUp,
                    CheckpointsAreEarned, Fresh

LEMMA AsksKeepIInv ==
  ASSUME AlignmentInv, NEW c \in Callers,
         \/ \E r \in Rules, from \in Times, to \in Ends : AskRule(c, r, from, to)
         \/ \E p \in Profiles, r \in Rules : AskProfile(c, p, r)
         \/ \E p \in Profiles : AskPublish(c, p)
         \/ \E p \in Profiles, rid \in Requests, wanted \in 0..Cardinality(Records) : AskRun(c, p, rid, wanted)
         \/ \E r \in 1..MaxRuns, status \in Ended : AskComplete(c, r, status)
         \/ \E r \in 1..MaxRuns, watermark \in 0..MaxTime : AskAdvance(c, r, watermark)
  PROVE  AlignmentInv'
<1> USE DEF AlignmentInv, AlignmentHolds
<1>1. ASSUME NEW r \in Rules, NEW from \in Times, NEW to \in Ends, AskRule(c, r, from, to) PROVE AlignmentInv'
  <2> DEFINE m == [op |-> "rule", rule |-> r, from |-> from, to |-> to]
  <2>1. m \in Command /\ CarriedBy(m, run)
    BY DEF Command, CarriedBy
  <2> QED
    BY <1>1, <2>1, AskKeepsIInv DEF AskRule
<1>2. ASSUME NEW p \in Profiles, NEW r \in Rules, AskProfile(c, p, r) PROVE AlignmentInv'
  <2> DEFINE m == [op |-> "draft", profile |-> p, rule |-> r]
  <2>1. m \in Command /\ CarriedBy(m, run)
    BY DEF Command, CarriedBy
  <2> QED
    BY <1>2, <2>1, AskKeepsIInv DEF AskProfile
<1>3. ASSUME NEW p \in Profiles, AskPublish(c, p) PROVE AlignmentInv'
  <2> DEFINE m == [op |-> "publish", profile |-> p, at |-> now]
  <2>1. m \in Command /\ CarriedBy(m, run)
    BY DEF AlignmentTypeOK, Command, CarriedBy
  <2> QED
    BY <1>3, <2>1, AskKeepsIInv DEF AskPublish
<1>4. ASSUME NEW p \in Profiles, NEW rid \in Requests, NEW wanted \in 0..Cardinality(Records),
             AskRun(c, p, rid, wanted)
      PROVE  AlignmentInv'
  <2> DEFINE m == [op |-> "run", profile |-> p, request |-> rid, wanted |-> wanted, at |-> now]
  <2>1. m \in Command /\ CarriedBy(m, run)
    BY DEF AlignmentTypeOK, Command, CarriedBy
  <2> QED
    BY <1>4, <2>1, AskKeepsIInv DEF AskRun
<1>5. ASSUME NEW r \in 1..MaxRuns, NEW status \in Ended, AskComplete(c, r, status) PROVE AlignmentInv'
  <2> DEFINE m == [op |-> "complete", run |-> r, status |-> status, counted |-> Counted(run[r].result), at |-> now]
  <2>1. m \in Command
    BY AlignmentAssumption, CountsAreNumbers DEF AlignmentTypeOK, Command
  <2>2. CarriedBy(m, run)
    BY <1>5 DEF AskComplete, CarriedBy
  <2> QED
    BY <1>5, <2>1, <2>2, AskKeepsIInv DEF AskComplete
<1>6. ASSUME NEW r \in 1..MaxRuns, NEW watermark \in 0..MaxTime, AskAdvance(c, r, watermark) PROVE AlignmentInv'
  <2> DEFINE m == [op |-> "advance", profile |-> run[r].profile, run |-> r, watermark |-> watermark,
                   seen |-> checkpoint[run[r].profile].version]
  <2>1. run[r] \in Run /\ r \in Nat
    BY <1>6, AlignmentAssumption DEF AlignmentTypeOK, AskAdvance
  <2>2. run[r].profile \in Profiles /\ checkpoint[run[r].profile].version \in Nat
    BY <2>1 DEF AlignmentTypeOK, Run, Checkpoint
  <2>3. m \in Command
    BY <2>1, <2>2 DEF Command
  <2>4. CarriedBy(m, run)
    BY <1>6 DEF AskAdvance, CarriedBy
  <2> QED
    BY <1>6, <2>3, <2>4, AskKeepsIInv DEF AskAdvance
<1> QED
  BY <1>1, <1>2, <1>3, <1>4, <1>5, <1>6
-----------------------------------------------------------------------------
LEMMA RuleKeepsIInv ==
  ASSUME AlignmentInv, NEW c \in Callers, CreateRule(c)
  PROVE  AlignmentInv'
<1> DEFINE m == command[c]
<1>1. m.rule \in Rules /\ m.from \in Times /\ m.to \in Ends
  BY CommandFields DEF AlignmentInv, AlignmentHolds, AlignmentTypeOK, CreateRule
<1>2. rule' \in [Rules -> Rule]
  BY <1>1 DEF AlignmentInv, AlignmentHolds, AlignmentTypeOK, CreateRule, Rule
<1>3. command' \in [Callers -> Command] /\ Carried'
  BY TheRestIsCarried, RunsStay DEF AlignmentInv, AlignmentHolds, CreateRule
<1>4. OneAuthority'
  <2> SUFFICES ASSUME NEW a \in Rules, NEW b \in Rules, a # b,
                      rule'[a].status = "active", rule'[b].status = "active"
               PROVE  ~Overlap(rule'[a], rule'[b])
    BY DEF OneAuthority
  <2>1. \A r \in Rules : rule[r].status = "active" => ~Overlap(rule[r], m)
    BY DEF CreateRule, Overlapping
  <2>2. \A r \in Rules : r # m.rule => rule'[r] = rule[r]
    BY <1>1 DEF AlignmentInv, AlignmentHolds, AlignmentTypeOK, CreateRule
  <2>3. rule'[m.rule].from = m.from /\ rule'[m.rule].to = m.to
    BY <1>1 DEF AlignmentInv, AlignmentHolds, AlignmentTypeOK, CreateRule
  <2> QED
    BY <2>1, <2>2, <2>3 DEF AlignmentInv, AlignmentHolds, OneAuthority, Overlap
<1> QED
  BY <1>2, <1>3, <1>4 DEF AlignmentInv, AlignmentHolds, AlignmentTypeOK, OnePublished, OneRunPerRequest, RunsAddUp,
                          CheckpointsAreEarned, Fresh, CreateRule

LEMMA ProfileKeepsIInv ==
  ASSUME AlignmentInv, NEW c \in Callers, CreateProfile(c) \/ PublishProfile(c)
  PROVE  AlignmentInv'
<1> DEFINE m == command[c]
<1>1. m.profile \in Profiles /\ (CreateProfile(c) => m.rule \in Rules)
  BY CommandFields DEF AlignmentInv, AlignmentHolds, AlignmentTypeOK, CreateProfile, PublishProfile
<1>2. profile' \in [Profiles -> Profile]
  BY <1>1 DEF AlignmentInv, AlignmentHolds, AlignmentTypeOK, CreateProfile, PublishProfile, Profile
<1>3. command' \in [Callers -> Command] /\ Carried'
  BY TheRestIsCarried, RunsStay DEF AlignmentInv, AlignmentHolds, CreateProfile, PublishProfile
<1>4. OnePublished'
  BY <1>1 DEF AlignmentInv, AlignmentHolds, AlignmentTypeOK, Profile, OnePublished, CreateProfile, PublishProfile
<1> QED
  BY <1>2, <1>3, <1>4 DEF AlignmentInv, AlignmentHolds, AlignmentTypeOK, OneAuthority, OneRunPerRequest, RunsAddUp,
                          CheckpointsAreEarned, Fresh, CreateProfile, PublishProfile

LEMMA EndingsKeepIInv ==
  ASSUME AlignmentInv,
         \/ Tick
         \/ \E status \in {"active", "inactive"} : SetSystem(status)
         \/ \E r \in Rules, to \in Times : CloseRule(r, to)
         \/ \E p \in Profiles : RetireProfile(p)
  PROVE  AlignmentInv'
<1>1. UNCHANGED <<run, checkpoint, command>>
  BY DEF Tick, SetSystem, CloseRule, RetireProfile
<1>2. AlignmentTypeOK'
  <2>1. now' \in Times /\ system' \in {"active", "inactive"}
    <3>1. CASE Tick
      BY <3>1, AlignmentAssumption DEF AlignmentInv, AlignmentHolds, AlignmentTypeOK, Tick, Times
    <3>2. CASE ~Tick
      BY <3>2 DEF AlignmentInv, AlignmentHolds, AlignmentTypeOK, SetSystem, CloseRule, RetireProfile
    <3> QED
      BY <3>1, <3>2
  <2>2. rule' \in [Rules -> Rule]
    BY DEF AlignmentInv, AlignmentHolds, AlignmentTypeOK, Tick, SetSystem, CloseRule, RetireProfile, Ends, Rule
  <2>3. profile' \in [Profiles -> Profile]
    BY DEF AlignmentInv, AlignmentHolds, AlignmentTypeOK, Tick, SetSystem, CloseRule, RetireProfile, Profile
  <2> QED
    BY <1>1, <2>1, <2>2, <2>3 DEF AlignmentInv, AlignmentHolds, AlignmentTypeOK
<1>3. OneAuthority'
  BY DEF AlignmentInv, AlignmentHolds, AlignmentTypeOK, OneAuthority, Rule, Tick, SetSystem, CloseRule, RetireProfile
<1>4. OnePublished'
  BY DEF AlignmentInv, AlignmentHolds, AlignmentTypeOK, OnePublished, Profile, Tick, SetSystem, CloseRule, RetireProfile
<1>5. Carried'
  BY <1>1 DEF AlignmentInv, Carried
<1> QED
  BY <1>1, <1>2, <1>3, <1>4, <1>5 DEF AlignmentInv, AlignmentHolds, OneRunPerRequest, RunsAddUp, CheckpointsAreEarned, Fresh
-----------------------------------------------------------------------------
\* What is left to show of a step that changes the runs.
LEMMA RunsChange ==
  ASSUME AlignmentInv, UNCHANGED <<now, system, rule, profile, checkpoint>>, RunsKept,
         run' \in Seq(Run), command' \in [Callers -> Command] /\ Carried', OneRunPerRequest', RunsAddUp'
  PROVE  AlignmentInv'
<1>1. CheckpointsAreEarned'
  BY KeptRunsBear DEF AlignmentInv, AlignmentHolds
<1> QED
  BY <1>1 DEF AlignmentInv, AlignmentHolds, AlignmentTypeOK, OneAuthority, OnePublished, Fresh

LEMMA CreateRunKeepsIInv ==
  ASSUME AlignmentInv, NEW c \in Callers, CreateRun(c)
  PROVE  AlignmentInv'
<1> DEFINE m == command[c]
           new == run'[Len(run) + 1]
<1>1. m.profile \in Profiles /\ m.request \in Requests /\ m.wanted \in 0..Cardinality(Records) /\ m.at \in Times
  BY CommandFields DEF AlignmentInv, AlignmentHolds, AlignmentTypeOK, CreateRun
<1>2. /\ run \in Seq(Run) /\ run' \in Seq(Run) /\ DOMAIN run' = DOMAIN run \cup {Len(run) + 1}
      /\ \A r \in DOMAIN run : run'[r] = run[r]
      /\ new.profile = m.profile /\ new.request = m.request /\ new.wanted = m.wanted /\ new.status = "queued"
      /\ \A k \in Records : new.result[k] = "none"
  <2> DEFINE fresh == [profile |-> m.profile, request |-> m.request, wanted |-> m.wanted,
                       queued |-> m.at, status |-> "queued", result |-> [k \in Records |-> "none"],
                       counted |-> [processed |-> 0, conflicts |-> 0, failures |-> 0], completed |-> 0]
  <2>1. fresh \in Run
    BY <1>1, AlignmentAssumption DEF Run, Counts
  <2>2. run \in Seq(Run) /\ run' = Append(run, fresh)
    BY DEF AlignmentInv, AlignmentHolds, AlignmentTypeOK, CreateRun
  <2> QED
    BY <2>1, <2>2
<1>3. RunsKept
  BY <1>2 DEF RunsKept
<1>4. command' \in [Callers -> Command] /\ Carried'
  BY <1>3, TheRestIsCarried DEF AlignmentInv, AlignmentHolds, CreateRun
<1>5. OneRunPerRequest'
  <2>1. \A r \in DOMAIN run : ~(run[r].profile = m.profile /\ run[r].request = m.request)
    BY DEF CreateRun, Requested
  <2> QED
    BY <1>2, <2>1 DEF AlignmentInv, AlignmentHolds, OneRunPerRequest
<1>6. RunsAddUp'
  <2>1. Cardinality(Recorded(new.result)) <= new.wanted
    <3>1. Recorded(new.result) = {}
      BY <1>2 DEF Recorded
    <3> QED
      BY <1>1, <1>2, <3>1, FS_EmptySet, AlignmentAssumption, FS_CardinalityType
  <2> QED
    BY <1>2, <2>1 DEF AlignmentInv, AlignmentHolds, RunsAddUp, Ended
<1> QED
  BY <1>2, <1>3, <1>4, <1>5, <1>6, RunsChange DEF CreateRun

LEMMA StartOrCancelKeepsIInv ==
  ASSUME AlignmentInv, NEW r, StartRun(r) \/ CancelRun(r)
  PROVE  AlignmentInv'
<1> DEFINE new == run'[r]
<1>1. /\ r \in DOMAIN run /\ run[r].status \in {"queued", "running"} /\ run \in Seq(Run) /\ run[r] \in Run
      /\ now \in 0..MaxTime
  BY DEF AlignmentInv, AlignmentHolds, AlignmentTypeOK, StartRun, CancelRun, Times
<1>2. /\ run' \in Seq(Run) /\ DOMAIN run' = DOMAIN run
      /\ \A s \in DOMAIN run : s # r => run'[s] = run[s]
      /\ new.profile = run[r].profile /\ new.request = run[r].request /\ new.wanted = run[r].wanted
      /\ new.result = run[r].result /\ new.status \in {"running", "cancelled"}
  <2>1. CASE StartRun(r)
    <3> DEFINE started == [run[r] EXCEPT !.status = "running"]
    <3>1. started \in Run /\ run' = [run EXCEPT ![r] = started]
      BY <1>1, <2>1 DEF Run, StartRun
    <3> QED
      BY <1>1, <3>1, OneRunChanges DEF Run
  <2>2. CASE CancelRun(r)
    <3> DEFINE cancelled == [run[r] EXCEPT !.status = "cancelled", !.completed = now]
    <3>1. cancelled \in Run /\ run' = [run EXCEPT ![r] = cancelled]
      BY <1>1, <2>2 DEF Run, CancelRun
    <3> QED
      BY <1>1, <3>1, OneRunChanges DEF Run
  <2> QED
    BY <2>1, <2>2
<1>3. RunsKept
  BY <1>1, <1>2 DEF RunsKept
<1>4. command' \in [Callers -> Command] /\ Carried'
  BY <1>3, KeptRunsBear DEF AlignmentInv, AlignmentHolds, AlignmentTypeOK, Carried, StartRun, CancelRun
<1>5. OneRunPerRequest'
  BY <1>1, <1>2 DEF AlignmentInv, AlignmentHolds, OneRunPerRequest
<1>6. RunsAddUp'
  BY <1>1, <1>2 DEF AlignmentInv, AlignmentHolds, RunsAddUp, Ended
<1> QED
  BY <1>2, <1>3, <1>4, <1>5, <1>6, RunsChange DEF StartRun, CancelRun

LEMMA ResultsKeepIInv ==
  ASSUME AlignmentInv, NEW r, NEW k \in Records,
         \/ \E outcome \in {"done", "failed", "open"} : RecordResult(r, k, outcome)
         \/ \E decision \in Decisions : Resolve(r, k, decision)
  PROVE  AlignmentInv'
<1> DEFINE new == run'[r]
<1>1. r \in DOMAIN run /\ run \in Seq(Run) /\ run[r] \in Run
  BY DEF AlignmentInv, AlignmentHolds, AlignmentTypeOK, RecordResult, Resolve
<1>2. run[r].result \in [Records -> Outcomes \cup {"none"}] /\ run[r].wanted \in Int
  BY <1>1, AlignmentAssumption, FS_CardinalityType DEF Run
<1>3. PICK outcome \in Outcomes :
        /\ run' = [run EXCEPT ![r] = [run[r] EXCEPT !.result = [run[r].result EXCEPT ![k] = outcome]]]
        /\ \/ RecordResult(r, k, outcome)
           \/ outcome \in Decisions /\ Resolve(r, k, outcome)
  <2>1. ASSUME NEW outcome, RecordResult(r, k, outcome) \/ Resolve(r, k, outcome)
        PROVE  run' = [run EXCEPT ![r] = [run[r] EXCEPT !.result = [run[r].result EXCEPT ![k] = outcome]]]
    BY <2>1 DEF RecordResult, Resolve
  <2>2. {"done", "failed", "open"} \subseteq Outcomes /\ Decisions \subseteq Outcomes
    BY DEF Outcomes, Conflicted
  <2> QED
    BY <2>1, <2>2
<1> DEFINE results == [run[r].result EXCEPT ![k] = outcome]
<1>4. /\ run' \in Seq(Run) /\ DOMAIN run' = DOMAIN run
      /\ \A s \in DOMAIN run : s # r => run'[s] = run[s]
      /\ new.profile = run[r].profile /\ new.request = run[r].request /\ new.wanted = run[r].wanted
      /\ new.result = results /\ new.status = run[r].status /\ new.counted = run[r].counted
  <2> DEFINE changed == [run[r] EXCEPT !.result = results]
  <2>1. changed \in Run
    BY <1>1, <1>2 DEF Run
  <2>3. run' = [run EXCEPT ![r] = changed]
    BY <1>3
  <2>2. /\ changed.profile = run[r].profile /\ changed.request = run[r].request /\ changed.wanted = run[r].wanted
        /\ changed.result = results /\ changed.status = run[r].status /\ changed.counted = run[r].counted
    BY <1>1 DEF Run
  <2> QED
    BY <1>1, <2>1, <2>2, <2>3, OneRunChanges
<1>5. RunsKept
  BY <1>1, <1>4 DEF RunsKept
<1>6. command' \in [Callers -> Command] /\ Carried'
  BY <1>5, KeptRunsBear DEF AlignmentInv, AlignmentHolds, AlignmentTypeOK, Carried, RecordResult, Resolve
<1>7. OneRunPerRequest'
  BY <1>1, <1>4 DEF AlignmentInv, AlignmentHolds, OneRunPerRequest
<1>8. RunsAddUp'
  <2>1. CASE RecordResult(r, k, outcome)
    <3>1. run[r].status = "running" /\ Cardinality(Recorded(run[r].result)) < run[r].wanted
      BY <2>1 DEF RecordResult
    <3>2. Cardinality(Recorded(results)) = Cardinality(Recorded(run[r].result)) + 1
      BY <1>2, <2>1, ResultsAddOne DEF RecordResult
    <3>3. Cardinality(Recorded(run[r].result)) \in Int
      BY CountsAreNumbers, FS_CardinalityType
    <3>4. Cardinality(Recorded(results)) <= run[r].wanted
      BY <1>2, <3>1, <3>2, <3>3
    <3> QED
      BY <1>1, <1>4, <3>1, <3>4 DEF AlignmentInv, AlignmentHolds, RunsAddUp, Ended
  <2>2. CASE outcome \in Decisions /\ Resolve(r, k, outcome)
    <3>1. Counted(results) = Counted(run[r].result) /\ Recorded(results) = Recorded(run[r].result)
      BY <1>2, <2>2, DecisionsCountAsConflicts DEF Resolve
    <3> QED
      BY <1>1, <1>4, <3>1 DEF AlignmentInv, AlignmentHolds, RunsAddUp
  <2> QED
    BY <1>3, <2>1, <2>2
<1> QED
  BY <1>3, <1>4, <1>5, <1>6, <1>7, <1>8, RunsChange DEF RecordResult, Resolve

LEMMA CompletionKeepsIInv ==
  ASSUME AlignmentInv, NEW c \in Callers, CompleteRun(c)
  PROVE  AlignmentInv'
<1> DEFINE m == command[c]
           r == m.run
           new == run'[r]
<1>1. m.status \in Ended /\ m.counted \in Counts /\ m.at \in Times
  BY CommandFields DEF AlignmentInv, AlignmentHolds, AlignmentTypeOK, CompleteRun
<1>2. /\ r \in DOMAIN run
      /\ m.status = "succeeded" => Covers(m.counted, run[r].wanted)
      /\ m.status = "partial" => ~Covers(m.counted, run[r].wanted)
  BY DEF AlignmentInv, Carried, CarriedBy, CompleteRun
<1>3. run \in Seq(Run) /\ run[r] \in Run /\ run[r].status = "running" /\ m.counted = Counted(run[r].result)
  BY <1>2 DEF AlignmentInv, AlignmentHolds, AlignmentTypeOK, CompleteRun
<1>4. /\ run' \in Seq(Run) /\ DOMAIN run' = DOMAIN run
      /\ \A s \in DOMAIN run : s # r => run'[s] = run[s]
      /\ new.profile = run[r].profile /\ new.request = run[r].request /\ new.wanted = run[r].wanted
      /\ new.result = run[r].result /\ new.status = m.status /\ new.counted = m.counted
  <2> DEFINE changed == [run[r] EXCEPT !.status = m.status, !.counted = m.counted, !.completed = m.at]
  <2>4. m.at \in 0..MaxTime
    BY <1>1, AlignmentAssumption DEF Times
  <2>1. changed \in Run
    BY <1>1, <1>3, <2>4 DEF Run
  <2>2. run' = [run EXCEPT ![r] = changed]
    BY DEF CompleteRun
  <2>3. /\ changed.profile = run[r].profile /\ changed.request = run[r].request /\ changed.wanted = run[r].wanted
        /\ changed.result = run[r].result /\ changed.status = m.status /\ changed.counted = m.counted
    BY <1>3 DEF Run
  <2> QED
    BY <1>2, <1>3, <2>1, <2>2, <2>3, OneRunChanges
<1>5. RunsKept
  BY <1>2, <1>3, <1>4 DEF RunsKept
<1>6. command' \in [Callers -> Command] /\ Carried'
  BY <1>5, TheRestIsCarried DEF AlignmentInv, AlignmentHolds, CompleteRun
<1>7. OneRunPerRequest'
  BY <1>2, <1>4 DEF AlignmentInv, AlignmentHolds, OneRunPerRequest
<1>8. RunsAddUp'
  BY <1>2, <1>3, <1>4 DEF AlignmentInv, AlignmentHolds, RunsAddUp
<1> QED
  BY <1>4, <1>5, <1>6, <1>7, <1>8, RunsChange DEF CompleteRun

\* What a transaction that advances a checkpoint works on.
LEMMA AdvanceSound ==
  ASSUME AlignmentInv, NEW c \in Callers, Advance(c)
  PROVE  LET m == command[c]
             old == checkpoint[m.profile]
             new == checkpoint'[m.profile]
         IN /\ m.profile \in Profiles /\ m.run \in DOMAIN run
            /\ run[m.run].status = "succeeded" /\ run[m.run].profile = m.profile
            /\ new.version = old.version + 1 /\ new.watermark = m.watermark /\ new.run = m.run
            /\ old.version \in Nat /\ old.watermark <= new.watermark
            /\ checkpoint' \in [Profiles -> Checkpoint]
            /\ \A p \in Profiles : p # m.profile => checkpoint'[p] = checkpoint[p]
<1> DEFINE m == command[c]
           old == checkpoint[m.profile]
<1>1. m.profile \in Profiles /\ m.run \in Nat /\ m.watermark \in 0..MaxTime
  BY CommandFields DEF AlignmentInv, AlignmentHolds, AlignmentTypeOK, Advance
<1>2. m.run \in DOMAIN run /\ run[m.run].status = "succeeded" /\ run[m.run].profile = m.profile
  BY DEF AlignmentInv, Carried, CarriedBy, Advance
<1>3. checkpoint \in [Profiles -> Checkpoint] /\ old \in Checkpoint
  BY <1>1 DEF AlignmentInv, AlignmentHolds, AlignmentTypeOK
<1>4. old.version \in Nat /\ old.watermark <= m.watermark
  BY <1>1, <1>3, AlignmentAssumption DEF AlignmentInv, Fresh, Advance, Checkpoint
<1>5. checkpoint' = [checkpoint EXCEPT ![m.profile] = [version |-> old.version + 1, watermark |-> m.watermark,
                                                       run |-> m.run]]
  BY DEF Advance
<1>6. [version |-> old.version + 1, watermark |-> m.watermark, run |-> m.run] \in Checkpoint
  BY <1>1, <1>4 DEF Checkpoint
<1> QED
  BY <1>1, <1>2, <1>3, <1>4, <1>5, <1>6

LEMMA AdvanceKeepsIInv ==
  ASSUME AlignmentInv, NEW c \in Callers, Advance(c)
  PROVE  AlignmentInv'
<1>1. command' \in [Callers -> Command] /\ Carried'
  BY TheRestIsCarried, RunsStay DEF AlignmentInv, AlignmentHolds, Advance
<1>2. CheckpointsAreEarned' /\ Fresh'
  <2> DEFINE m == command[c]
  <2>1. /\ m.profile \in Profiles /\ m.run \in DOMAIN run
        /\ run[m.run].status = "succeeded" /\ run[m.run].profile = m.profile
        /\ checkpoint'[m.profile].run = m.run /\ checkpoint'[m.profile].version = checkpoint[m.profile].version + 1
        /\ checkpoint[m.profile].version \in Nat
        /\ \A p \in Profiles : p # m.profile => checkpoint'[p] = checkpoint[p]
    BY AdvanceSound
  <2>2. run' = run
    BY DEF Advance
  <2>3. checkpoint'[m.profile].version > 0
    BY <2>1
  <2>4. CheckpointsAreEarned'
    BY <2>1, <2>2 DEF AlignmentInv, AlignmentHolds, CheckpointsAreEarned
  <2>5. Fresh'
    BY <2>1, <2>3 DEF AlignmentInv, Fresh
  <2> QED
    BY <2>4, <2>5
<1>3. checkpoint' \in [Profiles -> Checkpoint]
  BY AdvanceSound
<1> QED
  BY <1>1, <1>2, <1>3 DEF AlignmentInv, AlignmentHolds, AlignmentTypeOK, OneAuthority, OnePublished, OneRunPerRequest,
                          RunsAddUp, Advance

LEMMA RefusalKeepsIInv ==
  ASSUME AlignmentInv, NEW c \in Callers, Refuse(c)
  PROVE  AlignmentInv'
<1>1. command' \in [Callers -> Command] /\ Carried'
  BY TheRestIsCarried, RunsStay DEF AlignmentInv, AlignmentHolds, Refuse
<1> QED
  BY <1>1 DEF AlignmentInv, AlignmentHolds, AlignmentTypeOK, OneAuthority, OnePublished, OneRunPerRequest, RunsAddUp,
              CheckpointsAreEarned, Fresh, Refuse

LEMMA NextKeepsIInv ==
  ASSUME AlignmentInv, [AlignmentNext]_alignmentVars
  PROVE  AlignmentInv'
<1>1. CASE DefinitionsNext
  BY <1>1, EndingsKeepIInv, AsksKeepIInv, RuleKeepsIInv, ProfileKeepsIInv DEF DefinitionsNext
<1>2. CASE RunsNext
  BY <1>2, EndingsKeepIInv, StartOrCancelKeepsIInv, ResultsKeepIInv, AsksKeepIInv, CompletionKeepsIInv,
     AdvanceKeepsIInv DEF RunsNext
<1>3. CASE CreateNext
  BY <1>3, AsksKeepIInv, CreateRunKeepsIInv DEF CreateNext
<1>4. CASE \E c \in Callers : Refuse(c)
  BY <1>4, RefusalKeepsIInv
<1>5. CASE UNCHANGED alignmentVars
  <2>1. UNCHANGED <<now, system, rule, profile, run, checkpoint, command>>
    BY <1>5 DEF alignmentVars
  <2> QED
    BY <2>1 DEF AlignmentInv, AlignmentHolds, AlignmentTypeOK, OneAuthority, OnePublished, OneRunPerRequest, RunsAddUp,
                CheckpointsAreEarned, Carried, Fresh
<1> QED
  BY <1>1, <1>2, <1>3, <1>4, <1>5 DEF AlignmentNext

LEMMA AlignmentInvariance == AlignmentSpec => []AlignmentInv
<1>1. AlignmentInit => AlignmentInv
  BY InitIsGood
<1>2. AlignmentInv /\ [AlignmentNext]_alignmentVars => AlignmentInv'
  BY NextKeepsIInv
<1> QED
  BY <1>1, <1>2, PTL DEF AlignmentSpec

(***************************************************************************)
(* Rules, profiles, requests, counts and checkpoints agree in every        *)
(* reachable state (index.ts, repository.ts of platform/data-alignment).   *)
(***************************************************************************)
THEOREM AlignmentAgrees == AlignmentSpec => []AlignmentHolds
<1>1. AlignmentInv => AlignmentHolds
  BY DEF AlignmentInv
<1> QED
  BY <1>1, AlignmentInvariance, PTL
-----------------------------------------------------------------------------
\* Where one run changes, no run begins and no checkpoint advances.
LEMMA OneRunMoves ==
  ASSUME AlignmentInv, NEW r \in DOMAIN run, DOMAIN run' = DOMAIN run, UNCHANGED checkpoint,
         \A s \in DOMAIN run : s # r => run'[s] = run[s],
         run[r].status \in Ended \cup {"cancelled"} =>
           /\ run'[r].status = run[r].status /\ run'[r].counted = run[r].counted
           /\ \A k \in Records : run'[r].result[k] = run[r].result[k] \/ run[r].result[k] = "open"
  PROVE  QueuedInForce /\ EndedStays /\ CheckpointsAdvance
BY DEF QueuedInForce, EndedStays, CheckpointsAdvance

\* A run that goes on has not ended.
LEMMA GoingOnMoves ==
  ASSUME AlignmentInv, NEW r \in DOMAIN run, NEW new, run' = [run EXCEPT ![r] = new], UNCHANGED checkpoint,
         run[r].status \in {"queued", "running"}
  PROVE  QueuedInForce /\ EndedStays /\ CheckpointsAdvance
<1>1. DOMAIN run' = DOMAIN run /\ \A s \in DOMAIN run : s # r => run'[s] = run[s]
  BY DEF AlignmentInv, AlignmentHolds, AlignmentTypeOK
<1> QED
  BY <1>1, OneRunMoves DEF Ended

LEMMA ResolveMoves ==
  ASSUME AlignmentInv, NEW r, NEW k \in Records, NEW decision, Resolve(r, k, decision)
  PROVE  QueuedInForce /\ EndedStays /\ CheckpointsAdvance
<1>1. r \in DOMAIN run /\ run[r] \in Run /\ run[r].result[k] = "open" /\ UNCHANGED checkpoint
  BY DEF Resolve, AlignmentInv, AlignmentHolds, AlignmentTypeOK
<1>2. run' = [run EXCEPT ![r] = [run[r] EXCEPT !.result = [run[r].result EXCEPT ![k] = decision]]]
  BY DEF Resolve
<1>3. /\ DOMAIN run' = DOMAIN run
      /\ \A s \in DOMAIN run : s # r => run'[s] = run[s]
      /\ run'[r] = [run[r] EXCEPT !.result = [run[r].result EXCEPT ![k] = decision]]
  BY <1>1, <1>2 DEF AlignmentInv, AlignmentHolds, AlignmentTypeOK
<1>4. /\ run'[r].status = run[r].status /\ run'[r].counted = run[r].counted
      /\ \A j \in Records : run'[r].result[j] = run[r].result[j] \/ run[r].result[j] = "open"
  BY <1>1, <1>3 DEF Run
<1> QED
  BY <1>1, <1>3, <1>4, OneRunMoves

LEMMA CreateRunMoves ==
  ASSUME AlignmentInv, NEW c \in Callers, CreateRun(c)
  PROVE  QueuedInForce /\ EndedStays /\ CheckpointsAdvance
<1> DEFINE m == command[c]
           new == [profile |-> m.profile, request |-> m.request, wanted |-> m.wanted, queued |-> m.at,
                   status |-> "queued", result |-> [k \in Records |-> "none"],
                   counted |-> [processed |-> 0, conflicts |-> 0, failures |-> 0], completed |-> 0]
<1>1. run \in Seq(Run) /\ run' = Append(run, new) /\ Usable(m.profile, m.at) /\ UNCHANGED checkpoint
  BY DEF CreateRun, AlignmentInv, AlignmentHolds, AlignmentTypeOK
<1>2. /\ \A r \in DOMAIN run : run'[r] = run[r]
      /\ \A r \in DOMAIN run' \ DOMAIN run : run'[r] = new
  BY <1>1
<1>3. QueuedInForce
  BY <1>1, <1>2 DEF QueuedInForce
<1>4. EndedStays /\ CheckpointsAdvance
  BY <1>1, <1>2 DEF EndedStays, CheckpointsAdvance
<1> QED
  BY <1>3, <1>4

LEMMA AdvanceMoves ==
  ASSUME AlignmentInv, NEW c \in Callers, Advance(c)
  PROVE  QueuedInForce /\ EndedStays /\ CheckpointsAdvance
<1> DEFINE m == command[c]
<1>1. QueuedInForce /\ EndedStays
  BY DEF Advance, QueuedInForce, EndedStays
<1>2. /\ m.op = "advance" /\ m.seen = checkpoint[m.profile].version
      /\ checkpoint[m.profile].version > 0 =>
           run[checkpoint[m.profile].run].completed <= run[m.run].completed
  BY DEF Advance
<1>3. ASSUME NEW p \in Profiles, checkpoint'[p] # checkpoint[p]
      PROVE  /\ checkpoint'[p].version = checkpoint[p].version + 1
             /\ checkpoint[p].watermark <= checkpoint'[p].watermark
             /\ checkpoint[p].version > 0 =>
                  run[checkpoint[p].run].completed <= run[checkpoint'[p].run].completed
             /\ \E d \in Callers : /\ command[d].op = "advance" /\ command[d].run = checkpoint'[p].run
                                   /\ command[d].seen = checkpoint[p].version
  <2>1. p = m.profile
    BY <1>3, AdvanceSound
  <2>2. /\ checkpoint'[p].version = checkpoint[p].version + 1 /\ checkpoint'[p].run = m.run
        /\ checkpoint[p].watermark <= checkpoint'[p].watermark
    BY <2>1, AdvanceSound
  <2> QED
    BY <1>2, <2>1, <2>2
<1>4. CheckpointsAdvance
  BY <1>3 DEF CheckpointsAdvance
<1> QED
  BY <1>1, <1>4

LEMMA NextMoves ==
  ASSUME AlignmentInv, [AlignmentNext]_alignmentVars
  PROVE  [QueuedInForce /\ EndedStays /\ CheckpointsAdvance]_alignmentVars
<1>1. CASE UNCHANGED <<run, checkpoint>>
  BY <1>1 DEF QueuedInForce, EndedStays, CheckpointsAdvance
<1>2. ASSUME NEW r, StartRun(r) \/ CancelRun(r) PROVE QueuedInForce /\ EndedStays /\ CheckpointsAdvance
  <2>1. /\ r \in DOMAIN run /\ run[r].status \in {"queued", "running"} /\ UNCHANGED checkpoint
        /\ \E new : run' = [run EXCEPT ![r] = new]
    BY <1>2 DEF StartRun, CancelRun
  <2> QED
    BY <2>1, GoingOnMoves
<1>3. ASSUME NEW r, NEW k, NEW outcome, RecordResult(r, k, outcome)
      PROVE  QueuedInForce /\ EndedStays /\ CheckpointsAdvance
  <2>1. /\ r \in DOMAIN run /\ run[r].status \in {"queued", "running"} /\ UNCHANGED checkpoint
        /\ \E new : run' = [run EXCEPT ![r] = new]
    BY <1>3 DEF RecordResult
  <2> QED
    BY <2>1, GoingOnMoves
<1>4. ASSUME NEW c \in Callers, CompleteRun(c) PROVE QueuedInForce /\ EndedStays /\ CheckpointsAdvance
  <2>1. command[c].run \in DOMAIN run
    BY <1>4 DEF CompleteRun, AlignmentInv, Carried, CarriedBy
  <2>2. /\ run[command[c].run].status \in {"queued", "running"} /\ UNCHANGED checkpoint
        /\ \E new : run' = [run EXCEPT ![command[c].run] = new]
    BY <1>4 DEF CompleteRun
  <2> QED
    BY <2>1, <2>2, GoingOnMoves
<1>5. CASE DefinitionsNext
  <2>1. UNCHANGED <<run, checkpoint>>
    BY <1>5 DEF DefinitionsNext, Tick, SetSystem, CloseRule, RetireProfile, AskRule, CreateRule, AskProfile,
                CreateProfile, AskPublish, PublishProfile
  <2> QED
    BY <1>1, <2>1
<1>6. CASE RunsNext
  <2>1. CASE Tick
    BY <1>1, <2>1 DEF Tick
  <2>2. ASSUME NEW c \in Callers, NEW r, NEW x, AskComplete(c, r, x) \/ AskAdvance(c, r, x)
        PROVE  UNCHANGED <<run, checkpoint>>
    BY <2>2 DEF AskComplete, AskAdvance
  <2> QED
    BY <1>1, <1>2, <1>3, <1>4, <1>6, <2>1, <2>2, ResolveMoves, AdvanceMoves DEF RunsNext
<1>7. CASE CreateNext
  <2>1. ASSUME NEW c \in Callers, NEW p, NEW q, NEW wanted, AskRun(c, p, q, wanted)
        PROVE  UNCHANGED <<run, checkpoint>>
    BY <2>1 DEF AskRun
  <2> QED
    BY <1>1, <1>7, <2>1, CreateRunMoves DEF CreateNext
<1>8. CASE \E c \in Callers : Refuse(c)
  BY <1>1, <1>8 DEF Refuse
<1>9. CASE UNCHANGED alignmentVars
  BY <1>9
<1> QED
  BY <1>5, <1>6, <1>7, <1>8, <1>9 DEF AlignmentNext

(***************************************************************************)
(* What is queued is in force, what ended stays, and checkpoints only      *)
(* advance (the transactions of createSyncRun(), updateSyncRun(),          *)
(* updateSyncRecordResult() and advanceSyncCheckpoint(), repository.ts of  *)
(* platform/data-alignment).                                               *)
(***************************************************************************)
THEOREM AlignmentAdvances == AlignmentSpec => AlignmentMoves
<1>1. AlignmentInv /\ [AlignmentNext]_alignmentVars => [QueuedInForce /\ EndedStays /\ CheckpointsAdvance]_alignmentVars
  BY NextMoves
<1> QED
  BY <1>1, AlignmentInvariance, PTL DEF AlignmentSpec, AlignmentMoves
-----------------------------------------------------------------------------
(*****************************************************************************)
(* The knowledge index.  A row that is being indexed carries the token of    *)
(* its process; whoever changes the row takes the token away, so the process *)
(* that still finds its own has read the text and the model that are there.  *)
(*****************************************************************************)
IndexRows == [version : Nat, deleted : BOOLEAN, status : {"pending", "processing", "ready", "failed"}, key : Nat,
         indexed : Nat, token : Processes \cup {Nobody, Lost}, expired : BOOLEAN,
         vector : [version : Nat, revision : Nat]]
Servers == [pc : {"idle", "configured", "embedding"}, revision : Nat, entry : Entries \cup {Nobody}, version : Nat,
            aborted : BOOLEAN, paused : {"no", "waiting", "yes"}]
Asked == [action : {"create", "update", "delete", "reindex"}, entry : Entries, expected : Nat]
Queries == [pc : {"idle", "configured", "embedding"}, revision : Nat]

IndexTypes ==
  /\ config \in [enabled : BOOLEAN, revision : Nat] /\ entry \in [Entries -> IndexRows]
  /\ indexer \in [Processes -> Servers] /\ request \in [Edits -> {NoRequest} \cup Asked]
  /\ result \in [Edits -> Nat] /\ applied \in [Edits -> Nat] /\ query \in Queries

\* Who has a token makes the vector of the text as it is, for the model the row was claimed
\* for; a vector that is ready is of both.
Indexing(x, e, servers) ==
  /\ x.token \in Processes =>
       /\ servers[x.token].pc = "embedding" /\ servers[x.token].entry = e
       /\ servers[x.token].version = x.version /\ servers[x.token].revision = x.key
  /\ x.status = "ready" => x.vector = [version |-> x.version, revision |-> x.key]

RequestOK(done, n) == n <= 1 /\ (done = 0 => n = 0)

IndexInv ==
  /\ IndexTypes /\ AnswersFit /\ MaintenanceIsQuiet
  /\ \A e \in Entries : Indexing(entry[e], e, indexer)
  /\ \A p \in Processes : indexer[p].pc = "embedding" => indexer[p].entry \in Entries
  /\ \A r \in Edits : RequestOK(result[r], applied[r])

\* An entry that was never written, a process that does nothing, a search that did not begin.
LEMMA IndexConstants ==
  /\ NoEntry \in IndexRows /\ NoEntry.token = Nobody /\ NoEntry.status = "pending"
  /\ Idle \in Servers /\ Idle.pc = "idle" /\ Nobody \notin Processes /\ Lost \notin Processes
  /\ NoQuery \in Queries /\ NoQuery.pc = "idle"
BY KnowledgeAssumption DEF NoEntry, IndexRows, NoVector, Idle, Servers, NoQuery, Queries

\* Nothing has been written and nothing indexed.
LEMMA IndexStarts == KnowledgeInit => IndexInv
<1> SUFFICES ASSUME KnowledgeInit PROVE IndexInv
  OBVIOUS
<1>1. IndexTypes
  BY IndexConstants DEF KnowledgeInit, IndexTypes
<1>2. \A e \in Entries : Indexing(entry[e], e, indexer)
  BY IndexConstants DEF KnowledgeInit, Indexing
<1>3. AnswersFit
  BY DEF KnowledgeInit, AnswersFit
<1>4. MaintenanceIsQuiet /\ \A p \in Processes : indexer[p].pc = "embedding" => indexer[p].entry \in Entries
  BY IndexConstants DEF KnowledgeInit, MaintenanceIsQuiet
<1>5. \A r \in Edits : RequestOK(result[r], applied[r])
  BY DEF KnowledgeInit, RequestOK
<1> QED
  BY <1>1, <1>2, <1>3, <1>4, <1>5 DEF IndexInv

\* One process moves, and one row with it, whose token is its own or nobody's.
LEMMA ServerKeeps ==
  ASSUME IndexInv, NEW p \in Processes, NEW x \in Servers, NEW e \in Entries, NEW y \in IndexRows,
         indexer' = [indexer EXCEPT ![p] = x], entry' = [entry EXCEPT ![e] = y],
         x.paused = "yes" => x.pc = "idle", x.pc = "embedding" => x.entry \in Entries,
         \A f \in Entries : f # e => entry[f].token # p,
         y.token = p \/ y.token \notin Processes, y.token = p => Indexing(y, e, [indexer EXCEPT ![p] = x]),
         y.status = "ready" => y.vector = [version |-> y.version, revision |-> y.key],
         UNCHANGED <<config, request, result, applied, query, answer>>
  PROVE  IndexInv'
<1>1. /\ indexer' \in [Processes -> Servers] /\ indexer'[p] = x /\ \A q \in Processes \ {p} : indexer'[q] = indexer[q]
      /\ entry' \in [Entries -> IndexRows] /\ entry'[e] = y /\ \A f \in Entries \ {e} : entry'[f] = entry[f]
  BY DEF IndexInv, IndexTypes
<1>2. ASSUME NEW f \in Entries PROVE Indexing(entry'[f], f, indexer')
  <2>1. CASE f = e
    BY <1>1, <2>1 DEF Indexing
  <2>2. CASE f # e
    BY <1>1, <2>2 DEF Indexing, IndexInv
  <2> QED
    BY <2>1, <2>2
<1>3. \A q \in Processes : /\ indexer'[q].pc = "embedding" => indexer'[q].entry \in Entries
                           /\ indexer'[q].paused = "yes" => indexer'[q].pc = "idle"
  BY <1>1 DEF IndexInv, MaintenanceIsQuiet
<1>4. IndexTypes' /\ AnswersFit' /\ \A r \in Edits : RequestOK(result'[r], applied'[r])
  BY <1>1 DEF IndexInv, IndexTypes, AnswersFit
<1> QED
  BY <1>2, <1>3, <1>4 DEF IndexInv, MaintenanceIsQuiet

\* The token of a row says what its process is doing.
LEMMA TokenTells ==
  ASSUME IndexInv, NEW e \in Entries, NEW p \in Processes, entry[e].token = p
  PROVE  /\ indexer[p].pc = "embedding" /\ indexer[p].entry = e
         /\ indexer[p].version = entry[e].version /\ indexer[p].revision = entry[e].key
BY DEF IndexInv, Indexing

\* A process moves without a claim.
LEMMA ServerMoves ==
  ASSUME IndexInv, NEW p \in Processes, NEW x \in Servers,
         indexer' = [indexer EXCEPT ![p] = x],
         x.paused = "yes" => x.pc = "idle", x.pc = "embedding" => x.entry \in Entries,
         \A f \in Entries : entry[f].token = p =>
           x.pc = "embedding" /\ x.entry = f /\ x.version = entry[f].version /\ x.revision = entry[f].key,
         UNCHANGED <<entry, config, request, result, applied, query, answer>>
  PROVE  IndexInv'
<1>1. /\ indexer' \in [Processes -> Servers] /\ indexer'[p] = x /\ \A q \in Processes \ {p} : indexer'[q] = indexer[q]
  BY DEF IndexInv, IndexTypes
<1>2. ASSUME NEW f \in Entries PROVE Indexing(entry'[f], f, indexer')
  BY <1>1 DEF Indexing, IndexInv
<1>3. \A q \in Processes : /\ indexer'[q].pc = "embedding" => indexer'[q].entry \in Entries
                           /\ indexer'[q].paused = "yes" => indexer'[q].pc = "idle"
  BY <1>1 DEF IndexInv, MaintenanceIsQuiet
<1>4. IndexTypes' /\ AnswersFit' /\ \A r \in Edits : RequestOK(result'[r], applied'[r])
  BY <1>1 DEF IndexInv, IndexTypes, AnswersFit
<1> QED
  BY <1>2, <1>3, <1>4 DEF IndexInv, MaintenanceIsQuiet

\* Writes, models that change, passes of the indexer, searches and crashes keep rows, tokens
\* and processes together.
LEMMA IndexStays ==
  ASSUME IndexInv, [KnowledgeNext]_knowledgeVars
  PROVE  IndexInv'
<1>0. /\ config \in [enabled : BOOLEAN, revision : Nat] /\ entry \in [Entries -> IndexRows]
      /\ indexer \in [Processes -> Servers] /\ request \in [Edits -> {NoRequest} \cup Asked]
      /\ result \in [Edits -> Nat] /\ applied \in [Edits -> Nat] /\ query \in Queries
      /\ \A e \in Entries : Indexing(entry[e], e, indexer)
  BY DEF IndexInv, IndexTypes
<1>1. ASSUME NEW r \in Edits, NEW e \in Entries, NEW action \in {"create", "update", "delete", "reindex"},
             Compose(r, e, action)
      PROVE  IndexInv'
  <2> DEFINE w == [action |-> action, entry |-> e, expected |-> IF action = "create" THEN 0 ELSE entry[e].version]
  <2>1. w \in Asked
    BY <1>0 DEF Asked, IndexRows
  <2> HIDE DEF w
  <2>2. request' \in [Edits -> {NoRequest} \cup Asked]
    BY <1>0, <1>1, <2>1 DEF Compose, w
  <2> QED
    BY <1>0, <1>1, <2>2 DEF Compose, IndexInv, IndexTypes, AnswersFit, MaintenanceIsQuiet
<1>2. ASSUME NEW r \in Edits, Write(r) PROVE IndexInv'
  <2> DEFINE w == request[r]  y == Written(w)  e == w.entry
  <2>1. w \in Asked /\ e \in Entries /\ Writable(w)
    BY <1>0, <1>2 DEF Write, Apply, Asked
  <2>2. y \in IndexRows /\ y.token = Nobody /\ y.status = "pending" /\ y.version > 0
    <3> DEFINE v == IF w.action = "reindex" THEN entry[w.entry].version ELSE entry[w.entry].version + 1
               d == w.action = "delete"
    <3>1. entry[w.entry].version \in Nat /\ (w.action = "reindex" => entry[w.entry].version > 0)
      BY <1>0, <2>1 DEF IndexRows, Writable, Exists
    <3>2. v \in Nat /\ v > 0 /\ d \in BOOLEAN
      BY <3>1
    <3>3. y = [NoEntry EXCEPT !.version = v, !.deleted = d]
      BY DEF Written, Unindexed
    <3> HIDE DEF v, d, y
    <3> QED
      BY <3>2, <3>3, IndexConstants DEF IndexRows
  <2>3. entry' = [entry EXCEPT ![e] = y] /\ result' = [result EXCEPT ![r] = y.version] /\ result[r] = 0
        /\ applied' = [applied EXCEPT ![r] = @ + 1] /\ UNCHANGED <<config, serving, indexer, request, query, answer>>
    BY <1>2 DEF Write, Apply
  <2> HIDE DEF y, w, e
  <2>4. entry' \in [Entries -> IndexRows] /\ entry'[e] = y /\ \A f \in Entries \ {e} : entry'[f] = entry[f]
    BY <1>0, <2>1, <2>2, <2>3
  <2>5. result' \in [Edits -> Nat] /\ applied' \in [Edits -> Nat]
    BY <1>0, <2>2, <2>3 DEF IndexRows
  <2>6. \A s \in Edits : RequestOK(result'[s], applied'[s])
    BY <1>0, <2>2, <2>3, <2>5 DEF IndexInv, RequestOK, IndexRows
  <2>7. \A f \in Entries : Indexing(entry'[f], f, indexer)
    BY <1>0, <2>2, <2>4, IndexConstants DEF Indexing
  <2> QED
    BY <1>0, <2>3, <2>4, <2>5, <2>6, <2>7 DEF IndexInv, IndexTypes, AnswersFit, MaintenanceIsQuiet
<1>3. CASE SaveConfig \/ SetServing
  <2>1. config' \in [enabled : BOOLEAN, revision : Nat]
    <3>1. CASE config' = [enabled |-> TRUE, revision |-> config.revision + 1]
      BY <1>0, <3>1
    <3>2. CASE config' = [config EXCEPT !.enabled = ~@]
      BY <1>0, <3>2
    <3>3. CASE config' = config
      BY <1>0, <3>3
    <3> QED
      BY <1>3, <3>1, <3>2, <3>3 DEF SaveConfig, SetServing
  <2> QED
    BY <1>0, <1>3, <2>1 DEF SaveConfig, SetServing, IndexInv, IndexTypes, AnswersFit, MaintenanceIsQuiet
<1>4. ASSUME NEW p \in Processes, ReadConfig(p) \/ NothingToClaim(p) PROVE IndexInv'
  <2>0. indexer[p] \in Servers /\ indexer[p].pc # "embedding"
    BY <1>0, <1>4 DEF ReadConfig, NothingToClaim
  <2>1. \A f \in Entries : entry[f].token # p
    BY <1>0, <1>4, <2>0, TokenTells
  <2>2. PICK x \in Servers : /\ indexer' = [indexer EXCEPT ![p] = x] /\ x.pc # "embedding"
                             /\ x.paused = "yes" => x.pc = "idle"
    <3>1. CASE ReadConfig(p)
      <4> DEFINE z == [Idle EXCEPT !.pc = "configured", !.revision = config.revision]
                 x == [z EXCEPT !.paused = indexer[p].paused]
      <4>1. z \in Servers /\ z.pc = "configured"
        BY <1>0, IndexConstants DEF Servers
      <4>2. indexer' = [indexer EXCEPT ![p] = x] /\ indexer[p].paused = "no"
        BY <3>1 DEF ReadConfig, Step
      <4> HIDE DEF z
      <4>3. x \in Servers /\ x.pc = "configured" /\ x.paused = "no"
        BY <1>0, <4>1, <4>2 DEF Servers
      <4> QED
        BY <4>2, <4>3
    <3>2. CASE NothingToClaim(p)
      <4> DEFINE x == [Idle EXCEPT !.paused = indexer[p].paused]
      <4>1. x \in Servers /\ x.pc = "idle"
        BY <1>0, IndexConstants DEF Servers
      <4>2. indexer' = [indexer EXCEPT ![p] = x]
        BY <3>2 DEF NothingToClaim, Step
      <4> QED
        BY <4>1, <4>2
    <3> QED
      BY <1>4, <3>1, <3>2
  <2>3. UNCHANGED <<entry, config, request, result, applied, query, answer>>
    BY <1>4 DEF ReadConfig, NothingToClaim
  <2> QED
    BY <2>1, <2>2, <2>3, ServerMoves
<1>5. ASSUME NEW p \in Processes, Claim(p) PROVE IndexInv'
  <2>0. indexer[p] \in Servers /\ indexer[p].pc = "configured"
    BY <1>0, <1>5 DEF Claim
  <2>1. PICK e \in Entries :
          /\ entry' = [entry EXCEPT ![e].status = "processing", ![e].key = indexer[p].revision,
                                 ![e].indexed = entry[e].version, ![e].token = p, ![e].expired = FALSE]
          /\ Step(p, [indexer[p] EXCEPT !.pc = "embedding", !.entry = e, !.version = entry[e].version])
    BY <1>5 DEF Claim
  <2> DEFINE z == [indexer[p] EXCEPT !.pc = "embedding", !.entry = e, !.version = entry[e].version]
             x == [z EXCEPT !.paused = indexer[p].paused]
             y == [entry[e] EXCEPT !.status = "processing", !.key = indexer[p].revision,
                                   !.indexed = entry[e].version, !.token = p, !.expired = FALSE]
  <2>2. entry[e] \in IndexRows /\ entry[e].version \in Nat
    BY <1>0 DEF IndexRows
  <2>3. z \in Servers /\ z.pc = "embedding" /\ z.entry = e /\ z.version = entry[e].version
        /\ z.revision = indexer[p].revision
    BY <2>0, <2>2 DEF Servers
  <2>4. indexer' = [indexer EXCEPT ![p] = x]
    BY <2>1 DEF Step
  <2> HIDE DEF z
  <2>5. x \in Servers /\ x.pc = "embedding" /\ x.entry = e /\ x.version = entry[e].version
        /\ x.revision = indexer[p].revision /\ x.paused = indexer[p].paused
    BY <2>0, <2>3 DEF Servers
  <2>6. y \in IndexRows /\ y.token = p /\ y.version = entry[e].version /\ y.key = indexer[p].revision
        /\ y.status = "processing"
    BY <2>0, <2>2 DEF IndexRows, Servers
  <2>7. entry' = [entry EXCEPT ![e] = y]
    BY <1>0, <2>1
  <2> HIDE DEF x, y
  <2>8. x.paused # "yes"
    BY <2>0, <2>5 DEF IndexInv, MaintenanceIsQuiet
  <2>9. \A f \in Entries : f # e => entry[f].token # p
    BY <1>0, <2>0, TokenTells
  <2>10. Indexing(y, e, [indexer EXCEPT ![p] = x])
    BY <1>0, <2>5, <2>6 DEF Indexing
  <2>11. UNCHANGED <<config, request, result, applied, query, answer>>
    BY <1>5 DEF Claim
  <2> QED
    BY <2>4, <2>5, <2>6, <2>7, <2>8, <2>9, <2>10, <2>11, ServerKeeps
<1>6. ASSUME NEW p \in Processes, Finish(p) PROVE IndexInv'
  <2> DEFINE e == indexer[p].entry  x == [Idle EXCEPT !.paused = indexer[p].paused]
  <2>0. indexer[p] \in Servers /\ indexer[p].pc = "embedding" /\ e \in Entries /\ entry[e] \in IndexRows
        /\ UNCHANGED <<config, request, result, applied, query, answer>>
    BY <1>0, <1>6 DEF Finish, IndexInv
  <2>1. x \in Servers /\ x.pc = "idle"
    BY <1>0, IndexConstants DEF Servers
  <2>2. indexer' = [indexer EXCEPT ![p] = x]
    BY <1>6 DEF Finish, Step
  <2> HIDE DEF x
  <2>3. CASE ~(entry[e].token = p /\ entry[e].version = indexer[p].version) /\ entry' = entry
    <3>1. \A f \in Entries : entry[f].token # p
      BY <1>0, <2>0, <2>3, TokenTells
    <3> QED
      BY <2>0, <2>1, <2>2, <2>3, <3>1, ServerMoves
  <2>4. ASSUME NEW status \in {"ready", "pending", "failed"}, NEW vector \in [version : Nat, revision : Nat],
               entry[e].token = p, entry[e].version = indexer[p].version, Settle(e, status, vector),
               status = "ready" => vector = [version |-> indexer[p].version, revision |-> indexer[p].revision]
        PROVE  IndexInv'
    <3> DEFINE y == [entry[e] EXCEPT !.status = status, !.token = Nobody, !.vector = vector]
    <3>1. y \in IndexRows /\ y.status = status /\ y.token = Nobody /\ y.vector = vector /\ y.version = entry[e].version
          /\ y.key = entry[e].key
      BY <2>0 DEF IndexRows
    <3>2. entry' = [entry EXCEPT ![e] = y]
      BY <1>0, <2>0, <2>4 DEF Settle
    <3> HIDE DEF y
    <3>3. entry[e].key = indexer[p].revision
      BY <1>0, <2>0, <2>4, TokenTells
    <3>4. y.status = "ready" => y.vector = [version |-> y.version, revision |-> y.key]
      BY <2>4, <3>1, <3>3
    <3>5. \A f \in Entries : f # e => entry[f].token # p
      BY <1>0, <2>0, TokenTells
    <3>6. y.token \notin Processes /\ y.token # p
      BY <3>1, IndexConstants
    <3> HIDE DEF e
    <3> QED
      BY <2>0, <2>1, <2>2, <3>1, <3>2, <3>4, <3>5, <3>6, ServerKeeps
  <2>5. entry[e].vector \in [version : Nat, revision : Nat]
        /\ [version |-> indexer[p].version, revision |-> indexer[p].revision] \in [version : Nat, revision : Nat]
    BY <2>0 DEF IndexRows, Servers
  <2> QED
    BY <1>6, <2>3, <2>4, <2>5 DEF Finish
<1>7. ASSUME NEW p \in Processes, Paused(p) \/ Pause(p) \/ Resume(p) PROVE IndexInv'
  <2>0. indexer[p] \in Servers /\ UNCHANGED <<entry, config, request, result, applied, query, answer>>
    BY <1>0, <1>7 DEF Paused, Pause, Resume
  <2>1. PICK x \in Servers : /\ indexer' = [indexer EXCEPT ![p] = x]
                             /\ x.pc = indexer[p].pc /\ x.entry = indexer[p].entry /\ x.version = indexer[p].version
                             /\ x.revision = indexer[p].revision /\ (x.paused = "yes" => x.pc = "idle")
    <3>1. CASE Paused(p)
      <4> DEFINE x == [indexer[p] EXCEPT !.paused = "yes"]
      <4>1. x \in Servers /\ x.pc = indexer[p].pc /\ x.entry = indexer[p].entry /\ x.version = indexer[p].version
            /\ x.revision = indexer[p].revision /\ indexer' = [indexer EXCEPT ![p] = x] /\ x.pc = "idle"
        BY <1>0, <2>0, <3>1 DEF Servers, Paused
      <4> QED
        BY <4>1
    <3>2. CASE Pause(p)
      <4> DEFINE x == [indexer[p] EXCEPT !.paused = "waiting", !.aborted = indexer[p].pc # "idle"]
      <4>1. x \in Servers /\ x.pc = indexer[p].pc /\ x.entry = indexer[p].entry /\ x.version = indexer[p].version
            /\ x.revision = indexer[p].revision /\ x.paused = "waiting"
        BY <2>0 DEF Servers
      <4>2. indexer' = [indexer EXCEPT ![p] = x]
        BY <1>0, <3>2 DEF Pause
      <4> QED
        BY <4>1, <4>2
    <3>3. CASE Resume(p)
      <4> DEFINE x == [indexer[p] EXCEPT !.paused = "no"]
      <4>1. x \in Servers /\ x.pc = indexer[p].pc /\ x.entry = indexer[p].entry /\ x.version = indexer[p].version
            /\ x.revision = indexer[p].revision /\ indexer' = [indexer EXCEPT ![p] = x] /\ x.paused = "no"
        BY <1>0, <2>0, <3>3 DEF Servers, Resume
      <4> QED
        BY <4>1
    <3> QED
      BY <1>7, <3>1, <3>2, <3>3
  <2>2. \A f \in Entries : entry[f].token = p =>
           x.pc = "embedding" /\ x.entry = f /\ x.version = entry[f].version /\ x.revision = entry[f].key
    BY <1>0, <2>1, TokenTells
  <2>3. x.pc = "embedding" => x.entry \in Entries
    BY <2>1 DEF IndexInv
  <2> QED
    BY <2>0, <2>1, <2>2, <2>3, ServerMoves
<1>8. ASSUME NEW p \in Processes, Crash(p) PROVE IndexInv'
  <2> DEFINE Without(e) == [entry[e] EXCEPT !.token = Lost]
  <2>0. \A e \in Entries : /\ Without(e) \in IndexRows /\ Without(e).token = Lost /\ Without(e).status = entry[e].status
                           /\ Without(e).vector = entry[e].vector /\ Without(e).version = entry[e].version
                           /\ Without(e).key = entry[e].key
    BY <1>0 DEF IndexRows
  <2>1. entry' = [e \in Entries |-> IF entry[e].token = p THEN Without(e) ELSE entry[e]]
        /\ indexer' = [indexer EXCEPT ![p] = Idle] /\ UNCHANGED <<config, request, result, applied, query, answer>>
    BY <1>8 DEF Crash
  <2> HIDE DEF Without
  <2>2. /\ entry' \in [Entries -> IndexRows] /\ indexer' \in [Processes -> Servers] /\ indexer'[p] = Idle
        /\ \A q \in Processes \ {p} : indexer'[q] = indexer[q]
        /\ \A e \in Entries : entry'[e] = IF entry[e].token = p THEN Without(e) ELSE entry[e]
    BY <1>0, <2>0, <2>1, IndexConstants
  <2>3. ASSUME NEW e \in Entries PROVE Indexing(entry'[e], e, indexer')
    BY <1>0, <2>0, <2>2, IndexConstants DEF Indexing
  <2>4. \A q \in Processes : /\ indexer'[q].pc = "embedding" => indexer'[q].entry \in Entries
                             /\ indexer'[q].paused = "yes" => indexer'[q].pc = "idle"
    BY <2>2, IndexConstants DEF IndexInv, MaintenanceIsQuiet
  <2> QED
    BY <1>0, <2>1, <2>2, <2>3, <2>4 DEF IndexInv, IndexTypes, AnswersFit, MaintenanceIsQuiet
<1>9. ASSUME NEW e \in Entries, Expire(e) PROVE IndexInv'
  <2> DEFINE y == [entry[e] EXCEPT !.expired = TRUE]
  <2>1. y \in IndexRows /\ y.token = entry[e].token /\ y.status = entry[e].status
        /\ y.vector = entry[e].vector /\ y.version = entry[e].version /\ y.key = entry[e].key
    BY <1>0 DEF IndexRows
  <2>2. entry' = [entry EXCEPT ![e] = y] /\ UNCHANGED <<config, indexer, request, result, applied, query, answer>>
    BY <1>0, <1>9 DEF Expire
  <2> HIDE DEF y
  <2>3. entry' \in [Entries -> IndexRows] /\ \A f \in Entries : Indexing(entry'[f], f, indexer)
    BY <1>0, <2>1, <2>2 DEF Indexing
  <2> QED
    BY <1>0, <2>2, <2>3 DEF IndexInv, IndexTypes, AnswersFit, MaintenanceIsQuiet
<1>10. CASE SearchReads \/ SearchCounts
  <2>1. query' \in Queries
    <3>1. CASE SearchReads
      BY <1>0, <3>1 DEF SearchReads, Queries
    <3>2. CASE SearchCounts
      BY <1>0, <3>2, IndexConstants DEF SearchCounts, Queries
    <3> QED
      BY <1>10, <3>1, <3>2
  <2> QED
    BY <1>0, <1>10, <2>1 DEF SearchReads, SearchCounts, IndexInv, IndexTypes, AnswersFit, MaintenanceIsQuiet
<1>11. CASE SearchAnswers
  <2>1. PICK hits \in SUBSET {e \in Entries : config = [enabled |-> TRUE, revision |-> query.revision]
                                              /\ Indexed(e, query.revision)} :
          answer' = [revision |-> query.revision, hits |-> {Hit(e) : e \in hits}]
    BY <1>11 DEF SearchAnswers
  <2>2. \A e \in hits : Hit(e).vector = [version |-> Hit(e).version, revision |-> query.revision]
    BY <1>0, <2>1 DEF Indexed, Hit, Indexing
  <2>3. AnswersFit'
    BY <2>1, <2>2 DEF AnswersFit
  <2>4. query' = NoQuery /\ UNCHANGED <<config, entry, indexer, request, result, applied>>
    BY <1>11 DEF SearchAnswers
  <2> QED
    BY <1>0, <2>3, <2>4, IndexConstants DEF IndexInv, IndexTypes, MaintenanceIsQuiet
<1>12. CASE UNCHANGED knowledgeVars
  BY <1>12 DEF knowledgeVars, IndexInv, IndexTypes, AnswersFit, MaintenanceIsQuiet
<1> QED
  BY <1>1, <1>2, <1>3, <1>4, <1>5, <1>6, <1>7, <1>8, <1>9, <1>10, <1>11, <1>12 DEF KnowledgeNext, Index

\* For any entries, processes and writes: a vector that is ready is of the text and the model
\* the row is for, an answer holds only vectors of the model it was asked under, a repeated
\* write is applied once, and maintenance is quiet (platform/knowledge/indexer.ts:8-36,
\* index.ts:39-121, app.ts:47-73).
THEOREM IndexIsTrue == KnowledgeSpec => []IndexHolds
<1>1. IndexInv => IndexHolds
  BY DEF IndexInv, IndexTypes, Indexing, IndexRows, RequestOK, IndexHolds, ReadyIsTrue, RequestsOnce
<1>2. IndexInv /\ [KnowledgeNext]_knowledgeVars => IndexInv'
  BY IndexStays
<1> QED
  BY <1>1, <1>2, IndexStarts, PTL DEF KnowledgeSpec, KnowledgeSafety
=============================================================================
