----------------------------- MODULE MCPlatform -----------------------------
(***************************************************************************)
(* Duty and data alignment, which share no state, with two questions each. *)
(* Every behaviour is about one of them, its subject: rosters from their   *)
(* beginning, with one person and no replacement; replacements in a        *)
(* published period with two day shifts of the first two people, whom the  *)
(* third may replace; rules, profiles and the first run under them; and    *)
(* two runs whose definitions stay, the second of them without records.    *)
(***************************************************************************)
EXTENDS Duty, Alignment, TLC

VARIABLE subject

MCSymmetry == Permutations(Periods) \cup Permutations(Clients) \cup Permutations(Rules)

Somebody == CHOOSE person \in People : TRUE
Crew == {Somebody, CHOOSE person \in People \ {Somebody} : TRUE}

Published ==
  /\ \E lead \in Periods :
       /\ period = [p \in Periods |-> IF p = lead THEN [status |-> "published", from |-> 1, to |-> Days]
                                      ELSE [status |-> "none", from |-> 1, to |-> 1]]
       /\ \E keys \in SUBSET {k \in Keys : k.period = lead /\ k.person \in Crew}, shift \in DayShifts :
            /\ Cardinality(keys) = MaxAssignments
            /\ assignment = [k \in Keys |-> IF k \in keys THEN shift ELSE Nothing]
  /\ until = [v \in Catalog |-> Days + 1]
  /\ replacement = <<>> /\ call = [c \in Clients |-> NoCall]

Begun(p, request, records, status) ==
  [profile |-> p, request |-> request, wanted |-> records, queued |-> 1, status |-> status,
   result |-> [k \in Records |-> "none"], counted |-> [processed |-> 0, conflicts |-> 0, failures |-> 0],
   completed |-> 0]
Request == CHOOSE request \in Requests : TRUE

InForce ==
  /\ now = 1 /\ system = "active"
  /\ \E r \in Rules, p \in Profiles, q \in Requests \ {Request} :
       /\ rule = [x \in Rules |-> [status |-> IF x = r THEN "active" ELSE "none", from |-> 1, to |-> Forever]]
       /\ profile = [x \in Profiles |-> [status |-> IF x = p THEN "published" ELSE "none", rule |-> r]]
       /\ run = <<Begun(p, Request, Cardinality(Records), "queued"), Begun(p, q, 0, "running")>>
  /\ checkpoint = [p \in Profiles |-> [version |-> 0, watermark |-> 0, run |-> 0]]
  /\ command = [c \in Callers |-> NoCommand]

MCInit ==
  \/ subject \in {"rosters", "definitions"} /\ DutyInit /\ AlignmentInit
  \/ subject = "replacements" /\ Published /\ AlignmentInit
  \/ subject = "runs" /\ DutyInit /\ InForce

\* The size of the first two questions.
MCRosterNext ==
  \/ \E p \in Periods, from, to \in Dates : CreatePeriod(p, from, to)
  \/ \E c \in Clients :
       \/ \E k \in Keys, target \in Catalog : k.person = Somebody /\ ReadAssignment(c, k, target)
       \/ \E p \in Periods : ReadPublish(c, p) \/ ReadCancelPeriod(c, p)
       \/ \E version \in DayShifts, to \in Dates : ReadClose(c, version, to)
       \/ Assign(c) \/ Publish(c) \/ CancelPeriod(c) \/ Close(c) \/ Abandon(c)

MCReplacementNext == \E c \in Clients :
  \/ \E p \in Periods, by \in People, shift \in DayShifts \cup {Nothing} :
       \E k \in Duties(p), back \in Duties(p) \cup {Nothing} : ReadPropose(c, k, by, back, shift)
  \/ \E i \in DOMAIN replacement : ReadApprove(c, i) \/ ReadCancel(c, i)
  \/ Propose(c) \/ Decide(c) \/ Abandon(c)

\* One run of one request, which is only queued here.
MCDefinitionsNext ==
  /\ DefinitionsNext \/ CreateNext \/ \E c \in Callers : Refuse(c)
  /\ Len(run') <= 1
  /\ \A c \in Callers :
       /\ command'[c].op = "run" => command'[c].request = Request /\ command'[c].wanted = 0
       /\ command'[c].op = "rule" => command'[c].to \in {command'[c].from, Forever}

MCRunsNext == RunsNext \/ \E c \in Callers : Refuse(c)

MCNext ==
  /\ \/ subject = "rosters" /\ MCRosterNext /\ UNCHANGED alignmentVars
     \/ subject = "replacements" /\ MCReplacementNext /\ UNCHANGED alignmentVars
     \/ subject = "definitions" /\ MCDefinitionsNext /\ UNCHANGED dutyVars
     \/ subject = "runs" /\ MCRunsNext /\ UNCHANGED dutyVars
  /\ UNCHANGED subject

MCSpec == MCInit /\ [][MCNext]_<<subject, dutyVars, alignmentVars>>
=============================================================================
