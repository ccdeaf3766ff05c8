-------------------------- MODULE MaintenanceProofs -------------------------
(*****************************************************************************)
(* The promises of Maintenance and of the updater that drives it, for any    *)
(* number of applications, tasks, versions, edits, crashes and               *)
(* interruptions. The invariant of Maintenance says what the snapshot in     *)
(* memory and the one in the file may claim of each application at every     *)
(* point of prepare and restore; what the file claims is all that a          *)
(* restarted API has to go by.                                               *)
(*****************************************************************************)
EXTENDS Updater, TLAPS

Preparing == pc \in {"collect", "visit", "match", "disable", "stopped"}
Restoring == pc \in {"review", "enable", "restored"}

\* The gate is closed while a job runs or either snapshot is active, and nothing is
\* in memory while the API is down.
Gated ==
  /\ up /\ (pc # "idle" \/ Active(saved) \/ Active(snap)) => gate
  /\ ~up => pc = "idle" /\ snap = None
  /\ up /\ pc = "idle" /\ ~Active(snap) => ~Active(saved)

\* Where the loops stand, and that they have a list to stand in.
Walking ==
  /\ pc \in {"visit", "review"} => at \in 1..N + 1
  /\ pc \in {"match", "disable", "stopped", "enable", "restored"} => at \in Apps
  /\ pc \in {"visit", "match", "disable", "stopped", "enable", "restored"}
       => snap.apps \in [Apps -> Entry]
  /\ pc = "review" /\ at \in Apps => snap.apps \in [Apps -> Entry]
  /\ pc = "collect" => snap.apps = <<>>

\* The phase the job gave the snapshot, and the intent it wrote before it acts.
Phased ==
  /\ Preparing => snap.phase = "draining"
  /\ Restoring => snap.phase = "restoring"
  /\ pc = "disable" => saved = snap /\ snap.apps[at].phase = "stopping"
  /\ pc = "enable" => saved = snap /\ snap.apps[at].phase = "starting"
  /\ pc \in {"match", "disable", "stopped", "enable", "restored"} => was[at]

\* A host serves and a child runs only for an application that is enabled or was left by
\* an operation that was not completed; and neither for one that prepare has stopped, from
\* then on until restore begins.
Hosted ==
  /\ \A a \in stuck : ~enabled[a]
  /\ \A a \in Apps : host[a] # 0 \/ alive[a] => enabled[a] \/ a \in stuck
  /\ pc \in {"match", "disable"} => host[at] = 0 /\ ~alive[at]
  /\ Preparing \/ saved.phase = "paused"
       => \A a \in Apps : was[a] /\ ~enabled[a] => host[a] = 0 /\ ~alive[a]

\* What a snapshot claims: before the list was made nothing was changed; after it each
\* entry remembers what the application was, and 'stopped' is one disable and no enable.
Claims(s) ==
  \/ s.apps = <<>> /\ enabled = was
  \/ /\ s.apps \in [Apps -> Entry]
     /\ \A a \in Apps : /\ s.apps[a].enabled = was[a]
                        /\ s.apps[a].phase # "unchanged" => was[a]
                        /\ s.apps[a].phase = "stopped" => disables[a] = 1 /\ enables[a] = 0
Recorded ==
  /\ Active(saved) => Claims(saved)
  /\ pc # "idle" \/ Active(snap) => Claims(snap)

\* Nothing is enabled while preparing, and nothing beyond the loop is disabled.
Counted ==
  /\ Preparing => \A a \in Apps : enables[a] = 0
  /\ pc = "collect" => \A a \in Apps : disables[a] = 0
  /\ pc \in {"visit", "match", "disable"} => \A a \in Apps : a >= at => disables[a] = 0
  /\ pc = "stopped" => disables[at] = 1 /\ \A a \in Apps : a > at => disables[a] = 0
  /\ pc = "enable" => disables[at] = 1 /\ enables[at] = 0

\* How far the loops have come: stopped behind prepare's, as before behind restore's.
Progress ==
  /\ pc = "collect" => enabled = was
  /\ pc \in {"visit", "match", "disable"}
       => \A a \in Apps : IF a < at THEN ~enabled[a] ELSE enabled[a] = was[a]
  /\ pc = "stopped" => \A a \in Apps : IF a <= at THEN ~enabled[a] ELSE enabled[a] = was[a]
  /\ pc \in {"review", "enable"} => \A a \in Apps : a < at => enabled[a] = was[a]
  /\ pc = "restored" => \A a \in Apps : a <= at => enabled[a] = was[a]

IInv ==
  /\ TypeOK /\ Gated /\ Walking /\ Phased /\ Hosted /\ Recorded /\ Counted /\ Progress
  /\ NothingRepeated /\ PausedIsQuiet
-----------------------------------------------------------------------------
(***************************************************************************)
(* Snapshots under the changes that are made to them.                      *)
(***************************************************************************)
SnapPhases == {"draining", "paused", "restoring", "completed", "blocked"}
EntryPhases == {"unchanged", "stopping", "stopped", "starting", "restored"}

\* Another phase, the same list.
LEMMA Rephased ==
  ASSUME NEW s \in Snapshot, NEW p \in SnapPhases, NEW n, n = [s EXCEPT !.phase = p]
  PROVE  n \in Snapshot /\ n.phase = p /\ n.apps = s.apps
BY DEF Snapshot, SnapPhases

\* The list is made, the phase stays.
LEMMA Collected ==
  ASSUME NEW s \in Snapshot, NEW fs \in [Apps -> Entry], NEW n, n = [s EXCEPT !.apps = fs]
  PROVE  n \in Snapshot /\ n.phase = s.phase /\ n.apps = fs
BY DEF Snapshot

\* A list with a place in it is not the empty list.
LEMMA Listed ==
  ASSUME NEW fs \in [Apps -> Entry], NEW i \in Apps
  PROVE  fs # <<>>
<1>1. DOMAIN fs = Apps
  OBVIOUS
<1>2. DOMAIN <<>> = {}
  OBVIOUS
<1>3. QED
  BY <1>1, <1>2

\* A new mark on the entry of the application the loop stands at.
LEMMA MarkedOK ==
  ASSUME IInv, at \in Apps, snap.apps \in [Apps -> Entry], NEW p \in EntryPhases,
         NEW n, n = Marked(p)
  PROVE  /\ n \in Snapshot /\ n.phase = snap.phase /\ n.apps \in [Apps -> Entry]
         /\ n.apps[at].phase = p
         /\ \A a \in Apps : n.apps[a].enabled = snap.apps[a].enabled
         /\ \A a \in Apps \ {at} : n.apps[a] = snap.apps[a]
<1> DEFINE e == [snap.apps[at] EXCEPT !.phase = p]
           fs == [snap.apps EXCEPT ![at] = e]
<1>1. n = [snap EXCEPT !.apps = fs]
  BY DEF Marked
<1>2. e \in Entry /\ e.phase = p /\ e.enabled = snap.apps[at].enabled
  BY DEF Entry, EntryPhases
<1>3. snap \in Snapshot
  BY DEF IInv, TypeOK
<1> HIDE DEF e
<1>4. fs \in [Apps -> Entry] /\ fs[at] = e /\ \A a \in Apps \ {at} : fs[a] = snap.apps[a]
  BY <1>2
<1> HIDE DEF fs
<1>5. n \in Snapshot /\ n.phase = snap.phase /\ n.apps = fs
  BY <1>1, <1>3, <1>4 DEF Snapshot
<1>6. QED
  BY <1>2, <1>4, <1>5, Zenon

\* The mark of an acknowledged change: the phase and the revision of now.
LEMMA AcknowledgedOK ==
  ASSUME IInv, at \in Apps, snap.apps \in [Apps -> Entry], NEW p \in EntryPhases,
         NEW n, n = Acknowledged(p)
  PROVE  /\ n \in Snapshot /\ n.phase = snap.phase /\ n.apps \in [Apps -> Entry]
         /\ n.apps[at].phase = p
         /\ \A a \in Apps : n.apps[a].enabled = snap.apps[a].enabled
         /\ \A a \in Apps \ {at} : n.apps[a] = snap.apps[a]
<1> DEFINE e == [snap.apps[at] EXCEPT !.phase = p, !.rev = rev[at]]
           fs == [snap.apps EXCEPT ![at] = e]
<1>1. n = [snap EXCEPT !.apps = fs]
  BY DEF Acknowledged, Snapshot, IInv, TypeOK
<1>2. rev[at] \in Nat /\ snap \in Snapshot
  BY DEF IInv, TypeOK
<1>3. e \in Entry /\ e.phase = p /\ e.enabled = snap.apps[at].enabled
  BY <1>2 DEF Entry, EntryPhases
<1> HIDE DEF e
<1>4. fs \in [Apps -> Entry] /\ fs[at] = e /\ \A a \in Apps \ {at} : fs[a] = snap.apps[a]
  BY <1>3
<1> HIDE DEF fs
<1>5. n \in Snapshot /\ n.phase = snap.phase /\ n.apps = fs
  BY <1>1, <1>2, <1>4 DEF Snapshot
<1>6. QED
  BY <1>3, <1>4, <1>5, Zenon

\* A new mark keeps what the snapshot claims, if a mark 'stopped' is true.
LEMMA ClaimsKept ==
  ASSUME IInv, Claims(snap), at \in Apps, snap.apps \in [Apps -> Entry], was[at],
         NEW n, n.apps \in [Apps -> Entry],
         \A a \in Apps : n.apps[a].enabled = snap.apps[a].enabled,
         \A a \in Apps \ {at} : n.apps[a] = snap.apps[a],
         n.apps[at].phase = "stopped" => disables[at] = 1 /\ enables[at] = 0,
         snap' = n, UNCHANGED <<enabled, was, disables, enables>>
  PROVE  Claims(snap)'
<1>1. /\ snap.apps \in [Apps -> Entry]
      /\ \A a \in Apps : /\ snap.apps[a].enabled = was[a]
                         /\ snap.apps[a].phase # "unchanged" => was[a]
                         /\ snap.apps[a].phase = "stopped" => disables[a] = 1 /\ enables[a] = 0
  BY Listed DEF Claims
<1>2. ASSUME NEW a \in Apps
      PROVE  /\ n.apps[a].enabled = was[a]
             /\ n.apps[a].phase # "unchanged" => was[a]
             /\ n.apps[a].phase = "stopped" => disables[a] = 1 /\ enables[a] = 0
  <2>1. CASE a = at
    BY <1>1, <2>1
  <2>2. CASE a # at
    BY <1>1, <2>2
  <2>3. QED
    BY <2>1, <2>2
<1>3. QED
  BY <1>2 DEF Claims
-----------------------------------------------------------------------------
(***************************************************************************)
(* A lifecycle operation, however it ends.                                 *)
(***************************************************************************)
\* What it leaves: the types, the other applications, no open operation of an enabled
\* one; and that one which disables starts nothing.
Operated(a, on) ==
  /\ enabled' \in [Apps -> BOOLEAN] /\ rev' \in [Apps -> Nat] /\ stuck' \subseteq Apps
  /\ host' \in [Apps -> Nat] /\ alive' \in [Apps -> BOOLEAN]
  /\ \A b \in Apps \ {a} : /\ enabled'[b] = enabled[b] /\ host'[b] = host[b]
                         /\ alive'[b] = alive[b] /\ (b \in stuck' <=> b \in stuck)
  /\ a \in stuck' => ~enabled'[a]
  /\ host'[a] # 0 \/ alive'[a] => enabled'[a] \/ a \in stuck'
  /\ enabled'[a] => on
  /\ \/ on
     \/ host'[a] = 0 /\ ~alive'[a]
     \/ host'[a] = host[a] /\ alive'[a] = alive[a]

LEMMA LeftOK ==
  ASSUME TypeOK, NEW a \in Apps, NEW on \in BOOLEAN, NEW y \in BOOLEAN, NEW n \in {1, 2},
         NEW h \in Nat, NEW c \in BOOLEAN, NEW X \in {{}, {a}},
         a \notin stuck, Left(a, y, n, h, c, X), X = {a} => ~y, h # 0 \/ c => y \/ X = {a}, y => on,
         on \/ (h = 0 /\ ~c) \/ (h = host[a] /\ c = alive[a])
  PROVE  Operated(a, on)
<1>1. rev[a] + n \in Nat
  BY DEF TypeOK
<1>2. /\ enabled' \in [Apps -> BOOLEAN] /\ rev' \in [Apps -> Nat] /\ stuck' \subseteq Apps
      /\ host' \in [Apps -> Nat] /\ alive' \in [Apps -> BOOLEAN]
  BY <1>1 DEF TypeOK, Left
<1>3. enabled'[a] = y /\ host'[a] = h /\ alive'[a] = c /\ (a \in stuck' <=> X = {a})
  BY DEF TypeOK, Left
<1>4. ASSUME NEW b \in Apps \ {a}
      PROVE  /\ enabled'[b] = enabled[b] /\ host'[b] = host[b]
             /\ alive'[b] = alive[b] /\ (b \in stuck' <=> b \in stuck)
  BY <1>4 DEF TypeOK, Left
<1>5. QED
  BY <1>2, <1>3, <1>4 DEF Operated

LEMMA AnsweredOK ==
  ASSUME TypeOK, NEW a \in Apps, NEW on \in BOOLEAN, Answered(a, on)
  PROVE  Operated(a, on) /\ enabled'[a] = on
<1> DEFINE h == IF on THEN rev[a] + 2 ELSE 0
<1>1. h \in Nat /\ (h # 0 => on)
  BY DEF TypeOK
<1>2. Left(a, on, 2, h, on, {}) /\ a \notin stuck
  BY DEF Answered
<1>3. enabled'[a] = on
  BY <1>2 DEF TypeOK, Left
<1> HIDE DEF h
<1>4. QED
  BY <1>1, <1>2, <1>3, LeftOK

LEMMA BrokenOK ==
  ASSUME TypeOK, NEW a \in Apps, NEW on \in BOOLEAN, Broken(a, on)
  PROVE  Operated(a, on)
<1>1. a \notin stuck /\ rev[a] \in Nat /\ host[a] \in Nat /\ alive[a] \in BOOLEAN
  BY DEF Broken, TypeOK
<1>2. CASE Left(a, FALSE, 1, host[a], alive[a], {a})
  BY <1>1, <1>2, LeftOK
<1>3. CASE \E n \in {1, 2} : Left(a, FALSE, n, 0, FALSE, {a})
  BY <1>1, <1>3, LeftOK
<1>4. CASE on /\ Left(a, FALSE, 1, rev[a] + 1, TRUE, {a})
  <2>1. rev[a] + 1 \in Nat
    BY <1>1
  <2>2. QED
    BY <1>1, <1>4, <2>1, LeftOK
<1>5. CASE Left(a, on, 2, IF on THEN rev[a] + 1 ELSE 0, on, {})
  <2> DEFINE h == IF on THEN rev[a] + 1 ELSE 0
  <2>1. h \in Nat /\ (h # 0 => on) /\ Left(a, on, 2, h, on, {})
    BY <1>1, <1>5
  <2> HIDE DEF h
  <2>2. QED
    BY <1>1, <2>1, LeftOK
<1>6. QED
  BY <1>2, <1>3, <1>4, <1>5 DEF Broken
-----------------------------------------------------------------------------
(***************************************************************************)
(* Each step of Maintenance preserves the invariant: one lemma for each    *)
(* action, or for each alternative of an action that has several.          *)
(***************************************************************************)
\* A task begins: nothing is done yet, and the gate closes before the file is written.
LEMMA PrepareOK ==
  ASSUME IInv, NEW t \in Tasks, Prepare(t)
  PROVE  IInv'
<1> USE MaintenanceAssumption DEF IInv, apps
<1>1. TypeOK'
  BY DEF TypeOK, Prepare, Persist, Snapshot
<1>2. Gated'
  BY DEF Gated, Prepare, Persist
<1>3. Walking'
  BY DEF Walking, Prepare, Persist
<1>4. Phased'
  BY DEF Phased, Restoring, Prepare, Persist
<1>5. Hosted'
  BY DEF Hosted, Prepare, Persist
<1>6. Recorded'
  BY DEF Gated, Recorded, Claims, Prepare, Persist
<1>7. Counted'
  BY DEF Counted, Prepare, Persist
<1>8. Progress'
  BY DEF Progress, Prepare, Persist
<1>9. NothingRepeated'
  BY DEF NothingRepeated, Prepare
<1>10. PausedIsQuiet'
  BY DEF PausedIsQuiet, Prepare, Persist
<1>11. QED
  BY <1>1, <1>2, <1>3, <1>4, <1>5, <1>6, <1>7, <1>8, <1>9, <1>10

\* The list is made from the records, none of which changed since the task began.
LEMMA CollectOK ==
  ASSUME IInv, Collect
  PROVE  IInv'
<1> USE MaintenanceAssumption DEF IInv, Apps, apps, rest
<1> DEFINE fs == [a \in Apps |-> [rev |-> rev[a], enabled |-> enabled[a],
                             serving |-> Serving(a), phase |-> "unchanged"]]
<1>1. fs \in [Apps -> Entry] /\ \A a \in Apps : fs[a].enabled = enabled[a] /\ fs[a].phase = "unchanged"
  BY DEF TypeOK, Entry, Serving
<1> DEFINE n == [snap EXCEPT !.apps = fs]
<1>2. /\ pc = "collect" /\ at' = 1 /\ snap' = n
      /\ \/ saved' = n /\ pc' = "visit"
         \/ saved' \in {saved, n} /\ pc' = "block"
      /\ UNCHANGED <<up, gate, apps, rest, disables, enables>>
  BY DEF Collect, Persist
<1> HIDE DEF fs
<1>3. n \in Snapshot /\ n.phase = snap.phase /\ n.apps = fs
  BY <1>1 DEF TypeOK, Snapshot
<1> HIDE DEF n
<1>4. TypeOK'
  BY <1>2, <1>3 DEF TypeOK
<1>5. Gated'
  BY <1>2 DEF Gated
<1>6. Walking'
  BY <1>1, <1>2, <1>3 DEF Walking
<1>7. Phased'
  BY <1>2, <1>3 DEF Phased, Preparing, Restoring
<1>8. Hosted'
  BY <1>2 DEF Hosted, Preparing
<1>9. Recorded'
  <2>1. pc # "idle" \/ Active(snap) => Claims(snap)
    BY DEF Recorded
  <2>2. Claims(snap)'
    BY <1>1, <1>2, <1>3, <2>1 DEF Claims, Progress
  <2>3. saved' = saved => (Active(saved') => Claims(saved)')
    BY <1>1, <1>2, <1>3 DEF Recorded, Claims
  <2>4. saved' = n => Claims(saved)'
    BY <1>1, <1>2, <1>3, <2>2 DEF Claims
  <2>5. QED
    BY <1>1, <1>2, <1>3, <2>2, <2>3, <2>4 DEF Recorded
<1>10. Counted'
  BY <1>2 DEF Counted, Preparing
<1>11. Progress'
  BY <1>2 DEF Progress
<1>12. NothingRepeated'
  BY <1>2 DEF NothingRepeated
<1>13. PausedIsQuiet'
  BY <1>2, <1>3 DEF PausedIsQuiet, Phased, Preparing
<1>14. QED
  BY <1>4, <1>5, <1>6, <1>7, <1>8, <1>9, <1>10, <1>11, <1>12, <1>13

\* The loop of prepare has passed every application.
LEMMA PausedOK ==
  ASSUME IInv, pc = "visit", Done("paused"), UNCHANGED <<at, host, alive>>,
         UNCHANGED <<up, gate, enabled, rev, stuck, rest, disables, enables>>
  PROVE  IInv'
<1> USE MaintenanceAssumption DEF IInv, Apps, apps, rest
<1> DEFINE n == [snap EXCEPT !.phase = "paused"]
<1>1. n \in Snapshot /\ n.phase = "paused" /\ n.apps = snap.apps
  BY Rephased DEF TypeOK, SnapPhases
<1>2. /\ pc = "visit" /\ snap' = n
      /\ \/ saved' = n /\ pc' = "idle"
         \/ saved' \in {saved, n} /\ pc' = "block"
      /\ at > N /\ at' = at /\ gate' = gate
      /\ UNCHANGED <<up, apps, rest, disables, enables>>
  BY DEF Persist, Done
<1> HIDE DEF n
<1>3. TypeOK'
  <2>1. snap' \in Snapshot /\ saved' \in Snapshot
    BY <1>1, <1>2 DEF TypeOK
  <2>2. at' \in 0..N + 1
    BY <1>1, <1>2 DEF TypeOK
  <2>3. QED
    BY <1>1, <1>2, <2>1, <2>2 DEF TypeOK
<1>4. Gated'
  BY <1>2 DEF Gated
<1>5. Walking'
  BY <1>2 DEF Walking
<1>6. Phased'
  BY <1>2 DEF Phased, Preparing, Restoring
<1>7. Hosted'
  BY <1>2 DEF Hosted, Preparing
<1>8. Recorded'
  <2>1. pc # "idle" \/ Active(snap) => Claims(snap)
    BY DEF Recorded
  <2>2. Claims(snap)'
    BY <1>1, <1>2, <2>1 DEF Claims
  <2>3. saved' = saved => (Active(saved') => Claims(saved)')
    BY <1>1, <1>2 DEF Recorded, Claims
  <2>4. saved' = n => Claims(saved)'
    BY <1>1, <1>2, <2>2 DEF Claims
  <2>5. QED
    BY <1>1, <1>2, <2>2, <2>3, <2>4 DEF Recorded
<1>9. Counted'
  BY <1>2 DEF Counted, Preparing
<1>10. Progress'
  BY <1>2 DEF Progress
<1>11. NothingRepeated'
  BY DEF NothingRepeated
<1>12. PausedIsQuiet'
  BY <1>2 DEF Walking, Hosted, Preparing, Progress, PausedIsQuiet
<1>13. QED
  BY <1>3, <1>4, <1>5, <1>6, <1>7, <1>8, <1>9, <1>10, <1>11, <1>12

\* An application that is not enabled is passed over.
LEMMA PassOverOK ==
  ASSUME IInv, pc = "visit", at <= N, PassedOver, at' = at + 1,
         UNCHANGED <<up, gate, file, pc, apps, rest, disables, enables>>
  PROVE  IInv'
<1> USE MaintenanceAssumption DEF IInv, Apps, file, apps, rest, entry
<1>1. at \in Apps /\ snap.apps \in [Apps -> Entry] /\ snap.apps # <<>>
  BY Listed DEF Walking
<1>2. ~was[at] /\ ~enabled[at]
  BY <1>1 DEF PassedOver, Recorded, Claims, Progress
<1>3. TypeOK'
  BY DEF TypeOK, Walking
<1>4. Gated'
  BY DEF Gated
<1>5. Walking'
  BY DEF Walking
<1>6. Phased'
  BY DEF Phased, Preparing, Restoring
<1>7. Hosted'
  BY DEF Hosted, Preparing
<1>8. Recorded'
  BY DEF Recorded, Claims
<1>9. Counted'
  BY <1>1 DEF Counted, Preparing
<1>10. Progress'
  BY <1>1, <1>2 DEF Progress
<1>11. NothingRepeated'
  BY DEF NothingRepeated
<1>12. PausedIsQuiet'
  BY DEF PausedIsQuiet
<1>13. QED
  BY <1>3, <1>4, <1>5, <1>6, <1>7, <1>8, <1>9, <1>10, <1>11, <1>12

\* The job gives up: nothing but its place changes.
LEMMA RefuseOK ==
  ASSUME IInv, pc \in {"collect", "visit", "match", "review"}, pc' = "block",
         UNCHANGED <<up, gate, file, at, apps, rest, disables, enables>>
  PROVE  IInv'
<1> USE DEF IInv, file, apps, rest
<1>1. TypeOK'
  BY DEF TypeOK
<1>2. Gated'
  BY DEF Gated
<1>3. Walking'
  BY DEF Walking
<1>4. Phased'
  BY DEF Phased, Preparing, Restoring
<1>5. Hosted'
  BY DEF Hosted, Preparing
<1>6. Recorded'
  BY DEF Recorded, Claims
<1>7. Counted'
  BY DEF Counted, Preparing
<1>8. Progress'
  BY DEF Progress
<1>9. NothingRepeated'
  BY DEF NothingRepeated
<1>10. PausedIsQuiet'
  BY DEF PausedIsQuiet
<1>11. QED
  BY <1>1, <1>2, <1>3, <1>4, <1>5, <1>6, <1>7, <1>8, <1>9, <1>10

\* The host of an application that serves is stopped.
LEMMA StopOK ==
  ASSUME IInv, pc = "visit", at <= N, entry.enabled, pc' = "match",
         host' = [host EXCEPT ![at] = 0], alive' = [alive EXCEPT ![at] = FALSE],
         UNCHANGED <<up, gate, file, at, enabled, rev, stuck, rest, disables, enables>>
  PROVE  IInv'
<1> USE DEF IInv, Apps, file, rest, entry
<1>1. at \in Apps /\ snap.apps \in [Apps -> Entry] /\ snap.apps # <<>>
  BY Listed DEF Walking
<1>2. was[at] /\ enabled[at]
  BY <1>1 DEF Recorded, Claims, Progress
<1>3. /\ host' \in [Apps -> Nat] /\ alive' \in [Apps -> BOOLEAN]
      /\ host'[at] = 0 /\ ~alive'[at]
      /\ \A a \in Apps \ {at} : host'[a] = host[a] /\ alive'[a] = alive[a]
  BY <1>1 DEF TypeOK
<1>4. TypeOK'
  BY DEF TypeOK
<1>5. Gated'
  BY DEF Gated
<1>6. Walking'
  BY DEF Walking
<1>7. Phased'
  BY <1>2 DEF Phased, Preparing, Restoring
<1>8. Hosted'
  BY <1>3 DEF Hosted, Preparing
<1>9. Recorded'
  BY DEF Recorded, Claims
<1>10. Counted'
  BY DEF Counted, Preparing
<1>11. Progress'
  BY DEF Progress
<1>12. NothingRepeated'
  BY DEF NothingRepeated
<1>13. PausedIsQuiet'
  BY DEF PausedIsQuiet
<1>14. QED
  BY <1>4, <1>5, <1>6, <1>7, <1>8, <1>9, <1>10, <1>11, <1>12, <1>13

\* The intent 'stopping' is written.
LEMMA MatchThenMarkOK ==
  ASSUME IInv, pc = "match", Persist(Marked("stopping"), "disable"),
         UNCHANGED <<up, gate, at, apps, rest, disables, enables>>
  PROVE  IInv'
<1> USE DEF IInv, apps, rest
<1> DEFINE n == Marked("stopping")
<1>1. /\ pc = "match" /\ snap' = n
      /\ \/ saved' = n /\ pc' = "disable"
         \/ saved' \in {saved, n} /\ pc' = "block"
      /\ at' = at
      /\ UNCHANGED <<up, gate, apps, rest, disables, enables>>
  BY DEF Persist
<1>2. at \in Apps /\ snap.apps \in [Apps -> Entry] /\ was[at]
  BY <1>1 DEF Walking, Phased, TypeOK
<1>3. snap.apps # <<>>
  BY <1>2, Listed
<1>4. /\ n \in Snapshot /\ n.phase = snap.phase /\ n.apps \in [Apps -> Entry]
      /\ n.apps[at].phase = "stopping"
      /\ \A a \in Apps : n.apps[a].enabled = snap.apps[a].enabled
      /\ \A a \in Apps \ {at} : n.apps[a] = snap.apps[a]
  <2>1. "stopping" \in EntryPhases
    BY DEF EntryPhases
  <2>2. QED
    BY <1>2, <2>1, MarkedOK
<1> HIDE DEF n
<1>5. TypeOK'
  <2>1. snap' \in Snapshot /\ saved' \in Snapshot
    BY <1>1, <1>2, <1>3, <1>4 DEF TypeOK
  <2>2. at' \in 0..N + 1
    BY <1>1, <1>2, <1>3, <1>4 DEF TypeOK
  <2>3. QED
    BY <1>1, <1>2, <1>3, <1>4, <2>1, <2>2 DEF TypeOK
<1>6. Gated'
  BY <1>1 DEF Gated
<1>7. Walking'
  BY <1>1, <1>2, <1>3, <1>4 DEF Walking
<1>8. Phased'
  BY <1>1, <1>4 DEF Phased, Preparing, Restoring
<1>9. Hosted'
  BY DEF Hosted, Preparing
<1>10. Recorded'
  <2>1. pc # "idle" \/ Active(snap) => Claims(snap)
    BY DEF Recorded
  <2>2. Claims(snap)'
    BY <1>1, <1>2, <1>3, <1>4, <2>1, ClaimsKept DEF Counted, NothingRepeated, TypeOK, Preparing
  <2>3. saved' = saved => (Active(saved') => Claims(saved)')
    BY <1>1, <1>2, <1>3, <1>4 DEF Recorded, Claims
  <2>4. saved' = n => Claims(saved)'
    BY <1>1, <1>2, <1>3, <1>4, <2>2 DEF Claims
  <2>5. QED
    BY <1>1, <1>2, <1>3, <1>4, <2>2, <2>3, <2>4 DEF Recorded
<1>11. Counted'
  BY <1>1 DEF Counted, Preparing
<1>12. Progress'
  BY <1>1 DEF Progress
<1>13. NothingRepeated'
  BY DEF NothingRepeated
<1>14. PausedIsQuiet'
  BY <1>1, <1>4 DEF PausedIsQuiet, Phased, Preparing
<1>15. QED
  BY <1>5, <1>6, <1>7, <1>8, <1>9, <1>10, <1>11, <1>12, <1>13, <1>14

\* The record is disabled, whether or not the answer arrives.
LEMMA DisableOK ==
  ASSUME IInv, Disable
  PROVE  IInv'
<1> USE DEF IInv, Apps, file, rest
<1>1. at \in Apps /\ snap.apps \in [Apps -> Entry] /\ snap.apps # <<>>
  BY Listed DEF Walking, Disable
<1>2. pc = "disable" /\ was[at] /\ host[at] = 0 /\ ~alive[at] /\ disables[at] = 0 /\ enables[at] = 0
      /\ saved = snap /\ snap.apps[at].phase = "stopping" /\ snap.phase = "draining"
  BY <1>1 DEF Disable, Phased, Hosted, Counted, Preparing
<1>3. UNCHANGED <<up, gate, file, at, rest, enables>> /\ pc' \in {"stopped", "block"}
  BY DEF Disable
<1>4. /\ enabled' \in [Apps -> BOOLEAN] /\ rev' \in [Apps -> Nat] /\ disables' \in [Apps -> Nat]
      /\ host' \in [Apps -> Nat] /\ alive' \in [Apps -> BOOLEAN] /\ stuck' \subseteq Apps
      /\ \A a \in Apps \ {at} : /\ enabled'[a] = enabled[a] /\ disables'[a] = disables[a]
                                /\ host'[a] = host[a] /\ alive'[a] = alive[a]
                                /\ (a \in stuck' <=> a \in stuck)
      /\ host'[at] = 0 /\ ~alive'[at] /\ (at \in stuck' => ~enabled'[at])
      /\ \/ ~enabled'[at] /\ disables'[at] = 1
         \/ pc' = "block" /\ enabled'[at] = enabled[at] /\ disables'[at] = 0
  <2>1. CASE UNCHANGED <<apps, disables>> /\ pc' = "block"
    BY <1>1, <1>2, <2>1 DEF apps, TypeOK, Hosted
  <2>2. CASE /\ Answered(at, FALSE) \/ Broken(at, FALSE)
             /\ disables' = [disables EXCEPT ![at] = @ + 1]
    <3>1. Operated(at, FALSE)
      BY <1>1, <2>2, AnsweredOK, BrokenOK
    <3>2. disables' \in [Apps -> Nat]
      <4>1. disables[at] + 1 \in Nat /\ disables \in [Apps -> Nat]
        BY <1>2 DEF TypeOK
      <4>2. QED
        BY <2>2, <4>1
    <3>3. disables'[at] = 1 /\ \A a \in Apps \ {at} : disables'[a] = disables[a]
      BY <1>1, <1>2, <2>2 DEF TypeOK
    <3>4. QED
      BY <1>2, <3>1, <3>2, <3>3 DEF Operated
  <2>3. QED
    BY <2>1, <2>2 DEF Disable
<1>5. TypeOK'
  BY <1>2, <1>3, <1>4 DEF TypeOK
<1>6. Gated'
  BY <1>2, <1>3 DEF Gated
<1>7. Walking'
  BY <1>2, <1>3 DEF Walking
<1>8. Phased'
  BY <1>2, <1>3 DEF Phased, Restoring
<1>9. Hosted'
  <2>1. ASSUME NEW a \in Apps
        PROVE  /\ a \in stuck' => ~enabled'[a]
               /\ host'[a] # 0 \/ alive'[a] => enabled'[a] \/ a \in stuck'
               /\ was'[a] /\ ~enabled'[a] => host'[a] = 0 /\ ~alive'[a]
    <3>1. CASE a = at
      BY <1>4, <3>1
    <3>2. CASE a # at
      BY <1>2, <1>3, <1>4, <2>1, <3>2 DEF Hosted, Preparing
    <3>3. QED
      BY <3>1, <3>2
  <2>2. \A a \in stuck' : ~enabled'[a]
    BY <1>4, <2>1
  <2>3. QED
    BY <1>3, <1>4, <2>1, <2>2 DEF Hosted, Preparing
<1>10. Recorded'
  <2>1. Claims(snap)
    BY <1>2 DEF Recorded
  <2>2. ASSUME NEW a \in Apps
        PROVE  snap.apps[a].phase = "stopped" => disables'[a] = 1 /\ enables'[a] = 0
    <3>1. CASE a = at
      BY <1>2, <3>1
    <3>2. CASE a # at
      BY <1>1, <1>3, <1>4, <2>1, <3>2 DEF Claims
    <3>3. QED
      BY <3>1, <3>2
  <2>3. Claims(snap)'
    BY <1>1, <1>3, <2>1, <2>2 DEF Claims
  <2>4. QED
    BY <1>2, <1>3, <2>3 DEF Recorded, Claims
<1>11. Counted'
  BY <1>1, <1>2, <1>3, <1>4 DEF Counted, Preparing
<1>12. Progress'
  <2>1. ASSUME NEW a \in Apps, pc' = "stopped"
        PROVE  IF a <= at THEN ~enabled'[a] ELSE enabled'[a] = was[a]
    <3>1. CASE a = at
      BY <1>2, <1>3, <1>4, <2>1, <3>1
    <3>2. CASE a # at
      <4>1. IF a < at THEN ~enabled[a] ELSE enabled[a] = was[a]
        BY <1>2 DEF Progress
      <4>2. enabled'[a] = enabled[a] /\ was'[a] = was[a]
        BY <1>3, <1>4, <3>2
      <4>3. QED
        BY <1>1, <3>2, <4>1, <4>2
    <3>3. QED
      BY <3>1, <3>2
  <2>2. QED
    BY <1>2, <1>3, <2>1 DEF Progress
<1>13. NothingRepeated'
  <2>1. ASSUME NEW a \in Apps
        PROVE  enables'[a] <= disables'[a] /\ disables'[a] <= 1
    <3>1. CASE a = at
      BY <1>2, <1>3, <1>4, <3>1
    <3>2. CASE a # at
      BY <1>3, <1>4, <3>2 DEF NothingRepeated
    <3>3. QED
      BY <3>1, <3>2
  <2>2. QED
    BY <2>1 DEF NothingRepeated
<1>14. PausedIsQuiet'
  BY <1>2, <1>3 DEF PausedIsQuiet
<1>15. QED
  BY <1>5, <1>6, <1>7, <1>8, <1>9, <1>10, <1>11, <1>12, <1>13, <1>14

\* The acknowledgement of a stop is written, and the loop moves on.
LEMMA StoppedOK ==
  ASSUME IInv, Stopped
  PROVE  IInv'
<1> USE MaintenanceAssumption DEF IInv, Apps, apps, rest
<1> DEFINE n == Acknowledged("stopped")
<1>1. /\ pc = "stopped" /\ snap' = n
      /\ \/ saved' = n /\ pc' = "visit"
         \/ saved' \in {saved, n} /\ pc' = "block"
      /\ at' = at + 1
      /\ UNCHANGED <<up, gate, apps, rest, disables, enables>>
  BY DEF Stopped, Persist
<1>2. at \in Apps /\ snap.apps \in [Apps -> Entry] /\ was[at]
  BY <1>1 DEF Walking, Phased, TypeOK
<1>3. snap.apps # <<>>
  BY <1>2, Listed
<1>4. /\ n \in Snapshot /\ n.phase = snap.phase /\ n.apps \in [Apps -> Entry]
      /\ n.apps[at].phase = "stopped"
      /\ \A a \in Apps : n.apps[a].enabled = snap.apps[a].enabled
      /\ \A a \in Apps \ {at} : n.apps[a] = snap.apps[a]
  <2>1. "stopped" \in EntryPhases
    BY DEF EntryPhases
  <2>2. QED
    BY <1>2, <2>1, AcknowledgedOK
<1> HIDE DEF n
<1>5. TypeOK'
  <2>1. snap' \in Snapshot /\ saved' \in Snapshot
    BY <1>1, <1>2, <1>3, <1>4 DEF TypeOK
  <2>2. at' \in 0..N + 1
    BY <1>1, <1>2, <1>3, <1>4 DEF TypeOK
  <2>3. QED
    BY <1>1, <1>2, <1>3, <1>4, <2>1, <2>2 DEF TypeOK
<1>6. Gated'
  BY <1>1 DEF Gated
<1>7. Walking'
  BY <1>1, <1>2, <1>3, <1>4 DEF Walking
<1>8. Phased'
  BY <1>1, <1>4 DEF Phased, Preparing, Restoring
<1>9. Hosted'
  BY <1>1 DEF Hosted, Preparing
<1>10. Recorded'
  <2>1. pc # "idle" \/ Active(snap) => Claims(snap)
    BY DEF Recorded
  <2>2. Claims(snap)'
    BY <1>1, <1>2, <1>3, <1>4, <2>1, ClaimsKept DEF Counted, NothingRepeated, TypeOK, Preparing
  <2>3. saved' = saved => (Active(saved') => Claims(saved)')
    BY <1>1, <1>2, <1>3, <1>4 DEF Recorded, Claims
  <2>4. saved' = n => Claims(saved)'
    BY <1>1, <1>2, <1>3, <1>4, <2>2 DEF Claims
  <2>5. QED
    BY <1>1, <1>2, <1>3, <1>4, <2>2, <2>3, <2>4 DEF Recorded
<1>11. Counted'
  BY <1>1, <1>2 DEF Counted, Preparing
<1>12. Progress'
  BY <1>1, <1>2 DEF Progress
<1>13. NothingRepeated'
  BY <1>1 DEF NothingRepeated
<1>14. PausedIsQuiet'
  BY <1>1, <1>4 DEF PausedIsQuiet, Phased, Preparing
<1>15. QED
  BY <1>5, <1>6, <1>7, <1>8, <1>9, <1>10, <1>11, <1>12, <1>13, <1>14

\* The review of the list begins, or there is nothing to review.
LEMMA RestoreOK ==
  ASSUME IInv, NEW t \in Tasks, Restore(t)
  PROVE  IInv'
<1> USE MaintenanceAssumption DEF IInv, Apps, apps, rest
<1> DEFINE n == [snap EXCEPT !.phase = "restoring"]
<1>1. n \in Snapshot /\ n.phase = "restoring" /\ n.apps = snap.apps
  BY Rephased DEF TypeOK, SnapPhases
<1>2. /\ pc = "idle" /\ snap' = n
      /\ \/ saved' = n /\ pc' = "review"
         \/ saved' \in {saved, n} /\ pc' = "block"
      /\ up /\ gate' = gate /\ Active(snap) /\ ~Unknown(snap) /\ at' = IF snap.apps = <<>> THEN N + 1 ELSE 1
      /\ UNCHANGED <<up, apps, rest, disables, enables>>
  BY DEF Persist, Restore
<1> HIDE DEF n
<1>3. Claims(snap)
  BY <1>2 DEF Recorded
<1>4. snap.apps = <<>> => \A a \in Apps : enabled[a] = was[a]
  BY <1>3, Listed DEF Claims
<1>5. at' \in 1..N + 1 /\ (at' \in Apps => snap.apps # <<>>)
  BY <1>2
<1>6. TypeOK'
  <2>1. snap' \in Snapshot /\ saved' \in Snapshot
    BY <1>1, <1>2, <1>5 DEF TypeOK
  <2>2. at' \in 0..N + 1
    BY <1>1, <1>2, <1>5 DEF TypeOK
  <2>3. QED
    BY <1>1, <1>2, <1>5, <2>1, <2>2 DEF TypeOK
<1>7. Gated'
  BY <1>2 DEF Gated
<1>8. Walking'
  BY <1>1, <1>2, <1>3 DEF Walking, Claims
<1>9. Phased'
  BY <1>1, <1>2 DEF Phased, Preparing
<1>10. Hosted'
  BY <1>1, <1>2 DEF Hosted, Preparing
<1>11. Recorded'
  <2>1. pc # "idle" \/ Active(snap) => Claims(snap)
    BY DEF Recorded
  <2>2. Claims(snap)'
    BY <1>1, <1>2, <1>3, <1>4, <1>5, <2>1 DEF Claims
  <2>3. saved' = saved => (Active(saved') => Claims(saved)')
    BY <1>1, <1>2, <1>3, <1>4, <1>5 DEF Recorded, Claims
  <2>4. saved' = n => Claims(saved)'
    BY <1>1, <1>2, <1>3, <1>4, <1>5, <2>2 DEF Claims
  <2>5. QED
    BY <1>1, <1>2, <1>3, <1>4, <1>5, <2>2, <2>3, <2>4 DEF Recorded
<1>12. Counted'
  BY <1>2 DEF Counted, Preparing
<1>13. Progress'
  BY <1>2, <1>4 DEF Progress
<1>14. NothingRepeated'
  BY <1>2 DEF NothingRepeated
<1>15. PausedIsQuiet'
  BY <1>1, <1>2 DEF PausedIsQuiet
<1>16. QED
  BY <1>6, <1>7, <1>8, <1>9, <1>10, <1>11, <1>12, <1>13, <1>14, <1>15

\* An application that is as it was, or already restored, is kept.
LEMMA KeepOK ==
  ASSUME IInv, pc = "review", at <= N, Kept, at' = at + 1,
         UNCHANGED <<up, gate, pc, file, apps, rest, disables, enables>>
  PROVE  IInv'
<1> USE MaintenanceAssumption DEF IInv, Apps, file, apps, rest, entry
<1>1. at \in Apps /\ snap.apps \in [Apps -> Entry] /\ snap.apps # <<>>
  BY Listed DEF Walking, TypeOK
<1>2. enabled[at] = was[at]
  BY <1>1 DEF Kept, Recorded, Claims, Progress, Serving, TypeOK
<1>3. TypeOK'
  BY <1>1 DEF TypeOK
<1>4. Gated'
  BY DEF Gated
<1>5. Walking'
  BY DEF Walking
<1>6. Phased'
  BY DEF Phased, Preparing, Restoring
<1>7. Hosted'
  BY DEF Hosted, Preparing
<1>8. Recorded'
  BY DEF Recorded, Claims
<1>9. Counted'
  BY DEF Counted, Preparing
<1>10. Progress'
  BY <1>1, <1>2 DEF Progress
<1>11. NothingRepeated'
  BY DEF NothingRepeated
<1>12. PausedIsQuiet'
  BY DEF PausedIsQuiet
<1>13. QED
  BY <1>3, <1>4, <1>5, <1>6, <1>7, <1>8, <1>9, <1>10, <1>11, <1>12

\* The intent 'starting' is written for an application that the task stopped.
LEMMA RestartOK ==
  ASSUME IInv, pc = "review", at <= N, Restorable, Persist(Marked("starting"), "enable"),
         UNCHANGED <<up, gate, at, apps, rest, disables, enables>>
  PROVE  IInv'
<1> USE MaintenanceAssumption DEF IInv, Apps, apps, rest, entry, Active
<1> DEFINE n == Marked("starting")
<1>1. /\ pc = "review" /\ snap' = n
      /\ \/ saved' = n /\ pc' = "enable"
         \/ saved' \in {saved, n} /\ pc' = "block"
      /\ at' = at
      /\ UNCHANGED <<up, gate, apps, rest, disables, enables>>
  BY DEF Persist
<1>2. at \in Apps /\ snap.apps \in [Apps -> Entry] /\ was[at]
  <2>1. at \in Apps
    BY DEF Walking
  <2>2. snap.apps \in [Apps -> Entry]
    BY <2>1 DEF Walking
  <2>3. Claims(snap) /\ snap.apps # <<>>
    BY <2>1, <2>2, Listed DEF Recorded
  <2>4. QED
    BY <2>1, <2>2, <2>3 DEF Restorable, Claims
<1>3. snap.apps # <<>>
  BY <1>2, Listed
<1>4. /\ n \in Snapshot /\ n.phase = snap.phase /\ n.apps \in [Apps -> Entry]
      /\ n.apps[at].phase = "starting"
      /\ \A a \in Apps : n.apps[a].enabled = snap.apps[a].enabled
      /\ \A a \in Apps \ {at} : n.apps[a] = snap.apps[a]
  <2>1. "starting" \in EntryPhases
    BY DEF EntryPhases
  <2>2. QED
    BY <1>2, <2>1, MarkedOK
<1> HIDE DEF n
<1>5. TypeOK'
  <2>1. snap' \in Snapshot /\ saved' \in Snapshot
    BY <1>1, <1>2, <1>3, <1>4 DEF TypeOK
  <2>2. at' \in 0..N + 1
    BY <1>1, <1>2, <1>3, <1>4 DEF TypeOK
  <2>3. QED
    BY <1>1, <1>2, <1>3, <1>4, <2>1, <2>2 DEF TypeOK
<1>6. Gated'
  BY <1>1 DEF Gated
<1>7. Walking'
  BY <1>1, <1>2, <1>3, <1>4 DEF Walking
<1>8. Phased'
  BY <1>1, <1>2, <1>4 DEF Phased, Preparing, Restoring
<1>9. Hosted'
  BY <1>1, <1>4 DEF Hosted, Preparing, Phased, Restoring
<1>10. Recorded'
  <2>1. pc # "idle" \/ Active(snap) => Claims(snap)
    BY DEF Recorded
  <2>2. Claims(snap)'
    BY <1>1, <1>2, <1>3, <1>4, <2>1, ClaimsKept DEF Counted, NothingRepeated, TypeOK, Preparing
  <2>3. saved' = saved => (Active(saved') => Claims(saved)')
    BY <1>1, <1>2, <1>3, <1>4 DEF Recorded, Claims
  <2>4. saved' = n => Claims(saved)'
    BY <1>1, <1>2, <1>3, <1>4, <2>2 DEF Claims
  <2>5. QED
    BY <1>1, <1>2, <1>3, <1>4, <2>2, <2>3, <2>4 DEF Recorded
<1>11. Counted'
  <2>1. disables[at] = 1 /\ enables[at] = 0
    BY <1>1, <1>2, <1>3 DEF Restorable, Recorded, Claims
  <2>2. QED
    BY <1>1, <2>1 DEF Counted, Preparing
<1>12. Progress'
  BY <1>1 DEF Progress
<1>13. NothingRepeated'
  BY DEF NothingRepeated
<1>14. PausedIsQuiet'
  BY <1>1, <1>4 DEF PausedIsQuiet, Phased, Restoring
<1>15. QED
  BY <1>5, <1>6, <1>7, <1>8, <1>9, <1>10, <1>11, <1>12, <1>13, <1>14

\* The record is enabled and its host started, as far as the call comes.
LEMMA EnableOK ==
  ASSUME IInv, Enable
  PROVE  IInv'
<1> USE DEF IInv, Apps, file, rest
<1>1. at \in Apps /\ snap.apps \in [Apps -> Entry] /\ snap.apps # <<>>
  BY Listed DEF Walking, Enable
<1>2. pc = "enable" /\ was[at] /\ disables[at] = 1 /\ enables[at] = 0
      /\ saved = snap /\ snap.apps[at].phase = "starting" /\ snap.phase = "restoring"
  BY <1>1 DEF Enable, Phased, Counted, Restoring
<1>3. UNCHANGED <<up, gate, file, at, rest, disables>> /\ pc' \in {"restored", "block"}
  BY DEF Enable
<1>4. /\ enabled' \in [Apps -> BOOLEAN] /\ rev' \in [Apps -> Nat] /\ enables' \in [Apps -> Nat]
      /\ host' \in [Apps -> Nat] /\ alive' \in [Apps -> BOOLEAN] /\ stuck' \subseteq Apps
      /\ \A a \in Apps \ {at} : /\ enabled'[a] = enabled[a] /\ enables'[a] = enables[a]
                                /\ host'[a] = host[a] /\ alive'[a] = alive[a]
                                /\ (a \in stuck' <=> a \in stuck)
      /\ enables'[at] \in {0, 1} /\ (at \in stuck' => ~enabled'[at])
      /\ host'[at] # 0 \/ alive'[at] => enabled'[at] \/ at \in stuck'
      /\ enabled'[at] \/ pc' = "block"
  <2>1. CASE UNCHANGED <<apps, enables>> /\ pc' = "block"
    BY <1>1, <1>2, <2>1 DEF apps, TypeOK, Hosted
  <2>2. CASE /\ \/ Answered(at, TRUE)
                \/ Broken(at, TRUE) /\ pc' = "block"
             /\ enables' = [enables EXCEPT ![at] = @ + 1]
    <3>1. Operated(at, TRUE) /\ (enabled'[at] \/ pc' = "block")
      BY <1>1, <2>2, AnsweredOK, BrokenOK
    <3>2. enables' \in [Apps -> Nat]
      <4>1. enables[at] + 1 \in Nat /\ enables \in [Apps -> Nat]
        BY <1>2 DEF TypeOK
      <4>2. QED
        BY <2>2, <4>1
    <3>3. enables'[at] = 1 /\ \A a \in Apps \ {at} : enables'[a] = enables[a]
      BY <1>1, <1>2, <2>2 DEF TypeOK
    <3>4. QED
      BY <3>1, <3>2, <3>3 DEF Operated
  <2>3. QED
    BY <2>1, <2>2 DEF Enable
<1>5. TypeOK'
  BY <1>2, <1>3, <1>4 DEF TypeOK
<1>6. Gated'
  BY <1>2, <1>3 DEF Gated
<1>7. Walking'
  BY <1>2, <1>3 DEF Walking
<1>8. Phased'
  BY <1>2, <1>3 DEF Phased, Preparing
<1>9. Hosted'
  <2>1. ASSUME NEW a \in Apps
        PROVE  /\ a \in stuck' => ~enabled'[a]
               /\ host'[a] # 0 \/ alive'[a] => enabled'[a] \/ a \in stuck'
    <3>1. CASE a = at
      BY <1>4, <3>1
    <3>2. CASE a # at
      BY <1>4, <2>1, <3>2 DEF Hosted, Preparing
    <3>3. QED
      BY <3>1, <3>2
  <2>2. \A a \in stuck' : ~enabled'[a]
    BY <1>4, <2>1
  <2>3. QED
    BY <1>2, <1>3, <2>1, <2>2 DEF Hosted, Preparing
<1>10. Recorded'
  <2>1. Claims(snap)
    BY <1>2 DEF Recorded
  <2>2. ASSUME NEW a \in Apps
        PROVE  snap.apps[a].phase = "stopped" => disables'[a] = 1 /\ enables'[a] = 0
    <3>1. CASE a = at
      BY <1>2, <3>1
    <3>2. CASE a # at
      BY <1>1, <1>3, <1>4, <2>1, <3>2 DEF Claims
    <3>3. QED
      BY <3>1, <3>2
  <2>3. Claims(snap)'
    BY <1>1, <1>3, <2>1, <2>2 DEF Claims
  <2>4. QED
    BY <1>2, <1>3, <2>3 DEF Recorded, Claims
<1>11. Counted'
  BY <1>3 DEF Counted, Preparing
<1>12. Progress'
  <2>1. ASSUME NEW a \in Apps, pc' = "restored"
        PROVE  a <= at => enabled'[a] = was[a]
    <3>1. CASE a = at
      BY <1>2, <1>3, <1>4, <2>1, <3>1
    <3>2. CASE a # at
      <4>1. a < at => enabled[a] = was[a]
        BY <1>2 DEF Progress
      <4>2. enabled'[a] = enabled[a] /\ was'[a] = was[a]
        BY <1>3, <1>4, <3>2
      <4>3. QED
        BY <1>1, <3>2, <4>1, <4>2
    <3>3. QED
      BY <3>1, <3>2
  <2>2. QED
    BY <1>2, <1>3, <2>1 DEF Progress
<1>13. NothingRepeated'
  <2>1. ASSUME NEW a \in Apps
        PROVE  enables'[a] <= disables'[a] /\ disables'[a] <= 1
    <3>1. CASE a = at
      BY <1>2, <1>3, <1>4, <3>1
    <3>2. CASE a # at
      BY <1>3, <1>4, <3>2 DEF NothingRepeated
    <3>3. QED
      BY <3>1, <3>2
  <2>2. QED
    BY <2>1 DEF NothingRepeated
<1>14. PausedIsQuiet'
  BY <1>2, <1>3 DEF PausedIsQuiet
<1>15. QED
  BY <1>5, <1>6, <1>7, <1>8, <1>9, <1>10, <1>11, <1>12, <1>13, <1>14

\* The acknowledgement of a start is written, and the loop moves on.
LEMMA RestoredOK ==
  ASSUME IInv, Restored
  PROVE  IInv'
<1> USE MaintenanceAssumption DEF IInv, Apps, apps, rest
<1> DEFINE n == Acknowledged("restored")
<1>1. /\ pc = "restored" /\ snap' = n
      /\ \/ saved' = n /\ pc' = "review"
         \/ saved' \in {saved, n} /\ pc' = "block"
      /\ at' = at + 1
      /\ UNCHANGED <<up, gate, apps, rest, disables, enables>>
  BY DEF Restored, Persist
<1>2. at \in Apps /\ snap.apps \in [Apps -> Entry] /\ was[at]
  BY <1>1 DEF Walking, Phased, TypeOK
<1>3. snap.apps # <<>>
  BY <1>2, Listed
<1>4. /\ n \in Snapshot /\ n.phase = snap.phase /\ n.apps \in [Apps -> Entry]
      /\ n.apps[at].phase = "restored"
      /\ \A a \in Apps : n.apps[a].enabled = snap.apps[a].enabled
      /\ \A a \in Apps \ {at} : n.apps[a] = snap.apps[a]
  <2>1. "restored" \in EntryPhases
    BY DEF EntryPhases
  <2>2. QED
    BY <1>2, <2>1, AcknowledgedOK
<1> HIDE DEF n
<1>5. TypeOK'
  <2>1. snap' \in Snapshot /\ saved' \in Snapshot
    BY <1>1, <1>2, <1>3, <1>4 DEF TypeOK
  <2>2. at' \in 0..N + 1
    BY <1>1, <1>2, <1>3, <1>4 DEF TypeOK
  <2>3. QED
    BY <1>1, <1>2, <1>3, <1>4, <2>1, <2>2 DEF TypeOK
<1>6. Gated'
  BY <1>1 DEF Gated
<1>7. Walking'
  BY <1>1, <1>2, <1>3, <1>4 DEF Walking
<1>8. Phased'
  BY <1>1, <1>4 DEF Phased, Preparing, Restoring
<1>9. Hosted'
  BY <1>1, <1>4 DEF Hosted, Preparing, Phased, Restoring
<1>10. Recorded'
  <2>1. pc # "idle" \/ Active(snap) => Claims(snap)
    BY DEF Recorded
  <2>2. Claims(snap)'
    BY <1>1, <1>2, <1>3, <1>4, <2>1, ClaimsKept DEF Counted, NothingRepeated, TypeOK, Preparing
  <2>3. saved' = saved => (Active(saved') => Claims(saved)')
    BY <1>1, <1>2, <1>3, <1>4 DEF Recorded, Claims
  <2>4. saved' = n => Claims(saved)'
    BY <1>1, <1>2, <1>3, <1>4, <2>2 DEF Claims
  <2>5. QED
    BY <1>1, <1>2, <1>3, <1>4, <2>2, <2>3, <2>4 DEF Recorded
<1>11. Counted'
  BY <1>1 DEF Counted, Preparing
<1>12. Progress'
  BY <1>1, <1>2 DEF Progress
<1>13. NothingRepeated'
  BY <1>1 DEF NothingRepeated
<1>14. PausedIsQuiet'
  BY <1>1, <1>4 DEF PausedIsQuiet, Phased, Restoring
<1>15. QED
  BY <1>5, <1>6, <1>7, <1>8, <1>9, <1>10, <1>11, <1>12, <1>13, <1>14

\* The loop of restore has passed every application.
LEMMA CompleteOK ==
  ASSUME IInv, Complete
  PROVE  IInv'
<1> USE DEF IInv, apps, rest, Active
<1> DEFINE n == [snap EXCEPT !.phase = "completed"]
<1>1. n \in Snapshot /\ n.phase = "completed" /\ n.apps = snap.apps
  BY Rephased DEF TypeOK, SnapPhases
<1>2. /\ pc = "review" /\ snap' = n
      /\ \/ saved' = n /\ pc' = "idle"
         \/ saved' \in {saved, n} /\ pc' = "block"
      /\ at > N /\ at' = at /\ gate' = (pc' # "idle")
      /\ UNCHANGED <<up, apps, rest, disables, enables>>
  BY DEF Persist, Done, Complete
<1> HIDE DEF n
<1>3. TypeOK'
  <2>1. snap' \in Snapshot /\ saved' \in Snapshot
    BY <1>1, <1>2 DEF TypeOK
  <2>2. at' \in 0..N + 1
    BY <1>1, <1>2 DEF TypeOK
  <2>3. QED
    BY <1>1, <1>2, <2>1, <2>2 DEF TypeOK
<1>4. Gated'
  BY <1>1, <1>2 DEF Gated
<1>5. Walking'
  BY <1>2 DEF Walking
<1>6. Phased'
  BY <1>2 DEF Phased, Preparing, Restoring
<1>7. Hosted'
  BY <1>1, <1>2 DEF Hosted, Preparing
<1>8. Recorded'
  <2>1. pc # "idle" \/ Active(snap) => Claims(snap)
    BY DEF Recorded
  <2>2. Claims(snap)'
    BY <1>1, <1>2, <2>1 DEF Claims
  <2>3. saved' = saved => (Active(saved') => Claims(saved)')
    BY <1>1, <1>2 DEF Recorded, Claims
  <2>4. saved' = n => Claims(saved)'
    BY <1>1, <1>2, <2>2 DEF Claims
  <2>5. QED
    BY <1>1, <1>2, <2>2, <2>3, <2>4 DEF Recorded
<1>9. Counted'
  BY <1>2 DEF Counted, Preparing
<1>10. Progress'
  BY <1>2 DEF Progress
<1>11. NothingRepeated'
  BY <1>2 DEF NothingRepeated
<1>12. PausedIsQuiet'
  BY <1>1, <1>2 DEF PausedIsQuiet
<1>13. QED
  BY <1>3, <1>4, <1>5, <1>6, <1>7, <1>8, <1>9, <1>10, <1>11, <1>12

\* The catch block marks the task, in the file too if the disk allows it.
LEMMA BlockOK ==
  ASSUME IInv, Block
  PROVE  IInv'
<1> USE DEF IInv, apps, rest, Active
<1> DEFINE n == [snap EXCEPT !.phase = "blocked"]
<1>1. n \in Snapshot /\ n.phase = "blocked" /\ n.apps = snap.apps
  BY Rephased DEF TypeOK, SnapPhases
<1>2. /\ pc = "block" /\ pc' = "idle" /\ snap' = n /\ saved' \in {saved, n}
      /\ UNCHANGED <<up, gate, at, apps, rest, disables, enables>>
  BY DEF Block
<1> HIDE DEF n
<1>3. TypeOK'
  <2>1. snap' \in Snapshot /\ saved' \in Snapshot
    BY <1>1, <1>2 DEF TypeOK
  <2>2. at' \in 0..N + 1
    BY <1>1, <1>2 DEF TypeOK
  <2>3. QED
    BY <1>1, <1>2, <2>1, <2>2 DEF TypeOK
<1>4. Gated'
  BY <1>1, <1>2 DEF Gated
<1>5. Walking'
  BY <1>2 DEF Walking
<1>6. Phased'
  BY <1>2 DEF Phased, Preparing, Restoring
<1>7. Hosted'
  BY <1>1, <1>2 DEF Hosted, Preparing
<1>8. Recorded'
  <2>1. pc # "idle" \/ Active(snap) => Claims(snap)
    BY DEF Recorded
  <2>2. Claims(snap)'
    BY <1>1, <1>2, <2>1 DEF Claims
  <2>3. saved' = saved => (Active(saved') => Claims(saved)')
    BY <1>1, <1>2 DEF Recorded, Claims
  <2>4. saved' = n => Claims(saved)'
    BY <1>1, <1>2, <2>2 DEF Claims
  <2>5. QED
    BY <1>1, <1>2, <2>2, <2>3, <2>4 DEF Recorded
<1>9. Counted'
  BY <1>2 DEF Counted, Preparing
<1>10. Progress'
  BY <1>2 DEF Progress
<1>11. NothingRepeated'
  BY <1>2 DEF NothingRepeated
<1>12. PausedIsQuiet'
  BY <1>1, <1>2 DEF PausedIsQuiet
<1>13. QED
  BY <1>3, <1>4, <1>5, <1>6, <1>7, <1>8, <1>9, <1>10, <1>11, <1>12

\* What is left of the API's state when its process is gone.
Gone ==
  /\ up' = FALSE /\ gate' = FALSE /\ snap' = None /\ pc' = "idle" /\ at' = 0
  /\ host' = [a \in Apps |-> 0] /\ alive' = [a \in Apps |-> FALSE]
  /\ UNCHANGED <<saved, enabled, rev, stuck, begun, edits, was, disables, enables>>

\* The API dies: its memory, hosts and children are gone.
LEMMA GoneOK ==
  ASSUME IInv, Gone, crashes' \in 0..MaxCrashes
  PROVE  IInv'
<1> USE MaintenanceAssumption DEF IInv, Active, None
<1>1. TypeOK'
  <2>1. None \in Snapshot
    BY DEF Snapshot
  <2>2. snap' \in Snapshot /\ crashes' \in 0..MaxCrashes
    BY <2>1 DEF TypeOK, Gone
  <2>3. host' \in [Apps -> Nat] /\ alive' \in [Apps -> BOOLEAN]
    BY DEF Gone
  <2>4. /\ up' = FALSE /\ gate' = FALSE /\ pc' = "idle" /\ at' = 0
        /\ UNCHANGED <<saved, enabled, rev, stuck, begun, edits, was, disables, enables>>
    BY DEF Gone
  <2>5. up' \in BOOLEAN /\ gate' \in BOOLEAN
    BY <2>4
  <2>6. at' \in 0..N + 1
    BY <2>4
  <2>7. saved' \in Snapshot
        /\ pc' \in {"idle", "collect", "visit", "match", "disable", "stopped", "review", "enable", "restored", "block"}
    BY <2>4 DEF TypeOK
  <2>8. /\ enabled' \in [Apps -> BOOLEAN] /\ rev' \in [Apps -> Nat] /\ stuck' \subseteq Apps
        /\ begun' \in 0..MaxTasks /\ edits' \in 0..MaxEdits /\ was' \in [Apps -> BOOLEAN]
        /\ disables' \in [Apps -> Nat] /\ enables' \in [Apps -> Nat]
    BY <2>4 DEF TypeOK
  <2>9. QED
    BY <2>2, <2>3, <2>7, <2>8, <2>5, <2>6 DEF TypeOK
<1>2. Gated'
  BY DEF Gated, Gone
<1>3. Walking'
  BY DEF Walking, Gone
<1>4. Phased'
  BY DEF Phased, Preparing, Restoring, Gone
<1>5. Hosted'
  BY DEF Hosted, Preparing, Gone
<1>6. Recorded'
  BY DEF Recorded, Claims, Gone
<1>7. Counted'
  BY DEF Counted, Preparing, Gone
<1>8. Progress'
  BY DEF Progress, Gone
<1>9. NothingRepeated'
  BY DEF NothingRepeated, Gone
<1>10. PausedIsQuiet'
  BY DEF PausedIsQuiet, Gone
<1>11. QED
  BY <1>1, <1>2, <1>3, <1>4, <1>5, <1>6, <1>7, <1>8, <1>9, <1>10

\* A crash is one way to be gone.
LEMMA CrashOK ==
  ASSUME IInv, Crash
  PROVE  IInv'
<1>1. Gone /\ crashes' \in 0..MaxCrashes
  BY MaintenanceAssumption DEF Crash, Gone, IInv, TypeOK
<1>2. QED
  BY <1>1, GoneOK

\* The API comes back with what the file says.
LEMMA BootOK ==
  ASSUME IInv, Boot
  PROVE  IInv'
<1> USE DEF IInv, rest, Active
<1>1. TypeOK'
  BY DEF TypeOK, Boot
<1>2. Gated'
  BY DEF Gated, Boot
<1>3. Walking'
  BY DEF Gated, Walking, Boot
<1>4. Phased'
  BY DEF Gated, Phased, Preparing, Restoring, Boot
<1>5. Hosted'
  BY DEF Gated, Hosted, Boot
<1>6. Recorded'
  BY DEF Gated, Recorded, Claims, Boot
<1>7. Counted'
  BY DEF Counted, Preparing, Boot
<1>8. Progress'
  BY DEF Progress, Boot
<1>9. NothingRepeated'
  BY DEF NothingRepeated, Boot
<1>10. PausedIsQuiet'
  BY DEF PausedIsQuiet, Boot
<1>11. QED
  BY <1>1, <1>2, <1>3, <1>4, <1>5, <1>6, <1>7, <1>8, <1>9, <1>10

\* A child dies or is restarted behind its host.
LEMMA ChildChangesOK ==
  ASSUME IInv, NEW a \in Apps, ChildChanges(a)
  PROVE  IInv'
<1> USE DEF IInv, file, rest
<1>1. TypeOK'
  BY DEF TypeOK, ChildChanges
<1>2. Gated'
  BY DEF Gated, ChildChanges
<1>3. Walking'
  BY DEF Walking, ChildChanges
<1>4. Phased'
  BY DEF Phased, Preparing, Restoring, ChildChanges
<1>5. Hosted'
  BY DEF Hosted, Preparing, ChildChanges
<1>6. Recorded'
  BY DEF Recorded, Claims, ChildChanges
<1>7. Counted'
  BY DEF Counted, Preparing, ChildChanges
<1>8. Progress'
  BY DEF Progress, ChildChanges
<1>9. NothingRepeated'
  BY DEF NothingRepeated, ChildChanges
<1>10. PausedIsQuiet'
  BY DEF Hosted, PausedIsQuiet, ChildChanges
<1>11. QED
  BY <1>1, <1>2, <1>3, <1>4, <1>5, <1>6, <1>7, <1>8, <1>9, <1>10

\* An administrator's change: of the lifecycle only while the gate is open.
LEMMA EditOK ==
  ASSUME IInv, NEW a \in Apps, Edit(a)
  PROVE  IInv'
<1> USE MaintenanceAssumption DEF IInv, file, Active
<1>1. /\ up /\ edits' = edits + 1 /\ edits < MaxEdits
      /\ UNCHANGED <<up, gate, file, pc, at, begun, crashes, was, disables, enables>>
  BY DEF Edit
<1>2. /\ enabled' \in [Apps -> BOOLEAN] /\ rev' \in [Apps -> Nat]
      /\ host' \in [Apps -> Nat] /\ alive' \in [Apps -> BOOLEAN] /\ stuck' \subseteq Apps
      /\ \/ UNCHANGED <<enabled, host, alive, stuck>>
         \/ ~gate /\ pc = "idle" /\ \E on \in BOOLEAN : Operated(a, on)
  <2>1. CASE rev' = [rev EXCEPT ![a] = @ + 1] /\ UNCHANGED <<enabled, host, alive, stuck>>
    BY <2>1 DEF TypeOK
  <2>2. CASE ~gate /\ pc = "idle" /\ \E on \in BOOLEAN : Answered(a, on) \/ Broken(a, on)
    <3>1. PICK on \in BOOLEAN : Answered(a, on) \/ Broken(a, on)
      BY <2>2
    <3>2. Operated(a, on)
      BY <3>1, AnsweredOK, BrokenOK
    <3>3. QED
      BY <2>2, <3>2 DEF Operated
  <2>3. QED
    BY <2>1, <2>2 DEF Edit
<1>3. UNCHANGED <<enabled, host, alive, stuck>> \/ (pc = "idle" /\ ~Active(saved) /\ ~Active(snap))
  BY <1>1, <1>2 DEF Gated
<1>4. TypeOK'
  <2>1. edits' \in 0..MaxEdits
    BY <1>1 DEF TypeOK
  <2>2. QED
    BY <1>1, <1>2, <2>1 DEF TypeOK
<1>5. Gated'
  BY <1>1 DEF Gated
<1>6. Walking'
  BY <1>1 DEF Walking
<1>7. Phased'
  BY <1>1 DEF Phased, Preparing, Restoring
<1>8. Hosted'
  <2>1. CASE UNCHANGED <<enabled, host, alive, stuck>>
    BY <1>1, <2>1 DEF Hosted, Preparing
  <2>2. CASE ~gate /\ pc = "idle" /\ \E on \in BOOLEAN : Operated(a, on)
    <3>1. PICK on \in BOOLEAN : Operated(a, on)
      BY <2>2
    <3>2. ASSUME NEW b \in Apps
          PROVE  /\ b \in stuck' => ~enabled'[b]
                 /\ host'[b] # 0 \/ alive'[b] => enabled'[b] \/ b \in stuck'
      <4>1. CASE b = a
        BY <3>1, <4>1 DEF Operated
      <4>2. CASE b # a
        BY <3>1, <3>2, <4>2 DEF Operated, Hosted
      <4>3. QED
        BY <4>1, <4>2
    <3>3. \A b \in stuck' : ~enabled'[b]
      BY <1>2, <3>2
    <3>4. saved.phase # "paused"
      BY <1>1, <2>2 DEF Gated
    <3>5. QED
      BY <1>1, <2>2, <3>2, <3>3, <3>4 DEF Hosted, Preparing
  <2>3. QED
    BY <1>2, <2>1, <2>2
<1>9. Recorded'
  BY <1>1, <1>2, <1>3 DEF Recorded, Claims
<1>10. Counted'
  BY <1>1 DEF Counted, Preparing
<1>11. Progress'
  BY <1>1, <1>2, <1>3 DEF Progress
<1>12. NothingRepeated'
  BY <1>1, <1>2, <1>3 DEF NothingRepeated
<1>13. PausedIsQuiet'
  BY <1>1, <1>3 DEF PausedIsQuiet
<1>14. QED
  BY <1>4, <1>5, <1>6, <1>7, <1>8, <1>9, <1>10, <1>11, <1>12, <1>13
-----------------------------------------------------------------------------
(***************************************************************************)
(* The invariant and what follows from it.                                 *)
(***************************************************************************)
LEMMA InitOK == Init => IInv
<1> SUFFICES ASSUME Init
             PROVE  IInv
  OBVIOUS
<1> USE MaintenanceAssumption DEF Init, Apps, None, Active
<1>1. None \in Snapshot
  BY DEF Snapshot
<1>2. enabled \in [Apps -> BOOLEAN] /\ host \in [Apps -> Nat] /\ rev \in [Apps -> Nat]
  OBVIOUS
<1>3. TypeOK
  <2>1. up \in BOOLEAN /\ gate \in BOOLEAN /\ snap \in Snapshot /\ saved \in Snapshot /\ pc = "idle"
    BY <1>1
  <2>2. at \in 0..N + 1 /\ begun \in 0..MaxTasks /\ edits \in 0..MaxEdits /\ crashes \in 0..MaxCrashes
    OBVIOUS
  <2>3. /\ alive \in [Apps -> BOOLEAN] /\ was \in [Apps -> BOOLEAN]
        /\ disables \in [Apps -> Nat] /\ enables \in [Apps -> Nat]
    BY <1>2
  <2>4. QED
    BY <1>2, <2>1, <2>2, <2>3 DEF TypeOK
<1>4. Gated /\ Walking /\ Phased /\ Recorded /\ Counted /\ Progress
  BY DEF Gated, Walking, Phased, Recorded, Counted, Progress, Preparing, Restoring
<1>5. Hosted
  BY DEF Hosted, Preparing
<1>6. NothingRepeated /\ PausedIsQuiet
  BY DEF NothingRepeated, PausedIsQuiet
<1>7. QED
  BY <1>3, <1>4, <1>5, <1>6 DEF IInv

\* Each step of each loop is one of the lemmas above.
LEMMA VisitOK ==
  ASSUME IInv, Visit
  PROVE  IInv'
<1>1. CASE Done("paused") /\ UNCHANGED <<at, host, alive>>
  BY <1>1, PausedOK DEF Visit
<1>2. CASE at <= N /\ PassedOver /\ at' = at + 1 /\ UNCHANGED <<pc, file, host, alive>>
  BY <1>2, PassOverOK DEF Visit, apps
<1>3. CASE pc' = "block" /\ UNCHANGED <<at, file, host, alive>>
  BY <1>3, RefuseOK DEF Visit, apps
<1>4. CASE /\ at <= N /\ entry.enabled /\ pc' = "match" /\ UNCHANGED <<at, file>>
           /\ host' = [host EXCEPT ![at] = 0] /\ alive' = [alive EXCEPT ![at] = FALSE]
  BY <1>4, StopOK DEF Visit
<1>5. QED
  BY <1>1, <1>2, <1>3, <1>4 DEF Visit

\* An application that is as it was noted is disabled next; any other refuses the task.
LEMMA MatchOK ==
  ASSUME IInv, MatchThenMark
  PROVE  IInv'
<1>1. CASE Matches
  BY <1>1, MatchThenMarkOK DEF MatchThenMark
<1>2. CASE ~Matches
  BY <1>2, RefuseOK DEF MatchThenMark
<1>3. QED
  BY <1>1, <1>2

\* An application is passed over, or started again by an intent that is written first.
LEMMA ReviewOK ==
  ASSUME IInv, Review
  PROVE  IInv'
<1>1. CASE Kept /\ at' = at + 1 /\ UNCHANGED <<pc, file>>
  BY <1>1, KeepOK DEF Review
<1>2. CASE Restorable /\ Persist(Marked("starting"), "enable") /\ UNCHANGED at
  BY <1>2, RestartOK DEF Review
<1>3. CASE pc' = "block" /\ UNCHANGED <<at, file>>
  BY <1>3, RefuseOK DEF Review
<1>4. QED
  BY <1>1, <1>2, <1>3 DEF Review

\* No step breaks the invariant.
LEMMA MaintenanceStays ==
  ASSUME IInv, [Next]_vars
  PROVE  IInv'
<1>1. ASSUME NEW t \in Tasks, Prepare(t)
      PROVE  IInv'
  BY <1>1, PrepareOK
<1>2. ASSUME NEW t \in Tasks, Restore(t)
      PROVE  IInv'
  BY <1>2, RestoreOK
<1>3. CASE Collect \/ Visit \/ MatchThenMark \/ Disable \/ Stopped
  BY <1>3, CollectOK, VisitOK, MatchOK, DisableOK, StoppedOK
<1>4. CASE Review \/ Enable \/ Restored \/ Complete
  BY <1>4, ReviewOK, EnableOK, RestoredOK, CompleteOK
<1>5. CASE AdapterFails
  BY <1>5, RefuseOK DEF AdapterFails
<1>6. CASE Block \/ Crash \/ Boot
  BY <1>6, BlockOK, CrashOK, BootOK
<1>7. ASSUME NEW a \in Apps, ChildChanges(a) \/ Edit(a)
      PROVE  IInv'
  BY <1>7, ChildChangesOK, EditOK
<1>8. CASE UNCHANGED vars
  BY <1>8 DEF vars, file, apps, rest, IInv, TypeOK, Gated, Walking, Phased, Hosted, Recorded,
    Claims, Counted, Progress, NothingRepeated, PausedIsQuiet, Preparing, Restoring
<1>9. QED
  BY <1>1, <1>2, <1>3, <1>4, <1>5, <1>6, <1>7, <1>8 DEF Next

\* IInv holds in every state of every behaviour.
LEMMA Invariance == Spec => []IInv
<1>1. Init => IInv
  BY InitOK
<1>2. IInv /\ [Next]_vars => IInv'
  BY MaintenanceStays
<1>3. QED
  BY <1>1, <1>2, PTL DEF Spec

\* Every variable stays in its range: snapshots are well formed, counters are naturals
\* (maintenance.ts:4-19, the schema of the snapshot).
THEOREM MaintenanceTypes == Spec => []TypeOK
<1>1. IInv => TypeOK
  BY DEF IInv
<1>2. QED
  BY <1>1, Invariance, PTL

\* The gate is closed whenever the API runs and either snapshot is active, for any number
\* of restarts and failed writes (maintenance.ts:27, 35-37, 73).
THEOREM MaintenanceGated == Spec => []GatedThroughout
<1>1. IInv => GatedThroughout
  BY DEF IInv, Gated, GatedThroughout
<1>2. QED
  BY <1>1, Invariance, PTL

\* 'paused' is in the file only while nothing is enabled and every application that the
\* task found enabled has lost its child (maintenance.ts:43-52): what may still run is the
\* child of one that was disabled before, left behind by an operation that was not completed.
THEOREM MaintenanceQuiet == Spec => []PausedIsQuiet
<1>1. IInv => PausedIsQuiet
  BY DEF IInv
<1>2. QED
  BY <1>1, Invariance, PTL

\* No stop and no start of a task is done twice, whatever acknowledgement was lost
\* (maintenance.ts:21-22).
THEOREM MaintenanceOnce == Spec => []NothingRepeated
<1>1. IInv => NothingRepeated
  BY DEF IInv
<1>2. QED
  BY <1>1, Invariance, PTL

\* Only restore's last step ends a task in the file.
LEMMA OnlyCompleteEnds ==
  ASSUME IInv, Next, saved'.phase = "completed", Active(saved)
  PROVE  Complete
<1> USE DEF Active, file
<1>1. saved' # saved
  OBVIOUS
<1>2. snap \in Snapshot
  BY DEF IInv, TypeOK
<1>3. ASSUME NEW t \in Tasks, Prepare(t)
      PROVE  FALSE
  BY <1>3 DEF Prepare, IInv, Gated
<1>4. ASSUME NEW p \in SnapPhases, saved' \in {saved, [snap EXCEPT !.phase = p]}
      PROVE  p = "completed"
  BY <1>1, <1>2, <1>4, Rephased
<1>5. ASSUME NEW t \in Tasks, Restore(t)
      PROVE  FALSE
  BY <1>4, <1>5 DEF Restore, Persist, SnapPhases
<1>6. ~Collect
  <2> SUFFICES ASSUME Collect
               PROVE  FALSE
    OBVIOUS
  <2> DEFINE fs == [a \in Apps |-> [rev |-> rev[a], enabled |-> enabled[a],
                                    serving |-> Serving(a), phase |-> "unchanged"]]
  <2>1. fs \in [Apps -> Entry]
    BY DEF IInv, TypeOK, Entry, Serving
  <2>2. saved' \in {saved, [snap EXCEPT !.apps = fs]}
    BY DEF Collect, Persist
  <2> HIDE DEF fs
  <2>3. [snap EXCEPT !.apps = fs].phase = snap.phase
    BY <1>2, <2>1, Collected
  <2>4. snap.phase = "draining"
    BY DEF Collect, IInv, Phased, Preparing
  <2>5. QED
    BY <1>1, <2>2, <2>3, <2>4
<1>7. ~Visit
  BY <1>1, <1>4 DEF Visit, Done, Persist, SnapPhases
<1>8. ASSUME pc \in {"match", "review", "stopped", "restored"}, at <= N,
             NEW p \in EntryPhases, saved' \in {saved, Marked(p), Acknowledged(p)},
             pc = "review" => snap.apps \in [Apps -> Entry]
      PROVE  FALSE
  <2>1. at \in Apps /\ snap.apps \in [Apps -> Entry]
    BY <1>8 DEF IInv, Walking, Apps, TypeOK
  <2>2. Marked(p).phase = snap.phase /\ Acknowledged(p).phase = snap.phase
    BY <2>1, MarkedOK, AcknowledgedOK
  <2>3. snap.phase # "completed"
    BY <1>8 DEF IInv, Phased, Preparing, Restoring
  <2>4. QED
    BY <1>1, <1>8, <2>2, <2>3
<1>9. ~MatchThenMark /\ ~Review /\ ~Stopped /\ ~Restored
  <2>1. pc \in {"match", "stopped", "restored"} => at <= N
    BY MaintenanceAssumption DEF IInv, Walking, Apps
  <2>2. pc = "review" /\ at <= N => snap.apps \in [Apps -> Entry]
    BY MaintenanceAssumption DEF IInv, Walking, TypeOK, Apps
  <2>3. ~MatchThenMark
    BY <1>1, <1>8, <2>1 DEF MatchThenMark, Persist, EntryPhases
  <2>4. ~Review
    BY <1>1, <1>8, <2>2 DEF Review, Persist, EntryPhases
  <2>5. ~Stopped
    BY <1>8, <2>1 DEF Stopped, Persist, EntryPhases
  <2>6. ~Restored
    BY <1>8, <2>1 DEF Restored, Persist, EntryPhases
  <2>7. QED
    BY <2>3, <2>4, <2>5, <2>6
<1>10. ~Disable /\ ~Enable /\ ~AdapterFails /\ ~Crash /\ ~Boot
  BY <1>1 DEF Disable, Enable, AdapterFails, Crash, Boot
<1>11. ~Block
  BY <1>4 DEF Block, SnapPhases
<1>12. ASSUME NEW a \in Apps, ChildChanges(a) \/ Edit(a)
       PROVE  FALSE
  BY <1>1, <1>12 DEF ChildChanges, Edit
<1>13. QED
  BY <1>3, <1>5, <1>6, <1>7, <1>9, <1>10, <1>11, <1>12 DEF Next

\* A task that completes leaves every application as it was when the task began
\* (maintenance.ts:61-73): restore has reviewed each of them, in the order of the list.
THEOREM MaintenanceRestores == Spec => IntentRestored
<1> DEFINE Ends == saved'.phase = "completed" /\ Active(saved)
<1>1. ASSUME IInv, Next, Ends
      PROVE  enabled' = was
  <2>1. Complete
    BY <1>1, OnlyCompleteEnds
  <2>2. pc = "review" /\ at > N /\ enabled' = enabled
    BY <2>1 DEF Complete, Done, apps
  <2>3. ASSUME NEW a \in Apps
        PROVE  enabled[a] = was[a]
    <3>1. a < at
      BY <1>1, <2>2, MaintenanceAssumption DEF IInv, TypeOK, Apps
    <3>2. QED
      BY <1>1, <2>2, <3>1 DEF IInv, Progress
  <2>4. enabled \in [Apps -> BOOLEAN] /\ was \in [Apps -> BOOLEAN]
    BY <1>1 DEF IInv, TypeOK
  <2>5. QED
    BY <2>2, <2>3, <2>4
<1>2. IInv /\ [Next]_vars => [Ends => enabled' = was]_vars
  BY <1>1
<1>3. QED
  BY <1>2, Invariance, PTL DEF Spec, IntentRestored
-----------------------------------------------------------------------------
(*****************************************************************************)
(* The updater.  Until its migration begins a task leaves the version and    *)
(* the schema it found; from then on the schema is one of the two, and only  *)
(* the version of the task is started on it.  What the operator may still do *)
(* follows from where the task failed first (Resumed), which no later        *)
(* failure of a recovery changes.  Maintenance keeps its invariant through   *)
(* every step: a stop by the updater is to it what a crash is (Gone).        *)
(*****************************************************************************)
Tried == [id : Tasks \cup {"none"}, version : Versions \cup {0}, from : Versions \cup {0},
          phase : ACTIVE \cup Ended \cup {"none", "downloaded", "failed", "recovery_required"},
          failed : ACTIVE \cup {"none"}, origin : ACTIVE \cup {"none"},
          mode : {"work", "restart-current", "resume-target"}, snapshot : BOOLEAN]

\* Nothing is under way and nothing waits for the operator.
Settled == task.phase \notin ACTIVE \cup {"recovery_required"}

\* The migration of this task has not begun.
Untouched ==
  \/ task.mode = "restart-current"
  \/ task.mode = "work" /\ \/ task.phase \in BeforeMigration
                           \/ task.phase = "recovery_required" /\ task.failed \in BeforeMigration

\* Where the worker is, the phase it has written says, and what it is taking up.
Posted ==
  /\ doing = "idle" <=> task.phase \notin ACTIVE
  /\ doing = "download" => task.phase = "downloading" /\ task.mode = "work"
  /\ doing = "preflight" => task.phase = "preflight" /\ task.mode = "work"
  /\ doing = "probe" => task.phase = "draining"
  /\ doing \in {"ask", "answer"} =>
       /\ task.snapshot
       /\ \/ task.phase = "draining" \/ task.phase = "restoring_apps"
          \/ task.phase = "preflight" /\ task.mode = "restart-current" /\ task.origin = "draining"
  /\ task.phase = "draining" => doing \in {"ask", "answer", "probe"} /\ task.mode = "work" /\ task.snapshot
  /\ doing \in {"stop", "check"} => task.phase = IF task.mode = "work" THEN "maintenance" ELSE "preflight"
  /\ doing = "backup" => task.phase = "backing_up" /\ task.mode = "work"
  /\ doing = "migrate" => task.phase = "migrating" /\ task.mode # "restart-current"
  /\ doing = "switch" => task.phase = "switching"
  /\ doing \in {"health", "web"} => task.phase = "health_check"

Resumed ==
  /\ task.phase # "none" => task.id \in Tasks
  /\ task.phase = "recovery_required" => task.failed \in ACTIVE
  /\ task.phase = "recovery_required" /\ task.failed = "draining" => task.snapshot
  /\ task.mode = "work" => task.origin = "none"
  /\ task.mode = "restart-current" => task.origin \in BeforeMigration
  /\ task.mode = "resume-target" => task.origin \in SinceMigration /\ task.id \in backups
  /\ task.mode = "restart-current" /\ task.origin = "draining" =>
       task.snapshot /\ (task.phase \in ACTIVE => task.phase = "preflight" /\ doing \in {"ask", "answer"})

\* The schema is that of the version which runs, or of the one the task is for.
Deployed ==
  /\ stopped => ~up
  /\ Settled => schema = current /\ image = current /\ ~stopped
  /\ ~Settled => task.from < task.version
  /\ Untouched /\ ~Settled => schema = task.from /\ image = task.from /\ current = task.from
  /\ ~Untouched /\ ~Settled => schema \in {task.from, task.version}
  /\ ~stopped => schema <= image
  /\ task.phase \in {"draining"} \cup Early /\ task.mode = "work" => ~stopped
  /\ task.phase = "recovery_required" /\ task.mode = "work" /\ task.failed \in {"draining"} \cup Early => ~stopped
  /\ task.mode = "restart-current" /\ task.origin = "draining" => ~stopped
  /\ doing \in {"check", "backup", "migrate"} => stopped
  /\ doing \in {"backup", "migrate"} => NothingEnabled
  /\ doing = "migrate" => task.id \in backups
  /\ doing = "switch" => schema = Target
  /\ doing \in {"health", "web"} \/ task.phase = "restoring_apps" => ~stopped /\ image = Target /\ schema = Target
  /\ doing = "web" \/ task.phase = "restoring_apps" => current = Target

\* A task that has asked for nothing has begun no maintenance.
Asked ==
  /\ inbox # {} => up
  /\ \A r \in inbox : r.id \in requests
  /\ {saved.task, snap.task} \subseteq requests \cup {"none"}
  /\ task.phase # "none" => task.id \in requests
  /\ task.phase # "none" /\ ~task.snapshot =>
       saved.task # task.id /\ snap.task # task.id /\ \A r \in inbox : r.id # task.id

UInv == IInv /\ UpdaterTypeOK /\ Posted /\ Resumed /\ Deployed /\ Asked

\* A freshly installed host: nothing was asked for, nothing runs, version and schema agree.
LEMMA UpdaterStarts == UpdaterInit => UInv
<1> SUFFICES ASSUME UpdaterInit PROVE UInv
  OBVIOUS
<1>1. IInv
  BY InitOK DEF UpdaterInit
<1>2. /\ task = NoTask /\ NoTask \in Tried /\ task.phase = "none" /\ task.mode = "work" /\ task.origin = "none"
      /\ task.snapshot = FALSE /\ task.id = "none"
  BY DEF UpdaterInit, NoTask, Tried
<1>3. UpdaterTypeOK
  <2>1. /\ requests = {} /\ backups = {} /\ doing = "idle" /\ inbox = {} /\ stopped = FALSE
        /\ interrupts \in 0..MaxInterrupts /\ {current, image, schema} \subseteq Versions \cup {0}
    BY UpdaterAssumption DEF UpdaterInit
  <2> QED
    BY <1>2, <2>1 DEF UpdaterTypeOK, Tried
<1>4. Posted /\ Resumed
  BY <1>2 DEF UpdaterInit, Posted, Resumed, ACTIVE, BeforeMigration, SinceMigration, Early
<1>5. Deployed
  BY <1>2 DEF UpdaterInit, Deployed, Settled, Untouched, ACTIVE, BeforeMigration, SinceMigration, Early
<1>6. Asked
  BY <1>2 DEF UpdaterInit, Init, None, Asked
<1> QED
  BY <1>1, <1>3, <1>4, <1>5, <1>6 DEF UInv

\* A phase is written: nothing else of the task changes.
LEMMA PhaseWritten ==
  ASSUME UpdaterTypeOK, NEW p \in ACTIVE \cup Ended \cup {"downloaded", "failed", "recovery_required"},
         task' = [task EXCEPT !.phase = p]
  PROVE  /\ task' \in Tried /\ task'.phase = p
         /\ task'.id = task.id /\ task'.version = task.version /\ task'.from = task.from /\ task'.failed = task.failed
         /\ task'.origin = task.origin /\ task'.mode = task.mode /\ task'.snapshot = task.snapshot
BY DEF UpdaterTypeOK, Tried

\* What the API is and remembers stays the same.
LEMMA ApiUntouched ==
  ASSUME IInv, UNCHANGED vars
  PROVE  /\ IInv' /\ (NothingEnabled' <=> NothingEnabled)
         /\ UNCHANGED <<up, saved, snap, enabled, pc>>
BY MaintenanceStays DEF vars, file, apps, NothingEnabled

\* Versions are compared, so they must be numbers.
LEMMA NumbersOfVersions ==
  ASSUME UpdaterTypeOK
  PROVE  /\ task.version \in Nat /\ task.from \in Nat /\ current \in Nat /\ image \in Nat /\ schema \in Nat
         /\ Versions \subseteq Nat \ {0} /\ task \in Tried /\ Target \in Versions \cup {0}
<1>1. Versions \subseteq Nat \ {0} /\ task \in Tried
  BY UpdaterAssumption DEF UpdaterTypeOK, Tried
<1>2. /\ task.version \in Versions \cup {0} /\ task.from \in Versions \cup {0}
      /\ current \in Versions \cup {0} /\ image \in Versions \cup {0} /\ schema \in Versions \cup {0}
  BY <1>1 DEF UpdaterTypeOK, Tried
<1>3. Target \in Versions \cup {0}
  BY <1>2 DEF Target
<1>4. \A n \in Versions \cup {0} : n \in Nat
  BY <1>1
<1> QED
  BY <1>1, <1>2, <1>3, <1>4


\* A step of the worker that only writes a phase or works on the deployment.
LEMMA WorkerKeeps ==
  ASSUME UInv, UNCHANGED vars, Download \/ Probe \/ Check \/ Backup \/ Migrate \/ Switch \/ Health \/ Web \/ Ask \/ Answer \/ Preflight
  PROVE  UInv'
<1>0. /\ UInv /\ UpdaterTypeOK /\ IInv' /\ (NothingEnabled' <=> NothingEnabled) /\ UNCHANGED <<up, saved, snap, enabled, pc>>
      /\ task.version \in Nat /\ task.from \in Nat /\ current \in Nat /\ image \in Nat /\ schema \in Nat
      /\ Versions \subseteq Nat \ {0} /\ task \in Tried /\ Target \in Versions \cup {0} /\ MaxInterrupts \in Nat
  BY ApiUntouched, NumbersOfVersions, UpdaterAssumption DEF UInv
<1>1. CASE Download
  <2>1. /\ doing = "download" /\ doing' = "idle" /\ task' \in Tried /\ task'.phase = "downloaded"
        /\ task'.id = task.id /\ task'.version = task.version /\ task'.from = task.from /\ task'.failed = task.failed
        /\ task'.origin = task.origin /\ task'.mode = task.mode /\ task'.snapshot = task.snapshot
        /\ UNCHANGED <<requests, inbox, current, image, stopped, schema, backups, interrupts>>
    BY <1>0, <1>1, PhaseWritten DEF Download, Phase, deployment, ACTIVE, BeforeMigration, SinceMigration, Early, Ended
  <2>2. UpdaterTypeOK'
    BY <1>0, <2>1 DEF UpdaterTypeOK, Tried, ACTIVE, BeforeMigration, SinceMigration, Early, Ended
  <2>3. Posted'
    BY <1>0, <2>1 DEF UInv, Posted, Resumed, ACTIVE, BeforeMigration, SinceMigration, Early, Ended
  <2>4. Resumed'
    BY <1>0, <2>1 DEF UInv, Posted, Resumed, ACTIVE, BeforeMigration, SinceMigration, Early, Ended
  <2>5. Deployed'
    BY <1>0, <2>1 DEF UInv, Posted, Resumed, Deployed, Settled, Untouched, Target, ACTIVE, BeforeMigration, SinceMigration, Early, Ended
  <2>6. Asked'
    BY <1>0, <2>1 DEF UInv, Posted, Asked, Request, ACTIVE, BeforeMigration, SinceMigration, Early, Ended
  <2> QED
    BY <1>0, <2>2, <2>3, <2>4, <2>5, <2>6 DEF UInv
<1>2. CASE Probe
  <2>1. /\ doing = "probe" /\ doing' = "stop" /\ task' \in Tried /\ task'.phase = "maintenance"
        /\ task'.id = task.id /\ task'.version = task.version /\ task'.from = task.from /\ task'.failed = task.failed
        /\ task'.origin = task.origin /\ task'.mode = task.mode /\ task'.snapshot = task.snapshot
        /\ UNCHANGED <<requests, inbox, current, image, stopped, schema, backups, interrupts>>
    BY <1>0, <1>2, PhaseWritten DEF Probe, Phase, deployment, ACTIVE, BeforeMigration, SinceMigration, Early, Ended
  <2>2. UpdaterTypeOK'
    BY <1>0, <2>1 DEF UpdaterTypeOK, Tried, ACTIVE, BeforeMigration, SinceMigration, Early, Ended
  <2>3. Posted'
    BY <1>0, <2>1 DEF UInv, Posted, Resumed, ACTIVE, BeforeMigration, SinceMigration, Early, Ended
  <2>4. Resumed'
    BY <1>0, <2>1 DEF UInv, Posted, Resumed, ACTIVE, BeforeMigration, SinceMigration, Early, Ended
  <2>5. Deployed'
    BY <1>0, <2>1 DEF UInv, Posted, Resumed, Deployed, Settled, Untouched, Target, ACTIVE, BeforeMigration, SinceMigration, Early, Ended
  <2>6. Asked'
    BY <1>0, <2>1 DEF UInv, Posted, Asked, Request, ACTIVE, BeforeMigration, SinceMigration, Early, Ended
  <2> QED
    BY <1>0, <2>2, <2>3, <2>4, <2>5, <2>6 DEF UInv
<1>3. CASE Check /\ task.mode = "work"
  <2>1. /\ doing = "check" /\ NothingEnabled /\ task.mode = "work" /\ doing' = "backup" /\ task' \in Tried /\ task'.phase = "backing_up"
        /\ task'.id = task.id /\ task'.version = task.version /\ task'.from = task.from /\ task'.failed = task.failed
        /\ task'.origin = task.origin /\ task'.mode = task.mode /\ task'.snapshot = task.snapshot
        /\ UNCHANGED <<requests, inbox, current, image, stopped, schema, backups, interrupts>>
    BY <1>0, <1>3, PhaseWritten DEF Check, Phase, deployment, ACTIVE, BeforeMigration, SinceMigration, Early, Ended
  <2>2. UpdaterTypeOK'
    BY <1>0, <2>1 DEF UpdaterTypeOK, Tried, ACTIVE, BeforeMigration, SinceMigration, Early, Ended
  <2>3. Posted'
    BY <1>0, <2>1 DEF UInv, Posted, Resumed, ACTIVE, BeforeMigration, SinceMigration, Early, Ended
  <2>4. Resumed'
    BY <1>0, <2>1 DEF UInv, Posted, Resumed, ACTIVE, BeforeMigration, SinceMigration, Early, Ended
  <2>5. Deployed'
    BY <1>0, <2>1 DEF UInv, Posted, Resumed, Deployed, Settled, Untouched, Target, ACTIVE, BeforeMigration, SinceMigration, Early, Ended
  <2>6. Asked'
    BY <1>0, <2>1 DEF UInv, Posted, Asked, Request, ACTIVE, BeforeMigration, SinceMigration, Early, Ended
  <2> QED
    BY <1>0, <2>2, <2>3, <2>4, <2>5, <2>6 DEF UInv
<1>4. CASE Check /\ task.mode = "resume-target"
  <2>1. /\ doing = "check" /\ NothingEnabled /\ task.mode = "resume-target" /\ doing' = "migrate" /\ task' \in Tried /\ task'.phase = "migrating"
        /\ task'.id = task.id /\ task'.version = task.version /\ task'.from = task.from /\ task'.failed = task.failed
        /\ task'.origin = task.origin /\ task'.mode = task.mode /\ task'.snapshot = task.snapshot
        /\ UNCHANGED <<requests, inbox, current, image, stopped, schema, backups, interrupts>>
    BY <1>0, <1>4, PhaseWritten DEF Check, Phase, deployment, ACTIVE, BeforeMigration, SinceMigration, Early, Ended
  <2>2. UpdaterTypeOK'
    BY <1>0, <2>1 DEF UpdaterTypeOK, Tried, ACTIVE, BeforeMigration, SinceMigration, Early, Ended
  <2>3. Posted'
    BY <1>0, <2>1 DEF UInv, Posted, Resumed, ACTIVE, BeforeMigration, SinceMigration, Early, Ended
  <2>4. Resumed'
    BY <1>0, <2>1 DEF UInv, Posted, Resumed, ACTIVE, BeforeMigration, SinceMigration, Early, Ended
  <2>5. Deployed'
    BY <1>0, <2>1 DEF UInv, Posted, Resumed, Deployed, Settled, Untouched, Target, ACTIVE, BeforeMigration, SinceMigration, Early, Ended
  <2>6. Asked'
    BY <1>0, <2>1 DEF UInv, Posted, Asked, Request, ACTIVE, BeforeMigration, SinceMigration, Early, Ended
  <2> QED
    BY <1>0, <2>2, <2>3, <2>4, <2>5, <2>6 DEF UInv
<1>5. CASE Check /\ task.mode = "restart-current"
  <2>1. /\ doing = "check" /\ task.mode = "restart-current" /\ doing' = "switch" /\ task' \in Tried /\ task'.phase = "switching"
        /\ task'.id = task.id /\ task'.version = task.version /\ task'.from = task.from /\ task'.failed = task.failed
        /\ task'.origin = task.origin /\ task'.mode = task.mode /\ task'.snapshot = task.snapshot
        /\ UNCHANGED <<requests, inbox, current, image, stopped, schema, backups, interrupts>>
    BY <1>0, <1>5, PhaseWritten DEF Check, Phase, deployment, ACTIVE, BeforeMigration, SinceMigration, Early, Ended
  <2>2. UpdaterTypeOK'
    BY <1>0, <2>1 DEF UpdaterTypeOK, Tried, ACTIVE, BeforeMigration, SinceMigration, Early, Ended
  <2>3. Posted'
    BY <1>0, <2>1 DEF UInv, Posted, Resumed, ACTIVE, BeforeMigration, SinceMigration, Early, Ended
  <2>4. Resumed'
    BY <1>0, <2>1 DEF UInv, Posted, Resumed, ACTIVE, BeforeMigration, SinceMigration, Early, Ended
  <2>5. Deployed'
    BY <1>0, <2>1 DEF UInv, Posted, Resumed, Deployed, Settled, Untouched, Target, ACTIVE, BeforeMigration, SinceMigration, Early, Ended
  <2>6. Asked'
    BY <1>0, <2>1 DEF UInv, Posted, Asked, Request, ACTIVE, BeforeMigration, SinceMigration, Early, Ended
  <2> QED
    BY <1>0, <2>2, <2>3, <2>4, <2>5, <2>6 DEF UInv
<1>6. CASE Backup
  <2>1. /\ doing = "backup" /\ doing' = "migrate" /\ task' \in Tried /\ task'.phase = "migrating"
        /\ task'.id = task.id /\ task'.version = task.version /\ task'.from = task.from /\ task'.failed = task.failed
        /\ task'.origin = task.origin /\ task'.mode = task.mode /\ task'.snapshot = task.snapshot
        /\ UNCHANGED <<requests, inbox, current, image, stopped, schema, interrupts>>
        /\ backups' = backups \cup {task.id} /\ task.id \in Tasks
    BY <1>0, <1>6, PhaseWritten DEF Backup, Phase, UInv, Posted, Resumed, ACTIVE, BeforeMigration, SinceMigration, Early, Ended
  <2>2. UpdaterTypeOK'
    BY <1>0, <2>1 DEF UpdaterTypeOK, Tried, ACTIVE, BeforeMigration, SinceMigration, Early, Ended
  <2>3. Posted'
    BY <1>0, <2>1 DEF UInv, Posted, Resumed, ACTIVE, BeforeMigration, SinceMigration, Early, Ended
  <2>4. Resumed'
    BY <1>0, <2>1 DEF UInv, Posted, Resumed, ACTIVE, BeforeMigration, SinceMigration, Early, Ended
  <2>5. Deployed'
    BY <1>0, <2>1 DEF UInv, Posted, Resumed, Deployed, Settled, Untouched, Target, ACTIVE, BeforeMigration, SinceMigration, Early, Ended
  <2>6. Asked'
    BY <1>0, <2>1 DEF UInv, Posted, Asked, Request, ACTIVE, BeforeMigration, SinceMigration, Early, Ended
  <2> QED
    BY <1>0, <2>2, <2>3, <2>4, <2>5, <2>6 DEF UInv
<1>7. CASE Migrate
  <2>1. /\ doing = "migrate" /\ doing' = "switch" /\ task' \in Tried /\ task'.phase = "switching"
        /\ task'.id = task.id /\ task'.version = task.version /\ task'.from = task.from /\ task'.failed = task.failed
        /\ task'.origin = task.origin /\ task'.mode = task.mode /\ task'.snapshot = task.snapshot
        /\ UNCHANGED <<requests, inbox, current, image, stopped, backups, interrupts>>
        /\ schema' = task.version
    BY <1>0, <1>7, PhaseWritten DEF Migrate, Phase, deployment, ACTIVE, BeforeMigration, SinceMigration, Early, Ended
  <2>2. UpdaterTypeOK'
    BY <1>0, <2>1 DEF UpdaterTypeOK, Tried, ACTIVE, BeforeMigration, SinceMigration, Early, Ended
  <2>3. Posted'
    BY <1>0, <2>1 DEF UInv, Posted, Resumed, ACTIVE, BeforeMigration, SinceMigration, Early, Ended
  <2>4. Resumed'
    BY <1>0, <2>1 DEF UInv, Posted, Resumed, ACTIVE, BeforeMigration, SinceMigration, Early, Ended
  <2>5. Deployed'
    BY <1>0, <2>1 DEF UInv, Posted, Resumed, Deployed, Settled, Untouched, Target, ACTIVE, BeforeMigration, SinceMigration, Early, Ended
  <2>6. Asked'
    BY <1>0, <2>1 DEF UInv, Posted, Asked, Request, ACTIVE, BeforeMigration, SinceMigration, Early, Ended
  <2> QED
    BY <1>0, <2>2, <2>3, <2>4, <2>5, <2>6 DEF UInv
<1>8. CASE Switch
  <2>1. /\ doing = "switch" /\ doing' = "health" /\ task' \in Tried /\ task'.phase = "health_check"
        /\ task'.id = task.id /\ task'.version = task.version /\ task'.from = task.from /\ task'.failed = task.failed
        /\ task'.origin = task.origin /\ task'.mode = task.mode /\ task'.snapshot = task.snapshot
        /\ UNCHANGED <<requests, inbox, current, schema, backups, interrupts>>
        /\ image' = Target /\ stopped' = FALSE
    BY <1>0, <1>8, PhaseWritten DEF Switch, Phase, deployment, ACTIVE, BeforeMigration, SinceMigration, Early, Ended
  <2>2. UpdaterTypeOK'
    BY <1>0, <2>1 DEF UpdaterTypeOK, Tried, ACTIVE, BeforeMigration, SinceMigration, Early, Ended
  <2>3. Posted'
    BY <1>0, <2>1 DEF UInv, Posted, Resumed, ACTIVE, BeforeMigration, SinceMigration, Early, Ended
  <2>4. Resumed'
    BY <1>0, <2>1 DEF UInv, Posted, Resumed, ACTIVE, BeforeMigration, SinceMigration, Early, Ended
  <2>5. Deployed'
    BY <1>0, <2>1 DEF UInv, Posted, Resumed, Deployed, Settled, Untouched, Target, ACTIVE, BeforeMigration, SinceMigration, Early, Ended
  <2>6. Asked'
    BY <1>0, <2>1 DEF UInv, Posted, Asked, Request, ACTIVE, BeforeMigration, SinceMigration, Early, Ended
  <2> QED
    BY <1>0, <2>2, <2>3, <2>4, <2>5, <2>6 DEF UInv
<1>9. CASE Health
  <2>1. /\ doing = "health" /\ doing' = "web" /\ task' = task /\ current' = Target
        /\ UNCHANGED <<requests, inbox, image, stopped, schema, backups, interrupts>>
    BY <1>9 DEF Health
  <2>2. UpdaterTypeOK'
    BY <1>0, <2>1 DEF UpdaterTypeOK, Tried, ACTIVE, BeforeMigration, SinceMigration, Early, Ended
  <2>3. Posted'
    BY <1>0, <2>1 DEF UInv, Posted, Resumed, ACTIVE, BeforeMigration, SinceMigration, Early, Ended
  <2>4. Resumed'
    BY <1>0, <2>1 DEF UInv, Posted, Resumed, ACTIVE, BeforeMigration, SinceMigration, Early, Ended
  <2>5. Deployed'
    BY <1>0, <2>1 DEF UInv, Posted, Resumed, Deployed, Settled, Untouched, Target, ACTIVE, BeforeMigration, SinceMigration, Early, Ended
  <2>6. Asked'
    BY <1>0, <2>1 DEF UInv, Posted, Asked, Request, ACTIVE, BeforeMigration, SinceMigration, Early, Ended
  <2> QED
    BY <1>0, <2>2, <2>3, <2>4, <2>5, <2>6 DEF UInv
<1>10. CASE Web /\ task.snapshot /\ Phase("restoring_apps", "ask")
  <2>1. /\ doing = "web" /\ task.snapshot /\ doing' = "ask" /\ task' \in Tried /\ task'.phase = "restoring_apps"
        /\ task'.id = task.id /\ task'.version = task.version /\ task'.from = task.from /\ task'.failed = task.failed
        /\ task'.origin = task.origin /\ task'.mode = task.mode /\ task'.snapshot = task.snapshot
        /\ UNCHANGED <<requests, inbox, current, image, stopped, schema, backups, interrupts>>
    BY <1>0, <1>10, PhaseWritten DEF Web, Phase, deployment, ACTIVE, BeforeMigration, SinceMigration, Early, Ended
  <2>2. UpdaterTypeOK'
    BY <1>0, <2>1 DEF UpdaterTypeOK, Tried, ACTIVE, BeforeMigration, SinceMigration, Early, Ended
  <2>3. Posted'
    BY <1>0, <2>1 DEF UInv, Posted, Resumed, ACTIVE, BeforeMigration, SinceMigration, Early, Ended
  <2>4. Resumed'
    BY <1>0, <2>1 DEF UInv, Posted, Resumed, ACTIVE, BeforeMigration, SinceMigration, Early, Ended
  <2>5. Deployed'
    BY <1>0, <2>1 DEF UInv, Posted, Resumed, Deployed, Settled, Untouched, Target, ACTIVE, BeforeMigration, SinceMigration, Early, Ended
  <2>6. Asked'
    BY <1>0, <2>1 DEF UInv, Posted, Asked, Request, ACTIVE, BeforeMigration, SinceMigration, Early, Ended
  <2> QED
    BY <1>0, <2>2, <2>3, <2>4, <2>5, <2>6 DEF UInv
<1>11. CASE Web /\ ~task.snapshot
  <2>1. \E p \in Ended :
        /\ doing = "web" /\ ~task.snapshot /\ doing' = "idle" /\ task' \in Tried /\ task'.phase = p
        /\ task'.id = task.id /\ task'.version = task.version /\ task'.from = task.from /\ task'.failed = task.failed
        /\ task'.origin = task.origin /\ task'.mode = task.mode /\ task'.snapshot = task.snapshot
        /\ UNCHANGED <<requests, inbox, current, image, stopped, schema, backups, interrupts>>
    BY <1>0, <1>11, PhaseWritten DEF Web, Phase, deployment, ACTIVE, BeforeMigration, SinceMigration, Early, Ended
  <2>2. UpdaterTypeOK'
    BY <1>0, <2>1 DEF UpdaterTypeOK, Tried, ACTIVE, BeforeMigration, SinceMigration, Early, Ended
  <2>3. Posted'
    BY <1>0, <2>1 DEF UInv, Posted, Resumed, ACTIVE, BeforeMigration, SinceMigration, Early, Ended
  <2>4. Resumed'
    BY <1>0, <2>1 DEF UInv, Posted, Resumed, ACTIVE, BeforeMigration, SinceMigration, Early, Ended
  <2>5. Deployed'
    BY <1>0, <2>1 DEF UInv, Posted, Resumed, Deployed, Settled, Untouched, Target, ACTIVE, BeforeMigration, SinceMigration, Early, Ended
  <2>6. Asked'
    BY <1>0, <2>1 DEF UInv, Posted, Asked, Request, ACTIVE, BeforeMigration, SinceMigration, Early, Ended
  <2> QED
    BY <1>0, <2>2, <2>3, <2>4, <2>5, <2>6 DEF UInv
<1>12. CASE Ask
  <2>1. /\ doing = "ask" /\ doing' = "answer" /\ up /\ task' = task /\ inbox' = {r \in inbox : ~r.served} \cup {Request}
        /\ Request \in [id : Tasks, action : {"prepare", "restore"}, served : BOOLEAN] /\ Request.id = task.id
        /\ UNCHANGED <<requests, current, image, stopped, schema, backups, interrupts>>
    BY <1>0, <1>12 DEF Ask, deployment, Request, UInv, Posted, Resumed, ACTIVE, BeforeMigration, SinceMigration, Early, Ended
  <2>2. UpdaterTypeOK'
    BY <1>0, <2>1 DEF UpdaterTypeOK, Tried, ACTIVE, BeforeMigration, SinceMigration, Early, Ended
  <2>3. Posted'
    BY <1>0, <2>1 DEF UInv, Posted, Resumed, ACTIVE, BeforeMigration, SinceMigration, Early, Ended
  <2>4. Resumed'
    BY <1>0, <2>1 DEF UInv, Posted, Resumed, ACTIVE, BeforeMigration, SinceMigration, Early, Ended
  <2>5. Deployed'
    BY <1>0, <2>1 DEF UInv, Posted, Resumed, Deployed, Settled, Untouched, Target, ACTIVE, BeforeMigration, SinceMigration, Early, Ended
  <2>6. Asked'
    BY <1>0, <2>1 DEF UInv, Posted, Asked, Request, ACTIVE, BeforeMigration, SinceMigration, Early, Ended
  <2> QED
    BY <1>0, <2>2, <2>3, <2>4, <2>5, <2>6 DEF UInv
<1>13. CASE Answer /\ doing' = "probe" /\ UNCHANGED task
  <2>1. /\ doing = "answer" /\ doing' = "probe" /\ task' = task /\ inbox' \subseteq inbox
        /\ task.phase = "draining" /\ UNCHANGED <<requests, current, image, stopped, schema, backups, interrupts>>
    <3>1. Request.action = "prepare" \/ doing' = "idle"
      BY <1>13 DEF Answer, Phase
    <3> QED
      BY <1>13, <3>1 DEF Answer, deployment, Request
  <2>2. UpdaterTypeOK'
    BY <1>0, <2>1 DEF UpdaterTypeOK, Tried, ACTIVE, BeforeMigration, SinceMigration, Early, Ended
  <2>3. Posted'
    BY <1>0, <2>1 DEF UInv, Posted, Resumed, ACTIVE, BeforeMigration, SinceMigration, Early, Ended
  <2>4. Resumed'
    BY <1>0, <2>1 DEF UInv, Posted, Resumed, ACTIVE, BeforeMigration, SinceMigration, Early, Ended
  <2>5. Deployed'
    BY <1>0, <2>1 DEF UInv, Posted, Resumed, Deployed, Settled, Untouched, Target, ACTIVE, BeforeMigration, SinceMigration, Early, Ended
  <2>6. Asked'
    BY <1>0, <2>1 DEF UInv, Posted, Asked, Request, ACTIVE, BeforeMigration, SinceMigration, Early, Ended
  <2> QED
    BY <1>0, <2>2, <2>3, <2>4, <2>5, <2>6 DEF UInv
<1>14. CASE Answer /\ doing' = "idle"
  <2>1. \E p \in Ended :
        /\ doing = "answer" /\ task.phase # "draining" /\ doing' = "idle" /\ task' \in Tried /\ task'.phase = p
        /\ task'.id = task.id /\ task'.version = task.version /\ task'.from = task.from /\ task'.failed = task.failed
        /\ task'.origin = task.origin /\ task'.mode = task.mode /\ task'.snapshot = task.snapshot
        /\ UNCHANGED <<requests, current, image, stopped, schema, backups, interrupts>>
        /\ inbox' \subseteq inbox
    <3>1. task.phase # "draining"
      BY <1>0, <1>14 DEF Answer, Request, UInv, Posted
    <3> QED
      BY <1>0, <1>14, <3>1, PhaseWritten DEF Answer, Phase, deployment, Ended
  <2>2. UpdaterTypeOK'
    BY <1>0, <2>1 DEF UpdaterTypeOK, Tried, ACTIVE, BeforeMigration, SinceMigration, Early, Ended
  <2>3. Posted'
    BY <1>0, <2>1 DEF UInv, Posted, Resumed, ACTIVE, BeforeMigration, SinceMigration, Early, Ended
  <2>4. Resumed'
    BY <1>0, <2>1 DEF UInv, Posted, Resumed, ACTIVE, BeforeMigration, SinceMigration, Early, Ended
  <2>5. Deployed'
    BY <1>0, <2>1 DEF UInv, Posted, Resumed, Deployed, Settled, Untouched, Target, ACTIVE, BeforeMigration, SinceMigration, Early, Ended
  <2>6. Asked'
    BY <1>0, <2>1 DEF UInv, Posted, Asked, Request, ACTIVE, BeforeMigration, SinceMigration, Early, Ended
  <2> QED
    BY <1>0, <2>2, <2>3, <2>4, <2>5, <2>6 DEF UInv
<1>15. CASE Preflight
  <2>1. /\ doing = "preflight" /\ doing' = "ask" /\ task' \in Tried /\ task'.phase = "draining" /\ task'.snapshot
        /\ task'.id = task.id /\ task'.version = task.version /\ task'.from = task.from /\ task'.failed = task.failed
        /\ task'.origin = task.origin /\ task'.mode = task.mode
        /\ UNCHANGED <<requests, inbox, current, image, stopped, schema, backups, interrupts>>
    BY <1>0, <1>15 DEF Preflight, deployment, Tried, ACTIVE, BeforeMigration, SinceMigration, Early, Ended
  <2>2. UpdaterTypeOK'
    BY <1>0, <2>1 DEF UpdaterTypeOK, Tried, ACTIVE, BeforeMigration, SinceMigration, Early, Ended
  <2>3. Posted'
    BY <1>0, <2>1 DEF UInv, Posted, Resumed, ACTIVE, BeforeMigration, SinceMigration, Early, Ended
  <2>4. Resumed'
    BY <1>0, <2>1 DEF UInv, Posted, Resumed, ACTIVE, BeforeMigration, SinceMigration, Early, Ended
  <2>5. Deployed'
    BY <1>0, <2>1 DEF UInv, Posted, Resumed, Deployed, Settled, Untouched, Target, ACTIVE, BeforeMigration, SinceMigration, Early, Ended
  <2>6. Asked'
    BY <1>0, <2>1 DEF UInv, Posted, Asked, Request, ACTIVE, BeforeMigration, SinceMigration, Early, Ended
  <2> QED
    BY <1>0, <2>2, <2>3, <2>4, <2>5, <2>6 DEF UInv
<1> QED
  BY <1>1, <1>2, <1>3, <1>4, <1>5, <1>6, <1>7, <1>8, <1>9, <1>10, <1>11, <1>12, <1>13, <1>14, <1>15
  DEF Check, Web, Answer, Phase

\* A task is taken up, whose identifier nobody has used.
LEMMA StartKeeps ==
  ASSUME UInv, NEW id \in Tasks, NEW v \in Versions, StartDownload(id, v) \/ StartInstall(id, v)
  PROVE  UInv'
<1>0. /\ UpdaterTypeOK /\ IInv' /\ (NothingEnabled' <=> NothingEnabled) /\ UNCHANGED <<up, saved, snap, enabled, pc>>
      /\ current \in Nat /\ image \in Nat /\ schema \in Nat /\ Versions \subseteq Nat \ {0} /\ v \in Nat
      /\ current \in Versions \cup {0} /\ id # "none"
  <2>1. UNCHANGED vars
    BY DEF StartDownload, StartInstall
  <2> QED
    BY <2>1, ApiUntouched, NumbersOfVersions, UpdaterAssumption DEF UInv, UpdaterTypeOK
<1>1. /\ id \notin requests /\ requests' = requests \cup {id} /\ v > current /\ Settled
      /\ UNCHANGED <<inbox, current, image, stopped, schema, backups, interrupts>>
  BY DEF StartDownload, StartInstall, deployment, Settled, ACTIVE, BeforeMigration, SinceMigration, Early
<1>2. /\ task' \in Tried /\ task'.id = id /\ task'.version = v /\ task'.from = current /\ task'.mode = "work"
      /\ task'.failed = "none" /\ task'.origin = "none" /\ task'.snapshot = FALSE
      /\ \/ task'.phase = "downloading" /\ doing' = "download"
         \/ task'.phase = "preflight" /\ doing' = "preflight"
  <2>1. /\ NoTask \in Tried /\ NoTask.mode = "work" /\ NoTask.failed = "none" /\ NoTask.origin = "none"
        /\ NoTask.snapshot = FALSE
    BY DEF NoTask, Tried
  <2>2. /\ {"downloading", "preflight"} \subseteq ACTIVE
        /\ id \in Tasks \cup {"none"} /\ v \in Versions \cup {0} /\ current \in Versions \cup {0}
    BY <1>0 DEF ACTIVE, BeforeMigration, Early
  <2>3. \/ /\ task' = [NoTask EXCEPT !.id = id, !.version = v, !.from = current, !.phase = "downloading"]
           /\ doing' = "download"
        \/ /\ task' = [NoTask EXCEPT !.id = id, !.version = v, !.from = current, !.phase = "preflight"]
           /\ doing' = "preflight"
    BY DEF StartDownload, StartInstall
  <2> QED
    BY <2>1, <2>2, <2>3 DEF Tried
<1>3. UpdaterTypeOK'
  BY <1>0, <1>1, <1>2 DEF UpdaterTypeOK, Tried
<1>4. Posted' /\ Resumed'
  BY <1>1, <1>2 DEF Posted, Resumed, ACTIVE, BeforeMigration, SinceMigration, Early
<1>5. Deployed'
  BY <1>0, <1>1, <1>2 DEF UInv, Deployed, Settled, Untouched, ACTIVE, BeforeMigration, SinceMigration, Early
<1>6. Asked'
  BY <1>0, <1>1, <1>2 DEF UInv, Asked
<1> QED
  BY <1>0, <1>3, <1>4, <1>5, <1>6 DEF UInv

\* The worker stops where it is, after or before its command took effect.
LEMMA InterruptionKeeps ==
  ASSUME UInv, NEW p \in {"failed", "recovery_required"}, Interrupted(p),
         p = "failed" => task.mode = "work" /\ task.phase \in Early
  PROVE  UInv'
<1>0. /\ UpdaterTypeOK /\ IInv' /\ (NothingEnabled' <=> NothingEnabled) /\ UNCHANGED <<up, saved, snap, enabled, pc>>
      /\ task.version \in Nat /\ task.from \in Nat /\ current \in Nat /\ image \in Nat /\ schema \in Nat
      /\ Versions \subseteq Nat \ {0} /\ task \in Tried /\ MaxInterrupts \in Nat
  <2>1. UNCHANGED vars
    BY DEF Interrupted
  <2> QED
    BY <2>1, ApiUntouched, NumbersOfVersions, UpdaterAssumption DEF UInv
<1>1. /\ doing # "idle" /\ doing' = "idle" /\ task.phase \in ACTIVE /\ interrupts' \in 0..MaxInterrupts
      /\ (schema' = schema \/ (doing = "migrate" /\ schema' = task.version))
      /\ UNCHANGED <<requests, inbox, current, image, stopped, backups>>
  BY <1>0 DEF Interrupted, UInv, UpdaterTypeOK, Posted
<1>2. /\ task' \in Tried /\ task'.phase = p /\ task'.failed = task.phase
      /\ task'.id = task.id /\ task'.version = task.version /\ task'.from = task.from
      /\ task'.origin = task.origin /\ task'.mode = task.mode /\ task'.snapshot = task.snapshot
  BY <1>0, <1>1 DEF Interrupted, Tried
<1>3. UpdaterTypeOK'
  <2>1. schema' \in Versions \cup {0}
    BY <1>0, <1>1 DEF UpdaterTypeOK, Tried
  <2> QED
    BY <1>0, <1>1, <1>2, <2>1 DEF UpdaterTypeOK, Tried
<1>4. Posted' /\ Resumed'
  BY <1>1, <1>2 DEF UInv, Posted, Resumed, ACTIVE, BeforeMigration, SinceMigration, Early
<1>5. Deployed'
  <2>1. task.phase \notin {"none", "downloaded", "failed", "recovery_required"} \cup Ended
    BY <1>1 DEF ACTIVE, BeforeMigration, SinceMigration, Early, Ended
  <2> QED
    BY <1>0, <1>1, <1>2, <2>1 DEF UInv, Posted, Resumed, Deployed, Settled, Untouched, Target, ACTIVE, BeforeMigration,
       SinceMigration, Early
<1>6. Asked'
  BY <1>0, <1>1, <1>2 DEF UInv, Posted, Asked, ACTIVE, BeforeMigration, SinceMigration, Early
<1> QED
  BY <1>0, <1>3, <1>4, <1>5, <1>6 DEF UInv

\* The operator takes the task back or on, by where it failed first.
LEMMA RecoverKeeps ==
  ASSUME UInv, NEW mode \in {"restart-current", "resume-target"}, Recover(mode)
  PROVE  UInv'
<1>0. /\ UpdaterTypeOK /\ IInv' /\ (NothingEnabled' <=> NothingEnabled) /\ UNCHANGED <<up, saved, snap, enabled, pc>>
      /\ task.version \in Nat /\ task.from \in Nat /\ current \in Nat /\ image \in Nat /\ schema \in Nat
      /\ Versions \subseteq Nat \ {0} /\ task \in Tried
  <2>1. UNCHANGED vars
    BY DEF Recover
  <2> QED
    BY <2>1, ApiUntouched, NumbersOfVersions DEF UInv
<1>1. /\ doing = "idle" /\ task.phase = "recovery_required" /\ Recoverable(mode) /\ Stage \in ACTIVE
      /\ doing' = IF Stage = "draining" /\ mode = "restart-current" /\ task.snapshot THEN "ask" ELSE "stop"
      /\ UNCHANGED <<requests, inbox, current, image, stopped, schema, backups, interrupts>>
  BY <1>0 DEF Recover, Recoverable, deployment, ACTIVE
<1>2. /\ task' \in Tried /\ task'.phase = "preflight" /\ task'.origin = Stage /\ task'.mode = mode
      /\ task'.id = task.id /\ task'.version = task.version /\ task'.from = task.from
      /\ task'.failed = task.failed /\ task'.snapshot = task.snapshot
  BY <1>0, <1>1 DEF Recover, Tried, ACTIVE, BeforeMigration, Early
<1>3. \* Recovering again goes the way it went.
      /\ mode = "restart-current" <=> Stage \in BeforeMigration
      /\ mode = "restart-current" <=> Untouched
      /\ Stage = "draining" => task.snapshot /\ ~stopped
      /\ mode = "resume-target" => task.id \in backups
  BY <1>0, <1>1 DEF UInv, Recoverable, Stage, Resumed, Deployed, Untouched, ACTIVE, BeforeMigration, SinceMigration, Early,
     Tried
<1>4. UpdaterTypeOK'
  BY <1>0, <1>1, <1>2 DEF UpdaterTypeOK, Tried
<1>5. Posted' /\ Resumed'
  BY <1>0, <1>1, <1>2, <1>3 DEF UInv, Posted, Resumed, Recoverable, ACTIVE, BeforeMigration, SinceMigration, Early
<1>6. Deployed'
  BY <1>0, <1>1, <1>2, <1>3 DEF UInv, Posted, Deployed, Settled, Untouched, ACTIVE, BeforeMigration, SinceMigration, Early
<1>7. Asked'
  BY <1>0, <1>1, <1>2 DEF UInv, Asked
<1> QED
  BY <1>0, <1>4, <1>5, <1>6, <1>7 DEF UInv

\* What maintenance does by itself: while the API is down, nothing; and it names no task
\* that was not asked for.
LEMMA ApiBeside ==
  ASSUME IInv,
         \/ Collect \/ Visit \/ MatchThenMark \/ Disable \/ Stopped
         \/ Review \/ Enable \/ Restored \/ Complete \/ Block \/ AdapterFails
         \/ \E a \in Apps : ChildChanges(a) \/ Edit(a)
  PROVE  /\ IInv' /\ up /\ up' = up
         /\ snap'.task = snap.task /\ saved'.task \in {saved.task, snap.task}
<1>1. IInv'
  BY MaintenanceStays DEF Next
<1>2. snap \in Snapshot /\ saved \in Snapshot
  BY DEF IInv, TypeOK
<1>3. up
  BY DEF IInv, Gated, Collect, Visit, MatchThenMark, Disable, Stopped, Review, Enable, Restored, Complete, Block,
     AdapterFails, ChildChanges, Edit
<1>4. up' = up
  BY DEF Collect, Visit, MatchThenMark, Disable, Stopped, Review, Enable, Restored, Complete, Block,
     AdapterFails, ChildChanges, Edit
<1>6. snap' = snap \/ snap'.task = snap.task
  BY <1>2 DEF Collect, Visit, MatchThenMark, Disable, Stopped, Review, Enable, Restored, Complete, Block,
     AdapterFails, ChildChanges, Edit, Persist, Done, Marked, Acknowledged, file, Snapshot
<1>7. saved' \in {saved, snap'}
  BY DEF Collect, Visit, MatchThenMark, Disable, Stopped, Review, Enable, Restored, Complete, Block,
     AdapterFails, ChildChanges, Edit, Persist, Done, Marked, Acknowledged, file
<1> QED
  BY <1>1, <1>3, <1>4, <1>6, <1>7

\* The API works while the updater does nothing.
LEMMA ApiKeeps ==
  ASSUME UInv, ApiWorks
  PROVE  UInv'
<1>1. /\ IInv' /\ up /\ up' = up /\ snap'.task = snap.task /\ saved'.task \in {saved.task, snap.task}
      /\ UNCHANGED <<task, requests, doing, inbox, current, image, stopped, schema, backups, interrupts>>
  BY ApiBeside DEF UInv, ApiWorks, updater, deployment
<1>2. ~stopped
  BY <1>1 DEF UInv, Deployed
<1>3. UpdaterTypeOK' /\ Posted' /\ Resumed' /\ Asked'
  BY <1>1 DEF UInv, UpdaterTypeOK, Posted, Resumed, Asked
<1>4. Deployed'
  BY <1>1, <1>2 DEF UInv, Deployed, Settled, Untouched, Target
<1> QED
  BY <1>1, <1>3, <1>4 DEF UInv

\* The API dies, or is stopped by the updater.
LEMMA DownKeeps ==
  ASSUME UInv, ApiCrash \/ Stop
  PROVE  UInv'
<1>1. Gone /\ crashes' \in 0..MaxCrashes
  BY MaintenanceAssumption DEF ApiCrash, Stop, Crash, Gone, rest, UInv, IInv, TypeOK
<1>2. /\ IInv' /\ up' = FALSE /\ snap'.task = "none" /\ UNCHANGED <<saved, enabled>>
  BY <1>1, GoneOK DEF UInv, Gone, None
<1>3. /\ inbox' = {} /\ UNCHANGED <<task, requests, current, image, schema, backups, interrupts>>
      /\ \/ doing' = doing /\ stopped' = stopped
         \/ doing = "stop" /\ doing' = "check" /\ stopped' = TRUE
  BY DEF ApiCrash, Stop, deployment
<1>4. UpdaterTypeOK'
  <2>1. UpdaterTypeOK /\ stopped' \in BOOLEAN /\ inbox' = {}
        /\ (doing' = doing \/ doing' = "check")
    BY <1>3 DEF UInv, UpdaterTypeOK
  <2> QED
    BY <1>3, <2>1 DEF UpdaterTypeOK
<1>8. Posted'
  <2>1. CASE doing' = doing
    BY <1>3, <2>1 DEF UInv, Posted
  <2>2. CASE doing = "stop" /\ doing' = "check"
    BY <1>3, <2>2 DEF UInv, Posted
  <2> QED
    BY <1>3, <2>1, <2>2
<1>9. Resumed'
  <2>1. CASE doing' = doing
    BY <1>3, <2>1 DEF UInv, Resumed
  <2>2. CASE doing = "stop" /\ doing' = "check"
    BY <1>3, <2>2 DEF UInv, Posted, Resumed, ACTIVE, BeforeMigration, SinceMigration, Early
  <2> QED
    BY <1>3, <2>1, <2>2
<1>5. Asked'
  BY <1>2, <1>3, UpdaterAssumption DEF UInv, Asked, Resumed
<1>6. NothingEnabled' <=> NothingEnabled
  BY <1>2 DEF NothingEnabled
<1>7. Deployed'
  BY <1>2, <1>3, <1>6 DEF UInv, Posted, Resumed, Deployed, Settled, Untouched, Target, ACTIVE, BeforeMigration, SinceMigration,
     Early
<1> QED
  BY <1>2, <1>4, <1>8, <1>9, <1>5, <1>7 DEF UInv

\* Docker starts the API again, unless the updater has stopped it.
LEMMA BootKeeps ==
  ASSUME UInv, ApiBoot
  PROVE  UInv'
<1>1. /\ IInv' /\ snap' = saved /\ UNCHANGED <<saved, enabled>> /\ ~stopped /\ up'
      /\ UNCHANGED <<task, requests, doing, inbox, current, image, stopped, schema, backups, interrupts>>
  BY MaintenanceStays DEF ApiBoot, Boot, Next, UInv, updater, deployment
<1>2. UpdaterTypeOK' /\ Posted' /\ Resumed' /\ Asked'
  BY <1>1 DEF UInv, UpdaterTypeOK, Posted, Resumed, Asked
<1>3. Deployed'
  BY <1>1 DEF UInv, Deployed, Settled, Untouched, Target
<1> QED
  BY <1>1, <1>2, <1>3 DEF UInv

\* The management queue takes a request of the updater.
LEMMA ServeKeeps ==
  ASSUME UInv, NEW r \in inbox, Serve(r)
  PROVE  UInv'
<1>0. /\ up /\ r.id \in requests /\ r.id \in Tasks /\ requests \subseteq Tasks
      /\ inbox \subseteq [id : Tasks, action : {"prepare", "restore"}, served : BOOLEAN]
      /\ UNCHANGED <<task, requests, doing, current, image, stopped, schema, backups, interrupts>>
  BY DEF Serve, UInv, UpdaterTypeOK, Asked, deployment
<1>1. IInv'
  BY <1>0, MaintenanceStays DEF Serve, UInv, Next
<1>2. /\ up' = up /\ snap'.task \in {snap.task, r.id} /\ saved'.task \in {saved.task, snap.task, r.id}
  <2>1. CASE UNCHANGED vars
    BY <2>1 DEF vars, file
  <2>2. CASE Prepare(r.id)
    BY <2>2 DEF Prepare, Persist
  <2>3. CASE Restore(r.id)
    <3>1. snap \in Snapshot
      BY DEF UInv, IInv, TypeOK
    <3> QED
      BY <2>3, <3>1 DEF Restore, Persist, Snapshot
  <2> QED
    BY <2>1, <2>2, <2>3 DEF Serve
<1>3. \E s \in [id : Tasks, action : {"prepare", "restore"}, served : BOOLEAN] :
        s.id = r.id /\ inbox' \subseteq inbox \cup {s}
  <2> DEFINE s == [r EXCEPT !.served = TRUE]
  <2>1. s \in [id : Tasks, action : {"prepare", "restore"}, served : BOOLEAN] /\ s.id = r.id
    BY <1>0
  <2>2. inbox' \subseteq inbox \cup {s}
    BY DEF Serve
  <2> QED
    BY <2>1, <2>2
<1>4. UpdaterTypeOK' /\ Posted' /\ Resumed'
  BY <1>0, <1>3 DEF UInv, UpdaterTypeOK, Posted, Resumed
<1>5. Asked'
  BY <1>0, <1>2, <1>3 DEF UInv, Asked
<1>6. ~stopped /\ up'
  BY <1>0, <1>2 DEF UInv, Deployed
<1>7. Deployed'
  BY <1>0, <1>6 DEF UInv, Deployed, Settled, Untouched, Target
<1> QED
  BY <1>1, <1>4, <1>5, <1>7 DEF UInv

\* The updater, the operator and the API beside them keep it all.
LEMMA UpdaterStays ==
  ASSUME UInv, [UpdaterNext]_allVars
  PROVE  UInv'
<1>1. CASE UNCHANGED allVars
  <2>1. UNCHANGED vars /\ UNCHANGED <<task, requests, doing, inbox, current, image, stopped, schema, backups, interrupts>>
    BY <1>1 DEF allVars, updater, deployment
  <2>2. IInv' /\ (NothingEnabled' <=> NothingEnabled) /\ UNCHANGED <<up, saved, snap, enabled, pc>>
    BY <2>1, ApiUntouched DEF UInv
  <2> QED
    BY <2>1, <2>2 DEF UInv, UpdaterTypeOK, Posted, Resumed, Deployed, Settled, Untouched, Target, Asked
<1>2. CASE Download \/ Probe \/ Check \/ Backup \/ Migrate \/ Switch \/ Health \/ Web \/ Ask \/ Answer \/ Preflight
  <2>1. UNCHANGED vars
    BY <1>2 DEF Download, Probe, Check, Backup, Migrate, Switch, Health, Web, Ask, Answer, Preflight
  <2> QED
    BY <1>2, <2>1, WorkerKeeps
<1>3. CASE Fail \/ Die
  BY <1>3, InterruptionKeeps DEF Fail, Die, Interrupted
<1> QED
  BY <1>1, <1>2, <1>3, StartKeeps, RecoverKeeps, ServeKeeps, DownKeeps, BootKeeps, ApiKeeps DEF UpdaterNext

\* For any versions, applications and number of interruptions, wherever they strike: no version
\* runs on a schema a later one may have migrated, and a migration has its backup, the API
\* stopped and every application disabled (updater.py:369-372, 383, 393, 400-406).
THEOREM UpgradesAreSafe == UpdaterSpec => []UpgradeIsSafe
<1>1. UInv => UpgradeIsSafe
  BY DEF UInv, Deployed, Settled, UpgradeIsSafe, OldNeverOnNew, MigratesSafely
<1>2. UInv /\ [UpdaterNext]_allVars => UInv'
  BY UpdaterStays
<1> QED
  BY <1>1, <1>2, UpdaterStarts, PTL DEF UpdaterSpec

\* A task that ends leaves the version running that current.json names, on its own schema,
\* and its maintenance over, whatever recoveries it took (updater.py:376-380, 398-399, 409-413).
THEOREM UpdatesEndInService == UpdaterSpec => EndsInService
<1> DEFINE Served == task'.phase \in Ended /\ task.phase \notin Ended
                       => /\ ~stopped /\ image = current /\ schema = current /\ current = Target
                          /\ Active(saved) => saved.task # task.id
<1>1. ASSUME UInv, UpdaterNext, task'.phase \in Ended, task.phase \notin Ended
      PROVE  /\ ~stopped /\ image = current /\ schema = current /\ current = Target
             /\ Active(saved) => saved.task # task.id
  <2>0. UpdaterTypeOK
    BY <1>1 DEF UInv
  <2>1. task' # task
    BY <1>1
  <2>2. ~(Ask \/ Stop \/ Health \/ ApiWorks \/ ApiCrash \/ ApiBoot \/ \E r \in inbox : Serve(r))
    BY <2>1 DEF Ask, Stop, Health, ApiWorks, ApiCrash, ApiBoot, Serve, updater
  <2>3. ~\E id \in Tasks, v \in Versions : StartDownload(id, v) \/ StartInstall(id, v)
    <3>1. ASSUME NEW id \in Tasks, NEW v \in Versions, StartDownload(id, v) \/ StartInstall(id, v)
          PROVE  task'.phase \in {"downloading", "preflight"}
      <4>1. NoTask \in Tried
        BY DEF NoTask, Tried
      <4> QED
        BY <3>1, <4>1 DEF StartDownload, StartInstall, Tried
    <3> QED
      BY <1>1, <3>1 DEF Ended
  <2>4. ~(Fail \/ Die) /\ ~\E mode \in {"restart-current", "resume-target"} : Recover(mode)
    <3>1. ASSUME NEW p \in {"failed", "recovery_required"}, Interrupted(p) PROVE task'.phase = p
      BY <2>0, <3>1 DEF Interrupted, UpdaterTypeOK
    <3>2. ASSUME NEW mode \in {"restart-current", "resume-target"}, Recover(mode) PROVE task'.phase = "preflight"
      BY <2>0, <3>2 DEF Recover, UpdaterTypeOK
    <3> QED
      BY <1>1, <3>1, <3>2 DEF Fail, Die, Ended
  <2>5. ~(Download \/ Preflight \/ Probe \/ Check \/ Backup \/ Migrate \/ Switch)
    BY <1>1, <2>0 DEF Download, Preflight, Probe, Check, Backup, Migrate, Switch, Phase, UpdaterTypeOK, Ended
  <2>6. \/ Web /\ ~task.snapshot
        \/ Answer /\ Request.action = "restore" /\ snap.phase = "completed"
    <3>1. CASE Web
      BY <1>1, <2>0, <3>1 DEF Web, Phase, UpdaterTypeOK, Ended
    <3>2. CASE Answer
      BY <2>1, <3>2 DEF Answer
    <3> QED
      BY <1>1, <2>2, <2>3, <2>4, <2>5, <3>1, <3>2 DEF UpdaterNext
  <2>7. CASE Web /\ ~task.snapshot
    <3>1. doing = "web" /\ task.phase = "health_check" /\ task.phase # "none"
      BY <1>1, <2>7 DEF Web, UInv, Posted
    <3> QED
      BY <1>1, <2>7, <3>1 DEF UInv, Deployed, Asked
  <2>8. CASE Answer /\ Request.action = "restore" /\ snap.phase = "completed"
    <3>1. up /\ doing = "answer" /\ pc = "idle" /\ snap.task = task.id
      BY <1>1, <2>8 DEF Answer, UInv, Asked
    <3>2. ~(task.mode = "work" /\ task.phase = "draining")
      BY <2>8 DEF Request
    <3>3. \/ task.phase = "restoring_apps"
          \/ task.phase = "preflight" /\ task.mode = "restart-current" /\ task.origin = "draining"
      BY <1>1, <3>1, <3>2 DEF UInv, Posted
    <3>4. ~Active(snap)
      BY <2>8 DEF Active
    <3>5. ~Active(saved)
      BY <1>1, <3>1, <3>4 DEF UInv, IInv, Gated
    <3>6. CASE task.phase = "restoring_apps"
      BY <1>1, <3>5, <3>6 DEF UInv, Deployed
    <3>7. CASE task.phase = "preflight" /\ task.mode = "restart-current" /\ task.origin = "draining"
      <4>1. Untouched /\ ~Settled /\ ~stopped
        BY <1>1, <3>7 DEF Untouched, Settled, UInv, Deployed, ACTIVE, BeforeMigration, Early
      <4> QED
        BY <1>1, <3>5, <3>7, <4>1 DEF UInv, Deployed, Target
    <3> QED
      BY <3>3, <3>6, <3>7
  <2> QED
    BY <2>6, <2>7, <2>8
<1>2. UInv /\ [UpdaterNext]_allVars => [Served]_allVars
  BY <1>1
<1>3. UInv /\ [UpdaterNext]_allVars => UInv'
  BY UpdaterStays
<1> HIDE DEF Served
<1>4. UpdaterSpec => [][Served]_allVars
  BY <1>2, <1>3, UpdaterStarts, PTL DEF UpdaterSpec
<1> QED
  BY <1>4 DEF Served, EndsInService
=============================================================================
