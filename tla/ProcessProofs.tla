--------------------------- MODULE ProcessProofs ----------------------------
(*****************************************************************************)
(* What the parent of an application process can rely on, for any number of  *)
(* calls, children and crashes.  Children follow one another; what the pipes *)
(* hold is told by what the child has come to; and a call is on its way at   *)
(* most once, or one handler was entered for it.                             *)
(*****************************************************************************)
EXTENDS AppProcess, SequenceTheorems, FiniteSetTheorems, TLAPS

Asks == {Msg("call", k) : k \in Calls} \cup {Msg("stop", NoCall)}

\* Children follow one another: all but the last have exited, and one that comes back by
\* the timer finds nobody.
Family ==
  /\ child = IF forked = 0 \/ forked \in exited THEN 0 ELSE forked
  /\ \A c \in Children : /\ c > forked <=> os[c] = "none"
                         /\ c < forked => c \in exited
                         /\ c \in exited => os[c] = "dead"
  /\ starter = "none" <=> forked = 0
  /\ stopping <=> stopper # "none"
  /\ stopper = "waiting" => child # 0
  /\ stopper = "done" => child = 0
  /\ timer => child = 0 /\ forked > 0 /\ forked < MaxChildren /\ ~stopping

\* What is in the pipes of a child, by what it has come to.
Piped(c) ==
  /\ os[c] \in {"none", "dead"} => toChild[c] = <<>>
  /\ os[c] = "none" => prog[c] = "loading"
  /\ prog[c] = "loading" => toParent[c] = <<>> /\ c \notin readied
  /\ c < forked => toParent[c] = <<>>
  /\ \A i \in DOMAIN toChild[c] : toChild[c][i] \in Asks
  /\ \A i \in DOMAIN toParent[c] :
       /\ toParent[c][i].t = "ready" => i = 1 /\ c \notin readied
       /\ toParent[c][i].t \in {"result", "error"} => toParent[c][i].call \in Calls /\ runs[toParent[c][i].call] = 1

\* A call is on its way, or a handler was entered for it, or neither.
Accounted(k) ==
  /\ runs[k] \in {0, 1}
  /\ call[k] \in {"new", "not_started"} => runs[k] = 0
  /\ call[k] \in {"ok", "error"} => runs[k] = 1
  /\ \A c \in Children :
       /\ <<k, c>> \in handling => c = child /\ prog[c] \in {"serving", "stopping"} /\ runs[k] = 1
       /\ \A i \in DOMAIN toChild[c] :
            toChild[c][i] = Msg("call", k) =>
              /\ runs[k] = 0 /\ call[k] \notin {"new", "not_started"}
              /\ \A j \in DOMAIN toChild[c] : toChild[c][j] = toChild[c][i] => j = i

\* After the crashes that reached the limit no child is left, and none will say 'ready'.
GivenUp ==
  crashes >= CrashLimit =>
    /\ child = 0 /\ ~timer /\ state \in {"failed", "stopped"}
    /\ \A c \in Children : \A i \in DOMAIN toParent[c] : toParent[c][i].t # "ready"

ProcessInv ==
  /\ TypeOK /\ Family /\ GivenUp
  /\ Pending # {} => child # 0
  /\ \A c \in Children : Piped(c)
  /\ \A k \in Calls : Accounted(k)

-----------------------------------------------------------------------------
\* A message that is added to a pipe comes last.
LEMMA Appended ==
  ASSUME NEW S, NEW s \in Seq(S), NEW m \in S
  PROVE  /\ Append(s, m) \in Seq(S) /\ Append(s, m) # <<>>
         /\ Len(s) + 1 \notin DOMAIN s /\ DOMAIN Append(s, m) = DOMAIN s \cup {Len(s) + 1}
         /\ Append(s, m)[Len(s) + 1] = m /\ \A i \in DOMAIN s : Append(s, m)[i] = s[i]
         /\ s = <<>> => Len(s) + 1 = 1
OBVIOUS

\* The message that is taken from a pipe came first; the others follow.
LEMMA Dequeued ==
  ASSUME NEW S, NEW s \in Seq(S), s # <<>>
  PROVE  /\ Tail(s) \in Seq(S) /\ 1 \in DOMAIN s /\ Head(s) = s[1] /\ Head(s) \in S
         /\ \A i \in DOMAIN Tail(s) : i \in Nat /\ i + 1 \in DOMAIN s /\ i + 1 # 1 /\ Tail(s)[i] = s[i + 1]
OBVIOUS

\* What a message is.
LEMMA MessageShapes ==
  /\ \A k \in Calls \cup {NoCall} : \A t \in {"call", "stop", "ready", "fatal", "result", "error"} :
       Msg(t, k) \in Messages /\ Msg(t, k).t = t /\ Msg(t, k).call = k
  /\ Asks \subseteq Messages
  /\ \A m \in Asks : m.t = "call" => m.call \in Calls /\ m = Msg("call", m.call)
BY DEF Msg, Messages, Asks

\* Only the last child lives, and only it may have sent something that was not read.
LEMMA OnlyTheLast ==
  ASSUME ProcessInv, NEW c \in Children, Alive(c) \/ toParent[c] # <<>> \/ (os[c] = "dead" /\ c \notin exited)
  PROVE  /\ c = forked /\ forked \in Nat \ {0} /\ os[c] # "none"
         /\ c \notin exited => child = c
         /\ Alive(c) => c \notin exited /\ child = c
<1>1. /\ Family /\ Piped(c) /\ forked \in Nat /\ c \in Nat /\ c > 0
  BY ProcessAssumption DEF ProcessInv, TypeOK, Children
<1>2. os[c] # "none" /\ ~(c < forked /\ (Alive(c) \/ toParent[c] # <<>>))
  BY <1>1 DEF Family, Piped, Alive
<1> QED
  BY <1>1, <1>2 DEF Family, Alive

\* Nothing has been started and nobody has called.
LEMMA ProcessStarts == Init => ProcessInv
<1> SUFFICES ASSUME Init PROVE ProcessInv
  OBVIOUS
<1>1. TypeOK
  <2>1. /\ toChild \in [Children -> Seq(Messages)] /\ toParent \in [Children -> Seq(Messages)]
    BY EmptySeq DEF Init
  <2>2. forked \in 0..MaxChildren /\ crashes \in Nat /\ runs \in [Calls -> Nat]
    BY ProcessAssumption DEF Init
  <2>3. /\ settled \subseteq Children /\ readied \subseteq Children /\ exited \subseteq Children
        /\ handling \subseteq Calls \X Children /\ child \in Children \cup {0}
    BY DEF Init
  <2>4. timer \in BOOLEAN /\ stopping \in BOOLEAN
    BY DEF Init
  <2>5. /\ state = "stopped" /\ starter = "none" /\ stopper = "none"
        /\ call \in [Calls -> {"new", "pending", "ok", "error", "unknown", "not_started"}]
        /\ os \in [Children -> {"none", "up", "killed", "dead"}]
        /\ prog \in [Children -> {"loading", "serving", "fatal", "stopping"}]
    BY DEF Init
  <2> QED
    BY <2>1, <2>2, <2>3, <2>4, <2>5 DEF TypeOK
<1>2. Family /\ GivenUp
  BY ProcessAssumption DEF Init, Family, GivenUp, Children
<1>3. \A c \in Children : Piped(c)
  BY DEF Init, Piped, Children
<1>4. \A k \in Calls : Accounted(k)
  BY DEF Init, Accounted
<1>5. Pending = {}
  BY DEF Init, Pending
<1> QED
  BY <1>1, <1>2, <1>3, <1>4, <1>5 DEF ProcessInv

\* A child is forked where there is none.
LEMMA SpawnKeeps ==
  ASSUME ProcessInv, Start \/ RestartTimer
  PROVE  ProcessInv'
<1> DEFINE n == forked + 1
<1>0. /\ TypeOK /\ Family /\ GivenUp /\ child = 0 /\ n \in Children /\ forked \in Nat /\ Pending = {}
      /\ (forked = 0 \/ forked \in exited)
      /\ (Start => starter = "none" /\ ~timer /\ stopper = "none")
      /\ (RestartTimer => timer /\ starter # "none" /\ stopper = "none" /\ crashes < CrashLimit)
  BY ProcessAssumption DEF ProcessInv, TypeOK, Family, GivenUp, Start, RestartTimer, Children
<1>1. /\ forked' = n /\ child' = n /\ os' = [os EXCEPT ![n] = "up"] /\ timer' = FALSE /\ starter' # "none"
      /\ starter' \in {"waiting", starter} /\ stopping' = FALSE /\ stopper' = "none"
      /\ crashes' \in {0, crashes} /\ crashes' < CrashLimit
      /\ state' \in {"restarting", "starting"}
      /\ UNCHANGED <<settled, readied, exited, stopper, call, prog, toChild, toParent, handling, runs>>
  BY <1>0, ProcessAssumption DEF Start, RestartTimer, Spawn, Family
<1>2. /\ os[n] = "none" /\ os'[n] = "up" /\ n \notin exited /\ \A c \in Children \ {n} : os'[c] = os[c]
  BY <1>0, <1>1 DEF Family, TypeOK
<1>3. TypeOK'
  <2>1. os' \in [Children -> {"none", "up", "killed", "dead"}]
    BY <1>0, <1>1 DEF TypeOK
  <2>2. forked' \in 0..MaxChildren /\ child' \in Children
    BY <1>0, <1>1 DEF TypeOK, Children
  <2>3. crashes' \in Nat
    BY <1>0, <1>1 DEF TypeOK
  <2>4. timer' \in BOOLEAN /\ stopping' \in BOOLEAN
    BY <1>1
  <2>5. starter' \in {"none", "waiting", "ok", "failed"} /\ stopper' \in {"none", "waiting", "done"}
        /\ state' \in {"stopped", "starting", "running", "restarting", "failed"}
    BY <1>0, <1>1 DEF TypeOK
  <2> QED
    BY <1>0, <1>1, <2>1, <2>2, <2>3, <2>4, <2>5 DEF TypeOK
<1>4. Family'
  BY <1>0, <1>1, <1>2 DEF Family, Children
<1>5. \A c \in Children : c \in exited => toParent[c] = <<>>
  <2>1. CASE Start
    BY <1>0, <2>1 DEF Family, Start, ProcessInv, Piped, Children
  <2>2. CASE RestartTimer
    BY <2>2, <1>0 DEF RestartTimer, TypeOK
  <2> QED
    BY <2>1, <2>2
<1>6. ASSUME NEW c \in Children PROVE Piped(c)'
  BY <1>0, <1>1, <1>2, <1>5 DEF ProcessInv, Piped, Family, Children
<1>7. ASSUME NEW k \in Calls PROVE Accounted(k)'
  <2>1. \A c \in Children : <<k, c>> \notin handling
    BY <1>0 DEF ProcessInv, Accounted, Children
  <2> QED
    BY <1>1, <2>1 DEF ProcessInv, Accounted
<1>8. GivenUp' /\ Pending' = {}
  <2>1. ~(crashes' >= CrashLimit)
    BY <1>0, <1>1, ProcessAssumption DEF TypeOK
  <2> QED
    BY <1>0, <1>1, <2>1 DEF GivenUp, Pending
<1> QED
  BY <1>3, <1>4, <1>6, <1>7, <1>8 DEF ProcessInv

\* The current child is killed, and its start may be reported as failed.
LEMMA KillKeeps ==
  ASSUME ProcessInv, StopGrace \/ \E c \in Children : ReadyTimeout(c)
  PROVE  ProcessInv'
<1>0. /\ TypeOK /\ Family /\ GivenUp /\ child \in Children /\ child = forked
  <2>1. TypeOK /\ Family /\ GivenUp
    BY DEF ProcessInv
  <2>2. child \in Children \cup {0} /\ 0 \notin Children
    BY <2>1 DEF TypeOK, Children
  <2>3. child # 0
    BY <2>1, <2>2 DEF Family, StopGrace, ReadyTimeout
  <2> QED
    BY <2>1, <2>2, <2>3 DEF Family
<1>1. (os' = [os EXCEPT ![child] = "killed"] /\ os[child] = "up") \/ os' = os
  BY <1>0 DEF StopGrace, ReadyTimeout, TypeOK
<1>2. /\ settled' \subseteq Children /\ state' \in {state, "failed"}
      /\ starter' \in {starter, "failed"} /\ (starter' = "none" <=> starter = "none")
      /\ UNCHANGED <<child, forked, readied, exited, timer, crashes, stopping, stopper, call, prog, toChild, toParent,
                     handling, runs>>
  <2>1. CASE StopGrace
    BY <1>0, <2>1 DEF StopGrace, parentVars, TypeOK
  <2>2. ASSUME NEW c \in Children, ReadyTimeout(c)
        PROVE  /\ settled' \subseteq Children /\ state' = "failed"
               /\ starter' \in {starter, "failed"} /\ (starter' = "none" <=> starter = "none")
               /\ UNCHANGED <<child, forked, readied, exited, timer, crashes, stopping, stopper, call, prog, toChild,
                              toParent, handling, runs>>
    <3>1. starter # "none" /\ settled \subseteq Children
      BY <1>0 DEF Family, TypeOK, Children
    <3> QED
      BY <2>2, <3>1 DEF ReadyTimeout, SpawnFails
  <2> QED
    BY <2>1, <2>2
<1>3. \A c \in Children : /\ os'[c] \in {"none", "up", "killed", "dead"}
                          /\ (os'[c] = "none" <=> os[c] = "none") /\ (os'[c] = "dead" <=> os[c] = "dead")
  BY <1>0, <1>1 DEF TypeOK
<1>4. TypeOK'
  <2>1. os' \in [Children -> {"none", "up", "killed", "dead"}]
    BY <1>0, <1>1 DEF TypeOK
  <2> QED
    BY <1>0, <1>2, <2>1 DEF TypeOK
<1>5. Family' /\ GivenUp'
  BY <1>0, <1>2, <1>3 DEF Family, GivenUp
<1>6. \A c \in Children : Piped(c)'
  BY <1>2, <1>3 DEF ProcessInv, Piped
<1>7. (\A k \in Calls : Accounted(k)') /\ (Pending' # {} => child' # 0)
  BY <1>2 DEF ProcessInv, Accounted, Pending
<1> QED
  BY <1>4, <1>5, <1>6, <1>7 DEF ProcessInv

\* stop() is called.
LEMMA StopKeeps ==
  ASSUME ProcessInv, Stop
  PROVE  ProcessInv'
<1>0. TypeOK /\ Family /\ GivenUp
  BY DEF ProcessInv
<1> DEFINE m == Msg("stop", NoCall)
<1>1. /\ stopping' = TRUE /\ timer' = FALSE /\ starter # "none" /\ stopper = "none"
      /\ \/ child = 0 /\ state' = "stopped" /\ stopper' = "done" /\ toChild' = toChild
         \/ /\ child # 0 /\ stopper' = "waiting" /\ state' = state
            /\ toChild' = [toChild EXCEPT ![child] = IF Alive(child) THEN Append(@, m) ELSE @]
      /\ UNCHANGED <<child, forked, settled, readied, exited, crashes, starter, call, os, prog, toParent, handling, runs>>
  BY DEF Stop, Post
<1>2. m \in Asks /\ m \in Messages /\ m.t # "call" /\ \A k \in Calls : m # Msg("call", k)
  BY DEF Msg, Asks, Messages
<1>3. \A c \in Children : \/ toChild'[c] = toChild[c]
                          \/ toChild'[c] = Append(toChild[c], m) /\ Alive(c)
  BY <1>0, <1>1 DEF TypeOK
<1>4. \A c \in Children : toChild[c] \in Seq(Messages)
  BY <1>0 DEF TypeOK
<1>5. TypeOK'
  <2>1. toChild' \in [Children -> Seq(Messages)]
    <3>1. DOMAIN toChild' = Children /\ toChild' = [c \in Children |-> toChild'[c]]
      BY <1>0, <1>1 DEF TypeOK
    <3>2. ASSUME NEW c \in Children PROVE toChild'[c] \in Seq(Messages)
      <4>1. CASE toChild'[c] = toChild[c]
        BY <1>4, <4>1
      <4>2. CASE toChild'[c] = Append(toChild[c], m)
        BY <1>2, <1>4, <4>2, Appended
      <4> QED
        BY <1>3, <4>1, <4>2
    <3> QED
      BY <3>1, <3>2
  <2> QED
    BY <1>0, <1>1, <2>1 DEF TypeOK
<1>6. Family' /\ GivenUp'
  BY <1>0, <1>1 DEF Family, GivenUp
<1> HIDE DEF m
<1>7. ASSUME NEW c \in Children PROVE Piped(c)'
  <2>1. Piped(c)
    BY DEF ProcessInv
  <2>2. CASE toChild'[c] = toChild[c]
    BY <1>1, <2>1, <2>2 DEF Piped
  <2>3. CASE toChild'[c] = Append(toChild[c], m) /\ Alive(c)
    <3>1. \A i \in DOMAIN toChild'[c] : toChild'[c][i] \in Asks
      BY <1>2, <1>4, <2>1, <2>3, Appended DEF Piped
    <3> QED
      BY <1>1, <2>1, <2>3, <3>1 DEF Piped, Alive
  <2> QED
    BY <1>3, <2>2, <2>3
<1>8. ASSUME NEW k \in Calls PROVE Accounted(k)'
  <2>1. ASSUME NEW c \in Children, NEW i \in DOMAIN toChild'[c], toChild'[c][i] = Msg("call", k)
        PROVE  i \in DOMAIN toChild[c] /\ toChild[c][i] = toChild'[c][i]
    BY <1>2, <1>3, <1>4, <2>1, Appended
  <2> QED
    BY <1>1, <2>1 DEF ProcessInv, Accounted
<1>9. Pending' # {} => child' # 0
  BY <1>1 DEF ProcessInv, Pending
<1> QED
  BY <1>5, <1>6, <1>7, <1>8, <1>9 DEF ProcessInv

\* The exit event of the last child loses every call and may set the timer.
LEMMA ExitKeeps ==
  ASSUME ProcessInv, NEW c \in Children, Exit(c)
  PROVE  ProcessInv'
<1>0. /\ TypeOK /\ Family /\ GivenUp /\ os[c] = "dead" /\ c \notin exited /\ c = forked /\ child = c /\ forked \in Nat \ {0}
      /\ ~timer /\ crashes < CrashLimit
  <2>1. TypeOK /\ Family /\ GivenUp /\ os[c] = "dead" /\ c \notin exited
    BY DEF ProcessInv, Exit
  <2>2. c = forked /\ child = c /\ forked \in Nat \ {0}
    BY <2>1, OnlyTheLast
  <2>3. child # 0 /\ crashes \in Nat /\ CrashLimit \in Nat
    BY <2>1, <2>2, ProcessAssumption DEF TypeOK
  <2>4. ~timer /\ crashes < CrashLimit
    BY <2>1, <2>3 DEF Family, GivenUp
  <2> QED
    BY <2>1, <2>2, <2>4
<1>1. /\ exited' = exited \cup {c} /\ child' = 0 /\ call' = Lost
      /\ stopper' = IF stopper = "waiting" THEN "done" ELSE stopper
      /\ handling' = {h \in handling : h[2] # c}
      /\ UNCHANGED <<forked, readied, stopping, os, prog, toChild, toParent, runs>>
  BY <1>0 DEF Exit
<1>2. /\ settled' \subseteq Children /\ state' \in {"stopped", "failed", "restarting"}
      /\ starter' \in {starter, "failed"} /\ (starter' = "none" <=> starter = "none")
      /\ crashes' \in Nat /\ timer' \in BOOLEAN
      /\ timer' => forked < MaxChildren /\ ~stopping
      /\ crashes' >= CrashLimit => ~timer' /\ state' = "failed" /\ c \in readied
  <2>0. settled \subseteq Children /\ crashes \in Nat /\ CrashLimit \in Nat /\ starter # "none" /\ timer = FALSE
    BY <1>0, ProcessAssumption DEF TypeOK, Family
  <2>1. CASE ~Crashed(c)
    <3>1. timer' = timer /\ crashes' = crashes /\ settled' \subseteq Children /\ state' \in {"stopped", "failed"}
          /\ starter' \in {starter, "failed"}
      BY <1>0, <2>0, <2>1 DEF Exit, Crashed
    <3>2. starter' # "none"
      BY <2>0, <3>1
    <3>3. crashes' \in Nat /\ ~(crashes' >= CrashLimit)
      BY <1>0, <2>0, <3>1
    <3>4. timer' = FALSE
      BY <2>0, <3>1
    <3> QED
      BY <2>0, <3>1, <3>2, <3>3, <3>4
  <2>2. CASE Crashed(c)
    <3>1. /\ ~stopping /\ c \in readied /\ settled' = settled /\ starter' = starter
      BY <2>2 DEF Exit, Crashed
    <3>2. /\ \E recent \in 0..crashes : crashes' = recent + 1
          /\ \/ crashes' >= CrashLimit /\ state' = "failed" /\ timer' = timer
             \/ ~(crashes' >= CrashLimit) /\ state' = "restarting" /\ timer' = (forked < MaxChildren)
      BY <2>2 DEF Exit, Crashed, TooMany
    <3>3. crashes' \in Nat
      BY <2>0, <3>2
    <3>4. CASE crashes' >= CrashLimit /\ state' = "failed" /\ timer' = timer
      BY <2>0, <3>1, <3>3, <3>4
    <3>5. CASE ~(crashes' >= CrashLimit) /\ state' = "restarting" /\ timer' = (forked < MaxChildren)
      <4>1. timer' \in BOOLEAN
        BY <3>5
      <4>2. timer' => forked < MaxChildren
        BY <3>5, Zenon
      <4> QED
        BY <2>0, <3>1, <3>3, <3>5, <4>1, <4>2, Zenon
    <3> QED
      BY <3>2, <3>4, <3>5
  <2> QED
    BY <2>1, <2>2
<1>3. \A k \in Calls : call'[k] = IF call[k] = "pending" THEN "unknown" ELSE call[k]
  BY <1>1 DEF Lost, Pending
<1>4. TypeOK'
  <2>1. call' \in [Calls -> {"new", "pending", "ok", "error", "unknown", "not_started"}]
    BY <1>0, <1>1 DEF Lost, Pending, TypeOK
  <2>2. exited' \subseteq Children /\ handling' \subseteq Calls \X Children /\ child' \in Children \cup {0}
        /\ stopper' \in {"none", "waiting", "done"}
    BY <1>0, <1>1 DEF TypeOK
  <2>3. starter' \in {"none", "waiting", "ok", "failed"}
    BY <1>0, <1>2 DEF TypeOK
  <2> QED
    BY <1>0, <1>1, <1>2, <2>1, <2>2, <2>3 DEF TypeOK
<1>5. Family'
  BY <1>0, <1>1, <1>2 DEF Family, TypeOK
<1>6. GivenUp'
  <2>1. c \in readied => \A d \in Children : \A i \in DOMAIN toParent[d] : toParent[d][i].t # "ready"
    <3> SUFFICES ASSUME c \in readied, NEW d \in Children, NEW i \in DOMAIN toParent[d], toParent[d][i].t = "ready"
                 PROVE  FALSE
      OBVIOUS
    <3>1. toParent[d] # <<>>
      OBVIOUS
    <3>2. d = c
      BY <1>0, <3>1, OnlyTheLast
    <3> QED
      BY <3>2 DEF ProcessInv, Piped
  <2> QED
    BY <1>1, <1>2, <2>1 DEF GivenUp
<1>7. \A d \in Children : Piped(d)'
  BY <1>1 DEF ProcessInv, Piped
<1>8. ASSUME NEW k \in Calls PROVE Accounted(k)'
  <2>1. \A d \in Children : <<k, d>> \notin handling'
    BY <1>0, <1>1 DEF ProcessInv, Accounted
  <2> QED
    BY <1>1, <1>3, <2>1 DEF ProcessInv, Accounted
<1>9. Pending' = {}
  BY <1>3 DEF Pending
<1> QED
  BY <1>4, <1>5, <1>6, <1>7, <1>8, <1>9 DEF ProcessInv

\* The parent reads what the last child has sent.
LEMMA ReceiveKeeps ==
  ASSUME ProcessInv, NEW c \in Children, Receive(c)
  PROVE  ProcessInv'
<1> DEFINE m == Head(toParent[c])
<1>0. /\ TypeOK /\ Family /\ GivenUp /\ Piped(c) /\ c = forked /\ forked \in Nat \ {0} /\ os[c] # "none"
      /\ toParent[c] # <<>> /\ toParent[c] \in Seq(Messages)
  BY OnlyTheLast DEF ProcessInv, Receive, TypeOK
<1>1. /\ toParent' = [toParent EXCEPT ![c] = Tail(@)]
      /\ UNCHANGED <<child, forked, exited, timer, crashes, stopping, stopper, os, prog, toChild, handling, runs>>
  BY DEF Receive
<1>2. /\ toParent'[c] = Tail(toParent[c]) /\ \A d \in Children \ {c} : toParent'[d] = toParent[d]
      /\ toParent' \in [Children -> Seq(Messages)]
  BY <1>0, <1>1, Dequeued DEF TypeOK
<1>3. /\ m \in Messages /\ 1 \in DOMAIN toParent[c] /\ m = toParent[c][1]
      /\ \A i \in DOMAIN toParent'[c] : i \in Nat /\ i + 1 \in DOMAIN toParent[c] /\ i + 1 # 1
                                        /\ toParent'[c][i] = toParent[c][i + 1]
  BY <1>0, <1>2, Dequeued
<1>4. /\ \A i \in DOMAIN toParent'[c] :
           /\ toParent'[c][i].t # "ready"
           /\ toParent'[c][i].t \in {"result", "error"} =>
                toParent'[c][i].call \in Calls /\ runs[toParent'[c][i].call] = 1
      /\ m.t = "ready" => c \notin readied
      /\ m.t \in {"result", "error"} => m.call \in Calls /\ runs[m.call] = 1
  BY <1>0, <1>3 DEF Piped
<1>5. /\ \/ m.t = "ready" /\ readied' = readied \cup {c} /\ state' = "running" /\ settled' = settled \cup {c}
         \/ m.t # "ready" /\ readied' = readied /\ settled' \in {settled, settled \cup {c}} /\ state' \in {state, "failed"}
      /\ starter' \in {starter, "ok", "failed"} /\ (starter' = "none" <=> starter = "none")
      /\ \/ call' = call
         \/ \E k \in Pending, o \in {"ok", "error"} : runs[k] = 1 /\ call' = [call EXCEPT ![k] = o]
  <2>0. starter # "none"
    BY <1>0 DEF Family
  <2>1. CASE m.t = "ready"
    BY <2>0, <2>1 DEF Receive
  <2>2. CASE m.t = "fatal"
    BY <2>0, <2>2 DEF Receive, SpawnFails
  <2>3. CASE m.t \in {"result", "error"}
    <3>1. UNCHANGED <<readied, state, settled, starter>>
      BY <2>3 DEF Receive
    <3>2. CASE m.call \in Pending
      BY <1>4, <2>0, <2>3, <3>1, <3>2 DEF Receive, Settle
    <3>3. CASE m.call \notin Pending
      BY <2>0, <2>3, <3>1, <3>3 DEF Receive
    <3> QED
      BY <3>2, <3>3
  <2> QED
    BY <2>1, <2>2, <2>3 DEF Receive
<1> HIDE DEF m
<1>6. /\ call' \in [Calls -> {"new", "pending", "ok", "error", "unknown", "not_started"}]
      /\ \A k \in Calls : \/ call'[k] = call[k]
                          \/ call[k] = "pending" /\ call'[k] \in {"ok", "error"} /\ runs[k] = 1
  BY <1>0, <1>5 DEF TypeOK, Pending
<1>7. TypeOK'
  <2>1. /\ readied' \subseteq Children /\ settled' \subseteq Children
        /\ state' \in {"stopped", "starting", "running", "restarting", "failed"}
        /\ starter' \in {"none", "waiting", "ok", "failed"}
    BY <1>0, <1>5 DEF TypeOK
  <2> QED
    BY <1>0, <1>1, <1>2, <1>6, <2>1 DEF TypeOK
<1>8. Family'
  BY <1>0, <1>1, <1>5 DEF Family
<1>9. GivenUp'
  <2>1. SUFFICES ASSUME crashes >= CrashLimit
                 PROVE  /\ child = 0 /\ ~timer /\ state' \in {"failed", "stopped"}
                        /\ \A d \in Children : \A i \in DOMAIN toParent'[d] : toParent'[d][i].t # "ready"
    BY <1>1 DEF GivenUp
  <2>2. m.t # "ready" /\ child = 0 /\ ~timer /\ state \in {"failed", "stopped"}
    BY <1>0, <1>3, <2>1 DEF GivenUp
  <2>3. ASSUME NEW d \in Children, NEW i \in DOMAIN toParent'[d] PROVE toParent'[d][i].t # "ready"
    <3>1. CASE d = c
      BY <1>4, <3>1
    <3>2. CASE d # c
      BY <1>0, <1>2, <2>1, <3>2 DEF GivenUp
    <3> QED
      BY <3>1, <3>2
  <2> QED
    BY <1>5, <2>2, <2>3
<1>10. ASSUME NEW d \in Children PROVE Piped(d)'
  <2>1. CASE d = c
    <3>1. prog[c] # "loading" /\ ~(c < forked)
      BY <1>0 DEF Piped
    <3> QED
      BY <1>0, <1>1, <1>4, <2>1, <3>1 DEF Piped
  <2>2. CASE d # c
    <3>1. toParent'[d] = toParent[d] /\ (d \in readied' <=> d \in readied)
      BY <1>2, <1>5, <2>2
    <3>2. Piped(d)
      BY DEF ProcessInv
    <3> QED
      BY <1>1, <3>1, <3>2 DEF Piped
  <2> QED
    BY <2>1, <2>2
<1>11. ASSUME NEW k \in Calls PROVE Accounted(k)'
  BY <1>1, <1>6 DEF ProcessInv, Accounted
<1>12. Pending' # {} => child' # 0
  BY <1>1, <1>6 DEF ProcessInv, Pending
<1> QED
  BY <1>7, <1>8, <1>9, <1>10, <1>11, <1>12 DEF ProcessInv

\* A call is refused, or sent to the current child.
LEMMA CallKeeps ==
  ASSUME ProcessInv, NEW k \in Calls, Call(k)
  PROVE  ProcessInv'
<1> DEFINE m == Msg("call", k)
<1>0. /\ TypeOK /\ Family /\ GivenUp /\ Accounted(k) /\ call[k] = "new" /\ runs[k] = 0
  BY DEF ProcessInv, Call, Accounted
<1>1. UNCHANGED <<state, child, forked, settled, readied, exited, timer, crashes, stopping, starter, stopper, os, prog,
                  toParent, handling, runs>>
  BY DEF Call
<1>2. CASE call' = [call EXCEPT ![k] = "not_started"] /\ toChild' = toChild
  <2>1. TypeOK'
    BY <1>0, <1>1, <1>2 DEF TypeOK
  <2>2. Family' /\ GivenUp' /\ \A c \in Children : Piped(c)'
    BY <1>1, <1>2 DEF ProcessInv, Family, GivenUp, Piped
  <2>3. \A j \in Calls : Accounted(j)'
    BY <1>0, <1>1, <1>2 DEF ProcessInv, Accounted, TypeOK
  <2>4. Pending' \subseteq Pending
    BY <1>0, <1>2 DEF Pending, TypeOK
  <2> QED
    BY <1>1, <2>1, <2>2, <2>3, <2>4 DEF ProcessInv
<1>3. CASE /\ child # 0 /\ call' = [call EXCEPT ![k] = "pending"]
           /\ toChild' = [toChild EXCEPT ![child] = IF Alive(child) THEN Append(@, m) ELSE @]
  <2>1. m \in Asks /\ m \in Messages /\ \A j \in Calls \ {k} : m # Msg("call", j)
    BY DEF Msg, Asks, Messages
  <2>2. /\ child \in Children /\ \A c \in Children : toChild[c] \in Seq(Messages)
        /\ \A c \in Children : \/ toChild'[c] = toChild[c]
                               \/ toChild'[c] = Append(toChild[c], m) /\ Alive(c) /\ c = child
    BY <1>0, <1>3 DEF TypeOK
  <2>3. TypeOK'
    <3>1. toChild' \in [Children -> Seq(Messages)]
      <4>1. toChild' = [c \in Children |-> toChild'[c]]
        BY <1>0, <1>3 DEF TypeOK
      <4>2. ASSUME NEW c \in Children PROVE toChild'[c] \in Seq(Messages)
        <5>1. CASE toChild'[c] = toChild[c]
          BY <2>2, <5>1
        <5>2. CASE toChild'[c] = Append(toChild[c], m)
          BY <2>1, <2>2, <5>2, Appended
        <5> QED
          BY <2>2, <5>1, <5>2
      <4> QED
        BY <4>1, <4>2
    <3>2. call' \in [Calls -> {"new", "pending", "ok", "error", "unknown", "not_started"}]
      BY <1>0, <1>3 DEF TypeOK
    <3> QED
      BY <1>0, <1>1, <3>1, <3>2 DEF TypeOK
  <2>4. Family' /\ GivenUp'
    BY <1>0, <1>1 DEF Family, GivenUp
  <2> HIDE DEF m
  <2>5. ASSUME NEW c \in Children PROVE Piped(c)'
    <3>1. Piped(c)
      BY DEF ProcessInv
    <3>2. CASE toChild'[c] = toChild[c]
      BY <1>1, <3>1, <3>2 DEF Piped
    <3>3. CASE toChild'[c] = Append(toChild[c], m) /\ Alive(c)
      <4>1. \A i \in DOMAIN toChild'[c] : toChild'[c][i] \in Asks
        BY <2>1, <2>2, <3>1, <3>3, Appended DEF Piped
      <4> QED
        BY <1>1, <3>1, <3>3, <4>1 DEF Piped, Alive
    <3> QED
      BY <2>2, <3>2, <3>3
  <2>6. ASSUME NEW j \in Calls \ {k} PROVE Accounted(j)'
    <3>1. ASSUME NEW c \in Children, NEW i \in DOMAIN toChild'[c], toChild'[c][i] = Msg("call", j)
          PROVE  i \in DOMAIN toChild[c] /\ toChild[c][i] = toChild'[c][i]
      BY <2>1, <2>2, <3>1, Appended
    <3>2. call'[j] = call[j]
      BY <1>0, <1>3 DEF TypeOK
    <3> QED
      BY <1>1, <3>1, <3>2 DEF ProcessInv, Accounted
  <2>7. Accounted(k)'
    <3>1. \A c \in Children : \A i \in DOMAIN toChild[c] : toChild[c][i] # Msg("call", k)
      BY <1>0 DEF Accounted
    <3>2. ASSUME NEW c \in Children, NEW i \in DOMAIN toChild'[c], toChild'[c][i] = Msg("call", k)
          PROVE  \A j \in DOMAIN toChild'[c] : toChild'[c][j] = toChild'[c][i] => j = i
      <4>1. toChild'[c] = Append(toChild[c], m)
        BY <2>2, <3>1, <3>2
      <4>2. \A j \in DOMAIN toChild'[c] : toChild'[c][j] = Msg("call", k) => j = Len(toChild[c]) + 1
        BY <2>1, <2>2, <3>1, <4>1, Appended
      <4> QED
        BY <3>2, <4>2
    <3>3. call'[k] = "pending"
      BY <1>0, <1>3 DEF TypeOK
    <3> QED
      BY <1>0, <1>1, <3>2, <3>3 DEF Accounted
  <2> QED
    BY <1>1, <1>3, <2>3, <2>4, <2>5, <2>6, <2>7 DEF ProcessInv
<1> QED
  BY <1>2, <1>3 DEF Call, Settle, Post

\* A caller stops waiting.
LEMMA GiveUpKeeps ==
  ASSUME ProcessInv, NEW k \in Calls, GiveUp(k)
  PROVE  ProcessInv'
<1>1. /\ TypeOK /\ call[k] = "pending" /\ call' = [call EXCEPT ![k] = "unknown"]
      /\ UNCHANGED <<state, child, forked, settled, readied, exited, timer, crashes, stopping, starter, stopper, os, prog,
                     toChild, toParent, handling, runs>>
  BY DEF GiveUp, Settle, Pending, childVars, ProcessInv
<1>2. TypeOK'
  BY <1>1 DEF TypeOK
<1>3. Family' /\ GivenUp' /\ \A c \in Children : Piped(c)'
  BY <1>1 DEF ProcessInv, Family, GivenUp, Piped
<1>4. ASSUME NEW j \in Calls PROVE Accounted(j)'
  BY <1>1 DEF ProcessInv, Accounted, TypeOK
<1>5. Pending' \subseteq Pending
  BY <1>1 DEF Pending, TypeOK
<1> QED
  BY <1>1, <1>2, <1>3, <1>4, <1>5 DEF ProcessInv

\* The program has loaded, or cannot.
LEMMA LoadKeeps ==
  ASSUME ProcessInv, NEW c \in Children, Load(c)
  PROVE  ProcessInv'
<1>0. /\ TypeOK /\ Family /\ GivenUp /\ Piped(c) /\ Alive(c) /\ c = forked /\ child = c /\ prog[c] = "loading"
      /\ toParent[c] = <<>> /\ c \notin readied /\ forked \in Nat \ {0}
  BY OnlyTheLast DEF ProcessInv, Load, Piped
<1>1. PICK p \in {"serving", "fatal"}, m \in {Msg("ready", NoCall), Msg("fatal", NoCall)} :
        prog' = [prog EXCEPT ![c] = p] /\ toParent' = [toParent EXCEPT ![c] = Append(@, m)]
  BY DEF Load, Tell
<1>2. UNCHANGED <<state, child, forked, settled, readied, exited, timer, crashes, stopping, starter, stopper, call, os,
                  toChild, handling, runs>>
  BY DEF Load, parentVars
<1>3. m \in Messages /\ m.t \notin {"result", "error"}
  BY <1>1 DEF Msg, Messages
<1>4. /\ toParent[c] \in Seq(Messages) /\ toParent'[c] = Append(toParent[c], m)
      /\ \A d \in Children \ {c} : toParent'[d] = toParent[d] /\ prog'[d] = prog[d]
      /\ prog'[c] = p /\ prog' \in [Children -> {"loading", "serving", "fatal", "stopping"}]
      /\ toParent' \in [Children -> Seq(Messages)]
  <2>1. toParent[c] \in Seq(Messages) /\ Append(toParent[c], m) \in Seq(Messages)
    BY <1>0, <1>3, Appended DEF TypeOK
  <2> QED
    BY <1>0, <1>1, <2>1 DEF TypeOK
<1>5. \A i \in DOMAIN toParent'[c] : i = 1 /\ toParent'[c][i] = m
  BY <1>0, <1>3, <1>4, Appended
<1>6. TypeOK' /\ Family'
  BY <1>0, <1>2, <1>4 DEF TypeOK, Family
<1>7. GivenUp'
  <2>1. ~(crashes >= CrashLimit)
    BY <1>0 DEF GivenUp
  <2> QED
    BY <1>2, <2>1 DEF GivenUp
<1>8. ASSUME NEW d \in Children PROVE Piped(d)'
  <2>1. CASE d = c
    BY <1>0, <1>2, <1>3, <1>4, <1>5, <2>1 DEF Piped, Alive
  <2>2. CASE d # c
    BY <1>2, <1>4, <2>2 DEF ProcessInv, Piped
  <2> QED
    BY <2>1, <2>2
<1>9. ASSUME NEW k \in Calls PROVE Accounted(k)'
  <2>1. Accounted(k) /\ \A d \in Children : <<k, d>> \notin handling
    BY <1>0 DEF ProcessInv, Accounted
  <2> QED
    BY <1>2, <2>1 DEF Accounted
<1>10. Pending' # {} => child' # 0
  BY <1>2 DEF ProcessInv, Pending
<1> QED
  BY <1>6, <1>7, <1>8, <1>9, <1>10 DEF ProcessInv

\* The program takes a message: it enters the handler of a call that nobody has entered.
LEMMA HandleKeeps ==
  ASSUME ProcessInv, NEW c \in Children, Handle(c)
  PROVE  ProcessInv'
<1> DEFINE m == Head(toChild[c])
<1>0. /\ TypeOK /\ Family /\ GivenUp /\ Piped(c) /\ Alive(c) /\ c = forked /\ child = c
      /\ prog[c] \in {"serving", "stopping"} /\ toChild[c] # <<>> /\ toChild[c] \in Seq(Messages)
  BY OnlyTheLast DEF ProcessInv, Handle, TypeOK
<1>1. /\ toChild' = [toChild EXCEPT ![c] = Tail(@)]
      /\ UNCHANGED <<state, child, forked, settled, readied, exited, timer, crashes, stopping, starter, stopper, call, os,
                     toParent>>
  BY DEF Handle, parentVars
<1>2. /\ toChild'[c] = Tail(toChild[c]) /\ \A d \in Children \ {c} : toChild'[d] = toChild[d]
      /\ toChild' \in [Children -> Seq(Messages)]
  BY <1>0, <1>1, Dequeued DEF TypeOK
<1>3. /\ 1 \in DOMAIN toChild[c] /\ m = toChild[c][1]
      /\ \A i \in DOMAIN toChild'[c] : i \in Nat /\ i + 1 \in DOMAIN toChild[c] /\ i + 1 # 1
                                       /\ toChild'[c][i] = toChild[c][i + 1]
  BY <1>0, <1>2, Dequeued
<1>4. m \in Asks /\ (m.t = "call" => m.call \in Calls /\ m = Msg("call", m.call))
  BY <1>0, <1>3, MessageShapes DEF Piped
<1>5. \/ \E k \in Calls : /\ m = Msg("call", k) /\ handling' = handling \cup {<<k, c>>}
                          /\ runs' = [runs EXCEPT ![k] = @ + 1] /\ prog' = prog
      \/ /\ m.t = "stop" /\ prog' = [prog EXCEPT ![c] = "stopping"] /\ handling' = handling /\ runs' = runs
  BY <1>4 DEF Handle
<1> HIDE DEF m
<1>6. Family' /\ GivenUp' /\ (Pending' # {} => child' # 0)
  BY <1>0, <1>1 DEF ProcessInv, Family, GivenUp, Pending
<1>7. \A i \in DOMAIN toChild'[c] : toChild'[c][i] \in Asks
  BY <1>0, <1>3 DEF Piped
<1>8. CASE m.t = "stop" /\ prog' = [prog EXCEPT ![c] = "stopping"] /\ handling' = handling /\ runs' = runs
  <2>1. prog'[c] = "stopping" /\ \A d \in Children \ {c} : prog'[d] = prog[d]
    BY <1>0, <1>8 DEF TypeOK
  <2>2. TypeOK'
    BY <1>0, <1>1, <1>2, <1>8 DEF TypeOK
  <2>3. ASSUME NEW d \in Children PROVE Piped(d)'
    <3>1. CASE d = c
      BY <1>0, <1>1, <1>7, <1>8, <2>1, <3>1 DEF Piped, Alive
    <3>2. CASE d # c
      BY <1>1, <1>2, <1>8, <2>1, <3>2 DEF ProcessInv, Piped
    <3> QED
      BY <3>1, <3>2
  <2>4. ASSUME NEW k \in Calls PROVE Accounted(k)'
    <3>1. Accounted(k)
      BY DEF ProcessInv
    <3>2. ASSUME NEW d \in Children PROVE <<k, d>> \in handling' => d = child' /\ prog'[d] \in {"serving", "stopping"} /\ runs'[k] = 1
      BY <1>1, <1>8, <2>1, <3>1 DEF Accounted
    <3>3. ASSUME NEW d \in Children, NEW i \in DOMAIN toChild'[d], toChild'[d][i] = Msg("call", k)
          PROVE  /\ runs[k] = 0 /\ call[k] \notin {"new", "not_started"}
                 /\ \A j \in DOMAIN toChild'[d] : toChild'[d][j] = toChild'[d][i] => j = i
      <4>1. CASE d = c
        <5>1. i + 1 \in DOMAIN toChild[c] /\ toChild[c][i + 1] = Msg("call", k) /\ i \in Nat
          BY <1>3, <3>3, <4>1
        <5>2. /\ runs[k] = 0 /\ call[k] \notin {"new", "not_started"}
              /\ \A g \in DOMAIN toChild[c] : toChild[c][g] = toChild[c][i + 1] => g = i + 1
          BY <3>1, <5>1 DEF Accounted
        <5>3. ASSUME NEW j \in DOMAIN toChild'[d], toChild'[d][j] = toChild'[d][i] PROVE j = i
          <6>1. j \in Nat /\ j + 1 = i + 1
            BY <1>3, <4>1, <5>1, <5>2, <5>3
          <6> QED
            BY <5>1, <6>1
        <5> QED
          BY <5>2, <5>3
      <4>2. CASE d # c
        BY <1>2, <3>1, <3>3, <4>2 DEF Accounted
      <4> QED
        BY <4>1, <4>2
    <3> QED
      BY <1>1, <1>8, <3>1, <3>2, <3>3 DEF Accounted
  <2> QED
    BY <1>6, <2>2, <2>3, <2>4 DEF ProcessInv
<1>9. ASSUME NEW k \in Calls, m = Msg("call", k), handling' = handling \cup {<<k, c>>}, runs' = [runs EXCEPT ![k] = @ + 1],
             prog' = prog
      PROVE  ProcessInv'
  <2>1. Accounted(k) /\ runs[k] = 0 /\ call[k] \notin {"new", "not_started"}
        /\ \A j \in DOMAIN toChild[c] : toChild[c][j] = Msg("call", k) => j = 1
    <3>1. Accounted(k) /\ 1 \in DOMAIN toChild[c] /\ toChild[c][1] = Msg("call", k)
      BY <1>3, <1>9 DEF ProcessInv
    <3> QED
      BY <3>1 DEF Accounted
  <2>2. runs'[k] = 1 /\ (\A j \in Calls \ {k} : runs'[j] = runs[j]) /\ runs' \in [Calls -> Nat]
    BY <1>0, <1>9, <2>1 DEF TypeOK
  <2>3. TypeOK'
    <3>1. handling' \subseteq Calls \X Children
      BY <1>0, <1>9 DEF TypeOK
    <3> QED
      BY <1>0, <1>1, <1>2, <1>9, <2>2, <3>1 DEF TypeOK
  <2>4. ASSUME NEW d \in Children PROVE Piped(d)'
    <3>1. Piped(d)
      BY DEF ProcessInv
    <3>2. \A i \in DOMAIN toParent[d] : toParent[d][i].t \in {"result", "error"} =>
            toParent[d][i].call \in Calls /\ runs'[toParent[d][i].call] = 1
      BY <2>1, <2>2, <3>1 DEF Piped
    <3>3. CASE d = c
      BY <1>0, <1>1, <1>7, <1>9, <3>1, <3>2, <3>3 DEF Piped, Alive
    <3>4. CASE d # c
      BY <1>1, <1>2, <1>9, <3>1, <3>2, <3>4 DEF Piped
    <3> QED
      BY <3>3, <3>4
  <2>5. ASSUME NEW j \in Calls \ {k} PROVE Accounted(j)'
    <3>1. Accounted(j) /\ runs'[j] = runs[j]
      BY <2>2 DEF ProcessInv
    <3>2. ASSUME NEW d \in Children PROVE <<j, d>> \in handling' => d = child' /\ prog'[d] \in {"serving", "stopping"} /\ runs'[j] = 1
      BY <1>1, <1>9, <3>1 DEF Accounted
    <3>3. ASSUME NEW d \in Children, NEW i \in DOMAIN toChild'[d], toChild'[d][i] = Msg("call", j)
          PROVE  /\ runs[j] = 0 /\ call[j] \notin {"new", "not_started"}
                 /\ \A h \in DOMAIN toChild'[d] : toChild'[d][h] = toChild'[d][i] => h = i
      <4>1. CASE d = c
        <5>1. i + 1 \in DOMAIN toChild[c] /\ toChild[c][i + 1] = Msg("call", j) /\ i \in Nat
          BY <1>3, <3>3, <4>1
        <5>2. /\ runs[j] = 0 /\ call[j] \notin {"new", "not_started"}
              /\ \A g \in DOMAIN toChild[c] : toChild[c][g] = toChild[c][i + 1] => g = i + 1
          BY <3>1, <5>1 DEF Accounted
        <5>3. ASSUME NEW h \in DOMAIN toChild'[d], toChild'[d][h] = toChild'[d][i] PROVE h = i
          <6>1. h \in Nat /\ h + 1 = i + 1
            BY <1>3, <4>1, <5>1, <5>2, <5>3
          <6> QED
            BY <5>1, <6>1
        <5> QED
          BY <5>2, <5>3
      <4>2. CASE d # c
        BY <1>2, <3>1, <3>3, <4>2 DEF Accounted
      <4> QED
        BY <4>1, <4>2
    <3> QED
      BY <1>1, <3>1, <3>2, <3>3 DEF Accounted
  <2>6. Accounted(k)'
    <3>1. ASSUME NEW d \in Children, NEW i \in DOMAIN toChild'[d] PROVE toChild'[d][i] # Msg("call", k)
      <4>1. CASE d = c
        BY <1>3, <2>1, <4>1
      <4>2. CASE d # c
        <5>1. os[d] \in {"none", "dead"}
          BY <1>0, <4>2, OnlyTheLast DEF TypeOK, Alive
        <5> QED
          BY <1>2, <4>2, <5>1 DEF ProcessInv, Piped
      <4> QED
        BY <4>1, <4>2
    <3>2. ASSUME NEW d \in Children, <<k, d>> \in handling' PROVE d = child' /\ prog'[d] \in {"serving", "stopping"}
      <4>1. CASE d = c
        BY <1>0, <1>1, <1>9, <4>1
      <4>2. CASE d # c
        BY <1>9, <2>1, <3>2, <4>2 DEF Accounted
      <4> QED
        BY <4>1, <4>2
    <3> QED
      BY <1>1, <2>1, <2>2, <3>1, <3>2 DEF Accounted
  <2> QED
    BY <1>6, <2>3, <2>4, <2>5, <2>6 DEF ProcessInv
<1> QED
  BY <1>5, <1>8, <1>9

\* A handler answers.
LEMMA FinishKeeps ==
  ASSUME ProcessInv, NEW k \in Calls, NEW c \in Children, Finish(k, c)
  PROVE  ProcessInv'
<1>0. /\ TypeOK /\ Family /\ GivenUp /\ Piped(c) /\ Alive(c) /\ c = forked /\ child = c /\ forked \in Nat \ {0}
      /\ prog[c] \in {"serving", "stopping"} /\ runs[k] = 1 /\ toParent[c] \in Seq(Messages)
  BY OnlyTheLast DEF ProcessInv, Finish, Accounted, TypeOK
<1>1. PICK m \in {Msg("result", k), Msg("error", k)} : toParent' = [toParent EXCEPT ![c] = Append(@, m)]
  BY DEF Finish, Tell
<1>2. /\ handling' = handling \ {<<k, c>>}
      /\ UNCHANGED <<state, child, forked, settled, readied, exited, timer, crashes, stopping, starter, stopper, call, os,
                     prog, toChild, runs>>
  BY DEF Finish, parentVars
<1>3. m \in Messages /\ m.t \in {"result", "error"} /\ m.call = k
  BY <1>1 DEF Msg, Messages
<1>4. /\ toParent'[c] = Append(toParent[c], m) /\ \A d \in Children \ {c} : toParent'[d] = toParent[d]
      /\ toParent' \in [Children -> Seq(Messages)]
  <2>1. Append(toParent[c], m) \in Seq(Messages)
    BY <1>0, <1>3, Appended
  <2> QED
    BY <1>0, <1>1, <2>1 DEF TypeOK
<1>5. \A i \in DOMAIN toParent'[c] : \/ i \in DOMAIN toParent[c] /\ toParent'[c][i] = toParent[c][i]
                                     \/ toParent'[c][i] = m
  BY <1>0, <1>3, <1>4, Appended
<1>6. TypeOK' /\ Family'
  BY <1>0, <1>2, <1>4 DEF TypeOK, Family
<1>7. GivenUp'
  <2>1. ~(crashes >= CrashLimit)
    BY <1>0 DEF GivenUp
  <2> QED
    BY <1>2, <2>1 DEF GivenUp
<1>8. ASSUME NEW d \in Children PROVE Piped(d)'
  <2>1. CASE d = c
    <3>1. \A i \in DOMAIN toParent'[c] :
           /\ toParent'[c][i].t = "ready" => i = 1 /\ c \notin readied
           /\ toParent'[c][i].t \in {"result", "error"} =>
                toParent'[c][i].call \in Calls /\ runs[toParent'[c][i].call] = 1
      BY <1>0, <1>3, <1>5 DEF Piped
    <3> QED
      BY <1>0, <1>2, <2>1, <3>1 DEF Piped, Alive
  <2>2. CASE d # c
    BY <1>2, <1>4, <2>2 DEF ProcessInv, Piped
  <2> QED
    BY <2>1, <2>2
<1>9. ASSUME NEW j \in Calls PROVE Accounted(j)'
  BY <1>2 DEF ProcessInv, Accounted
<1>10. Pending' # {} => child' # 0
  BY <1>2 DEF ProcessInv, Pending
<1> QED
  BY <1>6, <1>7, <1>8, <1>9, <1>10 DEF ProcessInv

\* A child dies: what it has not read is lost.
LEMMA DieKeeps ==
  ASSUME ProcessInv, NEW c \in Children, Die(c)
  PROVE  ProcessInv'
<1>0. TypeOK /\ Family /\ GivenUp /\ Alive(c) /\ c = forked /\ child = c /\ forked \in Nat \ {0}
  BY OnlyTheLast DEF ProcessInv, Die
<1>1. /\ os' = [os EXCEPT ![c] = "dead"] /\ toChild' = [toChild EXCEPT ![c] = <<>>]
      /\ UNCHANGED <<state, child, forked, settled, readied, exited, timer, crashes, stopping, starter, stopper, call,
                     prog, toParent, handling, runs>>
  BY DEF Die, parentVars
<1>2. /\ os' \in [Children -> {"none", "up", "killed", "dead"}] /\ toChild' \in [Children -> Seq(Messages)]
      /\ os'[c] = "dead" /\ toChild'[c] = <<>> /\ \A d \in Children \ {c} : os'[d] = os[d] /\ toChild'[d] = toChild[d]
  BY <1>0, <1>1, EmptySeq DEF TypeOK
<1>3. TypeOK'
  BY <1>0, <1>1, <1>2 DEF TypeOK
<1>4. Family'
  BY <1>0, <1>1, <1>2 DEF Family, Alive
<1>5. GivenUp' /\ (Pending' # {} => child' # 0)
  BY <1>0, <1>1 DEF ProcessInv, GivenUp, Pending
<1>6. ASSUME NEW d \in Children PROVE Piped(d)'
  BY <1>0, <1>1, <1>2 DEF ProcessInv, Piped, Alive
<1>7. ASSUME NEW k \in Calls PROVE Accounted(k)'
  BY <1>1, <1>2 DEF ProcessInv, Accounted
<1> QED
  BY <1>3, <1>4, <1>5, <1>6, <1>7 DEF ProcessInv

\* No step of the parent or of a child breaks the invariant.
LEMMA ProcessStays ==
  ASSUME ProcessInv, [Next]_vars
  PROVE  ProcessInv'
<1>1. CASE UNCHANGED vars
  BY <1>1 DEF vars, parentVars, childVars, ProcessInv, TypeOK, Family, GivenUp, Piped, Accounted, Pending
<1> QED
  BY <1>1, SpawnKeeps, KillKeeps, StopKeeps, ExitKeeps, ReceiveKeeps, CallKeeps, GiveUpKeeps, LoadKeeps, HandleKeeps,
     FinishKeeps, DieKeeps DEF Next

(*****************************************************************************)
(* The promise.  Between the steps above and those of CallContract stands    *)
(* what callers are told of a call.                                          *)
(*****************************************************************************)
\* A call that is taken up by a handler is one that nobody has taken up and that waits, or
\* has been given up.
LEMMA EnteredOnce ==
  ASSUME ProcessInv, NEW c \in Children, Handle(c), runs' # runs
  PROVE  \E k \in Calls : runs[k] = 0 /\ runs' = [runs EXCEPT ![k] = 1] /\ call[k] \in {"pending", "unknown"}
<1> DEFINE m == Head(toChild[c])
<1>1. /\ TypeOK /\ Piped(c) /\ toChild[c] # <<>> /\ toChild[c] \in Seq(Messages)
  BY DEF ProcessInv, Handle, TypeOK
<1>2. 1 \in DOMAIN toChild[c] /\ m = toChild[c][1]
  BY <1>1, Dequeued
<1>3. m \in Asks /\ (m.t = "call" => m.call \in Calls /\ m = Msg("call", m.call))
  BY <1>1, <1>2, MessageShapes DEF Piped
<1>4. m.t = "call" /\ runs' = [runs EXCEPT ![m.call] = @ + 1]
  BY DEF Handle
<1> HIDE DEF m
<1>5. Accounted(m.call) /\ toChild[c][1] = Msg("call", m.call)
  BY <1>2, <1>3, <1>4 DEF ProcessInv
<1>6. runs[m.call] = 0 /\ call[m.call] \notin {"new", "not_started", "ok", "error"}
  <2>1. /\ toChild[c][1] = Msg("call", m.call) => runs[m.call] = 0 /\ call[m.call] \notin {"new", "not_started"}
        /\ call[m.call] \in {"ok", "error"} => runs[m.call] = 1
    BY <1>2, <1>5 DEF Accounted
  <2> QED
    BY <1>5, <2>1
<1>7. call[m.call] \in {"pending", "unknown"}
  BY <1>1, <1>3, <1>4, <1>6 DEF TypeOK
<1>8. runs' = [runs EXCEPT ![m.call] = 1] /\ m.call \in Calls
  BY <1>1, <1>3, <1>4, <1>6 DEF TypeOK
<1> QED
  BY <1>6, <1>7, <1>8

\* What callers are told follows the contract: the answers are those of a handler that was
\* entered, and what is refused was not sent.
LEMMA StepKeepsPromise ==
  ASSUME ProcessInv, Next
  PROVE  [Promise!Next]_<<[k \in Calls |-> Told(k)], runs>>
<1> DEFINE phase == [k \in Calls |-> Told(k)]
<1>0. /\ TypeOK /\ \A k \in Calls : Accounted(k)
  BY DEF ProcessInv
<1>13. \A k \in Calls : /\ call[k] = "new" => Told(k) = "new"
                        /\ call[k] = "pending" => Told(k) = "open"
                        /\ call[k] = "unknown" => Told(k) = "lost"
  BY DEF Told
<1>11. \A k \in Calls : /\ call'[k] = "not_started" => Told(k)' = "refused"
                        /\ call'[k] = "pending" => Told(k)' = "open"
                        /\ call'[k] \in {"ok", "error"} => Told(k)' = "answered"
                        /\ call'[k] = "unknown" => Told(k)' = "lost"
  BY DEF Told
<1>12. ASSUME NEW k \in Calls, call'[k] = call[k] PROVE Told(k)' = Told(k)
  BY <1>12 DEF Told
<1>1. ASSUME \A k \in Calls : call'[k] = call[k] PROVE phase' = phase
  BY <1>1, <1>12
<1>2. ASSUME NEW k \in Calls, NEW v, call' = [call EXCEPT ![k] = v]
      PROVE  phase' = [phase EXCEPT ![k] = Told(k)'] /\ call'[k] = v
  <2>1. call'[k] = v /\ \A j \in Calls \ {k} : call'[j] = call[j]
    BY <1>0, <1>2 DEF TypeOK
  <2>2. \A j \in Calls \ {k} : Told(j)' = Told(j)
    BY <1>12, <2>1
  <2> QED
    BY <2>1, <2>2
<1>3. CASE call' = call /\ runs' = runs
  BY <1>1, <1>3
<1>4. ASSUME NEW k \in Calls, Call(k) PROVE Promise!Next
  <2>1. Told(k) = "new" /\ runs[k] = 0 /\ runs' = runs
    BY <1>0, <1>4, <1>13 DEF Call, Accounted
  <2>2. CASE call' = [call EXCEPT ![k] = "not_started"]
    <3>1. Told(k)' = "refused" /\ phase' = [phase EXCEPT ![k] = Told(k)']
      BY <1>2, <1>11, <2>2
    <3>2. Promise!Refuse(k)
      BY <2>1, <3>1 DEF Promise!Refuse
    <3> QED
      BY <3>2 DEF Promise!Next
  <2>3. CASE call' = [call EXCEPT ![k] = "pending"]
    <3>1. Told(k)' = "open" /\ phase' = [phase EXCEPT ![k] = Told(k)']
      BY <1>2, <1>11, <2>3
    <3>2. Promise!Accept(k)
      BY <2>1, <3>1 DEF Promise!Accept
    <3> QED
      BY <3>2 DEF Promise!Next
  <2> QED
    BY <1>4, <2>2, <2>3 DEF Call, Settle
<1>5. ASSUME NEW k \in Calls, GiveUp(k) PROVE Promise!Next
  <2>1. /\ Told(k) = "open" /\ runs' = runs /\ Told(k)' = "lost" /\ phase' = [phase EXCEPT ![k] = Told(k)']
    BY <1>2, <1>5, <1>11, <1>13 DEF GiveUp, Settle, Pending, childVars
  <2>2. Promise!Lose({k})
    BY <2>1 DEF Promise!Lose
  <2> QED
    BY <2>2 DEF Promise!Next
<1>6. ASSUME NEW c \in Children, Exit(c) PROVE Promise!Next
  <2>1. runs' = runs /\ call' = Lost
    BY <1>6 DEF Exit
  <2>2. \A k \in Calls : /\ k \in Pending => Told(k) = "open" /\ Told(k)' = "lost"
                         /\ k \notin Pending => Told(k)' = Told(k)
    BY <1>11, <1>12, <1>13, <2>1 DEF Lost, Pending
  <2>3. Promise!Lose(Pending)
    BY <2>1, <2>2 DEF Promise!Lose, Pending
  <2> QED
    BY <2>3 DEF Promise!Next, Pending
<1>7. ASSUME NEW c \in Children, Receive(c) PROVE Promise!Next \/ (call' = call /\ runs' = runs)
  <2> DEFINE m == Head(toParent[c])
  <2>1. runs' = runs
    BY <1>7 DEF Receive
  <2>2. CASE call' # call
    <3>1. m.t \in {"result", "error"} /\ m.call \in Pending
          /\ call' = [call EXCEPT ![m.call] = IF m.t = "result" THEN "ok" ELSE "error"]
      BY <1>7, <2>2 DEF Receive, Settle
    <3>2. toParent[c] # <<>> /\ toParent[c] \in Seq(Messages) /\ Piped(c)
      BY <1>0, <1>7 DEF Receive, TypeOK, ProcessInv
    <3>3. 1 \in DOMAIN toParent[c] /\ m = toParent[c][1]
      BY <3>2, Dequeued
    <3>4. runs[m.call] = 1 /\ m.call \in Calls
      BY <3>1, <3>2, <3>3 DEF Piped
    <3> HIDE DEF m
    <3>7. PICK k \in Calls, o \in {"ok", "error"} : k = m.call /\ call' = [call EXCEPT ![k] = o]
      BY <3>1, <3>4
    <3>8. call'[k] = o /\ phase' = [phase EXCEPT ![k] = Told(k)']
      BY <1>2, <3>7
    <3>9. call[k] = "pending" /\ runs[k] = 1
      BY <3>1, <3>4, <3>7 DEF Pending
    <3>5. Told(k) = "open" /\ Told(k)' = "answered"
      BY <1>11, <1>13, <3>8, <3>9
    <3>6. Promise!Answer(k)
      BY <2>1, <3>5, <3>8, <3>9 DEF Promise!Answer
    <3> QED
      BY <3>6 DEF Promise!Next
  <2> QED
    BY <2>1, <2>2
<1>8. ASSUME NEW c \in Children, Handle(c), runs' # runs PROVE Promise!Next
  <2>1. PICK k \in Calls : runs[k] = 0 /\ runs' = [runs EXCEPT ![k] = 1] /\ call[k] \in {"pending", "unknown"}
    BY <1>8, EnteredOnce
  <2>2. call' = call /\ Told(k) \in {"open", "lost"}
    BY <1>8, <1>13, <2>1 DEF Handle, parentVars
  <2>3. Promise!Run(k)
    BY <1>1, <2>1, <2>2 DEF Promise!Run
  <2> QED
    BY <2>3 DEF Promise!Next
<1>9. ASSUME NEW c \in Children, Handle(c) PROVE Promise!Next \/ (call' = call /\ runs' = runs)
  BY <1>8, <1>9 DEF Handle, parentVars
<1>10. ASSUME \/ Start \/ RestartTimer \/ Stop \/ StopGrace
              \/ \E c \in Children : ReadyTimeout(c) \/ Load(c) \/ Die(c)
              \/ \E k \in Calls, c \in Children : Finish(k, c)
       PROVE  call' = call /\ runs' = runs
  BY <1>10 DEF Start, RestartTimer, Stop, StopGrace, ReadyTimeout, Load, Die, Finish, parentVars
<1> QED
  BY <1>3, <1>4, <1>5, <1>6, <1>7, <1>9, <1>10 DEF Next

\* For any calls, limits and children: one child serves at a time, pending calls wait for it
\* and no other, and nothing of the application is left or comes back after stop() or after
\* the crashes that reached the limit (process.ts:76-87, 106-172).
THEOREM ChildrenObeyTheirParent == Spec => []ChildrenObey
<1>1. ASSUME ProcessInv PROVE ChildrenObey
  <2>0. TypeOK /\ Family /\ GivenUp
    BY <1>1 DEF ProcessInv
  <2>1. \A c \in Children : Alive(c) => c = forked /\ child = c /\ child # 0
    BY <1>1, OnlyTheLast
  <2>2. Cardinality({c \in Children : Alive(c)}) <= 1
    <3>1. {c \in Children : Alive(c)} \subseteq {forked}
      BY <2>1
    <3>2. IsFiniteSet({forked}) /\ Cardinality({forked}) = 1
      BY FS_Singleton
    <3> QED
      BY <3>1, <3>2, FS_Subset
  <2>3. ASSUME NEW k \in Pending
        PROVE  \E c \in Children :
                 /\ c = child
                 /\ \A d \in Children \ {c} :
                      <<k, d>> \notin handling /\ \A i \in DOMAIN toChild[d] : toChild[d][i] # Msg("call", k)
    <3>1. child \in Children /\ k \in Calls /\ Accounted(k)
      BY <1>1, <2>0 DEF ProcessInv, TypeOK, Pending
    <3>2. ASSUME NEW d \in Children \ {child} PROVE <<k, d>> \notin handling /\ toChild[d] = <<>>
      <4>1. os[d] \in {"none", "dead"}
        BY <2>0, <2>1 DEF TypeOK, Alive
      <4> QED
        BY <1>1, <3>1, <4>1 DEF ProcessInv, Piped, Accounted
    <3> QED
      BY <3>1, <3>2
  <2>4. OneChildServes
    BY <2>2, <2>3 DEF OneChildServes
  <2>5. stopper = "done" => ~timer /\ \A c \in Children : ~Alive(c)
    BY <2>0, <2>1 DEF Family
  <2>6. NothingBringsItBack
    BY <2>0, <2>5 DEF NothingBringsItBack, GivenUp
  <2> QED
    BY <2>0, <2>4, <2>6 DEF ChildrenObey
<1>2. ProcessInv /\ [Next]_vars => ProcessInv'
  BY ProcessStays
<1> QED
  BY <1>1, <1>2, ProcessStarts, PTL DEF Spec

\* The process keeps the promise that the gateway and its callers build on: 'not_started'
\* means no handler ever saw the call, an answer comes from a handler that ran, and no restart,
\* timeout or exit makes a call run twice (process.ts:59-73, 138-141, 152).
THEOREM CallsAreKept == Spec => CallsKeepPromise
<1>1. Init => Promise!Init
  BY DEF Init, Promise!Init, Told
<1>2. ProcessInv /\ [Next]_vars => [Promise!Next]_<<[k \in Calls |-> Told(k)], runs>>
  <2>1. CASE UNCHANGED vars
    BY <2>1 DEF vars, parentVars, childVars, Told
  <2> QED
    BY <2>1, StepKeepsPromise
<1>3. ProcessInv /\ [Next]_vars => ProcessInv'
  BY ProcessStays
<1> QED
  BY <1>1, <1>2, <1>3, ProcessStarts, PTL DEF Spec, CallsKeepPromise, Promise!Spec
=============================================================================
