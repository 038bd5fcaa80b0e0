---------------------------- MODULE DaemonProofs -----------------------------
(***************************************************************************)
(* For any characters, services, sizes and limits: after whatever edits a  *)
(* daemon that has nothing left to do runs with what the files say, and no *)
(* child of it runs that no task of it looks after.                        *)
(***************************************************************************)
EXTENDS Daemon, TLAPS

(* An edit that was seen is waited for somewhere until the files are read. *)
Noted ==
  watching /\ missed <= looked /\ looked < edits =>
    noticed \/ armed \/ sending \/ controls > 0

(* Once valid files are read, the copies follow from one to the next.      *)
Applied ==
  looked = edits /\ Loads =>
    /\ command = main /\ (autonomy = Plain(main) \/ autonomy.set)
    /\ applying = "no" =>
         /\ global = main /\ available = defined
         /\ \A ch \in Characters : \A c \in merged[ch] : c = Merge(ch) \/ c.set

(* Whatever is replaced first, each pair of copies is of one load.         *)
Agreed ==
  /\ autonomy.file = command
  /\ applying = "no" => command = global
  /\ \A ch \in Characters : \A c \in merged[ch] : c.file = global

(* Before the watcher starts every edit is missed.                         *)
Unwatched == phase = "starting" => ~watching /\ missed = edits

ReloadInv == Noted /\ Applied /\ Agreed /\ Unwatched

-----------------------------------------------------------------------------
(* The reload.                                                             *)

LEMMA ConfigFields ==
  /\ \A n \in Nat : Plain(n) \in Config /\ Plain(n).file = n
  /\ \A c \in Config : c.file \in Nat /\ c.set \in BOOLEAN
  /\ \A c \in Config : LET d == [c EXCEPT !.set = TRUE]
                       IN d \in Config /\ d.file = c.file /\ d.set
BY DEF Plain, Config

LEMMA ReloadInitially == ReloadInit => ReloadTypeOK /\ ReloadInv
<1> SUFFICES ASSUME ReloadInit PROVE ReloadTypeOK /\ ReloadInv
  OBVIOUS
<1>1. ReloadTypeOK
  <2>1. autonomy \in Config
    BY ConfigFields DEF ReloadInit
  <2>2. merged \in [Characters -> SUBSET Config]
    BY DEF ReloadInit
  <2>3. overlay \in [Characters -> 0..edits]
    BY DEF ReloadInit
  <2>4. /\ watching \in BOOLEAN /\ noticed \in BOOLEAN
        /\ armed \in BOOLEAN /\ sending \in BOOLEAN
    BY Zenon DEF ReloadInit
  <2>5. /\ edits \in 0..MaxEdits /\ main \in 0..edits
        /\ missed \in 0..edits /\ looked \in 0..edits
        /\ command \in 0..edits /\ global \in 0..edits
        /\ controls \in 0..ControlSize /\ broken \subseteq 1..edits
    BY ReloadAssumption DEF ReloadInit
  <2>6. /\ defined \subseteq Characters /\ available \subseteq Characters
        /\ phase = "starting" /\ applying = "no"
    BY DEF ReloadInit
  <2> QED
    BY <2>1, <2>2, <2>3, <2>4, <2>5, <2>6 DEF ReloadTypeOK
<1>2. Noted
  BY DEF ReloadInit, Noted
<1>3. Applied
  BY DEF ReloadInit, Applied
<1>4. Agreed
  BY DEF ReloadInit, Agreed, Plain
<1>5. Unwatched
  BY DEF ReloadInit, Unwatched
<1> QED
  BY <1>1, <1>2, <1>3, <1>4, <1>5 DEF ReloadInv

LEMMA Merged ==
  ASSUME ReloadTypeOK, NEW ch \in Characters
  PROVE  Merge(ch) \in Config /\ Merge(ch).file = global
BY DEF ReloadTypeOK, Merge, Config

(* An edit leaves the copies alone and the files unread.                   *)
LEMMA EditKeeps ==
  ASSUME ReloadTypeOK, ReloadInv, Edit
  PROVE  ReloadTypeOK' /\ ReloadInv'
<1>1. ReloadTypeOK'
  <2>1. ASSUME NEW ok \in BOOLEAN, EditMain(ok) PROVE ReloadTypeOK'
    BY <2>1, ReloadAssumption
    DEF EditMain, Edited, Seen, Unseen, ReloadTypeOK, copyVars
  <2>2. ASSUME NEW ok \in BOOLEAN, NEW ch \in Characters, EditOverlay(ch, ok)
        PROVE  ReloadTypeOK'
    BY <2>2, ReloadAssumption
    DEF EditOverlay, Edited, Seen, ReloadTypeOK, copyVars
  <2>3. ASSUME NEW ch \in Characters, MoveCharacter(ch) PROVE ReloadTypeOK'
    BY <2>3, ReloadAssumption
    DEF MoveCharacter, Edited, Seen, ReloadTypeOK, copyVars
  <2>4. ASSUME NEW ch \in Characters, WriteSoul(ch) PROVE ReloadTypeOK'
    BY <2>4, ReloadAssumption DEF WriteSoul, Edited, Unseen, ReloadTypeOK, copyVars
  <2> QED
    BY <2>1, <2>2, <2>3, <2>4 DEF Edit
<1>2. /\ Edited
      /\ Seen \/ Unseen
  BY DEF Edit, EditMain, EditOverlay, MoveCharacter, WriteSoul
<1>3. /\ edits' = edits + 1 /\ looked' = looked /\ looked \in 0..edits
      /\ edits \in Nat
  BY <1>2, ReloadAssumption DEF Edited, ReloadTypeOK
<1>4. Noted'
  <2>1. CASE Seen
    BY <1>2, <1>3, <2>1 DEF Noted, Edited, Seen, ReloadTypeOK
  <2>2. CASE Unseen
    BY <1>2, <1>3, <2>2 DEF Noted, Unseen
  <2> QED
    BY <1>2, <2>1, <2>2
<1>5. Applied'
  BY <1>3 DEF Applied
<1>6. Agreed'
  <2>1. UNCHANGED <<autonomy, command, applying, global, merged>>
    BY <1>2 DEF Edited, copyVars
  <2> QED
    BY <2>1 DEF ReloadInv, Agreed
<1>7. Unwatched'
  BY <1>2 DEF ReloadInv, Unwatched, Edited, Seen, Unseen
<1> QED
  BY <1>1, <1>4, <1>5, <1>6, <1>7 DEF ReloadInv

(* The watcher hands over what it noted.                                   *)
LEMMA WatchKeeps ==
  ASSUME ReloadTypeOK, ReloadInv, WatchStep \/ StopWatching
  PROVE  ReloadTypeOK' /\ ReloadInv'
<1>1. WatchOnly
  BY DEF WatchStep, Receive, Debounce, SendControl, StopWatching
<1>2. ReloadTypeOK'
  <2>1. UNCHANGED <<phase, edits, main, overlay, broken, defined, missed, looked,
                    applying, command, autonomy, global, available, merged>>
    BY <1>1 DEF WatchOnly, diskVars, copyVars
  <2>2. controls' \in 0..ControlSize
    BY ReloadAssumption
    DEF WatchStep, Receive, Debounce, SendControl, StopWatching, ReloadTypeOK
  <2>3. /\ watching' \in BOOLEAN /\ noticed' \in BOOLEAN
        /\ armed' \in BOOLEAN /\ sending' \in BOOLEAN
    BY Zenon
    DEF WatchStep, Receive, Debounce, SendControl, StopWatching, ReloadTypeOK
  <2> QED
    BY <2>1, <2>2, <2>3 DEF ReloadTypeOK
<1>3. Noted'
  <2>1. /\ UNCHANGED <<edits, missed, looked>>
        /\ controls \in Nat
    BY <1>1 DEF WatchOnly, diskVars, ReloadTypeOK
  <2>2. CASE Receive
    BY <2>1, <2>2 DEF Receive, Noted
  <2>3. CASE Debounce
    BY <2>1, <2>3 DEF Debounce, Noted
  <2>4. CASE SendControl
    BY <2>1, <2>4 DEF SendControl, Noted
  <2>5. CASE StopWatching
    BY <2>5 DEF StopWatching, Noted
  <2> QED
    BY <2>2, <2>3, <2>4, <2>5 DEF WatchStep
<1>4. Applied' /\ Agreed'
  BY <1>1 DEF WatchOnly, ReloadInv, Applied, Agreed, Loads, Overlays, Merge,
              diskVars, copyVars
<1>5. Unwatched'
  BY <1>1 DEF WatchStep, Receive, Debounce, SendControl, StopWatching, WatchOnly,
              ReloadInv, Unwatched
<1> QED
  BY <1>2, <1>3, <1>4, <1>5 DEF ReloadInv

(* An event that is lost counts as an edit that raised none.               *)
LEMMA LossKeeps ==
  ASSUME ReloadTypeOK, ReloadInv, LoseEvent
  PROVE  ReloadTypeOK' /\ ReloadInv'
<1>1. /\ watching /\ noticed' = FALSE /\ missed' = edits
      /\ UNCHANGED <<phase, edits, main, overlay, broken, defined, watching, armed, sending,
                     controls, looked, applying, command, autonomy, global, available, merged>>
  BY DEF LoseEvent, diskVars, copyVars
<1>2. ReloadTypeOK'
  <2>1. missed' \in 0..edits
    BY <1>1, ReloadAssumption DEF ReloadTypeOK
  <2>2. noticed' \in BOOLEAN
    BY <1>1
  <2> QED
    BY <1>1, <2>1, <2>2 DEF ReloadTypeOK
<1>3. Noted'
  BY <1>1, ReloadAssumption DEF Noted, ReloadTypeOK
<1>4. Applied' /\ Agreed'
  BY <1>1 DEF ReloadInv, Applied, Agreed, Loads, Overlays, Merge
<1>5. Unwatched'
  BY <1>1 DEF ReloadInv, Unwatched
<1> QED
  BY <1>2, <1>3, <1>4, <1>5 DEF ReloadInv

(* Reading the files, which brings the unread edits down to none.          *)
LEMMA ApplyKeeps ==
  ASSUME ReloadTypeOK, ReloadInv, Apply, applying = "no",
         UNCHANGED <<phase, diskVars, missed, watchVars>>,
         controls' \in 0..ControlSize
  PROVE  ReloadTypeOK' /\ ReloadInv'
<1>1. ReloadTypeOK'
  BY ConfigFields DEF Apply, ReloadTypeOK, diskVars, watchVars
<1>2. Noted'
  BY DEF Apply, Noted, ReloadTypeOK, diskVars
<1>3. Applied' /\ Agreed'
  BY ConfigFields DEF Apply, Applied, Agreed, ReloadInv, ReloadTypeOK, diskVars
<1>4. Unwatched'
  BY DEF ReloadInv, Unwatched, diskVars, watchVars
<1> QED
  BY <1>1, <1>2, <1>3, <1>4 DEF ReloadInv

LEMMA StartKeeps ==
  ASSUME ReloadTypeOK, ReloadInv, StartReload
  PROVE  ReloadTypeOK' /\ ReloadInv'
<1>1. CASE Apply
  BY <1>1, ApplyKeeps, ReloadAssumption DEF StartReload, HandlerFree, ReloadTypeOK
<1>2. CASE /\ ~Loads
           /\ looked' = edits /\ UNCHANGED <<applying, copyVars>>
  <2>1. ReloadTypeOK'
    BY <1>2, ReloadAssumption
    DEF StartReload, ReloadTypeOK, diskVars, watchVars, copyVars
  <2>2. Noted'
    BY <1>2 DEF StartReload, Noted, ReloadTypeOK, diskVars
  <2>3. ~Loads'
    BY <1>2 DEF StartReload, Loads, Overlays, diskVars
  <2>4. Applied'
    BY <2>3 DEF Applied
  <2>5. Agreed'
    BY <1>2 DEF ReloadInv, Agreed, copyVars
  <2>6. Unwatched'
    BY DEF StartReload, ReloadInv, Unwatched, diskVars, watchVars
  <2> QED
    BY <2>1, <2>2, <2>4, <2>5, <2>6 DEF ReloadInv
<1> QED
  BY <1>1, <1>2 DEF StartReload, Loads

LEMMA ResetKeeps ==
  ASSUME ReloadTypeOK, ReloadInv, ConfigReset
  PROVE  ReloadTypeOK' /\ ReloadInv'
BY ApplyKeeps DEF ConfigReset, HandlerFree, ReloadTypeOK

LEMMA ConnectKeeps ==
  ASSUME ReloadTypeOK, ReloadInv, ConnectServers
  PROVE  ReloadTypeOK' /\ ReloadInv'
<1>1. ReloadTypeOK'
  BY DEF ConnectServers, ReloadTypeOK, diskVars, watchVars, copyVars
<1>2. Noted' /\ Agreed'
  BY DEF ConnectServers, ReloadInv, Noted, Agreed, diskVars, watchVars, copyVars
<1>3. Applied'
  BY DEF ConnectServers, ReloadInv, Applied, Loads, Overlays, diskVars, copyVars
<1>4. Unwatched'
  BY DEF ConnectServers, ReloadInv, Unwatched, diskVars, watchVars
<1> QED
  BY <1>1, <1>2, <1>3, <1>4 DEF ReloadInv

LEMMA RegistryKeeps ==
  ASSUME ReloadTypeOK, ReloadInv, ReloadRegistry
  PROVE  ReloadTypeOK' /\ ReloadInv'
<1>1. ReloadTypeOK'
  BY DEF ReloadRegistry, ReloadTypeOK, diskVars, watchVars
<1>2. Noted' /\ Agreed'
  BY DEF ReloadRegistry, ReloadInv, Noted, Agreed, diskVars, watchVars
<1>3. Applied'
  BY DEF ReloadRegistry, ReloadInv, Applied, Loads, Overlays, diskVars
<1>4. Unwatched'
  BY DEF ReloadRegistry, ReloadInv, Unwatched, diskVars, watchVars
<1> QED
  BY <1>1, <1>2, <1>3, <1>4 DEF ReloadInv

(* Handshakes merge what the registry has and what is on file.             *)
LEMMA UseKeeps ==
  ASSUME ReloadTypeOK, ReloadInv, NEW ch \in Characters, Use(ch)
  PROVE  ReloadTypeOK' /\ ReloadInv'
<1>1. merged' = [merged EXCEPT ![ch] = {Merge(ch)}]
  BY DEF Use, EffectiveConfig
<1>2. ReloadTypeOK'
  BY <1>1, Merged DEF Use, ReloadTypeOK, diskVars, watchVars
<1>3. Noted' /\ Agreed'
  BY <1>1, Merged DEF Use, ReloadTypeOK, ReloadInv, Noted, Agreed, diskVars, watchVars
<1>4. /\ Loads' = Loads
      /\ \A n \in Characters : Merge(n)' = Merge(n)
  BY DEF Use, Loads, Overlays, Merge, diskVars
<1>5. Applied'
  BY <1>1, <1>4 DEF Use, ReloadTypeOK, ReloadInv, Applied, diskVars
<1>6. Unwatched'
  BY DEF Use, ReloadInv, Unwatched, diskVars, watchVars
<1> QED
  BY <1>2, <1>3, <1>5, <1>6 DEF ReloadInv

LEMMA SetKeeps ==
  ASSUME ReloadTypeOK, ReloadInv, NEW ch \in Characters, ConfigSet(ch)
  PROVE  ReloadTypeOK' /\ ReloadInv'
<1>1. PICK c \in EffectiveConfig(ch) :
        /\ merged' = [merged EXCEPT ![ch] = {[c EXCEPT !.set = TRUE]}]
        /\ autonomy' = [c EXCEPT !.set = TRUE]
  BY DEF ConfigSet
<1>2. c \in Config /\ c.file = global
  BY Merged DEF EffectiveConfig, ReloadTypeOK, ReloadInv, Agreed
<1> DEFINE d == [c EXCEPT !.set = TRUE]
<1>3. d \in Config /\ d.file = global /\ d.set
  BY <1>2, ConfigFields
<1> HIDE DEF d
<1>4. merged' = [merged EXCEPT ![ch] = {d}] /\ autonomy' = d
  BY <1>1 DEF d
<1>5. ReloadTypeOK'
  BY <1>3, <1>4 DEF ConfigSet, ReloadTypeOK, diskVars, watchVars
<1>6. Noted' /\ Agreed'
  BY <1>3, <1>4
  DEF ConfigSet, HandlerFree, ReloadTypeOK, ReloadInv, Noted, Agreed, diskVars, watchVars
<1>7. /\ Loads' = Loads
      /\ \A n \in Characters : Merge(n)' = Merge(n)
  BY DEF ConfigSet, Loads, Overlays, Merge, diskVars
<1>8. Applied'
  BY <1>3, <1>4, <1>7 DEF ConfigSet, HandlerFree, ReloadTypeOK, ReloadInv, Applied, diskVars
<1>9. Unwatched'
  BY DEF ConfigSet, ReloadInv, Unwatched, diskVars, watchVars
<1> QED
  BY <1>5, <1>6, <1>8, <1>9 DEF ReloadInv

LEMMA ReloadKeeps ==
  ASSUME ReloadTypeOK, ReloadInv, ReloadStep
  PROVE  ReloadTypeOK' /\ ReloadInv'
BY EditKeeps, WatchKeeps, LossKeeps, StartKeeps, RegistryKeeps, ResetKeeps, ConnectKeeps,
   UseKeeps, SetKeeps DEF ReloadStep, HandlerStep

-----------------------------------------------------------------------------
(* The supervisors.                                                        *)

(* The counter says what the history does: so many failures since the last *)
(* stable run, which, if there was one, ended with the first of them.      *)
Count(s) ==
  /\ failures[s] <= Len(recent[s])
  /\ \A i \in 1..(failures[s] - 1) : recent[s][i] = "quick"
  /\ \/ failures[s] = Len(recent[s])
     \/ failures[s] >= 1 /\ recent[s][failures[s]] = "late"

(* A task has given up exactly when the counter is at the limit.           *)
Limit(s) == pc[s] # "off" => (pc[s] = "gaveup" <=> failures[s] = MaxFailures)

(* And a child is there only while its task waits for it or ends it.       *)
Tended(s) == child[s] => pc[s] \in Waiting \cup {"unhealthy", "stopping"}

ServiceInv ==
  /\ phase = "starting" => \A s \in Services : pc[s] = "off" /\ failures[s] = 0
  /\ \A s \in Services : Count(s) /\ Limit(s) /\ Tended(s)

(* A new first element, and the old ones as far as there is room.          *)
LEMMA Pushed ==
  ASSUME NEW S, NEW x \in S, NEW r \in Seq(S), NEW m \in 1..(Len(r) + 1)
  PROVE  LET t == SubSeq(<<x>> \o r, 1, m)
         IN /\ t \in Seq(S) /\ Len(t) = m /\ t[1] = x
            /\ \A i \in 2..m : t[i] = r[i - 1]
<1> DEFINE q == <<x>> \o r
<1>1. q \in Seq(S) /\ Len(q) = Len(r) + 1
  OBVIOUS
<1>2. q[1] = x /\ \A i \in 2..Len(q) : q[i] = r[i - 1]
  OBVIOUS
<1> HIDE DEF q
<1>3. /\ SubSeq(q, 1, m) \in Seq(S) /\ Len(SubSeq(q, 1, m)) = m
      /\ \A i \in 1..m : SubSeq(q, 1, m)[i] = q[i]
  BY <1>1
<1> QED
  BY <1>1, <1>2, <1>3 DEF q

(* Counting a failure keeps counter and history in step.                   *)
LEMMA FailCounts ==
  ASSUME SupervisorTypeOK, NEW s \in Services, NEW n, NEW how, Fail(s, n, how),
         Count(s), failures[s] < MaxFailures,
         \/ n = failures[s] + 1 /\ how = "quick"
         \/ n = 1 /\ how = "late"
  PROVE  /\ failures' \in [Services -> 0..MaxFailures]
         /\ recent' \in [Services -> Seq({"quick", "late"})]
         /\ \A t \in Services : Len(recent'[t]) <= MaxFailures
         /\ pc' = [pc EXCEPT ![s] = IF n = MaxFailures THEN "gaveup" ELSE "backoff"]
         /\ \A t \in Services \ {s} :
              failures'[t] = failures[t] /\ recent'[t] = recent[t]
         /\ failures'[s] = n
         /\ Count(s)'
<1> DEFINE r == recent[s]
           m == IF Len(r) < MaxFailures THEN Len(r) + 1 ELSE Len(r)
           t == SubSeq(<<how>> \o r, 1, m)
<1>1. /\ r \in Seq({"quick", "late"}) /\ Len(r) \in 0..MaxFailures
      /\ failures[s] \in 0..MaxFailures /\ MaxFailures \in Nat \ {0}
      /\ how \in {"quick", "late"} /\ n \in 1..MaxFailures
  BY SupervisorAssumption DEF SupervisorTypeOK
<1>2. m \in 1..(Len(r) + 1) /\ m <= MaxFailures
  BY <1>1
<1>3. /\ t \in Seq({"quick", "late"}) /\ Len(t) = m /\ t[1] = how
      /\ \A i \in 2..m : t[i] = r[i - 1]
  <2>1. how \in {"quick", "late"} /\ r \in Seq({"quick", "late"}) /\ m \in 1..(Len(r) + 1)
    BY <1>1, <1>2
  <2> HIDE DEF m, r
  <2> QED
    BY <2>1, Pushed
<1>4. recent' = [recent EXCEPT ![s] = t] /\ failures' = [failures EXCEPT ![s] = n]
  BY DEF Fail, SupervisorTypeOK
<1>5. pc' = [pc EXCEPT ![s] = IF n = MaxFailures THEN "gaveup" ELSE "backoff"]
  <2>1. n >= MaxFailures <=> n = MaxFailures
    BY <1>1
  <2> QED
    BY <2>1 DEF Fail
<1>6. /\ n <= m /\ \A i \in 1..(n - 1) : t[i] = "quick"
      /\ n = m \/ t[n] = "late"
  <2>1. CASE n = 1 /\ how = "late"
    BY <1>1, <1>2, <1>3, <2>1
  <2>2. CASE n = failures[s] + 1 /\ how = "quick"
    <3>1. /\ failures[s] <= Len(r)
          /\ \A i \in 1..(failures[s] - 1) : r[i] = "quick"
          /\ failures[s] = Len(r) \/ (failures[s] >= 1 /\ r[failures[s]] = "late")
      BY DEF Count
    <3>2. n <= m
      BY <1>1, <2>2, <3>1
    <3>3. ASSUME NEW i \in 1..(n - 1) PROVE t[i] = "quick"
      <4>1. CASE i = 1
        BY <1>3, <2>2, <4>1
      <4>2. CASE i # 1
        <5>1. i \in 2..m /\ i - 1 \in 1..(failures[s] - 1)
          <6>1. n = failures[s] + 1 /\ failures[s] \in Nat /\ n <= m /\ m \in Nat
            BY <1>1, <1>2, <2>2, <3>2
          <6> HIDE DEF m, t, r
          <6> QED
            BY <4>2, <6>1
        <5>2. t[i] = r[i - 1]
          BY <1>3, <5>1
        <5> QED
          BY <3>1, <5>1, <5>2
      <4> QED
        BY <4>1, <4>2
    <3>4. n = m \/ t[n] = "late"
      <4>1. CASE failures[s] = Len(r)
        BY <1>1, <2>2, <4>1
      <4>2. CASE failures[s] >= 1 /\ r[failures[s]] = "late"
        <5>1. n \in 2..m /\ n - 1 = failures[s]
          <6>1. n = failures[s] + 1 /\ failures[s] \in Nat /\ n <= m /\ m \in Nat
            BY <1>1, <1>2, <2>2, <3>2
          <6> HIDE DEF m, t, r
          <6> QED
            BY <4>2, <6>1
        <5>2. t[n] = r[n - 1]
          BY <1>3, <5>1
        <5> QED
          BY <4>2, <5>1, <5>2
      <4> QED
        BY <3>1, <4>1, <4>2
    <3> QED
      BY <3>2, <3>3, <3>4
  <2> QED
    BY <2>1, <2>2
<1> HIDE DEF t, m
<1>7. recent'[s] = t /\ failures'[s] = n
  BY <1>4 DEF SupervisorTypeOK
<1>8. Count(s)'
  BY <1>1, <1>3, <1>6, <1>7 DEF Count
<1> QED
  BY <1>1, <1>2, <1>3, <1>4, <1>5, <1>7, <1>8 DEF SupervisorTypeOK

(* A step of one task leaves the others as they are.                       *)
LEMMA OneTask ==
  ASSUME ServiceInv, phase' = phase, NEW s \in Services,
         pc[s] # "off" \/ (pc'[s] = pc[s] /\ failures'[s] = failures[s]),
         \A t \in Services \ {s} :
           /\ pc'[t] = pc[t] /\ child'[t] = child[t]
           /\ failures'[t] = failures[t] /\ recent'[t] = recent[t],
         Count(s)', Limit(s)', Tended(s)'
  PROVE  ServiceInv'
<1>1. ASSUME NEW t \in Services PROVE Count(t)' /\ Limit(t)' /\ Tended(t)'
  <2>1. CASE t = s
    BY <2>1
  <2>2. CASE t # s
    BY <2>2 DEF ServiceInv, Count, Limit, Tended
  <2> QED
    BY <2>1, <2>2
<1>2. phase' = "starting" => \A t \in Services : pc'[t] = "off" /\ failures'[t] = 0
  BY DEF ServiceInv
<1> QED
  BY <1>1, <1>2 DEF ServiceInv

(* A step that counts no failure.                                          *)
LEMMA MoveKeeps ==
  ASSUME SupervisorTypeOK, ServiceInv, phase' = phase, NEW s \in Services,
         UNCHANGED <<signalled, failures, recent>>,
         pc[s] # "off", pc[s] # "gaveup",
         NEW v \in {"starting", "running", "stopped", "check", "setup", "unhealthy",
                    "stopping", "backoff"},
         pc' = [pc EXCEPT ![s] = v],
         NEW b \in BOOLEAN, child' = [child EXCEPT ![s] = b],
         b => v \in {"starting", "running", "unhealthy", "stopping"},
         stable' \in [Services -> BOOLEAN]
  PROVE  SupervisorTypeOK' /\ ServiceInv'
<1>1. SupervisorTypeOK'
  BY DEF SupervisorTypeOK, Waiting, Over
<1>2. pc'[s] = v /\ child'[s] = b
  BY DEF SupervisorTypeOK
<1>3. Count(s)'
  BY DEF ServiceInv, Count
<1>4. Limit(s)'
  BY <1>2 DEF ServiceInv, Limit
<1>5. Tended(s)'
  BY <1>2 DEF Tended, Waiting
<1>6. \A t \in Services \ {s} :
        /\ pc'[t] = pc[t] /\ child'[t] = child[t]
        /\ failures'[t] = failures[t] /\ recent'[t] = recent[t]
  BY DEF SupervisorTypeOK
<1>7. ServiceInv'
  BY <1>3, <1>4, <1>5, <1>6, OneTask
<1> QED
  BY <1>1, <1>7

(* A step that counts one, after which no child is there.                  *)
LEMMA FailKeeps ==
  ASSUME SupervisorTypeOK, ServiceInv, phase' = phase, NEW s \in Services,
         NEW n, NEW how, Fail(s, n, how),
         \/ n = failures[s] + 1 /\ how = "quick"
         \/ n = 1 /\ how = "late",
         pc[s] # "off", pc[s] # "gaveup",
         UNCHANGED <<signalled, stable>>, child' = [child EXCEPT ![s] = FALSE]
  PROVE  SupervisorTypeOK' /\ ServiceInv'
<1>1. Count(s) /\ failures[s] < MaxFailures
  BY SupervisorAssumption DEF ServiceInv, Limit, SupervisorTypeOK
<1>2. /\ failures' \in [Services -> 0..MaxFailures]
      /\ recent' \in [Services -> Seq({"quick", "late"})]
      /\ \A t \in Services : Len(recent'[t]) <= MaxFailures
      /\ pc' = [pc EXCEPT ![s] = IF n = MaxFailures THEN "gaveup" ELSE "backoff"]
      /\ \A t \in Services \ {s} :
           failures'[t] = failures[t] /\ recent'[t] = recent[t]
      /\ failures'[s] = n
      /\ Count(s)'
  BY <1>1, FailCounts
<1>3. SupervisorTypeOK'
  BY <1>2 DEF SupervisorTypeOK, Waiting, Over
<1>4. pc'[s] = (IF n = MaxFailures THEN "gaveup" ELSE "backoff") /\ ~child'[s]
  BY <1>2 DEF SupervisorTypeOK
<1>5. Limit(s)'
  BY <1>2, <1>4 DEF Limit
<1>6. Tended(s)'
  BY <1>4 DEF Tended
<1>7. \A t \in Services \ {s} : pc'[t] = pc[t] /\ child'[t] = child[t]
  BY <1>2 DEF SupervisorTypeOK
<1>8. ServiceInv'
  BY <1>2, <1>5, <1>6, <1>7, OneTask
<1> QED
  BY <1>3, <1>8

LEMMA TaskKeeps ==
  ASSUME SupervisorTypeOK, ServiceInv, phase' = phase, NEW s \in Services,
         TaskStep(s) \/ ChildExits(s) \/ RunsLong(s)
  PROVE  SupervisorTypeOK' /\ ServiceInv'
<1>1. /\ child = [child EXCEPT ![s] = child[s]] /\ child[s] \in BOOLEAN
      /\ pc = [pc EXCEPT ![s] = pc[s]]
      /\ stable \in [Services -> BOOLEAN]
      /\ Tended(s)
  BY DEF SupervisorTypeOK, ServiceInv
<1>2. CASE Check(s) \/ Wake(s)
  <2>1. ~child[s] /\ child' = [child EXCEPT ![s] = FALSE]
    BY <1>1, <1>2 DEF Check, Wake, Go, Tended, Waiting
  <2>2. CASE Check(s)
    BY <2>1, <2>2, <1>1, MoveKeeps DEF Check, Go
  <2>3. CASE Wake(s)
    BY <2>1, <2>3, <1>1, MoveKeeps DEF Wake, Go
  <2> QED
    BY <1>2, <2>2, <2>3
<1>3. CASE Spawn(s)
  <2>1. stable' \in [Services -> BOOLEAN]
    BY <1>1, <1>3 DEF Spawn
  <2> QED
    BY <1>3, <2>1, MoveKeeps DEF Spawn, Go
<1>4. CASE BecomesHealthy(s) \/ StaysUnhealthy(s)
  BY <1>1, <1>4, MoveKeeps DEF BecomesHealthy, StaysUnhealthy, Go
<1>5. CASE SeeSignal(s)
  <2>1. CASE pc[s] \in Waiting /\ pc' = [pc EXCEPT ![s] = "stopping"]
    BY <1>1, <1>5, <2>1, MoveKeeps DEF SeeSignal, Waiting
  <2>2. CASE Go(s, "backoff", "stopped")
    <3>1. ~child[s]
      BY <1>1, <2>2 DEF Go, Tended, Waiting
    <3> QED
      BY <1>1, <1>5, <2>2, <3>1, MoveKeeps DEF SeeSignal, Go
  <2> QED
    BY <1>5, <2>1, <2>2 DEF SeeSignal
<1>6. CASE EndStopping(s)
  BY <1>1, <1>6, MoveKeeps DEF EndStopping, Go
<1>7. CASE SpawnFails(s)
  <2>1. ~child[s] /\ child' = [child EXCEPT ![s] = FALSE]
    BY <1>1, <1>7 DEF SpawnFails, Tended, Waiting
  <2> QED
    BY <1>7, <2>1, FailKeeps DEF SpawnFails
<1>8. CASE ObserveExit(s)
  <2>1. child' = [child EXCEPT ![s] = FALSE]
    BY <1>1, <1>8 DEF ObserveExit
  <2>2. pc[s] # "off" /\ pc[s] # "gaveup" /\ UNCHANGED <<signalled, stable>>
    BY <1>8 DEF ObserveExit, Waiting
  <2>3. CASE stable[s]
    BY <1>8, <2>1, <2>2, <2>3, FailKeeps DEF ObserveExit
  <2>4. CASE ~stable[s]
    BY <1>8, <2>1, <2>2, <2>4, FailKeeps DEF ObserveExit
  <2> QED
    BY <2>3, <2>4
<1>9. CASE EndUnhealthy(s)
  BY <1>9, FailKeeps DEF EndUnhealthy
<1>10. CASE ChildExits(s)
  <2>1. pc[s] \in Waiting \cup {"unhealthy", "stopping"}
    BY <1>1, <1>10 DEF ChildExits, Tended
  <2> QED
    BY <1>1, <1>10, <2>1, MoveKeeps DEF ChildExits, Waiting
<1>11. CASE RunsLong(s)
  <2>1. stable' \in [Services -> BOOLEAN]
    BY <1>1, <1>11 DEF RunsLong
  <2> QED
    BY <1>1, <1>11, <2>1, MoveKeeps DEF RunsLong
<1> QED
  BY <1>2, <1>3, <1>4, <1>5, <1>6, <1>7, <1>8, <1>9, <1>10, <1>11 DEF TaskStep

-----------------------------------------------------------------------------
(* The daemon.                                                             *)

IInv == DaemonTypeOK /\ ReloadInv /\ ServiceInv

LEMMA InvInitially == Init => IInv
<1> SUFFICES ASSUME Init PROVE IInv
  OBVIOUS
<1>1. SupervisorTypeOK
  <2>1. recent \in [Services -> Seq({"quick", "late"})]
    BY DEF Init, SupervisorInit
  <2>2. \A s \in Services : Len(recent[s]) <= MaxFailures
    BY SupervisorAssumption DEF Init, SupervisorInit
  <2>3. signalled \in BOOLEAN
    BY Zenon DEF Init, SupervisorInit
  <2>4. failures \in [Services -> 0..MaxFailures]
    <3>1. 0 \in 0..MaxFailures
      BY SupervisorAssumption
    <3> QED
      BY <3>1 DEF Init, SupervisorInit
  <2>5. child \in [Services -> BOOLEAN] /\ stable \in [Services -> BOOLEAN]
    BY DEF Init, SupervisorInit
  <2>6. pc \in [Services -> Over]
    BY DEF Init, SupervisorInit, Over
  <2> QED
    BY <2>1, <2>2, <2>3, <2>4, <2>5, <2>6 DEF SupervisorTypeOK
<1>2. ServiceInv
  BY DEF Init, SupervisorInit, ServiceInv, Count, Limit, Tended
<1> QED
  BY <1>1, <1>2, ReloadInitially DEF Init, IInv, DaemonTypeOK

(* What main's own steps leave of the reload.                              *)
LEMMA PhaseKeeps ==
  ASSUME ReloadTypeOK, ReloadInv,
         phase' \in {"starting", "serving", "ending", "gone"},
         UNCHANGED <<diskVars, missed, noticed, armed, sending, controls, looked,
                     applying, copyVars>>,
         watching' \in BOOLEAN,
         watching' => watching \/ phase = "starting",
         phase' = "starting" => phase = "starting" /\ watching' = watching
  PROVE  ReloadTypeOK' /\ ReloadInv'
<1>1. ReloadTypeOK'
  BY DEF ReloadTypeOK, diskVars, copyVars
<1>2. Noted'
  <2>1. CASE phase = "starting"
    BY <2>1 DEF ReloadInv, Noted, Unwatched, ReloadTypeOK, diskVars
  <2>2. CASE phase # "starting"
    BY <2>2 DEF ReloadInv, Noted, diskVars
  <2> QED
    BY <2>1, <2>2
<1>3. Applied' /\ Agreed'
  BY DEF ReloadInv, Applied, Agreed, Loads, Overlays, Merge, diskVars, copyVars
<1>4. Unwatched'
  BY DEF ReloadInv, Unwatched, diskVars
<1> QED
  BY <1>1, <1>2, <1>3, <1>4 DEF ReloadInv

LEMMA ServiceUnchanged ==
  ASSUME SupervisorTypeOK, ServiceInv, UNCHANGED taskVars, signalled' \in BOOLEAN,
         phase' = "starting" => phase = "starting"
  PROVE  SupervisorTypeOK' /\ ServiceInv'
BY DEF SupervisorTypeOK, ServiceInv, Count, Limit, Tended, taskVars

LEMMA InvSteps == IInv /\ [Next]_allVars => IInv'
<1> SUFFICES ASSUME IInv, [Next]_allVars PROVE IInv'
  OBVIOUS
<1>1. ReloadTypeOK /\ ReloadInv /\ SupervisorTypeOK /\ ServiceInv
  BY DEF IInv, DaemonTypeOK
<1>2. CASE Serve
  <2>1. ReloadTypeOK' /\ ReloadInv'
    <3>1. watching' \in BOOLEAN
      BY <1>2, Zenon DEF Serve
    <3> QED
      BY <1>1, <1>2, <3>1, PhaseKeeps DEF Serve
  <2>2. \A s \in Services : pc[s] = "off" /\ failures[s] = 0
    BY <1>1, <1>2 DEF Serve, ServiceInv
  <2>3. SupervisorTypeOK'
    BY <1>1, <1>2 DEF Serve, SupervisorTypeOK, Over
  <2>4. ASSUME NEW s \in Services PROVE Count(s)' /\ Limit(s)' /\ Tended(s)'
    <3>1. pc'[s] \in {"off", "check"} /\ failures'[s] = 0 /\ ~child'[s]
      BY <1>1, <1>2, <2>2 DEF Serve, ServiceInv, Tended, Waiting
    <3>2. Count(s)'
      BY <1>1, <1>2 DEF Serve, ServiceInv, Count
    <3> QED
      BY <3>1, <3>2, SupervisorAssumption DEF Limit, Tended
  <2>5. ServiceInv'
    BY <1>2, <2>4 DEF Serve, ServiceInv
  <2> QED
    BY <2>1, <2>3, <2>5 DEF IInv, DaemonTypeOK
<1>3. CASE Signal
  <2>1. ReloadTypeOK' /\ ReloadInv'
    <3>1. UNCHANGED <<phase, reloadVars>> /\ watching' \in BOOLEAN
      BY <1>1, <1>3 DEF Signal, reloadVars, watchVars, ReloadTypeOK
    <3> QED
      BY <1>1, <3>1, PhaseKeeps DEF reloadVars, watchVars, ReloadTypeOK
  <2>2. SupervisorTypeOK' /\ ServiceInv'
    BY <1>1, <1>3, ServiceUnchanged DEF Signal
  <2> QED
    BY <2>1, <2>2 DEF IInv, DaemonTypeOK
<1>4. CASE WatcherStops
  <2>1. ReloadTypeOK' /\ ReloadInv' /\ phase' = phase
    BY <1>1, <1>4, WatchKeeps DEF WatcherStops, StopWatching, WatchOnly
  <2>2. SupervisorTypeOK' /\ ServiceInv'
    BY <1>1, <1>4, <2>1, ServiceUnchanged
    DEF WatcherStops, serviceVars, SupervisorTypeOK
  <2> QED
    BY <2>1, <2>2 DEF IInv, DaemonTypeOK
<1>5. CASE ServerStops
  <2>1. ReloadTypeOK' /\ ReloadInv'
    <3>1. UNCHANGED reloadVars /\ phase' = "ending" /\ watching' \in BOOLEAN
      BY <1>1, <1>5 DEF ServerStops, reloadVars, watchVars, ReloadTypeOK
    <3> QED
      BY <1>1, <3>1, PhaseKeeps DEF reloadVars, watchVars
  <2>2. SupervisorTypeOK' /\ ServiceInv'
    BY <1>1, <1>5, ServiceUnchanged DEF ServerStops, serviceVars, SupervisorTypeOK
  <2> QED
    BY <2>1, <2>2 DEF IInv, DaemonTypeOK
<1>6. CASE Gone
  <2>1. ReloadTypeOK' /\ ReloadInv'
    <3>1. watching' \in BOOLEAN /\ ~watching'
      BY <1>6, Zenon DEF Gone
    <3> QED
      BY <1>1, <1>6, <3>1, PhaseKeeps DEF Gone
  <2>2. SupervisorTypeOK'
    BY <1>1, <1>6 DEF Gone, SupervisorTypeOK, Over
  <2>3. ASSUME NEW s \in Services PROVE Count(s)' /\ Limit(s)' /\ Tended(s)'
    <3>1. pc'[s] = "off" /\ ~child'[s]
      BY <1>6 DEF Gone
    <3>2. Count(s)'
      BY <1>1, <1>6 DEF Gone, ServiceInv, Count
    <3> QED
      BY <3>1, <3>2 DEF Limit, Tended
  <2>4. ServiceInv'
    BY <1>6, <2>3 DEF Gone, ServiceInv
  <2> QED
    BY <2>1, <2>2, <2>4 DEF IInv, DaemonTypeOK
<1>7. CASE ReloadStep /\ UNCHANGED serviceVars
  <2>1. ReloadTypeOK' /\ ReloadInv'
    BY <1>1, <1>7, ReloadKeeps
  <2>2. phase' = phase
    BY <1>7
    DEF ReloadStep, Edit, EditMain, EditOverlay, MoveCharacter, WriteSoul, Edited,
        WatchStep, Receive, Debounce, SendControl, WatchOnly, LoseEvent, HandlerStep,
        StartReload, ReloadRegistry, ConfigReset, ConnectServers, Use, ConfigSet
  <2>3. SupervisorTypeOK' /\ ServiceInv'
    BY <1>1, <1>7, <2>2, ServiceUnchanged DEF serviceVars, SupervisorTypeOK
  <2> QED
    BY <2>1, <2>3 DEF IInv, DaemonTypeOK
<1>8. CASE SupervisorStep /\ UNCHANGED <<phase, reloadVars>>
  <2>1. ReloadTypeOK' /\ ReloadInv'
    BY <1>1, <1>8, PhaseKeeps DEF reloadVars, watchVars, ReloadTypeOK
  <2>2. SupervisorTypeOK' /\ ServiceInv'
    BY <1>1, <1>8, TaskKeeps DEF SupervisorStep
  <2> QED
    BY <2>1, <2>2 DEF IInv, DaemonTypeOK
<1>9. CASE UNCHANGED allVars
  <2>1. ReloadTypeOK' /\ ReloadInv'
    BY <1>1, <1>9, PhaseKeeps DEF allVars, reloadVars, watchVars, ReloadTypeOK
  <2>2. SupervisorTypeOK' /\ ServiceInv'
    BY <1>1, <1>9, ServiceUnchanged DEF allVars, SupervisorTypeOK
  <2> QED
    BY <2>1, <2>2 DEF IInv, DaemonTypeOK
<1> QED
  BY <1>2, <1>3, <1>4, <1>5, <1>6, <1>7, <1>8, <1>9 DEF Next

LEMMA Inductive == Spec => []IInv
<1> QED
  BY InvInitially, InvSteps, PTL DEF Spec

(* Every variable keeps its type; no more reloads wait than the channel    *)
(* holds (main.rs).                                                        *)
THEOREM TypesHold == Spec => []DaemonTypeOK
<1>1. IInv => DaemonTypeOK
  BY DEF IInv
<1> QED
  BY <1>1, Inductive, PTL

(* Between reloads the copies of the configuration come from one load      *)
(* (apply_reloaded_config).                                                *)
THEOREM CopiesStayInStep == Spec => []CopiesAgree
<1>1. IInv => CopiesAgree
  BY DEF IInv, ReloadInv, Agreed, CopiesAgree
<1> QED
  BY <1>1, Inductive, PTL

(* A daemon with no reload on its way runs with what the files say, when   *)
(* they are valid (spawn_config_watcher, reload_config_from_disk).         *)
THEOREM SettledStaysCurrent == Spec => []SettledIsCurrent
<1>1. ASSUME IInv, Settled, Loads, missed <= looked PROVE Current
  <2>1. looked = edits
    BY <1>1 DEF IInv, DaemonTypeOK, ReloadTypeOK, ReloadInv, Noted, Settled
  <2> QED
    BY <1>1, <2>1 DEF IInv, ReloadInv, Applied, Settled, Current
<1>2. IInv => SettledIsCurrent
  BY <1>1 DEF SettledIsCurrent
<1> QED
  BY <1>2, Inductive, PTL

(* No child process outlives the attempt or the daemon it belongs to       *)
(* (graceful_shutdown, kill_on_drop).                                      *)
THEOREM NoChildIsLeftBehind == Spec => []NoChildLeftBehind
<1>1. IInv => NoChildLeftBehind
  BY DEF IInv, ServiceInv, Tended, NoChildLeftBehind
<1> QED
  BY <1>1, Inductive, PTL

(* A supervisor gives up on MaxFailures failures in a row and on no fewer  *)
(* (record_child_exit).                                                    *)
THEOREM GivesUpOnlyInARow == Spec => []GivesUpInARow
<1>1. ASSUME IInv, NEW s \in Services,
             pc[s] \in {"gaveup", "backoff", "check", "setup"}
      PROVE  pc[s] = "gaveup" <=> InARow(s)
  <2>1. Count(s) /\ Limit(s) /\ pc[s] # "off"
    BY <1>1 DEF IInv, ServiceInv
  <2>2. /\ failures[s] \in 0..MaxFailures /\ Len(recent[s]) \in 0..MaxFailures
        /\ MaxFailures \in Nat \ {0}
    BY <1>1, SupervisorAssumption DEF IInv, DaemonTypeOK, SupervisorTypeOK
  <2>3. CASE failures[s] = MaxFailures
    BY <2>1, <2>2, <2>3 DEF Count, Limit, InARow
  <2>4. CASE failures[s] # MaxFailures
    <3>1. pc[s] # "gaveup"
      BY <2>1, <2>4 DEF Limit
    <3>2. CASE failures[s] = Len(recent[s])
      BY <2>2, <2>4, <3>1, <3>2 DEF InARow
    <3>3. CASE failures[s] >= 1 /\ recent[s][failures[s]] = "late"
      <4>1. failures[s] \in 1..(MaxFailures - 1)
        BY <2>2, <2>4, <3>3
      <4> QED
        BY <3>1, <3>3, <4>1 DEF InARow
    <3> QED
      BY <2>1, <3>2, <3>3 DEF Count
  <2> QED
    BY <2>3, <2>4
<1>2. IInv => GivesUpInARow
  BY <1>1 DEF GivesUpInARow
<1> QED
  BY <1>2, Inductive, PTL
=============================================================================
