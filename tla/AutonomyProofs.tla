--------------------------- MODULE AutonomyProofs ---------------------------
(***************************************************************************)
(* Proofs about Autonomy, for any models, cadences and clock settings.     *)
(***************************************************************************)
EXTENDS Autonomy, TLAPS

-----------------------------------------------------------------------------
(* Types                                                                   *)

LEMMA IntervalType == \A m \in AnyModel : Interval(m) \in Int
  BY CadenceAssumption DEF Interval, AnyModel, None

LEMMA AfterType == \A t, d \in Int : After(t, d) \in Int
  BY DEF After, None

LEMMA WarmedType ==
  ASSUME TypeOK, NEW m \in AnyModel, Warmed(m)
  PROVE  /\ target' = target /\ nextPing' \in Int
         /\ lastActive' \in Int /\ failures' \in Nat
<1>1. CASE target \notin {NoModel, m}
  BY <1>1 DEF Warmed, pingVars, TypeOK
<1>2. CASE target \in {NoModel, m}
  <2>1. target \in AnyModel /\ now \in Int
    BY DEF TypeOK
  <2>2. Interval(target) \in Int
    BY <2>1, IntervalType
  <2>3. /\ lastActive' = now /\ failures' = 0 /\ target' = target
        /\ nextPing' = After(now, Interval(target))
    BY <1>2 DEF Warmed
  <2>4. After(now, Interval(target)) \in Int
    BY <2>1, <2>2, AfterType
  <2> QED
    BY <2>1, <2>3, <2>4
<1> QED
  BY <1>1, <1>2

LEMMA CacheType ==
  ASSUME TypeOK, NEW m \in Models, Cache(m)
  PROVE  /\ request' = m /\ target' = m /\ nextPing' \in Int
         /\ lastActive' \in Int /\ failures' \in Nat
<1>1. Interval(m) \in Int
  BY IntervalType DEF AnyModel
<1>2. nextPing' \in {None, nextPing, After(lastActive, Interval(m))}
  BY DEF Cache
<1> QED
  BY <1>1, <1>2, AfterType DEF Cache, TypeOK, None

LEMMA PrepareType ==
  ASSUME TypeOK, NEW m \in Models, NEW p, Prepare(m, p)
  PROVE  /\ request' \in {target', NoModel} /\ target' \in AnyModel
         /\ nextPing' \in Int /\ lastActive' \in Int /\ failures' \in Nat
<1>1. CASE request # NoModel
  BY <1>1 DEF Prepare, TypeOK, pingVars
<1>2. CASE request = NoModel
  BY <1>2, CacheType DEF Prepare, AnyModel
<1> QED
  BY <1>1, <1>2

LEMMA SaveType ==
  ASSUME TypeOK, NEW t \in Nat, NEW w \in Int, NEW u \in Int, NEW d, Save(t, w, u, d)
  PROVE  dirty' \in BOOLEAN /\ saved' \in Persisted /\ known' \in [msg : Int, forced : BOOLEAN]
<1>1. [ticks |-> t, wake |-> w, lastUser |-> u] \in Persisted
  BY DEF Persisted
<1>2. [msg |-> lastMsg, forced |-> forced] \in [msg : Int, forced : BOOLEAN]
  BY DEF TypeOK
<1> QED
  BY <1>1, <1>2 DEF Save, TypeOK

LEMMA TypeInit == Init => TypeOK
<1> SUFFICES ASSUME Init PROVE TypeOK
  OBVIOUS
<1>1. saved \in Persisted /\ known \in [msg : Int, forced : BOOLEAN]
  BY DEF Init, Persisted, None
<1>2. paused \in BOOLEAN /\ dirty \in BOOLEAN /\ due \in BOOLEAN /\ forced \in BOOLEAN
  BY Zenon DEF Init
<1> QED
  BY <1>1, <1>2, ClocksAssumption DEF Init, TypeOK, AnyModel, None

LEMMA TypeNext == TypeOK /\ [Next]_vars => TypeOK'
<1> SUFFICES ASSUME TypeOK, [Next]_vars PROVE TypeOK'
  OBVIOUS
<1> USE ClocksAssumption DEF Event, Fault, NoEvent
<1>0. CASE UNCHANGED vars
  BY <1>0 DEF TypeOK, vars, clockVars, pingVars, saveVars, tickVars, historyVars
<1>1. CASE Advance
  BY <1>1 DEF TypeOK, Advance, clockVars, pingVars, saveVars, tickVars, historyVars
<1>2. CASE UserMessage
  <2>1. /\ target' = target /\ nextPing' \in Int /\ lastActive' \in Int /\ failures' \in Nat
    <3>1. request \in AnyModel
      BY DEF TypeOK, AnyModel
    <3> QED
      BY <1>2, <3>1, WarmedType DEF UserMessage
  <2>2. wake' \in Int /\ now' \in 0..Horizon /\ lastUser' \in Int /\ ticks' \in Nat
    BY <1>2 DEF UserMessage, TypeOK
  <2>3. dirty' \in BOOLEAN /\ forced' \in BOOLEAN
    BY <1>2, Zenon DEF UserMessage
  <2> QED
    BY <1>2, <2>1, <2>2, <2>3 DEF TypeOK, UserMessage, tickVars, AnyModel
<1>3. CASE Regenerate \/ SwitchModel \/ ReplyFails
  BY <1>3 DEF TypeOK, Regenerate, SwitchModel, ReplyFails, clockVars, pingVars, saveVars,
              tickVars, historyVars, AnyModel
<1>4. CASE Reply
  <2>1. replying \in Models
    BY <1>4 DEF TypeOK, Reply, AnyModel
  <2>2. Cache(replying)
    BY <1>4 DEF Reply
  <2>3. /\ request' = replying /\ target' = replying /\ nextPing' \in Int
        /\ lastActive' \in Int /\ failures' \in Nat
    BY <2>1, <2>2, CacheType
  <2> QED
    BY <1>4, <2>1, <2>3 DEF TypeOK, Reply, clockVars, tickVars, historyVars, AnyModel
<1>5. CASE Compacted \/ SetPaused
  <2>1. paused' \in BOOLEAN /\ dirty' \in BOOLEAN
    BY <1>5, Zenon DEF Compacted, SetPaused, TypeOK
  <2> QED
    BY <1>5, <2>1 DEF TypeOK, Compacted, SetPaused, clockVars, pingVars, tickVars, historyVars
<1>6. CASE ForceWake \/ ForceDormant \/ ForceActive
  <2>1. dirty' \in BOOLEAN /\ forced' \in BOOLEAN
    BY <1>6, Zenon DEF ForceWake, ForceDormant, ForceActive, historyVars, TypeOK
  <2> QED
    BY <1>6, <2>1 DEF TypeOK, ForceWake, ForceDormant, ForceActive, pingVars, tickVars,
                      historyVars, None
<1>7. CASE Restart \/ Crash
  <2>1. PICK s \in Persisted : saved' = s /\ Restored(s)
    <3>1. [ticks |-> ticks, wake |-> wake, lastUser |-> lastUser] \in Persisted
      BY DEF TypeOK, Persisted
    <3> QED
      BY <1>7, <3>1 DEF Restart, Crash, TypeOK
  <2>2. /\ known' \in [msg : Int, forced : BOOLEAN] /\ lastMsg' \in Int /\ forced' \in BOOLEAN
        /\ events' \in 0..MaxEvents /\ faults' \in 0..MaxFaults
    BY <1>7 DEF Restart, Crash, TypeOK
  <2>3. s.ticks \in Nat /\ s.wake \in Int /\ s.lastUser \in Int
    BY DEF Persisted
  <2>4. dirty' \in BOOLEAN /\ paused' \in BOOLEAN /\ due' \in BOOLEAN
    BY <2>1, Zenon DEF Restored
  <2> QED
    BY <2>1, <2>2, <2>3, <2>4 DEF TypeOK, Restored, AnyModel, None
<1>8. CASE Collect
  <2>1. wake' \in Int /\ ticks' \in Nat /\ anchor' \in Int /\ lastUser' \in Int
    BY <1>8 DEF Collect, ClockTick, clockVars, TypeOK, None
  <2>2. dirty' \in BOOLEAN /\ saved' \in Persisted /\ known' \in [msg : Int, forced : BOOLEAN]
    BY <1>8, <2>1, SaveType DEF Collect
  <2>3. /\ nextPing' \in Int /\ due' \in BOOLEAN /\ beats' \in Nat
        /\ phase' \in {"beat", "ping", "save"}
    BY <1>8 DEF Collect, TypeOK, None
  <2> QED
    BY <1>8, <2>1, <2>2, <2>3 DEF Collect, TypeOK
<1>9. CASE StartBeat \/ StartPing
  <2>1. /\ request' \in {target', NoModel} /\ target' \in AnyModel
        /\ nextPing' \in Int /\ lastActive' \in Int /\ failures' \in Nat
    BY <1>9, PrepareType DEF StartBeat, StartPing
  <2>2. phase' \in {"thinking", "pinging"} /\ running' \in AnyModel
    BY <1>9, PinnedAssumption DEF StartBeat, StartPing, Prepare, AnyModel
  <2> QED
    BY <1>9, <2>1, <2>2 DEF StartBeat, StartPing, TypeOK, clockVars, saveVars, historyVars
<1>10. CASE SetNextWake
  BY <1>10 DEF TypeOK, SetNextWake, pingVars, tickVars, historyVars
<1>11. CASE EndBeat
  <2>1. /\ target' = target /\ nextPing' \in Int /\ lastActive' \in Int /\ failures' \in Nat
    BY <1>11, WarmedType DEF EndBeat, TypeOK
  <2> QED
    BY <1>11, <2>1 DEF TypeOK, EndBeat, clockVars, saveVars
<1>12. CASE BeatFails
  BY <1>12 DEF TypeOK, BeatFails, clockVars, pingVars, saveVars, historyVars
<1>13. CASE AskAgain
  BY <1>13 DEF TypeOK, AskAgain, Decide, clockVars, saveVars, historyVars, AnyModel, None
<1>14. CASE PingSucceeds \/ PingFails
  <2>1. nextPing' \in Int
    <3>1. now \in Int /\ Interval(target) \in Int
      BY IntervalType DEF TypeOK
    <3>2. After(now, Interval(target)) \in Int
      BY <3>1, AfterType
    <3>3. now + RetryDelay \in Int
      BY <3>1
    <3> QED
      BY <1>14, <3>2, <3>3 DEF PingSucceeds, PingFails
  <2>2. dirty' \in BOOLEAN
    BY <1>14, Zenon DEF PingSucceeds, PingFails
  <2> QED
    BY <1>14, <2>1, <2>2 DEF TypeOK, PingSucceeds, PingFails, clockVars, historyVars, AnyModel
<1>15. CASE EndTick
  <2>1. dirty' \in BOOLEAN /\ saved' \in Persisted /\ known' \in [msg : Int, forced : BOOLEAN]
    BY <1>15, SaveType DEF EndTick, TypeOK
  <2> QED
    BY <1>15, <2>1 DEF TypeOK, EndTick, clockVars, pingVars
<1> QED
  BY <1>0, <1>1, <1>2, <1>3, <1>4, <1>5, <1>6, <1>7, <1>8, <1>9, <1>10, <1>11, <1>12,
     <1>13, <1>14, <1>15 DEF Next

(* TypeOK: the types, and the cached request is for the model whose cache  *)
(* is kept warm, whoever cached it.                                        *)
THEOREM TypesHold == Spec => []TypeOK
  BY TypeInit, TypeNext, PTL DEF Spec

-----------------------------------------------------------------------------
(* Heartbeats                                                              *)

(* The clock and its saved copy both count every heartbeat since the user  *)
(* was last there: the copy too, because a tick saves before it runs one.  *)
Counted ==
  /\ ticks \in Nat /\ beats \in Nat /\ saved.ticks \in Nat
  /\ beats <= MaxTicks /\ beats <= ticks /\ beats <= saved.ticks

LEMMA CountedInit == Init => Counted
  BY ClocksAssumption DEF Init, Counted

(* A tick counts the heartbeat that it starts in the clock and in the file *)
(* at once, and starts one only below the limit.                           *)
LEMMA CountedCollect == Counted /\ Collect => Counted'
<1> SUFFICES ASSUME Counted, Collect PROVE Counted'
  OBVIOUS
<1> USE ClocksAssumption DEF Counted
<1>1. CASE ~paused /\ Fires
  <2>1. ticks < MaxTicks
    BY <1>1 DEF Fires, Abandoned
  <2>2. ticks' = ticks + 1 /\ beats' = beats + 1
    BY <1>1 DEF Collect, ClockTick
  <2>3. saved'.ticks = ticks'
    BY <1>1 DEF Collect, Save
  <2> QED
    BY <2>1, <2>2, <2>3
<1>2. CASE ~(~paused /\ Fires)
  <2>1. ticks' = ticks /\ beats' = beats
    BY <1>2 DEF Collect, ClockTick, clockVars
  <2>2. saved'.ticks \in {ticks', saved.ticks}
    BY <1>2 DEF Collect, Save
  <2> QED
    BY <2>1, <2>2
<1> QED
  BY <1>1, <1>2

(* A crash takes the clock back to the saved copy.                         *)
LEMMA CountedRestart == Counted /\ (Restart \/ Crash) => Counted'
  BY DEF Counted, Restart, Crash, Restored

LEMMA CountedNext == Counted /\ [Next]_vars => Counted'
<1> SUFFICES ASSUME Counted, [Next]_vars PROVE Counted'
  OBVIOUS
<1>1. CASE UNCHANGED vars
  BY <1>1 DEF Counted, vars, clockVars, saveVars, historyVars
<1>2. CASE UserMessage \/ ForceActive
  BY <1>2, ClocksAssumption DEF Counted, UserMessage, ForceActive
<1>3. CASE ForceDormant
  BY <1>3, ClocksAssumption DEF Counted, ForceDormant, historyVars
<1>4. CASE Advance \/ Regenerate \/ ReplyFails \/ SwitchModel
  BY <1>4 DEF Counted, Advance, Regenerate, ReplyFails, SwitchModel, clockVars, saveVars,
              historyVars
<1>5. CASE Reply \/ Compacted \/ SetPaused \/ ForceWake \/ SetNextWake
  BY <1>5 DEF Counted, Reply, Compacted, SetPaused, ForceWake, SetNextWake, clockVars,
              historyVars
<1>6. CASE StartBeat \/ BeatFails \/ AskAgain \/ StartPing \/ EndBeat
  BY <1>6 DEF Counted, StartBeat, BeatFails, AskAgain, StartPing, EndBeat, clockVars,
              saveVars, historyVars
<1>7. CASE PingSucceeds \/ PingFails
  BY <1>7 DEF Counted, PingSucceeds, PingFails, clockVars, historyVars
<1>8. CASE EndTick
  BY <1>8 DEF Counted, EndTick, Save, clockVars
<1> QED
  BY <1>1, <1>2, <1>3, <1>4, <1>5, <1>6, <1>7, <1>8, CountedCollect, CountedRestart
     DEF Next

(* BeatsBounded: at most dormant_after_heartbeat_turns heartbeats before   *)
(* somebody answers, whatever crashes, commands and messages come between. *)
THEOREM BeatsStayBounded == Spec => []BeatsBounded
<1>1. Counted => BeatsBounded
  BY DEF Counted, BeatsBounded
<1> QED
  BY CountedInit, CountedNext, <1>1, PTL DEF Spec

-----------------------------------------------------------------------------
(* Cache-keepalive pings                                                   *)

(* A deadline is armed only after a real call, the last one counted is not *)
(* newer than the last real one, and a tick that has decided to ping is    *)
(* inside the window until it does, as no time passes before.              *)
Windowed ==
  /\ now \in Nat /\ lastActive \in Nat \cup {None} /\ lastReal \in Nat \cup {None}
  /\ nextPing # None => lastActive # None
  /\ lastActive # None => lastReal # None /\ lastActive <= lastReal
  /\ lastReal # None => lastReal <= now
  /\ phase \in {"ping", "pinging"} => lastActive # None
  /\ phase = "ping" => now < lastReal + MaxIdle

LEMMA WindowedInit == Init => Windowed
  BY DEF Init, Windowed, None

(* A call that warms the cache is a real call.                             *)
LEMMA WarmedWindow ==
  ASSUME Windowed, NEW m, Warmed(m), now' = now, phase' = phase \/ phase' = "asked",
         lastReal' = now \/ (target \notin {NoModel, m} /\ lastReal' = lastReal)
  PROVE  Windowed'
<1>1. CASE target \notin {NoModel, m}
  <2>1. UNCHANGED <<nextPing, lastActive>>
    BY <1>1 DEF Warmed, pingVars
  <2> QED
    BY <1>1, <2>1, ClocksAssumption DEF Windowed, None
<1>2. CASE target \in {NoModel, m}
  <2>1. lastActive' = now /\ lastReal' = now
    BY <1>2 DEF Warmed
  <2> QED
    BY <2>1, ClocksAssumption DEF Windowed, None
<1> QED
  BY <1>1, <1>2

(* Caching a request arms a deadline only from the last real call.         *)
LEMMA CacheWindow ==
  ASSUME Windowed, NEW m, Cache(m)
  PROVE  lastActive' = lastActive /\ (nextPing' # None => lastActive # None)
<1>1. lastActive = None => After(lastActive, Interval(m)) = None
  BY DEF After
<1> QED
  BY <1>1 DEF Windowed, Cache

(* What a tick decides after it asked the keepalive.                       *)
LEMMA DecisionWindow ==
  ASSUME Windowed, phase' \in {"beat", "ping", "save"},
         phase' = "ping" => PingDue /\ ~PingStops,
         nextPing' \in {nextPing, None}, UNCHANGED <<now, lastActive, lastReal>>
  PROVE  Windowed'
<1>1. phase' = "ping" => lastActive # None /\ now < lastActive + MaxIdle
  BY ClocksAssumption DEF Windowed, PingDue, PingStops, None
<1> QED
  BY <1>1, ClocksAssumption DEF Windowed, None

LEMMA WindowedNext == Windowed /\ [Next]_vars => Windowed'
<1> SUFFICES ASSUME Windowed, [Next]_vars PROVE Windowed'
  OBVIOUS
<1>1. CASE UNCHANGED vars
  BY <1>1 DEF Windowed, vars, pingVars, tickVars, historyVars
<1>2. CASE Advance
  BY <1>2 DEF Windowed, Advance, pingVars, tickVars, historyVars, None
<1>3. CASE UserMessage
  <2>1. Warmed(request) /\ now' = now /\ phase' = phase /\ lastReal' = now
    BY <1>3 DEF UserMessage, tickVars
  <2> QED
    BY <2>1, WarmedWindow
<1>4. CASE EndBeat
  <2>1. Warmed(running) /\ now' = now /\ phase' = "asked"
    BY <1>4 DEF EndBeat
  <2>2. lastReal' = now \/ (target \notin {NoModel, running} /\ lastReal' = lastReal)
    BY <1>4 DEF EndBeat
  <2> QED
    BY <2>1, <2>2, WarmedWindow
<1>5. CASE Reply
  <2>1. Cache(replying)
    BY <1>5 DEF Reply
  <2> QED
    BY <1>5, <2>1, CacheWindow DEF Reply, Windowed, tickVars, historyVars
<1>6. CASE StartBeat \/ StartPing
  <2>1. /\ lastActive' = lastActive /\ (nextPing' # None => lastActive # None)
        /\ phase' \in {"thinking", "pinging"} /\ (phase' = "pinging" => phase = "ping")
    <3>1. PICK m \in Models :
            \/ phase = "beat" /\ Prepare(m, "thinking")
            \/ phase = "ping" /\ Prepare(m, "pinging")
      BY <1>6 DEF StartBeat, StartPing
    <3>2. CASE request # NoModel
      BY <3>1, <3>2 DEF Prepare, pingVars, Windowed
    <3>3. CASE request = NoModel
      BY <3>1, <3>3, CacheWindow DEF Prepare
    <3> QED
      BY <3>1, <3>2, <3>3 DEF Prepare
  <2> QED
    BY <1>6, <2>1 DEF StartBeat, StartPing, Windowed, historyVars
<1>7. CASE Collect
  <2>1. /\ phase' \in {"beat", "ping", "save"} /\ nextPing' \in {nextPing, None}
        /\ (phase' = "ping" => PingDue /\ ~PingStops)
        /\ UNCHANGED <<now, lastActive, lastReal>>
    BY <1>7 DEF Collect
  <2> QED
    BY <2>1, DecisionWindow
<1>8. CASE AskAgain
  <2>1. /\ phase' \in {"beat", "ping", "save"} /\ nextPing' \in {nextPing, None}
        /\ (phase' = "ping" => PingDue /\ ~PingStops)
        /\ UNCHANGED <<now, lastActive, lastReal>>
    BY <1>8 DEF AskAgain, Decide, historyVars
  <2> QED
    BY <2>1, DecisionWindow
<1>9. CASE PingSucceeds \/ PingFails
  BY <1>9 DEF PingSucceeds, PingFails, Windowed, historyVars
<1>10. CASE Restart \/ Crash
  BY <1>10 DEF Restart, Crash, Restored, Windowed
<1>11. CASE Regenerate \/ ReplyFails \/ SwitchModel \/ Compacted \/ SetPaused
  BY <1>11 DEF Regenerate, ReplyFails, SwitchModel, Compacted, SetPaused, Windowed,
               pingVars, tickVars, historyVars
<1>12. CASE ForceWake \/ ForceDormant \/ ForceActive \/ SetNextWake
  BY <1>12 DEF ForceWake, ForceDormant, ForceActive, SetNextWake, Windowed,
               pingVars, tickVars, historyVars
<1>13. CASE BeatFails \/ EndTick
  BY <1>13 DEF BeatFails, EndTick, Windowed, pingVars, historyVars
<1> QED
  BY <1>1, <1>2, <1>3, <1>4, <1>5, <1>6, <1>7, <1>8, <1>9, <1>10, <1>11, <1>12, <1>13
     DEF Next

(* PingsStop: a ping begins only inside the window after the last real     *)
(* call or message, however many pings were sent or failed since.          *)
THEOREM PingsAlwaysStop == Spec => PingsStop
<1>1. Windowed /\ [Next]_vars =>
        [phase' = "pinging" /\ phase = "ping" => lastReal # None /\ now < lastReal + MaxIdle]_vars
  BY DEF Windowed
<1> QED
  BY WindowedInit, WindowedNext, <1>1, PTL DEF Spec, PingsStop

(* An armed deadline is an interval after the last call that warmed the    *)
(* cache, unless a ping has failed.                                        *)
Armed ==
  nextPing # None => failures > 0 \/ nextPing >= After(lastActive, Interval(target))

LEMMA ArmedNext == Armed /\ Windowed /\ TypeOK /\ [Next]_vars => Armed'
<1> SUFFICES ASSUME Armed, Windowed, TypeOK, [Next]_vars PROVE Armed'
  OBVIOUS
<1> USE ClocksAssumption
<1>w. ASSUME NEW m \in AnyModel, Warmed(m) PROVE Armed'
  <2>1. CASE target \notin {NoModel, m}
    BY <1>w, <2>1 DEF Warmed, pingVars, Armed
  <2>2. CASE target \in {NoModel, m}
    <3>1. nextPing' = After(now, Interval(target)) /\ lastActive' = now /\ target' = target
      BY <1>w, <2>2 DEF Warmed
    <3>2. After(now, Interval(target)) \in Int
      BY IntervalType, AfterType DEF TypeOK
    <3> QED
      BY <3>1, <3>2 DEF Armed
  <2> QED
    BY <2>1, <2>2
<1>c. ASSUME NEW m \in Models, Cache(m) PROVE Armed'
  <2>1. After(lastActive, Interval(m)) \in Int /\ lastActive' = lastActive
        /\ failures' = failures /\ target' = m
    BY <1>c, IntervalType, AfterType DEF TypeOK, AnyModel, Cache
  <2>2. CASE Interval(m) = None
    BY <1>c, <2>2 DEF Cache, Armed
  <2>3. CASE Interval(m) # None /\ (nextPing = None \/ Interval(m) # Interval(target))
    BY <1>c, <2>1, <2>3 DEF Cache, Armed
  <2>4. CASE nextPing # None /\ Interval(m) = Interval(target) /\ Interval(m) # None
    BY <1>c, <2>1, <2>4 DEF Cache, Armed
  <2> QED
    BY <2>2, <2>3, <2>4
<1>1. CASE \/ UNCHANGED vars \/ Advance \/ Regenerate \/ ReplyFails \/ SwitchModel
           \/ Compacted \/ SetPaused \/ SetNextWake \/ BeatFails \/ EndTick
  BY <1>1 DEF Armed, vars, Advance, Regenerate, ReplyFails, SwitchModel, Compacted, SetPaused,
              SetNextWake, BeatFails, EndTick, pingVars
<1>2. CASE ForceWake \/ ForceDormant \/ ForceActive
  BY <1>2 DEF Armed, ForceWake, ForceDormant, ForceActive, pingVars
<1>3. CASE UserMessage
  BY <1>3, <1>w DEF UserMessage, TypeOK, AnyModel
<1>4. CASE EndBeat
  BY <1>4, <1>w DEF EndBeat, TypeOK
<1>5. CASE Reply
  BY <1>5, <1>c DEF Reply, TypeOK, AnyModel
<1>6. CASE StartBeat \/ StartPing
  <2>1. PICK m \in Models : \E p \in {"thinking", "pinging"} : Prepare(m, p)
    BY <1>6 DEF StartBeat, StartPing
  <2>2. CASE request # NoModel
    BY <2>1, <2>2 DEF Prepare, pingVars, Armed
  <2>3. CASE request = NoModel
    BY <2>1, <2>3, <1>c DEF Prepare
  <2> QED
    BY <2>2, <2>3
<1>7. CASE Collect
  BY <1>7 DEF Collect, Armed
<1>8. CASE AskAgain
  BY <1>8 DEF AskAgain, Decide, Armed
<1>9. CASE PingSucceeds
  <2>1. /\ nextPing' = After(now, Interval(target))
        /\ lastActive' = lastActive /\ target' = target
    BY <1>9 DEF PingSucceeds
  <2>2. lastActive <= now
    BY DEF Windowed, TypeOK, None
  <2>3. /\ now \in Nat /\ lastActive \in Nat \cup {None}
        /\ Interval(target) \in Nat \cup {None}
    BY CadenceAssumption DEF Windowed, TypeOK, AnyModel, Interval
  <2> QED
    BY <2>1, <2>2, <2>3 DEF Armed, After, None
<1>10. CASE PingFails
  BY <1>10 DEF PingFails, Armed, TypeOK
<1>11. CASE Restart \/ Crash
  BY <1>11 DEF Restart, Crash, Restored, Armed
<1> QED
  BY <1>1, <1>2, <1>3, <1>4, <1>5, <1>6, <1>7, <1>8, <1>9, <1>10, <1>11 DEF Next

(* PingIsNeeded: a ping is decided on an interval after the last call that *)
(* warmed the cache, or to repeat one that failed.                         *)
THEOREM PingsAreNeeded == Spec => PingIsNeeded
<1>1. Init => Armed
  BY DEF Init, Armed
<1>2. Armed /\ TypeOK /\ [Next]_vars =>
        [phase' = "ping" /\ phase # "ping" =>
           failures > 0 \/ now >= After(lastActive, Interval(target))]_vars
  <2> SUFFICES ASSUME Armed, TypeOK, [Next]_vars, phase' = "ping", phase # "ping"
               PROVE  failures > 0 \/ now >= After(lastActive, Interval(target))
    OBVIOUS
  <2>1. Collect \/ AskAgain
    BY DEF Next, vars, Advance, UserMessage, Regenerate, Reply, ReplyFails, SwitchModel,
           Compacted, SetPaused, ForceWake, ForceDormant, ForceActive, Restart, Crash,
           Restored, StartBeat, Prepare, SetNextWake, EndBeat, BeatFails, StartPing,
           PingSucceeds, PingFails, EndTick, tickVars
  <2>2. PingDue
    BY <2>1 DEF Collect, AskAgain, Decide
  <2>3. After(lastActive, Interval(target)) \in Int
    BY IntervalType, AfterType DEF TypeOK
  <2> QED
    BY <2>2, <2>3 DEF PingDue, Armed, TypeOK
<1> QED
  BY WindowedInit, WindowedNext, TypeInit, TypeNext, <1>1, ArmedNext, <1>2, PTL
     DEF Spec, PingIsNeeded

-----------------------------------------------------------------------------
(* The latency of heartbeats                                               *)

(* Time t is minimum_heartbeat_latency after message m, or was forced.     *)
Late(t, m, f) == m = None \/ f = TRUE \/ t >= m + MinLatency

(* The wake time, the one on file and the one a tick would schedule next   *)
(* are all late enough for the last message that the daemon, or its file,  *)
(* knows of.  A file that needs no writing knows what the daemon knows.    *)
Patient ==
  /\ now \in Nat /\ lastMsg \in Nat \cup {None} /\ known.msg \in Nat \cup {None}
  /\ lastMsg <= now /\ known.msg <= now
  /\ wake # None => Late(wake, lastMsg, forced)
  /\ wake = None /\ ~Abandoned => Late(anchor + DefaultInterval, lastMsg, forced)
  /\ saved.wake # None => Late(saved.wake, known.msg, known.forced)
  /\ dirty = FALSE => known.msg = lastMsg /\ known.forced = forced

LEMMA PatientInit == Init => Patient
<1> SUFFICES ASSUME Init PROVE Patient
  OBVIOUS
<1>1. known.msg = None /\ lastMsg = None /\ saved.wake = None /\ wake = None /\ now = 0
  BY DEF Init
<1>2. known.forced = forced
  BY DEF Init
<1>3. None <= 0
  BY DEF None
<1> QED
  BY <1>1, <1>2, <1>3 DEF Patient, Late

(* Nothing that the invariant is about changes but time.                   *)
LEMMA PatientStutter ==
  ASSUME Patient, TypeOK, UNCHANGED clockVars, saved' = saved, dirty' \in {dirty, TRUE},
         UNCHANGED <<lastMsg, forced, known>>, now' \in {now, now + 1}
  PROVE  Patient'
<1>1. ~Abandoned' => ~Abandoned
  BY ClocksAssumption DEF Abandoned, TypeOK, clockVars
<1>2. now' \in Nat /\ lastMsg' <= now' /\ known'.msg <= now'
  BY DEF Patient, None
<1> QED
  BY <1>1, <1>2 DEF Patient, Late, clockVars

(* Saving leaves the file right.                                           *)
LEMMA PatientSave ==
  ASSUME Patient, NEW t, NEW u, NEW w, NEW d, Save(t, w, u, d),
         w # None => Late(w, lastMsg, forced), d = FALSE => dirty = FALSE, d \in BOOLEAN
  PROVE  /\ known'.msg = lastMsg /\ known'.forced = forced
         /\ saved'.wake # None => Late(saved'.wake, known'.msg, known'.forced)
<1>1. known'.msg = lastMsg /\ known'.forced = forced
  BY DEF Save
<1>2. CASE d = TRUE
  BY <1>1, <1>2 DEF Save
<1>3. CASE d = FALSE
  BY <1>1, <1>3 DEF Save, Patient
<1> QED
  BY <1>1, <1>2, <1>3

(* The clock ticks: a heartbeat that fires is late, and so is the next.    *)
LEMMA PatientClock ==
  ASSUME Patient, TypeOK, ClockTick, now' = now, lastMsg' = lastMsg, forced' = forced
  PROVE  /\ wake' # None => Late(wake', lastMsg, forced)
         /\ wake' = None /\ ~Abandoned' => Late(anchor' + DefaultInterval, lastMsg, forced)
<1> USE ClocksAssumption DEF TypeOK
<1>1. CASE wake = None
  <2>1. ticks' = ticks /\ anchor' = anchor /\ lastUser' = lastUser
    BY <1>1 DEF ClockTick, Fires
  <2>2. Abandoned' = Abandoned
    BY <2>1 DEF Abandoned
  <2>3. CASE Abandoned
    BY <1>1, <2>2, <2>3 DEF ClockTick
  <2>4. CASE ~Abandoned
    BY <1>1, <2>1, <2>4 DEF ClockTick, Patient
  <2> QED
    BY <2>3, <2>4
<1>2. CASE wake # None /\ now < wake
  BY <1>2 DEF ClockTick, Patient, Fires, Late
<1>3. CASE wake # None /\ now >= wake
  <2>1. CASE Fires
    BY <1>3, <2>1 DEF ClockTick, Patient, Late, None
  <2>2. CASE ~Fires
    BY <1>3, <2>2 DEF ClockTick, Patient, Late, Fires, Abandoned
  <2> QED
    BY <2>1, <2>2
<1> QED
  BY <1>1, <1>2, <1>3

(* A restart schedules from the present when the file has no wake time.    *)
LEMMA PatientRestored ==
  ASSUME NEW s, NEW m \in Nat \cup {None}, NEW f, Restored(s), now \in Nat, m <= now,
         MinLatency <= DefaultInterval, s.wake # None => Late(s.wake, m, f),
         lastMsg' = m, forced' = f, known'.msg = m, known'.forced = f, saved' = s
  PROVE  Patient'
<1>1. now' = now /\ wake' = s.wake /\ (s.wake = None => anchor' = now)
  BY DEF Restored
<1>2. Late(now + DefaultInterval, m, f)
  BY ClocksAssumption DEF Late, None
<1> QED
  BY <1>1, <1>2 DEF Patient, Late

LEMMA PatientNext ==
  ASSUME MinLatency <= MinWake, MinLatency <= DefaultInterval
  PROVE  Patient /\ TypeOK /\ [Next]_vars => Patient'
<1> SUFFICES ASSUME Patient, TypeOK, [Next]_vars PROVE Patient'
  OBVIOUS
<1> USE ClocksAssumption
<1>1. CASE \/ UNCHANGED vars \/ Advance \/ Regenerate \/ Reply \/ ReplyFails \/ SwitchModel
           \/ Compacted \/ SetPaused
  <2>1. /\ UNCHANGED clockVars /\ saved' = saved /\ dirty' \in {dirty, TRUE}
        /\ UNCHANGED <<lastMsg, forced, known>> /\ now' \in {now, now + 1}
    BY <1>1 DEF vars, Advance, Regenerate, Reply, ReplyFails, SwitchModel, Compacted,
                SetPaused, saveVars, historyVars
  <2> QED
    BY <2>1, PatientStutter
<1>2. CASE StartBeat \/ EndBeat \/ BeatFails \/ AskAgain \/ StartPing \/ PingSucceeds \/ PingFails
  <2>1. /\ UNCHANGED clockVars /\ saved' = saved /\ dirty' \in {dirty, TRUE}
        /\ UNCHANGED <<lastMsg, forced, known>> /\ now' \in {now, now + 1}
    BY <1>2 DEF StartBeat, EndBeat, BeatFails, AskAgain, StartPing, PingSucceeds, PingFails,
                saveVars, historyVars
  <2> QED
    BY <2>1, PatientStutter
<1>3. CASE UserMessage
  <2>1. wake' \in Int /\ wake' >= now + MinLatency /\ wake' # None
    BY <1>3 DEF UserMessage, TypeOK, None, Patient
  <2> QED
    BY <1>3, <2>1 DEF UserMessage, Patient, Late, None
<1>4. CASE ForceWake \/ ForceActive
  <2>1. wake' # None /\ forced' = TRUE /\ dirty' = TRUE
    BY <1>4 DEF ForceWake, ForceActive, Patient, None
  <2> QED
    BY <1>4, <2>1 DEF ForceWake, ForceActive, Patient, Late
<1>5. CASE ForceDormant
  <2>1. Abandoned' /\ wake' = None
    BY <1>5 DEF ForceDormant, Abandoned
  <2> QED
    BY <1>5, <2>1 DEF ForceDormant, Patient, historyVars, Late
<1>6. CASE SetNextWake
  <2>1. wake' \in Int /\ wake' >= now + MinLatency /\ wake' # None
    BY <1>6 DEF SetNextWake, Patient, None
  <2> QED
    BY <1>6, <2>1 DEF SetNextWake, Patient, Late, historyVars, None
<1>7. CASE Restart
  <2>1. PICK s : s.wake = wake /\ saved' = s /\ Restored(s)
    <3>1. [ticks |-> ticks, wake |-> wake, lastUser |-> lastUser].wake = wake
      OBVIOUS
    <3> QED
      BY <1>7, <3>1 DEF Restart
  <2>2. known'.msg = lastMsg /\ known'.forced = forced /\ lastMsg' = lastMsg /\ forced' = forced
    BY <1>7 DEF Restart
  <2> QED
    BY <2>1, <2>2, PatientRestored DEF Patient
<1>8. CASE Crash
  <2>1. /\ Restored(saved) /\ saved' = saved /\ known' = known
        /\ lastMsg' = known.msg /\ forced' = known.forced
    BY <1>8 DEF Crash
  <2> QED
    BY <2>1, PatientRestored DEF Patient
<1>9. CASE Collect
  <2>1. now' = now /\ lastMsg' = lastMsg /\ forced' = forced
    BY <1>9 DEF Collect
  <2>2. /\ wake' # None => Late(wake', lastMsg, forced)
        /\ wake' = None /\ ~Abandoned' => Late(anchor' + DefaultInterval, lastMsg, forced)
    <3>1. CASE paused
      BY <1>9, <2>1, <3>1 DEF Collect, Patient, clockVars, Abandoned
    <3>2. CASE ~paused
      BY <1>9, <2>1, <3>2, PatientClock DEF Collect
    <3> QED
      BY <3>1, <3>2
  <2>3. PICK d \in BOOLEAN : (d = FALSE => dirty = FALSE) /\ Save(ticks', wake', lastUser', d)
    <3>1. (dirty \/ (~paused /\ Fires)) \in BOOLEAN
      OBVIOUS
    <3>2. (dirty \/ (~paused /\ Fires)) = FALSE => dirty = FALSE
      BY DEF TypeOK
    <3> QED
      BY <1>9, <3>1, <3>2 DEF Collect
  <2>4. /\ known'.msg = lastMsg /\ known'.forced = forced
        /\ saved'.wake # None => Late(saved'.wake, known'.msg, known'.forced)
    BY <2>2, <2>3, PatientSave
  <2> QED
    BY <2>1, <2>2, <2>4 DEF Patient
<1>10. CASE EndTick
  <2>1. Save(ticks, wake, lastUser, dirty) /\ UNCHANGED <<now, lastMsg, forced>> /\ UNCHANGED clockVars
    BY <1>10 DEF EndTick
  <2>2. /\ known'.msg = lastMsg /\ known'.forced = forced
        /\ saved'.wake # None => Late(saved'.wake, known'.msg, known'.forced)
    <3>1. dirty \in BOOLEAN /\ (wake # None => Late(wake, lastMsg, forced))
      BY DEF TypeOK, Patient
    <3> QED
      BY <2>1, <3>1, PatientSave
  <2>3. Abandoned' = Abandoned
    BY <2>1 DEF Abandoned, clockVars
  <2> QED
    BY <2>1, <2>2, <2>3 DEF Patient, clockVars
<1> QED
  BY <1>1, <1>2, <1>3, <1>4, <1>5, <1>6, <1>7, <1>8, <1>9, <1>10 DEF Next

(* Only a collection whose clock fires starts a heartbeat.                 *)
LEMMA FiresLate ==
  Patient /\ TypeOK /\ [Next]_vars =>
    (beats' > beats => lastMsg = None \/ forced \/ now >= lastMsg + MinLatency)
<1> SUFFICES ASSUME Patient, TypeOK, [Next]_vars, beats' > beats
             PROVE  lastMsg = None \/ forced \/ now >= lastMsg + MinLatency
  OBVIOUS
<1>1. beats \in Nat
  BY DEF TypeOK
<1>2. Collect
  BY <1>1 DEF Next, vars, Advance, UserMessage, Regenerate, Reply, ReplyFails, SwitchModel,
              Compacted, SetPaused, ForceWake, ForceDormant, ForceActive, Restart, Crash,
              Restored, StartBeat, SetNextWake, EndBeat, BeatFails, AskAgain, StartPing,
              PingSucceeds, PingFails, EndTick, historyVars
<1>3. Fires
  BY <1>1, <1>2 DEF Collect
<1> QED
  BY <1>3, ClocksAssumption DEF Fires, Patient, Late, TypeOK

(* LatencyKept, when a heartbeat may not be scheduled sooner than the      *)
(* latency: a heartbeat begins only when the last message is old enough.   *)
THEOREM LatencyAlwaysKept ==
  ASSUME MinLatency <= MinWake, MinLatency <= DefaultInterval
  PROVE  Spec => LatencyKept
<1>1. Patient /\ TypeOK /\ [Next]_vars =>
        [beats' > beats => lastMsg = None \/ forced \/ now >= lastMsg + MinLatency]_vars
  BY FiresLate
<1>2. Patient /\ TypeOK /\ [Next]_vars => (Patient /\ TypeOK)'
  BY PatientNext, TypeNext
<1> QED
  BY PatientInit, TypeInit, <1>1, <1>2, PTL DEF Spec, LatencyKept
=============================================================================
