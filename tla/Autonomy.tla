------------------------------ MODULE Autonomy ------------------------------
(***************************************************************************)
(* One character's background clocks and the tick that runs them.  A tick  *)
(* reads both clocks and saves the state in one lock section, then runs a  *)
(* heartbeat and a cache-keepalive ping outside it, while users write,     *)
(* replies come, compactions drop the cached request and commands set the  *)
(* clocks.  HeartbeatClock holds a deadline and gives up when the user is  *)
(* away; CacheKeepalive pings the chat model's prompt cache at its cadence *)
(* until max_idle after the last real call.  A crash loses what is unsaved.*)
(***************************************************************************)
EXTENDS Integers

CONSTANTS
  Models, NoModel,
  Cadence,          \* cache_keepalive of each model, None when it is off
  Pinned,           \* models a heartbeat may be pinned to
  DefaultInterval, MinWake, MaxWake,       \* heartbeat cadence
  MinLatency, MaxSilent, MaxTicks,         \* and its guards
  MaxIdle,          \* cache_keepalive_max
  RetryDelay,       \* after a ping failed
  Horizon,          \* bound: time
  MaxEvents,        \* bound: messages, commands, switches, compactions, restarts
  MaxFaults         \* bound: failed replies, heartbeats and pings, and crashes

None == -1

ASSUME CadenceAssumption == Cadence \in [Models -> Nat \cup {None}] /\ NoModel \notin Models
ASSUME PinnedAssumption == Pinned \subseteq Models
ASSUME ClocksAssumption ==
  /\ {DefaultInterval, MinWake, MaxWake, MaxSilent, MaxTicks, MaxIdle, RetryDelay} \subseteq Nat
  /\ MinLatency \in Nat /\ Horizon \in Nat /\ MaxEvents \in Nat /\ MaxFaults \in Nat

VARIABLES
  now,
  chat,        \* the model replies run on
  paused,
  wake, anchor, ticks, lastUser,              \* HeartbeatClock
  target, nextPing, lastActive, failures,     \* CacheKeepalive
  request,     \* model of last_request, or NoModel
  dirty, saved,                               \* autonomy_state.json
  replying,    \* model of the reply in the making
  phase,       \* what the tick is doing
  running,     \* model of its heartbeat or ping
  due,         \* whether its collection found a ping due
  lastMsg,     \* history: the last message the daemon knows of
  beats,       \* history: heartbeats since the user was last there
  forced,      \* history: a command asked for a tick
  lastReal,    \* history: last message, or heartbeat that warmed the cache, since the start
  known,       \* history: lastMsg and forced as they were saved
  events, faults

clockVars == <<wake, anchor, ticks, lastUser>>
pingVars == <<target, nextPing, lastActive, failures>>
saveVars == <<dirty, saved>>
tickVars == <<phase, running, due>>
historyVars == <<lastMsg, beats, forced, lastReal, known>>
vars == <<now, chat, paused, clockVars, pingVars, request, saveVars, replying, tickVars,
          historyVars, events, faults>>

AnyModel == Models \cup {NoModel}
Persisted == [ticks : Nat, wake : Int, lastUser : Int]

(* Types, and a cached request is for the model that is kept warm.         *)
TypeOK ==
  /\ now \in 0..Horizon /\ chat \in Models /\ paused \in BOOLEAN
  /\ wake \in Int /\ anchor \in Int /\ ticks \in Nat /\ lastUser \in Int
  /\ target \in AnyModel /\ nextPing \in Int /\ lastActive \in Int /\ failures \in Nat
  /\ request \in {target, NoModel}
  /\ dirty \in BOOLEAN /\ saved \in Persisted
  /\ replying \in AnyModel
  /\ phase \in {"idle", "beat", "thinking", "asked", "ping", "pinging", "save"}
  /\ running \in AnyModel /\ due \in BOOLEAN
  /\ lastMsg \in Int /\ beats \in Nat /\ forced \in BOOLEAN /\ lastReal \in Int
  /\ known \in [msg : Int, forced : BOOLEAN]
  /\ events \in 0..MaxEvents /\ faults \in 0..MaxFaults

Init ==
  /\ now = 0 /\ chat \in Models /\ paused = FALSE
  /\ wake = None /\ anchor = 0 /\ ticks = 0 /\ lastUser = None
  /\ target = NoModel /\ nextPing = None /\ lastActive = None /\ failures = 0
  /\ request = NoModel
  /\ dirty = FALSE /\ saved = [ticks |-> 0, wake |-> None, lastUser |-> None]
  /\ replying = NoModel /\ phase = "idle" /\ running = NoModel /\ due = FALSE
  /\ lastMsg = None /\ beats = 0 /\ forced = FALSE /\ lastReal = None
  /\ known = [msg |-> None, forced |-> FALSE]
  /\ events = 0 /\ faults = 0

Event == events < MaxEvents /\ events' = events + 1 /\ UNCHANGED faults
Fault == faults < MaxFaults /\ faults' = faults + 1 /\ UNCHANGED events
NoEvent == UNCHANGED <<events, faults>>

-----------------------------------------------------------------------------
(* The two clocks                                                          *)

Interval(m) == IF m = NoModel THEN None ELSE Cadence[m]
After(t, d) == IF t = None \/ d = None THEN None ELSE t + d

Abandoned == ticks >= MaxTicks \/ (lastUser # None /\ now - lastUser >= MaxSilent)

(* HeartbeatClock::tick.                                                   *)
Fires == wake # None /\ now >= wake /\ ~Abandoned

ClockTick ==
  /\ wake' = IF wake = None
             THEN IF Abandoned THEN None ELSE anchor + DefaultInterval
             ELSE IF now < wake THEN wake ELSE None
  /\ ticks' = IF Fires THEN ticks + 1 ELSE ticks
  /\ anchor' = IF Fires THEN now ELSE anchor
  /\ UNCHANGED lastUser

(* on_cache_warmed: only a call on the model that is kept warm counts.     *)
Warmed(m) ==
  IF target \notin {NoModel, m}
  THEN UNCHANGED pingVars
  ELSE /\ lastActive' = now /\ failures' = 0 /\ nextPing' = After(now, Interval(target))
       /\ UNCHANGED target

(* Mutant of Cache: the keepalive is not told.                             *)
CacheQuietly(m) ==
  /\ request' = m
  /\ UNCHANGED pingVars

(* cache_last_request with set_interval: a pending ping stays unless the   *)
(* cadence changes, and is armed from the last real call.                  *)
Cache(m) ==
  /\ request' = m /\ target' = m
  /\ nextPing' = IF Interval(m) = None THEN None
                 ELSE IF nextPing = None \/ Interval(m) # Interval(target)
                      THEN After(lastActive, Interval(m)) ELSE nextPing
  /\ UNCHANGED <<lastActive, failures>>

(* CacheKeepalive::tick gives up for good when the window has passed.      *)
PingDue == nextPing # None /\ now >= nextPing
PingStops == PingDue /\ lastActive # None /\ now - lastActive >= MaxIdle

(* save_state writes what has changed.                                     *)
Save(t, w, u, d) ==
  /\ dirty' = FALSE
  /\ saved' = IF d THEN [ticks |-> t, wake |-> w, lastUser |-> u] ELSE saved
  /\ known' = [msg |-> lastMsg, forced |-> forced]

-----------------------------------------------------------------------------
(* What comes from outside                                                 *)

(* Time passes between ticks and while a tick waits for a model.           *)
Advance ==
  /\ now < Horizon /\ phase \in {"idle", "thinking", "pinging"}
  /\ now' = now + 1
  /\ UNCHANGED <<chat, paused, clockVars, pingVars, request, saveVars, replying,
                 tickVars, historyVars, events, faults>>

(* notify_user_message, when a reply begins.  The model is taken from the  *)
(* last request, and is the empty string when there is none.               *)
UserMessage ==
  /\ Event
  /\ ticks' = 0 /\ lastUser' = now
  /\ wake' = IF wake > now + MinLatency THEN wake ELSE now + MinLatency
  /\ Warmed(request)
  /\ dirty' = TRUE /\ replying' = chat
  /\ lastMsg' = now /\ beats' = 0 /\ forced' = FALSE /\ lastReal' = now
  /\ UNCHANGED <<now, chat, paused, anchor, request, saved, tickVars, known>>

(* A regeneration replies too and is not a message.                        *)
Regenerate ==
  /\ Event
  /\ replying' = chat
  /\ UNCHANGED <<now, chat, paused, clockVars, pingVars, request, saveVars, tickVars,
                 historyVars>>

(* update_last_request_with_response.                                      *)
Reply ==
  /\ replying # NoModel
  /\ Cache(replying)
  /\ replying' = NoModel /\ dirty' = TRUE
  /\ UNCHANGED <<now, chat, paused, clockVars, saved, tickVars, historyVars, events, faults>>

ReplyFails ==
  /\ replying # NoModel /\ Fault
  /\ replying' = NoModel
  /\ UNCHANGED <<now, chat, paused, clockVars, pingVars, request, saveVars, tickVars,
                 historyVars>>

SwitchModel ==
  /\ Event
  /\ chat' \in Models \ {chat}
  /\ UNCHANGED <<now, paused, clockVars, pingVars, request, saveVars, replying, tickVars,
                 historyVars>>

(* Whoever ran it, a compaction invalidates the cached request.            *)
Compacted ==
  /\ Event
  /\ request' = NoModel /\ dirty' = TRUE
  /\ UNCHANGED <<now, chat, paused, clockVars, pingVars, saved, replying, tickVars,
                 historyVars>>

SetPaused ==
  /\ Event
  /\ paused' = ~paused /\ dirty' = TRUE
  /\ UNCHANGED <<now, chat, clockVars, pingVars, request, saved, replying, tickVars,
                 historyVars>>

(* The debug commands force_wake, force_dormant and force_active.          *)
ForceWake ==
  /\ Event
  /\ wake' = now /\ dirty' = TRUE /\ forced' = TRUE
  /\ UNCHANGED <<now, chat, paused, anchor, ticks, lastUser, pingVars, request, saved,
                 replying, tickVars, lastMsg, beats, lastReal, known>>

ForceDormant ==
  /\ Event
  /\ wake' = None /\ ticks' = MaxTicks /\ dirty' = TRUE
  /\ UNCHANGED <<now, chat, paused, anchor, lastUser, pingVars, request, saved, replying,
                 tickVars, historyVars>>

ForceActive ==
  /\ Event
  /\ wake' = now /\ ticks' = 0 /\ lastUser' = now /\ dirty' = TRUE
  /\ forced' = TRUE /\ beats' = 0
  /\ UNCHANGED <<now, chat, paused, anchor, pingVars, request, saved, replying, tickVars,
                 lastMsg, lastReal, known>>

(* The daemon starts again: the clock is restored, last_user_at from the   *)
(* transcript when the file has none, and the keepalive starts unarmed.    *)
Restored(s) ==
  /\ ticks' = s.ticks /\ wake' = s.wake
  /\ anchor' = IF s.wake = None THEN now ELSE s.wake
  /\ lastUser' = IF s.lastUser = None THEN lastMsg ELSE s.lastUser
  /\ target' = NoModel /\ nextPing' = None /\ lastActive' = None /\ failures' = 0
  /\ request' = NoModel /\ dirty' = FALSE /\ paused' = FALSE
  /\ replying' = NoModel /\ phase' = "idle" /\ running' = NoModel /\ due' = FALSE
  /\ lastReal' = None
  /\ UNCHANGED <<now, chat, beats>>

(* Shutdown waits for the tick and saves.                                  *)
Restart ==
  /\ phase = "idle" /\ Event
  /\ LET s == [ticks |-> ticks, wake |-> wake, lastUser |-> lastUser]
     IN saved' = s /\ Restored(s)
  /\ known' = [msg |-> lastMsg, forced |-> forced]
  /\ UNCHANGED <<lastMsg, forced>>

(* A message or a command that was not saved is forgotten with the rest.   *)
Crash ==
  /\ Fault
  /\ Restored(saved)
  /\ lastMsg' = known.msg /\ forced' = known.forced
  /\ UNCHANGED <<saved, known>>

-----------------------------------------------------------------------------
(* The tick                                                                *)

(* Mutant of Collect: the clock is saved only when the tick is over.       *)
CollectUnsaved ==
  /\ phase = "idle"
  /\ IF paused THEN UNCHANGED clockVars ELSE ClockTick
  /\ dirty' = (dirty \/ (~paused /\ Fires)) /\ UNCHANGED <<saved, known>>
  /\ nextPing' = IF PingStops THEN None ELSE nextPing
  /\ due' = (PingDue /\ ~PingStops)
  /\ phase' = IF ~paused /\ Fires THEN "beat" ELSE IF due' THEN "ping" ELSE "save"
  /\ beats' = IF ~paused /\ Fires THEN beats + 1 ELSE beats
  /\ UNCHANGED <<now, chat, paused, target, lastActive, failures, request, replying,
                 running, lastMsg, forced, lastReal, events, faults>>

(* collect_tick_actions: one lock section, so a heartbeat that is about to *)
(* run is counted in the file.                                             *)
Collect ==
  /\ phase = "idle"
  /\ IF paused THEN UNCHANGED clockVars ELSE ClockTick
  /\ Save(ticks', wake', lastUser', dirty \/ (~paused /\ Fires))
  /\ nextPing' = IF PingStops THEN None ELSE nextPing
  /\ due' = (PingDue /\ ~PingStops)
  /\ phase' = IF ~paused /\ Fires THEN "beat" ELSE IF due' THEN "ping" ELSE "save"
  /\ beats' = IF ~paused /\ Fires THEN beats + 1 ELSE beats
  /\ UNCHANGED <<now, chat, paused, target, lastActive, failures, request, replying,
                 running, lastMsg, forced, lastReal, events, faults>>

(* prepare_heartbeat_request: the cached request, or one rebuilt for the   *)
(* chat model, which is cached.  The heartbeat runs on its own model.      *)
Prepare(m, next) ==
  /\ IF request # NoModel
     THEN m = request /\ UNCHANGED <<pingVars, request>>
     ELSE m = chat /\ Cache(m)
  /\ phase' = next

StartBeat ==
  /\ phase = "beat"
  /\ \E m \in Models :
       /\ Prepare(m, "thinking")
       /\ running' \in {m} \cup Pinned
  /\ UNCHANGED <<now, chat, paused, clockVars, saveVars, replying, due, historyVars,
                 events, faults>>

(* Mutant of SetNextWake: the lower bound is missing.                      *)
SetNextWakeUnclamped ==
  /\ phase = "thinking"
  /\ \E d \in 0..MaxWake : wake' = now + d
  /\ anchor' = now /\ dirty' = TRUE
  /\ UNCHANGED <<now, chat, paused, ticks, lastUser, pingVars, request, saved, replying,
                 tickVars, historyVars, events, faults>>

(* set_next_wake, clamped to its bounds.                                   *)
SetNextWake ==
  /\ phase = "thinking"
  /\ \E d \in MinWake..MaxWake : wake' = now + d
  /\ anchor' = now /\ dirty' = TRUE
  /\ UNCHANGED <<now, chat, paused, ticks, lastUser, pingVars, request, saved, replying,
                 tickVars, historyVars, events, faults>>

(* Mutant of Decide: the decision of the collection stands.                *)
DecideEarly ==
  /\ phase' = IF due THEN "ping" ELSE "save"
  /\ UNCHANGED nextPing

(* The keepalive is asked again after a heartbeat.                         *)
Decide ==
  /\ phase' = IF PingDue /\ ~PingStops THEN "ping" ELSE "save"
  /\ nextPing' = IF PingStops THEN None ELSE nextPing

(* A heartbeat ends, or could not run; if a model answered, its cache is   *)
(* warm.                                                                   *)
EndBeat ==
  /\ phase = "thinking"
  /\ Warmed(running)
  /\ lastReal' = IF target \in {NoModel, running} THEN now ELSE lastReal
  /\ phase' = "asked"
  /\ UNCHANGED <<now, chat, paused, clockVars, request, saveVars, replying, running, due,
                 lastMsg, beats, forced, known, events, faults>>

BeatFails ==
  /\ phase \in {"beat", "thinking"} /\ Fault
  /\ phase' = "asked"
  /\ UNCHANGED <<now, chat, paused, clockVars, pingVars, request, saveVars, replying,
                 running, due, historyVars>>

AskAgain ==
  /\ phase = "asked"
  /\ Decide
  /\ running' = NoModel
  /\ UNCHANGED <<now, chat, paused, clockVars, target, lastActive, failures, request,
                 saveVars, replying, due, historyVars, events, faults>>

StartPing ==
  /\ phase = "ping"
  /\ \E m \in Models : Prepare(m, "pinging") /\ running' = m
  /\ UNCHANGED <<now, chat, paused, clockVars, saveVars, replying, due, historyVars,
                 events, faults>>

(* Mutant of PingSucceeds: the ping counts as a real call.                 *)
PingCounts ==
  /\ phase = "pinging"
  /\ Warmed(running)
  /\ dirty' = TRUE /\ phase' = "save" /\ running' = NoModel
  /\ UNCHANGED <<now, chat, paused, clockVars, request, saved, replying, due, historyVars,
                 events, faults>>

(* on_ping_succeeded: the next one is due an interval later; the last real *)
(* call stays where it was.                                                *)
PingSucceeds ==
  /\ phase = "pinging"
  /\ failures' = 0 /\ nextPing' = After(now, Interval(target))
  /\ dirty' = TRUE /\ phase' = "save" /\ running' = NoModel
  /\ UNCHANGED <<now, chat, paused, clockVars, target, lastActive, request, saved,
                 replying, due, historyVars, events, faults>>

(* on_ping_failed, also when no request could be built.                    *)
PingFails ==
  /\ phase \in {"ping", "pinging"} /\ Fault
  /\ failures' = failures + 1 /\ nextPing' = now + RetryDelay
  /\ dirty' = TRUE /\ phase' = "save" /\ running' = NoModel
  /\ UNCHANGED <<now, chat, paused, clockVars, target, lastActive, request, saved,
                 replying, due, historyVars>>

EndTick ==
  /\ phase = "save"
  /\ Save(ticks, wake, lastUser, dirty)
  /\ phase' = "idle" /\ due' = FALSE
  /\ UNCHANGED <<now, chat, paused, clockVars, pingVars, request, replying, running,
                 lastMsg, beats, forced, lastReal, events, faults>>

Next ==
  \/ Advance \/ UserMessage \/ Regenerate \/ Reply \/ ReplyFails
  \/ SwitchModel \/ Compacted \/ SetPaused \/ ForceWake \/ ForceDormant \/ ForceActive
  \/ Restart \/ Crash
  \/ Collect \/ StartBeat \/ SetNextWake \/ EndBeat \/ BeatFails \/ AskAgain
  \/ StartPing \/ PingSucceeds \/ PingFails \/ EndTick

Spec == Init /\ [][Next]_vars

-----------------------------------------------------------------------------
(* Properties                                                              *)

(* A character speaks to itself at most dormant_after_heartbeat_turns      *)
(* times before somebody answers, across crashes and whatever it schedules.*)
BeatsBounded == beats <= MaxTicks

(* A heartbeat begins only when the last message the daemon knows of is    *)
(* minimum_heartbeat_latency old, even if that message came while another  *)
(* heartbeat was scheduling the next one.                                  *)
LatencyKept ==
  [][beats' > beats => lastMsg = None \/ forced \/ now >= lastMsg + MinLatency]_vars

(* Pings stop cache_keepalive_max after the last real call or message,     *)
(* however many pings were sent or failed since.                           *)
PingsStop ==
  [][phase' = "pinging" /\ phase = "ping" => lastReal # None /\ now < lastReal + MaxIdle]_vars

(* A ping is decided on only an interval after the last call that warmed   *)
(* the cache, or to repeat one that failed: none follows a heartbeat or a  *)
(* message that has just done its work.                                    *)
PingIsNeeded ==
  [][phase' = "ping" /\ phase # "ping" =>
       failures > 0 \/ now >= After(lastActive, Interval(target))]_vars
=============================================================================
