------------------------------ MODULE HotReload ------------------------------
(***************************************************************************)
(* How the daemon follows its configuration files: the watcher that        *)
(* debounces changes (hot_reload.rs), the reload in the message handler    *)
(* (handler/mod.rs), the merged configurations cached per character        *)
(* (characters.rs), and the config commands.  A file's contents are the    *)
(* number of the edit that wrote it.  Handshakes merge and cache           *)
(* configurations beside the handler.                                      *)
(***************************************************************************)
EXTENDS Naturals

CONSTANTS
  Characters,
  ControlSize,  \* of the handler's control channel, 16 in main.rs
  MaxEdits      \* bound on changes of the files

ASSUME ReloadAssumption == ControlSize \in Nat \ {0} /\ MaxEdits \in Nat

VARIABLES
  phase,      \* of main: "starting", "serving", "ending", "gone"
  edits,      \* changes made to the files so far
  main,       \* config.toml with what it includes, conf.d and .env
  overlay,    \* characters/<name>/config.toml, 0 when there is none
  broken,     \* the edits that do not parse or validate
  defined,    \* the characters with a definition file
  missed,     \* the last edit whose event the watcher may not have had
  watching,   \* the watcher task runs
  noticed,    \* events the watcher has not received
  armed,      \* paths wait for the debounce to elapse
  sending,    \* the watcher waits for room in the control channel
  controls,   \* reloads in the control channel
  looked,     \* edits there were when files were last read for a reload
  applying,   \* where the handler is in a reload: "no", "mcp", "registry"
  command,    \* cmd_ctx.config: the edit of main it was loaded from
  autonomy,   \* what the autonomy manager gives to new ticks
  global,     \* the registry's global_config
  available,  \* the characters the registry knows
  merged      \* char_configs: at most one configuration for each character

diskVars == <<edits, main, overlay, broken, defined>>
watchVars == <<watching, noticed, armed, sending>>
copyVars == <<command, autonomy, global, available, merged>>
reloadVars == <<diskVars, missed, watchVars, controls, looked, applying, copyVars>>

(* The edits a configuration was merged from, and whether a config command *)
(* changed it since.                                                       *)
Config == [file : Nat, own : Nat, set : BOOLEAN]
Plain(n) == [file |-> n, own |-> 0, set |-> FALSE]

ReloadTypeOK ==
  /\ phase \in {"starting", "serving", "ending", "gone"}
  /\ edits \in 0..MaxEdits /\ main \in 0..edits
  /\ overlay \in [Characters -> 0..edits]
  /\ broken \subseteq 1..edits /\ defined \subseteq Characters
  /\ missed \in 0..edits /\ looked \in 0..edits
  /\ watching \in BOOLEAN /\ noticed \in BOOLEAN
  /\ armed \in BOOLEAN /\ sending \in BOOLEAN
  /\ controls \in 0..ControlSize
  /\ applying \in {"no", "mcp", "registry"}
  /\ command \in 0..edits /\ global \in 0..edits /\ autonomy \in Config
  /\ available \subseteq Characters
  /\ merged \in [Characters -> SUBSET Config]

(* CharacterRegistry::new; nothing is merged before it is asked for.       *)
ReloadInit ==
  /\ phase = "starting"
  /\ edits = 0 /\ main = 0 /\ broken = {} /\ missed = 0 /\ looked = 0
  /\ overlay = [ch \in Characters |-> 0]
  /\ defined \in SUBSET Characters /\ available = defined
  /\ watching = FALSE /\ noticed = FALSE /\ armed = FALSE /\ sending = FALSE
  /\ controls = 0 /\ applying = "no"
  /\ command = 0 /\ global = 0 /\ autonomy = Plain(0)
  /\ merged = [ch \in Characters |-> {}]

-----------------------------------------------------------------------------
(* What users do with the files (external).  The watcher hears of edits    *)
(* that path_triggers_reload accepts, once it watches.                     *)

Seen ==
  /\ noticed' = (noticed \/ watching)
  /\ missed' = IF watching THEN missed ELSE edits'

Unseen == missed' = edits' /\ UNCHANGED noticed

Edited ==
  /\ phase # "gone" /\ edits < MaxEdits /\ edits' = edits + 1
  /\ UNCHANGED <<phase, watching, armed, sending, controls, looked, applying,
                 copyVars>>

(* What config.toml includes is part of it; a file outside config_dir, or  *)
(* without the .toml extension, is read all the same and not watched.      *)
EditMain(ok) ==
  /\ Edited
  /\ Seen \/ Unseen
  /\ main' = edits'
  /\ broken' = IF ok THEN broken ELSE broken \cup {edits'}
  /\ UNCHANGED <<overlay, defined>>

EditOverlay(ch, ok) ==
  /\ Edited /\ Seen
  /\ overlay' = [overlay EXCEPT ![ch] = edits']
  /\ broken' = IF ok THEN broken ELSE broken \cup {edits'}
  /\ UNCHANGED <<main, defined>>

(* character.md comes, or the character's directory goes.                  *)
MoveCharacter(ch) ==
  /\ Edited /\ Seen
  /\ IF ch \in defined
     THEN defined' = defined \ {ch} /\ overlay' = [overlay EXCEPT ![ch] = 0]
     ELSE defined' = defined \cup {ch} /\ UNCHANGED overlay
  /\ UNCHANGED <<main, broken>>

(* workspace/SOUL.md makes a character too, and is not watched.            *)
WriteSoul(ch) ==
  /\ Edited
  /\ defined' = IF ch \in defined THEN defined \ {ch} ELSE defined \cup {ch}
  /\ Unseen
  /\ UNCHANGED <<main, overlay, broken>>

Edit ==
  \/ \E ok \in BOOLEAN : EditMain(ok) \/ \E ch \in Characters : EditOverlay(ch, ok)
  \/ \E ch \in Characters : MoveCharacter(ch) \/ WriteSoul(ch)

-----------------------------------------------------------------------------
(* The watcher.                                                            *)

WatchOnly == UNCHANGED <<phase, diskVars, missed, looked, applying, copyVars>>

(* Mutant of Receive: an event during a reload is taken for a part of it.  *)
ReceiveCoalesced ==
  /\ watching /\ noticed /\ ~sending
  /\ noticed' = FALSE /\ armed' = (armed \/ applying = "no")
  /\ WatchOnly /\ UNCHANGED <<watching, sending, controls>>

Receive ==
  /\ watching /\ noticed /\ ~sending
  /\ noticed' = FALSE /\ armed' = TRUE
  /\ WatchOnly /\ UNCHANGED <<watching, sending, controls>>

(* The watch reports an error or an overflow in place of an event: it is   *)
(* logged, or passed over, and no path is noted.                           *)
LoseEvent ==
  /\ watching /\ noticed /\ ~sending
  /\ noticed' = FALSE /\ missed' = edits
  /\ UNCHANGED <<phase, diskVars, watching, armed, sending, controls, looked,
                 applying, copyVars>>

(* The paths are taken before the message is sent, so that later ones arm  *)
(* the debounce again.                                                     *)
Debounce ==
  /\ watching /\ armed /\ ~sending
  /\ armed' = FALSE /\ sending' = TRUE
  /\ WatchOnly /\ UNCHANGED <<watching, noticed, controls>>

(* Mutant of SendControl: it does not wait for room.                       *)
SendUnbounded ==
  /\ watching /\ sending
  /\ sending' = FALSE /\ controls' = controls + 1
  /\ WatchOnly /\ UNCHANGED <<watching, noticed, armed>>

SendControl ==
  /\ watching /\ sending /\ controls < ControlSize
  /\ sending' = FALSE /\ controls' = controls + 1
  /\ WatchOnly /\ UNCHANGED <<watching, noticed, armed>>

(* The signal is not looked at during a send; that fails once the handler, *)
(* which holds the receiver, has ended.                                    *)
StopWatching ==
  /\ watching
  /\ ~sending \/ (phase = "ending" /\ applying = "no")
  /\ watching' = FALSE /\ noticed' = FALSE /\ armed' = FALSE /\ sending' = FALSE
  /\ WatchOnly /\ UNCHANGED controls

WatchStep == Receive \/ Debounce \/ SendControl

-----------------------------------------------------------------------------
(* Merging on demand.                                                      *)

(* load_character_config; one that fails counts as absent.                 *)
Merge(ch) ==
  [file |-> global, own |-> IF overlay[ch] \in broken THEN 0 ELSE overlay[ch],
   set |-> FALSE]

(* effective_config caches what it merged; without an overlay the global   *)
(* configuration stands for it, which only changes as the cache is cleared.*)
EffectiveConfig(ch) == IF merged[ch] = {} THEN {Merge(ch)} ELSE merged[ch]

(* A handshake, a message or a snapshot asks for a character's.            *)
Use(ch) ==
  /\ phase \in {"serving", "ending"} /\ merged[ch] = {}
  /\ merged' = [merged EXCEPT ![ch] = EffectiveConfig(ch)]
  /\ UNCHANGED <<phase, diskVars, missed, watchVars, controls, looked, applying,
                 command, autonomy, global, available>>

-----------------------------------------------------------------------------
(* The handler.                                                            *)

HandlerFree == phase \in {"serving", "ending"} /\ applying = "no"

(* The beginning of apply_reloaded_config.  Whether [mcp] changed, so that *)
(* servers are to be connected first, is data.                             *)
Apply ==
  /\ looked' = edits
  /\ command' = main /\ autonomy' = Plain(main)
  /\ applying' \in {"mcp", "registry"}
  /\ UNCHANGED <<global, available, merged>>

Overlays == {overlay[ch] : ch \in defined}

(* reload_config_from_disk: everything is read and checked before anything *)
(* is replaced.                                                            *)
StartReload ==
  /\ HandlerFree /\ controls > 0
  /\ controls' = controls - 1
  /\ IF main \in broken \/ Overlays \cap broken # {}
     THEN looked' = edits /\ UNCHANGED <<applying, copyVars>>
     ELSE Apply
  /\ UNCHANGED <<phase, diskVars, missed, watchVars>>

(* The config_reset command, of a session that has a character; it does    *)
(* not look at overlays.                                                   *)
ConfigReset ==
  /\ HandlerFree /\ available # {} /\ main \notin broken
  /\ Apply
  /\ UNCHANGED <<phase, diskVars, missed, watchVars, controls>>

ConnectServers ==
  /\ phase \in {"serving", "ending"} /\ applying = "mcp"
  /\ applying' = "registry"
  /\ UNCHANGED <<phase, diskVars, missed, watchVars, controls, looked, copyVars>>

(* Mutant of ReloadRegistry: merged configurations are kept.               *)
ReloadKeepsMerged ==
  /\ phase \in {"serving", "ending"} /\ applying = "registry"
  /\ applying' = "no"
  /\ global' = command /\ available' = defined
  /\ UNCHANGED <<phase, diskVars, missed, watchVars, controls, looked, command,
                 autonomy, merged>>

(* Mutant of ReloadRegistry: the directory is not read again.              *)
ReloadKeepsNames ==
  /\ phase \in {"serving", "ending"} /\ applying = "registry"
  /\ applying' = "no"
  /\ global' = command /\ merged' = [ch \in Characters |-> {}]
  /\ UNCHANGED <<phase, diskVars, missed, watchVars, controls, looked, command,
                 autonomy, available>>

(* reload_runtime_state, under the registry's lock.  The directory is read *)
(* once more.                                                              *)
ReloadRegistry ==
  /\ phase \in {"serving", "ending"} /\ applying = "registry"
  /\ applying' = "no"
  /\ global' = command /\ available' = defined
  /\ merged' = [ch \in Characters |-> {}]
  /\ UNCHANGED <<phase, diskVars, missed, watchVars, controls, looked, command,
                 autonomy>>

(* The config command changes what its character has, in memory, and what  *)
(* the manager gives to the ticks of every character.                      *)
ConfigSet(ch) ==
  /\ HandlerFree /\ ch \in available
  /\ \E c \in EffectiveConfig(ch) :
       /\ merged' = [merged EXCEPT ![ch] = {[c EXCEPT !.set = TRUE]}]
       /\ autonomy' = [c EXCEPT !.set = TRUE]
  /\ UNCHANGED <<phase, diskVars, missed, watchVars, controls, looked, applying,
                 command, global, available>>

HandlerStep == StartReload \/ ReloadRegistry

ReloadStep ==
  \/ Edit \/ WatchStep \/ LoseEvent \/ HandlerStep \/ ConfigReset \/ ConnectServers
  \/ \E ch \in Characters : Use(ch) \/ ConfigSet(ch)

-----------------------------------------------------------------------------
(* Properties                                                              *)

(* Between reloads all copies of the configuration come from the same      *)
(* load, although a reload replaces them one after the other and           *)
(* handshakes cache merged ones meanwhile (apply_reloaded_config).         *)
CopiesAgree ==
  applying = "no" =>
    /\ command = global /\ autonomy.file = global
    /\ \A ch \in Characters : \A c \in merged[ch] : c.file = global

Loads == main \notin broken /\ Overlays \cap broken = {}

(* What the daemon runs with is what the files say; config commands        *)
(* excepted, which change it in memory until the next reload.              *)
Current ==
  /\ command = main /\ global = main /\ available = defined
  /\ autonomy = Plain(main) \/ autonomy.set
  /\ \A ch \in Characters : \A c \in merged[ch] : c = Merge(ch) \/ c.set

Settled ==
  /\ watching /\ ~noticed /\ ~armed /\ ~sending
  /\ controls = 0 /\ applying = "no"

(* When no change is on its way and the files are valid, the daemon runs   *)
(* with them: whatever edits came during the debounce, the wait for the    *)
(* channel, the reading or the replacing.  Edits before the watcher watched*)
(* or of files it does not watch, and events that were lost, are only made *)
(* up for by the next one.                                                 *)
SettledIsCurrent ==
  Settled /\ Loads /\ missed <= looked => Current

(* And such a time comes: in the end valid files are what it runs with,    *)
(* unless it ends before, or an MCP server never answers.                  *)
ConfigConverges ==
  <>[](watching /\ phase = "serving" /\ applying # "mcp" /\ Loads /\ missed <= looked
         => Current)
=============================================================================
