------------------------------- MODULE Daemon --------------------------------
(***************************************************************************)
(* The life of the daemon process (main.rs): it connects the MCP servers,  *)
(* starts its handler, its watcher and its services, serves, and ends on a *)
(* signal.  Composes the hot reload of the configuration with the          *)
(* supervisors.                                                            *)
(***************************************************************************)
EXTENDS HotReload, Supervisor

allVars == <<phase, reloadVars, signalled, taskVars>>
serviceVars == <<signalled, taskVars>>

DaemonTypeOK == ReloadTypeOK /\ SupervisorTypeOK

Init == ReloadInit /\ SupervisorInit

(* McpRegistry::from_config has returned and spawn_background_services was *)
(* called; a service without a binary or a section stays off, and a watcher*)
(* that cannot watch the directory is not started.                         *)
Serve ==
  /\ phase = "starting" /\ phase' = "serving"
  /\ watching' \in BOOLEAN
  /\ pc' \in [Services -> {"off", "check"}]
  /\ UNCHANGED <<diskVars, missed, noticed, armed, sending, controls, looked,
                 applying, copyVars, signalled, failures, child, stable, recent>>

(* SIGINT or SIGTERM, in any phase.                                        *)
Signal ==
  /\ phase \in {"starting", "serving"} /\ ~signalled
  /\ signalled' = TRUE
  /\ UNCHANGED <<phase, reloadVars, taskVars>>

WatcherStops == signalled /\ StopWatching /\ UNCHANGED serviceVars

(* The server's loop sees the signal and main drops it.                    *)
ServerStops ==
  /\ phase = "serving" /\ signalled
  /\ phase' = "ending"
  /\ UNCHANGED <<reloadVars, serviceVars>>

(* Mutant of Gone: a child survives the task that is dropped.              *)
GoneLeaves ==
  /\ phase = "ending" /\ phase' = "gone"
  /\ watching' = FALSE
  /\ pc' = [s \in Services |-> "off"]
  /\ UNCHANGED <<diskVars, missed, noticed, armed, sending, controls, looked,
                 applying, copyVars, signalled, failures, child, stable, recent>>

(* await_background_shutdown: every wait for a task has a deadline, so     *)
(* main may end with any of them unfinished; the runtime drops the tasks,  *)
(* and with them the children (kill_on_drop).                              *)
Gone ==
  /\ phase = "ending" /\ phase' = "gone"
  /\ watching' = FALSE
  /\ pc' = [s \in Services |-> "off"]
  /\ child' = [s \in Services |-> FALSE]
  /\ UNCHANGED <<diskVars, missed, noticed, armed, sending, controls, looked,
                 applying, copyVars, signalled, failures, stable, recent>>

Next ==
  \/ Serve \/ Signal \/ WatcherStops \/ ServerStops \/ Gone
  \/ ReloadStep /\ UNCHANGED serviceVars
  \/ SupervisorStep /\ UNCHANGED <<phase, reloadVars>>

Spec == Init /\ [][Next]_allVars

(* Tasks are scheduled and their timers fire.  Nothing makes an MCP server *)
(* answer, a user edit a file or a child end.                              *)
FairSpec ==
  /\ Spec
  /\ WF_allVars(WatchStep /\ UNCHANGED serviceVars)
  /\ WF_allVars(HandlerStep /\ UNCHANGED serviceVars)
  /\ WF_allVars(WatcherStops) /\ WF_allVars(ServerStops) /\ WF_allVars(Gone)
  /\ \A s \in Services :
       WF_allVars(TaskStep(s) /\ UNCHANGED <<phase, reloadVars>>)
=============================================================================
