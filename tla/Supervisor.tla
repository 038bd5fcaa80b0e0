----------------------------- MODULE Supervisor ------------------------------
(***************************************************************************)
(* The tasks that keep child processes of the daemon running: the language *)
(* model sidecar, whose start ends with a health check, and the Matrix     *)
(* bridge (supervisor.rs).  A task spawns, watches, counts failures, backs *)
(* off and gives up; a signal may come in between any two of its steps, as *)
(* may the end of the child.                                               *)
(***************************************************************************)
EXTENDS Naturals, Sequences

CONSTANTS
  Services,
  Checked,      \* those with a socket directory and a health check
  MaxFailures   \* MAX_CONSECUTIVE_FAILURES, 5 in the code

ASSUME SupervisorAssumption ==
  Checked \subseteq Services /\ MaxFailures \in Nat \ {0}

VARIABLES
  signalled,  \* the shutdown channel was sent to
  pc,         \* where the task is
  failures,   \* its count of consecutive failures
  child,      \* its child process is alive
  stable,     \* the child was spawned five minutes ago or earlier
  recent      \* how its last attempts failed, newest first: "quick" ones and
              \* "late" ones that had been stable (history)

taskVars == <<pc, failures, child, stable, recent>>

Waiting == {"starting", "running"}
Over == {"off", "stopped", "gaveup"}

SupervisorTypeOK ==
  /\ signalled \in BOOLEAN
  /\ pc \in [Services -> Waiting \cup Over \cup
               {"check", "setup", "unhealthy", "stopping", "backoff"}]
  /\ failures \in [Services -> 0..MaxFailures]
  /\ child \in [Services -> BOOLEAN] /\ stable \in [Services -> BOOLEAN]
  /\ recent \in [Services -> Seq({"quick", "late"})]
  /\ \A s \in Services : Len(recent[s]) <= MaxFailures

(* No binary, or not configured: "off".                                    *)
SupervisorInit ==
  /\ signalled = FALSE
  /\ pc = [s \in Services |-> "off"]
  /\ failures = [s \in Services |-> 0]
  /\ child = [s \in Services |-> FALSE] /\ stable = [s \in Services |-> FALSE]
  /\ recent = [s \in Services |-> <<>>]

Go(s, from, to) == pc[s] = from /\ pc' = [pc EXCEPT ![s] = to]

Check(s) ==
  /\ Go(s, "check", IF signalled THEN "stopped" ELSE "setup")
  /\ UNCHANGED <<signalled, failures, child, stable, recent>>

(* Mutant of Fail: only the children that exit are counted.                *)
FailUncounted(s, n, how) ==
  LET counted == IF pc[s] \in Waiting THEN n ELSE failures[s]
  IN /\ failures' = [failures EXCEPT ![s] = counted]
     /\ recent' = [recent EXCEPT ![s] =
          SubSeq(<<how>> \o @, 1, IF Len(@) < MaxFailures THEN Len(@) + 1 ELSE Len(@))]
     /\ pc' = [pc EXCEPT ![s] = IF counted >= MaxFailures THEN "gaveup" ELSE "backoff"]

(* A failure is counted as the n-th in a row.                              *)
Fail(s, n, how) ==
  /\ failures' = [failures EXCEPT ![s] = n]
  /\ recent' = [recent EXCEPT ![s] =
       SubSeq(<<how>> \o @, 1, IF Len(@) < MaxFailures THEN Len(@) + 1 ELSE Len(@))]
  /\ pc' = [pc EXCEPT ![s] = IF n >= MaxFailures THEN "gaveup" ELSE "backoff"]

(* The socket directory, the old socket or the process cannot be made.     *)
SpawnFails(s) ==
  /\ pc[s] = "setup"
  /\ Fail(s, failures[s] + 1, "quick")
  /\ UNCHANGED <<signalled, child, stable>>

Spawn(s) ==
  /\ Go(s, "setup", IF s \in Checked THEN "starting" ELSE "running")
  /\ child' = [child EXCEPT ![s] = TRUE] /\ stable' = [stable EXCEPT ![s] = FALSE]
  /\ UNCHANGED <<signalled, failures, recent>>

(* The check has a deadline of ten seconds and comes before the look at    *)
(* the child and at the signal.                                            *)
BecomesHealthy(s) ==
  /\ Go(s, "starting", "running")
  /\ UNCHANGED <<signalled, failures, child, stable, recent>>

StaysUnhealthy(s) ==
  /\ Go(s, "starting", "unhealthy")
  /\ UNCHANGED <<signalled, failures, child, stable, recent>>

(* The world: the child ends, or goes on for five minutes.                 *)
ChildExits(s) ==
  /\ child[s] /\ child' = [child EXCEPT ![s] = FALSE]
  /\ UNCHANGED <<signalled, pc, failures, stable, recent>>

RunsLong(s) ==
  /\ pc[s] = "running" /\ child[s] /\ ~stable[s]
  /\ stable' = [stable EXCEPT ![s] = TRUE]
  /\ UNCHANGED <<signalled, pc, failures, child, recent>>

(* Mutant of ObserveExit: a stable run does not make up for failures.      *)
ObserveExitKeeps(s) ==
  /\ pc[s] \in Waiting /\ ~child[s]
  /\ Fail(s, failures[s] + 1, IF stable[s] THEN "late" ELSE "quick")
  /\ UNCHANGED <<signalled, child, stable>>

ObserveExit(s) ==
  /\ pc[s] \in Waiting /\ ~child[s]
  /\ IF stable[s] THEN Fail(s, 1, "late") ELSE Fail(s, failures[s] + 1, "quick")
  /\ UNCHANGED <<signalled, child, stable>>

(* tokio::select! takes the exit or the signal when both are there.        *)
SeeSignal(s) ==
  /\ signalled
  /\ \/ pc[s] \in Waiting /\ pc' = [pc EXCEPT ![s] = "stopping"]
     \/ Go(s, "backoff", "stopped")
  /\ UNCHANGED <<signalled, failures, child, stable, recent>>

(* graceful_shutdown: SIGTERM, after the grace SIGKILL; it returns when    *)
(* the child is reaped.                                                    *)
EndUnhealthy(s) ==
  /\ pc[s] = "unhealthy"
  /\ child' = [child EXCEPT ![s] = FALSE]
  /\ Fail(s, failures[s] + 1, "quick")
  /\ UNCHANGED <<signalled, stable>>

EndStopping(s) ==
  /\ Go(s, "stopping", "stopped")
  /\ child' = [child EXCEPT ![s] = FALSE]
  /\ UNCHANGED <<signalled, failures, stable, recent>>

Wake(s) ==
  /\ Go(s, "backoff", "check")
  /\ UNCHANGED <<signalled, failures, child, stable, recent>>

TaskStep(s) ==
  \/ Check(s) \/ SpawnFails(s) \/ Spawn(s)
  \/ BecomesHealthy(s) \/ StaysUnhealthy(s) \/ ObserveExit(s)
  \/ SeeSignal(s) \/ EndUnhealthy(s) \/ EndStopping(s) \/ Wake(s)

SupervisorStep == \E s \in Services : TaskStep(s) \/ ChildExits(s) \/ RunsLong(s)

-----------------------------------------------------------------------------
(* Properties                                                              *)

(* No child outlives the attempt it belongs to: while a task backs off,    *)
(* looks for a signal, spawns the next one, has given up or has stopped,   *)
(* and when the daemon is gone, none of its children runs.  Two sidecars   *)
(* would share a socket path, which the second one's spawn unlinks.        *)
NoChildLeftBehind ==
  \A s \in Services :
    child[s] => pc[s] \in Waiting \cup {"unhealthy", "stopping"}

(* A task gives up on MaxFailures failures in a row and on no fewer: when  *)
(* none of its last attempts but the first was one that had been stable,   *)
(* whatever failed in between, a directory, a spawn, a check or the child  *)
(* (record_child_exit, MAX_CONSECUTIVE_FAILURES).                          *)
InARow(s) ==
  /\ Len(recent[s]) = MaxFailures
  /\ \A i \in 1..(MaxFailures - 1) : recent[s][i] = "quick"

GivesUpInARow ==
  \A s \in Services :
    pc[s] \in {"gaveup", "backoff", "check", "setup"} => (pc[s] = "gaveup" <=> InARow(s))

(* A service whose child failed runs again, unless the task gave up or was *)
(* stopped: no wait of the restart is without an end, and the failures of  *)
(* all steps of an attempt count (supervise_llm_sidecar).                  *)
ServiceReturns ==
  \A s \in Services : pc[s] = "backoff" ~> pc[s] \in Over \cup {"running"}
=============================================================================
