------------------------------ MODULE MCUpkeep ------------------------------
(* Upkeep in two scopes: with edits of the prompt files among one message  *)
(* less than the bound and without dreams, and with all messages and       *)
(* dreams while the files are left alone.  Only messages, edits and the    *)
(* schedule of dreams are held back, which nothing has to do.              *)
EXTENDS Upkeep
CONSTANTS i1

LeftAlone ==
  /\ \A f \in Files : workspace[f] = 1 /\ active[f] = 1
  /\ unqueued = {} /\ seeding = {}

Scope == LeftAlone \/ (messages < MaxMessages /\ ~dreamDue)

(* The queue is written and deleted; nothing is decided by what it names.  *)
QueueView ==
  <<workspace, active, unqueued, seeding, blanking, refresh, late, faults, fileOf,
    stateVars, dreamDue, jobs, pass, guard, gen, messages>>

ScopedSpec == Init /\ [][Next /\ Scope']_vars /\ Fairness
=============================================================================
