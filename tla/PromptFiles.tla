---------------------------- MODULE PromptFiles ----------------------------
(***************************************************************************)
(* The prompt-visible files of one character (deferred_edits.rs).  Tools   *)
(* write the workspace copy at once; prompts are assembled from a second   *)
(* copy, the active snapshot, which is refreshed after a compaction.  A    *)
(* queue names the files whose refresh is due.  The steps of a refresh and *)
(* of a tool's edit are file operations of their own, under no lock.       *)
(***************************************************************************)
EXTENDS Naturals, FiniteSets

CONSTANTS
  Files,      \* the prompt-visible files
  Indexes,    \* those with a sentinel: MEMORY.md
  Callers,    \* who refreshes the snapshot: compaction passes
  MaxEdits,   \* bound on the edits of a file
  MaxFaults   \* bound on failing file operations and passes

ASSUME FilesAssumption ==
  /\ IsFiniteSet(Files) /\ Indexes \subseteq Files
  /\ MaxEdits \in Nat \ {0} /\ MaxFaults \in Nat

(* The content of a file: 0 for no file, else the number of its last edit. *)
(* An empty snapshot hides a MEMORY.md that did not exist before.          *)
Missing == 0
Empty == MaxEdits + 1

VARIABLES
  workspace,  \* the copies the tools write
  active,     \* the copies prompts are assembled from
  queue,      \* the files named in deferred_edits.jsonl
  unqueued,   \* files a tool has written and not yet queued
  seeding,    \* files of which an assembler has seen no active copy
  blanking,   \* files of which queue_deferred_edit has seen none
  refresh,    \* of each caller: the files left to copy, or Idle
  late,       \* files written, or blanked, since a caller copied them
  faults

copyVars == <<workspace, active, queue, unqueued, seeding, blanking, refresh, late>>
fileVars == <<copyVars, faults>>

Idle == [on |-> FALSE, left |-> {}]

FilesTypeOK ==
  /\ workspace \in [Files -> Missing..MaxEdits]
  /\ active \in [Files -> Missing..Empty]
  /\ queue \subseteq Files /\ unqueued \subseteq Files
  /\ seeding \subseteq Files /\ blanking \subseteq unqueued
  /\ refresh \in [Callers -> [on : BOOLEAN, left : SUBSET Files]]
  /\ late \in [Callers -> SUBSET Files]
  /\ faults \in 0..MaxFaults

(* CharacterRegistry::new has seeded the snapshot.                         *)
FilesInit ==
  /\ workspace \in [Files -> {Missing, 1}]
  /\ active = workspace
  /\ queue = {} /\ unqueued = {} /\ seeding = {} /\ blanking = {}
  /\ refresh = [p \in Callers |-> Idle] /\ late = [p \in Callers |-> {}]
  /\ faults = 0

Fault == faults < MaxFaults /\ faults' = faults + 1

-----------------------------------------------------------------------------
(* Edits                                                                   *)

(* The refreshes that have copied the file have copied it too early.        *)
TooLate(f) ==
  [p \in Callers |->
     late[p] \cup {g \in {f} : refresh[p].on /\ g \notin refresh[p].left}]

WorkspaceChanges(f) ==
  /\ workspace[f] < MaxEdits
  /\ workspace' = [workspace EXCEPT ![f] = @ + 1]
  /\ late' = TooLate(f)

(* A tool writes a file; the edit is queued after the write.               *)
ToolWrites(f) ==
  /\ f \notin unqueued
  /\ WorkspaceChanges(f)
  /\ unqueued' = unqueued \cup {f}
  /\ UNCHANGED <<active, queue, seeding, blanking, refresh, faults>>

(* The user writes a file in an editor.                                    *)
UserWrites(f) ==
  /\ WorkspaceChanges(f)
  /\ UNCHANGED <<active, queue, unqueued, seeding, blanking, refresh, faults>>

(* ensure_deferred_memory_index_sentinel keeps a new MEMORY.md from being  *)
(* seeded with an empty copy.  It looks for a copy, and then writes one,   *)
(* over whatever has appeared meanwhile.                                   *)
SentinelLooks(f) ==
  /\ f \in (Indexes \cap unqueued) \ blanking
  /\ active[f] = Missing
  /\ blanking' = blanking \cup {f}
  /\ UNCHANGED <<workspace, active, queue, unqueued, seeding, refresh, late, faults>>

SentinelWrites(f) ==
  /\ f \in blanking
  /\ active' = [active EXCEPT ![f] = Empty]
  /\ blanking' = blanking \ {f}
  /\ late' = TooLate(f)
  /\ UNCHANGED <<workspace, queue, unqueued, seeding, refresh, faults>>

(* queue_deferred_edit, once there is a copy of a MEMORY.md.               *)
QueueEdit(f) ==
  /\ f \in unqueued \ blanking
  /\ f \in Indexes => active[f] # Missing
  /\ unqueued' = unqueued \ {f}
  /\ queue' = queue \cup {f}
  /\ UNCHANGED <<workspace, active, seeding, blanking, refresh, late, faults>>

(* SharedToolContext::defer_edit only logs a sentinel or a queue it cannot *)
(* write.                                                                  *)
QueueEditFails(f) ==
  /\ f \in unqueued /\ Fault
  /\ unqueued' = unqueued \ {f} /\ blanking' = blanking \ {f}
  /\ UNCHANGED <<workspace, active, queue, seeding, refresh, late>>

-----------------------------------------------------------------------------
(* Snapshots                                                               *)

(* ensure_active_prompt_snapshot, which every assembly of a prompt calls:  *)
(* copy_prompt_visible_file with seed_only looks for a copy and, when there*)
(* was none, makes one.  Several may have looked before one copies.        *)
SeedLooks(f) ==
  /\ active[f] = Missing
  /\ seeding' = seeding \cup {f}
  /\ UNCHANGED <<workspace, active, queue, unqueued, blanking, refresh, late, faults>>

SeedCopies(f) ==
  /\ f \in seeding
  /\ seeding' \in {seeding, seeding \ {f}}
  /\ active' = IF workspace[f] = Missing THEN active
               ELSE [active EXCEPT ![f] = workspace[f]]
  /\ UNCHANGED <<workspace, queue, unqueued, blanking, refresh, late, faults>>

(* Mutant of BeginRefresh: only what is queued is refreshed.               *)
RefreshQueued(p) ==
  /\ ~refresh[p].on
  /\ refresh' = [refresh EXCEPT ![p] = [on |-> TRUE, left |-> queue]]
  /\ UNCHANGED <<workspace, active, queue, unqueued, seeding, blanking, late, faults>>

(* apply_deferred_edits: every file, queued or not, then the queue.        *)
BeginRefresh(p) ==
  /\ ~refresh[p].on
  /\ refresh' = [refresh EXCEPT ![p] = [on |-> TRUE, left |-> Files]]
  /\ UNCHANGED <<workspace, active, queue, unqueued, seeding, blanking, late, faults>>

(* copy_prompt_visible_file without seed_only: a copy whose file is gone   *)
(* is removed.                                                             *)
CopyFile(p, f) ==
  /\ f \in refresh[p].left
  /\ refresh' = [refresh EXCEPT ![p].left = @ \ {f}]
  /\ active' = [active EXCEPT ![f] = workspace[f]]
  /\ UNCHANGED <<workspace, queue, unqueued, seeding, blanking, late, faults>>

(* A copy that fails ends the refresh; the queue stays.                    *)
CopyFails(p) ==
  /\ refresh[p].left # {} /\ Fault
  /\ refresh' = [refresh EXCEPT ![p] = Idle]
  /\ late' = [late EXCEPT ![p] = {}]
  /\ UNCHANGED <<workspace, active, queue, unqueued, seeding, blanking>>

EndRefresh(p) ==
  /\ refresh[p].on /\ refresh[p].left = {}
  /\ refresh' = [refresh EXCEPT ![p] = Idle]
  /\ late' = [late EXCEPT ![p] = {}]
  /\ queue' = {}
  /\ UNCHANGED <<workspace, active, unqueued, seeding, blanking, faults>>

EditNext ==
  \E f \in Files :
    \/ ToolWrites(f) \/ UserWrites(f)
    \/ SentinelLooks(f) \/ SentinelWrites(f) \/ QueueEdit(f) \/ QueueEditFails(f)
    \/ SeedLooks(f) \/ SeedCopies(f)

-----------------------------------------------------------------------------
(* When a refresh ends, every file shows what the workspace holds: an edit *)
(* whose queueing failed, or that the user made, is activated with the     *)
(* queued ones (apply_deferred_edits).  Only a file written, or blanked by *)
(* a sentinel, after the refresh copied it waits for the next one.         *)
EditsActivate ==
  [][\A p \in Callers : EndRefresh(p) =>
       \A f \in Files : active'[f] = workspace[f] \/ f \in late[p]]_fileVars
=============================================================================
