---------------------------- MODULE Conversation ----------------------------
(***************************************************************************)
(* One character's conversation in the shore daemon.  The engine keeps the *)
(* transcript in memory and rewrites active.jsonl after every change, under*)
(* the engine lock.  Compaction passes consolidate the transcript into     *)
(* memory files and then archive its older lines: a new segment file, the  *)
(* manifest compaction.json, the shortened active.jsonl, in that order.    *)
(* Only the manual pass holds the engine lock meanwhile; the inline pass   *)
(* and the passes of the autonomy tick work on the file they read when     *)
(* they began.  Any write can fail and the daemon can crash between two of *)
(* them.                                                                   *)
(***************************************************************************)
EXTENDS Transcript

CONSTANTS
  Sessions,       \* client sessions, each with at most one generation task
  Passes,         \* the compaction entry points in use: subset of PassKinds
  KeepTurns,      \* [memory.compaction] keep_recent_turns
  Rewrites,       \* whether clients edit, delete, regenerate and inject
  MaxReplyLines,  \* bound: lines one generation appends
  MaxLines,       \* bound: lines ever created
  MaxSegments,    \* bound: segment files
  MaxFailures,    \* bound: file writes and reads that fail
  MaxCrashes      \* bound: daemon crashes

PassKinds == {"manual", "inline", "tick"}
Free == "free"

ASSUME SessionsAssumption == Free \notin Sessions /\ Sessions \cap PassKinds = {}
ASSUME PassesAssumption == Passes \subseteq PassKinds
ASSUME BoundsAssumption ==
  /\ KeepTurns \in Nat /\ Rewrites \in BOOLEAN
  /\ MaxReplyLines \in Nat \ {0} /\ MaxLines \in Nat /\ MaxSegments \in Nat
  /\ MaxFailures \in Nat /\ MaxCrashes \in Nat

VARIABLES
  mem,           \* ConversationEngine.messages
  disk,          \* active.jsonl
  files,         \* the segment files, by index; <<>> where there is none
  listed,        \* number of segments compaction.json lists
  torn,          \* compaction.json was cut short and does not parse
  memory,        \* lines the workspace memory files consolidate
  lock,          \* holder of the engine mutex
  guard,         \* holder of the character's CompactionRunGuard
  gen,           \* each session's generation task
  pass,          \* each compaction entry point's pass
  lastRequest,   \* lines of AutonomyState.last_request; {} for None
  covered,       \* AutonomyState.covered_turn_count
  savedCovered,  \* the same count in the autonomy state file
  up,            \* the daemon is running
  fresh,         \* number of lines created
  accepted,      \* history: lines acknowledged to clients after a save
  dropped,       \* history: lines a client's request took out
  exposed,       \* history: lines changed behind a running pass's back
  overtaken,     \* history: a pass left fewer turns than another had yet to note
  unread,        \* history: turns a pass could archive and its model was not sent
  failures,
  crashes

engineVars == <<mem, disk>>
archiveVars == <<files, listed, torn>>
autonomyVars == <<lastRequest, covered, savedCovered>>
historyVars == <<accepted, dropped, exposed, overtaken, unread>>
boundVars == <<failures, crashes>>
vars == <<engineVars, archiveVars, memory, lock, guard, gen, pass,
          autonomyVars, up, fresh, historyVars, boundVars>>

NoPass == [pc |-> "off", mode |-> "llm", snap |-> <<>>, split |-> 0,
           index |-> 0, turns |-> 0, seen |-> {}, wrote |-> FALSE, before |-> {}]

NoGen == [pc |-> "idle", regen |-> FALSE, base |-> {}, alt |-> {},
          todo |-> <<>>]

GenTask ==
  [pc : {"idle", "prompt", "stream", "append"}, regen : BOOLEAN,
   base : SUBSET Line, alt : SUBSET Line, todo : Seq(Line)]

CompactionPass ==
  [pc : {"off", "asked", "read", "loop", "segment", "manifest", "active",
         "rollback", "reload", "notify", "rebuild"},
   mode : {"llm", "pure"}, snap : Seq(Line), split : Nat,
   index : 0..MaxSegments, turns : Nat, seen : SUBSET Line, wrote : BOOLEAN, before : SUBSET Line]

(* Every variable has its type: among others a pass never cuts a transcript*)
(* at a negative position, and the manifest never outgrows the files.      *)
TypeOK ==
  /\ mem \in Seq(Line) /\ disk \in Seq(Line)
  /\ files \in [1..MaxSegments -> Seq(Line)]
  /\ listed \in 0..MaxSegments /\ torn \in BOOLEAN
  /\ memory \in SUBSET Line
  /\ lock \in Sessions \cup Passes \cup {Free}
  /\ guard \in Passes \cup {Free}
  /\ gen \in [Sessions -> GenTask]
  /\ pass \in [Passes -> CompactionPass]
  /\ lastRequest \in SUBSET Line
  /\ covered \in Nat /\ savedCovered \in Nat
  /\ up \in BOOLEAN /\ fresh \in Nat
  /\ accepted \in SUBSET Line /\ dropped \in SUBSET Line
  /\ exposed \in SUBSET Line /\ overtaken \in BOOLEAN /\ unread \in SUBSET Line
  /\ failures \in Nat /\ crashes \in Nat

Init ==
  /\ mem = <<>> /\ disk = <<>>
  /\ files = [i \in 1..MaxSegments |-> <<>>] /\ listed = 0 /\ torn = FALSE
  /\ memory = {}
  /\ lock = Free /\ guard = Free
  /\ gen = [s \in Sessions |-> NoGen]
  /\ pass = [p \in Passes |-> NoPass]
  /\ lastRequest = {} /\ covered = 0 /\ savedCovered = 0
  /\ up = TRUE /\ fresh = 0
  /\ accepted = {} /\ dropped = {} /\ exposed = {} /\ overtaken = FALSE
  /\ unread = {}
  /\ failures = 0 /\ crashes = 0

-----------------------------------------------------------------------------
(* MessageStore: memory changes first, then the whole file is replaced.    *)

(* The pass decided on a transcript and has not replaced the file yet.     *)
Holding(p) ==
  pass[p].pc \in {"read", "loop", "segment", "manifest", "active"}

(* Lines whose arrival or removal a running pass does not know of.         *)
BehindPass(m) ==
  {l \in Range(m) : \E p \in Passes : Holding(p) /\ l \notin Range(pass[p].snap)}
  \cup {l \in Range(mem) \ Range(m) :
          \E p \in Passes : Holding(p) /\ l \in Range(pass[p].snap)}

Persist(m) ==
  /\ mem' = m
  /\ disk' = m
  /\ accepted' = accepted \cup Range(m)
  /\ dropped' = dropped \cup (Range(mem) \ Range(m))
  /\ exposed' = exposed \cup BehindPass(m)
  /\ UNCHANGED <<overtaken, unread, boundVars>>

(* atomic_write fails: the caller gets the error, memory stays changed.    *)
PersistFails(m) ==
  /\ failures < MaxFailures
  /\ mem' = m
  /\ dropped' = dropped \cup (Range(mem) \ Range(m))
  /\ failures' = failures + 1
  /\ UNCHANGED <<disk, accepted, exposed, overtaken, unread, crashes>>

NewLine(n, role) == [id |-> fresh + n, role |-> role]

EngineFree == up /\ lock = Free

-----------------------------------------------------------------------------
(* Generation tasks                                                        *)

(* append_user_turn of a Message request; an empty one appends nothing and *)
(* goes on.                                                                *)
StartTurn(s) ==
  LET m == Append(mem, NewLine(1, "user"))
      started == [gen EXCEPT ![s] = [NoGen EXCEPT !.pc = "prompt"]]
  IN /\ EngineFree /\ gen[s].pc = "idle"
     /\ \/ /\ fresh < MaxLines /\ fresh' = fresh + 1
           /\ \/ Persist(m) /\ gen' = started
              \/ PersistFails(m) /\ UNCHANGED gen
        \/ /\ gen' = started
           /\ UNCHANGED <<engineVars, fresh, historyVars, boundVars>>
     /\ UNCHANGED <<archiveVars, memory, lock, guard, pass, autonomyVars, up>>

(* append_user_turn of a Regen request: capture the alternative to keep.   *)
StartRegen(s) ==
  /\ EngineFree /\ gen[s].pc = "idle" /\ Rewrites
  /\ gen' = [gen EXCEPT ![s] = [NoGen EXCEPT !.pc = "prompt", !.regen = TRUE,
                                             !.alt = RegenAlternative(mem)]]
  /\ UNCHANGED <<engineVars, archiveVars, memory, lock, guard, pass,
                 autonomyVars, up, fresh, historyVars, boundVars>>

(* build_generation_request: a later look at the transcript.               *)
BuildRequest(s) ==
  /\ EngineFree /\ gen[s].pc = "prompt"
  /\ gen' = [gen EXCEPT
       ![s].pc = "stream",
       ![s].base = IF gen[s].regen THEN Range(Prefix(mem, KeepIndex(mem)))
                                   ELSE Range(mem)]
  /\ UNCHANGED <<engineVars, archiveVars, memory, lock, guard, pass,
                 autonomyVars, up, fresh, historyVars, boundVars>>

(* The model call fails, or the task is cancelled or superseded, at an     *)
(* await point before persist_and_notify.                                  *)
GenerationEnds(s) ==
  /\ up /\ gen[s].pc \in {"prompt", "stream"}
  /\ gen' = [gen EXCEPT ![s] = NoGen]
  /\ UNCHANGED <<engineVars, archiveVars, memory, lock, guard, pass,
                 autonomyVars, up, fresh, historyVars, boundVars>>

(* The n lines a finished generation leaves: pairs of tool_use and         *)
(* tool_result, then the reply, unless the model ended without any text.   *)
GeneratedLines(n) ==
  [i \in 1..n |-> NewLine(i, IF i % 2 = 0 THEN "result"
                             ELSE IF i = n THEN "reply" ELSE "call")]

(* Stands for all a request has beside the lines of the transcript.        *)
Prompt == [id |-> 0, role |-> "system"]

(* persist_and_notify takes the engine lock and caches the request with    *)
(* its response, before anything is saved.                                 *)
CacheRequest(s, lines) ==
  lastRequest' = {Prompt} \cup gen[s].base \cup Range(lines)

BeginPersist(s) ==
  \E n \in 0..MaxReplyLines :
    /\ EngineFree /\ gen[s].pc = "stream" /\ ~gen[s].regen
    /\ fresh + n <= MaxLines
    /\ fresh' = fresh + n
    /\ CacheRequest(s, GeneratedLines(n))
    /\ IF n = 0
       THEN gen' = [gen EXCEPT ![s] = NoGen] /\ UNCHANGED lock
       ELSE /\ gen' = [gen EXCEPT ![s].pc = "append",
                                  ![s].todo = GeneratedLines(n)]
            /\ lock' = s
    /\ UNCHANGED <<engineVars, archiveVars, memory, guard, pass, covered,
                   savedCovered, up, historyVars, boundVars>>

(* One append_message of apply_generated_messages_to_engine; the first one *)
(* that fails ends the task.                                               *)
AppendReply(s) ==
  LET todo == gen[s].todo
      m == Append(mem, Head(todo))
  IN /\ up /\ lock = s /\ todo # <<>>
     /\ \/ /\ Persist(m) /\ Len(todo) > 1
           /\ gen' = [gen EXCEPT ![s].todo = Tail(todo)]
           /\ UNCHANGED lock
        \/ /\ Persist(m) /\ Len(todo) = 1
           /\ gen' = [gen EXCEPT ![s] = NoGen]
           /\ lock' = Free
        \/ /\ PersistFails(m)
           /\ gen' = [gen EXCEPT ![s] = NoGen]
           /\ lock' = Free
     /\ UNCHANGED <<archiveVars, memory, guard, pass, autonomyVars, up, fresh>>

(* The regeneration's arm: replace_after_last_user_turn, in one save.      *)
PersistRegen(s) ==
  \E n \in 0..MaxReplyLines :
    LET m == Prefix(mem, KeepIndex(mem)) \o GeneratedLines(n)
    IN /\ EngineFree /\ gen[s].pc = "stream" /\ gen[s].regen
       /\ fresh + n <= MaxLines
       /\ CacheRequest(s, GeneratedLines(n))
       /\ fresh' = fresh + n
       /\ Persist(m) \/ PersistFails(m)
       /\ gen' = [gen EXCEPT ![s] = NoGen]
       /\ UNCHANGED <<archiveVars, memory, lock, guard, pass, covered,
                      savedCovered, up>>

-----------------------------------------------------------------------------
(* Other writers of the transcript                                         *)

(* The edit command.                                                       *)
EditMessage ==
  \E i \in DOMAIN mem :
    LET m == [mem EXCEPT ![i] = NewLine(1, mem[i].role)]
    IN /\ EngineFree /\ Rewrites /\ fresh < MaxLines
       /\ fresh' = fresh + 1
       /\ Persist(m) \/ PersistFails(m)
       /\ UNCHANGED <<archiveVars, memory, lock, guard, gen, pass,
                      autonomyVars, up>>

(* Mutant of DeleteMessage: the line leaves memory and nothing is saved.   *)
DeleteUnsaved ==
  \E i \in DOMAIN mem :
    /\ EngineFree /\ Rewrites
    /\ mem' = Prefix(mem, i - 1) \o Suffix(mem, i)
    /\ dropped' = dropped \cup {mem[i]}
    /\ UNCHANGED <<disk, archiveVars, memory, lock, guard, gen, pass,
                   autonomyVars, up, fresh, accepted, exposed, overtaken, unread, boundVars>>

(* The delete command, one reference at a time.                            *)
DeleteMessage ==
  \E i \in DOMAIN mem :
    LET m == Prefix(mem, i - 1) \o Suffix(mem, i)
    IN /\ EngineFree /\ Rewrites
       /\ Persist(m) \/ PersistFails(m)
       /\ UNCHANGED <<archiveVars, memory, lock, guard, gen, pass,
                      autonomyVars, up, fresh>>

(* The inject_system command.                                              *)
InjectSystem ==
  LET m == Append(mem, NewLine(1, "system"))
  IN /\ EngineFree /\ Rewrites /\ fresh < MaxLines
     /\ fresh' = fresh + 1
     /\ Persist(m) \/ PersistFails(m)
     /\ UNCHANGED <<archiveVars, memory, lock, guard, gen, pass,
                    autonomyVars, up>>

(* persist_heartbeat_message                                               *)
HeartbeatMessage ==
  LET m == Append(mem, NewLine(1, "auto"))
  IN /\ EngineFree /\ fresh < MaxLines
     /\ "tick" \in Passes /\ pass["tick"].pc = "off"
     /\ fresh' = fresh + 1
     /\ Persist(m) \/ PersistFails(m)
     /\ UNCHANGED <<archiveVars, memory, lock, guard, gen, pass,
                    autonomyVars, up>>

-----------------------------------------------------------------------------
(* Compaction passes                                                       *)

PassUnchanged == UNCHANGED <<lastRequest, covered, savedCovered, gen, up, fresh>>

(* resolve_compaction_chat_request: the cached request if there was one,   *)
(* else a request rebuilt from the transcript.                             *)
RequestLines(cached, transcript) ==
  IF cached # {} THEN cached ELSE {Prompt} \cup Range(transcript)

(* Mutant of EnterLoop: the operands of the saturating difference swapped. *)
SplitSwapped(p, transcript, split, cached) ==
  /\ listed < MaxSegments
  /\ pass' = [pass EXCEPT ![p] =
       [NoPass EXCEPT !.pc = "loop", !.snap = disk, !.before = memory,
                      !.split = Len(transcript) - split - Len(disk),
                      !.seen = RequestLines(cached, transcript)]]

(* The pass enters its model loop over a transcript it will cut before its *)
(* last `kept' lines; the file it read is what it will archive from.       *)
EnterLoop(p, transcript, split, cached) ==
  LET kept == Len(transcript) - split
  IN /\ listed < MaxSegments
     /\ pass' = [pass EXCEPT ![p] =
          [pc |-> "loop", mode |-> "llm", snap |-> disk,
           split |-> IF kept < Len(disk) THEN Len(disk) - kept ELSE 0,
           index |-> 0, turns |-> TurnCount(Suffix(transcript, split)),
           seen |-> RequestLines(cached, transcript), wrote |-> FALSE,
           before |-> memory]]

(* The compact command: the dispatcher holds the engine lock for the whole *)
(* command; the guard is tried and the command answers Busy without it.    *)
BeginManual ==
  /\ "manual" \in Passes /\ EngineFree /\ guard = Free
  /\ pass["manual"].pc = "off"
  /\ \E keep \in {0, KeepTurns} : \E split \in 1..Len(mem) :
       /\ split = ArchiveSplitIndex(mem, keep, FALSE)
       /\ EnterLoop("manual", mem, split, lastRequest)
  /\ lock' = "manual" /\ guard' = "manual"
  /\ UNCHANGED <<engineVars, archiveVars, memory, historyVars, boundVars>>
  /\ PassUnchanged

(* Mutant of Release: a pass that ended keeps what it held.                *)
NeverReleased(holder, p) == holder

Release(holder, p) == IF holder = p THEN Free ELSE holder

EndPass(p) ==
  /\ pass' = [pass EXCEPT ![p] = NoPass]
  /\ guard' = Release(guard, p)
  /\ lock' = Release(lock, p)

(* A background caller takes the cached request, the inline one right after*)
(* its generation, and only then calls run_compaction from a task.         *)
AskPass(p) ==
  /\ up /\ p # "manual" /\ pass[p].pc = "off"
  /\ pass' = [pass EXCEPT ![p] = [NoPass EXCEPT !.pc = "asked", !.seen = lastRequest]]
  /\ UNCHANGED <<engineVars, archiveVars, memory, lock, guard, historyVars,
                 boundVars>>
  /\ PassUnchanged

(* run_compaction returns an error before its first model call: another    *)
(* pass runs, the file cannot be read, there is no model or too few turns. *)
PassRefused(p) ==
  /\ up /\ pass[p].pc = "asked"
  /\ EndPass(p)
  /\ UNCHANGED <<engineVars, archiveVars, memory, historyVars, boundVars>>
  /\ PassUnchanged

(* How the background entry points call run_compaction: the inline and idle*)
(* passes, the pre-dream pass (optionally to zero), and the deep-idle pass *)
(* over a transcript whose turn count is not the covered one.              *)
BackgroundCall(p, keep, retainAutonomous) ==
  \/ keep = KeepTurns /\ ~retainAutonomous
  \/ p = "tick" /\ keep = 0 /\ ~retainAutonomous
  \/ /\ p = "tick" /\ keep = 0 /\ retainAutonomous
     /\ TurnCount(disk) # covered
     /\ TrailingAutonomous(disk) < Len(disk)

(* run_compaction up to the first model call.  The guard comes before the  *)
(* read of active.jsonl.                                                   *)
BeginBackground(p) ==
  /\ up /\ p # "manual" /\ guard = Free /\ pass[p].pc = "asked"
  /\ \E keep \in {0, KeepTurns}, retainAutonomous \in BOOLEAN :
       \E split \in 1..Len(disk) :
         /\ BackgroundCall(p, keep, retainAutonomous)
         /\ split = ArchiveSplitIndex(disk, keep, retainAutonomous)
         /\ EnterLoop(p, disk, split, pass[p].seen)
  /\ guard' = p
  /\ UNCHANGED <<engineVars, archiveVars, memory, lock, historyVars, boundVars>>
  /\ PassUnchanged

(* run_compaction on an empty file: Ok(0), and the caller reloads.         *)
BeginOnEmpty(p) ==
  /\ up /\ p # "manual" /\ guard = Free /\ pass[p].pc = "asked" /\ disk = <<>>
  /\ pass' = [pass EXCEPT ![p] = [NoPass EXCEPT !.pc = "reload"]]
  /\ UNCHANGED <<engineVars, archiveVars, memory, lock, guard, historyVars,
                 boundVars>>
  /\ PassUnchanged

(* Mutant of ReadDeepIdle: archives whatever the covered count says.       *)
DeepIdleUnchecked ==
  LET archivable == Len(disk) - TrailingAutonomous(disk)
  IN /\ up /\ "tick" \in Passes /\ pass["tick"].pc = "off" /\ archivable > 0
     /\ pass' = [pass EXCEPT !["tick"] =
                   [NoPass EXCEPT !.pc = "read", !.mode = "pure",
                                  !.snap = disk, !.split = archivable]]
     /\ UNCHANGED <<engineVars, archiveVars, memory, lock, guard, historyVars,
                    boundVars>>
     /\ PassUnchanged

(* execute_deep_idle_archive: the file is read and its turns compared with *)
(* the covered count before the guard is tried.                            *)
ReadDeepIdle ==
  LET archivable == Len(disk) - TrailingAutonomous(disk)
  IN /\ up /\ "tick" \in Passes /\ pass["tick"].pc = "off"
     /\ \E split \in 1..Len(disk) :
          /\ split = archivable
          /\ TurnCount(disk) = covered
          /\ pass' = [pass EXCEPT !["tick"] =
                        [NoPass EXCEPT !.pc = "read", !.mode = "pure",
                                       !.snap = disk, !.split = split]]
     /\ UNCHANGED <<engineVars, archiveVars, memory, lock, guard, historyVars,
                    boundVars>>
     /\ PassUnchanged

(* execute_deep_archive_pure: take the guard, or give up (as it also does  *)
(* here when no segment is left in the bound).                             *)
BeginPure(p) ==
  /\ up /\ pass[p].pc = "read"
  /\ IF guard = Free /\ listed < MaxSegments
     THEN guard' = p /\ pass' = [pass EXCEPT ![p].pc = "segment"]
     ELSE UNCHANGED guard /\ pass' = [pass EXCEPT ![p] = NoPass]
  /\ UNCHANGED <<engineVars, archiveVars, memory, lock, historyVars, boundVars>>
  /\ PassUnchanged

(* User turns of the file a pass archives from that its request lacks: the *)
(* request extends the cached one (build_initial_request), which is older  *)
(* than a turn whose generation failed or has not ended.                   *)
Unsent(p) == UserLines(Range(pass[p].snap)) \ pass[p].seen

(* dispatch_compaction_tool applies an allowed write or edit: the model    *)
(* consolidates what it was sent.                                          *)
ToolWrite(p) ==
  /\ up /\ pass[p].pc = "loop" /\ ~pass[p].wrote
  /\ memory' = memory \cup pass[p].seen
  /\ unread' = unread \cup Unsent(p)
  /\ pass' = [pass EXCEPT ![p].wrote = TRUE]
  /\ UNCHANGED <<engineVars, archiveVars, lock, guard, accepted, dropped, exposed,
                 overtaken, boundVars>>
  /\ PassUnchanged

(* try_complete_compact: with at least one write the archive follows.      *)
LoopArchives(p) ==
  /\ up /\ pass[p].pc = "loop" /\ pass[p].wrote
  /\ pass' = [pass EXCEPT ![p].pc = "segment"]
  /\ UNCHANGED <<engineVars, archiveVars, memory, lock, guard, historyVars,
                 boundVars>>
  /\ PassUnchanged

(* NoMemoryWrites: nothing is archived.  handle_compaction_outcome returns *)
(* Ok(0), so a background caller still reloads and notes zero turns.       *)
LoopWithoutWrites(p) ==
  /\ up /\ pass[p].pc = "loop" /\ ~pass[p].wrote
  /\ IF p = "manual"
     THEN EndPass(p)
     ELSE /\ pass' = [pass EXCEPT ![p] = [NoPass EXCEPT !.pc = "reload"]]
          /\ guard' = Free
          /\ UNCHANGED lock
  /\ UNCHANGED <<engineVars, archiveVars, memory, historyVars, boundVars>>
  /\ PassUnchanged

(* The model call fails: writes already applied stay.                      *)
LoopFails(p) ==
  /\ up /\ pass[p].pc = "loop"
  /\ EndPass(p)
  /\ UNCHANGED <<engineVars, archiveVars, memory, historyVars, boundVars>>
  /\ PassUnchanged

-----------------------------------------------------------------------------
(* archive_and_retain                                                      *)

Archived(p) == Prefix(pass[p].snap, pass[p].split)
Retained(p) == Suffix(pass[p].snap, pass[p].split)

(* Mutant of WriteSegment: reuses the number of the last listed segment.   *)
SegmentReusesNumber(p) ==
  /\ up /\ pass[p].pc = "segment" /\ ~torn /\ pass[p].split > 0
  /\ \E i \in 1..MaxSegments :
       /\ i = IF listed = 0 THEN 1 ELSE listed
       /\ files' = [files EXCEPT ![i] = Archived(p)]
       /\ pass' = [pass EXCEPT ![p].pc = "manifest", ![p].index = i]
  /\ UNCHANGED <<engineVars, listed, torn, memory, lock, guard, historyVars,
                 boundVars>>
  /\ PassUnchanged

(* The segment file is numbered after the manifest read here.  With nothing*)
(* to archive the step goes straight to active.jsonl.                      *)
WriteSegment(p) ==
  /\ up /\ pass[p].pc = "segment"
  /\ \/ /\ pass[p].split = 0
        /\ pass' = [pass EXCEPT ![p].pc = "active"]
        /\ UNCHANGED files
     \/ /\ pass[p].split > 0 /\ ~torn /\ listed < MaxSegments
        /\ files' = [files EXCEPT ![listed + 1] = Archived(p)]
        /\ pass' = [pass EXCEPT ![p].pc = "manifest", ![p].index = listed + 1]
  /\ UNCHANGED <<engineVars, listed, torn, memory, lock, guard, historyVars,
                 boundVars>>
  /\ PassUnchanged

(* The manifest does not parse, or the segment file is cut short.          *)
WriteSegmentFails(p) ==
  /\ up /\ pass[p].pc = "segment" /\ pass[p].split > 0
  /\ pass' = [pass EXCEPT ![p].pc = "rollback"]
  /\ \/ torn /\ UNCHANGED <<files, failures>>
     \/ /\ ~torn /\ listed < MaxSegments
        /\ failures < MaxFailures /\ failures' = failures + 1
        /\ \E n \in 0 .. pass[p].split - 1 :
             files' = [files EXCEPT ![listed + 1] = Prefix(pass[p].snap, n)]
  /\ UNCHANGED <<engineVars, listed, torn, memory, lock, guard, historyVars,
                 crashes>>
  /\ PassUnchanged

(* compaction.json lists the new segment.                                  *)
WriteManifest(p) ==
  /\ up /\ pass[p].pc = "manifest"
  /\ listed' = pass[p].index
  /\ pass' = [pass EXCEPT ![p].pc = "active"]
  /\ UNCHANGED <<engineVars, files, torn, memory, lock, guard, historyVars,
                 boundVars>>
  /\ PassUnchanged

(* Mutant of WriteManifestFails: the error is not propagated.              *)
ManifestErrorIgnored(p) ==
  /\ up /\ pass[p].pc = "manifest"
  /\ failures < MaxFailures /\ failures' = failures + 1
  /\ pass' = [pass EXCEPT ![p].pc = "active"]
  /\ UNCHANGED <<engineVars, archiveVars, memory, lock, guard, historyVars,
                 crashes>>
  /\ PassUnchanged

(* compaction.json is truncated, then written: a failure may tear it.      *)
WriteManifestFails(p) ==
  /\ up /\ pass[p].pc = "manifest"
  /\ failures < MaxFailures /\ failures' = failures + 1
  /\ torn' \in BOOLEAN
  /\ pass' = [pass EXCEPT ![p].pc = "rollback"]
  /\ UNCHANGED <<engineVars, files, listed, memory, lock, guard, historyVars,
                 crashes>>
  /\ PassUnchanged

(* Mutant of WriteActive: the caller does not reload.                      *)
NotReloaded(p) ==
  /\ up /\ pass[p].pc = "active"
  /\ disk' = Retained(p)
  /\ pass' = [pass EXCEPT ![p].pc = "notify"]
  /\ UNCHANGED <<mem, archiveVars, memory, lock, guard, historyVars, boundVars>>
  /\ PassUnchanged

Pending(p) == pass[p].pc \in {"reload", "notify"}

(* A pass replaces the file by one with fewer turns than another pass, with*)
(* its own replacement behind it, has yet to note as covered.              *)
Overtakes(p) ==
  \E q \in Passes \ {p} : Pending(q) /\ pass[q].turns > TurnCount(Retained(p))

(* active.jsonl is replaced by the retained part of what the pass read.    *)
(* run_compaction's guard ends here; the other two outlive the reload.     *)
WriteActive(p) ==
  /\ up /\ pass[p].pc = "active"
  /\ disk' = Retained(p)
  /\ pass' = [pass EXCEPT ![p].pc = "reload"]
  /\ guard' = IF p # "manual" /\ pass[p].mode = "llm" THEN Free ELSE guard
  /\ overtaken' = (overtaken \/ Overtakes(p))
  /\ UNCHANGED <<mem, archiveVars, memory, lock, accepted, dropped, exposed, unread, boundVars>>
  /\ PassUnchanged

WriteActiveFails(p) ==
  /\ up /\ pass[p].pc = "active"
  /\ failures < MaxFailures /\ failures' = failures + 1
  /\ pass' = [pass EXCEPT ![p].pc = "rollback"]
  /\ UNCHANGED <<engineVars, archiveVars, memory, lock, guard, historyVars,
                 crashes>>
  /\ PassUnchanged

(* rollback_compaction restores the memory files; the segment and its entry*)
(* in the manifest stay.  A pure archive has nothing to restore.           *)
Rollback(p) ==
  /\ up /\ pass[p].pc = "rollback"
  /\ memory' = IF pass[p].mode = "llm" THEN pass[p].before ELSE memory
  /\ EndPass(p)
  /\ UNCHANGED <<engineVars, archiveVars, historyVars, boundVars>>
  /\ PassUnchanged

-----------------------------------------------------------------------------
(* After the archive                                                       *)

(* ConversationEngine::reload under the engine lock, which the manual pass *)
(* already holds.  A torn manifest is an error found after the messages    *)
(* were replaced; the tick passes only log a failed reload.                *)
Reload(p) ==
  /\ up /\ pass[p].pc = "reload" /\ lock \in {Free, p}
  /\ mem' = disk
  /\ IF torn /\ p # "tick"
     THEN EndPass(p)
     ELSE pass' = [pass EXCEPT ![p].pc = "notify"] /\ UNCHANGED <<lock, guard>>
  /\ accepted' = IF torn THEN accepted ELSE accepted \cup Range(disk)
  /\ UNCHANGED <<disk, archiveVars, memory, dropped, exposed, overtaken, unread, boundVars>>
  /\ PassUnchanged

ReloadFails(p) ==
  /\ up /\ pass[p].pc = "reload" /\ lock \in {Free, p}
  /\ failures < MaxFailures /\ failures' = failures + 1
  /\ IF p # "tick"
     THEN EndPass(p)
     ELSE pass' = [pass EXCEPT ![p].pc = "notify"] /\ UNCHANGED <<lock, guard>>
  /\ UNCHANGED <<engineVars, archiveVars, memory, historyVars, crashes>>
  /\ PassUnchanged

(* notify_compaction_complete and its copies in the tick passes: the       *)
(* retained turns count as covered, the cached request is dropped.         *)
Notify(p) ==
  /\ up /\ pass[p].pc = "notify"
  /\ covered' = pass[p].turns
  /\ lastRequest' = {}
  /\ EndPass(p)
  /\ UNCHANGED <<engineVars, archiveVars, memory, gen, savedCovered, up, fresh,
                 historyVars, boundVars>>

(* The heartbeat and the keepalive ping rebuild a missing request from     *)
(* active.jsonl, if that ends with an assistant message ...                *)
ReadForRebuild ==
  /\ up /\ "tick" \in Passes /\ pass["tick"].pc = "off"
  /\ lastRequest = {}
  /\ disk # <<>> => disk[Len(disk)].role \in {"call", "reply", "auto"}
  /\ pass' = [pass EXCEPT !["tick"] =
       [NoPass EXCEPT !.pc = "rebuild",
          !.seen = {Prompt} \cup Range(disk)]]
  /\ UNCHANGED <<engineVars, archiveVars, memory, lock, guard, historyVars,
                 boundVars>>
  /\ PassUnchanged

(* ... and cache it without another look.                                  *)
CacheRebuilt(p) ==
  /\ up /\ pass[p].pc = "rebuild"
  /\ lastRequest' = pass[p].seen
  /\ EndPass(p)
  /\ UNCHANGED <<engineVars, archiveVars, memory, gen, covered, savedCovered, up,
                 fresh, historyVars, boundVars>>

(* save_state, at the beginning and the end of every autonomy tick.        *)
SaveAutonomy ==
  /\ up /\ covered # savedCovered
  /\ "tick" \in Passes => pass["tick"].pc = "off"
  /\ savedCovered' = covered
  /\ UNCHANGED <<engineVars, archiveVars, memory, lock, guard, gen, pass,
                 lastRequest, covered, up, fresh, historyVars, boundVars>>

(* The daemon dies; a manifest it was writing may be cut short.            *)
Crash ==
  /\ up /\ crashes < MaxCrashes
  /\ crashes' = crashes + 1
  /\ up' = FALSE
  /\ torn' \in IF \E p \in Passes : pass[p].pc = "manifest" THEN {torn, TRUE}
               ELSE {torn}
  /\ mem' = <<>> /\ lastRequest' = {} /\ covered' = 0
  /\ lock' = Free /\ guard' = Free
  /\ gen' = [s \in Sessions |-> NoGen]
  /\ pass' = [p \in Passes |-> NoPass]
  /\ UNCHANGED <<disk, files, listed, memory, savedCovered, fresh, historyVars,
                 failures>>

(* ConversationEngine::new on the next start, which needs a manifest that  *)
(* parses, and the autonomy state restored from its file.                  *)
Restart ==
  /\ ~up /\ ~torn
  /\ up' = TRUE
  /\ mem' = disk
  /\ covered' = savedCovered
  /\ accepted' = accepted \cup Range(disk)
  /\ UNCHANGED <<disk, archiveVars, memory, lock, guard, gen, pass, lastRequest,
                 savedCovered, fresh, dropped, exposed, overtaken, unread, boundVars>>

-----------------------------------------------------------------------------
GenerationStep(s) ==
  \/ BuildRequest(s) \/ BeginPersist(s) \/ AppendReply(s) \/ PersistRegen(s)

SessionStep(s) ==
  StartTurn(s) \/ StartRegen(s) \/ GenerationEnds(s) \/ GenerationStep(s)

StartAsked(p) == BeginBackground(p) \/ BeginOnEmpty(p) \/ PassRefused(p)

BeginPass(p) ==
  \/ (p = "manual" /\ BeginManual) \/ AskPass(p) \/ StartAsked(p)
  \/ (p = "tick" /\ (ReadDeepIdle \/ ReadForRebuild))

EndLoop(p) == LoopArchives(p) \/ LoopWithoutWrites(p) \/ LoopFails(p)

ArchiveStep(p) ==
  \/ WriteSegment(p) \/ WriteSegmentFails(p)
  \/ WriteManifest(p) \/ WriteManifestFails(p)
  \/ WriteActive(p) \/ WriteActiveFails(p)
  \/ Rollback(p)

FinishStep(p) == Reload(p) \/ ReloadFails(p) \/ Notify(p) \/ CacheRebuilt(p)

PassStep(p) ==
  BeginPass(p) \/ BeginPure(p) \/ ToolWrite(p) \/ EndLoop(p) \/ ArchiveStep(p)
  \/ FinishStep(p)

Next ==
  \/ \E s \in Sessions : SessionStep(s)
  \/ EditMessage \/ DeleteMessage \/ InjectSystem \/ HeartbeatMessage
  \/ \E p \in Passes : PassStep(p)
  \/ SaveAutonomy \/ Crash \/ Restart

Spec == Init /\ [][Next]_vars

(* Lock sections and file writes run to their end, a pass's model loop     *)
(* stops in the end, and the engine mutex is granted in arrival order, so a*)
(* waiting reload gets it however often it is taken meanwhile.  Nothing    *)
(* obliges anyone to start a turn or a pass.                               *)
Fairness ==
  /\ \A s \in Sessions : WF_vars(AppendReply(s))
  /\ \A p \in Passes : /\ WF_vars(StartAsked(p))
                      /\ WF_vars(BeginPure(p))
                      /\ WF_vars(EndLoop(p))
                      /\ WF_vars(ArchiveStep(p))
                      /\ SF_vars(FinishStep(p))

FairSpec == Spec /\ Fairness
-----------------------------------------------------------------------------
(* Properties                                                              *)

Archive == UNION {Range(files[i]) : i \in 1..listed}

(* No silent loss.  A line clients were told of is in active.jsonl or in a *)
(* listed segment, through failing writes and crashes between any two of   *)
(* them, unless a client took it out or it arrived behind a running pass's *)
(* back.  Rests on the order segment, manifest, active.jsonl, on the guard *)
(* and on saving memory whole.                                             *)
NoSilentLoss ==
  accepted \ (dropped \cup exposed) \subseteq Range(disk) \cup Archive

(* What the comments claim: the same without the exception for lines that  *)
(* arrive while a pass runs.                                               *)
NoLossDuringPass == accepted \ dropped \subseteq Range(disk) \cup Archive

(* An edited, deleted or regenerated line does not come back, neither in   *)
(* memory nor in the file, when every save succeeded and no pass had read  *)
(* it at the time.                                                         *)
NoResurrection ==
  failures = 0 =>
    (dropped \ exposed) \cap (Range(mem) \cup Range(disk)) = {}

(* The user turns that left active.jsonl for the archive and that no pass  *)
(* has sent to its model and kept the writes of: rolled-back writes do not *)
(* count.  Lines that came behind a pass's back are lost another way       *)
(* (NoLossDuringPass).                                                     *)
Forgotten ==
  UserLines(Archive \ Range(disk)) \ (memory \cup dropped \cup exposed)

(* A user turn is archived only when some pass has consolidated it, though *)
(* the passes that archive without the model rely on the covered turn      *)
(* count, unless a pass's request lacked it (see NothingForgotten); and    *)
(* the count says nothing any more once a pass has noted more turns than   *)
(* another one had left meanwhile.                                         *)
ArchivedTurnsRemembered == ~overtaken => Forgotten \subseteq unread

(* What the documentation claims, the model always sees the full           *)
(* conversation: the same without the exception for turns that the cached  *)
(* request of a pass lacks.                                                *)
NothingForgotten == ~overtaken => Forgotten = {}

(* A listed segment file never changes and never leaves the manifest.      *)
SegmentsImmutable ==
  [][/\ listed' >= listed
     /\ \A i \in 1..listed : files'[i] = files[i]]_vars

(* Engine memory and active.jsonl differ only until the reload of a pass   *)
(* that replaced the file (when no write ever failed).                     *)
MemoryMatchesDisk ==
  up /\ failures = 0 /\ mem # disk => \E p \in Passes : pass[p].pc = "reload"

(* Every pass ends and frees the guard, and every lock section ends: the   *)
(* passes take guard and engine lock in different orders.                  *)
PassesEnd == \A p \in Passes : pass[p].pc # "off" ~> pass[p].pc = "off"

(* What the files promise, see Chronicle: every line goes from the saved   *)
(* transcript to the archive, or out by a client's request; the archive    *)
(* only grows at its end; a line that came while no pass was working on an *)
(* older copy never goes astray.                                           *)
C == INSTANCE Chronicle WITH
  recorded <- accepted,
  active <- Range(disk) \ (Archive \cup dropped \cup exposed),
  segments <- [i \in 1..listed |-> files[i]],
  removed <- dropped,
  astray <- exposed,
  working <- \E p \in Passes : Holding(p)

ChronicleSpec == C!Spec
=============================================================================
