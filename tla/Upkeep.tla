------------------------------- MODULE Upkeep -------------------------------
(***************************************************************************)
(* When one character's conversation is compacted, archived and dreamt     *)
(* about: the triggers of the autonomy tick (autonomy/manager.rs), the     *)
(* inline pass after a generation (handler/task.rs), the compact command,  *)
(* and what each of them does to the trigger flag, the turn count and the  *)
(* idle clock when it is done.  A pass that archived refreshes the prompt  *)
(* files (PromptFiles).  The transcript is its number of user turns and    *)
(* whether unanswered autonomous messages trail; Conversation has its      *)
(* lines.  Clocks count up to the threshold they are compared with.        *)
(***************************************************************************)
EXTENDS PromptFiles

CONSTANTS
  Inlines,       \* inline passes that may exist at once
  KeepTurns,     \* keep_recent_turns
  MinTurns,      \* min_turns
  MaxTurns,      \* max_turns
  IdleTrigger,   \* idle_trigger
  ArchiveAfter,  \* archive_after, enabled
  Inactive,      \* minimum_inactive_time of dreaming
  RetryDelay,    \* background_retry_delay
  DreamKeep,     \* compact_to_zero: "zero", else "keep"
  MaxMessages    \* bound on the user's messages

(* CompactionConfig::validate.                                             *)
ASSUME UpkeepAssumption ==
  /\ KeepTurns \in Nat /\ MinTurns \in Nat /\ MaxTurns \in Nat
  /\ KeepTurns < MinTurns /\ MinTurns <= MaxTurns
  /\ IdleTrigger \in Nat \ {0} /\ ArchiveAfter \in Nat \ {0}
  /\ Inactive \in Nat /\ RetryDelay \in Nat \ {0}
  /\ DreamKeep \in {"keep", "zero"} /\ MaxMessages \in Nat
  /\ Callers = Inlines \cup {"tick", "manual"}
  /\ Inlines \cap {"tick", "manual"} = {}

Passes == Callers
Nobody == "nobody"
Max2(m, n) == IF m > n THEN m ELSE n
IdleCap == Max2(IdleTrigger, ArchiveAfter)

VARIABLES
  turns, spoken,  \* active.jsonl: user turns; a trailing autonomous message
  count,          \* active_turn_count
  covered,        \* covered_turn_count
  triggered,      \* compaction_triggered
  archived,       \* deep_archive_done
  idle,           \* time since last_compaction_activity
  away,           \* time since the user's last message
  backoff,        \* time until next_dream_attempt_at
  dreamDue,       \* an occurrence of the schedule waits for its dream
  jobs,           \* what the running tick has left to do, in JobOrder
  pass,           \* the compaction passes
  guard,          \* holder of the compaction run guard
  gen,            \* stage of the generation
  messages

fileOf == <<turns, spoken>>
clocks == <<idle, away, backoff>>
stateVars == <<count, covered, triggered, archived, idle, away, backoff>>
vars == <<fileVars, fileOf, stateVars, dreamDue, jobs, pass, guard, gen,
          messages>>

Jobs == {"beat", "compact", "archive", "dream", "sweep"}
Later(job) ==
  CASE job = "beat" -> Jobs \ {"beat"}
    [] job = "compact" -> {"archive", "dream", "sweep"}
    [] job = "archive" -> {"dream", "sweep"}
    [] OTHER -> {}

NoPass == [stage |-> "off", kind |-> "keep", turns |-> 0, spoken |-> FALSE]
PassRecord == [stage : {"off", "asked", "thinking", "back", "refreshing"},
               kind : {"keep", "zero", "tail", "pure"},
               turns : 0..MaxMessages, spoken : BOOLEAN]

TypeOK ==
  /\ FilesTypeOK
  /\ turns \in 0..MaxMessages /\ spoken \in BOOLEAN
  /\ count \in 0..MaxMessages /\ covered \in 0..MaxMessages
  /\ triggered \in BOOLEAN /\ archived \in BOOLEAN
  /\ idle \in 0..IdleCap /\ away \in 0..Inactive /\ backoff \in 0..RetryDelay
  /\ dreamDue \in BOOLEAN /\ jobs \subseteq Jobs
  /\ pass \in [Passes -> PassRecord]
  /\ guard \in Passes \cup {Nobody}
  /\ gen \in {"none", "appended", "asking", "answered"}
  /\ messages \in 0..MaxMessages

(* A daemon that starts on an empty conversation.                          *)
Init ==
  /\ FilesInit
  /\ turns = 0 /\ spoken = FALSE
  /\ count = 0 /\ covered = 0 /\ triggered = FALSE /\ archived = FALSE
  /\ idle = 0 /\ away = Inactive /\ backoff = 0
  /\ dreamDue = FALSE /\ jobs = {}
  /\ pass = [p \in Passes |-> NoPass] /\ guard = Nobody
  /\ gen = "none" /\ messages = 0

(* The compact command holds the engine lock from begin to end.            *)
EngineFree == pass["manual"].stage = "off"

-----------------------------------------------------------------------------
(* Time, the dream schedule, and the conversation                          *)

Elapse ==
  /\ idle' = IF idle < IdleCap THEN idle + 1 ELSE idle
  /\ away' = IF away < Inactive THEN away + 1 ELSE away
  /\ backoff' = IF backoff > 0 THEN backoff - 1 ELSE 0
  /\ UNCHANGED <<fileVars, fileOf, count, covered, triggered, archived,
                 dreamDue, jobs, pass, guard, gen, messages>>

(* is_due: an occurrence comes, or is later than max_lateness.             *)
DreamFallsDue ==
  /\ dreamDue' = ~dreamDue
  /\ UNCHANGED <<fileVars, fileOf, stateVars, jobs, pass, guard, gen, messages>>

Append ==
  /\ gen = "none" /\ EngineFree /\ messages < MaxMessages
  /\ turns' = turns + 1 /\ spoken' = FALSE
  /\ messages' = messages + 1 /\ gen' = "appended"
  /\ UNCHANGED <<fileVars, stateVars, dreamDue, jobs, pass, guard>>

(* notify_user_message                                                     *)
NotifyUser ==
  /\ gen = "appended" /\ EngineFree
  /\ count' = turns /\ idle' = 0 /\ away' = 0 /\ archived' = FALSE
  /\ gen' = "asking"
  /\ UNCHANGED <<fileVars, fileOf, covered, triggered, backoff, dreamDue, jobs,
                 pass, guard, messages>>

(* persist_and_notify and notify_assistant_message                         *)
Reply ==
  /\ gen = "asking" /\ EngineFree
  /\ count' = turns /\ idle' = 0 /\ archived' = FALSE
  /\ gen' = "answered"
  /\ UNCHANGED <<fileVars, fileOf, covered, triggered, away, backoff, dreamDue,
                 jobs, pass, guard, messages>>

(* The generation fails or is cancelled; its turn stays.                   *)
GiveUp ==
  /\ gen \in {"appended", "asking"}
  /\ gen' = "none"
  /\ UNCHANGED <<fileVars, fileOf, stateVars, dreamDue, jobs, pass, guard,
                 messages>>

(* Mutant of Delete: of a transcript without turns.                        *)
DeleteUnchecked ==
  /\ EngineFree
  /\ turns' = turns - 1
  /\ UNCHANGED <<fileVars, spoken, stateVars, dreamDue, jobs, pass, guard,
                 gen, messages>>

(* The delete command removes a turn, and tells nobody.                    *)
Delete ==
  /\ EngineFree /\ turns > 0
  /\ turns' = turns - 1
  /\ UNCHANGED <<fileVars, spoken, stateVars, dreamDue, jobs, pass, guard,
                 gen, messages>>

(* should_compact_now by turns or, from min_turns on, by context tokens;   *)
(* maybe_schedule_compaction detaches the pass.                            *)
ScheduleInline(i) ==
  /\ gen = "answered" /\ EngineFree /\ turns >= MinTurns
  /\ pass[i].stage = "off"
  /\ triggered' = TRUE
  /\ pass' = [pass EXCEPT ![i] = [NoPass EXCEPT !.stage = "asked"]]
  /\ gen' = "none"
  /\ UNCHANGED <<fileVars, fileOf, count, covered, archived, clocks, dreamDue,
                 jobs, guard, messages>>

NoInline ==
  /\ gen = "answered" /\ turns < MaxTurns
  /\ gen' = "none"
  /\ UNCHANGED <<fileVars, fileOf, stateVars, dreamDue, jobs, pass, guard,
                 messages>>

-----------------------------------------------------------------------------
(* The autonomy tick: jobs are collected at once and done in order         *)

Current(job) == job \in jobs /\ jobs \subseteq Later(job) \cup {job}
Turn(job) == Current(job) /\ pass["tick"].stage = "off"

Done(job) == jobs' = jobs \ {job}

(* compaction_trigger_fired                                                *)
CompactionFires ==
  /\ ~triggered
  /\ count >= MaxTurns \/ (count >= MinTurns /\ idle >= IdleTrigger)

(* deep_archive_trigger_fired                                              *)
ArchiveFires ==
  /\ ~triggered /\ ~CompactionFires /\ ~archived
  /\ idle >= ArchiveAfter

(* collect_tick_actions.  Whether the heartbeat is due is Autonomy's.      *)
Collect ==
  /\ jobs = {} /\ pass["tick"].stage = "off"
  /\ \E beat \in SUBSET {"beat"} :
       jobs' = beat \cup {job \in {"compact"} : CompactionFires}
                    \cup {job \in {"archive"} : ArchiveFires}
                    \cup {job \in {"dream"} : backoff = 0 /\ away = Inactive}
  /\ jobs' # {}
  /\ triggered' = (triggered \/ CompactionFires \/ ArchiveFires)
  /\ UNCHANGED <<fileVars, fileOf, count, covered, archived, clocks, dreamDue,
                 pass, guard, gen, messages>>

(* execute_heartbeat_tick, which may send a message of its own.            *)
Beat ==
  /\ Turn("beat") /\ Done("beat")
  /\ spoken' \in {spoken, EngineFree}
  /\ UNCHANGED <<fileVars, turns, stateVars, dreamDue, pass, guard, gen,
                 messages>>

TickAsks(kind) ==
  pass' = [pass EXCEPT !["tick"] =
             [stage |-> "asked", kind |-> kind, turns |-> turns,
              spoken |-> spoken]]

(* execute_idle_compaction: whether the user came back during the          *)
(* heartbeat is not looked at again.                                       *)
StartIdlePass ==
  /\ Turn("compact")
  /\ TickAsks("keep")
  /\ UNCHANGED <<fileVars, fileOf, stateVars, dreamDue, jobs, guard, gen,
                 messages>>

(* Mutant of ReleaseTrigger: only the clock is pushed forward.             *)
ReleaseClock == UNCHANGED triggered /\ idle' = 0

(* release_deep_archive_trigger                                            *)
ReleaseTrigger == triggered' = FALSE /\ idle' = 0

StillIdle == ~archived /\ idle >= ArchiveAfter

(* execute_deep_archive_if_still_idle: messages came meanwhile, or the file*)
(* cannot be read.                                                         *)
SkipArchive ==
  /\ Turn("archive") /\ Done("archive")
  /\ ReleaseTrigger
  /\ \/ ~StillIdle /\ UNCHANGED faults
     \/ StillIdle /\ Fault
  /\ UNCHANGED <<copyVars, fileOf,
                 count, covered, archived, away, backoff, dreamDue, pass, guard,
                 gen, messages>>

(* Mutant of NothingToArchive: the flag is left for the next trigger.      *)
NothingKeepsFlag ==
  /\ Turn("archive") /\ Done("archive")
  /\ StillIdle /\ turns = 0
  /\ archived' = TRUE
  /\ UNCHANGED <<fileVars, fileOf, count, covered, triggered, clocks, dreamDue,
                 pass, guard, gen, messages>>

NothingToArchive ==
  /\ Turn("archive") /\ Done("archive")
  /\ StillIdle /\ turns = 0
  /\ archived' = TRUE /\ triggered' = FALSE
  /\ UNCHANGED <<fileVars, fileOf, count, covered, clocks, dreamDue, pass,
                 guard, gen, messages>>

(* execute_deep_idle_archive: a covered conversation is moved, another is  *)
(* compacted with nothing kept but what the user has not seen.             *)
StartArchive ==
  /\ Turn("archive")
  /\ StillIdle /\ turns > 0
  /\ TickAsks(IF turns = covered THEN "pure" ELSE "tail")
  /\ UNCHANGED <<fileVars, fileOf, stateVars, dreamDue, jobs, guard, gen,
                 messages>>

(* The dream is skipped: the user is back, no occurrence waits (which ends *)
(* a back-off), or the dream state cannot be read (which starts one).      *)
SkipDream ==
  /\ Turn("dream") /\ Done("dream")
  /\ \/ away < Inactive /\ UNCHANGED <<backoff, faults>>
     \/ away = Inactive /\ ~dreamDue /\ backoff' = 0 /\ UNCHANGED faults
     \/ away = Inactive /\ Fault /\ backoff' = RetryDelay
  /\ UNCHANGED <<copyVars, fileOf,
                 count, covered, triggered, archived, idle, away, dreamDue,
                 pass, guard, gen, messages>>

(* execute_scheduled_dream: compact_before, from min_turns on.             *)
StartDream ==
  /\ Turn("dream")
  /\ away = Inactive /\ dreamDue
  /\ IF count >= MinTurns
     THEN TickAsks(DreamKeep) /\ UNCHANGED jobs
     ELSE jobs' = (jobs \ {"dream"}) \cup {"sweep"} /\ UNCHANGED pass
  /\ UNCHANGED <<fileVars, fileOf, stateVars, dreamDue, guard, gen, messages>>

(* run_librarian_sweep, and record_scheduled_dream_outcome.                *)
Sweep ==
  /\ Turn("sweep") /\ Done("sweep")
  /\ dreamDue' = FALSE /\ backoff' = 0
  /\ UNCHANGED <<fileVars, fileOf, count, covered, triggered, archived, idle,
                 away, pass, guard, gen, messages>>

SweepFails ==
  /\ Turn("sweep") /\ Done("sweep")
  /\ dreamDue /\ Fault
  /\ backoff' = RetryDelay
  /\ UNCHANGED <<copyVars, fileOf,
                 count, covered, triggered, archived, idle, away, dreamDue,
                 pass, guard, gen, messages>>

-----------------------------------------------------------------------------
(* Compaction passes                                                       *)

(* The compact command, keeping keep_turns of the request or of the        *)
(* configuration; it answers Busy without the guard.                       *)
BeginManual(kind) ==
  /\ EngineFree /\ guard = Nobody
  /\ turns > IF kind = "keep" THEN KeepTurns ELSE 0
  /\ pass' = [pass EXCEPT !["manual"] =
                [stage |-> "thinking", kind |-> kind, turns |-> turns,
                 spoken |-> spoken]]
  /\ guard' = "manual"
  /\ UNCHANGED <<fileVars, fileOf, stateVars, dreamDue, jobs, gen, messages>>

EmptyFile == turns = 0 /\ ~spoken

(* archive_split_index is not zero.                                        *)
Splits(kind) ==
  CASE kind = "keep" -> turns > KeepTurns
    [] kind = "zero" -> turns > 0 \/ spoken
    [] kind = "tail" -> turns > 0
    [] OTHER -> TRUE

(* The guard is taken; run_compaction reads the file after it, the pure    *)
(* archive has read it before.                                             *)
Begin(p) ==
  /\ p # "manual" /\ pass[p].stage = "asked" /\ guard = Nobody
  /\ Splits(pass[p].kind)
  /\ guard' = p
  /\ pass' = [pass EXCEPT ![p].stage = "thinking",
                          ![p].turns = IF pass[p].kind = "pure" THEN @ ELSE turns,
                          ![p].spoken = IF pass[p].kind = "pure" THEN @ ELSE spoken]
  /\ UNCHANGED <<fileVars, fileOf, stateVars, dreamDue, jobs, gen, messages>>

(* run_compaction on an empty file: Ok(0).                                 *)
BeginOnEmpty(p) ==
  /\ p # "manual" /\ pass[p].stage = "asked" /\ guard = Nobody
  /\ pass[p].kind # "pure" /\ EmptyFile
  /\ pass' = [pass EXCEPT ![p].stage = "back", ![p].turns = 0]
  /\ UNCHANGED <<fileVars, fileOf, stateVars, dreamDue, jobs, guard, gen,
                 messages>>

(* The run guard ends with run_compaction; the command and the pure archive*)
(* hold it until they are done.                                            *)
HoldsOn(p) == p = "manual" \/ pass[p].kind = "pure"
GuardAfterRun(p) == IF HoldsOn(p) THEN guard ELSE Nobody
GuardAfterAll(p) == IF guard = p THEN Nobody ELSE guard

KeptTurns(p) == IF pass[p].kind = "keep" THEN KeepTurns ELSE 0

(* archive_and_retain, from what was read: turns that came since are gone. *)
Archives(p) ==
  /\ pass[p].stage = "thinking"
  /\ turns' = KeptTurns(p)
  /\ spoken' = (pass[p].spoken /\ pass[p].kind # "zero")
  /\ guard' = GuardAfterRun(p)
  /\ pass' = [pass EXCEPT ![p].stage = "back", ![p].turns = KeptTurns(p)]
  /\ UNCHANGED <<fileVars, stateVars, dreamDue, jobs, gen, messages>>

(* NoMemoryWrites: nothing is archived, and a background caller gets Ok(0) *)
(* all the same.                                                           *)
NoWrites(p) ==
  /\ pass[p].stage = "thinking" /\ pass[p].kind # "pure" /\ Fault
  /\ pass' = [pass EXCEPT ![p] =
                IF p = "manual" THEN NoPass
                ELSE [@ EXCEPT !.stage = "back", !.turns = 0]]
  /\ guard' = Nobody
  /\ UNCHANGED <<copyVars, fileOf, stateVars, dreamDue, jobs, gen, messages>>

(* After the pass the engine is reloaded, under its lock, and the prompt   *)
(* files are refreshed.                                                    *)
Reload(p) ==
  /\ pass[p].stage = "back"
  /\ EngineFree \/ p = "manual"
  /\ BeginRefresh(p)
  /\ pass' = [pass EXCEPT ![p].stage = "refreshing"]
  /\ UNCHANGED <<fileOf, stateVars, dreamDue, jobs, guard, gen, messages>>

Refreshing(p) ==
  /\ \/ \E f \in Files : CopyFile(p, f)
     \/ CopyFails(p)
     \/ EndRefresh(p)
  /\ UNCHANGED <<fileOf, stateVars, dreamDue, jobs, pass, guard, gen, messages>>

(* What each caller notes when its pass went well.                         *)
Completes(p) ==
  /\ pass[p].stage = "refreshing" /\ ~refresh[p].on
  /\ pass' = [pass EXCEPT ![p] = NoPass]
  /\ guard' = GuardAfterAll(p)
  /\ count' = pass[p].turns /\ covered' = pass[p].turns
  /\ idle' = 0
  /\ archived' = (archived \/ pass[p].kind = "pure")
  /\ \/ p # "tick" /\ triggered' = FALSE /\ UNCHANGED jobs
     \/ /\ p = "tick" /\ triggered' = FALSE
        /\ \E job \in {"compact", "archive"} : Current(job) /\ Done(job)
     \/ /\ p = "tick" /\ Current("dream") /\ UNCHANGED triggered
        /\ jobs' = (jobs \ {"dream"}) \cup {"sweep"}
  /\ UNCHANGED <<fileVars, fileOf, away, backoff, dreamDue, gen, messages>>

(* Ways to fail: another pass has the guard, there is nothing to compact,  *)
(* or the model or the archive fails.                                      *)
Refused(p) ==
  /\ p # "manual" /\ pass[p].stage = "asked"
  /\ \/ guard # Nobody
     \/ ~Splits(pass[p].kind) /\ ~EmptyFile
  /\ UNCHANGED faults

Breaks(p) == pass[p].stage = "thinking" /\ Fault

(* The engine cannot be reloaded: the inline pass and the command give up, *)
(* the tick goes on.                                                       *)
ReloadBreaks(p) ==
  /\ p # "tick" /\ pass[p].stage = "back"
  /\ EngineFree \/ p = "manual"
  /\ Fault

(* What each caller notes when its pass went wrong.                        *)
Fails(p) ==
  /\ Refused(p) \/ Breaks(p) \/ ReloadBreaks(p)
  /\ pass' = [pass EXCEPT ![p] = NoPass]
  /\ guard' = GuardAfterAll(p)
  /\ \/ p = "manual" /\ UNCHANGED <<triggered, idle, backoff, jobs>>
     \/ p \in Inlines /\ ReleaseTrigger /\ UNCHANGED <<backoff, jobs>>
     \/ /\ p = "tick" /\ ReleaseTrigger /\ UNCHANGED backoff
        /\ \E job \in {"compact", "archive"} : Current(job) /\ Done(job)
     \/ /\ p = "tick" /\ Current("dream") /\ Done("dream")
        /\ backoff' = RetryDelay /\ UNCHANGED <<triggered, idle>>
  /\ UNCHANGED <<copyVars, fileOf, count, covered, archived, away, dreamDue, gen,
                 messages>>

-----------------------------------------------------------------------------
PassStep(p) ==
  \/ Begin(p) \/ BeginOnEmpty(p) \/ Archives(p) \/ NoWrites(p) \/ Reload(p)
  \/ Refreshing(p) \/ Completes(p) \/ Fails(p)

TickStep ==
  \/ Collect \/ Beat \/ StartIdlePass \/ SkipArchive \/ NothingToArchive
  \/ StartArchive \/ SkipDream \/ StartDream \/ Sweep \/ SweepFails

Edits == EditNext /\ UNCHANGED <<fileOf, stateVars, dreamDue, jobs, pass, guard,
                                gen, messages>>

Next ==
  \/ Elapse \/ DreamFallsDue \/ TickStep \/ Edits
  \/ Append \/ NotifyUser \/ Reply \/ GiveUp \/ Delete \/ NoInline
  \/ \E i \in Inlines : ScheduleInline(i)
  \/ \E kind \in {"keep", "zero"} : BeginManual(kind)
  \/ \E p \in Passes : PassStep(p)

Spec == Init /\ [][Next]_vars

(* Time passes, the tick task ticks, and a pass that was begun goes on: no *)
(* more faults come once their bound is reached.                           *)
Fairness ==
  /\ WF_vars(Elapse) /\ WF_vars(TickStep)
  /\ \A p \in Passes : WF_vars(PassStep(p))

FairSpec == Spec /\ Fairness

-----------------------------------------------------------------------------
(* The trigger flag is set only while somebody is there to clear it: a     *)
(* compaction or archive of the running tick, or an inline pass.  Left set,*)
(* it would switch both triggers off for good (compaction_triggered).      *)
FlagIsOwned ==
  triggered =>
    \/ jobs \cap {"compact", "archive"} # {}
    \/ \E i \in Inlines : pass[i].stage # "off"

(* A conversation in which nothing more is said ends up archived, or marked*)
(* as archived: failed passes, passes without writes and the clock they    *)
(* push forward do not put it off for ever, as long as the recorded turn   *)
(* count does not stay above the file's (execute_deep_idle_archive).       *)
QuietEnds ==
  <>[](count <= turns) => <>[](turns = 0 \/ archived)
=============================================================================
