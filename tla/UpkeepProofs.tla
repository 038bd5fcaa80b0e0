---------------------------- MODULE UpkeepProofs ----------------------------
(***************************************************************************)
(* Proofs about Upkeep, for any thresholds, files, inline passes and bounds*)
(***************************************************************************)
EXTENDS Upkeep, TLAPS

-----------------------------------------------------------------------------
(* Types                                                                   *)

(* Counts stay within the messages there were, and a pass that keeps turns *)
(* has read more of them than it keeps.                                    *)
Counted ==
  /\ turns <= messages
  /\ \A p \in Passes : pass[p].turns <= messages
  /\ \A p \in Passes : pass[p].stage = "thinking" /\ pass[p].kind = "keep"
                         => KeepTurns < pass[p].turns

LEMMA FilesTypeInit == Init => FilesTypeOK
<1> SUFFICES ASSUME Init PROVE FilesTypeOK
  OBVIOUS
<1>1. refresh \in [Callers -> [on : BOOLEAN, left : SUBSET Files]]
  BY DEF Init, FilesInit, Idle
<1> QED
  BY <1>1, FilesAssumption DEF Init, FilesInit, FilesTypeOK, Missing, Empty

LEMMA FilesTypeNext ==
  ASSUME FilesTypeOK,
         \/ EditNext
         \/ \E p \in Callers : \/ BeginRefresh(p) \/ CopyFails(p) \/ EndRefresh(p)
                               \/ \E f \in Files : CopyFile(p, f)
         \/ UNCHANGED fileVars
         \/ UNCHANGED copyVars /\ Fault
  PROVE  FilesTypeOK'
<1> USE FilesAssumption DEF Missing, Empty
<1>1. ASSUME NEW f \in Files, ToolWrites(f) \/ UserWrites(f) PROVE FilesTypeOK'
  <2>1. workspace' \in [Files -> Missing..MaxEdits]
    BY <1>1 DEF ToolWrites, UserWrites, WorkspaceChanges, FilesTypeOK
  <2>2. late' \in [Callers -> SUBSET Files]
    BY <1>1 DEF ToolWrites, UserWrites, WorkspaceChanges, TooLate, FilesTypeOK
  <2> QED
    BY <1>1, <2>1, <2>2 DEF ToolWrites, UserWrites, FilesTypeOK
<1>2. ASSUME NEW f \in Files,
             \/ SentinelLooks(f) \/ SentinelWrites(f) \/ QueueEdit(f) \/ QueueEditFails(f)
             \/ SeedLooks(f) \/ SeedCopies(f)
      PROVE  FilesTypeOK'
  <2>1. CASE SentinelWrites(f)
    <3>1. active' \in [Files -> Missing..Empty] /\ late' \in [Callers -> SUBSET Files]
      BY <2>1 DEF SentinelWrites, TooLate, FilesTypeOK
    <3> QED
      BY <2>1, <3>1 DEF SentinelWrites, FilesTypeOK
  <2>2. CASE SeedLooks(f) \/ SeedCopies(f)
    BY <2>2 DEF SeedLooks, SeedCopies, FilesTypeOK
  <2>3. CASE SentinelLooks(f) \/ QueueEdit(f) \/ QueueEditFails(f)
    BY <2>3 DEF SentinelLooks, QueueEdit, QueueEditFails, FilesTypeOK, Fault
  <2> QED
    BY <1>2, <2>1, <2>2, <2>3
<1>3. ASSUME NEW p \in Callers, BeginRefresh(p) \/ CopyFails(p) \/ EndRefresh(p)
      PROVE  FilesTypeOK'
  <2>1. refresh' \in [Callers -> [on : BOOLEAN, left : SUBSET Files]]
    <3>1. [on |-> TRUE, left |-> Files] \in [on : BOOLEAN, left : SUBSET Files]
      OBVIOUS
    <3>2. Idle \in [on : BOOLEAN, left : SUBSET Files]
      BY DEF Idle
    <3> QED
      BY <1>3, <3>1, <3>2 DEF BeginRefresh, CopyFails, EndRefresh, FilesTypeOK
  <2>2. late' \in [Callers -> SUBSET Files] /\ faults' \in 0..MaxFaults
    BY <1>3 DEF BeginRefresh, CopyFails, EndRefresh, FilesTypeOK, Fault
  <2> QED
    BY <1>3, <2>1, <2>2 DEF BeginRefresh, CopyFails, EndRefresh, FilesTypeOK
<1>4. ASSUME NEW p \in Callers, NEW f \in Files, CopyFile(p, f) PROVE FilesTypeOK'
  <2>1. refresh' \in [Callers -> [on : BOOLEAN, left : SUBSET Files]]
    BY <1>4 DEF CopyFile, FilesTypeOK
  <2> QED
    BY <1>4, <2>1 DEF CopyFile, FilesTypeOK
<1>5. CASE UNCHANGED fileVars
  BY <1>5 DEF FilesTypeOK, fileVars, copyVars
<1>6. CASE UNCHANGED copyVars /\ Fault
  BY <1>6 DEF FilesTypeOK, copyVars, Fault
<1> QED
  BY <1>1, <1>2, <1>3, <1>4, <1>5, <1>6 DEF EditNext

LEMMA TypeInit == Init => TypeOK /\ Counted
<1> SUFFICES ASSUME Init PROVE TypeOK /\ Counted
  OBVIOUS
<1>1. NoPass \in PassRecord /\ NoPass.stage = "off" /\ NoPass.turns = 0
  BY UpkeepAssumption DEF NoPass, PassRecord
<1>2. pass \in [Passes -> PassRecord]
  BY <1>1 DEF Init
<1>3. IdleCap \in Nat
  BY UpkeepAssumption DEF IdleCap, Max2
<1>4. spoken \in BOOLEAN /\ triggered \in BOOLEAN /\ archived \in BOOLEAN /\ dreamDue \in BOOLEAN
  BY Zenon DEF Init
<1>5. TypeOK
  BY <1>2, <1>3, <1>4, FilesTypeInit, UpkeepAssumption DEF Init, TypeOK
<1>6. Counted
  BY <1>1 DEF Init, Counted
<1> QED
  BY <1>5, <1>6

(* The clocks, the conversation and the dream schedule.                    *)
LEMMA TypeTalk ==
  ASSUME TypeOK, Counted,
         \/ Elapse \/ DreamFallsDue \/ Append \/ NotifyUser \/ Reply \/ GiveUp
         \/ Delete \/ NoInline \/ Edits \/ UNCHANGED vars
  PROVE  TypeOK' /\ Counted'
<1> USE UpkeepAssumption
<1>1. IdleCap \in Nat
  BY DEF IdleCap, Max2
<1>2. CASE Elapse
  BY <1>1, <1>2, FilesTypeNext DEF Elapse, TypeOK, Counted, fileOf
<1>3. CASE DreamFallsDue
  <2>1. dreamDue' \in BOOLEAN
    BY <1>3, Zenon DEF DreamFallsDue
  <2> QED
    BY <1>3, <2>1, FilesTypeNext DEF DreamFallsDue, TypeOK, Counted, fileOf, stateVars
<1>4. CASE Append
  <2>1. spoken' \in BOOLEAN
    BY <1>4, Zenon DEF Append
  <2> QED
    BY <1>4, <2>1, FilesTypeNext DEF Append, TypeOK, Counted, stateVars, PassRecord
<1>5. CASE NotifyUser \/ Reply
  <2>1. archived' \in BOOLEAN
    BY <1>5, Zenon DEF NotifyUser, Reply
  <2> QED
    BY <1>1, <1>5, <2>1, FilesTypeNext DEF NotifyUser, Reply, TypeOK, Counted, fileOf
<1>6. CASE GiveUp \/ NoInline
  BY <1>6, FilesTypeNext DEF GiveUp, NoInline, TypeOK, Counted, fileOf, stateVars
<1>7. CASE Delete
  BY <1>7, FilesTypeNext DEF Delete, TypeOK, Counted, stateVars
<1>8. CASE Edits
  <2>1. FilesTypeOK'
    BY <1>8, FilesTypeNext DEF Edits, TypeOK
  <2> QED
    BY <1>8, <2>1 DEF Edits, TypeOK, Counted, fileOf, stateVars
<1>9. CASE UNCHANGED vars
  BY <1>9, FilesTypeNext DEF vars, TypeOK, Counted, fileOf, stateVars
<1> QED
  BY <1>2, <1>3, <1>4, <1>5, <1>6, <1>7, <1>8, <1>9

LEMMA TickAsksType ==
  ASSUME TypeOK, Counted, NEW kind \in {"keep", "zero", "tail", "pure"}, TickAsks(kind)
  PROVE  /\ pass' \in [Passes -> PassRecord]
         /\ \A p \in Passes : pass'[p].turns <= messages
         /\ \A p \in Passes : pass'[p].stage = "thinking" /\ pass'[p].kind = "keep"
                                => KeepTurns < pass'[p].turns
<1> DEFINE r == [stage |-> "asked", kind |-> kind, turns |-> turns, spoken |-> spoken]
<1>1. r \in PassRecord /\ r.stage = "asked" /\ r.turns = turns
  BY DEF TypeOK, PassRecord
<1>2. \A p \in Passes : pass'[p] \in {pass[p], r}
  BY DEF TickAsks, TypeOK
<1>3. pass' \in [Passes -> PassRecord]
  BY <1>1 DEF TickAsks, TypeOK
<1> HIDE DEF r
<1> QED
  BY <1>1, <1>2, <1>3 DEF Counted

(* The jobs of a tick.                                                     *)
LEMMA TypeTick ==
  ASSUME TypeOK, Counted, TickStep
  PROVE  TypeOK' /\ Counted'
<1> USE UpkeepAssumption
<1>1. IdleCap \in Nat
  BY DEF IdleCap, Max2
<1>2. CASE Collect
  <2>1. triggered' \in BOOLEAN
    BY <1>2, Zenon DEF Collect
  <2>2. jobs' \subseteq Jobs
    BY <1>2 DEF Collect, Jobs
  <2> QED
    BY <1>2, <2>1, <2>2, FilesTypeNext DEF Collect, TypeOK, Counted, fileOf, clocks
<1>3. CASE Beat
  <2>1. spoken' \in BOOLEAN
    <3>1. EngineFree \in BOOLEAN
      BY DEF EngineFree
    <3> QED
      BY <1>3, <3>1 DEF Beat, TypeOK
  <2> QED
    BY <1>3, <2>1, FilesTypeNext DEF Beat, Done, TypeOK, Counted, stateVars
<1>4. CASE StartIdlePass \/ StartArchive
  <2>1. PICK kind \in {"keep", "zero", "tail", "pure"} : TickAsks(kind)
    <3>1. CASE StartIdlePass
      BY <3>1 DEF StartIdlePass
    <3>2. CASE StartArchive
      <4>1. CASE turns = covered
        BY <3>2, <4>1 DEF StartArchive
      <4>2. CASE turns # covered
        BY <3>2, <4>2 DEF StartArchive
      <4> QED
        BY <4>1, <4>2
    <3> QED
      BY <1>4, <3>1, <3>2
  <2>2. UNCHANGED <<fileVars, fileOf, stateVars, dreamDue, jobs, guard, gen, messages>>
    BY <1>4 DEF StartIdlePass, StartArchive
  <2> QED
    BY <2>1, <2>2, TickAsksType, FilesTypeNext DEF TypeOK, Counted, fileOf, stateVars
<1>5. CASE SkipArchive
  <2>1. FilesTypeOK'
    <3>1. UNCHANGED fileVars \/ (UNCHANGED copyVars /\ Fault)
      BY <1>5 DEF SkipArchive, fileVars, copyVars
    <3> QED
      BY <3>1, FilesTypeNext DEF TypeOK
  <2>2. triggered' \in BOOLEAN /\ idle' = 0
    BY <1>5, Zenon DEF SkipArchive, ReleaseTrigger
  <2> QED
    BY <1>1, <1>5, <2>1, <2>2 DEF SkipArchive, Done, TypeOK, Counted, fileOf
<1>6. CASE NothingToArchive
  <2>1. triggered' \in BOOLEAN /\ archived' \in BOOLEAN
    BY <1>6, Zenon DEF NothingToArchive
  <2> QED
    BY <1>6, <2>1, FilesTypeNext DEF NothingToArchive, Done, TypeOK, Counted, fileOf, clocks
<1>7. CASE SkipDream
  <2>1. FilesTypeOK'
    <3>1. UNCHANGED fileVars \/ (UNCHANGED copyVars /\ Fault)
      BY <1>7 DEF SkipDream, fileVars, copyVars
    <3> QED
      BY <3>1, FilesTypeNext DEF TypeOK
  <2>2. backoff' \in 0..RetryDelay
    BY <1>7 DEF SkipDream, TypeOK
  <2> QED
    BY <1>7, <2>1, <2>2 DEF SkipDream, Done, TypeOK, Counted, fileOf
<1>8. CASE StartDream
  <2>1. CASE count >= MinTurns
    BY <1>8, <2>1, TickAsksType, FilesTypeNext DEF StartDream, TypeOK, Counted, fileOf, stateVars
  <2>2. CASE ~(count >= MinTurns)
    BY <1>8, <2>2, FilesTypeNext DEF StartDream, TypeOK, Counted, fileOf, stateVars, Jobs
  <2> QED
    BY <2>1, <2>2
<1>9. CASE Sweep
  <2>1. dreamDue' \in BOOLEAN
    BY <1>9, Zenon DEF Sweep
  <2> QED
    BY <1>9, <2>1, FilesTypeNext DEF Sweep, Done, TypeOK, Counted, fileOf
<1>10. CASE SweepFails
  <2>1. FilesTypeOK'
    BY <1>10, FilesTypeNext DEF SweepFails, TypeOK
  <2> QED
    BY <1>10, <2>1 DEF SweepFails, Done, TypeOK, Counted, fileOf
<1> QED
  BY <1>2, <1>3, <1>4, <1>5, <1>6, <1>7, <1>8, <1>9, <1>10 DEF TickStep

LEMMA PassChange ==
  ASSUME TypeOK, Counted, NEW p \in Passes, NEW r \in PassRecord,
         pass' = [pass EXCEPT ![p] = r], r.turns <= messages,
         r.stage = "thinking" /\ r.kind = "keep" => KeepTurns < r.turns
  PROVE  /\ pass' \in [Passes -> PassRecord]
         /\ \A q \in Passes : pass'[q].turns <= messages
         /\ \A q \in Passes : pass'[q].stage = "thinking" /\ pass'[q].kind = "keep"
                                => KeepTurns < pass'[q].turns
<1>1. \A q \in Passes : pass'[q] = IF q = p THEN r ELSE pass[q]
  BY DEF TypeOK
<1>2. pass' \in [Passes -> PassRecord]
  BY DEF TypeOK
<1> QED
  BY <1>1, <1>2 DEF Counted

LEMMA NoPassType == NoPass \in PassRecord /\ NoPass.stage = "off" /\ NoPass.turns = 0
  BY UpkeepAssumption DEF NoPass, PassRecord

(* The steps of a pass.                                                    *)
LEMMA TypeBegin ==
  ASSUME TypeOK, Counted,
         \/ \E i \in Inlines : ScheduleInline(i)
         \/ \E kind \in {"keep", "zero"} : BeginManual(kind)
         \/ \E p \in Passes : Begin(p) \/ BeginOnEmpty(p)
  PROVE  TypeOK' /\ Counted'
<1> USE UpkeepAssumption
<1>1. ASSUME NEW i \in Inlines, ScheduleInline(i) PROVE TypeOK' /\ Counted'
  <2> DEFINE r == [NoPass EXCEPT !.stage = "asked"]
  <2>1. r \in PassRecord /\ r.turns = 0 /\ r.stage = "asked"
    BY NoPassType DEF PassRecord
  <2>2. pass' = [pass EXCEPT ![i] = r] /\ i \in Passes
    BY <1>1 DEF ScheduleInline, Passes
  <2>3. triggered' \in BOOLEAN
    BY <1>1, Zenon DEF ScheduleInline
  <2>4. r.turns <= messages /\ r.stage # "thinking"
    BY <2>1 DEF TypeOK
  <2> HIDE DEF r
  <2>5. /\ pass' \in [Passes -> PassRecord]
        /\ \A q \in Passes : pass'[q].turns <= messages
        /\ \A q \in Passes : pass'[q].stage = "thinking" /\ pass'[q].kind = "keep"
                               => KeepTurns < pass'[q].turns
    BY <2>1, <2>2, <2>4, PassChange
  <2> QED
    BY <1>1, <2>3, <2>5, FilesTypeNext DEF ScheduleInline, TypeOK, Counted, fileOf, clocks
<1>2. ASSUME NEW kind \in {"keep", "zero"}, BeginManual(kind) PROVE TypeOK' /\ Counted'
  <2> DEFINE r == [stage |-> "thinking", kind |-> kind, turns |-> turns, spoken |-> spoken]
  <2>1. /\ r \in PassRecord /\ r.turns = turns /\ r.kind = kind
        /\ kind = "keep" => KeepTurns < turns
    BY <1>2 DEF PassRecord, TypeOK, BeginManual
  <2>2. pass' = [pass EXCEPT !["manual"] = r] /\ "manual" \in Passes
    BY <1>2 DEF BeginManual, Passes
  <2>3. turns <= messages
    BY DEF Counted
  <2> HIDE DEF r
  <2>4. /\ pass' \in [Passes -> PassRecord]
        /\ \A q \in Passes : pass'[q].turns <= messages
        /\ \A q \in Passes : pass'[q].stage = "thinking" /\ pass'[q].kind = "keep"
                               => KeepTurns < pass'[q].turns
    BY <2>1, <2>2, <2>3, PassChange
  <2> QED
    BY <1>2, <2>2, <2>4, FilesTypeNext DEF BeginManual, TypeOK, Counted, fileOf, stateVars
<1>3. ASSUME NEW p \in Passes, Begin(p) PROVE TypeOK' /\ Counted'
  <2> DEFINE r == [pass[p] EXCEPT !.stage = "thinking",
                     !.turns = IF pass[p].kind = "pure" THEN @ ELSE turns,
                     !.spoken = IF pass[p].kind = "pure" THEN @ ELSE spoken]
  <2>1. /\ r \in PassRecord /\ r.turns \in {pass[p].turns, turns} /\ r.kind = pass[p].kind
        /\ r.kind = "keep" => r.turns = turns
    <3>1. pass[p] \in PassRecord /\ turns \in 0..MaxMessages /\ spoken \in BOOLEAN
      BY DEF TypeOK
    <3> QED
      BY <3>1 DEF PassRecord
  <2>2. pass' = [pass EXCEPT ![p] = r]
    BY <1>3 DEF Begin, TypeOK, PassRecord
  <2>3. r.turns <= messages
    BY <2>1 DEF Counted
  <2>4. r.kind = "keep" => KeepTurns < r.turns
    BY <1>3, <2>1 DEF Begin, Splits
  <2> HIDE DEF r
  <2>5. /\ pass' \in [Passes -> PassRecord]
        /\ \A q \in Passes : pass'[q].turns <= messages
        /\ \A q \in Passes : pass'[q].stage = "thinking" /\ pass'[q].kind = "keep"
                               => KeepTurns < pass'[q].turns
    BY <2>1, <2>2, <2>3, <2>4, PassChange
  <2> QED
    BY <1>3, <2>5, FilesTypeNext DEF Begin, TypeOK, Counted, fileOf, stateVars
<1>4. ASSUME NEW p \in Passes, BeginOnEmpty(p) PROVE TypeOK' /\ Counted'
  <2> DEFINE r == [pass[p] EXCEPT !.stage = "back", !.turns = 0]
  <2>1. r \in PassRecord /\ r.turns = 0 /\ r.stage = "back"
    <3>1. pass[p] \in PassRecord
      BY DEF TypeOK
    <3>2. 0 \in 0..MaxMessages
      OBVIOUS
    <3> QED
      BY <3>1, <3>2 DEF PassRecord
  <2>2. pass' = [pass EXCEPT ![p] = r]
    BY <1>4 DEF BeginOnEmpty, TypeOK, PassRecord
  <2>3. r.turns <= messages /\ r.stage # "thinking"
    BY <2>1 DEF TypeOK
  <2> HIDE DEF r
  <2>4. /\ pass' \in [Passes -> PassRecord]
        /\ \A q \in Passes : pass'[q].turns <= messages
        /\ \A q \in Passes : pass'[q].stage = "thinking" /\ pass'[q].kind = "keep"
                               => KeepTurns < pass'[q].turns
    BY <2>1, <2>2, <2>3, PassChange
  <2>5. UNCHANGED <<fileVars, fileOf, stateVars, dreamDue, jobs, guard, gen, messages>>
    BY <1>4 DEF BeginOnEmpty
  <2>6. FilesTypeOK'
    BY <2>5, FilesTypeNext DEF TypeOK
  <2> QED
    BY <2>4, <2>5, <2>6 DEF TypeOK, Counted, fileOf, stateVars
<1> QED
  BY <1>1, <1>2, <1>3, <1>4

LEMMA TypeProgress ==
  ASSUME TypeOK, Counted, NEW p \in Passes,
         \/ Archives(p) \/ NoWrites(p) \/ Reload(p) \/ Refreshing(p) \/ Completes(p)
         \/ Fails(p)
  PROVE  TypeOK' /\ Counted'
<1> USE UpkeepAssumption
<1>1. CASE Archives(p)
  <2> DEFINE r == [pass[p] EXCEPT !.stage = "back", !.turns = KeptTurns(p)]
  <2>1. KeptTurns(p) \in 0..messages
    BY <1>1 DEF KeptTurns, Archives, TypeOK, Counted, PassRecord
  <2>2. r \in PassRecord /\ r.turns = KeptTurns(p) /\ r.stage = "back"
    <3>1. pass[p] \in PassRecord
      BY DEF TypeOK
    <3>2. KeptTurns(p) \in 0..MaxMessages
      BY <2>1 DEF TypeOK
    <3> QED
      BY <3>1, <3>2 DEF PassRecord
  <2>3. pass' = [pass EXCEPT ![p] = r]
    BY <1>1 DEF Archives, TypeOK, PassRecord
  <2>4. r.turns <= messages /\ r.stage # "thinking"
    BY <2>1, <2>2
  <2> HIDE DEF r
  <2>5. /\ pass' \in [Passes -> PassRecord]
        /\ \A q \in Passes : pass'[q].turns <= messages
        /\ \A q \in Passes : pass'[q].stage = "thinking" /\ pass'[q].kind = "keep"
                               => KeepTurns < pass'[q].turns
    BY <2>2, <2>3, <2>4, PassChange
  <2>6. spoken' \in BOOLEAN /\ guard' \in Passes \cup {Nobody}
    BY <1>1 DEF Archives, GuardAfterRun, TypeOK, PassRecord
  <2>7. turns' \in 0..messages /\ turns' \in 0..MaxMessages
    BY <1>1, <2>1 DEF Archives, TypeOK
  <2>8. UNCHANGED <<fileVars, stateVars, dreamDue, jobs, gen, messages>>
    BY <1>1 DEF Archives
  <2> QED
    BY <2>5, <2>6, <2>7, <2>8, FilesTypeNext DEF TypeOK, Counted, stateVars
<1>2. CASE NoWrites(p)
  <2> DEFINE r == IF p = "manual" THEN NoPass
                  ELSE [pass[p] EXCEPT !.stage = "back", !.turns = 0]
  <2>1. r \in PassRecord /\ r.turns = 0 /\ r.stage # "thinking"
    <3>1. pass[p] \in PassRecord
      BY DEF TypeOK
    <3>2. 0 \in 0..MaxMessages
      OBVIOUS
    <3> QED
      BY <3>1, <3>2, NoPassType DEF PassRecord
  <2>2. pass' = [pass EXCEPT ![p] = r]
    BY <1>2 DEF NoWrites, TypeOK
  <2>3. r.turns <= messages
    BY <2>1 DEF TypeOK
  <2> HIDE DEF r
  <2>4. /\ pass' \in [Passes -> PassRecord]
        /\ \A q \in Passes : pass'[q].turns <= messages
        /\ \A q \in Passes : pass'[q].stage = "thinking" /\ pass'[q].kind = "keep"
                               => KeepTurns < pass'[q].turns
    BY <2>1, <2>2, <2>3, PassChange
  <2>5. FilesTypeOK'
    BY <1>2, FilesTypeNext DEF NoWrites, TypeOK
  <2> QED
    BY <1>2, <2>4, <2>5 DEF NoWrites, TypeOK, Counted, fileOf, stateVars
<1>3. CASE Reload(p)
  <2> DEFINE r == [pass[p] EXCEPT !.stage = "refreshing"]
  <2>1. r \in PassRecord /\ r.turns = pass[p].turns /\ r.stage = "refreshing"
    BY DEF PassRecord, TypeOK
  <2>2. pass' = [pass EXCEPT ![p] = r]
    BY <1>3 DEF Reload, TypeOK, PassRecord
  <2>3. r.turns <= messages /\ r.stage # "thinking"
    BY <2>1 DEF Counted
  <2> HIDE DEF r
  <2>4. /\ pass' \in [Passes -> PassRecord]
        /\ \A q \in Passes : pass'[q].turns <= messages
        /\ \A q \in Passes : pass'[q].stage = "thinking" /\ pass'[q].kind = "keep"
                               => KeepTurns < pass'[q].turns
    BY <2>1, <2>2, <2>3, PassChange
  <2>5. FilesTypeOK'
    BY <1>3, FilesTypeNext DEF Reload, TypeOK, Passes
  <2> QED
    BY <1>3, <2>4, <2>5 DEF Reload, TypeOK, Counted, fileOf, stateVars
<1>4. CASE Refreshing(p)
  <2>1. FilesTypeOK'
    BY <1>4, FilesTypeNext DEF Refreshing, TypeOK, Passes
  <2> QED
    BY <1>4, <2>1 DEF Refreshing, TypeOK, Counted, fileOf, stateVars
<1>5. CASE Completes(p)
  <2>1. pass' = [pass EXCEPT ![p] = NoPass]
    BY <1>5 DEF Completes
  <2>2. NoPass.turns <= messages /\ NoPass.stage # "thinking"
    BY NoPassType DEF TypeOK
  <2>3. /\ pass' \in [Passes -> PassRecord]
        /\ \A q \in Passes : pass'[q].turns <= messages
        /\ \A q \in Passes : pass'[q].stage = "thinking" /\ pass'[q].kind = "keep"
                               => KeepTurns < pass'[q].turns
    BY <2>1, <2>2, NoPassType, PassChange
  <2>4. /\ triggered' \in BOOLEAN /\ archived' \in BOOLEAN
    BY <1>5, Zenon DEF Completes, TypeOK
  <2>5. jobs' \subseteq Jobs
    BY <1>5 DEF Completes, Done, TypeOK, Jobs
  <2>6. count' \in 0..MaxMessages /\ covered' \in 0..MaxMessages /\ idle' \in 0..IdleCap
    BY <1>5 DEF Completes, TypeOK, PassRecord, IdleCap, Max2
  <2>7. UNCHANGED <<fileVars, fileOf, away, backoff, dreamDue, gen, messages>>
        /\ guard' \in Passes \cup {Nobody}
    BY <1>5 DEF Completes, GuardAfterAll, TypeOK
  <2> QED
    BY <2>3, <2>4, <2>5, <2>6, <2>7, FilesTypeNext DEF TypeOK, Counted, fileOf
<1>6. CASE Fails(p)
  <2>1. pass' = [pass EXCEPT ![p] = NoPass]
    BY <1>6 DEF Fails
  <2>2. NoPass.turns <= messages /\ NoPass.stage # "thinking"
    BY NoPassType DEF TypeOK
  <2>3. /\ pass' \in [Passes -> PassRecord]
        /\ \A q \in Passes : pass'[q].turns <= messages
        /\ \A q \in Passes : pass'[q].stage = "thinking" /\ pass'[q].kind = "keep"
                               => KeepTurns < pass'[q].turns
    BY <2>1, <2>2, NoPassType, PassChange
  <2>4. FilesTypeOK'
    <3>1. UNCHANGED copyVars /\ (UNCHANGED faults \/ Fault)
      BY <1>6 DEF Fails, Refused, Breaks, ReloadBreaks
    <3>2. UNCHANGED fileVars \/ (UNCHANGED copyVars /\ Fault)
      BY <3>1 DEF fileVars, copyVars
    <3> QED
      BY <3>2, FilesTypeNext DEF TypeOK
  <2>5. triggered' \in BOOLEAN /\ jobs' \subseteq Jobs
    BY <1>6 DEF Fails, ReleaseTrigger, Done, TypeOK
  <2>6. idle' \in 0..IdleCap /\ backoff' \in 0..RetryDelay
    BY <1>6 DEF Fails, ReleaseTrigger, TypeOK, IdleCap, Max2
  <2>7. UNCHANGED <<fileOf, count, covered, archived, away, dreamDue, gen, messages>>
        /\ guard' \in Passes \cup {Nobody}
    BY <1>6 DEF Fails, GuardAfterAll, TypeOK
  <2> QED
    BY <2>3, <2>4, <2>5, <2>6, <2>7 DEF TypeOK, Counted, fileOf
<1> QED
  BY <1>1, <1>2, <1>3, <1>4, <1>5, <1>6

LEMMA TypeNext == TypeOK /\ Counted /\ [Next]_vars => TypeOK' /\ Counted'
<1> SUFFICES ASSUME TypeOK, Counted, [Next]_vars PROVE TypeOK' /\ Counted'
  OBVIOUS
<1> QED
  BY TypeTalk, TypeTick, TypeBegin, TypeProgress DEF Next, PassStep

(* Types are invariant: counts stay within the messages there were, jobs   *)
(* and clocks within their limits.                                         *)
THEOREM TypesHold == Spec => []TypeOK
<1>1. Init => TypeOK /\ Counted
  BY TypeInit
<1>2. TypeOK /\ Counted /\ [Next]_vars => (TypeOK /\ Counted)'
  BY TypeNext
<1> QED
  BY <1>1, <1>2, PTL DEF Spec

-----------------------------------------------------------------------------
(* The trigger flag                                                        *)

Owned == \/ "compact" \in jobs \/ "archive" \in jobs
         \/ \E i \in Inlines : pass[i].stage # "off"

LEMMA FlagMeans == FlagIsOwned <=> (triggered => Owned)
  BY DEF FlagIsOwned, Owned

LEMMA FlagNext ==
  ASSUME TypeOK, triggered => Owned, [Next]_vars
  PROVE  (triggered => Owned)'
<1> USE UpkeepAssumption DEF Owned
<1>1. CASE \/ Elapse \/ DreamFallsDue \/ Append \/ NotifyUser \/ Reply \/ GiveUp
           \/ Delete \/ NoInline \/ Edits \/ UNCHANGED vars
  BY <1>1 DEF Elapse, DreamFallsDue, Append, NotifyUser, Reply, GiveUp, Delete, NoInline,
              Edits, vars, stateVars
<1>2. CASE TickStep
  <2>1. CASE Collect
    BY <2>1 DEF Collect
  <2>2. CASE Beat \/ SkipDream \/ Sweep \/ SweepFails
    BY <2>2 DEF Beat, SkipDream, Sweep, SweepFails, Done, stateVars
  <2>3. CASE StartIdlePass \/ StartArchive
    BY <2>3 DEF StartIdlePass, StartArchive, TickAsks, TypeOK, stateVars, Passes
  <2>4. CASE SkipArchive \/ NothingToArchive
    BY <2>4 DEF SkipArchive, NothingToArchive, ReleaseTrigger
  <2>5. CASE StartDream
    BY <2>5 DEF StartDream, TickAsks, TypeOK, stateVars, Passes
  <2> QED
    BY <1>2, <2>1, <2>2, <2>3, <2>4, <2>5 DEF TickStep
<1>3. ASSUME NEW i \in Inlines, ScheduleInline(i) PROVE (triggered => Owned)'
  <2>1. pass'[i].stage = "asked"
    BY <1>3 DEF ScheduleInline, TypeOK, NoPass, Passes
  <2> QED
    BY <2>1
<1>4. ASSUME NEW kind \in {"keep", "zero"}, BeginManual(kind) PROVE (triggered => Owned)'
  BY <1>4 DEF BeginManual, TypeOK, stateVars, Passes
<1>5. ASSUME NEW p \in Passes,
             \/ Begin(p) \/ BeginOnEmpty(p) \/ Archives(p) \/ Reload(p) \/ Refreshing(p)
      PROVE  (triggered => Owned)'
  <2>1. /\ triggered' = triggered /\ jobs' = jobs
        /\ \A i \in Passes : pass[i].stage # "off" => pass'[i].stage # "off"
    BY <1>5 DEF Begin, BeginOnEmpty, Archives, Reload, Refreshing, TypeOK, PassRecord, stateVars
  <2> QED
    BY <2>1 DEF Passes
<1>6. ASSUME NEW p \in Passes, NoWrites(p) PROVE (triggered => Owned)'
  <2>1. triggered' = triggered /\ jobs' = jobs
    BY <1>6 DEF NoWrites, stateVars
  <2>2. ASSUME NEW i \in Inlines, pass[i].stage # "off" PROVE pass'[i].stage # "off"
    BY <1>6, <2>2 DEF NoWrites, TypeOK, PassRecord, Passes
  <2> QED
    BY <2>1, <2>2
<1>7. ASSUME NEW p \in Passes, Completes(p) \/ Fails(p) PROVE (triggered => Owned)'
  <2>1. CASE triggered' = FALSE
    BY <2>1
  <2>2. CASE triggered' = triggered
    <3>1. p \notin Inlines \/ triggered' = FALSE
      BY <1>7 DEF Completes, Fails, ReleaseTrigger
    <3>2. /\ "compact" \in jobs => "compact" \in jobs' \/ triggered' = FALSE
          /\ "archive" \in jobs => "archive" \in jobs' \/ triggered' = FALSE
      BY <1>7 DEF Completes, Fails, ReleaseTrigger, Done
    <3>3. p \notin Inlines => \A i \in Inlines : pass'[i] = pass[i]
      BY <1>7 DEF Completes, Fails, TypeOK, Passes
    <3> QED
      BY <2>2, <3>1, <3>2, <3>3
  <2>3. triggered' = FALSE \/ triggered' = triggered
    BY <1>7 DEF Completes, Fails, ReleaseTrigger
  <2> QED
    BY <2>1, <2>2, <2>3
<1> QED
  BY <1>1, <1>2, <1>3, <1>4, <1>5, <1>6, <1>7 DEF Next, PassStep

(* However passes are refused, fail, find nothing or write nothing, and    *)
(* whichever entry points overlap, the flag that stops both triggers is    *)
(* never left set by a pass that is over.                                  *)
THEOREM FlagStaysOwned == Spec => []FlagIsOwned
<1>1. Init => (triggered => Owned)
  BY DEF Init
<1>2. TypeOK /\ (triggered => Owned) /\ [Next]_vars => (triggered => Owned)'
  BY FlagNext
<1>3. Spec => [](triggered => Owned)
  BY <1>1, <1>2, TypesHold, PTL DEF Spec
<1> QED
  BY <1>3, FlagMeans, PTL

-----------------------------------------------------------------------------
(* Prompt files                                                            *)

(* What a refresh has copied is what the workspace holds, unless it was    *)
(* written, or blanked by a sentinel, since.                               *)
Copied ==
  \A p \in Callers, f \in Files :
    refresh[p].on /\ f \notin refresh[p].left => active[f] = workspace[f] \/ f \in late[p]

LEMMA CopiedNext == ASSUME TypeOK, Copied, [Next]_vars PROVE Copied'
<1> USE FilesAssumption DEF Missing, Empty
<1>1. CASE UNCHANGED copyVars
  BY <1>1 DEF Copied, copyVars
<1>2. ASSUME NEW f \in Files, ToolWrites(f) \/ UserWrites(f) PROVE Copied'
  BY <1>2 DEF Copied, ToolWrites, UserWrites, WorkspaceChanges, TooLate, TypeOK, FilesTypeOK
<1>3. ASSUME NEW f \in Files,
             \/ SentinelLooks(f) \/ SentinelWrites(f) \/ QueueEdit(f) \/ QueueEditFails(f)
             \/ SeedLooks(f) \/ SeedCopies(f)
      PROVE  Copied'
  <2>1. CASE SentinelWrites(f)
    BY <2>1 DEF Copied, SentinelWrites, TooLate, TypeOK, FilesTypeOK
  <2>2. CASE SeedLooks(f) \/ SeedCopies(f)
    BY <2>2 DEF Copied, SeedLooks, SeedCopies, TypeOK, FilesTypeOK
  <2>3. CASE SentinelLooks(f) \/ QueueEdit(f) \/ QueueEditFails(f)
    BY <2>3 DEF Copied, SentinelLooks, QueueEdit, QueueEditFails, TypeOK, FilesTypeOK
  <2> QED
    BY <1>3, <2>1, <2>2, <2>3
<1>4. ASSUME NEW p \in Callers, BeginRefresh(p) \/ CopyFails(p) \/ EndRefresh(p)
      PROVE  Copied'
  BY <1>4 DEF Copied, BeginRefresh, CopyFails, EndRefresh, Idle, TypeOK, FilesTypeOK
<1>5. ASSUME NEW p \in Callers, NEW f \in Files, CopyFile(p, f) PROVE Copied'
  BY <1>5 DEF Copied, CopyFile, TypeOK, FilesTypeOK
<1>6. CASE Edits
  BY <1>2, <1>3, <1>6 DEF Edits, EditNext
<1>7. ASSUME NEW p \in Passes, PassStep(p) PROVE Copied'
  <2>1. CASE Reload(p) \/ Refreshing(p)
    BY <1>4, <1>5, <2>1 DEF Reload, Refreshing, Passes
  <2>2. CASE ~(Reload(p) \/ Refreshing(p))
    BY <1>1, <1>7, <2>2 DEF PassStep, Begin, BeginOnEmpty, Archives, NoWrites, Completes, Fails,
                            fileVars, copyVars
  <2> QED
    BY <2>1, <2>2
<1>8. CASE TickStep
  BY <1>1, <1>8 DEF TickStep, Collect, Beat, StartIdlePass, SkipArchive, NothingToArchive,
                    StartArchive, SkipDream, StartDream, Sweep, SweepFails, fileVars, copyVars
<1>9. CASE ~(Edits \/ TickStep \/ \E p \in Passes : PassStep(p))
  BY <1>1, <1>9 DEF Next, vars, Elapse, DreamFallsDue, Append, NotifyUser, Reply, GiveUp, Delete,
                    NoInline, ScheduleInline, BeginManual, fileVars, copyVars
<1> QED
  BY <1>6, <1>7, <1>8, <1>9

ActivateStep ==
  \A p \in Callers : EndRefresh(p) =>
     \A f \in Files : active'[f] = workspace[f] \/ f \in late[p]

(* A refresh that ends has activated every edit made before it copied the  *)
(* file, for any files, passes and interleavings of edits, queueing, seeds,*)
(* sentinels and refreshes, save where a sentinel blanked the copy since.  *)
THEOREM EditsAreActivated == Spec => EditsActivate
<1>1. Init => Copied
  BY DEF Init, FilesInit, Copied, Idle
<1>2. TypeOK /\ Copied /\ [Next]_vars => Copied'
  BY CopiedNext
<1>3. Copied => ActivateStep
  BY DEF Copied, ActivateStep, EndRefresh
<1>4. [ActivateStep]_fileVars <=>
        [\A p \in Callers : EndRefresh(p) =>
           \A f \in Files : active'[f] = workspace[f] \/ f \in late[p]]_fileVars
  BY DEF ActivateStep
<1> QED
  BY <1>1, <1>2, <1>3, <1>4, TypesHold, PTL DEF Spec, EditsActivate
=============================================================================
