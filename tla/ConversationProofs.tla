------------------------- MODULE ConversationProofs -------------------------
(***************************************************************************)
(* Proofs about Conversation: every variable keeps its type, no line a     *)
(* client was told of is lost silently, none that was taken out comes back,*)
(* no turn is archived before a pass has consolidated it, the files are a  *)
(* Chronicle, and nobody waits in a circle for the two locks.              *)
(***************************************************************************)
EXTENDS Conversation, FiniteSetTheorems, SequenceTheorems, TLAPS

-----------------------------------------------------------------------------
(* Transcripts                                                             *)

(* Cutting a transcript in two keeps every line in one of the parts.       *)
LEMMA CutKeepsLines ==
  ASSUME NEW S, NEW s \in Seq(S), NEW n \in 0..Len(s)
  PROVE  /\ Prefix(s, n) \in Seq(S) /\ Suffix(s, n) \in Seq(S)
         /\ Range(s) = Range(Prefix(s, n)) \cup Range(Suffix(s, n))
<1> DEFINE a == Prefix(s, n)
           b == Suffix(s, n)
<1>1. /\ a \in Seq(S) /\ DOMAIN a = 1..n /\ \A i \in 1..n : a[i] = s[i]
  BY DEF Prefix
<1>2. /\ b \in Seq(S) /\ DOMAIN b = 1..(Len(s) - n)
      /\ \A i \in 1..(Len(s) - n) : b[i] = s[n + i]
  BY DEF Suffix
<1>3. Range(s) \subseteq Range(a) \cup Range(b)
  <2> SUFFICES ASSUME NEW i \in 1..Len(s) PROVE s[i] \in Range(a) \cup Range(b)
    BY DEF Range
  <2>1. CASE i <= n
    BY <2>1, <1>1 DEF Range
  <2>2. CASE i > n
    <3>1. i - n \in 1..(Len(s) - n) /\ b[i - n] = s[i]
      BY <2>2, <1>2
    <3> QED BY <3>1, <1>2 DEF Range
  <2> QED BY <2>1, <2>2
<1>4. Range(a) \subseteq Range(s)
  BY <1>1 DEF Range
<1>5. Range(b) \subseteq Range(s)
  <2> SUFFICES ASSUME NEW i \in 1..(Len(s) - n) PROVE b[i] \in Range(s)
    BY <1>2 DEF Range
  <2>1. b[i] = s[n + i] /\ n + i \in 1..Len(s)
    BY <1>2
  <2> QED BY <2>1 DEF Range
<1> QED BY <1>1, <1>2, <1>3, <1>4, <1>5

(* The lines of a transcript are lines.                                    *)
LEMMA LinesOfSeq ==
  ASSUME NEW S, NEW s \in Seq(S) PROVE Range(s) \in SUBSET S
BY DEF Range

(* A pass that is not running has the type of a pass.                      *)
LEMMA NoPassType == NoPass \in CompactionPass
BY BoundsAssumption DEF NoPass, CompactionPass

(* What the type invariant says of one compaction pass and of the files.   *)
LEMMA PassTyped ==
  ASSUME TypeOK, NEW p \in Passes
  PROVE  /\ pass \in [Passes -> CompactionPass] /\ pass[p] \in CompactionPass
         /\ NoPass \in CompactionPass
         /\ pass[p].snap \in Seq(Line) /\ pass[p].split \in Nat
         /\ pass[p].index \in 0..MaxSegments /\ pass[p].turns \in Nat
         /\ pass[p].before \in SUBSET Line
         /\ mem \in Seq(Line) /\ disk \in Seq(Line) /\ listed \in Nat
         /\ MaxSegments \in Nat /\ Range(disk) \in SUBSET Line
<1>1. pass \in [Passes -> CompactionPass] BY DEF TypeOK
<1>2. pass[p] \in CompactionPass BY <1>1
<1>3. pass[p].snap \in Seq(Line) /\ pass[p].split \in Nat
  BY <1>2 DEF CompactionPass
<1>4. /\ pass[p].index \in 0..MaxSegments /\ pass[p].turns \in Nat
      /\ pass[p].before \in SUBSET Line
  BY <1>2 DEF CompactionPass
<1>5. mem \in Seq(Line) /\ disk \in Seq(Line) BY DEF TypeOK
<1>6. MaxSegments \in Nat BY BoundsAssumption
<1>7. listed \in Nat BY <1>6 DEF TypeOK
<1>8. Range(disk) \in SUBSET Line BY <1>5, LinesOfSeq
<1> QED BY <1>1, <1>2, <1>3, <1>4, <1>5, <1>6, <1>7, <1>8, NoPassType

(* The first n positions.                                                  *)
LEMMA FirstPositions ==
  ASSUME NEW n \in Nat PROVE IsFiniteSet(1..n) /\ Cardinality(1..n) = n
<1>1. IsFiniteSet(1..n) /\ Cardinality(1..n) = IF 1 > n THEN 0 ELSE n - 1 + 1
  BY FS_Interval
<1> QED BY <1>1

(* The turn count of a transcript is a number.                             *)
LEMMA TurnCountIsNat ==
  ASSUME NEW s \in Seq(Line) PROVE TurnCount(s) \in Nat
<1>0. Len(s) \in Nat OBVIOUS
<1>1. IsFiniteSet(1..Len(s)) BY <1>0, FS_Interval
<1>2. TurnPositions(s) \subseteq 1..Len(s) BY DEF TurnPositions
<1> QED BY <1>1, <1>2, FS_Subset, FS_CardinalityType DEF TurnCount

(* A regeneration cuts within the transcript.                              *)
LEMMA KeepIndexInRange ==
  ASSUME NEW s \in Seq(Line) PROVE KeepIndex(s) \in 0..Len(s)
<1> DEFINE K == {i \in DOMAIN s : \E j \in i..Len(s) : s[j].role = "user"}
<1>0. Len(s) \in Nat OBVIOUS
<1>1. IsFiniteSet(1..Len(s)) /\ Cardinality(1..Len(s)) = Len(s)
  BY <1>0, FirstPositions
<1>2. K \subseteq 1..Len(s) OBVIOUS
<1>3. IsFiniteSet(K) /\ Cardinality(K) <= Len(s) BY <1>1, <1>2, FS_Subset
<1>4. Cardinality(K) \in Nat BY <1>3, FS_CardinalityType
<1> QED BY <1>3, <1>4 DEF KeepIndex

-----------------------------------------------------------------------------
(* Type correctness                                                        *)

(* A change of the transcript keeps the types of what it touches.          *)
LEMMA SaveKeepsTypes ==
  ASSUME TypeOK, NEW m \in Seq(Line), Persist(m) \/ PersistFails(m)
  PROVE  /\ mem' \in Seq(Line) /\ disk' \in Seq(Line)
         /\ accepted' \in SUBSET Line /\ dropped' \in SUBSET Line
         /\ exposed' \in SUBSET Line /\ overtaken' \in BOOLEAN /\ unread' \in SUBSET Line
         /\ failures' \in Nat /\ crashes' \in Nat
<1>1. Range(m) \in SUBSET Line BY LinesOfSeq
<1>2. Range(mem) \in SUBSET Line BY LinesOfSeq DEF TypeOK
<1>3. BehindPass(m) \in SUBSET Line BY <1>1, <1>2 DEF BehindPass
<1>4. CASE Persist(m)
  BY <1>1, <1>2, <1>3, <1>4 DEF TypeOK, Persist, boundVars
<1>5. CASE PersistFails(m)
  BY <1>1, <1>2, <1>3, <1>5 DEF TypeOK, PersistFails
<1> QED BY <1>4, <1>5

(* A line created now is a line.                                           *)
LEMMA NewLineType ==
  ASSUME TypeOK, NEW n \in Nat, NEW r \in Role
  PROVE  NewLine(n, r) \in Line
BY DEF TypeOK, NewLine, Line

(* What a finished generation leaves is a sequence of lines.              *)
LEMMA GeneratedLinesType ==
  ASSUME TypeOK, NEW n \in Nat
  PROVE  GeneratedLines(n) \in Seq(Line) /\ Len(GeneratedLines(n)) = n
<1> DEFINE role(i) == IF i % 2 = 0 THEN "result"
                      ELSE IF i = n THEN "reply" ELSE "call"
<1>1. ASSUME NEW i \in 1..n PROVE NewLine(i, role(i)) \in Line
  <2>1. role(i) \in Role BY DEF Role
  <2> HIDE DEF role
  <2> QED BY <2>1, NewLineType
<1>2. GeneratedLines(n) = [i \in 1..n |-> NewLine(i, role(i))]
  BY DEF GeneratedLines
<1> HIDE DEF role
<1>3. [i \in 1..n |-> NewLine(i, role(i))] \in Seq(Line)
  BY <1>1
<1> QED BY <1>2, <1>3

(* So is what stands for the rest of a request.                            *)
LEMMA PromptIsLine == Prompt \in Line
BY DEF Prompt, Line, Role

USE DEF engineVars, archiveVars, autonomyVars, historyVars, boundVars, vars

(* The steps of the generation tasks.                                      *)
LEMMA SessionKeepsTypes ==
  ASSUME TypeOK, NEW s \in Sessions, SessionStep(s)
  PROVE  TypeOK'
<1>0. /\ mem \in Seq(Line) /\ Range(mem) \in SUBSET Line
      /\ fresh \in Nat /\ gen \in [Sessions -> GenTask] /\ gen[s] \in GenTask
      /\ NoGen \in GenTask
  BY LinesOfSeq DEF TypeOK, NoGen, GenTask
<1>1. CASE StartTurn(s)
  <2> DEFINE m == Append(mem, NewLine(1, "user"))
  <2>1. m \in Seq(Line) BY <1>0, NewLineType DEF Role
  <2>2. gen' \in [Sessions -> GenTask]
    <3>1. [NoGen EXCEPT !.pc = "prompt"] \in GenTask
      BY <1>0 DEF GenTask, NoGen
    <3>2. \/ gen' = [gen EXCEPT ![s] = [NoGen EXCEPT !.pc = "prompt"]]
          \/ gen' = gen
      BY <1>1 DEF StartTurn
    <3> QED BY <1>0, <3>1, <3>2
  <2>3. fresh' \in Nat BY <1>0, <1>1 DEF StartTurn
  <2>4. \/ Persist(m) \/ PersistFails(m)
        \/ UNCHANGED <<engineVars, historyVars, boundVars>>
    BY <1>1 DEF StartTurn
  <2> HIDE DEF m
  <2>5. /\ mem' \in Seq(Line) /\ disk' \in Seq(Line)
        /\ accepted' \in SUBSET Line /\ dropped' \in SUBSET Line
        /\ exposed' \in SUBSET Line /\ overtaken' \in BOOLEAN /\ unread' \in SUBSET Line
        /\ failures' \in Nat /\ crashes' \in Nat
    <3>1. CASE Persist(m) \/ PersistFails(m)
      BY <2>1, <3>1, SaveKeepsTypes
    <3>2. CASE UNCHANGED <<engineVars, historyVars, boundVars>>
      BY <3>2 DEF TypeOK
    <3> QED BY <2>4, <3>1, <3>2
  <2> QED BY <1>1, <2>2, <2>3, <2>5 DEF TypeOK, StartTurn
<1>2. CASE StartRegen(s)
  <2>1. RegenAlternative(mem) \in SUBSET Line
    BY <1>0, KeepIndexInRange DEF RegenAlternative
  <2>2. gen' \in [Sessions -> GenTask]
    BY <1>0, <1>2, <2>1 DEF StartRegen, GenTask
  <2> QED BY <1>2, <2>2 DEF TypeOK, StartRegen
<1>3. CASE BuildRequest(s)
  <2>1. Range(Prefix(mem, KeepIndex(mem))) \in SUBSET Line
    BY <1>0, KeepIndexInRange, CutKeepsLines, LinesOfSeq
  <2>2. gen' \in [Sessions -> GenTask]
    BY <1>0, <1>3, <2>1 DEF BuildRequest, GenTask
  <2> QED BY <1>3, <2>2 DEF TypeOK, BuildRequest
<1>4. CASE GenerationEnds(s)
  BY <1>0, <1>4 DEF TypeOK, GenerationEnds
<1>5. CASE BeginPersist(s)
  <2>1. PICK n \in 0..MaxReplyLines :
          /\ CacheRequest(s, GeneratedLines(n)) /\ fresh' = fresh + n
          /\ IF n = 0
             THEN gen' = [gen EXCEPT ![s] = NoGen] /\ UNCHANGED lock
             ELSE /\ gen' = [gen EXCEPT ![s].pc = "append",
                                        ![s].todo = GeneratedLines(n)]
                  /\ lock' = s
          /\ UNCHANGED <<archiveVars, engineVars, memory, guard, pass, covered,
                         savedCovered, up, historyVars, boundVars>>
    BY <1>5 DEF BeginPersist
  <2> DEFINE lines == GeneratedLines(n)
  <2>2. n \in Nat BY BoundsAssumption
  <2>3. lines \in Seq(Line) BY <2>2, GeneratedLinesType
  <2>4. lastRequest' \in SUBSET Line
    <3>1. Range(lines) \in SUBSET Line BY <2>3, LinesOfSeq
    <3> QED BY <1>0, <2>1, <3>1, PromptIsLine DEF CacheRequest, GenTask
  <2>5. fresh' \in Nat BY <1>0, <2>1, <2>2
  <2>6. CASE n = 0
    BY <1>0, <2>1, <2>4, <2>5, <2>6 DEF TypeOK
  <2>7. CASE n # 0
    <3>1. /\ gen' = [gen EXCEPT ![s].pc = "append", ![s].todo = lines]
          /\ lock' = s
      BY <2>1, <2>7
    <3> HIDE DEF lines
    <3>2. gen' \in [Sessions -> GenTask] BY <1>0, <2>3, <3>1 DEF GenTask
    <3> QED BY <2>1, <2>4, <2>5, <3>1, <3>2 DEF TypeOK
  <2> QED BY <2>6, <2>7
<1>6. CASE AppendReply(s)
  <2> DEFINE todo == gen[s].todo
             m == Append(mem, Head(todo))
  <2>1. todo \in Seq(Line) /\ todo # <<>>
    BY <1>0, <1>6 DEF GenTask, AppendReply
  <2>2. Head(todo) \in Line /\ Tail(todo) \in Seq(Line) BY <2>1
  <2>3. m \in Seq(Line) BY <1>0, <2>2
  <2>4. Persist(m) \/ PersistFails(m) BY <1>6 DEF AppendReply
  <2>5. gen' \in [Sessions -> GenTask] /\ lock' \in {lock, Free}
    <3>1. \/ gen' = [gen EXCEPT ![s] = NoGen]
          \/ gen' = [gen EXCEPT ![s].todo = Tail(todo)]
      BY <1>6 DEF AppendReply
    <3>2. lock' \in {lock, Free} BY <1>6 DEF AppendReply
    <3>3. CASE gen' = [gen EXCEPT ![s] = NoGen]
      BY <1>0, <3>2, <3>3
    <3>4. CASE gen' = [gen EXCEPT ![s].todo = Tail(todo)]
      <4> DEFINE rest == Tail(todo)
      <4>1. rest \in Seq(Line) BY <2>2
      <4>2. gen' = [gen EXCEPT ![s].todo = rest] BY <3>4
      <4> HIDE DEF rest
      <4> QED BY <1>0, <3>2, <4>1, <4>2 DEF GenTask
    <3> QED BY <3>1, <3>3, <3>4
  <2> HIDE DEF m
  <2>6. /\ mem' \in Seq(Line) /\ disk' \in Seq(Line)
        /\ accepted' \in SUBSET Line /\ dropped' \in SUBSET Line
        /\ exposed' \in SUBSET Line /\ overtaken' \in BOOLEAN /\ unread' \in SUBSET Line
        /\ failures' \in Nat /\ crashes' \in Nat
    BY <2>3, <2>4, SaveKeepsTypes
  <2> QED BY <1>6, <2>5, <2>6 DEF TypeOK, AppendReply
<1>7. CASE PersistRegen(s)
  <2>1. PICK n \in 0..MaxReplyLines :
          LET m == Prefix(mem, KeepIndex(mem)) \o GeneratedLines(n)
          IN /\ CacheRequest(s, GeneratedLines(n)) /\ fresh' = fresh + n
             /\ Persist(m) \/ PersistFails(m)
             /\ gen' = [gen EXCEPT ![s] = NoGen]
             /\ UNCHANGED <<archiveVars, memory, lock, guard, pass, covered,
                            savedCovered, up>>
    BY <1>7 DEF PersistRegen
  <2> DEFINE r == GeneratedLines(n)
             m == Prefix(mem, KeepIndex(mem)) \o r
  <2>2. n \in Nat BY BoundsAssumption
  <2>3. r \in Seq(Line) BY <2>2, GeneratedLinesType
  <2>4. Range(r) \in SUBSET Line BY <2>3, LinesOfSeq
  <2>5. Prefix(mem, KeepIndex(mem)) \in Seq(Line)
    BY <1>0, KeepIndexInRange, CutKeepsLines
  <2>6. m \in Seq(Line) BY <2>3, <2>5
  <2>7. lastRequest' \in SUBSET Line
    BY <1>0, <2>1, <2>4, PromptIsLine DEF CacheRequest, GenTask
  <2>8. Persist(m) \/ PersistFails(m) BY <2>1
  <2>9. fresh' \in Nat /\ gen' \in [Sessions -> GenTask]
    BY <1>0, <2>1, <2>2
  <2> HIDE DEF r, m
  <2>10. /\ mem' \in Seq(Line) /\ disk' \in Seq(Line)
         /\ accepted' \in SUBSET Line /\ dropped' \in SUBSET Line
         /\ exposed' \in SUBSET Line /\ overtaken' \in BOOLEAN /\ unread' \in SUBSET Line
         /\ failures' \in Nat /\ crashes' \in Nat
    BY <2>6, <2>8, SaveKeepsTypes
  <2> QED BY <2>1, <2>7, <2>9, <2>10 DEF TypeOK
<1> QED
  BY <1>1, <1>2, <1>3, <1>4, <1>5, <1>6, <1>7 DEF SessionStep, GenerationStep

(* The edit, delete, inject and heartbeat writers.                         *)
LEMMA WritersKeepTypes ==
  ASSUME TypeOK, EditMessage \/ DeleteMessage \/ InjectSystem \/ HeartbeatMessage
  PROVE  TypeOK'
<1>0. mem \in Seq(Line) /\ fresh \in Nat BY DEF TypeOK
<1>1. CASE EditMessage
  <2>1. PICK i \in DOMAIN mem :
          LET m == [mem EXCEPT ![i] = NewLine(1, mem[i].role)]
          IN /\ fresh' = fresh + 1
             /\ Persist(m) \/ PersistFails(m)
             /\ UNCHANGED <<archiveVars, memory, lock, guard, gen, pass,
                            autonomyVars, up>>
    BY <1>1 DEF EditMessage
  <2> DEFINE m == [mem EXCEPT ![i] = NewLine(1, mem[i].role)]
  <2>2. mem[i].role \in Role
    <3>1. mem[i] \in Line BY <1>0
    <3> QED BY <3>1 DEF Line
  <2>3. NewLine(1, mem[i].role) \in Line BY <2>2, NewLineType
  <2>4. m \in Seq(Line) BY <1>0, <2>3
  <2>5. /\ fresh' = fresh + 1
        /\ Persist(m) \/ PersistFails(m)
        /\ UNCHANGED <<archiveVars, memory, lock, guard, gen, pass, autonomyVars, up>>
    BY <2>1
  <2> HIDE DEF m
  <2>6. /\ mem' \in Seq(Line) /\ disk' \in Seq(Line)
        /\ accepted' \in SUBSET Line /\ dropped' \in SUBSET Line
        /\ exposed' \in SUBSET Line /\ overtaken' \in BOOLEAN /\ unread' \in SUBSET Line
        /\ failures' \in Nat /\ crashes' \in Nat
    BY <2>4, <2>5, SaveKeepsTypes
  <2>7. fresh' \in Nat BY <1>0, <2>5
  <2> QED BY <2>5, <2>6, <2>7 DEF TypeOK
<1>2. CASE DeleteMessage
  <2>1. PICK i \in DOMAIN mem :
          LET m == Prefix(mem, i - 1) \o Suffix(mem, i)
          IN /\ Persist(m) \/ PersistFails(m)
             /\ UNCHANGED <<archiveVars, memory, lock, guard, gen, pass,
                            autonomyVars, up, fresh>>
    BY <1>2 DEF DeleteMessage
  <2> DEFINE m == Prefix(mem, i - 1) \o Suffix(mem, i)
  <2>2. i \in 0..Len(mem) /\ i - 1 \in 0..Len(mem) BY <1>0
  <2>3. Prefix(mem, i - 1) \in Seq(Line) /\ Suffix(mem, i) \in Seq(Line)
    BY <1>0, <2>2, CutKeepsLines
  <2>4. m \in Seq(Line) BY <2>3
  <2>5. Persist(m) \/ PersistFails(m) BY <2>1
  <2> HIDE DEF m
  <2>6. /\ mem' \in Seq(Line) /\ disk' \in Seq(Line)
        /\ accepted' \in SUBSET Line /\ dropped' \in SUBSET Line
        /\ exposed' \in SUBSET Line /\ overtaken' \in BOOLEAN /\ unread' \in SUBSET Line
        /\ failures' \in Nat /\ crashes' \in Nat
    BY <2>4, <2>5, SaveKeepsTypes
  <2> QED BY <1>0, <2>1, <2>6 DEF TypeOK
<1>3. CASE HeartbeatMessage
  <2> DEFINE m == Append(mem, NewLine(1, "auto"))
  <2>1. m \in Seq(Line) BY <1>0, NewLineType DEF Role
  <2>2. Persist(m) \/ PersistFails(m) BY <1>3 DEF HeartbeatMessage
  <2> HIDE DEF m
  <2>3. /\ mem' \in Seq(Line) /\ disk' \in Seq(Line)
        /\ accepted' \in SUBSET Line /\ dropped' \in SUBSET Line
        /\ exposed' \in SUBSET Line /\ overtaken' \in BOOLEAN /\ unread' \in SUBSET Line
        /\ failures' \in Nat /\ crashes' \in Nat
    BY <2>1, <2>2, SaveKeepsTypes
  <2> QED BY <1>0, <1>3, <2>3 DEF TypeOK, HeartbeatMessage
<1>4. CASE InjectSystem
  <2> DEFINE m == Append(mem, NewLine(1, "system"))
  <2>1. m \in Seq(Line) BY <1>0, NewLineType DEF Role
  <2>2. Persist(m) \/ PersistFails(m) BY <1>4 DEF InjectSystem
  <2> HIDE DEF m
  <2>3. /\ mem' \in Seq(Line) /\ disk' \in Seq(Line)
        /\ accepted' \in SUBSET Line /\ dropped' \in SUBSET Line
        /\ exposed' \in SUBSET Line /\ overtaken' \in BOOLEAN /\ unread' \in SUBSET Line
        /\ failures' \in Nat /\ crashes' \in Nat
    BY <2>1, <2>2, SaveKeepsTypes
  <2> QED BY <1>0, <1>4, <2>3 DEF TypeOK, InjectSystem
<1> QED BY <1>1, <1>2, <1>3, <1>4

(* What a pass takes into its model loop is typed.                         *)
LEMMA EnterLoopType ==
  ASSUME TypeOK, NEW p \in Passes, NEW transcript \in Seq(Line),
         NEW split \in 1..Len(transcript), NEW cached \in SUBSET Line,
         EnterLoop(p, transcript, split, cached)
  PROVE  pass' \in [Passes -> CompactionPass]
<1> DEFINE kept == Len(transcript) - split
           cut == IF kept < Len(disk) THEN Len(disk) - kept ELSE 0
           turns == TurnCount(Suffix(transcript, split))
           seen == RequestLines(cached, transcript)
<1>1. /\ disk \in Seq(Line) /\ memory \in SUBSET Line
      /\ pass \in [Passes -> CompactionPass] /\ MaxSegments \in Nat
  BY BoundsAssumption DEF TypeOK
<1>2. Len(transcript) \in Nat /\ Len(disk) \in Nat BY <1>1
<1>3. kept \in Nat BY <1>2
<1>4. cut \in Nat BY <1>2, <1>3
<1>5. split \in 0..Len(transcript) BY <1>2
<1>6. turns \in Nat BY <1>5, CutKeepsLines, TurnCountIsNat
<1>7. seen \in SUBSET Line BY LinesOfSeq, PromptIsLine DEF RequestLines
<1>8. pass' = [pass EXCEPT ![p] =
        [pc |-> "loop", mode |-> "llm", snap |-> disk, split |-> cut,
         index |-> 0, turns |-> turns, seen |-> seen, wrote |-> FALSE,
         before |-> memory]]
  BY DEF EnterLoop
<1> HIDE DEF kept, cut, turns, seen
<1>9. [pc |-> "loop", mode |-> "llm", snap |-> disk, split |-> cut,
       index |-> 0, turns |-> turns, seen |-> seen, wrote |-> FALSE,
       before |-> memory] \in CompactionPass
  BY <1>1, <1>4, <1>6, <1>7 DEF CompactionPass
<1> QED BY <1>1, <1>8, <1>9

(* Moving a pass to another step keeps its type.                           *)
LEMMA MovePassType ==
  ASSUME pass \in [Passes -> CompactionPass], NEW p \in Passes,
         NEW pc \in {"loop", "segment", "manifest", "active", "rollback",
                     "reload", "notify"},
         pass' = [pass EXCEPT ![p].pc = pc]
  PROVE  pass' \in [Passes -> CompactionPass]
<1>1. pass[p] \in CompactionPass
  OBVIOUS
<1>2. [pass[p] EXCEPT !.pc = pc] \in CompactionPass
  BY <1>1 DEF CompactionPass
<1> QED
  BY <1>2

(* So does ending it.                                                      *)
LEMMA EndPassType ==
  ASSUME pass \in [Passes -> CompactionPass], NEW p \in Passes,
         pass' = [pass EXCEPT ![p] = NoPass]
  PROVE  pass' \in [Passes -> CompactionPass]
BY NoPassType

(* The beginnings of a pass.                                               *)
LEMMA BeginKeepsTypes ==
  ASSUME TypeOK, NEW p \in Passes, BeginPass(p) \/ BeginPure(p)
  PROVE  TypeOK'
<1>0. /\ mem \in Seq(Line) /\ disk \in Seq(Line) /\ MaxSegments \in Nat
      /\ pass \in [Passes -> CompactionPass] /\ pass[p] \in CompactionPass
      /\ NoPass \in CompactionPass
  BY PassTyped
<1>1. CASE p = "manual" /\ BeginManual
  <2>1. PICK split \in 1..Len(mem) : EnterLoop("manual", mem, split, lastRequest)
    BY <1>1 DEF BeginManual
  <2>2. pass' \in [Passes -> CompactionPass]
    BY <1>0, <1>1, <2>1, EnterLoopType DEF TypeOK
  <2> QED BY <1>1, <2>2 DEF TypeOK, BeginManual, PassUnchanged
<1>2. CASE BeginBackground(p)
  <2>1. PICK split \in 1..Len(disk) : EnterLoop(p, disk, split, pass[p].seen)
    BY <1>2 DEF BeginBackground
  <2>2. pass' \in [Passes -> CompactionPass]
    BY <1>0, <2>1, EnterLoopType DEF CompactionPass
  <2> QED BY <1>2, <2>2 DEF TypeOK, BeginBackground, PassUnchanged
<1>3. CASE BeginOnEmpty(p)
  <2>1. pass' \in [Passes -> CompactionPass]
    BY <1>0, <1>3 DEF BeginOnEmpty, CompactionPass
  <2> QED BY <1>3, <2>1 DEF TypeOK, BeginOnEmpty, PassUnchanged
<1>4. CASE p = "tick" /\ ReadDeepIdle
  <2>1. PICK split \in 1..Len(disk) :
          pass' = [pass EXCEPT !["tick"] =
                     [NoPass EXCEPT !.pc = "read", !.mode = "pure",
                                    !.snap = disk, !.split = split]]
    BY <1>4 DEF ReadDeepIdle
  <2>2. split \in Nat BY <1>0
  <2>3. pass' \in [Passes -> CompactionPass]
    BY <1>0, <1>4, <2>1, <2>2 DEF NoPass, CompactionPass
  <2> QED BY <1>4, <2>3 DEF TypeOK, ReadDeepIdle, PassUnchanged
<1>5. CASE BeginPure(p)
  <2>1. pass' \in [Passes -> CompactionPass]
    BY <1>0, <1>5, MovePassType, EndPassType DEF BeginPure
  <2> QED BY <1>5, <2>1 DEF TypeOK, BeginPure, PassUnchanged
<1>6. CASE p = "tick" /\ ReadForRebuild
  <2> DEFINE seen == {Prompt} \cup Range(disk)
  <2>1. seen \in SUBSET Line BY <1>0, LinesOfSeq, PromptIsLine
  <2>2. pass' = [pass EXCEPT !["tick"] =
                   [NoPass EXCEPT !.pc = "rebuild", !.seen = seen]]
    BY <1>6 DEF ReadForRebuild
  <2> HIDE DEF seen
  <2>3. pass' \in [Passes -> CompactionPass]
    BY <1>0, <1>6, <2>1, <2>2 DEF NoPass, CompactionPass
  <2> QED BY <1>6, <2>3 DEF TypeOK, ReadForRebuild, PassUnchanged
<1>7. CASE AskPass(p)
  <2>1. pass' \in [Passes -> CompactionPass]
    BY <1>0, <1>7 DEF AskPass, CompactionPass, TypeOK
  <2> QED BY <1>7, <2>1 DEF TypeOK, AskPass, PassUnchanged
<1>8. CASE PassRefused(p)
  BY <1>0, <1>8 DEF TypeOK, PassRefused, EndPass, Release, PassUnchanged
<1> QED BY <1>1, <1>2, <1>3, <1>4, <1>5, <1>6, <1>7, <1>8 DEF BeginPass, StartAsked

(* The model loop and its ends.                                            *)
LEMMA LoopKeepsTypes ==
  ASSUME TypeOK, NEW p \in Passes, ToolWrite(p) \/ EndLoop(p)
  PROVE  TypeOK'
<1>0. /\ mem \in Seq(Line) /\ MaxSegments \in Nat
      /\ pass \in [Passes -> CompactionPass] /\ pass[p] \in CompactionPass
      /\ NoPass \in CompactionPass
  BY PassTyped
<1>1. CASE ToolWrite(p)
  <2>1. pass[p].seen \in SUBSET Line /\ Unsent(p) \in SUBSET Line
    BY <1>0, LinesOfSeq DEF Unsent, UserLines, CompactionPass
  <2>2. pass' \in [Passes -> CompactionPass]
    BY <1>0, <1>1 DEF ToolWrite, CompactionPass
  <2> QED BY <1>1, <2>1, <2>2 DEF TypeOK, ToolWrite, PassUnchanged
<1>2. CASE LoopArchives(p)
  <2>1. pass' \in [Passes -> CompactionPass]
    BY <1>0, <1>2, MovePassType DEF LoopArchives
  <2> QED BY <1>2, <2>1 DEF TypeOK, LoopArchives, PassUnchanged
<1>3. CASE LoopWithoutWrites(p)
  <2>1. pass' \in [Passes -> CompactionPass]
    <3>1. [NoPass EXCEPT !.pc = "reload"] \in CompactionPass
      BY <1>0 DEF CompactionPass
    <3>2. \/ pass' = [pass EXCEPT ![p] = NoPass]
          \/ pass' = [pass EXCEPT ![p] = [NoPass EXCEPT !.pc = "reload"]]
      BY <1>3 DEF LoopWithoutWrites, EndPass
    <3> QED BY <1>0, <3>1, <3>2
  <2> QED
    BY <1>3, <2>1 DEF TypeOK, LoopWithoutWrites, EndPass, Release, PassUnchanged
<1>4. CASE LoopFails(p)
  BY <1>0, <1>4 DEF TypeOK, LoopFails, EndPass, Release, PassUnchanged
<1> QED BY <1>1, <1>2, <1>3, <1>4 DEF EndLoop

(* The writes of archive_and_retain, and the rollback.                     *)
LEMMA ArchiveKeepsTypes ==
  ASSUME TypeOK, NEW p \in Passes, ArchiveStep(p), pass[p].split <= Len(pass[p].snap)
  PROVE  TypeOK'
<1>0. /\ pass \in [Passes -> CompactionPass] /\ pass[p] \in CompactionPass
      /\ pass[p].snap \in Seq(Line) /\ pass[p].split \in Nat
      /\ NoPass \in CompactionPass /\ MaxSegments \in Nat /\ listed \in Nat
      /\ pass[p].index \in 0..MaxSegments /\ pass[p].before \in SUBSET Line
  BY PassTyped
<1>a. pass[p].split \in 0..Len(pass[p].snap) BY <1>0
<1>1. CASE WriteSegment(p)
  <2>1. Archived(p) \in Seq(Line) BY <1>0, <1>a, CutKeepsLines DEF Archived
  <2>2. pass' \in [Passes -> CompactionPass]
    <3>1. CASE pass' = [pass EXCEPT ![p].pc = "active"]
      BY <1>0, <3>1, MovePassType
    <3>2. CASE pass' = [pass EXCEPT ![p].pc = "manifest", ![p].index = listed + 1]
               /\ listed < MaxSegments
      <4>1. listed + 1 \in 0..MaxSegments BY <1>0, <3>2
      <4> QED BY <1>0, <3>2, <4>1 DEF CompactionPass
    <3> QED BY <1>1, <3>1, <3>2 DEF WriteSegment
  <2>3. files' \in [1..MaxSegments -> Seq(Line)]
    BY <1>0, <1>1, <2>1 DEF TypeOK, WriteSegment
  <2> QED BY <1>1, <2>2, <2>3 DEF TypeOK, WriteSegment, PassUnchanged
<1>2. CASE WriteSegmentFails(p)
  <2>1. pass' \in [Passes -> CompactionPass]
    BY <1>0, <1>2, MovePassType DEF WriteSegmentFails
  <2>2. \A n \in 0 .. pass[p].split - 1 : Prefix(pass[p].snap, n) \in Seq(Line)
    <3> TAKE n \in 0 .. pass[p].split - 1
    <3>1. n \in 0..Len(pass[p].snap) BY <1>0, <1>a
    <3> QED BY <1>0, <3>1, CutKeepsLines
  <2>3. files' \in [1..MaxSegments -> Seq(Line)] /\ failures' \in Nat
    <3>1. \/ UNCHANGED <<files, failures>>
          \/ /\ failures' = failures + 1
             /\ \E n \in 0 .. pass[p].split - 1 :
                  files' = [files EXCEPT ![listed + 1] = Prefix(pass[p].snap, n)]
      BY <1>2 DEF WriteSegmentFails
    <3>2. files \in [1..MaxSegments -> Seq(Line)] /\ failures \in Nat
      BY DEF TypeOK
    <3>3. CASE UNCHANGED <<files, failures>>
      BY <3>2, <3>3
    <3>4. ASSUME NEW n \in 0 .. pass[p].split - 1, failures' = failures + 1,
                 files' = [files EXCEPT ![listed + 1] = Prefix(pass[p].snap, n)]
          PROVE  files' \in [1..MaxSegments -> Seq(Line)] /\ failures' \in Nat
      <4>1. Prefix(pass[p].snap, n) \in Seq(Line) BY <2>2
      <4>2. files' \in [1..MaxSegments -> Seq(Line)] BY <3>2, <3>4, <4>1
      <4> QED BY <3>2, <3>4, <4>2
    <3> QED BY <3>1, <3>3, <3>4
  <2> QED BY <1>2, <2>1, <2>3 DEF TypeOK, WriteSegmentFails, PassUnchanged
<1>3. CASE WriteManifest(p)
  <2>1. pass' \in [Passes -> CompactionPass]
    BY <1>0, <1>3, MovePassType DEF WriteManifest
  <2> QED BY <1>0, <1>3, <2>1 DEF TypeOK, WriteManifest, PassUnchanged
<1>4. CASE WriteManifestFails(p)
  <2>1. pass' \in [Passes -> CompactionPass]
    BY <1>0, <1>4, MovePassType DEF WriteManifestFails
  <2> QED BY <1>4, <2>1 DEF TypeOK, WriteManifestFails, PassUnchanged
<1>5. CASE WriteActive(p)
  <2>1. Retained(p) \in Seq(Line) BY <1>0, <1>a, CutKeepsLines DEF Retained
  <2>2. pass' \in [Passes -> CompactionPass]
    BY <1>0, <1>5, MovePassType DEF WriteActive
  <2> QED BY <1>5, <2>1, <2>2 DEF TypeOK, WriteActive, PassUnchanged
<1>6. CASE WriteActiveFails(p)
  <2>1. pass' \in [Passes -> CompactionPass]
    BY <1>0, <1>6, MovePassType DEF WriteActiveFails
  <2> QED BY <1>6, <2>1 DEF TypeOK, WriteActiveFails, PassUnchanged
<1>7. CASE Rollback(p)
  BY <1>0, <1>7 DEF TypeOK, Rollback, EndPass, Release, PassUnchanged
<1> QED BY <1>1, <1>2, <1>3, <1>4, <1>5, <1>6, <1>7 DEF ArchiveStep

(* The reload and the notification.                                        *)
LEMMA FinishKeepsTypes ==
  ASSUME TypeOK, NEW p \in Passes, FinishStep(p)
  PROVE  TypeOK'
<1>0. /\ pass \in [Passes -> CompactionPass] /\ pass[p] \in CompactionPass
      /\ NoPass \in CompactionPass /\ pass[p].turns \in Nat
      /\ Range(disk) \in SUBSET Line
  BY PassTyped
<1>1. CASE Reload(p)
  <2>1. pass' \in [Passes -> CompactionPass]
    BY <1>0, <1>1, MovePassType, EndPassType DEF Reload, EndPass
  <2> QED BY <1>0, <1>1, <2>1
          DEF TypeOK, Reload, EndPass, Release, PassUnchanged
<1>2. CASE ReloadFails(p)
  <2>1. pass' \in [Passes -> CompactionPass]
    BY <1>0, <1>2, MovePassType, EndPassType DEF ReloadFails, EndPass
  <2>2. lock' \in {lock, Free} /\ guard' \in {guard, Free} /\ failures' = failures + 1
    BY <1>2 DEF ReloadFails, EndPass, Release
  <2>3. UNCHANGED <<engineVars, archiveVars, memory, historyVars, crashes, autonomyVars, gen, up, fresh>>
    BY <1>2 DEF ReloadFails, PassUnchanged
  <2> QED BY <2>1, <2>2, <2>3 DEF TypeOK
<1>3. CASE Notify(p)
  BY <1>0, <1>3 DEF TypeOK, Notify, EndPass, Release
<1>4. CASE CacheRebuilt(p)
  <2>1. pass[p].seen \in SUBSET Line BY <1>0 DEF CompactionPass
  <2> QED BY <1>0, <1>4, <2>1 DEF TypeOK, CacheRebuilt, EndPass, Release
<1> QED BY <1>1, <1>2, <1>3, <1>4 DEF FinishStep

(* Saving the autonomy state, the crash and the restart.                   *)
LEMMA DaemonKeepsTypes ==
  ASSUME TypeOK, SaveAutonomy \/ Crash \/ Restart
  PROVE  TypeOK'
<1>0. /\ NoPass \in CompactionPass /\ NoGen \in GenTask
      /\ Range(disk) \in SUBSET Line
  <2>1. NoPass \in CompactionPass BY NoPassType
  <2>2. NoGen \in GenTask BY BoundsAssumption DEF NoGen, GenTask
  <2>3. disk \in Seq(Line) BY DEF TypeOK
  <2>4. Range(disk) \in SUBSET Line BY <2>3, LinesOfSeq
  <2> QED BY <2>1, <2>2, <2>4
<1>1. CASE SaveAutonomy
  BY <1>1 DEF TypeOK, SaveAutonomy
<1>2. CASE Crash
  <2>1. gen' \in [Sessions -> GenTask] /\ pass' \in [Passes -> CompactionPass]
    BY <1>0, <1>2 DEF Crash
  <2>2. torn' \in BOOLEAN BY <1>2 DEF TypeOK, Crash
  <2>3. mem' \in Seq(Line) /\ lastRequest' \in SUBSET Line /\ crashes' \in Nat
    BY <1>2 DEF TypeOK, Crash
  <2> QED BY <1>2, <2>1, <2>2, <2>3 DEF TypeOK, Crash
<1>3. CASE Restart
  BY <1>0, <1>3 DEF TypeOK, Restart
<1> QED BY <1>1, <1>2, <1>3

(* A pass never cuts beyond the end of the transcript it read.             *)
SplitInRange == \A p \in Passes : pass[p].split <= Len(pass[p].snap)

LEMMA SplitStaysInRange ==
  ASSUME TypeOK, SplitInRange, [Next]_vars
  PROVE  SplitInRange'
<1>0. /\ pass \in [Passes -> CompactionPass]
      /\ mem \in Seq(Line) /\ disk \in Seq(Line)
  BY DEF TypeOK
<1>1. NoPass.split <= Len(NoPass.snap) BY DEF NoPass
<1>2. ASSUME UNCHANGED pass PROVE SplitInRange'
  BY <1>2 DEF SplitInRange
<1>3. ASSUME NEW p \in Passes, NEW r, pass' = [pass EXCEPT ![p] = r],
             r.split <= Len(r.snap)
      PROVE  SplitInRange'
  BY <1>0, <1>3 DEF SplitInRange
<1>4. ASSUME NEW p \in Passes, pass' = [pass EXCEPT ![p] = NoPass]
      PROVE  SplitInRange'
  BY <1>1, <1>3, <1>4
<1>5. ASSUME NEW p \in Passes, NEW pc, pass' = [pass EXCEPT ![p].pc = pc]
      PROVE  SplitInRange'
  BY <1>0, <1>5 DEF SplitInRange, CompactionPass
<1>6. ASSUME NEW s \in Sessions, SessionStep(s) PROVE UNCHANGED pass
  BY <1>6 DEF SessionStep, GenerationStep, StartTurn, StartRegen,
              BuildRequest, GenerationEnds, BeginPersist, AppendReply,
              PersistRegen
<1>7. ASSUME EditMessage \/ DeleteMessage \/ InjectSystem \/ HeartbeatMessage PROVE UNCHANGED pass
  BY <1>7 DEF EditMessage, DeleteMessage, InjectSystem, HeartbeatMessage
<1>8. ASSUME NEW p \in Passes, NEW transcript \in Seq(Line),
             NEW split \in 1..Len(transcript), NEW cached,
             EnterLoop(p, transcript, split, cached)
      PROVE  SplitInRange'
  <2> DEFINE kept == Len(transcript) - split
             cut == IF kept < Len(disk) THEN Len(disk) - kept ELSE 0
             r == [pc |-> "loop", mode |-> "llm", snap |-> disk, split |-> cut,
                   index |-> 0, turns |-> TurnCount(Suffix(transcript, split)),
                   seen |-> RequestLines(cached, transcript), wrote |-> FALSE,
                   before |-> memory]
  <2>1. Len(transcript) \in Nat /\ Len(disk) \in Nat BY <1>0
  <2>2. kept \in Nat BY <2>1
  <2>3. cut <= Len(disk) BY <2>1, <2>2
  <2>4. pass' = [pass EXCEPT ![p] = r] BY <1>8 DEF EnterLoop
  <2>5. r.split <= Len(r.snap) BY <2>3
  <2> HIDE DEF r
  <2> QED BY <1>3, <2>4, <2>5
<1>9. ASSUME NEW p \in Passes, PassStep(p) PROVE SplitInRange'
  <2>1. CASE p = "manual" /\ BeginManual
    BY <1>0, <1>8, <2>1 DEF BeginManual
  <2>2. CASE BeginBackground(p)
    BY <1>0, <1>8, <2>2 DEF BeginBackground
  <2>3. CASE BeginOnEmpty(p)
    <3> DEFINE r == [NoPass EXCEPT !.pc = "reload"]
    <3>1. r.split <= Len(r.snap) BY DEF NoPass
    <3>2. pass' = [pass EXCEPT ![p] = r] BY <2>3 DEF BeginOnEmpty
    <3> QED BY <1>3, <3>1, <3>2
  <2>4. CASE p = "tick" /\ ReadDeepIdle
    <3>1. PICK split \in 1..Len(disk) :
            pass' = [pass EXCEPT !["tick"] =
                       [NoPass EXCEPT !.pc = "read", !.mode = "pure",
                                      !.snap = disk, !.split = split]]
      BY <2>4 DEF ReadDeepIdle
    <3> DEFINE r == [NoPass EXCEPT !.pc = "read", !.mode = "pure",
                                   !.snap = disk, !.split = split]
    <3>2. r.split <= Len(r.snap) BY <1>0 DEF NoPass
    <3> HIDE DEF r
    <3> QED BY <1>3, <2>4, <3>1, <3>2 DEF r
  <2>5. CASE BeginPure(p)
    BY <1>4, <1>5, <2>5 DEF BeginPure
  <2>6. CASE ToolWrite(p)
    BY <1>0, <2>6 DEF ToolWrite, SplitInRange, CompactionPass
  <2>7. CASE EndLoop(p)
    <3> DEFINE r == [NoPass EXCEPT !.pc = "reload"]
    <3>1. r.split <= Len(r.snap) BY DEF NoPass
    <3>2. \/ pass' = [pass EXCEPT ![p].pc = "segment"]
          \/ pass' = [pass EXCEPT ![p] = NoPass]
          \/ pass' = [pass EXCEPT ![p] = r]
      BY <2>7 DEF EndLoop, LoopArchives, LoopWithoutWrites, LoopFails, EndPass
    <3> HIDE DEF r
    <3> QED BY <1>3, <1>4, <1>5, <3>1, <3>2
  <2>8. CASE WriteSegment(p)
    <3>1. CASE pass' = [pass EXCEPT ![p].pc = "active"] BY <1>5, <3>1
    <3>2. CASE pass' = [pass EXCEPT ![p].pc = "manifest", ![p].index = listed + 1]
      BY <1>0, <3>2 DEF SplitInRange, CompactionPass
    <3> QED BY <2>8, <3>1, <3>2 DEF WriteSegment
  <2>9. CASE ArchiveStep(p) /\ ~WriteSegment(p)
    BY <1>4, <1>5, <2>9
    DEF ArchiveStep, WriteSegmentFails, WriteManifest, WriteManifestFails,
        WriteActive, WriteActiveFails, Rollback, EndPass
  <2>10. CASE FinishStep(p)
    BY <1>4, <1>5, <2>10
    DEF FinishStep, Reload, ReloadFails, Notify, CacheRebuilt, EndPass
  <2>11. CASE p = "tick" /\ ReadForRebuild
    <3> DEFINE seen == {Prompt} \cup Range(disk)
               r == [NoPass EXCEPT !.pc = "rebuild", !.seen = seen]
    <3>1. pass' = [pass EXCEPT ![p] = r] BY <2>11 DEF ReadForRebuild
    <3>2. r.split <= Len(r.snap) BY DEF NoPass
    <3> HIDE DEF r
    <3> QED BY <1>3, <3>1, <3>2
  <2>12. CASE AskPass(p)
    <3> DEFINE r == [NoPass EXCEPT !.pc = "asked", !.seen = lastRequest]
    <3>1. pass' = [pass EXCEPT ![p] = r] BY <2>12 DEF AskPass
    <3>2. r.split <= Len(r.snap) BY DEF NoPass
    <3> HIDE DEF r
    <3> QED BY <1>3, <3>1, <3>2
  <2>13. CASE PassRefused(p)
    BY <1>4, <2>13 DEF PassRefused, EndPass
  <2> QED
    BY <1>9, <2>1, <2>2, <2>3, <2>4, <2>5, <2>6, <2>7, <2>8, <2>9, <2>10, <2>11,
       <2>12, <2>13
    DEF PassStep, BeginPass, StartAsked
<1>10. CASE SaveAutonomy \/ Restart
  BY <1>2, <1>10 DEF SaveAutonomy, Restart
<1>11. CASE Crash
  BY <1>1, <1>11 DEF Crash, SplitInRange
<1> QED BY <1>2, <1>6, <1>7, <1>9, <1>10, <1>11 DEF Next

(* Types and split positions are invariant together.                       *)
LEMMA TypesAndSplits == Spec => [](TypeOK /\ SplitInRange)
<1>1. Init => TypeOK /\ SplitInRange
  <2> SUFFICES ASSUME Init PROVE TypeOK /\ SplitInRange
    OBVIOUS
  <2>1. NoPass \in CompactionPass /\ NoGen \in GenTask
    BY BoundsAssumption DEF NoPass, NoGen, CompactionPass, GenTask
  <2>2. <<>> \in Seq(Line) /\ MaxSegments \in Nat BY BoundsAssumption
  <2>3. TypeOK
    <3>1. gen \in [Sessions -> GenTask] /\ pass \in [Passes -> CompactionPass]
      BY <2>1 DEF Init
    <3>2. mem \in Seq(Line) /\ disk \in Seq(Line)
          /\ files \in [1..MaxSegments -> Seq(Line)] /\ listed \in 0..MaxSegments
      BY <2>2 DEF Init
    <3> QED BY <3>1, <3>2 DEF Init, TypeOK
  <2>4. SplitInRange BY DEF Init, SplitInRange, NoPass
  <2> QED BY <2>3, <2>4
<1>2. TypeOK /\ SplitInRange /\ [Next]_vars => TypeOK' /\ SplitInRange'
  <2> SUFFICES ASSUME TypeOK, SplitInRange, [Next]_vars PROVE TypeOK'
    BY SplitStaysInRange
  <2>1. CASE UNCHANGED vars BY <2>1 DEF TypeOK
  <2>2. ASSUME NEW s \in Sessions, SessionStep(s) PROVE TypeOK'
    BY <2>2, SessionKeepsTypes
  <2>3. CASE EditMessage \/ DeleteMessage \/ InjectSystem \/ HeartbeatMessage
    BY <2>3, WritersKeepTypes
  <2>4. ASSUME NEW p \in Passes, PassStep(p) PROVE TypeOK'
    BY <2>4, BeginKeepsTypes, LoopKeepsTypes, ArchiveKeepsTypes,
       FinishKeepsTypes DEF PassStep, SplitInRange
  <2>5. CASE SaveAutonomy \/ Crash \/ Restart
    BY <2>5, DaemonKeepsTypes
  <2> QED BY <2>1, <2>2, <2>3, <2>4, <2>5 DEF Next
<1> QED BY <1>1, <1>2, PTL DEF Spec

(* TypeOK, over every number of sessions and every bound: no combination   *)
(* of passes cuts a transcript at a position outside it, lists a segment   *)
(* beyond the files, or leaves a holder in a lock that is none.            *)
THEOREM TypeCorrect == Spec => []TypeOK
BY TypesAndSplits, PTL

-----------------------------------------------------------------------------
(* No silent loss                                                          *)

(* Lines that may leave active.jsonl: archived, taken out, or changed      *)
(* behind a running pass's back.                                           *)
Safe == dropped \cup exposed \cup Archive

AcceptedKept == accepted \subseteq Safe \cup Range(disk)

MemoryHoldsDisk == up => Range(disk) \subseteq Range(mem) \cup Safe

PassKnowsDisk ==
  \A p \in Passes :
    Holding(p) => Range(disk) \subseteq Range(pass[p].snap) \cup Safe

DiskHoldsSnap ==
  \A p \in Passes :
    Holding(p) => Range(pass[p].snap) \subseteq Range(disk) \cup Safe

ArchiveInOrder ==
  \A p \in Passes :
    /\ pass[p].pc = "manifest" =>
         pass[p].index = listed + 1 /\ files[listed + 1] = Archived(p)
    /\ pass[p].pc = "active" => Range(Archived(p)) \subseteq Archive

(* The steps of a pass that own the archive.                               *)
Owning(p) ==
  pass[p].pc \in {"loop", "segment", "manifest", "active", "rollback"}

GuardHeld == \A p \in Passes : Owning(p) => guard = p

LossInv ==
  AcceptedKept /\ MemoryHoldsDisk /\ PassKnowsDisk /\ DiskHoldsSnap
  /\ ArchiveInOrder /\ GuardHeld

(* The archive is what files and manifest say.                             *)
LEMMA SameArchive ==
  ASSUME UNCHANGED <<files, listed>> PROVE Archive' = Archive
BY DEF Archive

(* A change of the transcript between the steps of the passes.             *)
LEMMA SaveKeepsLossInv ==
  ASSUME LossInv, TypeOK, up, NEW m \in Seq(Line), Persist(m) \/ PersistFails(m),
         UNCHANGED <<archiveVars, guard, pass, up>>
  PROVE  LossInv'
<1>0. Archive' = Archive BY SameArchive
<1>1. \A p \in Passes : Holding(p)' = Holding(p) BY DEF Holding
<1>2. dropped' = dropped \cup (Range(mem) \ Range(m)) /\ mem' = m
  BY DEF Persist, PersistFails
<1>3. ArchiveInOrder' /\ GuardHeld'
  BY <1>0 DEF LossInv, ArchiveInOrder, GuardHeld, Owning, Archived
<1>4. Range(disk) \subseteq Range(mem) \cup Safe BY DEF LossInv, MemoryHoldsDisk
<1>5. CASE Persist(m)
  <2>1. /\ disk' = m /\ accepted' = accepted \cup Range(m)
        /\ exposed' = exposed \cup BehindPass(m)
    BY <1>5 DEF Persist
  <2>2. Safe \subseteq Safe' /\ Range(mem) \subseteq Range(m) \cup Safe'
    BY <1>0, <1>2, <2>1 DEF Safe
  <2>3. AcceptedKept' /\ MemoryHoldsDisk'
    BY <1>2, <1>4, <2>1, <2>2 DEF LossInv, AcceptedKept, MemoryHoldsDisk
  <2>4. PassKnowsDisk'
    BY <1>1, <2>1 DEF PassKnowsDisk, BehindPass, Safe
  <2>5. DiskHoldsSnap'
    BY <1>1, <1>4, <2>1, <2>2 DEF LossInv, DiskHoldsSnap
  <2> QED BY <1>3, <2>3, <2>4, <2>5 DEF LossInv
<1>6. CASE PersistFails(m)
  <2>1. disk' = disk /\ accepted' = accepted /\ exposed' = exposed
    BY <1>6 DEF PersistFails
  <2>2. Safe \subseteq Safe' /\ Range(mem) \subseteq Range(m) \cup Safe'
    BY <1>0, <1>2, <2>1 DEF Safe
  <2>3. AcceptedKept' /\ MemoryHoldsDisk' /\ PassKnowsDisk' /\ DiskHoldsSnap'
    BY <1>1, <1>2, <1>4, <2>1, <2>2
    DEF LossInv, AcceptedKept, MemoryHoldsDisk, PassKnowsDisk, DiskHoldsSnap
  <2> QED BY <1>3, <2>3 DEF LossInv
<1> QED BY <1>5, <1>6

(* A step of a pass that changes no file: it may read active.jsonl, take   *)
(* the guard or release its own, and reload memory.                        *)
LEMMA MoveKeepsLossInv ==
  ASSUME LossInv, TypeOK, NEW p \in Passes, NEW r,
         pass' = [pass EXCEPT ![p] = r],
         r.pc \notin {"manifest", "active"},
         r.pc \in {"read", "loop", "segment"} =>
           r.snap = disk \/ (Holding(p) /\ r.snap = pass[p].snap),
         r.pc \in {"loop", "segment", "rollback"} => guard' = p,
         guard' = guard \/ guard \in {p, Free},
         mem' \in {mem, disk},
         accepted \subseteq accepted', accepted' \subseteq accepted \cup Range(disk),
         UNCHANGED <<disk, files, listed, up, dropped, exposed>>
  PROVE  LossInv'
<1>0. Archive' = Archive /\ Safe' = Safe
  <2>1. Archive' = Archive BY SameArchive
  <2> QED BY <2>1 DEF Safe
<1>1. /\ pass \in [Passes -> CompactionPass]
      /\ pass'[p] = r /\ \A q \in Passes \ {p} : pass'[q] = pass[q]
  BY DEF TypeOK
<1>2. AcceptedKept' /\ MemoryHoldsDisk'
  BY <1>0 DEF LossInv, AcceptedKept, MemoryHoldsDisk
<1>3. PassKnowsDisk' /\ DiskHoldsSnap'
  BY <1>0, <1>1 DEF LossInv, PassKnowsDisk, DiskHoldsSnap, Holding
<1>4. ArchiveInOrder'
  BY <1>0, <1>1 DEF LossInv, ArchiveInOrder, Archived
<1>5. GuardHeld'
  <2> SUFFICES ASSUME NEW q \in Passes, Owning(q)' PROVE guard' = q
    BY DEF GuardHeld
  <2>1. CASE q = p
    BY <1>1, <2>1 DEF Owning
  <2>2. CASE q # p
    <3>1. Owning(q) BY <1>1, <2>2 DEF Owning
    <3>2. guard = q BY <3>1 DEF LossInv, GuardHeld
    <3>3. q # Free BY PassesAssumption DEF PassKinds, Free
    <3> QED BY <2>2, <3>2, <3>3
  <2> QED BY <2>1, <2>2
<1> QED BY <1>2, <1>3, <1>4, <1>5 DEF LossInv

(* The segment file is written beyond the listed ones.                     *)
LEMMA SegmentKeepsLossInv ==
  ASSUME LossInv, TypeOK, SplitInRange, NEW p \in Passes,
         WriteSegment(p) \/ WriteSegmentFails(p)
  PROVE  LossInv'
<1>0. /\ pass \in [Passes -> CompactionPass] /\ pass[p] \in CompactionPass
      /\ pass[p].snap \in Seq(Line) /\ listed \in Nat /\ MaxSegments \in Nat
      /\ pass[p].pc = "segment" /\ guard = p
      /\ files \in [1..MaxSegments -> Seq(Line)]
  <2>1. pass[p].pc = "segment" BY DEF WriteSegment, WriteSegmentFails
  <2>2. guard = p BY <2>1 DEF LossInv, GuardHeld, Owning
  <2>3. pass \in [Passes -> CompactionPass] BY DEF TypeOK
  <2>4. pass[p].snap \in Seq(Line) BY <2>3 DEF CompactionPass
  <2> QED BY <2>1, <2>2, <2>3, <2>4, BoundsAssumption DEF TypeOK
<1>1. /\ listed' = listed /\ \A i \in 1..listed : files'[i] = files[i]
      /\ UNCHANGED <<mem, disk, up, guard, accepted, dropped, exposed>>
  BY <1>0 DEF WriteSegment, WriteSegmentFails, PassUnchanged
<1>2. Archive' = Archive /\ Safe' = Safe
  BY <1>1 DEF Archive, Safe
<1>3. /\ pass'[p].snap = pass[p].snap /\ pass'[p].split = pass[p].split
      /\ pass'[p].pc \in {"manifest", "active", "rollback"}
      /\ \A q \in Passes \ {p} : pass'[q] = pass[q]
  BY <1>0 DEF WriteSegment, WriteSegmentFails, CompactionPass
<1>4. AcceptedKept' /\ MemoryHoldsDisk'
  BY <1>1, <1>2 DEF LossInv, AcceptedKept, MemoryHoldsDisk
<1>5. PassKnowsDisk' /\ DiskHoldsSnap'
  BY <1>0, <1>1, <1>2, <1>3 DEF LossInv, PassKnowsDisk, DiskHoldsSnap, Holding
<1>6. GuardHeld'
  BY <1>0, <1>1, <1>3 DEF LossInv, GuardHeld, Owning
<1>7. ArchiveInOrder'
  <2>1. \A q \in Passes \ {p} : ~Owning(q) /\ pass'[q] = pass[q]
    BY <1>0, <1>3 DEF LossInv, GuardHeld
  <2>2. \A q \in Passes \ {p} : pass'[q].pc \notin {"manifest", "active"}
    BY <2>1 DEF Owning
  <2>3. Archived(p)' = Archived(p) BY <1>3 DEF Archived
  <2>4. pass'[p].pc = "manifest" =>
          pass'[p].index = listed' + 1 /\ files'[listed' + 1] = Archived(p)
    BY <1>0, <1>1 DEF WriteSegment, WriteSegmentFails, CompactionPass
  <2>5. pass'[p].pc = "active" => Range(Archived(p)) \subseteq Archive
    <3>1. SUFFICES ASSUME pass'[p].pc = "active" PROVE Archived(p) = <<>>
      BY DEF Range
    <3>2. pass[p].split = 0
      BY <1>0, <3>1 DEF WriteSegment, WriteSegmentFails, CompactionPass
    <3> QED BY <1>0, <3>2 DEF Archived, Prefix
  <2> QED BY <1>2, <2>2, <2>3, <2>4, <2>5 DEF ArchiveInOrder
<1> QED BY <1>4, <1>5, <1>6, <1>7 DEF LossInv

(* The manifest lists the segment that was just written.                   *)
LEMMA ManifestKeepsLossInv ==
  ASSUME LossInv, TypeOK, NEW p \in Passes, WriteManifest(p)
  PROVE  LossInv'
<1>0. /\ pass \in [Passes -> CompactionPass] /\ listed \in Nat
      /\ pass[p].pc = "manifest" /\ guard = p
      /\ pass[p].index = listed + 1 /\ files[listed + 1] = Archived(p)
  BY DEF TypeOK, WriteManifest, LossInv, GuardHeld, Owning, ArchiveInOrder
<1>1. /\ listed' = listed + 1 /\ files' = files
      /\ UNCHANGED <<mem, disk, up, guard, accepted, dropped, exposed>>
  BY <1>0 DEF WriteManifest, PassUnchanged
<1>2. 1..listed \subseteq 1..listed' /\ listed + 1 \in 1..listed'
  BY <1>0, <1>1
<1>3. Archive \subseteq Archive' /\ Range(Archived(p)) \subseteq Archive'
  BY <1>0, <1>1, <1>2 DEF Archive
<1>4. Safe \subseteq Safe'
  BY <1>1, <1>3 DEF Safe
<1>5. /\ pass'[p].snap = pass[p].snap /\ pass'[p].split = pass[p].split
      /\ pass'[p].pc = "active"
      /\ \A q \in Passes \ {p} : pass'[q] = pass[q]
  BY <1>0 DEF WriteManifest, CompactionPass
<1>6. AcceptedKept' /\ MemoryHoldsDisk'
  BY <1>1, <1>4 DEF LossInv, AcceptedKept, MemoryHoldsDisk
<1>7. PassKnowsDisk' /\ DiskHoldsSnap'
  <2>1. \A q \in Passes : Holding(q)' = Holding(q) /\ pass'[q].snap = pass[q].snap
    BY <1>0, <1>5 DEF Holding
  <2> QED BY <1>1, <1>4, <2>1 DEF LossInv, PassKnowsDisk, DiskHoldsSnap
<1>8. GuardHeld'
  BY <1>0, <1>1, <1>5 DEF LossInv, GuardHeld, Owning
<1>9. ArchiveInOrder'
  <2>1. \A q \in Passes \ {p} : ~Owning(q)
    BY <1>0 DEF LossInv, GuardHeld
  <2>2. \A q \in Passes \ {p} : pass'[q].pc \notin {"manifest", "active"}
    BY <1>5, <2>1 DEF Owning
  <2>3. Archived(p)' = Archived(p) BY <1>5 DEF Archived
  <2> QED BY <1>3, <1>5, <2>2, <2>3 DEF ArchiveInOrder
<1> QED BY <1>6, <1>7, <1>8, <1>9 DEF LossInv

(* active.jsonl keeps what the pass did not archive.                       *)
LEMMA ActiveKeepsLossInv ==
  ASSUME LossInv, TypeOK, SplitInRange, NEW p \in Passes, WriteActive(p)
  PROVE  LossInv'
<1>0. /\ pass \in [Passes -> CompactionPass] /\ pass[p] \in CompactionPass
      /\ pass[p].snap \in Seq(Line) /\ pass[p].pc = "active" /\ guard = p
      /\ pass[p].split \in 0..Len(pass[p].snap)
  <2>1. pass \in [Passes -> CompactionPass] /\ pass[p] \in CompactionPass
    BY DEF TypeOK
  <2>2. pass[p].snap \in Seq(Line)
    BY <2>1 DEF CompactionPass
  <2>3. pass[p].pc = "active"
    BY DEF WriteActive
  <2>4. guard = p
    BY <2>3 DEF LossInv, GuardHeld, Owning
  <2>5. pass[p].split \in Nat /\ Len(pass[p].snap) \in Nat
    BY <2>1, <2>2 DEF CompactionPass
  <2>6. pass[p].split <= Len(pass[p].snap)
    BY DEF SplitInRange
  <2>7. pass[p].split \in 0..Len(pass[p].snap)
    BY <2>5, <2>6
  <2> QED BY <2>1, <2>2, <2>3, <2>4, <2>7
<1>1. /\ disk' = Retained(p)
      /\ UNCHANGED <<mem, files, listed, up, accepted, dropped, exposed>>
  BY DEF WriteActive, PassUnchanged
<1>2. Archive' = Archive /\ Safe' = Safe
  <2>1. Archive' = Archive BY <1>1, SameArchive
  <2> QED BY <1>1, <2>1 DEF Safe
<1>3. Range(pass[p].snap) = Range(Archived(p)) \cup Range(Retained(p))
  BY <1>0, CutKeepsLines DEF Archived, Retained
<1>4. Range(Archived(p)) \subseteq Safe
  BY <1>0 DEF LossInv, ArchiveInOrder, Safe
<1>5. /\ Range(disk) \subseteq Range(disk') \cup Safe
      /\ Range(disk') \subseteq Range(disk) \cup Safe
  BY <1>0, <1>1, <1>3, <1>4
  DEF LossInv, PassKnowsDisk, DiskHoldsSnap, Holding
<1>6. /\ pass'[p].pc = "reload"
      /\ \A q \in Passes \ {p} : pass'[q] = pass[q]
  BY <1>0 DEF WriteActive, CompactionPass
<1>7. AcceptedKept' /\ MemoryHoldsDisk'
  BY <1>1, <1>2, <1>5 DEF LossInv, AcceptedKept, MemoryHoldsDisk
<1>8. PassKnowsDisk' /\ DiskHoldsSnap'
  <2>1. \A q \in Passes : Holding(q)' => Holding(q) /\ pass'[q] = pass[q]
    BY <1>6 DEF Holding
  <2> QED BY <1>2, <1>5, <2>1 DEF LossInv, PassKnowsDisk, DiskHoldsSnap
<1>9. GuardHeld' /\ ArchiveInOrder'
  <2>1. \A q \in Passes \ {p} : ~Owning(q)
    BY <1>0 DEF LossInv, GuardHeld
  <2>2. \A q \in Passes :
          pass'[q].pc \notin {"loop", "segment", "manifest", "active", "rollback"}
    BY <1>6, <2>1 DEF Owning
  <2> QED BY <2>2 DEF GuardHeld, ArchiveInOrder, Owning
<1> QED BY <1>7, <1>8, <1>9 DEF LossInv

(* Every other step of a pass is a move in the sense of MoveKeepsLossInv.  *)
LEMMA PassKeepsLossInv ==
  ASSUME LossInv, TypeOK, SplitInRange, NEW p \in Passes, PassStep(p)
  PROVE  LossInv'
<1>0. /\ pass \in [Passes -> CompactionPass] /\ pass[p] \in CompactionPass
      /\ NoPass.pc = "off"
      /\ Owning(p) => guard = p
  BY DEF TypeOK, NoPass, LossInv, GuardHeld
<1>1. ASSUME UNCHANGED <<disk, files, listed, up, accepted, dropped, exposed>>,
             mem' \in {mem, disk}, EndPass(p)
      PROVE  LossInv'
  BY <1>0, <1>1, MoveKeepsLossInv DEF EndPass, Release
<1>2. ASSUME UNCHANGED <<mem, disk, files, listed, up, accepted, dropped, exposed>>,
             NEW transcript, NEW split, NEW cached,
             EnterLoop(p, transcript, split, cached), guard' = p, guard = Free
      PROVE  LossInv'
  <2> DEFINE kept == Len(transcript) - split
             r == [pc |-> "loop", mode |-> "llm", snap |-> disk,
                   split |-> IF kept < Len(disk) THEN Len(disk) - kept ELSE 0,
                   index |-> 0, turns |-> TurnCount(Suffix(transcript, split)),
                   seen |-> RequestLines(cached, transcript), wrote |-> FALSE,
                   before |-> memory]
  <2>1. pass' = [pass EXCEPT ![p] = r] BY <1>2 DEF EnterLoop
  <2>2. r.pc = "loop" /\ r.snap = disk OBVIOUS
  <2> HIDE DEF r
  <2> QED BY <1>2, <2>1, <2>2, MoveKeepsLossInv
<1>3. ASSUME UNCHANGED <<disk, files, listed, up, dropped, exposed>>,
             mem' \in {mem, disk}, accepted \subseteq accepted',
             accepted' \subseteq accepted \cup Range(disk),
             NEW pc \in {"segment", "rollback", "reload", "notify"},
             pass' = [pass EXCEPT ![p].pc = pc],
             pc = "segment" => Holding(p),
             pc \in {"segment", "rollback"} => guard' = p,
             guard' = guard \/ guard \in {p, Free}
      PROVE  LossInv'
  <2> DEFINE r == [pass[p] EXCEPT !.pc = pc]
  <2>1. pass' = [pass EXCEPT ![p] = r] BY <1>0, <1>3
  <2>2. r.pc = pc /\ r.snap = pass[p].snap BY <1>0 DEF CompactionPass
  <2> HIDE DEF r
  <2> QED BY <1>3, <2>1, <2>2, MoveKeepsLossInv
<1>4. CASE p = "manual" /\ BeginManual
  BY <1>2, <1>4 DEF BeginManual, PassUnchanged
<1>5. CASE BeginBackground(p)
  BY <1>2, <1>5 DEF BeginBackground, PassUnchanged
<1>6. CASE BeginOnEmpty(p)
  <2> DEFINE r == [NoPass EXCEPT !.pc = "reload"]
  <2>1. r.pc = "reload" BY DEF NoPass
  <2>2. pass' = [pass EXCEPT ![p] = r] BY <1>6 DEF BeginOnEmpty
  <2> HIDE DEF r
  <2> QED BY <1>6, <2>1, <2>2, MoveKeepsLossInv DEF BeginOnEmpty, PassUnchanged
<1>7. CASE p = "tick" /\ ReadDeepIdle
  <2>1. PICK split \in 1..Len(disk) :
          pass' = [pass EXCEPT !["tick"] =
                     [NoPass EXCEPT !.pc = "read", !.mode = "pure",
                                    !.snap = disk, !.split = split]]
    BY <1>7 DEF ReadDeepIdle
  <2> DEFINE r == [NoPass EXCEPT !.pc = "read", !.mode = "pure", !.snap = disk,
                                 !.split = split]
  <2>2. r.pc = "read" /\ r.snap = disk BY DEF NoPass
  <2>3. pass' = [pass EXCEPT ![p] = r] BY <1>7, <2>1
  <2> HIDE DEF r
  <2> QED BY <1>7, <2>2, <2>3, MoveKeepsLossInv DEF ReadDeepIdle, PassUnchanged
<1>8. CASE BeginPure(p)
  <2>1. CASE guard = Free /\ listed < MaxSegments
    BY <1>3, <1>8, <2>1 DEF BeginPure, PassUnchanged, Holding
  <2>2. CASE ~(guard = Free /\ listed < MaxSegments)
    BY <1>0, <1>8, <2>2, MoveKeepsLossInv DEF BeginPure, PassUnchanged
  <2> QED BY <2>1, <2>2
<1>9. CASE ToolWrite(p)
  <2> DEFINE r == [pass[p] EXCEPT !.wrote = TRUE]
  <2>1. pass' = [pass EXCEPT ![p] = r] /\ pass[p].pc = "loop" /\ guard = p
    BY <1>0, <1>9 DEF ToolWrite, Owning
  <2>2. r.pc = pass[p].pc /\ r.snap = pass[p].snap BY <1>0 DEF CompactionPass
  <2> HIDE DEF r
  <2> QED BY <1>9, <2>1, <2>2, MoveKeepsLossInv
          DEF ToolWrite, PassUnchanged, Holding
<1>10. CASE LoopArchives(p)
  BY <1>0, <1>3, <1>10 DEF LoopArchives, PassUnchanged, Holding, Owning
<1>11. CASE LoopWithoutWrites(p)
  <2> DEFINE r == [NoPass EXCEPT !.pc = "reload"]
  <2>1. r.pc = "reload" BY DEF NoPass
  <2>2. CASE p = "manual"
    BY <1>1, <1>11, <2>2 DEF LoopWithoutWrites, PassUnchanged
  <2>3. CASE p # "manual"
    <3>1. pass' = [pass EXCEPT ![p] = r] /\ guard = p
      BY <1>0, <1>11, <2>3 DEF LoopWithoutWrites, Owning
    <3> HIDE DEF r
    <3> QED BY <1>11, <2>1, <3>1, MoveKeepsLossInv
            DEF LoopWithoutWrites, PassUnchanged
  <2> QED BY <2>2, <2>3
<1>12. CASE LoopFails(p)
  BY <1>1, <1>12 DEF LoopFails, PassUnchanged
<1>13. CASE WriteManifestFails(p) \/ WriteActiveFails(p)
  BY <1>0, <1>3, <1>13
  DEF WriteManifestFails, WriteActiveFails, PassUnchanged, Owning
<1>14. CASE Rollback(p)
  BY <1>1, <1>14 DEF Rollback, PassUnchanged
<1>15. CASE Reload(p)
  <2>1. CASE torn /\ p # "tick"
    BY <1>1, <1>15, <2>1 DEF Reload, PassUnchanged
  <2>2. CASE ~(torn /\ p # "tick")
    BY <1>3, <1>15, <2>2 DEF Reload, PassUnchanged
  <2> QED BY <2>1, <2>2
<1>16. CASE ReloadFails(p)
  <2>1. CASE p # "tick"
    BY <1>1, <1>16, <2>1 DEF ReloadFails, PassUnchanged
  <2>2. CASE p = "tick"
    BY <1>3, <1>16, <2>2 DEF ReloadFails, PassUnchanged
  <2> QED BY <2>1, <2>2
<1>17. CASE Notify(p)
  BY <1>1, <1>17 DEF Notify
<1>18. CASE p = "tick" /\ ReadForRebuild
  <2> DEFINE seen == {Prompt} \cup Range(disk)
             r == [NoPass EXCEPT !.pc = "rebuild", !.seen = seen]
  <2>1. pass' = [pass EXCEPT ![p] = r] BY <1>18 DEF ReadForRebuild
  <2>2. r.pc = "rebuild" BY DEF NoPass
  <2> HIDE DEF r
  <2> QED BY <1>18, <2>1, <2>2, MoveKeepsLossInv
          DEF ReadForRebuild, PassUnchanged
<1>19. CASE CacheRebuilt(p)
  BY <1>1, <1>19 DEF CacheRebuilt
<1>20. CASE AskPass(p)
  <2> DEFINE r == [NoPass EXCEPT !.pc = "asked", !.seen = lastRequest]
  <2>1. pass' = [pass EXCEPT ![p] = r] BY <1>20 DEF AskPass
  <2>2. r.pc = "asked" BY DEF NoPass
  <2> HIDE DEF r
  <2> QED BY <1>20, <2>1, <2>2, MoveKeepsLossInv DEF AskPass, PassUnchanged
<1>21. CASE PassRefused(p)
  BY <1>1, <1>21 DEF PassRefused, PassUnchanged
<1> QED
  BY <1>4, <1>5, <1>6, <1>7, <1>8, <1>9, <1>10, <1>11, <1>12, <1>13, <1>14,
     <1>15, <1>16, <1>17, <1>18, <1>19, <1>20, <1>21, SegmentKeepsLossInv,
     ManifestKeepsLossInv, ActiveKeepsLossInv
  DEF PassStep, BeginPass, StartAsked, EndLoop, ArchiveStep, FinishStep

(* Steps that touch none of this.                                          *)
LEMMA StutterKeepsLossInv ==
  ASSUME LossInv,
         UNCHANGED <<mem, disk, files, listed, guard, pass, up, accepted, dropped,
                     exposed>>
  PROVE  LossInv'
<1>1. Archive' = Archive /\ Safe' = Safe BY SameArchive DEF Safe
<1>2. AcceptedKept' /\ MemoryHoldsDisk'
  BY <1>1 DEF LossInv, AcceptedKept, MemoryHoldsDisk
<1>3. PassKnowsDisk' /\ DiskHoldsSnap'
  BY <1>1 DEF LossInv, PassKnowsDisk, DiskHoldsSnap, Holding
<1>4. ArchiveInOrder' /\ GuardHeld'
  BY <1>1 DEF LossInv, ArchiveInOrder, GuardHeld, Owning, Archived
<1> QED BY <1>2, <1>3, <1>4 DEF LossInv

(* The generation tasks and the other writers only save transcripts.       *)
LEMMA WritersKeepLossInv ==
  ASSUME LossInv, TypeOK,
         \/ \E s \in Sessions : SessionStep(s)
         \/ EditMessage \/ DeleteMessage \/ InjectSystem \/ HeartbeatMessage
  PROVE  LossInv'
<1>0. /\ mem \in Seq(Line) /\ KeepIndex(mem) \in 0..Len(mem)
      /\ gen \in [Sessions -> GenTask]
  BY KeepIndexInRange DEF TypeOK
<1>2. ASSUME NEW s \in Sessions, SessionStep(s) PROVE LossInv'
  <2>1. CASE StartTurn(s)
    <3> DEFINE m == Append(mem, NewLine(1, "user"))
    <3>1. m \in Seq(Line) BY <1>0, NewLineType DEF Role
    <3>2. CASE Persist(m) \/ PersistFails(m)
      BY <2>1, <3>1, <3>2, SaveKeepsLossInv DEF StartTurn, EngineFree
    <3>3. CASE UNCHANGED <<engineVars, historyVars>>
      BY <2>1, <3>3, StutterKeepsLossInv DEF StartTurn
    <3> QED BY <2>1, <3>2, <3>3 DEF StartTurn
  <2>2. CASE StartRegen(s) \/ BuildRequest(s) \/ GenerationEnds(s) \/ BeginPersist(s)
    BY <2>2, StutterKeepsLossInv DEF StartRegen, BuildRequest, GenerationEnds, BeginPersist
  <2>3. CASE AppendReply(s)
    <3> DEFINE todo == gen[s].todo
               m == Append(mem, Head(todo))
    <3>1. todo \in Seq(Line) /\ todo # <<>>
      BY <1>0, <2>3 DEF GenTask, AppendReply
    <3>2. m \in Seq(Line) BY <1>0, <3>1
    <3> QED BY <2>3, <3>2, SaveKeepsLossInv DEF AppendReply
  <2>4. CASE PersistRegen(s)
    <3>1. PICK n \in 0..MaxReplyLines :
            LET m == Prefix(mem, KeepIndex(mem)) \o GeneratedLines(n)
            IN /\ up /\ (Persist(m) \/ PersistFails(m))
               /\ UNCHANGED <<archiveVars, guard, pass, up>>
      BY <2>4 DEF PersistRegen, EngineFree
    <3> DEFINE r == GeneratedLines(n)
               m == Prefix(mem, KeepIndex(mem)) \o r
    <3>2. n \in Nat BY BoundsAssumption
    <3>4. r \in Seq(Line) BY <3>2, GeneratedLinesType
    <3>5. Prefix(mem, KeepIndex(mem)) \in Seq(Line) BY <1>0, CutKeepsLines
    <3>6. m \in Seq(Line) BY <3>4, <3>5
    <3>7. /\ up /\ (Persist(m) \/ PersistFails(m))
          /\ UNCHANGED <<archiveVars, guard, pass, up>>
      BY <3>1
    <3> HIDE DEF m
    <3> QED BY <3>6, <3>7, SaveKeepsLossInv
  <2> QED BY <1>2, <2>1, <2>2, <2>3, <2>4 DEF SessionStep, GenerationStep
<1>3. CASE EditMessage
  <2>1. PICK i \in DOMAIN mem :
          LET m == [mem EXCEPT ![i] = NewLine(1, mem[i].role)]
          IN /\ up /\ (Persist(m) \/ PersistFails(m))
             /\ UNCHANGED <<archiveVars, guard, pass, up>>
    BY <1>3 DEF EditMessage, EngineFree
  <2> DEFINE m == [mem EXCEPT ![i] = NewLine(1, mem[i].role)]
  <2>2. mem[i] \in Line BY <1>0
  <2>3. NewLine(1, mem[i].role) \in Line BY <2>2, NewLineType DEF Line
  <2>4. m \in Seq(Line) BY <1>0, <2>3
  <2>5. /\ up /\ (Persist(m) \/ PersistFails(m))
        /\ UNCHANGED <<archiveVars, guard, pass, up>>
    BY <2>1
  <2> HIDE DEF m
  <2> QED BY <2>4, <2>5, SaveKeepsLossInv
<1>4. CASE DeleteMessage
  <2>1. PICK i \in DOMAIN mem :
          LET m == Prefix(mem, i - 1) \o Suffix(mem, i)
          IN /\ up /\ (Persist(m) \/ PersistFails(m))
             /\ UNCHANGED <<archiveVars, guard, pass, up>>
    BY <1>4 DEF DeleteMessage, EngineFree
  <2> DEFINE m == Prefix(mem, i - 1) \o Suffix(mem, i)
  <2>2. i \in 0..Len(mem) /\ i - 1 \in 0..Len(mem) BY <1>0
  <2>3. Prefix(mem, i - 1) \in Seq(Line) /\ Suffix(mem, i) \in Seq(Line)
    BY <1>0, <2>2, CutKeepsLines
  <2>4. m \in Seq(Line) BY <2>3
  <2>5. /\ up /\ (Persist(m) \/ PersistFails(m))
        /\ UNCHANGED <<archiveVars, guard, pass, up>>
    BY <2>1
  <2> HIDE DEF m
  <2> QED BY <2>4, <2>5, SaveKeepsLossInv
<1>5. CASE HeartbeatMessage
  <2> DEFINE m == Append(mem, NewLine(1, "auto"))
  <2>1. m \in Seq(Line) BY <1>0, NewLineType DEF Role
  <2> QED BY <1>5, <2>1, SaveKeepsLossInv DEF HeartbeatMessage, EngineFree
<1>6. CASE InjectSystem
  <2> DEFINE m == Append(mem, NewLine(1, "system"))
  <2>1. m \in Seq(Line) BY <1>0, NewLineType DEF Role
  <2> QED BY <1>6, <2>1, SaveKeepsLossInv DEF InjectSystem, EngineFree
<1> QED BY <1>2, <1>3, <1>4, <1>5, <1>6

(* A crash forgets the passes and a restart reads active.jsonl again.      *)
LEMMA DaemonKeepsLossInv ==
  ASSUME LossInv, TypeOK, SaveAutonomy \/ Crash \/ Restart
  PROVE  LossInv'
<1>0. Safe' = Safe
  BY DEF Safe, Archive, SaveAutonomy, Crash, Restart
<1>1. CASE SaveAutonomy
  BY <1>1, StutterKeepsLossInv DEF SaveAutonomy
<1>2. CASE Crash
  <2>1. \A p \in Passes : pass'[p].pc = "off" BY <1>2 DEF Crash, NoPass
  <2>2. /\ PassKnowsDisk' /\ DiskHoldsSnap' /\ ArchiveInOrder' /\ GuardHeld'
    BY <2>1
    DEF PassKnowsDisk, DiskHoldsSnap, ArchiveInOrder, GuardHeld, Holding, Owning
  <2>3. AcceptedKept' /\ MemoryHoldsDisk'
    BY <1>0, <1>2 DEF Crash, LossInv, AcceptedKept, MemoryHoldsDisk
  <2> QED BY <2>2, <2>3 DEF LossInv
<1>3. CASE Restart
  BY <1>0, <1>3
  DEF Restart, LossInv, AcceptedKept, MemoryHoldsDisk, PassKnowsDisk,
      DiskHoldsSnap, ArchiveInOrder, GuardHeld, Archive, Holding, Owning, Archived
<1> QED BY <1>1, <1>2, <1>3

(* The inductive invariant behind the two theorems below.                  *)
LEMMA LossInvHolds == Spec => [](TypeOK /\ SplitInRange /\ LossInv)
<1>1. Init => LossInv
  <2> SUFFICES ASSUME Init PROVE LossInv
    OBVIOUS
  <2>1. \A p \in Passes : pass[p].pc = "off" BY DEF Init, NoPass
  <2>2. PassKnowsDisk /\ DiskHoldsSnap /\ ArchiveInOrder /\ GuardHeld
    BY <2>1
    DEF PassKnowsDisk, DiskHoldsSnap, ArchiveInOrder, GuardHeld, Holding, Owning
  <2>3. AcceptedKept /\ MemoryHoldsDisk
    BY DEF Init, AcceptedKept, MemoryHoldsDisk
  <2> QED BY <2>2, <2>3 DEF LossInv
<1>2. TypeOK /\ SplitInRange /\ LossInv /\ [Next]_vars => LossInv'
  <2> SUFFICES ASSUME TypeOK, SplitInRange, LossInv, [Next]_vars PROVE LossInv'
    OBVIOUS
  <2>1. CASE UNCHANGED vars
    BY <2>1, StutterKeepsLossInv
  <2>2. CASE Next
    BY <2>2, WritersKeepLossInv, PassKeepsLossInv, DaemonKeepsLossInv DEF Next
  <2> QED BY <2>1, <2>2
<1> QED BY <1>1, <1>2, TypesAndSplits, PTL DEF Spec

(* NoSilentLoss, for every number of sessions, lines, failing writes and   *)
(* crashes: what clients were told of is in active.jsonl or in a segment   *)
(* the manifest lists, unless it was taken out or changed behind a running *)
(* pass's back.                                                            *)
THEOREM NothingLostSilently == Spec => []NoSilentLoss
<1>1. LossInv => NoSilentLoss
  BY DEF LossInv, AcceptedKept, Safe, NoSilentLoss
<1> QED BY <1>1, LossInvHolds, PTL

(* SegmentsImmutable, likewise: no pass, failing or not, rewrites a listed *)
(* segment file or takes it from the manifest.                             *)
THEOREM ListedSegmentsStay == Spec => SegmentsImmutable
<1> DEFINE Stays == listed' >= listed /\ \A i \in 1..listed : files'[i] = files[i]
<1>1. TypeOK /\ SplitInRange /\ LossInv /\ [Next]_vars => [Stays]_vars
  <2> SUFFICES ASSUME TypeOK, LossInv, Next PROVE Stays
    OBVIOUS
  <2>0. listed \in Nat /\ files \in [1..MaxSegments -> Seq(Line)]
        /\ MaxSegments \in Nat
    BY BoundsAssumption DEF TypeOK
  <2>1. CASE UNCHANGED <<files, listed>> BY <2>0, <2>1
  <2>2. ASSUME NEW p \in Passes, WriteSegment(p) \/ WriteSegmentFails(p)
        PROVE  Stays
    BY <2>0, <2>2 DEF WriteSegment, WriteSegmentFails
  <2>3. ASSUME NEW p \in Passes, WriteManifest(p) PROVE Stays
    BY <2>0, <2>3 DEF WriteManifest, LossInv, ArchiveInOrder
  <2>4. ASSUME NEW s \in Sessions, SessionStep(s) PROVE UNCHANGED <<files, listed>>
    BY <2>4 DEF SessionStep, GenerationStep, StartTurn, StartRegen, BuildRequest,
       GenerationEnds, BeginPersist, AppendReply, PersistRegen
  <2>5. ASSUME NEW p \in Passes, PassStep(p)
        PROVE  \/ UNCHANGED <<files, listed>>
               \/ WriteSegment(p) \/ WriteSegmentFails(p) \/ WriteManifest(p)
    BY <2>5 DEF PassStep, BeginPass, StartAsked, BeginManual, AskPass, PassRefused,
       BeginBackground, BeginOnEmpty,
       ReadDeepIdle, ReadForRebuild, BeginPure, ToolWrite, EndLoop, LoopArchives,
       LoopWithoutWrites, LoopFails, ArchiveStep, WriteManifestFails, WriteActive,
       WriteActiveFails, Rollback, FinishStep, Reload, ReloadFails, Notify,
       CacheRebuilt
  <2>6. ASSUME \/ EditMessage \/ DeleteMessage \/ InjectSystem \/ HeartbeatMessage
               \/ SaveAutonomy \/ Crash \/ Restart
        PROVE  UNCHANGED <<files, listed>>
    BY <2>6 DEF EditMessage, DeleteMessage, InjectSystem, HeartbeatMessage, SaveAutonomy,
       Crash, Restart
  <2> QED BY <2>1, <2>2, <2>3, <2>4, <2>5, <2>6 DEF Next
<1> QED BY <1>1, LossInvHolds, PTL DEF Spec, SegmentsImmutable

-----------------------------------------------------------------------------
(* Memory and file                                                         *)

(* A save leaves memory and file the same, or it failed.                   *)
LEMMA SavedOrFailed ==
  ASSUME TypeOK, NEW m, Persist(m) \/ PersistFails(m)
  PROVE  mem' = disk' \/ failures' # 0
<1>1. failures \in Nat
  BY DEF TypeOK
<1> QED BY <1>1 DEF Persist, PersistFails

(* The writers of the transcript save it, whoever they are.                *)
LEMMA WritersSave ==
  ASSUME TypeOK,
         \/ \E s \in Sessions : SessionStep(s)
         \/ EditMessage \/ DeleteMessage \/ InjectSystem \/ HeartbeatMessage
  PROVE  \/ UNCHANGED <<mem, disk, pass, failures, up>>
         \/ mem' = disk' \/ failures' # 0
<1>1. ASSUME NEW s \in Sessions, StartTurn(s) \/ AppendReply(s) \/ PersistRegen(s)
      PROVE  \/ UNCHANGED <<mem, disk, pass, failures, up>>
             \/ \E m : Persist(m) \/ PersistFails(m)
  BY <1>1 DEF StartTurn, AppendReply, PersistRegen, engineVars, boundVars
<1>2. ASSUME NEW s \in Sessions,
             StartRegen(s) \/ BuildRequest(s) \/ GenerationEnds(s) \/ BeginPersist(s)
      PROVE  UNCHANGED <<mem, disk, pass, failures, up>>
  BY <1>2 DEF StartRegen, BuildRequest, GenerationEnds, BeginPersist, engineVars, boundVars
<1>3. ASSUME EditMessage \/ DeleteMessage \/ InjectSystem \/ HeartbeatMessage
      PROVE  \E m : Persist(m) \/ PersistFails(m)
  BY <1>3 DEF EditMessage, DeleteMessage, InjectSystem, HeartbeatMessage
<1> QED BY <1>1, <1>2, <1>3, SavedOrFailed DEF SessionStep, GenerationStep

(* A pass that does not reload has nothing to reload, or leads to it.      *)
LEMMA PassesKeepMemory ==
  ASSUME TypeOK, NEW p \in Passes, PassStep(p)
  PROVE  \/ mem' = disk' \/ failures' # 0 \/ pass'[p].pc = "reload"
         \/ /\ UNCHANGED <<mem, disk, up, failures>> /\ pass[p].pc # "reload"
            /\ \A q \in Passes : q # p => pass'[q] = pass[q]
<1>0. pass \in [Passes -> CompactionPass] /\ failures \in Nat
  BY DEF TypeOK
<1>1. CASE Reload(p)
  BY <1>1 DEF Reload
<1>2. CASE ReloadFails(p) \/ WriteSegmentFails(p) \/ WriteManifestFails(p) \/ WriteActiveFails(p)
  BY <1>0, <1>2 DEF ReloadFails, WriteSegmentFails, WriteManifestFails, WriteActiveFails,
     engineVars, boundVars, PassUnchanged
<1>3. CASE WriteActive(p)
  BY <1>0, <1>3 DEF WriteActive
<1>4. CASE BeginPass(p)
  <2>1. CASE p = "manual" /\ BeginManual
    BY <1>0, <2>1 DEF BeginManual, EnterLoop, engineVars, boundVars, PassUnchanged
  <2>2. CASE BeginBackground(p)
    BY <1>0, <2>2 DEF BeginBackground, EnterLoop, engineVars, boundVars, PassUnchanged
  <2>3. CASE BeginOnEmpty(p)
    BY <1>0, <2>3 DEF BeginOnEmpty
  <2>4. CASE p = "tick" /\ ReadDeepIdle
    <3>1. /\ UNCHANGED <<mem, disk, up, failures>> /\ pass["tick"].pc = "off"
          /\ \E r : pass' = [pass EXCEPT !["tick"] = r]
      BY <2>4 DEF ReadDeepIdle, engineVars, boundVars, PassUnchanged
    <3> QED BY <1>0, <2>4, <3>1
  <2>5. CASE p = "tick" /\ ReadForRebuild
    <3>1. /\ UNCHANGED <<mem, disk, up, failures>> /\ pass["tick"].pc = "off"
          /\ \E r : pass' = [pass EXCEPT !["tick"] = r]
      BY <2>5 DEF ReadForRebuild, engineVars, boundVars, PassUnchanged
    <3> QED BY <1>0, <2>5, <3>1
  <2>6. CASE AskPass(p)
    <3>1. /\ UNCHANGED <<mem, disk, up, failures>> /\ pass[p].pc = "off"
          /\ \E r : pass' = [pass EXCEPT ![p] = r]
      BY <2>6 DEF AskPass, engineVars, boundVars, PassUnchanged
    <3> QED BY <1>0, <3>1
  <2>7. CASE PassRefused(p)
    BY <1>0, <2>7 DEF PassRefused, EndPass, engineVars, boundVars, PassUnchanged
  <2> QED BY <1>4, <2>1, <2>2, <2>3, <2>4, <2>5, <2>6, <2>7 DEF BeginPass, StartAsked
<1>5. CASE BeginPure(p) \/ ToolWrite(p) \/ EndLoop(p)
  BY <1>0, <1>5 DEF BeginPure, ToolWrite, EndLoop, LoopArchives, LoopWithoutWrites, LoopFails,
     EndPass, engineVars, boundVars, PassUnchanged
<1>6. CASE WriteSegment(p) \/ WriteManifest(p) \/ Rollback(p) \/ Notify(p) \/ CacheRebuilt(p)
  BY <1>0, <1>6 DEF WriteSegment, WriteManifest, Rollback, Notify, CacheRebuilt, EndPass,
     engineVars, boundVars, PassUnchanged
<1> QED BY <1>1, <1>2, <1>3, <1>4, <1>5, <1>6 DEF PassStep, ArchiveStep, FinishStep

(* As long as no write fails, memory is what the file holds, save between  *)
(* a pass's replacement of the file and its reload; it needs no help but   *)
(* the types.                                                              *)
THEOREM MemoryFollowsDisk == Spec => []MemoryMatchesDisk
<1>1. Init => MemoryMatchesDisk
  BY DEF Init, MemoryMatchesDisk
<1>2. TypeOK /\ MemoryMatchesDisk /\ [Next]_vars => MemoryMatchesDisk'
  <2> SUFFICES ASSUME TypeOK, MemoryMatchesDisk, [Next]_vars,
                      up', failures' = 0, mem' # disk'
               PROVE  \E p \in Passes : pass'[p].pc = "reload"
    BY DEF MemoryMatchesDisk
  <2>1. CASE UNCHANGED <<mem, disk, pass, failures, up>>
    BY <2>1 DEF MemoryMatchesDisk
  <2>2. ASSUME NEW p \in Passes, PassStep(p)
        PROVE  \E q \in Passes : pass'[q].pc = "reload"
    BY <2>2, PassesKeepMemory DEF MemoryMatchesDisk
  <2>3. ASSUME Crash \/ Restart PROVE FALSE
    BY <2>3 DEF Crash, Restart
  <2>4. CASE SaveAutonomy
    BY <2>1, <2>4 DEF SaveAutonomy, engineVars, boundVars
  <2>5. CASE \/ \E s \in Sessions : SessionStep(s)
             \/ EditMessage \/ DeleteMessage \/ InjectSystem \/ HeartbeatMessage
    BY <2>1, <2>5, WritersSave
  <2>6. CASE UNCHANGED vars
    BY <2>1, <2>6 DEF vars, engineVars, boundVars
  <2> QED BY <2>2, <2>3, <2>4, <2>5, <2>6 DEF Next
<1> QED BY <1>1, <1>2, TypeCorrect, PTL DEF Spec
-----------------------------------------------------------------------------
(* Nothing comes back                                                      *)

(* The lines memory, the file or a pass that will replace the file holds.  *)
Live ==
  Range(mem) \cup Range(disk)
  \cup UNION {Range(pass[p].snap) : p \in {q \in Passes : Holding(q)}}

Gone == dropped \ exposed

(* Every line there has been was numbered when it was made.                *)
Created == \A l \in dropped \cup Live : l.id <= fresh

(* The lines of a reply wait under the engine lock, and none of them was   *)
(* in a transcript before.                                                 *)
Waiting(todo) ==
  \A i \in DOMAIN todo :
    /\ todo[i].id <= fresh /\ todo[i] \notin dropped \cup Live
    /\ \A j \in DOMAIN todo : todo[i] = todo[j] => i = j

RepliesWait == \A s \in Sessions : gen[s].todo # <<>> => lock = s /\ Waiting(gen[s].todo)

NoneReturns == failures = 0 => Gone \cap Live = {}

ReturnInv == Created /\ RepliesWait /\ NoneReturns

(* The lines there have been are lines.                                    *)
LEMMA LiveLines ==
  ASSUME TypeOK PROVE dropped \cup Live \subseteq Line /\ fresh \in Nat
<1>1. \A p \in Passes : Range(pass[p].snap) \subseteq Line
  BY PassTyped, LinesOfSeq
<1>2. Range(mem) \subseteq Line /\ Range(disk) \subseteq Line
  BY LinesOfSeq DEF TypeOK
<1> QED BY <1>1, <1>2 DEF TypeOK, Live

(* While the engine is free no reply waits.                                *)
LEMMA NobodyWaits ==
  ASSUME RepliesWait, lock = Free PROVE \A s \in Sessions : gen[s].todo = <<>>
BY SessionsAssumption DEF RepliesWait

(* A line with a new number has never been there.                          *)
LEMMA NewIsUnseen ==
  ASSUME TypeOK, Created, NEW l \in Line, l.id > fresh
  PROVE  l \notin dropped \cup Live
<1>1. l.id \in Nat /\ fresh \in Nat
  BY DEF TypeOK, Line
<1> QED BY <1>1 DEF Created

(* A save of lines that were there and of new ones N, whether or not the   *)
(* file is replaced: what a running pass holds of the lines that leave is  *)
(* exposed.                                                                *)
LEMMA SaveReturns ==
  ASSUME TypeOK, TypeOK', Created, NoneReturns, NEW m \in Seq(Line), NEW N \in SUBSET Line,
         Persist(m) \/ PersistFails(m), UNCHANGED pass,
         Range(m) \subseteq Range(mem) \cup N, fresh' >= fresh,
         \A l \in N : l \notin dropped \cup Live /\ l.id <= fresh'
  PROVE  /\ Created' /\ NoneReturns'
         /\ dropped' \cup Live' \subseteq dropped \cup Live \cup N
<1>1. \A p \in Passes : Holding(p)' = Holding(p)
  BY DEF Holding
<1>2. /\ mem' = m /\ disk' \in {m, disk}
      /\ dropped' = dropped \cup (Range(mem) \ Range(m))
  BY DEF Persist, PersistFails
<1>3. Live' \subseteq Live \cup N
  BY <1>1, <1>2 DEF Live
<1>4. dropped' \subseteq dropped \cup Live
  BY <1>2 DEF Live
<1>5. Created'
  <2> SUFFICES ASSUME NEW l \in dropped' \cup Live' PROVE l.id <= fresh'
    BY DEF Created
  <2>1. CASE l \in N
    BY <2>1
  <2>2. CASE l \in dropped \cup Live
    <3>1. l.id <= fresh /\ l \in Line /\ fresh \in Nat /\ fresh' \in Nat
      BY <2>2, LiveLines DEF Created, TypeOK
    <3> QED BY <3>1 DEF Line
  <2> QED BY <1>3, <1>4, <2>1, <2>2
<1>6. NoneReturns'
  <2>1. CASE PersistFails(m)
    BY <2>1 DEF PersistFails, NoneReturns, TypeOK
  <2>2. CASE Persist(m)
    <3> SUFFICES ASSUME failures' = 0, NEW l \in Gone', l \in Live' PROVE FALSE
      BY DEF NoneReturns
    <3>1. /\ failures = 0 /\ disk' = m /\ exposed' = exposed \cup BehindPass(m)
          /\ l \in dropped' /\ l \notin exposed'
      BY <2>2 DEF Persist, Gone
    <3>2. CASE l \in dropped
      <4>1. l \in Gone /\ l \notin N
        BY <3>1, <3>2 DEF Gone
      <4> QED BY <1>3, <3>1, <4>1 DEF NoneReturns
    <3>3. CASE l \notin dropped
      <4>1. l \in Range(mem) \ Range(m)
        BY <1>2, <3>1, <3>3
      <4>2. PICK p \in Passes : Holding(p) /\ l \in Range(pass[p].snap)
        BY <1>1, <1>2, <3>1, <4>1 DEF Live
      <4> QED BY <3>1, <4>1, <4>2 DEF BehindPass
    <3> QED BY <3>2, <3>3
  <2> QED BY <2>1, <2>2
<1> QED BY <1>3, <1>4, <1>5, <1>6

(* A step that brings no line and takes none out.                          *)
LEMMA MoveReturns ==
  ASSUME TypeOK, Created, NoneReturns, Live' \subseteq Live,
         UNCHANGED <<dropped, exposed, fresh>>, failures' = 0 => failures = 0
  PROVE  /\ Created' /\ NoneReturns'
         /\ dropped' \cup Live' \subseteq dropped \cup Live
BY DEF Created, NoneReturns, Gone

(* What waits keeps waiting while no more lines have been there.           *)
LEMMA StillWait ==
  ASSUME RepliesWait, UNCHANGED fresh, dropped' \cup Live' \subseteq dropped \cup Live,
         \A s \in Sessions : gen'[s].todo \in {gen[s].todo, <<>>},
         lock' = lock \/ lock \notin Sessions
  PROVE  RepliesWait'
BY DEF RepliesWait, Waiting

(* A writer that finds the engine free saves and leaves no reply waiting.  *)
LEMMA FreeSaveReturns ==
  ASSUME TypeOK, TypeOK', ReturnInv, lock = Free, NEW m \in Seq(Line), NEW N \in SUBSET Line,
         Persist(m) \/ PersistFails(m), UNCHANGED pass,
         Range(m) \subseteq Range(mem) \cup N, fresh' >= fresh,
         \A l \in N : l.id > fresh /\ l.id <= fresh',
         \A s \in Sessions : gen'[s].todo \in {gen[s].todo, <<>>}
  PROVE  ReturnInv'
<1>1. \A l \in N : l \notin dropped \cup Live /\ l.id <= fresh'
  BY NewIsUnseen DEF ReturnInv
<1>2. Created' /\ NoneReturns'
  BY <1>1, SaveReturns DEF ReturnInv
<1>3. \A s \in Sessions : gen'[s].todo = <<>>
  BY NobodyWaits DEF ReturnInv
<1> QED BY <1>2, <1>3 DEF ReturnInv, RepliesWait

(* The next line.                                                          *)
LEMMA OneNewLine ==
  ASSUME TypeOK, NEW r \in Role, fresh' = fresh + 1
  PROVE  /\ {NewLine(1, r)} \in SUBSET Line /\ fresh' >= fresh
         /\ \A l \in {NewLine(1, r)} : l.id > fresh /\ l.id <= fresh'
BY NewLineType DEF NewLine, TypeOK

(* A line at the end.                                                      *)
LEMMA RangeAppend ==
  ASSUME NEW s \in Seq(Line), NEW l \in Line
  PROVE  Append(s, l) \in Seq(Line) /\ Range(Append(s, l)) = Range(s) \cup {l}
<1>1. /\ Append(s, l) \in Seq(Line) /\ DOMAIN Append(s, l) = 1..(Len(s) + 1)
      /\ \A i \in 1..Len(s) : Append(s, l)[i] = s[i]
      /\ Append(s, l)[Len(s) + 1] = l /\ Len(s) \in Nat /\ DOMAIN s = 1..Len(s)
  OBVIOUS
<1>2. 1..(Len(s) + 1) = 1..Len(s) \cup {Len(s) + 1}
  BY <1>1
<1> QED BY <1>1, <1>2 DEF Range

(* Two transcripts in a row.                                               *)
LEMMA RangeConcat ==
  ASSUME NEW s \in Seq(Line), NEW t \in Seq(Line)
  PROVE  s \o t \in Seq(Line) /\ Range(s \o t) \subseteq Range(s) \cup Range(t)
<1>1. /\ s \o t \in Seq(Line) /\ DOMAIN (s \o t) = 1..(Len(s) + Len(t))
      /\ \A i \in 1..Len(s) : (s \o t)[i] = s[i]
      /\ \A i \in Len(s) + 1 .. Len(s) + Len(t) : (s \o t)[i] = t[i - Len(s)]
  OBVIOUS
<1>2. ASSUME NEW i \in 1..(Len(s) + Len(t)) PROVE (s \o t)[i] \in Range(s) \cup Range(t)
  <2>1. CASE i \in 1..Len(s)
    BY <1>1, <2>1 DEF Range
  <2>2. CASE i \in Len(s) + 1 .. Len(s) + Len(t)
    <3>1. i - Len(s) \in 1..Len(t)
      BY <2>2
    <3> QED BY <1>1, <2>2, <3>1 DEF Range
  <2> QED BY <2>1, <2>2
<1> QED BY <1>1, <1>2 DEF Range

(* The lines of a reply are new, in the order of their numbers.            *)
LEMMA GeneratedAreNew ==
  ASSUME TypeOK, NEW n \in Nat
  PROVE  /\ GeneratedLines(n) \in Seq(Line) /\ DOMAIN GeneratedLines(n) = 1..n
         /\ \A i \in 1..n : GeneratedLines(n)[i].id = fresh + i
         /\ Range(GeneratedLines(n)) \in SUBSET Line
         /\ \A l \in Range(GeneratedLines(n)) : l.id > fresh /\ l.id <= fresh + n
<1>1. GeneratedLines(n) \in Seq(Line) /\ fresh \in Nat
  BY GeneratedLinesType DEF TypeOK
<1>2. /\ DOMAIN GeneratedLines(n) = 1..n
      /\ \A i \in 1..n : GeneratedLines(n)[i].id = fresh + i
  BY DEF GeneratedLines, NewLine
<1>3. \A l \in Range(GeneratedLines(n)) : \E i \in 1..n : l.id = fresh + i
  BY <1>2 DEF Range
<1>4. \A l \in Range(GeneratedLines(n)) : l.id > fresh /\ l.id <= fresh + n
  BY <1>1, <1>3
<1> QED BY <1>1, <1>2, <1>4, LinesOfSeq

(* The writers beside the generation tasks.                                *)
LEMMA WritersReturn ==
  ASSUME TypeOK, TypeOK', ReturnInv,
         EditMessage \/ DeleteMessage \/ InjectSystem \/ HeartbeatMessage
  PROVE  ReturnInv'
<1>1. mem \in Seq(Line) /\ fresh \in Nat
  BY DEF TypeOK
<1>2. UNCHANGED pass /\ lock = Free /\ gen' = gen
  BY DEF EditMessage, DeleteMessage, InjectSystem, HeartbeatMessage, EngineFree
<1>3. CASE EditMessage
  <2>1. PICK i \in DOMAIN mem :
          LET m == [mem EXCEPT ![i] = NewLine(1, mem[i].role)]
          IN (Persist(m) \/ PersistFails(m)) /\ fresh' = fresh + 1
    BY <1>3 DEF EditMessage
  <2> DEFINE l == NewLine(1, mem[i].role)
             m == [mem EXCEPT ![i] = l]
  <2>2. mem[i].role \in Role
    <3>1. mem[i] \in Line
      BY <1>1
    <3> QED BY <3>1 DEF Line
  <2>3. l \in Line /\ {l} \in SUBSET Line /\ fresh' >= fresh /\ \A k \in {l} : k.id > fresh /\ k.id <= fresh'
    BY <2>1, <2>2, OneNewLine
  <2>4. Persist(m) \/ PersistFails(m)
    BY <2>1
  <2> HIDE DEF l
  <2>5. m \in Seq(Line) /\ Range(m) \subseteq Range(mem) \cup {l}
    BY <1>1, <2>3 DEF Range
  <2> HIDE DEF m
  <2> QED BY <1>2, <2>3, <2>4, <2>5, FreeSaveReturns
<1>4. CASE DeleteMessage
  <2>1. PICK i \in DOMAIN mem :
          LET m == Prefix(mem, i - 1) \o Suffix(mem, i)
          IN (Persist(m) \/ PersistFails(m)) /\ fresh' = fresh
    BY <1>4 DEF DeleteMessage
  <2> DEFINE a == Prefix(mem, i - 1)
             b == Suffix(mem, i)
  <2>2. i \in 0..Len(mem) /\ i - 1 \in 0..Len(mem)
    BY <1>1
  <2>3. /\ a \in Seq(Line) /\ b \in Seq(Line)
        /\ Range(a) \subseteq Range(mem) /\ Range(b) \subseteq Range(mem)
    BY <1>1, <2>2, CutKeepsLines
  <2>4. Persist(a \o b) \/ PersistFails(a \o b)
    BY <2>1
  <2> HIDE DEF a, b
  <2>5. a \o b \in Seq(Line) /\ Range(a \o b) \subseteq Range(mem) \cup {}
    BY <2>3, RangeConcat
  <2> DEFINE m == a \o b
             none == {}
  <2>6. /\ m \in Seq(Line) /\ none \in SUBSET Line /\ Range(m) \subseteq Range(mem) \cup none
        /\ Persist(m) \/ PersistFails(m)
        /\ fresh' >= fresh /\ \A l \in none : l.id > fresh /\ l.id <= fresh'
    BY <1>1, <2>1, <2>4, <2>5
  <2> HIDE DEF m, none
  <2> QED BY <1>2, <2>6, FreeSaveReturns
<1>5. ASSUME NEW r \in Role, fresh' = fresh + 1,
             LET m == Append(mem, NewLine(1, r)) IN Persist(m) \/ PersistFails(m)
      PROVE  ReturnInv'
  <2> DEFINE l == NewLine(1, r)
             m == Append(mem, l)
  <2>1. l \in Line /\ {l} \in SUBSET Line /\ fresh' >= fresh /\ \A k \in {l} : k.id > fresh /\ k.id <= fresh'
    BY <1>5, OneNewLine
  <2>2. Persist(m) \/ PersistFails(m)
    BY <1>5
  <2> HIDE DEF l
  <2>3. m \in Seq(Line) /\ Range(m) \subseteq Range(mem) \cup {l}
    BY <1>1, <2>1, RangeAppend
  <2> HIDE DEF m
  <2> QED BY <1>2, <2>1, <2>2, <2>3, FreeSaveReturns
<1>6. CASE InjectSystem
  BY <1>5, <1>6 DEF InjectSystem, Role
<1>7. CASE HeartbeatMessage
  BY <1>5, <1>7 DEF HeartbeatMessage, Role
<1> QED BY <1>3, <1>4, <1>6, <1>7

(* The generation tasks.                                                   *)
LEMMA SessionsReturn ==
  ASSUME TypeOK, TypeOK', ReturnInv, NEW s \in Sessions, SessionStep(s)
  PROVE  ReturnInv'
<1>1. /\ mem \in Seq(Line) /\ fresh \in Nat /\ gen \in [Sessions -> GenTask]
      /\ gen[s].todo \in Seq(Line) /\ KeepIndex(mem) \in 0..Len(mem)
  BY KeepIndexInRange DEF TypeOK, GenTask
<1>2. UNCHANGED pass
  BY DEF SessionStep, GenerationStep, StartTurn, StartRegen, BuildRequest, GenerationEnds,
     BeginPersist, AppendReply, PersistRegen

(* Steps that touch no transcript.                                         *)
<1>3. ASSUME UNCHANGED <<mem, disk, dropped, exposed, fresh, failures>>, lock' = lock,
             \A t \in Sessions : gen'[t].todo \in {gen[t].todo, <<>>}
      PROVE  ReturnInv'
  <2>1. Live' = Live
    BY <1>2, <1>3 DEF Live, Holding
  <2>2. /\ Created' /\ NoneReturns' /\ dropped' \cup Live' \subseteq dropped \cup Live
    BY <1>3, <2>1, MoveReturns DEF ReturnInv
  <2> QED BY <1>3, <2>2, StillWait DEF ReturnInv
<1>4. CASE StartTurn(s)
  <2>1. lock = Free /\ \A t \in Sessions : gen'[t].todo \in {gen[t].todo, <<>>}
    BY <1>1, <1>4 DEF StartTurn, EngineFree, NoGen
  <2>2. CASE UNCHANGED <<engineVars, fresh, historyVars, boundVars>>
    BY <1>3, <1>4, <2>1, <2>2 DEF StartTurn
  <2>3. CASE /\ fresh' = fresh + 1
             /\ LET m == Append(mem, NewLine(1, "user")) IN Persist(m) \/ PersistFails(m)
    <3> DEFINE l == NewLine(1, "user")
               m == Append(mem, l)
    <3>1. l \in Line /\ {l} \in SUBSET Line /\ fresh' >= fresh /\ \A k \in {l} : k.id > fresh /\ k.id <= fresh'
      BY <2>3, OneNewLine DEF Role
    <3>2. Persist(m) \/ PersistFails(m)
      BY <2>3
    <3> HIDE DEF l
    <3>3. m \in Seq(Line) /\ Range(m) \subseteq Range(mem) \cup {l}
      BY <1>1, <3>1, RangeAppend
    <3> HIDE DEF m
    <3> QED BY <1>2, <2>1, <3>1, <3>2, <3>3, FreeSaveReturns
  <2> QED BY <1>4, <2>2, <2>3 DEF StartTurn
<1>5. CASE StartRegen(s) \/ GenerationEnds(s) \/ BuildRequest(s)
  <2>1. \A t \in Sessions : gen'[t].todo \in {gen[t].todo, <<>>}
    <3>1. CASE StartRegen(s)
      BY <1>1, <3>1 DEF StartRegen, NoGen
    <3>2. CASE GenerationEnds(s)
      BY <1>1, <3>2 DEF GenerationEnds, NoGen
    <3>3. CASE BuildRequest(s)
      <4>1. \E b : gen' = [gen EXCEPT ![s].pc = "stream", ![s].base = b]
        BY <3>3 DEF BuildRequest
      <4> QED BY <1>1, <4>1 DEF GenTask
    <3> QED BY <1>5, <3>1, <3>2, <3>3
  <2> QED BY <1>3, <1>5, <2>1 DEF StartRegen, GenerationEnds, BuildRequest
<1>6. CASE BeginPersist(s)
  <2>1. PICK n \in 0..MaxReplyLines :
          /\ lock = Free /\ fresh' = fresh + n
          /\ UNCHANGED <<mem, disk, dropped, exposed, failures>>
          /\ IF n = 0 THEN gen' = [gen EXCEPT ![s] = NoGen] /\ UNCHANGED lock
             ELSE /\ gen' = [gen EXCEPT ![s].pc = "append", ![s].todo = GeneratedLines(n)]
                  /\ lock' = s
    BY <1>6 DEF BeginPersist, EngineFree
  <2>2. n \in Nat
    BY BoundsAssumption
  <2>3. \A t \in Sessions : gen[t].todo = <<>>
    BY <2>1, NobodyWaits DEF ReturnInv
  <2>4. Live' = Live /\ fresh' >= fresh
    BY <1>1, <1>2, <2>1, <2>2 DEF Live, Holding
  <2>5. Created'
    <3> SUFFICES ASSUME NEW l \in dropped \cup Live PROVE l.id <= fresh'
      BY <2>1, <2>4 DEF Created
    <3>1. l.id <= fresh /\ l \in Line
      BY LiveLines DEF ReturnInv, Created
    <3> QED BY <1>1, <2>1, <2>2, <3>1 DEF Line
  <2>6. NoneReturns'
    BY <2>1, <2>4 DEF ReturnInv, NoneReturns, Gone
  <2>7. CASE n = 0
    <3>1. \A t \in Sessions : gen'[t].todo = <<>>
      BY <1>1, <2>1, <2>3, <2>7 DEF NoGen
    <3> QED BY <2>5, <2>6, <3>1 DEF ReturnInv, RepliesWait
  <2>8. CASE n # 0
    <3>1. /\ gen'[s].todo = GeneratedLines(n) /\ lock' = s
          /\ \A t \in Sessions \ {s} : gen'[t].todo = <<>>
      BY <1>1, <2>1, <2>3, <2>8 DEF GenTask
    <3>2. /\ DOMAIN GeneratedLines(n) = 1..n
          /\ \A i \in 1..n : /\ GeneratedLines(n)[i].id = fresh + i
                             /\ GeneratedLines(n)[i] \in Line
      <4>1. /\ GeneratedLines(n) \in Seq(Line) /\ DOMAIN GeneratedLines(n) = 1..n
            /\ \A i \in 1..n : GeneratedLines(n)[i].id = fresh + i
        BY <2>2, GeneratedAreNew
      <4> QED BY <4>1
    <3>3. ASSUME NEW i \in 1..n
          PROVE  /\ GeneratedLines(n)[i].id <= fresh'
                 /\ GeneratedLines(n)[i] \notin dropped \cup Live
                 /\ \A j \in 1..n : GeneratedLines(n)[i] = GeneratedLines(n)[j] => i = j
      <4>1. GeneratedLines(n)[i].id > fresh /\ GeneratedLines(n)[i].id <= fresh'
        BY <1>1, <2>1, <2>2, <3>2
      <4>2. \A j \in 1..n : GeneratedLines(n)[i] = GeneratedLines(n)[j] => fresh + i = fresh + j
        BY <3>2
      <4>3. \A j \in 1..n : fresh + i = fresh + j => i = j
        BY <1>1, <2>2
      <4> QED BY <3>2, <4>1, <4>2, <4>3, NewIsUnseen DEF ReturnInv
    <3>4. Waiting(gen[s].todo)'
      BY <2>1, <2>4, <3>1, <3>2, <3>3 DEF Waiting
    <3> QED BY <2>5, <2>6, <3>1, <3>4 DEF ReturnInv, RepliesWait
  <2> QED BY <2>7, <2>8
<1>7. CASE AppendReply(s)
  <2> DEFINE todo == gen[s].todo
             l == Head(todo)
             m == Append(mem, l)
  <2>1. /\ todo # <<>> /\ lock = s /\ fresh' = fresh
        /\ Persist(m) \/ PersistFails(m)
        /\ \/ gen' = [gen EXCEPT ![s].todo = Tail(todo)] /\ lock' = lock
           \/ gen' = [gen EXCEPT ![s] = NoGen] /\ lock' = Free
    BY <1>7 DEF AppendReply
  <2>2. /\ todo \in Seq(Line) /\ l \in Line /\ l = todo[1] /\ 1 \in DOMAIN todo
        /\ DOMAIN todo = 1..Len(todo) /\ Len(todo) \in Nat
        /\ Tail(todo) \in Seq(Line) /\ DOMAIN Tail(todo) = 1..(Len(todo) - 1)
        /\ \A i \in 1..(Len(todo) - 1) : Tail(todo)[i] = todo[i + 1] /\ i + 1 \in DOMAIN todo
    BY <1>1, <2>1
  <2>3. Waiting(todo)
    BY <2>1 DEF ReturnInv, RepliesWait
  <2>4. l.id <= fresh /\ l \notin dropped \cup Live
    BY <2>2, <2>3 DEF Waiting
  <2>5. \A t \in Sessions \ {s} : gen[t].todo = <<>>
    BY <2>1 DEF ReturnInv, RepliesWait
  <2>6. m \in Seq(Line) /\ Range(m) \subseteq Range(mem) \cup {l}
    BY <1>1, <2>2, RangeAppend
  <2>7. /\ Created' /\ NoneReturns' /\ dropped' \cup Live' \subseteq dropped \cup Live \cup {l}
    <3>1. {l} \in SUBSET Line /\ fresh' >= fresh
          /\ \A k \in {l} : k \notin dropped \cup Live /\ k.id <= fresh'
      BY <1>1, <2>1, <2>2, <2>4
    <3> HIDE DEF l, m
    <3> QED BY <1>2, <2>1, <2>6, <3>1, SaveReturns DEF ReturnInv
  <2>8. CASE gen' = [gen EXCEPT ![s].todo = Tail(todo)] /\ lock' = lock
    <3>1. gen'[s].todo = Tail(todo) /\ \A t \in Sessions \ {s} : gen'[t].todo = <<>>
      BY <1>1, <2>5, <2>8 DEF GenTask
    <3>2. ASSUME NEW i \in DOMAIN Tail(todo)
          PROVE  /\ Tail(todo)[i].id <= fresh' /\ Tail(todo)[i] \notin dropped' \cup Live'
                 /\ \A j \in DOMAIN Tail(todo) : Tail(todo)[i] = Tail(todo)[j] => i = j
      <4>1. /\ i \in 1..(Len(todo) - 1) /\ i + 1 \in DOMAIN todo
            /\ Tail(todo)[i] = todo[i + 1]
        BY <2>2
      <4>2. todo[i + 1].id <= fresh /\ todo[i + 1] \notin dropped \cup Live
        BY <2>3, <4>1 DEF Waiting
      <4>3. todo[i + 1] # l
        BY <2>2, <2>3, <4>1 DEF Waiting
      <4>4. ASSUME NEW j \in DOMAIN Tail(todo), Tail(todo)[i] = Tail(todo)[j] PROVE i = j
        <5>1. j \in 1..(Len(todo) - 1) /\ j + 1 \in DOMAIN todo /\ Tail(todo)[j] = todo[j + 1]
          BY <2>2
        <5>2. i + 1 = j + 1
          BY <2>3, <4>1, <4>4, <5>1 DEF Waiting
        <5> QED BY <2>2, <4>1, <5>1, <5>2
      <4> QED BY <2>1, <2>7, <4>1, <4>2, <4>3, <4>4
    <3>3. Waiting(gen[s].todo)'
      BY <3>1, <3>2 DEF Waiting
    <3> QED BY <2>1, <2>7, <2>8, <3>1, <3>3 DEF ReturnInv, RepliesWait
  <2>9. CASE gen' = [gen EXCEPT ![s] = NoGen]
    <3>1. \A t \in Sessions : gen'[t].todo = <<>>
      BY <1>1, <2>5, <2>9 DEF NoGen
    <3> QED BY <2>7, <3>1 DEF ReturnInv, RepliesWait
  <2> QED BY <2>1, <2>8, <2>9
<1>8. CASE PersistRegen(s)
  <2>1. PICK n \in 0..MaxReplyLines :
          LET m == Prefix(mem, KeepIndex(mem)) \o GeneratedLines(n)
          IN /\ lock = Free /\ (Persist(m) \/ PersistFails(m))
             /\ fresh' = fresh + n /\ gen' = [gen EXCEPT ![s] = NoGen]
    BY <1>8 DEF PersistRegen, EngineFree
  <2> DEFINE r == GeneratedLines(n)
             a == Prefix(mem, KeepIndex(mem))
             m == a \o r
             N == Range(r)
  <2>2. n \in Nat
    BY BoundsAssumption
  <2>3. /\ r \in Seq(Line) /\ N \in SUBSET Line /\ fresh' >= fresh
        /\ \A l \in N : l.id > fresh /\ l.id <= fresh'
    <3>1. fresh' = fresh + n /\ fresh' >= fresh
      BY <1>1, <2>1, <2>2
    <3>2. /\ r \in Seq(Line) /\ N \in SUBSET Line
          /\ \A l \in N : l.id > fresh /\ l.id <= fresh + n
      BY <2>2, GeneratedAreNew
    <3> QED BY <3>1, <3>2
  <2>4. a \in Seq(Line) /\ Range(a) \subseteq Range(mem)
    BY <1>1, CutKeepsLines
  <2>5. lock = Free /\ (Persist(m) \/ PersistFails(m))
    BY <2>1
  <2>6. \A t \in Sessions : gen'[t].todo \in {gen[t].todo, <<>>}
    BY <1>1, <2>1 DEF NoGen
  <2> HIDE DEF r, a
  <2>7. m \in Seq(Line) /\ Range(m) \subseteq Range(mem) \cup N
    BY <2>3, <2>4, RangeConcat
  <2> HIDE DEF m, N
  <2> QED BY <1>2, <2>3, <2>5, <2>6, <2>7, FreeSaveReturns
<1> QED
  BY <1>4, <1>5, <1>6, <1>7, <1>8 DEF SessionStep, GenerationStep

(* A pass takes hold of the file it reads, and gives nothing else back.    *)
Reads(p) ==
  pass'[p].pc \in {"read", "loop", "segment", "manifest", "active"} =>
    pass'[p].snap = disk \/ (Holding(p) /\ pass'[p].snap = pass[p].snap)

OthersStay(p) == \A q \in Passes \ {p} : pass'[q] = pass[q]

LEMMA PassMoves ==
  ASSUME NEW p \in Passes, Reads(p), OthersStay(p),
         mem' \in {mem, disk}, Range(disk') \subseteq Live
  PROVE  Live' \subseteq Live
<1>1. \A q \in Passes : Holding(q)' => Range(pass'[q].snap) \subseteq Live
  BY DEF Holding, Live, Reads, OthersStay
<1> QED BY <1>1 DEF Live

(* What is retained was in the pass's hands.                               *)
LEMMA RetainedLive ==
  ASSUME TypeOK, SplitInRange, NEW p \in Passes, Holding(p)
  PROVE  Range(Retained(p)) \subseteq Live
<1>1. pass[p].snap \in Seq(Line) /\ pass[p].split \in 0..Len(pass[p].snap)
  BY PassTyped DEF SplitInRange
<1>2. Range(Retained(p)) \subseteq Range(pass[p].snap)
  BY <1>1, CutKeepsLines DEF Retained
<1> QED BY <1>2 DEF Live

(* The steps of the passes.                                                *)
LEMMA PassesReturn ==
  ASSUME TypeOK, SplitInRange, ReturnInv, NEW p \in Passes, PassStep(p)
  PROVE  ReturnInv'
<1>0. /\ pass \in [Passes -> CompactionPass] /\ pass[p] \in CompactionPass
      /\ failures \in Nat /\ p \notin Sessions /\ Free \notin Sessions
  BY SessionsAssumption, PassesAssumption DEF TypeOK
<1> DEFINE Counted == failures' = failures \/ failures' = failures + 1
           LockMoves == lock' = lock \/ (lock' \in {p, Free} /\ lock \in {p, Free})
<1>1. ASSUME Reads(p), OthersStay(p), mem' \in {mem, disk},
             disk' = disk \/ Range(disk') \subseteq Live,
             UNCHANGED <<dropped, exposed, fresh, gen>>, Counted, LockMoves
      PROVE  ReturnInv'
  <2>1. Range(disk') \subseteq Live
    BY <1>1 DEF Live
  <2>2. Live' \subseteq Live
    BY <1>1, <2>1, PassMoves
  <2>3. Created' /\ NoneReturns' /\ dropped' \cup Live' \subseteq dropped \cup Live
    BY <1>0, <1>1, <2>2, MoveReturns DEF ReturnInv
  <2>4. lock' = lock \/ lock \notin Sessions
    BY <1>0, <1>1
  <2> QED BY <1>1, <2>3, <2>4, StillWait DEF ReturnInv
<1>2. ASSUME EndPass(p) PROVE Reads(p) /\ OthersStay(p) /\ LockMoves
  BY <1>0, <1>2 DEF EndPass, Release, Reads, OthersStay, NoPass
<1> HIDE DEF Counted, LockMoves
<1>3. CASE p = "manual" /\ BeginManual
  <2>1. PICK transcript, split, cached : EnterLoop(p, transcript, split, cached)
    BY <1>3 DEF BeginManual
  <2>2. Reads(p) /\ OthersStay(p)
    BY <1>0, <2>1 DEF EnterLoop, Reads, OthersStay
  <2>3. UNCHANGED <<mem, disk, dropped, exposed, fresh, gen>> /\ Counted /\ LockMoves
    BY <1>3 DEF BeginManual, EngineFree, PassUnchanged, Counted, LockMoves
  <2> QED BY <1>1, <2>2, <2>3
<1>4. CASE BeginBackground(p)
  <2>1. PICK transcript, split, cached : EnterLoop(p, transcript, split, cached)
    BY <1>4 DEF BeginBackground
  <2>2. Reads(p) /\ OthersStay(p)
    BY <1>0, <2>1 DEF EnterLoop, Reads, OthersStay
  <2>3. UNCHANGED <<mem, disk, dropped, exposed, fresh, gen>> /\ Counted /\ LockMoves
    BY <1>4 DEF BeginBackground, PassUnchanged, Counted, LockMoves
  <2> QED BY <1>1, <2>2, <2>3
<1>5. CASE AskPass(p) \/ BeginOnEmpty(p) \/ (p = "tick" /\ (ReadDeepIdle \/ ReadForRebuild))
  <2>1. CASE AskPass(p) \/ BeginOnEmpty(p)
    BY <1>0, <1>1, <2>1
    DEF AskPass, BeginOnEmpty, NoPass, Reads, OthersStay, PassUnchanged, Counted, LockMoves
  <2>2. CASE p = "tick" /\ ReadDeepIdle
    <3>1. PICK split : pass' = [pass EXCEPT ![p] =
                         [NoPass EXCEPT !.pc = "read", !.mode = "pure",
                                        !.snap = disk, !.split = split]]
      BY <2>2 DEF ReadDeepIdle
    <3>2. Reads(p) /\ OthersStay(p)
      BY <1>0, <3>1 DEF NoPass, Reads, OthersStay
    <3>3. UNCHANGED <<mem, disk, dropped, exposed, fresh, gen>> /\ Counted /\ LockMoves
      BY <2>2 DEF ReadDeepIdle, PassUnchanged, Counted, LockMoves
    <3> QED BY <1>1, <3>2, <3>3
  <2>3. CASE p = "tick" /\ ReadForRebuild
    <3>1. Reads(p) /\ OthersStay(p)
      BY <1>0, <2>3 DEF ReadForRebuild, NoPass, Reads, OthersStay
    <3>2. UNCHANGED <<mem, disk, dropped, exposed, fresh, gen>> /\ Counted /\ LockMoves
      BY <2>3 DEF ReadForRebuild, PassUnchanged, Counted, LockMoves
    <3> QED BY <1>1, <3>1, <3>2
  <2> QED BY <1>5, <2>1, <2>2, <2>3
<1>6. CASE BeginPure(p) \/ ToolWrite(p) \/ LoopArchives(p) \/ WriteSegment(p) \/ WriteManifest(p)
  <2>1. UNCHANGED <<mem, disk, dropped, exposed, fresh, gen>> /\ Counted /\ LockMoves
    BY <1>6 DEF BeginPure, ToolWrite, LoopArchives, WriteSegment, WriteManifest,
       PassUnchanged, Counted, LockMoves
  <2>2. Reads(p) /\ OthersStay(p)
    BY <1>0, <1>6 DEF BeginPure, ToolWrite, LoopArchives, WriteSegment, WriteManifest,
       CompactionPass, NoPass, Holding, Reads, OthersStay
  <2> QED BY <1>1, <2>1, <2>2
<1>7. CASE \/ PassRefused(p) \/ LoopWithoutWrites(p) \/ LoopFails(p) \/ Rollback(p)
          \/ Notify(p) \/ CacheRebuilt(p)
  <2>1. UNCHANGED <<mem, disk, dropped, exposed, fresh, gen>> /\ Counted
    BY <1>7 DEF PassRefused, LoopWithoutWrites, LoopFails, Rollback, Notify, CacheRebuilt,
       PassUnchanged, Counted
  <2>2. Reads(p) /\ OthersStay(p) /\ LockMoves
    BY <1>0, <1>2, <1>7 DEF PassRefused, LoopWithoutWrites, LoopFails, Rollback, Notify, CacheRebuilt,
       NoPass, Reads, OthersStay, LockMoves
  <2> QED BY <1>1, <2>1, <2>2
<1>8. CASE WriteSegmentFails(p) \/ WriteManifestFails(p) \/ WriteActiveFails(p)
  <2>1. UNCHANGED <<mem, disk, dropped, exposed, fresh, gen>> /\ Counted /\ LockMoves
    BY <1>8 DEF WriteSegmentFails, WriteManifestFails, WriteActiveFails,
       PassUnchanged, Counted, LockMoves
  <2>2. Reads(p) /\ OthersStay(p)
    BY <1>0, <1>8 DEF WriteSegmentFails, WriteManifestFails, WriteActiveFails,
       CompactionPass, Reads, OthersStay
  <2> QED BY <1>1, <2>1, <2>2
<1>9. CASE WriteActive(p)
  <2>1. /\ UNCHANGED <<mem, dropped, exposed, fresh, gen>> /\ Counted /\ LockMoves
        /\ Holding(p) /\ disk' = Retained(p)
    BY <1>9 DEF WriteActive, PassUnchanged, Holding, Counted, LockMoves
  <2>2. Reads(p) /\ OthersStay(p)
    BY <1>0, <1>9 DEF WriteActive, CompactionPass, Reads, OthersStay
  <2>3. Range(disk') \subseteq Live
    BY <2>1, RetainedLive
  <2> QED BY <1>1, <2>1, <2>2, <2>3
<1>10. CASE Reload(p) \/ ReloadFails(p)
  <2>1. /\ UNCHANGED <<disk, dropped, exposed, fresh, gen>> /\ mem' \in {mem, disk} /\ Counted
    BY <1>10 DEF Reload, ReloadFails, PassUnchanged, Counted
  <2>2. Reads(p) /\ OthersStay(p) /\ LockMoves
    BY <1>0, <1>2, <1>10 DEF Reload, ReloadFails, CompactionPass, Reads, OthersStay, LockMoves
  <2> QED BY <1>1, <2>1, <2>2
<1> QED
  BY <1>3, <1>4, <1>5, <1>6, <1>7, <1>8, <1>9, <1>10
  DEF PassStep, BeginPass, StartAsked, EndLoop, ArchiveStep, FinishStep

(* Ends and starts of the daemon.                                          *)
LEMMA DaemonReturns ==
  ASSUME TypeOK, ReturnInv, SaveAutonomy \/ Crash \/ Restart PROVE ReturnInv'
<1>1. /\ UNCHANGED <<dropped, exposed, fresh, failures>> /\ Live' \subseteq Live
      /\ \A s \in Sessions : gen'[s].todo \in {gen[s].todo, <<>>}
  <2>1. CASE SaveAutonomy
    BY <2>1 DEF SaveAutonomy, Live, Holding
  <2>2. CASE Crash
    BY <2>2 DEF Crash, Live, Holding, NoPass, NoGen, Range
  <2>3. CASE Restart
    BY <2>3 DEF Restart, Live, Holding
  <2> QED BY <2>1, <2>2, <2>3
<1>2. Created' /\ NoneReturns' /\ dropped' \cup Live' \subseteq dropped \cup Live
  BY <1>1, MoveReturns DEF ReturnInv
<1>3. CASE Crash
  BY <1>2, <1>3 DEF Crash, NoGen, ReturnInv, RepliesWait
<1>4. CASE lock' = lock
  BY <1>1, <1>2, <1>4, StillWait DEF ReturnInv
<1> QED BY <1>3, <1>4 DEF SaveAutonomy, Restart

(* NoResurrection, whatever interleaves with the edits, deletions and      *)
(* regenerations: while no write fails, a line that a client took out of   *)
(* the transcript is neither in memory nor in the file ever again, unless  *)
(* a pass was running over it.                                             *)
THEOREM NothingComesBack == Spec => []NoResurrection
<1>1. Init => ReturnInv
  <2> SUFFICES ASSUME Init PROVE ReturnInv
    OBVIOUS
  <2>1. dropped = {} /\ Live = {}
    BY DEF Init, Live, Range, Holding, NoPass
  <2>2. \A s \in Sessions : gen[s].todo = <<>>
    BY DEF Init, NoGen
  <2> QED BY <2>1, <2>2 DEF ReturnInv, Created, RepliesWait, NoneReturns, Gone
<1>2. TypeOK /\ TypeOK' /\ SplitInRange /\ ReturnInv /\ [Next]_vars => ReturnInv'
  <2> SUFFICES ASSUME TypeOK, TypeOK', SplitInRange, ReturnInv, [Next]_vars PROVE ReturnInv'
    OBVIOUS
  <2>1. CASE UNCHANGED vars
    <3>1. Live' = Live
      BY <2>1 DEF Live, Holding
    <3>2. Created' /\ NoneReturns' /\ dropped' \cup Live' \subseteq dropped \cup Live
      BY <2>1, <3>1, MoveReturns DEF ReturnInv
    <3> QED BY <2>1, <3>2, StillWait DEF ReturnInv
  <2>2. CASE Next
    BY <2>2, SessionsReturn, WritersReturn, PassesReturn, DaemonReturns DEF Next
  <2> QED BY <2>1, <2>2
<1>3. ReturnInv => NoResurrection
  BY DEF ReturnInv, NoneReturns, Gone, Live, NoResurrection
<1> QED BY <1>1, <1>2, <1>3, TypesAndSplits, PTL DEF Spec

-----------------------------------------------------------------------------
(* Archived turns are remembered                                           *)

(* The real user lines of a transcript.                                    *)
TurnsIn(s) == UserLines(Range(s))

(* The turn positions of a transcript are finitely many.                   *)
LEMMA FewTurns ==
  ASSUME NEW s \in Seq(Line)
  PROVE  /\ Len(s) \in Nat /\ IsFiniteSet(TurnPositions(s))
         /\ TurnPositions(s) \subseteq 1..Len(s)
         /\ TurnCount(s) \in Nat
<1>0. Len(s) \in Nat OBVIOUS
<1>1. IsFiniteSet(1..Len(s)) BY <1>0, FS_Interval
<1>2. TurnPositions(s) \subseteq 1..Len(s) BY DEF TurnPositions
<1> QED BY <1>0, <1>1, <1>2, FS_Subset, TurnCountIsNat

(* A transcript of no turns has no user line, and the other way round.     *)
LEMMA NoTurns ==
  ASSUME NEW s \in Seq(Line)
  PROVE  TurnCount(s) = 0 <=> TurnsIn(s) = {}
<1>1. TurnCount(s) = 0 <=> TurnPositions(s) = {}
  BY FewTurns, FS_EmptySet DEF TurnCount
<1>2. TurnPositions(s) = {} <=> TurnsIn(s) = {}
  BY DEF TurnPositions, TurnsIn, UserLines, Range
<1> QED BY <1>1, <1>2

(* A line more is a turn more or changes nothing.                          *)
LEMMA TurnsOfAppend ==
  ASSUME NEW s \in Seq(Line), NEW l \in Line
  PROVE  /\ TurnCount(s) <= TurnCount(Append(s, l))
         /\ TurnCount(s) = TurnCount(Append(s, l)) =>
              TurnsIn(Append(s, l)) = TurnsIn(s)
<1> DEFINE a == Append(s, l)
<1>0. /\ a \in Seq(Line) /\ Len(s) \in Nat /\ DOMAIN s = 1..Len(s)
      /\ DOMAIN a = 1..(Len(s) + 1)
      /\ \A i \in 1..Len(s) : a[i] = s[i]
      /\ a[Len(s) + 1] = l
  OBVIOUS
<1> HIDE DEF a
<1>1. CASE l.role = "user"
  <2>1. TurnPositions(a) = TurnPositions(s) \cup {Len(s) + 1}
    <3>1. ASSUME NEW i \in TurnPositions(a)
          PROVE  i \in TurnPositions(s) \cup {Len(s) + 1}
      BY <1>0, <3>1 DEF TurnPositions
    <3>2. ASSUME NEW i \in TurnPositions(s) \cup {Len(s) + 1}
          PROVE  i \in TurnPositions(a)
      BY <1>0, <1>1, <3>2 DEF TurnPositions
    <3> QED BY <3>1, <3>2
  <2>2. Len(s) + 1 \notin TurnPositions(s) BY <1>0, FewTurns
  <2>3. TurnCount(a) = TurnCount(s) + 1
    BY <2>1, <2>2, FewTurns, FS_AddElement DEF TurnCount
  <2> QED BY <2>3, FewTurns DEF a
<1>2. CASE l.role # "user"
  <2>1. TurnPositions(a) = TurnPositions(s)
    <3>1. ASSUME NEW i \in TurnPositions(a) PROVE i \in TurnPositions(s)
      BY <1>0, <1>2, <3>1 DEF TurnPositions
    <3>2. ASSUME NEW i \in TurnPositions(s) PROVE i \in TurnPositions(a)
      BY <1>0, <3>2 DEF TurnPositions
    <3> QED BY <3>1, <3>2
  <2>2. TurnCount(a) = TurnCount(s) BY <2>1 DEF TurnCount
  <2>3. Range(a) = Range(s) \cup {l}
    BY RangeAppend DEF a
  <2>4. TurnsIn(a) = TurnsIn(s) BY <1>2, <2>3 DEF TurnsIn, UserLines
  <2> QED BY <2>2, <2>4, FewTurns DEF a
<1> QED BY <1>1, <1>2

(* The end of a transcript has no more turns than all of it.               *)
LEMMA TurnsOfSuffix ==
  ASSUME NEW s \in Seq(Line), NEW n \in 0..Len(s)
  PROVE  /\ Suffix(s, n) \in Seq(Line)
         /\ TurnCount(Suffix(s, n)) <= TurnCount(s)
         /\ TurnsIn(Suffix(s, n)) \subseteq TurnsIn(s)
<1> DEFINE b == Suffix(s, n)
           f == [i \in TurnPositions(b) |-> n + i]
<1>0. /\ b \in Seq(Line) /\ Range(b) \subseteq Range(s)
      /\ DOMAIN b = 1..(Len(s) - n) /\ \A i \in 1..(Len(s) - n) : b[i] = s[n + i]
  <2>1. b \in Seq(Line) /\ Range(b) \subseteq Range(s) BY CutKeepsLines
  <2>2. DOMAIN b = 1..(Len(s) - n) /\ \A i \in 1..(Len(s) - n) : b[i] = s[n + i]
    BY DEF Suffix
  <2> QED BY <2>1, <2>2
<1> HIDE DEF b
<1>1. \A i \in TurnPositions(b) : n + i \in TurnPositions(s) /\ i \in Nat
  <2> TAKE i \in TurnPositions(b)
  <2>1. i \in 1..(Len(s) - n) /\ b[i].role = "user" BY <1>0 DEF TurnPositions
  <2>2. n + i \in 1..Len(s) /\ s[n + i].role = "user" BY <1>0, <2>1
  <2> QED BY <2>1, <2>2 DEF TurnPositions
<1>2. f \in Injection(TurnPositions(b), TurnPositions(s))
  BY <1>1 DEF Injection, IsInjective
<1>3. TurnCount(b) <= TurnCount(s)
  <2> HIDE DEF f
  <2> QED BY <1>2, FewTurns, FS_Injection DEF TurnCount
<1>4. TurnsIn(b) \subseteq TurnsIn(s) BY <1>0 DEF TurnsIn, UserLines
<1> QED BY <1>0, <1>3, <1>4 DEF b

(* The heartbeat messages nobody answered are at the end, and no turns.    *)
LEMMA TrailingAreNoTurns ==
  ASSUME NEW s \in Seq(Line)
  PROVE  /\ Len(s) - TrailingAutonomous(s) \in 0..Len(s)
         /\ TurnCount(Suffix(s, Len(s) - TrailingAutonomous(s))) = 0
<1> DEFINE T == {i \in DOMAIN s : \A j \in i..Len(s) : s[j].role = "auto"}
           n == Len(s) - Cardinality(T)
           b == Suffix(s, n)
<1>0. Len(s) \in Nat /\ T \subseteq 1..Len(s) OBVIOUS
<1>1. IsFiniteSet(1..Len(s)) /\ Cardinality(1..Len(s)) = Len(s)
  <2>1. Len(s) \in Nat BY <1>0
  <2> QED BY <2>1, FirstPositions
<1>2. IsFiniteSet(T) /\ Cardinality(T) <= Len(s) BY <1>0, <1>1, FS_Subset
<1>3. Cardinality(T) \in Nat BY <1>2, FS_CardinalityType
<1>4. n \in 0..Len(s) BY <1>0, <1>2, <1>3
<1>5. ASSUME NEW i \in (n + 1)..Len(s) PROVE s[i].role = "auto"
  <2> SUFFICES ASSUME i \notin T PROVE FALSE
    BY <1>0, <1>4
  <2>1. i \in 1..Len(s) BY <1>0, <1>4
  <2>2. T \subseteq (i + 1)..Len(s)
    <3> SUFFICES ASSUME NEW k \in T, k <= i PROVE FALSE
      BY <1>0, <2>1
    <3>1. \A j \in i..Len(s) : s[j].role = "auto" BY <1>0, <2>1
    <3> QED BY <2>1, <3>1
  <2>3. /\ IsFiniteSet((i + 1)..Len(s))
        /\ Cardinality((i + 1)..Len(s)) = Len(s) - i
    <3>1. i + 1 \in Int /\ Len(s) \in Int BY <1>0, <2>1
    <3> QED BY <1>0, <2>1, <3>1, FS_Interval
  <2>4. Cardinality(T) <= Len(s) - i BY <2>2, <2>3, FS_Subset
  <2> HIDE DEF T
  <2> QED BY <1>0, <1>3, <2>1, <2>4
<1>6. Len(s) - TrailingAutonomous(s) = n BY DEF TrailingAutonomous
<1> HIDE DEF T, n
<1>7. TurnPositions(b) = {}
  <2> SUFFICES ASSUME NEW i \in TurnPositions(b) PROVE FALSE
    OBVIOUS
  <2>1. DOMAIN b = 1..(Len(s) - n) /\ \A k \in 1..(Len(s) - n) : b[k] = s[n + k]
    BY <1>0, <1>4 DEF Suffix
  <2>2. i \in 1..(Len(s) - n) /\ s[n + i].role = "user"
    BY <2>1 DEF TurnPositions
  <2>3. n + i \in (n + 1)..Len(s) BY <1>0, <1>4, <2>2
  <2> QED BY <1>5, <2>2, <2>3
<1>8. TurnCount(b) = 0 BY <1>7, FS_EmptySet DEF TurnCount
<1> QED BY <1>4, <1>6, <1>8

(* What a split of a transcript leaves: at most the turns to keep, exactly *)
(* as many where the unanswered heartbeat messages are not kept as well.   *)
LEMMA SplitLeaves ==
  ASSUME NEW s \in Seq(Line), NEW keep \in Nat, NEW retain \in BOOLEAN,
         NEW split \in 1..Len(s), split = ArchiveSplitIndex(s, keep, retain)
  PROVE  /\ TurnCount(Suffix(s, split)) <= keep
         /\ ~retain => TurnCount(Suffix(s, split)) = keep
<1> DEFINE limit == Len(s) - TrailingAutonomous(s)
           Starts == {i \in TurnPositions(s) : TurnCount(Suffix(s, i - 1)) = keep}
<1>0. Len(s) \in Nat /\ TurnPositions(s) \subseteq 1..Len(s) BY FewTurns
<1>1. CASE retain /\ limit < FindTurnSplit(s, keep)
  <2>1. split = limit BY <1>1 DEF ArchiveSplitIndex
  <2>2. TurnCount(Suffix(s, split)) = 0 BY <2>1, TrailingAreNoTurns
  <2>3. retain BY <1>1
  <2> HIDE DEF limit, Starts
  <2> QED BY <2>2, <2>3
<1>2. CASE ~(retain /\ limit < FindTurnSplit(s, keep))
  <2>1. split = FindTurnSplit(s, keep) BY <1>2 DEF ArchiveSplitIndex
  <2>2. CASE keep = 0
    <3>1. split = Len(s) BY <2>1, <2>2 DEF FindTurnSplit
    <3>2. TurnPositions(Suffix(s, split)) = {}
      BY <1>0, <3>1 DEF Suffix, TurnPositions
    <3>3. TurnCount(Suffix(s, split)) = 0
      BY <3>2, FS_EmptySet, Zenon DEF TurnCount
    <3> QED BY <2>2, <3>3
  <2>3. CASE keep # 0
    <3>1. split = IF Starts = {} THEN 0 ELSE (CHOOSE i \in Starts : TRUE) - 1
      BY <2>1, <2>3 DEF FindTurnSplit
    <3>2. Starts # {} /\ split = (CHOOSE i \in Starts : TRUE) - 1
      <4> HIDE DEF Starts
      <4> QED BY <1>0, <3>1
    <3> DEFINE first == CHOOSE i \in Starts : TRUE
    <3>3. first \in Starts BY <3>2
    <3>4. split = first - 1 /\ first \in 1..Len(s) BY <1>0, <3>2, <3>3
    <3>5. TurnCount(Suffix(s, first - 1)) = keep BY <3>3
    <3> HIDE DEF first, Starts
    <3>6. split = first - 1 BY <3>4
    <3>7. TurnCount(Suffix(s, split)) = keep BY <3>5, <3>6
    <3> QED BY <3>7
  <2> QED BY <2>2, <2>3
<1> QED BY <1>1, <1>2

(* A pass with the model, and one without it, before it replaces the file. *)
Consolidating(p) ==
  pass[p].mode = "llm" /\ pass[p].pc \in {"loop", "segment", "manifest", "active"}
Purging(p) == Holding(p) /\ pass[p].mode = "pure"

(* Its memory writes may still be taken back.                              *)
MayRollBack(p) ==
  pass[p].mode = "llm"
  /\ pass[p].pc \in {"loop", "segment", "manifest", "active", "rollback"}

(* The memory files hold the line whatever running passes do.              *)
Kept == {l \in memory : \A p \in Passes : MayRollBack(p) => l \in pass[p].before}

(* Lines that need no more consolidation.  A line stays settled.           *)
Settled == Kept \cup dropped \cup exposed \cup unread

(* A transcript has k turns or more, and if just k then only those in K.   *)
Within(k, s, K) == k <= TurnCount(s) /\ (k = TurnCount(s) => TurnsIn(s) \subseteq K)

(* Covering k turns is a true claim about the file and the memory.         *)
Noted(k) == Within(k, disk, Settled) /\ Within(k, mem, Settled)

(* Memory is as long as the file, or longer.                               *)
MemoryAhead ==
  /\ TurnsIn(disk) \subseteq Range(mem)
  /\ Within(TurnCount(disk), mem, Range(disk) \cup Settled)

(* What a consolidating pass read is still there, and in the memory files  *)
(* once the pass may archive it, but for what its request lacked.          *)
ReadStays(p) ==
  Consolidating(p) =>
    /\ TurnsIn(pass[p].snap) \subseteq Range(mem) \cap Range(disk)
    /\ Within(TurnCount(pass[p].snap), mem, Range(pass[p].snap) \cup Settled)
    /\ Within(TurnCount(pass[p].snap), disk, Range(pass[p].snap) \cup Settled)
    /\ pass[p].wrote \/ pass[p].pc # "loop" => TurnsIn(pass[p].snap) \subseteq memory \cup unread

(* A pass knows the turns of the file, and how many it will leave.         *)
ReadKnown(p) ==
  Holding(p) =>
    /\ Consolidating(p) \/ Purging(p)
    /\ TurnsIn(disk) \subseteq Range(pass[p].snap) \cup Settled
    /\ TurnCount(Retained(p)) = pass[p].turns

(* No pass leaves more turns than configured, the inline one as many.      *)
LeavesFew(p) ==
  /\ pass[p].turns <= KeepTurns
  /\ Consolidating(p) /\ p # "tick" => pass[p].turns = KeepTurns

(* A pass without the model is the tick's, and leaves no turn; it archives *)
(* only what is settled.                                                   *)
PurgesSettled(p) ==
  Purging(p) =>
    /\ p = "tick" /\ pass[p].turns = 0
    /\ ~overtaken => TurnsIn(pass[p].snap) \subseteq Settled

(* The count a pass is about to note is true.                              *)
WillNote(p) == ~overtaken /\ Pending(p) => Noted(pass[p].turns)

(* So is the noted one, unless a pass of the tick is about to note another.*)
CountIsTrue ==
  ~overtaken /\ (\A p \in Passes : p = "tick" => ~Pending(p)) => Noted(covered)

ArchiveSettled ==
  ~overtaken => UserLines(Archive \ Range(disk)) \subseteq Settled

PassRemembers(p) ==
  ReadStays(p) /\ ReadKnown(p) /\ LeavesFew(p) /\ PurgesSettled(p) /\ WillNote(p)

RememberInv ==
  /\ up /\ \A s \in Sessions : ~gen[s].regen
  /\ MemoryAhead /\ ArchiveSettled
  /\ covered <= KeepTurns /\ CountIsTrue
  /\ \A p \in Passes : PassRemembers(p)

(* More settled lines make no claim false.                                 *)
LEMMA WithinMore ==
  ASSUME NEW k, NEW s, NEW K, NEW L, Within(k, s, K), K \subseteq L
  PROVE  Within(k, s, L)
BY DEF Within

(* To cover no turn is always true.                                        *)
LEMMA WithinNone ==
  ASSUME NEW s \in Seq(Line), NEW K PROVE Within(0, s, K)
<1>1. TurnCount(s) \in Nat BY FewTurns
<1>2. TurnCount(s) = 0 => TurnsIn(s) \subseteq K BY NoTurns
<1> QED BY <1>1, <1>2 DEF Within

(* A line more makes no claim false either.                                *)
LEMMA WithinAppend ==
  ASSUME NEW k \in Nat, NEW s \in Seq(Line), NEW l \in Line, NEW K, Within(k, s, K)
  PROVE  Within(k, Append(s, l), K)
<1>0. Append(s, l) \in Seq(Line) OBVIOUS
<1>1. TurnCount(s) \in Nat /\ TurnCount(Append(s, l)) \in Nat BY <1>0, FewTurns
<1> QED BY <1>1, TurnsOfAppend DEF Within

(* Only the holder of the guard consolidates or rolls back.                *)
LEMMA OnePassWrites ==
  ASSUME GuardHeld, NEW p \in Passes,
         guard = p \/ guard = Free \/ Owning(p)
  PROVE  \A q \in Passes \ {p} : ~Consolidating(q) /\ ~MayRollBack(q)
<1>1. Free \notin Passes BY PassesAssumption DEF PassKinds, Free
<1> QED BY <1>1 DEF GuardHeld, Owning, Consolidating, MayRollBack

(* A settled line stays settled: memory grows, or a rollback restores what *)
(* it was when the pass began.                                             *)
LEMMA SettledStays ==
  ASSUME dropped \subseteq dropped', exposed \subseteq exposed', unread \subseteq unread',
         \/ memory \subseteq memory'
         \/ \E p \in Passes : MayRollBack(p) /\ memory' = pass[p].before,
         \A q \in Passes : MayRollBack(q)' =>
           \/ MayRollBack(q) /\ pass'[q].before = pass[q].before
           \/ pass'[q].before = memory
  PROVE  Settled \subseteq Settled'
<1>1. Kept \subseteq Kept'
  <2> SUFFICES ASSUME NEW l \in Kept PROVE l \in Kept'
    OBVIOUS
  <2>1. l \in memory /\ \A q \in Passes : MayRollBack(q) => l \in pass[q].before
    BY DEF Kept
  <2>2. l \in memory' BY <2>1
  <2>3. \A q \in Passes : MayRollBack(q)' => l \in pass'[q].before BY <2>1
  <2> QED BY <2>2, <2>3 DEF Kept
<1> QED BY <1>1 DEF Settled

(* An appended line, saved or not.                                         *)
LEMMA AppendRemembers ==
  ASSUME TypeOK, RememberInv, NEW l \in Line,
         Persist(Append(mem, l)) \/ PersistFails(Append(mem, l)),
         \A s \in Sessions : ~gen'[s].regen,
         UNCHANGED <<files, listed, memory, pass, covered, up>>
  PROVE  RememberInv'
<1> DEFINE m == Append(mem, l)
<1>0. /\ mem \in Seq(Line) /\ disk \in Seq(Line) /\ covered \in Nat
      /\ m \in Seq(Line) /\ Range(m) = Range(mem) \cup {l}
      /\ \A p \in Passes : pass[p].snap \in Seq(Line) /\ pass[p].turns \in Nat
  <2>1. mem \in Seq(Line) /\ disk \in Seq(Line) /\ covered \in Nat BY DEF TypeOK
  <2>2. m \in Seq(Line) /\ Range(m) = Range(mem) \cup {l} BY <2>1, RangeAppend
  <2> QED BY <2>1, <2>2, PassTyped
<1>1. \A k \in Nat : \A K : Within(k, mem, K) => Within(k, m, K)
  BY <1>0, WithinAppend
<1>2. TurnsIn(mem) \subseteq TurnsIn(m) BY <1>0 DEF TurnsIn, UserLines
<1>3. Archive' = Archive BY SameArchive
<1>4. /\ mem' = m /\ overtaken' = overtaken /\ unread' = unread
      /\ Range(mem) \ Range(m) = {} /\ dropped' = dropped
      /\ exposed \subseteq exposed'
  BY <1>0 DEF Persist, PersistFails
<1>5. Persist(m) \/ PersistFails(m) OBVIOUS
<1> HIDE DEF m
<1>6. /\ disk' \in {disk, m}
      /\ disk' = m => \/ disk = m
                      \/ exposed' = exposed \cup BehindPass(m)
  BY <1>5 DEF Persist, PersistFails
<1>7. /\ Kept' = Kept /\ Settled \subseteq Settled'
      /\ \A p \in Passes :
           /\ Consolidating(p)' = Consolidating(p) /\ Purging(p)' = Purging(p)
           /\ Holding(p)' = Holding(p) /\ Pending(p)' = Pending(p)
           /\ Retained(p)' = Retained(p)
  <2>1. Kept' = Kept BY DEF Kept, MayRollBack
  <2>2. Settled \subseteq Settled' BY <1>4, <2>1 DEF Settled
  <2> QED BY <2>1, <2>2 DEF Consolidating, Purging, Holding, Pending, Retained
<1>8. TurnsIn(disk) \subseteq TurnsIn(m) /\ TurnsIn(disk) \subseteq Range(disk')
  <2>1. TurnsIn(disk) \subseteq Range(mem) BY DEF RememberInv, MemoryAhead
  <2>2. TurnsIn(disk) \subseteq TurnsIn(m)
    BY <1>0, <2>1 DEF TurnsIn, UserLines
  <2> QED BY <1>6, <2>2 DEF TurnsIn, UserLines
<1>9. ASSUME NEW k \in Nat, NEW K, Within(k, mem, K), Within(k, disk, K),
             NEW L, K \subseteq L
      PROVE  Within(k, mem', L) /\ Within(k, disk', L)
  BY <1>1, <1>4, <1>6, <1>9 DEF Within
<1>10. MemoryAhead'
  <2>1. CASE disk' = m
    <3>1. TurnCount(m) \in Nat BY <1>0, FewTurns
    <3> QED BY <1>4, <2>1, <3>1 DEF MemoryAhead, Within, TurnsIn, UserLines
  <2>2. CASE disk' = disk
    <3>1. TurnCount(disk) \in Nat BY <1>0, FewTurns
    <3>2. Within(TurnCount(disk), m, Range(disk) \cup Settled)
      BY <1>1, <3>1 DEF RememberInv, MemoryAhead
    <3>3. Within(TurnCount(disk), m, Range(disk) \cup Settled')
      BY <1>7, <3>2, WithinMore
    <3> QED BY <1>4, <1>8, <2>2, <3>3 DEF MemoryAhead, TurnsIn, UserLines
  <2> QED BY <1>6, <2>1, <2>2
<1>11. ArchiveSettled'
  <2> SUFFICES ASSUME ~overtaken, NEW x \in Archive, x \notin Range(disk'),
                      x.role = "user"
               PROVE  x \in Settled'
    BY <1>3, <1>4 DEF ArchiveSettled, UserLines
  <2>1. x \notin Range(disk)
    BY <1>6, <1>8 DEF TurnsIn, UserLines, Range
  <2> QED BY <1>7, <2>1 DEF RememberInv, ArchiveSettled, UserLines
<1>12. CountIsTrue'
  BY <1>0, <1>4, <1>7, <1>9 DEF RememberInv, CountIsTrue, Noted
<1>13. ASSUME NEW p \in Passes PROVE PassRemembers(p)'
  <2>0. PassRemembers(p) BY DEF RememberInv
  <2>1. ReadStays(p)'
    <3> SUFFICES ASSUME Consolidating(p)
                 PROVE  /\ TurnsIn(pass[p].snap) \subseteq Range(mem') \cap Range(disk')
                        /\ Within(TurnCount(pass[p].snap), mem',
                                  Range(pass[p].snap) \cup Settled')
                        /\ Within(TurnCount(pass[p].snap), disk',
                                  Range(pass[p].snap) \cup Settled')
      BY <1>4, <1>7, <2>0 DEF PassRemembers, ReadStays
    <3>1. TurnCount(pass[p].snap) \in Nat BY <1>0, FewTurns
    <3>2. TurnsIn(pass[p].snap) \subseteq Range(mem) \cap Range(disk)
      BY <2>0 DEF PassRemembers, ReadStays
    <3>3. Range(mem) \subseteq Range(mem') BY <1>0, <1>4
    <3>4. TurnsIn(pass[p].snap) \subseteq Range(disk')
      BY <1>0, <1>6, <3>2
    <3> QED BY <1>7, <1>9, <2>0, <3>1, <3>2, <3>3, <3>4 DEF PassRemembers, ReadStays
  <2>2. ReadKnown(p)'
    <3> SUFFICES ASSUME Holding(p)
                 PROVE  TurnsIn(disk') \subseteq Range(pass[p].snap) \cup Settled'
      BY <1>7, <2>0 DEF PassRemembers, ReadKnown
    <3>1. TurnsIn(disk) \subseteq Range(pass[p].snap) \cup Settled'
      BY <1>7, <2>0 DEF PassRemembers, ReadKnown
    <3>2. BehindPass(m) \subseteq exposed' => TurnsIn(m) \subseteq Range(pass[p].snap) \cup Settled'
      BY DEF BehindPass, Settled, TurnsIn, UserLines
    <3> QED BY <1>6, <3>1, <3>2
  <2>3. LeavesFew(p)' /\ PurgesSettled(p)'
    BY <1>4, <1>7, <2>0 DEF PassRemembers, LeavesFew, PurgesSettled
  <2>4. WillNote(p)'
    BY <1>0, <1>4, <1>7, <1>9, <2>0 DEF PassRemembers, WillNote, Noted
  <2> QED BY <2>1, <2>2, <2>3, <2>4 DEF PassRemembers
<1> QED
  BY <1>10, <1>11, <1>12, <1>13 DEF RememberInv

(* The pass does what it was doing, ends, or has nothing in hand.  Memory  *)
(* files lose nothing but what a rollback takes back.                      *)
Continues(p) ==
  /\ \/ memory \subseteq memory'
     \/ MayRollBack(p) /\ memory' = pass[p].before
  /\ pass'[p].pc # "read"
  /\ MayRollBack(p)' => MayRollBack(p) /\ pass'[p].before = pass[p].before
  /\ Holding(p)' => /\ Holding(p) /\ pass'[p].mode = pass[p].mode
                    /\ pass'[p].snap = pass[p].snap
                    /\ pass'[p].split = pass[p].split
                    /\ pass'[p].turns = pass[p].turns
  /\ ~Holding(p)' => pass'[p].turns \in {0, pass[p].turns}
  /\ Consolidating(p)' => /\ memory \subseteq memory'
                          /\ \/ pass'[p].pc = "loop" /\ ~pass'[p].wrote
                             \/ pass[p].pc # "loop" \/ pass[p].wrote
                             \/ TurnsIn(pass[p].snap) \subseteq memory' \cup unread'
  /\ Pending(p)' => pass'[p].turns = 0 \/ Pending(p)

(* A step of one pass that archives nothing and leaves the file alone: it  *)
(* goes on with what it read, or begins anew with nothing read.  It may    *)
(* reload memory, add to the memory files or restore them, and note the    *)
(* turns it was about to note.                                             *)
LEMMA MoveRemembers ==
  ASSUME TypeOK, RememberInv, GuardHeld, NEW p \in Passes,
         UNCHANGED <<disk, overtaken, dropped, exposed, up, gen>>,
         Archive' = Archive, unread \subseteq unread',
         OthersStay(p), Continues(p), mem' \in {mem, disk},
         \/ covered' = covered /\ (p = "tick" /\ Pending(p) => Pending(p)')
         \/ covered' = pass[p].turns /\ Pending(p)
  PROVE  RememberInv'
<1>0. /\ mem \in Seq(Line) /\ disk \in Seq(Line) /\ mem' \in Seq(Line)
      /\ KeepTurns \in Nat
      /\ \A q \in Passes : pass[q].snap \in Seq(Line) /\ pass[q].turns \in Nat
  <2>1. mem \in Seq(Line) /\ disk \in Seq(Line) BY DEF TypeOK
  <2> QED BY <2>1, PassTyped, BoundsAssumption
<1>1. Settled \subseteq Settled'
  <2>1. \A q \in Passes : MayRollBack(q)' =>
          MayRollBack(q) /\ pass'[q].before = pass[q].before
    BY DEF MayRollBack, OthersStay, Continues
  <2>2. \/ memory \subseteq memory'
        \/ MayRollBack(p) /\ memory' = pass[p].before
    BY DEF Continues
  <2> QED BY <2>1, <2>2, SettledStays
<1>2. ASSUME NEW k, NEW K, NEW L, K \subseteq L
      PROVE  /\ Within(k, disk, K) => Within(k, disk', L)
             /\ Within(k, mem, K) /\ Within(k, disk, K) => Within(k, mem', L)
  BY <1>2, WithinMore
<1>3. MemoryAhead'
  <2>1. MemoryAhead BY DEF RememberInv
  <2>2. CASE mem' = disk
    <3>1. TurnCount(disk) \in Nat BY <1>0, FewTurns
    <3> QED BY <2>2, <3>1 DEF MemoryAhead, Within, TurnsIn, UserLines
  <2>3. CASE mem' = mem
    BY <1>1, <2>1, <2>3, WithinMore DEF MemoryAhead
  <2> QED BY <2>2, <2>3
<1>4. ArchiveSettled'
  BY <1>1 DEF RememberInv, ArchiveSettled
<1>5. ASSUME NEW k, Noted(k) PROVE Noted(k)'
  BY <1>1, <1>2, <1>5 DEF Noted
<1>6. Noted(0)'
  BY <1>0, WithinNone DEF Noted
<1>7. \A q \in Passes : PassRemembers(q) BY DEF RememberInv
<1>8. covered' <= KeepTurns /\ CountIsTrue'
  <2>1. CASE covered' = covered /\ (p = "tick" /\ Pending(p) => Pending(p)')
    <3>1. \A q \in Passes : q = "tick" /\ Pending(q) => Pending(q)'
      BY <2>1 DEF Pending, OthersStay
    <3> QED BY <1>5, <2>1, <3>1 DEF RememberInv, CountIsTrue
  <2>2. CASE covered' = pass[p].turns /\ Pending(p)
    BY <1>5, <1>7, <2>2 DEF CountIsTrue, PassRemembers, LeavesFew, WillNote
  <2> QED BY <2>1, <2>2
<1>9. ASSUME NEW q \in Passes \ {p} PROVE PassRemembers(q)'
  <2>1. PassRemembers(q) /\ pass'[q] = pass[q] BY <1>7 DEF OthersStay
  <2>2. /\ Consolidating(q)' = Consolidating(q) /\ Purging(q)' = Purging(q)
        /\ Holding(q)' = Holding(q) /\ Pending(q)' = Pending(q)
        /\ Retained(q)' = Retained(q)
    BY <2>1 DEF Consolidating, Purging, Holding, Pending, Retained
  <2>3. ReadStays(q)'
    <3> SUFFICES ASSUME Consolidating(q) PROVE ReadStays(q)'
      BY <2>2 DEF ReadStays
    <3>1. memory \subseteq memory'
      <4>1. ~MayRollBack(p)
        <5>1. Owning(q) BY DEF Consolidating, Owning
        <5> QED BY <5>1, OnePassWrites
      <4> QED BY <4>1 DEF Continues
    <3>2. ReadStays(q) BY <2>1 DEF PassRemembers
    <3> QED BY <1>1, <1>2, <2>1, <2>2, <3>1, <3>2 DEF ReadStays
  <2>4. ReadKnown(q)' /\ LeavesFew(q)' /\ PurgesSettled(q)'
    BY <1>1, <2>1, <2>2 DEF PassRemembers, ReadKnown, LeavesFew, PurgesSettled
  <2>5. WillNote(q)'
    BY <1>5, <2>1, <2>2 DEF PassRemembers, WillNote
  <2> QED BY <2>3, <2>4, <2>5 DEF PassRemembers
<1>10. PassRemembers(p)'
  <2>1. PassRemembers(p) BY <1>7
  <2>2. /\ Holding(p)' => Consolidating(p)' \/ Purging(p)'
        /\ Consolidating(p)' => Holding(p)' /\ Consolidating(p)
        /\ Purging(p)' => Holding(p)' /\ Purging(p)
        /\ Holding(p)' => Retained(p)' = Retained(p)
    BY <2>1
    DEF PassRemembers, ReadKnown, Consolidating, Purging, Holding, Retained,
        Continues
  <2>3. ReadStays(p)'
    <3> SUFFICES ASSUME Consolidating(p)' PROVE ReadStays(p)'
      BY DEF ReadStays
    <3>1. /\ ReadStays(p) /\ Consolidating(p) /\ pass'[p].snap = pass[p].snap
          /\ memory \subseteq memory'
      BY <2>1, <2>2 DEF PassRemembers, Continues
    <3>2. /\ TurnsIn(pass[p].snap) \subseteq Range(mem') \cap Range(disk')
          /\ Within(TurnCount(pass[p].snap), mem', Range(pass[p].snap) \cup Settled')
          /\ Within(TurnCount(pass[p].snap), disk', Range(pass[p].snap) \cup Settled')
      BY <1>1, <1>2, <3>1 DEF ReadStays
    <3>3. pass'[p].wrote \/ pass'[p].pc # "loop" =>
            TurnsIn(pass[p].snap) \subseteq memory' \cup unread'
      BY <3>1 DEF ReadStays, TurnsIn, UserLines, Continues
    <3> QED BY <3>1, <3>2, <3>3 DEF ReadStays
  <2>4. ReadKnown(p)'
    BY <1>1, <2>1, <2>2 DEF PassRemembers, ReadKnown, Continues
  <2>5. LeavesFew(p)'
    BY <1>0, <2>1, <2>2 DEF PassRemembers, LeavesFew, Continues
  <2>6. PurgesSettled(p)'
    BY <1>1, <2>1, <2>2 DEF PassRemembers, PurgesSettled, Continues
  <2>7. WillNote(p)'
    <3> SUFFICES ASSUME ~overtaken, Pending(p)' PROVE Noted(pass[p].turns)'
      BY DEF WillNote
    <3>1. pass'[p].turns = 0 \/ (Pending(p) /\ pass'[p].turns = pass[p].turns)
      BY DEF Pending, Holding, Continues
    <3>2. CASE pass'[p].turns = 0
      BY <1>6, <3>2 DEF Noted
    <3>3. CASE Pending(p) /\ pass'[p].turns = pass[p].turns
      <4>1. Noted(pass[p].turns) BY <2>1, <3>3 DEF PassRemembers, WillNote
      <4> QED BY <1>5, <3>3, <4>1 DEF Noted
    <3> QED BY <3>1, <3>2, <3>3
  <2> QED BY <2>3, <2>4, <2>5, <2>6, <2>7 DEF PassRemembers
<1> QED
  BY <1>3, <1>4, <1>8, <1>9, <1>10 DEF RememberInv

(* A pass begins with the file it just read.                               *)
LEMMA ReadRemembers ==
  ASSUME TypeOK, RememberInv, GuardHeld, NEW p \in Passes,
         UNCHANGED <<mem, disk, memory, overtaken, dropped, exposed, unread, covered,
                     up, gen>>,
         Archive' = Archive,
         OthersStay(p),
         pass[p].pc \in {"off", "asked"}, ~pass'[p].wrote,
         pass'[p].snap = disk, pass'[p].split \in 0..Len(disk),
         pass'[p].turns <= KeepTurns,
         TurnCount(Suffix(disk, pass'[p].split)) = pass'[p].turns,
         \/ /\ pass'[p].pc = "loop" /\ pass'[p].mode = "llm"
            /\ pass'[p].before = memory
            /\ p # "tick" => pass'[p].turns = KeepTurns
         \/ /\ pass'[p].pc = "read" /\ pass'[p].mode = "pure" /\ p = "tick"
            /\ pass'[p].turns = 0 /\ TurnCount(disk) = covered
  PROVE  RememberInv'
<1>0. mem \in Seq(Line) /\ disk \in Seq(Line) /\ TurnCount(disk) \in Nat
  BY FewTurns DEF TypeOK
<1>1. Settled \subseteq Settled'
  <2>1. \A q \in Passes : MayRollBack(q)' =>
          \/ MayRollBack(q) /\ pass'[q].before = pass[q].before
          \/ pass'[q].before = memory
    BY DEF MayRollBack, OthersStay
  <2> QED BY <2>1, SettledStays
<1>2. ASSUME NEW k, NEW K, NEW L, K \subseteq L
      PROVE  /\ Within(k, disk, K) => Within(k, disk', L)
             /\ Within(k, mem, K) => Within(k, mem', L)
  BY <1>2, WithinMore
<1>3. MemoryAhead' /\ ArchiveSettled'
  BY <1>1, <1>2 DEF RememberInv, MemoryAhead, ArchiveSettled
<1>4. ASSUME NEW k, Noted(k) PROVE Noted(k)'
  BY <1>1, <1>2, <1>4 DEF Noted
<1>5. CountIsTrue'
  <2>1. \A q \in Passes : Pending(q)' = Pending(q)
    BY DEF Pending, OthersStay
  <2> QED BY <1>4, <2>1 DEF RememberInv, CountIsTrue
<1>6. \A q \in Passes : PassRemembers(q) BY DEF RememberInv
<1>7. ASSUME NEW q \in Passes \ {p} PROVE PassRemembers(q)'
  <2>1. PassRemembers(q) /\ pass'[q] = pass[q] BY <1>6 DEF OthersStay
  <2>2. /\ Consolidating(q)' = Consolidating(q) /\ Purging(q)' = Purging(q)
        /\ Holding(q)' = Holding(q) /\ Pending(q)' = Pending(q)
        /\ Retained(q)' = Retained(q)
    BY <2>1 DEF Consolidating, Purging, Holding, Pending, Retained
  <2>3. ReadStays(q)'
    BY <1>1, <1>2, <2>1, <2>2 DEF PassRemembers, ReadStays
  <2>4. ReadKnown(q)' /\ LeavesFew(q)' /\ PurgesSettled(q)'
    BY <1>1, <2>1, <2>2 DEF PassRemembers, ReadKnown, LeavesFew, PurgesSettled
  <2>5. WillNote(q)'
    BY <1>4, <2>1, <2>2 DEF PassRemembers, WillNote
  <2> QED BY <2>3, <2>4, <2>5 DEF PassRemembers
<1>8. PassRemembers(p)'
  <2>1. /\ Consolidating(p)' => pass'[p].pc = "loop"
        /\ Purging(p)' => pass'[p].pc = "read"
        /\ (Consolidating(p)' \/ Purging(p)') /\ ~Pending(p)'
    BY DEF Consolidating, Purging, Holding, Pending
  <2>2. ReadStays(p)'
    <3>1. /\ TurnsIn(disk) \subseteq Range(mem) \cap Range(disk)
          /\ Within(TurnCount(disk), mem, Range(disk) \cup Settled)
      BY DEF RememberInv, MemoryAhead, TurnsIn, UserLines
    <3>2. Within(TurnCount(disk), disk, Range(disk) \cup Settled)
      BY <1>0 DEF Within, TurnsIn, UserLines
    <3> QED BY <1>1, <1>2, <2>1, <3>1, <3>2 DEF ReadStays
  <2>3. ReadKnown(p)'
    BY <2>1 DEF ReadKnown, Retained, TurnsIn, UserLines
  <2>4. LeavesFew(p)'
    BY <2>1 DEF LeavesFew, Consolidating
  <2>5. PurgesSettled(p)'
    <3> SUFFICES ASSUME Purging(p)'
                 PROVE  /\ p = "tick" /\ pass'[p].turns = 0
                        /\ ~overtaken => TurnsIn(disk) \subseteq Settled'
      BY DEF PurgesSettled
    <3>1. p = "tick" /\ pass'[p].turns = 0 /\ TurnCount(disk) = covered
      BY <2>1
    <3>2. ~overtaken => Noted(covered)
      BY <3>1 DEF RememberInv, CountIsTrue, Pending
    <3> QED BY <1>1, <3>1, <3>2 DEF Noted, Within
  <2>6. WillNote(p)'
    BY DEF WillNote, Pending
  <2> QED BY <2>2, <2>3, <2>4, <2>5, <2>6 DEF PassRemembers
<1> QED
  BY <1>3, <1>5, <1>7, <1>8 DEF RememberInv

(* The manifest lists the segment: its turns are settled, or still in the  *)
(* file.                                                                   *)
LEMMA ManifestRemembers ==
  ASSUME TypeOK, RememberInv, LossInv, SplitInRange, NEW p \in Passes,
         WriteManifest(p)
  PROVE  RememberInv'
<1>0. /\ pass \in [Passes -> CompactionPass] /\ pass[p].pc = "manifest"
      /\ pass[p].snap \in Seq(Line) /\ pass[p].split \in 0..Len(pass[p].snap)
      /\ listed \in Nat
  BY PassTyped DEF WriteManifest, SplitInRange
<1>1. /\ UNCHANGED <<mem, disk, files, memory, overtaken, dropped, exposed, unread,
                     covered, up, gen>>
      /\ pass' = [pass EXCEPT ![p].pc = "active"] /\ listed' = pass[p].index
  BY DEF WriteManifest, PassUnchanged
<1>2. \A q \in Passes :
        /\ pass'[q].mode = pass[q].mode /\ pass'[q].snap = pass[q].snap
        /\ pass'[q].split = pass[q].split /\ pass'[q].turns = pass[q].turns
        /\ pass'[q].wrote = pass[q].wrote /\ pass'[q].before = pass[q].before
        /\ pass'[q].pc = IF q = p THEN "active" ELSE pass[q].pc
  BY <1>0, <1>1 DEF CompactionPass
<1>3. \A q \in Passes :
        /\ Consolidating(q)' = Consolidating(q) /\ Purging(q)' = Purging(q)
        /\ Holding(q)' = Holding(q) /\ Pending(q)' = Pending(q)
        /\ Retained(q)' = Retained(q) /\ MayRollBack(q)' = MayRollBack(q)
  BY <1>0, <1>2 DEF Consolidating, Purging, Holding, Pending, Retained, MayRollBack
<1>4. Kept' = Kept /\ Settled' = Settled
  BY <1>1, <1>2, <1>3 DEF Kept, Settled
<1>5. Archive' = Archive \cup Range(Archived(p))
  <2>1. listed' = listed + 1 /\ files[listed + 1] = Archived(p)
    BY <1>0, <1>1 DEF LossInv, ArchiveInOrder
  <2>2. 1..(listed + 1) = 1..listed \cup {listed + 1} BY <1>0
  <2> QED BY <1>1, <2>1, <2>2 DEF Archive
<1>6. ArchiveSettled'
  <2>1. PassRemembers(p) BY DEF RememberInv
  <2>2. Range(Archived(p)) \subseteq Range(pass[p].snap)
    BY <1>0, CutKeepsLines DEF Archived
  <2>3. CASE Consolidating(p)
    <3>1. TurnsIn(pass[p].snap) \subseteq Range(disk)
      BY <2>1, <2>3 DEF PassRemembers, ReadStays
    <3> QED BY <1>1, <1>4, <1>5, <2>2, <3>1
            DEF RememberInv, ArchiveSettled, TurnsIn, UserLines
  <2>4. CASE Purging(p)
    <3>1. ~overtaken => TurnsIn(pass[p].snap) \subseteq Settled
      BY <2>1, <2>4 DEF PassRemembers, PurgesSettled
    <3> QED BY <1>1, <1>4, <1>5, <2>2, <3>1
            DEF RememberInv, ArchiveSettled, TurnsIn, UserLines
  <2> QED BY <1>0, <2>1, <2>3, <2>4 DEF PassRemembers, ReadKnown, Holding
<1>7. MemoryAhead' /\ CountIsTrue'
  BY <1>1, <1>3, <1>4 DEF RememberInv, MemoryAhead, CountIsTrue, Noted, Within
<1>8. ASSUME NEW q \in Passes PROVE PassRemembers(q)'
  <2>1. PassRemembers(q) BY DEF RememberInv
  <2>2. ReadStays(q)'
    BY <1>0, <1>1, <1>2, <1>3, <1>4, <2>1 DEF PassRemembers, ReadStays, Within
  <2>3. ReadKnown(q)' /\ LeavesFew(q)' /\ PurgesSettled(q)'
    BY <1>1, <1>2, <1>3, <1>4, <2>1
    DEF PassRemembers, ReadKnown, LeavesFew, PurgesSettled
  <2>4. WillNote(q)'
    BY <1>1, <1>2, <1>3, <1>4, <2>1 DEF PassRemembers, WillNote, Noted, Within
  <2> QED BY <2>2, <2>3, <2>4 DEF PassRemembers
<1> QED
  BY <1>1, <1>6, <1>7, <1>8 DEF RememberInv

(* The file is replaced: what leaves it is settled by now.                 *)
LEMMA ActiveRemembers ==
  ASSUME TypeOK, RememberInv, GuardHeld, SplitInRange, NEW p \in Passes,
         WriteActive(p)
  PROVE  RememberInv'
<1> DEFINE left == pass[p].turns
<1>0. /\ pass \in [Passes -> CompactionPass] /\ pass[p].pc = "active"
      /\ pass[p].snap \in Seq(Line) /\ pass[p].split \in 0..Len(pass[p].snap)
      /\ mem \in Seq(Line) /\ disk \in Seq(Line) /\ left \in Nat
      /\ covered \in Nat /\ KeepTurns \in Nat
      /\ \A q \in Passes : pass[q].turns \in Nat
  <2>1. pass[p].pc = "active"
    BY DEF WriteActive
  <2>2. pass[p].split \in 0..Len(pass[p].snap)
    BY PassTyped DEF SplitInRange
  <2>3. covered \in Nat /\ KeepTurns \in Nat
    BY BoundsAssumption DEF TypeOK
  <2> QED BY <2>1, <2>2, <2>3, PassTyped
<1>1. /\ UNCHANGED <<mem, files, listed, memory, dropped, exposed, unread, covered, up,
                     gen>>
      /\ disk' = Retained(p) /\ pass' = [pass EXCEPT ![p].pc = "reload"]
      /\ overtaken' = (overtaken \/ Overtakes(p))
  BY DEF WriteActive, PassUnchanged
<1>2. \A q \in Passes :
        /\ pass'[q].mode = pass[q].mode /\ pass'[q].snap = pass[q].snap
        /\ pass'[q].split = pass[q].split /\ pass'[q].turns = pass[q].turns
        /\ pass'[q].wrote = pass[q].wrote /\ pass'[q].before = pass[q].before
        /\ pass'[q].pc = IF q = p THEN "reload" ELSE pass[q].pc
  BY <1>0, <1>1 DEF CompactionPass
<1>3. \A q \in Passes \ {p} :
        /\ Consolidating(q)' = Consolidating(q) /\ Purging(q)' = Purging(q)
        /\ Holding(q)' = Holding(q) /\ Pending(q)' = Pending(q)
        /\ Retained(q)' = Retained(q) /\ MayRollBack(q)' = MayRollBack(q)
  BY <1>2 DEF Consolidating, Purging, Holding, Pending, Retained, MayRollBack
<1>4. /\ ~Consolidating(p)' /\ ~Purging(p)' /\ ~Holding(p)' /\ ~MayRollBack(p)'
      /\ Pending(p)'
  BY <1>2 DEF Consolidating, Purging, Holding, Pending, MayRollBack
<1>5. \A q \in Passes \ {p} : ~Consolidating(q) /\ ~MayRollBack(q)
  <2>1. Owning(p) BY <1>0 DEF Owning
  <2> QED BY <2>1, OnePassWrites
<1>6. PassRemembers(p) /\ Holding(p) /\ (Consolidating(p) \/ Purging(p))
  BY <1>0 DEF RememberInv, PassRemembers, ReadKnown, Holding
<1>7. Settled \subseteq Settled'
  <2>1. \A q \in Passes : ~MayRollBack(q)' BY <1>3, <1>4, <1>5
  <2> QED BY <1>1, <2>1, SettledStays
<1>8. /\ disk' \in Seq(Line) /\ TurnsIn(disk') \subseteq TurnsIn(pass[p].snap)
      /\ TurnCount(disk') = left /\ left <= TurnCount(pass[p].snap)
  BY <1>0, <1>1, <1>6, TurnsOfSuffix DEF PassRemembers, ReadKnown, Retained
<1>9. Consolidating(p) => TurnsIn(pass[p].snap) \subseteq Settled'
  <2> SUFFICES ASSUME Consolidating(p) PROVE memory \subseteq Kept'
    BY <1>0, <1>1, <1>6 DEF PassRemembers, ReadStays, Settled
  <2>1. \A q \in Passes : ~MayRollBack(q)' BY <1>3, <1>4, <1>5
  <2> QED BY <1>1, <2>1 DEF Kept
<1>10. ~overtaken => TurnsIn(pass[p].snap) \subseteq Settled'
  BY <1>6, <1>7, <1>9 DEF PassRemembers, PurgesSettled
<1>11. Purging(p) => p = "tick" /\ left = 0 /\ TurnsIn(disk') = {}
  <2>1. left = 0 => TurnsIn(disk') = {} BY <1>8, NoTurns
  <2> QED BY <1>6, <2>1 DEF PassRemembers, PurgesSettled
<1>12. TurnsIn(disk') \subseteq Settled'
  BY <1>6, <1>8, <1>9, <1>11
<1>13. Within(left, mem, Settled')
  <2>1. CASE Purging(p)
    BY <1>0, <1>11, <2>1, WithinNone
  <2>2. CASE Consolidating(p)
    <3>1. TurnCount(pass[p].snap) \in Nat /\ TurnCount(mem) \in Nat
      BY <1>0, FewTurns
    <3>2. Within(TurnCount(pass[p].snap), mem, Range(pass[p].snap) \cup Settled)
      BY <1>6, <2>2 DEF PassRemembers, ReadStays
    <3>3. left <= TurnCount(mem)
      BY <1>0, <1>8, <3>1, <3>2 DEF Within
    <3>4. ASSUME left = TurnCount(mem) PROVE TurnsIn(mem) \subseteq Settled'
      <4>1. TurnsIn(mem) \subseteq Range(pass[p].snap) \cup Settled
        BY <1>0, <1>8, <3>1, <3>2, <3>4 DEF Within
      <4> QED BY <1>7, <1>9, <2>2, <4>1 DEF TurnsIn, UserLines
    <3> QED BY <3>3, <3>4 DEF Within
  <2> QED BY <1>6, <2>1, <2>2
<1>14. MemoryAhead'
  <2>1. TurnsIn(disk') \subseteq Range(mem)
    BY <1>6, <1>8, <1>11 DEF PassRemembers, ReadStays
  <2> QED BY <1>1, <1>8, <1>13, <2>1 DEF MemoryAhead, Within
<1>15. ArchiveSettled'
  <2> SUFFICES ASSUME ~overtaken, NEW l \in Archive, l \notin Range(disk'),
                      l.role = "user"
               PROVE  l \in Settled'
    <3>1. Archive' = Archive BY <1>1, SameArchive
    <3> QED BY <1>1, <3>1 DEF ArchiveSettled, UserLines
  <2>1. CASE l \notin Range(disk)
    BY <1>7, <2>1 DEF RememberInv, ArchiveSettled, UserLines
  <2>2. CASE l \in Range(disk)
    <3>1. l \in Range(pass[p].snap) \cup Settled
      BY <1>6, <2>2 DEF PassRemembers, ReadKnown, TurnsIn, UserLines
    <3> QED BY <1>7, <1>10, <3>1 DEF TurnsIn, UserLines
  <2> QED BY <2>1, <2>2
<1>16. ASSUME NEW k \in Nat, k <= left, Noted(k)
       PROVE  Within(k, disk', Settled') /\ Within(k, mem, Settled')
  BY <1>7, <1>8, <1>12, <1>16, WithinMore DEF Noted, Within
<1>17. CountIsTrue'
  <2>1. CASE p = "tick"
    BY <1>4, <2>1 DEF CountIsTrue
  <2>2. CASE p # "tick"
    <3>1. left = KeepTurns
      BY <1>6, <1>11, <2>2 DEF PassRemembers, LeavesFew
    <3>2. covered <= left BY <3>1 DEF RememberInv
    <3>3. (\A q \in Passes : q = "tick" => ~Pending(q))' =>
            \A q \in Passes : q = "tick" => ~Pending(q)
      BY <1>3, <2>2
    <3>4. ~overtaken' /\ (\A q \in Passes : q = "tick" => ~Pending(q))' =>
            Noted(covered)
      BY <1>1, <3>3 DEF RememberInv, CountIsTrue
    <3> QED BY <1>0, <1>1, <1>16, <3>2, <3>4 DEF CountIsTrue, Noted
  <2> QED BY <2>1, <2>2
<1>18. PassRemembers(p)'
  <2>1. ReadStays(p)' /\ ReadKnown(p)' /\ PurgesSettled(p)' /\ LeavesFew(p)'
    BY <1>2, <1>4, <1>6
    DEF PassRemembers, ReadStays, ReadKnown, PurgesSettled, LeavesFew
  <2>2. Within(left, disk', Settled')
    BY <1>0, <1>8, <1>12 DEF Within
  <2>3. pass'[p].turns = left /\ mem' = mem BY <1>1, <1>2
  <2> HIDE DEF left
  <2>4. WillNote(p)'
    BY <1>13, <2>2, <2>3 DEF WillNote, Noted
  <2> QED BY <2>1, <2>4 DEF PassRemembers
<1>19. ASSUME NEW q \in Passes \ {p} PROVE PassRemembers(q)'
  <2>0. PassRemembers(q) BY DEF RememberInv
  <2>1. ReadStays(q)'
    BY <1>3, <1>5 DEF ReadStays
  <2>2. ReadKnown(q)'
    BY <1>2, <1>3, <1>5, <1>12, <2>0 DEF PassRemembers, ReadKnown
  <2>3. LeavesFew(q)' /\ PurgesSettled(q)'
    BY <1>1, <1>2, <1>3, <1>7, <2>0 DEF PassRemembers, LeavesFew, PurgesSettled
  <2>4. WillNote(q)'
    <3> SUFFICES ASSUME ~overtaken', Pending(q)
                 PROVE  Within(pass[q].turns, disk', Settled')
                        /\ Within(pass[q].turns, mem, Settled')
      BY <1>1, <1>2, <1>3 DEF WillNote, Noted
    <3>1. ~(pass[q].turns > left)
      BY <1>1, <1>8 DEF Overtakes
    <3>2. pass[q].turns <= left BY <1>0, <3>1
    <3>3. Noted(pass[q].turns) BY <1>1, <2>0 DEF PassRemembers, WillNote
    <3> QED BY <1>0, <1>16, <3>2, <3>3
  <2> QED BY <2>1, <2>2, <2>3, <2>4 DEF PassRemembers
<1> QED
  BY <1>1, <1>14, <1>15, <1>17, <1>18, <1>19 DEF RememberInv

(* The steps of the passes, where there is no manual one.                  *)
LEMMA PassesRemember ==
  ASSUME TypeOK, SplitInRange, LossInv, RememberInv, "manual" \notin Passes,
         NEW p \in Passes, PassStep(p)
  PROVE  RememberInv'
<1>0. /\ pass \in [Passes -> CompactionPass] /\ pass[p] \in CompactionPass
      /\ listed \in Nat /\ p # "manual" /\ KeepTurns \in Nat /\ disk \in Seq(Line)
      /\ GuardHeld /\ PassRemembers(p)
  BY PassTyped, BoundsAssumption DEF LossInv, RememberInv
<1> DEFINE Quiet == UNCHANGED <<disk, overtaken, dropped, exposed, up, gen>>
                    /\ Archive' = Archive /\ unread \subseteq unread'
<1>1. ASSUME EndPass(p), \/ memory' = memory
                         \/ MayRollBack(p) /\ memory' = pass[p].before
      PROVE  OthersStay(p) /\ Continues(p)
  BY <1>0, <1>1
  DEF EndPass, OthersStay, Continues, NoPass, MayRollBack, Holding, Consolidating, Pending
<1>2. ASSUME pass' = [pass EXCEPT ![p] = [NoPass EXCEPT !.pc = "reload"]],
             memory' = memory
      PROVE  OthersStay(p) /\ Continues(p) /\ Pending(p)'
  BY <1>0, <1>2
  DEF OthersStay, Continues, NoPass, MayRollBack, Holding, Consolidating, Pending
<1>3. ASSUME UNCHANGED <<files, listed>> PROVE Archive' = Archive
  BY <1>3, SameArchive
<1>4. CASE BeginBackground(p)
  <2>1. PICK keep \in {0, KeepTurns}, retain \in BOOLEAN, split \in 1..Len(disk) :
          /\ BackgroundCall(p, keep, retain)
          /\ split = ArchiveSplitIndex(disk, keep, retain)
          /\ EnterLoop(p, disk, split, pass[p].seen)
    BY <1>4 DEF BeginBackground
  <2> DEFINE turns == TurnCount(Suffix(disk, split))
  <2>2. keep \in Nat /\ keep <= KeepTurns BY <1>0
  <2>3. turns <= keep /\ (~retain => turns = keep)
    BY <1>0, <2>1, <2>2, SplitLeaves
  <2>4. turns \in Nat BY <1>0, TurnsOfSuffix, TurnCountIsNat
  <2>5. p # "tick" => keep = KeepTurns /\ ~retain BY <2>1 DEF BackgroundCall
  <2>6. Len(disk) \in Nat /\ Len(disk) - (Len(disk) - split) = split
        /\ Len(disk) - split < Len(disk) /\ split \in 0..Len(disk)
    BY <1>0
  <2>7. /\ OthersStay(p) /\ pass'[p].pc = "loop" /\ pass'[p].mode = "llm"
        /\ ~pass'[p].wrote /\ pass'[p].before = memory /\ pass'[p].snap = disk
        /\ pass'[p].split = split /\ pass'[p].turns = turns
    BY <1>0, <2>1, <2>6 DEF EnterLoop, OthersStay
  <2>8. /\ UNCHANGED <<mem, disk, memory, overtaken, dropped, exposed, unread, covered, up,
                       gen>>
        /\ Archive' = Archive /\ pass[p].pc = "asked"
    BY <1>3, <1>4 DEF BeginBackground, PassUnchanged
  <2>9. turns <= KeepTurns /\ (p # "tick" => turns = KeepTurns)
    BY <1>0, <2>2, <2>3, <2>4, <2>5
  <2> HIDE DEF turns
  <2>10. TurnCount(Suffix(disk, pass'[p].split)) = pass'[p].turns BY <2>7 DEF turns
  <2> QED BY <1>0, <2>6, <2>7, <2>8, <2>9, <2>10, ReadRemembers
<1>5. CASE p = "tick" /\ ReadDeepIdle
  <2>1. PICK split \in 1..Len(disk) :
          /\ split = Len(disk) - TrailingAutonomous(disk)
          /\ TurnCount(disk) = covered
          /\ pass' = [pass EXCEPT ![p] =
                        [NoPass EXCEPT !.pc = "read", !.mode = "pure",
                                       !.snap = disk, !.split = split]]
    BY <1>5 DEF ReadDeepIdle
  <2>2. TurnCount(Suffix(disk, split)) = 0 /\ split \in 0..Len(disk)
    BY <1>0, <2>1, TrailingAreNoTurns
  <2>3. /\ OthersStay(p) /\ pass'[p].pc = "read" /\ pass'[p].mode = "pure"
        /\ ~pass'[p].wrote /\ pass'[p].snap = disk
        /\ pass'[p].split = split /\ pass'[p].turns = 0
    BY <1>0, <2>1 DEF NoPass, OthersStay
  <2>4. /\ UNCHANGED <<mem, disk, memory, overtaken, dropped, exposed, unread, covered, up,
                       gen>>
        /\ Archive' = Archive /\ pass[p].pc = "off"
    BY <1>3, <1>5 DEF ReadDeepIdle, PassUnchanged
  <2> QED BY <1>0, <1>5, <2>1, <2>2, <2>3, <2>4, ReadRemembers
<1>6. CASE BeginOnEmpty(p)
  <2>1. Quiet /\ mem' = mem /\ covered' = covered /\ memory' = memory
    BY <1>3, <1>6 DEF BeginOnEmpty, PassUnchanged
  <2>2. pass' = [pass EXCEPT ![p] = [NoPass EXCEPT !.pc = "reload"]]
    BY <1>6 DEF BeginOnEmpty
  <2> QED BY <1>0, <1>2, <2>1, <2>2, MoveRemembers
<1>7. CASE AskPass(p) \/ (p = "tick" /\ ReadForRebuild)
  <2>1. /\ Quiet /\ mem' = mem /\ covered' = covered /\ memory' = memory
        /\ pass[p].pc = "off"
    BY <1>3, <1>7 DEF AskPass, ReadForRebuild, PassUnchanged
  <2>2. PICK step \in {"asked", "rebuild"} :
          \E seen : pass' = [pass EXCEPT ![p] = [NoPass EXCEPT !.pc = step, !.seen = seen]]
    BY <1>7 DEF AskPass, ReadForRebuild
  <2>3. OthersStay(p) /\ Continues(p) /\ ~Pending(p)
    BY <1>0, <2>1, <2>2
    DEF OthersStay, Continues, NoPass, MayRollBack, Holding, Consolidating, Pending
  <2> QED BY <1>0, <2>1, <2>3, MoveRemembers
<1>8. CASE BeginPure(p)
  <2>1. Quiet /\ mem' = mem /\ covered' = covered /\ memory' = memory
    BY <1>3, <1>8 DEF BeginPure, PassUnchanged
  <2>2. pass[p].pc = "read" /\ pass[p].mode = "pure" /\ ~Pending(p)
    BY <1>0, <1>8
    DEF BeginPure, PassRemembers, ReadKnown, Holding, Consolidating, Purging, Pending
  <2>3. OthersStay(p) /\ Continues(p)
    BY <1>0, <1>8, <2>1, <2>2
    DEF BeginPure, OthersStay, Continues, NoPass, CompactionPass, MayRollBack, Holding,
        Consolidating, Pending
  <2> QED BY <1>0, <2>1, <2>2, <2>3, MoveRemembers
<1>9. CASE ToolWrite(p) \/ LoopArchives(p)
  <2>1. Quiet /\ mem' = mem /\ covered' = covered
    BY <1>3, <1>9 DEF ToolWrite, LoopArchives, PassUnchanged
  <2>2. ~Pending(p) BY <1>9 DEF ToolWrite, LoopArchives, Pending
  <2>3. CASE ToolWrite(p)
    <3>1. /\ memory \subseteq memory'
          /\ TurnsIn(pass[p].snap) \subseteq memory' \cup unread'
      BY <2>3 DEF ToolWrite, Unsent, TurnsIn
    <3>2. /\ OthersStay(p) /\ pass[p].pc = "loop" /\ pass'[p].pc = "loop"
          /\ pass'[p].mode = pass[p].mode /\ pass'[p].before = pass[p].before
          /\ pass'[p].snap = pass[p].snap /\ pass'[p].split = pass[p].split
          /\ pass'[p].turns = pass[p].turns
      BY <1>0, <2>3 DEF ToolWrite, OthersStay, CompactionPass
    <3>3. Continues(p)
      BY <3>1, <3>2 DEF Continues, MayRollBack, Holding, Consolidating, Pending
    <3> QED BY <1>0, <2>1, <2>2, <3>2, <3>3, MoveRemembers
  <2>4. CASE LoopArchives(p)
    <3>1. OthersStay(p) /\ Continues(p)
      BY <1>0, <2>4
      DEF LoopArchives, OthersStay, Continues, CompactionPass, MayRollBack, Holding,
          Consolidating, Pending
    <3> QED BY <1>0, <2>1, <2>2, <3>1, MoveRemembers
  <2> QED BY <1>9, <2>3, <2>4
<1>10. CASE PassRefused(p) \/ LoopWithoutWrites(p) \/ LoopFails(p)
  <2>1. /\ Quiet /\ mem' = mem /\ covered' = covered /\ memory' = memory
        /\ ~Pending(p)
    BY <1>3, <1>10 DEF PassRefused, LoopWithoutWrites, LoopFails, PassUnchanged, Pending
  <2>2. OthersStay(p) /\ Continues(p)
    BY <1>0, <1>1, <1>2, <1>10, <2>1 DEF PassRefused, LoopWithoutWrites, LoopFails
  <2> QED BY <1>0, <2>1, <2>2, MoveRemembers
<1>11. CASE WriteSegment(p) \/ WriteSegmentFails(p)
  <2>1. /\ UNCHANGED <<mem, disk, listed, memory, overtaken, dropped, exposed, unread,
                       covered, up, gen>>
        /\ ~Pending(p)
    BY <1>11 DEF WriteSegment, WriteSegmentFails, PassUnchanged, Pending
  <2>2. Quiet
    <3>1. /\ files \in [1..MaxSegments -> Seq(Line)] /\ listed \in 0..MaxSegments
          /\ MaxSegments \in Nat
      BY BoundsAssumption DEF TypeOK
    <3>2. \A i \in 1..listed : files'[i] = files[i]
      BY <1>0, <1>11, <3>1 DEF WriteSegment, WriteSegmentFails
    <3> QED BY <2>1, <3>2 DEF Archive
  <2>3. OthersStay(p) /\ Continues(p)
    BY <1>0, <1>11, <2>1
    DEF WriteSegment, WriteSegmentFails, OthersStay, Continues, CompactionPass,
        MayRollBack, Holding, Consolidating, Pending
  <2> QED BY <1>0, <2>1, <2>2, <2>3, MoveRemembers
<1>12. CASE WriteManifestFails(p) \/ WriteActiveFails(p)
  <2>1. /\ Quiet /\ mem' = mem /\ covered' = covered /\ memory' = memory
        /\ ~Pending(p)
    BY <1>3, <1>12 DEF WriteManifestFails, WriteActiveFails, PassUnchanged, Pending
  <2>2. OthersStay(p) /\ Continues(p)
    BY <1>0, <1>12, <2>1
    DEF WriteManifestFails, WriteActiveFails, OthersStay, Continues, CompactionPass,
        MayRollBack, Holding, Consolidating, Pending
  <2> QED BY <1>0, <2>1, <2>2, MoveRemembers
<1>13. CASE Rollback(p)
  <2>1. Quiet /\ mem' = mem /\ covered' = covered /\ ~Pending(p)
    BY <1>3, <1>13 DEF Rollback, PassUnchanged, Pending
  <2>2. OthersStay(p) /\ Continues(p)
    BY <1>1, <1>13 DEF Rollback, MayRollBack
  <2> QED BY <1>0, <2>1, <2>2, MoveRemembers
<1>14. CASE Reload(p) \/ ReloadFails(p)
  <2>1. /\ Quiet /\ mem' \in {mem, disk} /\ covered' = covered /\ memory' = memory
        /\ Pending(p)
    BY <1>3, <1>14 DEF Reload, ReloadFails, PassUnchanged, Pending
  <2>2. CASE EndPass(p) /\ p # "tick"
    BY <1>0, <1>1, <2>1, <2>2, MoveRemembers
  <2>3. CASE pass' = [pass EXCEPT ![p].pc = "notify"]
    <3>1. OthersStay(p) /\ Continues(p) /\ Pending(p)'
      BY <1>0, <2>1, <2>3
      DEF OthersStay, Continues, CompactionPass, MayRollBack, Holding, Consolidating,
          Pending
    <3> QED BY <1>0, <2>1, <3>1, MoveRemembers
  <2> QED BY <1>14, <2>2, <2>3 DEF Reload, ReloadFails
<1>15. CASE Notify(p) \/ CacheRebuilt(p)
  <2>1. /\ Quiet /\ mem' = mem /\ memory' = memory /\ EndPass(p)
        /\ \/ covered' = covered /\ ~Pending(p)
           \/ covered' = pass[p].turns /\ Pending(p)
    BY <1>3, <1>15 DEF Notify, CacheRebuilt, Pending
  <2>2. OthersStay(p) /\ Continues(p) BY <1>1, <2>1
  <2> QED BY <1>0, <2>1, <2>2, MoveRemembers
<1>16. CASE WriteManifest(p) \/ WriteActive(p)
  BY <1>0, <1>16, ManifestRemembers, ActiveRemembers
<1> QED
  BY <1>0, <1>4, <1>5, <1>6, <1>7, <1>8, <1>9, <1>10, <1>11, <1>12, <1>13, <1>14,
     <1>15, <1>16
  DEF PassStep, BeginPass, StartAsked, EndLoop, ArchiveStep, FinishStep

(* Steps that touch none of this.                                          *)
LEMMA SameRemembers ==
  ASSUME RememberInv,
         UNCHANGED <<mem, disk, files, listed, memory, overtaken, dropped, exposed,
                     unread, covered, up, pass>>,
         \A s \in Sessions : ~gen'[s].regen
  PROVE  RememberInv'
<1>1. Archive' = Archive BY SameArchive
<1>2. \A p \in Passes :
        /\ Consolidating(p)' = Consolidating(p) /\ Purging(p)' = Purging(p)
        /\ Holding(p)' = Holding(p) /\ Pending(p)' = Pending(p)
        /\ Retained(p)' = Retained(p) /\ MayRollBack(p)' = MayRollBack(p)
  BY DEF Consolidating, Purging, Holding, Pending, Retained, MayRollBack
<1>3. Kept' = Kept /\ Settled' = Settled BY <1>2 DEF Kept, Settled
<1>4. MemoryAhead' /\ ArchiveSettled' /\ CountIsTrue'
  BY <1>1, <1>2, <1>3
  DEF RememberInv, MemoryAhead, ArchiveSettled, CountIsTrue, Noted, Within
<1>5. ASSUME NEW p \in Passes PROVE PassRemembers(p)'
  <2>1. PassRemembers(p) BY DEF RememberInv
  <2> QED BY <1>2, <1>3, <2>1
          DEF PassRemembers, ReadStays, ReadKnown, LeavesFew, PurgesSettled, WillNote,
              Noted, Within
<1> QED BY <1>4, <1>5 DEF RememberInv

(* The generation tasks and the heartbeat append; where clients rewrite    *)
(* nothing, nobody does more.                                              *)
LEMMA SessionsRemember ==
  ASSUME TypeOK, RememberInv, ~Rewrites,
         HeartbeatMessage \/ \E s \in Sessions : SessionStep(s)
  PROVE  RememberInv'
<1>0. /\ gen \in [Sessions -> GenTask] /\ \A s \in Sessions : ~gen[s].regen
      /\ fresh \in Nat
  BY DEF TypeOK, RememberInv
<1>1. ASSUME NEW s \in Sessions, SessionStep(s) PROVE \A t \in Sessions : ~gen'[t].regen
  <2>1. SUFFICES ~gen'[s].regen /\ \A t \in Sessions \ {s} : gen'[t] = gen[t]
    BY <1>0
  <2>2. ~StartRegen(s) /\ ~PersistRegen(s)
    BY <1>0 DEF StartRegen, PersistRegen
  <2>3. CASE StartTurn(s) \/ BuildRequest(s) \/ GenerationEnds(s) \/ AppendReply(s)
    <3>1. CASE StartTurn(s)
      BY <1>0, <3>1 DEF StartTurn, NoGen
    <3>2. CASE BuildRequest(s)
      BY <1>0, <3>2 DEF BuildRequest, GenTask
    <3>3. CASE GenerationEnds(s)
      BY <1>0, <3>3 DEF GenerationEnds, NoGen
    <3>4. CASE AppendReply(s)
      BY <1>0, <3>4 DEF AppendReply, NoGen, GenTask
    <3> QED BY <2>3, <3>1, <3>2, <3>3, <3>4
  <2>4. CASE BeginPersist(s)
    <3>1. PICK n \in 0..MaxReplyLines :
            \/ gen' = [gen EXCEPT ![s] = NoGen]
            \/ gen' = [gen EXCEPT ![s].pc = "append", ![s].todo = GeneratedLines(n)]
      BY <2>4 DEF BeginPersist
    <3> DEFINE todo == GeneratedLines(n)
    <3>2. \/ gen' = [gen EXCEPT ![s] = NoGen]
          \/ gen' = [gen EXCEPT ![s].pc = "append", ![s].todo = todo]
      BY <3>1
    <3> HIDE DEF todo
    <3> QED BY <1>0, <3>2 DEF NoGen, GenTask
  <2> QED BY <1>1, <2>2, <2>3, <2>4 DEF SessionStep, GenerationStep
<1>2. CASE HeartbeatMessage
  <2> DEFINE l == NewLine(1, "auto")
  <2>1. l \in Line BY NewLineType DEF Role
  <2>2. /\ Persist(Append(mem, l)) \/ PersistFails(Append(mem, l))
        /\ UNCHANGED <<files, listed, memory, pass, covered, up, gen>>
    BY <1>2 DEF HeartbeatMessage
  <2> HIDE DEF l
  <2> QED BY <1>0, <2>1, <2>2, AppendRemembers
<1>3. ASSUME NEW s \in Sessions, SessionStep(s) PROVE RememberInv'
  <2>1. CASE StartTurn(s)
    <3> DEFINE l == NewLine(1, "user")
    <3>1. l \in Line BY NewLineType DEF Role
    <3>2. /\ \/ Persist(Append(mem, l)) \/ PersistFails(Append(mem, l))
             \/ UNCHANGED <<engineVars, historyVars>>
          /\ UNCHANGED <<files, listed, memory, pass, covered, up>>
      BY <2>1 DEF StartTurn
    <3> HIDE DEF l
    <3>3. CASE UNCHANGED <<engineVars, historyVars>>
      BY <1>1, <1>3, <3>2, <3>3, SameRemembers
    <3> QED BY <1>1, <1>3, <3>1, <3>2, <3>3, AppendRemembers
  <2>2. CASE BuildRequest(s) \/ GenerationEnds(s) \/ BeginPersist(s) \/ StartRegen(s)
    BY <1>1, <1>3, <2>2, SameRemembers
    DEF BuildRequest, GenerationEnds, BeginPersist, StartRegen
  <2>3. CASE AppendReply(s)
    <3> DEFINE l == Head(gen[s].todo)
    <3>1. gen[s].todo \in Seq(Line) /\ gen[s].todo # <<>>
      BY <1>0, <2>3 DEF AppendReply, GenTask
    <3>2. l \in Line BY <3>1
    <3>3. /\ Persist(Append(mem, l)) \/ PersistFails(Append(mem, l))
          /\ UNCHANGED <<files, listed, memory, pass, covered, up>>
      BY <2>3 DEF AppendReply
    <3> HIDE DEF l
    <3> QED BY <1>1, <1>3, <3>2, <3>3, AppendRemembers
  <2>4. ~PersistRegen(s) BY <1>0 DEF PersistRegen
  <2> QED BY <1>3, <2>1, <2>2, <2>3, <2>4 DEF SessionStep, GenerationStep
<1> QED BY <1>2, <1>3

(* ArchivedTurnsRemembered, over every number of sessions, lines, failing  *)
(* writes and passes of the inline and the tick kind, where clients only   *)
(* send: a user turn is archived only when the memory files hold it and no *)
(* running pass can take that back, or it came behind a pass's back, or a  *)
(* pass that wrote was not sent it (the request it was given is older than *)
(* the file it archives from).  The deep-idle archive reads no memory file:*)
(* it trusts the covered count, so the invariant carries what a count of k *)
(* turns claims through every pass that notes one.  Crashes, the manual    *)
(* pass and rewriting clients break that claim.                            *)
THEOREM ArchivedIsRemembered ==
  ASSUME "manual" \notin Passes, ~Rewrites, MaxCrashes = 0
  PROVE  Spec => []ArchivedTurnsRemembered
<1>1. Init => RememberInv
  <2> SUFFICES ASSUME Init PROVE RememberInv
    OBVIOUS
  <2>0. <<>> \in Seq(Line) /\ KeepTurns \in Nat BY BoundsAssumption
  <2>1. mem = <<>> /\ disk = <<>> /\ covered = 0 /\ up /\ Archive = {}
    BY DEF Init, Archive
  <2>2. \A p \in Passes : pass[p] = NoPass BY DEF Init
  <2>3. \A s \in Sessions : ~gen[s].regen BY DEF Init, NoGen
  <2>4. TurnCount(disk) = 0 /\ TurnsIn(disk) = {}
    <3>1. TurnsIn(<<>>) = {} BY DEF TurnsIn, UserLines, Range
    <3> QED BY <2>0, <2>1, <3>1, NoTurns
  <2>5. MemoryAhead /\ Noted(0)
    BY <2>0, <2>1, <2>4, WithinNone DEF MemoryAhead, Noted
  <2>6. \A p \in Passes : PassRemembers(p)
    BY <2>0, <2>2
    DEF PassRemembers, ReadStays, ReadKnown, LeavesFew, PurgesSettled, WillNote, NoPass,
        Consolidating, Purging, Holding, Pending
  <2> QED BY <2>0, <2>1, <2>3, <2>5, <2>6
          DEF RememberInv, ArchiveSettled, UserLines, CountIsTrue
<1>2. TypeOK /\ SplitInRange /\ LossInv /\ RememberInv /\ [Next]_vars => RememberInv'
  <2> SUFFICES ASSUME TypeOK, SplitInRange, LossInv, RememberInv, [Next]_vars
               PROVE  RememberInv'
    OBVIOUS
  <2>1. CASE UNCHANGED vars \/ SaveAutonomy
    <3>1. UNCHANGED <<mem, disk, files, listed, memory, overtaken, dropped, exposed,
                      unread, covered, up, pass, gen>>
      BY <2>1 DEF SaveAutonomy
    <3> QED BY <3>1, SameRemembers DEF RememberInv
  <2>2. ~Crash /\ ~Restart
    <3>1. crashes \in Nat BY DEF TypeOK
    <3>2. up BY DEF RememberInv
    <3>3. Crash => crashes < MaxCrashes BY DEF Crash
    <3>4. Restart => ~up BY DEF Restart
    <3>5. ~(crashes < MaxCrashes) BY <3>1
    <3> QED BY <3>2, <3>3, <3>4, <3>5
  <2>3. ~EditMessage /\ ~DeleteMessage /\ ~InjectSystem
    BY DEF EditMessage, DeleteMessage, InjectSystem
  <2>4. CASE Next
    BY <2>1, <2>2, <2>3, <2>4, SessionsRemember, PassesRemember DEF Next
  <2> QED BY <2>1, <2>4
<1>3. RememberInv => ArchivedTurnsRemembered
  BY DEF RememberInv, ArchiveSettled, ArchivedTurnsRemembered, Forgotten, UserLines, Settled, Kept
<1> QED BY <1>1, <1>2, <1>3, LossInvHolds, PTL DEF Spec

-----------------------------------------------------------------------------
(* The conversation implements the chronicle                               *)

(* What is saved, held by a pass or archived was recorded.                 *)
AllRecorded ==
  /\ Range(disk) \cup Archive \subseteq accepted
  /\ \A p \in Passes : Holding(p) => Range(pass[p].snap) \subseteq accepted

(* The lines of the transcript the promise is about.                       *)
Active == Range(disk) \ Safe

Working == \E p \in Passes : Holding(p)

Segments == [i \in 1..listed |-> files[i]]

ChronicleStep ==
  C!Next \/ UNCHANGED <<accepted, Active, Segments, dropped, exposed, Working>>

(* A function that agrees with f and then takes e is f with e appended.    *)
LEMMA AppendIsFunction ==
  ASSUME NEW S, NEW n \in Nat, NEW f \in [1..n -> S], NEW e \in S,
         NEW g \in [1..(n + 1) -> S],
         \A i \in 1..n : g[i] = f[i], g[n + 1] = e
  PROVE  g = Append(f, e)
<1>1. f \in Seq(S) /\ Len(f) = n /\ g \in Seq(S) /\ Len(g) = n + 1
  OBVIOUS
<1>2. Append(f, e) \in Seq(S) /\ Len(Append(f, e)) = n + 1
  BY <1>1
<1>3. \A i \in 1..(n + 1) : Append(f, e)[i] = g[i]
  BY <1>1
<1> QED BY <1>1, <1>2, <1>3, SeqEqual

(* What a step of a pass may change: its own stage and copy, memory by a   *)
(* reload, the file by replacing it, the archive by its two writes.        *)
PassTouches(p) ==
  /\ Reads(p) /\ OthersStay(p)
  /\ UNCHANGED <<dropped, exposed>>
  /\ accepted \subseteq accepted' /\ accepted' \subseteq accepted \cup Range(disk)
  /\ disk' = disk \/ WriteActive(p)
  /\ \/ UNCHANGED <<files, listed>>
     \/ WriteSegment(p) \/ WriteSegmentFails(p) \/ WriteManifest(p)

LEMMA PassesTouch ==
  ASSUME TypeOK, NEW p \in Passes, PassStep(p)
  PROVE  PassTouches(p)
<1>0. pass \in [Passes -> CompactionPass] /\ pass[p] \in CompactionPass
  BY DEF TypeOK
<1> DEFINE Still == UNCHANGED <<disk, files, listed, dropped, exposed, accepted>>
<1>1. ASSUME Still, Reads(p), OthersStay(p) PROVE PassTouches(p)
  BY <1>1 DEF PassTouches
<1>2. ASSUME EndPass(p) PROVE Reads(p) /\ OthersStay(p)
  BY <1>0, <1>2 DEF EndPass, Reads, OthersStay, NoPass
<1>3. CASE (p = "manual" /\ BeginManual) \/ BeginBackground(p)
  <2>1. PICK transcript, split, cached : EnterLoop(p, transcript, split, cached)
    BY <1>3 DEF BeginManual, BeginBackground
  <2>2. Reads(p) /\ OthersStay(p)
    BY <1>0, <2>1 DEF EnterLoop, Reads, OthersStay
  <2>3. Still
    BY <1>3 DEF BeginManual, BeginBackground
  <2> QED BY <1>1, <2>2, <2>3
<1>4. CASE AskPass(p) \/ BeginOnEmpty(p)
  BY <1>0, <1>1, <1>4 DEF AskPass, BeginOnEmpty, NoPass, Reads, OthersStay
<1>5. CASE p = "tick" /\ ReadDeepIdle
  <2>1. PICK split : pass' = [pass EXCEPT ![p] =
                       [NoPass EXCEPT !.pc = "read", !.mode = "pure",
                                      !.snap = disk, !.split = split]]
    BY <1>5 DEF ReadDeepIdle
  <2>2. Reads(p) /\ OthersStay(p)
    BY <1>0, <2>1 DEF NoPass, Reads, OthersStay
  <2> QED BY <1>1, <1>5, <2>2 DEF ReadDeepIdle
<1>6. CASE p = "tick" /\ ReadForRebuild
  BY <1>0, <1>1, <1>6 DEF ReadForRebuild, NoPass, Reads, OthersStay
<1>7. CASE BeginPure(p) \/ ToolWrite(p) \/ LoopArchives(p)
           \/ WriteManifestFails(p) \/ WriteActiveFails(p)
  <2>1. Still
    BY <1>7 DEF BeginPure, ToolWrite, LoopArchives, WriteManifestFails, WriteActiveFails
  <2>2. Reads(p) /\ OthersStay(p)
    BY <1>0, <1>7 DEF BeginPure, ToolWrite, LoopArchives, WriteManifestFails,
       WriteActiveFails, CompactionPass, NoPass, Holding, Reads, OthersStay
  <2> QED BY <1>1, <2>1, <2>2
<1>8. CASE \/ PassRefused(p) \/ LoopWithoutWrites(p) \/ LoopFails(p) \/ Rollback(p)
          \/ Notify(p) \/ CacheRebuilt(p)
  <2>1. Still
    BY <1>8 DEF PassRefused, LoopWithoutWrites, LoopFails, Rollback, Notify, CacheRebuilt
  <2>2. Reads(p) /\ OthersStay(p)
    BY <1>0, <1>2, <1>8 DEF PassRefused, LoopWithoutWrites, LoopFails, Rollback, Notify, CacheRebuilt,
       NoPass, Reads, OthersStay
  <2> QED BY <1>1, <2>1, <2>2
<1>9. CASE WriteSegment(p) \/ WriteSegmentFails(p) \/ WriteManifest(p)
  <2>1. UNCHANGED <<disk, dropped, exposed, accepted>>
    BY <1>9 DEF WriteSegment, WriteSegmentFails, WriteManifest
  <2>2. Reads(p) /\ OthersStay(p)
    BY <1>0, <1>9 DEF WriteSegment, WriteSegmentFails, WriteManifest, CompactionPass,
       Holding, Reads, OthersStay
  <2> QED BY <1>9, <2>1, <2>2 DEF PassTouches
<1>10. CASE WriteActive(p)
  <2>1. UNCHANGED <<files, listed, dropped, exposed, accepted>>
    BY <1>10 DEF WriteActive
  <2>2. Reads(p) /\ OthersStay(p)
    BY <1>0, <1>10 DEF WriteActive, CompactionPass, Reads, OthersStay
  <2> QED BY <1>10, <2>1, <2>2 DEF PassTouches
<1>11. CASE Reload(p) \/ ReloadFails(p)
  <2>1. /\ UNCHANGED <<disk, files, listed, dropped, exposed>>
        /\ accepted \subseteq accepted' /\ accepted' \subseteq accepted \cup Range(disk)
    BY <1>11 DEF Reload, ReloadFails
  <2>2. Reads(p) /\ OthersStay(p)
    BY <1>0, <1>2, <1>11 DEF Reload, ReloadFails, CompactionPass, Reads, OthersStay
  <2> QED BY <2>1, <2>2 DEF PassTouches
<1> QED
  BY <1>3, <1>4, <1>5, <1>6, <1>7, <1>8, <1>9, <1>10, <1>11
  DEF PassStep, BeginPass, StartAsked, EndLoop, ArchiveStep, FinishStep

(* A save, or one that failed.                                             *)
LEMMA SaveIsRecorded ==
  ASSUME TypeOK, up, LossInv, AllRecorded, NEW m \in Seq(Line),
         Persist(m) \/ PersistFails(m), UNCHANGED <<archiveVars, pass>>
  PROVE  AllRecorded' /\ C!Save
<1>0. /\ Archive' = Archive /\ Segments' = Segments /\ Working' = Working
      /\ \A p \in Passes : Holding(p)' = Holding(p)
  <2>1. \A p \in Passes : Holding(p)' = Holding(p)
    BY DEF Holding
  <2> QED BY <2>1, SameArchive DEF Segments, Working
<1>1. /\ accepted \subseteq accepted' /\ Range(disk') \subseteq accepted'
      /\ dropped' = dropped \cup (Range(mem) \ Range(m))
      /\ exposed \subseteq exposed' /\ exposed' \subseteq exposed \cup BehindPass(m)
  BY DEF Persist, PersistFails, AllRecorded
<1>2. AllRecorded'
  BY <1>0, <1>1 DEF AllRecorded
<1>3. exposed' # exposed => Working
  BY <1>1 DEF BehindPass, Working
<1>4. (exposed' \ exposed) \cap Active \subseteq dropped'
  BY <1>1 DEF BehindPass, Active, LossInv, PassKnowsDisk
<1>5. Active' = (Active \cup (accepted' \ accepted)) \ (dropped' \cup exposed')
  <2>1. Safe' = Archive \cup dropped' \cup exposed'
    BY <1>0 DEF Safe
  <2>2. CASE PersistFails(m)
    BY <1>1, <2>1, <2>2 DEF PersistFails, Active, Safe
  <2>3. CASE Persist(m)
    <3>1. disk' = m /\ accepted' = accepted \cup Range(m)
      BY <2>3 DEF Persist
    <3>2. Range(disk) \subseteq Range(m) \cup dropped' \cup Safe
      BY <1>1 DEF LossInv, MemoryHoldsDisk
    <3>3. accepted \subseteq Range(disk) \cup Safe /\ Archive \subseteq accepted
      BY DEF LossInv, AcceptedKept, AllRecorded
    <3> QED BY <1>1, <2>1, <3>1, <3>2, <3>3 DEF Active, Safe
  <2> QED BY <2>2, <2>3
<1>6. C!Save
  BY <1>0, <1>1, <1>3, <1>4, <1>5 DEF C!Save, Active, Safe, Segments, Working
<1> QED BY <1>2, <1>6

(* A step that saves nothing and lists nothing: a pass begins or ends.     *)
LEMMA OthersOnlyWork ==
  ASSUME UNCHANGED <<accepted, Active, Segments, dropped, exposed>>
  PROVE  ChronicleStep
BY DEF ChronicleStep, C!Next, C!Work, Active, Safe, Segments, Working

(* The steps of the passes: the chronicle sees the manifest's write, and   *)
(* not the replacement of the file.                                        *)
LEMMA PassesAreRecorded ==
  ASSUME TypeOK, SplitInRange, LossInv, AllRecorded, NEW p \in Passes, PassStep(p)
  PROVE  AllRecorded' /\ ChronicleStep
<1>1. PassTouches(p)
  BY PassesTouch
<1>2. /\ pass[p].snap \in Seq(Line) /\ pass[p].split \in 0..Len(pass[p].snap)
      /\ listed \in Nat /\ files \in [1..MaxSegments -> Seq(Line)]
  BY PassTyped DEF SplitInRange, TypeOK
<1>3. accepted' = accepted /\ UNCHANGED <<dropped, exposed>>
  BY <1>1 DEF PassTouches, AllRecorded
<1>4. /\ Range(Archived(p)) \subseteq Range(pass[p].snap)
      /\ Range(Retained(p)) \subseteq Range(pass[p].snap)
  BY <1>2, CutKeepsLines DEF Archived, Retained
<1>5. Range(disk') \subseteq accepted
  <2>1. CASE disk' = disk
    BY <2>1 DEF AllRecorded
  <2>2. CASE WriteActive(p)
    BY <1>4, <2>2 DEF WriteActive, Holding, AllRecorded
  <2> QED BY <1>1, <2>1, <2>2 DEF PassTouches
<1>6. \A q \in Passes : Holding(q)' => Range(pass'[q].snap) \subseteq accepted
  BY <1>1 DEF PassTouches, Reads, OthersStay, Holding, AllRecorded
<1>7. CASE WriteManifest(p)
  <2>1. /\ listed' = listed + 1 /\ files' = files /\ UNCHANGED <<disk, accepted>>
        /\ files[listed + 1] = Archived(p) /\ Holding(p) /\ Holding(p)'
    BY <1>2, <1>7 DEF WriteManifest, LossInv, ArchiveInOrder, Holding, TypeOK
  <2>2. Archive' = Archive \cup Range(Archived(p))
    <3>1. 1..listed' = 1..listed \cup {listed + 1}
      BY <1>2, <2>1
    <3> QED BY <2>1, <3>1 DEF Archive
  <2>3. Range(Archived(p)) \subseteq accepted
    BY <1>4, <2>1 DEF AllRecorded
  <2>4. AllRecorded'
    BY <1>3, <1>5, <1>6, <2>2, <2>3 DEF AllRecorded
  <2>5. Segments' = Append(Segments, Archived(p))
    <3>0. pass[p].index = listed + 1
      BY <1>7 DEF WriteManifest, LossInv, ArchiveInOrder
    <3>1. \A i \in 1..(listed + 1) : files[i] \in Seq(Line)
      <4>1. listed + 1 \in 0..MaxSegments
        BY <3>0, PassTyped
      <4>2. 1..(listed + 1) \subseteq 1..MaxSegments
        BY <1>2, <4>1, BoundsAssumption
      <4> QED BY <1>2, <4>2
    <3>2. /\ Segments \in [1..listed -> Seq(Line)]
          /\ Segments' \in [1..(listed + 1) -> Seq(Line)]
      BY <1>2, <2>1, <3>1 DEF Segments
    <3>3. Archived(p) \in Seq(Line)
      BY <1>2, CutKeepsLines DEF Archived
    <3>4. /\ \A i \in 1..listed : Segments'[i] = Segments[i]
          /\ Segments'[listed + 1] = Archived(p)
      BY <1>2, <2>1 DEF Segments
    <3> HIDE DEF Segments
    <3> QED BY <1>2, <3>2, <3>3, <3>4, AppendIsFunction
  <2>6. Archived(p) \in Range(Segments')
    BY <1>2, <2>1 DEF Segments, Range
  <2>7. Active' = Active \ Range(Archived(p))
    BY <1>3, <2>1, <2>2 DEF Active, Safe
  <2>8. Working /\ Working' = Working
    BY <2>1 DEF Working
  <2>9. PICK seg : seg = Archived(p)
    OBVIOUS
  <2>10. seg \in C!Range(Segments')
    BY <2>6, <2>9 DEF C!Range, Range
  <2>11. C!Archive(seg)
    <3>1. Working /\ C!Range(seg) \subseteq accepted
      BY <2>3, <2>8, <2>9 DEF C!Range, Range
    <3>2. Segments' = Append(Segments, seg)
      BY <2>5, <2>9
    <3>3. Active' = Active \ C!Range(seg)
      BY <2>7, <2>9 DEF C!Range, Range
    <3>4. UNCHANGED <<accepted, dropped, exposed, Working>>
      BY <1>3, <2>8
    <3> QED BY <3>1, <3>2, <3>3, <3>4 DEF C!Archive, Active, Safe, Segments, Working
  <2>12. C!Next
    BY <2>10, <2>11 DEF C!Next, Segments
  <2> QED BY <2>4, <2>12 DEF ChronicleStep
<1>8. CASE ~WriteManifest(p)
  <2>1. listed' = listed /\ \A i \in 1..listed : files'[i] = files[i]
    <3>1. CASE UNCHANGED <<files, listed>>
      BY <3>1
    <3>2. CASE WriteSegment(p) \/ WriteSegmentFails(p)
      BY <1>2, <3>2, BoundsAssumption DEF WriteSegment, WriteSegmentFails
    <3> QED BY <1>1, <1>8, <3>1, <3>2 DEF PassTouches
  <2>2. Archive' = Archive /\ Segments' = Segments
    BY <2>1 DEF Archive, Segments
  <2>3. Active' = Active
    <3>1. CASE disk' = disk
      BY <1>3, <2>2, <3>1 DEF Active, Safe
    <3>2. CASE WriteActive(p)
      <4>1. disk' = Retained(p) /\ Holding(p) /\ pass[p].pc = "active"
        BY <3>2 DEF WriteActive, Holding
      <4>2. Range(pass[p].snap) = Range(Archived(p)) \cup Range(Retained(p))
        BY <1>2, CutKeepsLines DEF Archived, Retained
      <4>3. Range(Archived(p)) \subseteq Safe
        BY <4>1 DEF LossInv, ArchiveInOrder, Safe
      <4> QED BY <1>3, <2>2, <4>1, <4>2, <4>3
              DEF Active, Safe, LossInv, PassKnowsDisk, DiskHoldsSnap
    <3> QED BY <1>1, <3>1, <3>2 DEF PassTouches
  <2>4. AllRecorded'
    BY <1>3, <1>5, <1>6, <2>2 DEF AllRecorded
  <2> QED BY <1>3, <2>2, <2>3, <2>4, OthersOnlyWork
<1> QED BY <1>7, <1>8

(* The writers save a transcript or leave the files alone.                 *)
Writes ==
  \/ \E m : Persist(m) \/ PersistFails(m)
  \/ UNCHANGED <<disk, accepted, dropped, exposed>>

LEMMA WritersAreRecorded ==
  ASSUME TypeOK, TypeOK', LossInv, AllRecorded,
         \/ \E s \in Sessions : SessionStep(s)
         \/ EditMessage \/ DeleteMessage \/ InjectSystem \/ HeartbeatMessage
  PROVE  AllRecorded' /\ ChronicleStep
<1>1. UNCHANGED <<archiveVars, pass, up>> /\ up /\ Writes
  <2>1. ASSUME NEW s \in Sessions, SessionStep(s)
        PROVE  UNCHANGED <<archiveVars, pass, up>> /\ up /\ Writes
    <3>1. CASE StartTurn(s)
      BY <3>1 DEF StartTurn, EngineFree, Writes
    <3>2. CASE AppendReply(s) \/ PersistRegen(s)
      BY <3>2 DEF AppendReply, PersistRegen, EngineFree, Writes
    <3>3. CASE StartRegen(s) \/ BuildRequest(s) \/ GenerationEnds(s) \/ BeginPersist(s)
      BY <3>3 DEF StartRegen, BuildRequest, GenerationEnds, BeginPersist, EngineFree, Writes
    <3> QED BY <2>1, <3>1, <3>2, <3>3 DEF SessionStep, GenerationStep
  <2>2. ASSUME EditMessage \/ DeleteMessage \/ InjectSystem \/ HeartbeatMessage
        PROVE  UNCHANGED <<archiveVars, pass, up>> /\ up /\ Writes
    BY <2>2 DEF EditMessage, DeleteMessage, InjectSystem, HeartbeatMessage, EngineFree, Writes
  <2> QED BY <2>1, <2>2
<1>2. CASE UNCHANGED <<disk, accepted, dropped, exposed>>
  <2>1. Archive' = Archive /\ Segments' = Segments
    BY <1>1, SameArchive DEF Segments
  <2>2. AllRecorded' /\ Active' = Active
    BY <1>1, <1>2, <2>1 DEF AllRecorded, Active, Safe, Holding
  <2> QED BY <1>2, <2>1, <2>2, OthersOnlyWork
<1>3. ASSUME NEW m, Persist(m) \/ PersistFails(m)
      PROVE  AllRecorded' /\ ChronicleStep
  <2>1. m \in Seq(Line)
    BY <1>3 DEF Persist, PersistFails, TypeOK
  <2> QED BY <1>1, <1>3, <2>1, SaveIsRecorded DEF ChronicleStep, C!Next
<1> QED BY <1>1, <1>2, <1>3 DEF Writes

(* A crash, a restart and a save of the autonomy state.                    *)
LEMMA DaemonIsRecorded ==
  ASSUME TypeOK, LossInv, AllRecorded, SaveAutonomy \/ Crash \/ Restart
  PROVE  AllRecorded' /\ ChronicleStep
<1>1. UNCHANGED <<disk, files, listed, dropped, exposed>> /\ accepted' = accepted
  BY DEF SaveAutonomy, Crash, Restart, AllRecorded
<1>2. \A p \in Passes : Holding(p)' => Holding(p) /\ pass'[p] = pass[p]
  <2>1. CASE Crash
    BY <2>1 DEF Crash, Holding, NoPass
  <2>2. CASE SaveAutonomy \/ Restart
    BY <2>2 DEF SaveAutonomy, Restart, Holding
  <2> QED BY <2>1, <2>2
<1>3. Archive' = Archive /\ Segments' = Segments
  BY <1>1, SameArchive DEF Segments
<1>4. AllRecorded' /\ Active' = Active
  BY <1>1, <1>2, <1>3 DEF AllRecorded, Active, Safe
<1> QED BY <1>1, <1>3, <1>4, OthersOnlyWork

(* The files keep what Chronicle promises, for every number of sessions,   *)
(* passes, lines, failing writes and crashes.                              *)
THEOREM FollowsChronicle == Spec => ChronicleSpec
<1>1. Init => AllRecorded /\ C!Init
  <2> SUFFICES ASSUME Init PROVE AllRecorded /\ C!Init
    OBVIOUS
  <2>1. \A p \in Passes : ~Holding(p)
    BY DEF Init, NoPass, Holding
  <2>2. disk = <<>> /\ listed = 0 /\ accepted = {} /\ dropped = {} /\ exposed = {}
    BY DEF Init
  <2>3. Range(disk) = {} /\ Archive = {} /\ Segments = <<>>
    BY <2>2 DEF Range, Archive, Segments
  <2> QED BY <2>1, <2>2, <2>3 DEF AllRecorded, C!Init, Segments
<1>2. TypeOK /\ TypeOK' /\ SplitInRange /\ LossInv /\ AllRecorded /\ [Next]_vars
        => AllRecorded' /\ ChronicleStep
  <2> SUFFICES ASSUME TypeOK, TypeOK', SplitInRange, LossInv, AllRecorded, [Next]_vars
               PROVE  AllRecorded' /\ ChronicleStep
    OBVIOUS
  <2>1. CASE UNCHANGED vars
    <3>1. Archive' = Archive /\ Segments' = Segments
      BY <2>1, SameArchive DEF Segments
    <3>2. AllRecorded' /\ Active' = Active
      BY <2>1, <3>1 DEF AllRecorded, Active, Safe, Holding
    <3> QED BY <2>1, <3>1, <3>2, OthersOnlyWork
  <2>2. CASE Next
    BY <2>2, WritersAreRecorded, PassesAreRecorded, DaemonIsRecorded DEF Next
  <2> QED BY <2>1, <2>2
<1>3. ChronicleStep => [C!Next]_(C!vars)
  BY DEF ChronicleStep, C!vars, Active, Safe, Segments, Working
<1> QED BY <1>1, <1>2, <1>3, LossInvHolds, PTL DEF Spec, ChronicleSpec, C!Spec
-----------------------------------------------------------------------------
(* The engine lock and the compaction guard                                *)

(* The task of the session has lines of a reply to append.                 *)
Appending(s) == up /\ gen[s].pc = "append" /\ gen[s].todo # <<>>

(* A task holds the engine lock while it appends, and of the passes only   *)
(* the manual one does, for as long as it runs and with the guard.         *)
LocksOwned ==
  /\ \A s \in Sessions : lock = s => Appending(s)
  /\ \A p \in Passes : lock = p <=> p = "manual" /\ pass[p].pc # "off"
  /\ \A p \in Passes : guard = p => pass[p].pc \notin {"off", "asked", "read", "rebuild"}
  /\ lock = "manual" <=> guard = "manual"

(* Nothing leaks and nobody waits in a circle.  Who holds a lock has a step*)
(* left that frees it, and a pass that holds the guard and asks for the    *)
(* engine lock asks it of a task, which waits for nothing.                 *)
NoCircularWait ==
  /\ lock # Free => \/ \E s \in Sessions : lock = s /\ Appending(s)
                    \/ \E p \in Passes : lock = p /\ guard = p /\ pass[p].pc # "off"
  /\ \A p \in Passes :
       guard = p => /\ pass[p].pc # "off"
                    /\ \/ lock \in {Free, p}
                       \/ \E s \in Sessions : lock = s /\ Appending(s)

(* A queue of more than one line is not empty without its first.          *)
LEMMA LongTail ==
  ASSUME NEW S, NEW q \in Seq(S), Len(q) > 1 PROVE Tail(q) # <<>>
<1>1. Len(q) \in Nat /\ q # <<>>
  OBVIOUS
<1>2. Len(Tail(q)) = Len(q) - 1
  BY <1>1
<1>3. Len(<<>>) = 0 /\ Len(Tail(q)) # 0
  BY <1>1, <1>2
<1> QED BY <1>3

(* The tasks: one takes a free lock for the lines it has, and frees it with*)
(* the last of them or the first that cannot be saved.                     *)
LEMMA SessionsOwn ==
  ASSUME TypeOK, LocksOwned, NEW s \in Sessions, SessionStep(s)
  PROVE  LocksOwned'
<1>1. UNCHANGED <<guard, pass, up>> /\ up
  BY DEF SessionStep, GenerationStep, StartTurn, StartRegen, BuildRequest,
     GenerationEnds, BeginPersist, AppendReply, PersistRegen, EngineFree, autonomyVars
<1>2. s \notin Passes /\ Free \notin Sessions \cup Passes /\ s # "manual"
  BY SessionsAssumption, PassesAssumption DEF PassKinds, Free
<1>3. gen \in [Sessions -> GenTask]
  BY DEF TypeOK
<1>4. CASE lock' = Free /\ (lock = Free \/ lock = s)
  BY <1>1, <1>2, <1>4, SessionsAssumption, PassesAssumption
  DEF LocksOwned, PassKinds, Free
<1>5. CASE lock' = lock /\ lock # s /\ \A t \in Sessions \ {s} : gen'[t] = gen[t]
  BY <1>1, <1>5 DEF LocksOwned, Appending
<1>6. CASE lock' = s /\ lock \in {Free, s} /\ Appending(s)'
  BY <1>1, <1>2, <1>6, SessionsAssumption, PassesAssumption
  DEF LocksOwned, PassKinds, Free
<1>7. CASE StartTurn(s) \/ StartRegen(s) \/ BuildRequest(s) \/ PersistRegen(s)
  <2>1. lock = Free /\ lock' = Free
    BY <1>7 DEF StartTurn, StartRegen, BuildRequest, PersistRegen, EngineFree
  <2> QED BY <1>4, <2>1
<1>8. CASE GenerationEnds(s)
  <2>1. lock' = lock /\ gen' = [gen EXCEPT ![s] = NoGen] /\ gen[s].pc # "append"
    BY <1>8 DEF GenerationEnds
  <2>2. lock # s
    BY <2>1 DEF LocksOwned, Appending
  <2> QED BY <1>3, <1>5, <2>1, <2>2
<1>9. CASE BeginPersist(s)
  <2>1. PICK n \in 0..MaxReplyLines :
          /\ EngineFree
          /\ IF n = 0
             THEN UNCHANGED lock
             ELSE /\ gen' = [gen EXCEPT ![s].pc = "append",
                                        ![s].todo = GeneratedLines(n)]
                  /\ lock' = s
    BY <1>9 DEF BeginPersist
  <2>2. CASE n = 0
    BY <1>4, <2>1, <2>2 DEF EngineFree
  <2>3. CASE n # 0
    <3>1. GeneratedLines(n) # <<>>
      <4>1. Len(GeneratedLines(n)) = n
        BY GeneratedLinesType, BoundsAssumption
      <4> QED BY <2>3, <4>1
    <3>2. gen'[s].pc = "append" /\ gen'[s].todo = GeneratedLines(n)
      BY <1>3, <2>1, <2>3 DEF GenTask
    <3> QED BY <1>1, <1>6, <2>1, <2>3, <3>1, <3>2 DEF EngineFree, Appending
  <2> QED BY <2>2, <2>3
<1>10. CASE AppendReply(s)
  <2>1. lock = s /\ gen[s].todo # <<>>
    BY <1>10 DEF AppendReply
  <2>2. CASE lock' = Free
    BY <1>4, <2>1, <2>2
  <2>3. CASE lock' # Free
    <3>1. /\ Len(gen[s].todo) > 1 /\ lock' = lock
          /\ gen' = [gen EXCEPT ![s].todo = Tail(gen[s].todo)]
      BY <1>10, <2>3 DEF AppendReply
    <3>2. gen[s].todo \in Seq(Line) /\ gen[s].pc = "append"
      BY <1>3, <2>1 DEF GenTask, LocksOwned, Appending
    <3>3. Tail(gen[s].todo) # <<>>
      BY <3>1, <3>2, LongTail
    <3>4. gen'[s].pc = "append" /\ gen'[s].todo = Tail(gen[s].todo)
      BY <1>3, <3>1, <3>2 DEF GenTask
    <3> QED BY <1>1, <1>6, <2>1, <3>1, <3>3, <3>4 DEF Appending
  <2> QED BY <2>2, <2>3
<1> QED BY <1>7, <1>8, <1>9, <1>10 DEF SessionStep, GenerationStep

(* What a step of a pass does to the two locks: it takes what is free,     *)
(* gives back all it holds with its end, moves on or hands the guard back. *)
LockMove(p) ==
  /\ UNCHANGED <<gen, up>>
  /\ \A q \in Passes \ {p} : pass'[q] = pass[q]
  /\ \/ /\ p = "manual" /\ lock = Free /\ guard = Free
        /\ lock' = p /\ guard' = p /\ pass'[p].pc = "loop"
     \/ /\ p # "manual" /\ guard = Free /\ guard' = p /\ lock' = lock
        /\ pass'[p].pc \in {"loop", "segment"}
     \/ EndPass(p)
     \/ /\ p # "manual" /\ pass[p].pc \in {"off", "asked", "read"} /\ UNCHANGED <<lock, guard>>
     \/ /\ pass[p].pc \notin {"off", "asked", "read", "rebuild"} /\ UNCHANGED <<lock, guard>>
        /\ pass'[p].pc \notin {"off", "asked", "read", "rebuild"}
     \/ /\ p # "manual" /\ guard = p /\ guard' = Free /\ lock' = lock

LEMMA PassesLock ==
  ASSUME TypeOK, LossInv, LocksOwned, NEW p \in Passes, PassStep(p)
  PROVE  LockMove(p)
<1>1. /\ pass \in [Passes -> CompactionPass] /\ p \in PassKinds
      /\ Free \notin Passes
  BY PassesAssumption DEF TypeOK, PassKinds, Free
<1>2. "manual" \in Passes /\ pass["manual"].pc # "off" => guard = "manual" /\ lock = "manual"
  BY DEF LocksOwned
<1>3. "manual" \in Passes => pass["manual"].pc \notin {"asked", "read", "rebuild"}
  BY <1>2 DEF LocksOwned
<1>4. CASE BeginManual /\ p = "manual"
  BY <1>1, <1>4 DEF BeginManual, EnterLoop, EngineFree, LockMove, PassUnchanged
<1>5. CASE BeginBackground(p)
  BY <1>1, <1>5 DEF BeginBackground, EnterLoop, LockMove, PassUnchanged
<1>6. CASE AskPass(p) \/ BeginOnEmpty(p)
  BY <1>1, <1>6 DEF AskPass, BeginOnEmpty, LockMove, PassUnchanged
<1>7. CASE p = "tick" /\ (ReadDeepIdle \/ ReadForRebuild)
  BY <1>1, <1>7 DEF ReadDeepIdle, ReadForRebuild, LockMove, PassUnchanged
<1>8. CASE BeginPure(p)
  <2>1. p # "manual" /\ UNCHANGED <<gen, up, lock>> /\ pass[p].pc = "read"
    BY <1>3, <1>8 DEF BeginPure, PassUnchanged
  <2>2. CASE guard = Free /\ guard' = p /\ pass' = [pass EXCEPT ![p].pc = "segment"]
    BY <1>1, <2>1, <2>2 DEF LockMove, CompactionPass
  <2>3. CASE UNCHANGED guard /\ pass' = [pass EXCEPT ![p] = NoPass]
    BY <1>1, <2>1, <2>3 DEF LockMove
  <2> QED BY <1>8, <2>2, <2>3 DEF BeginPure
<1>9. ASSUME EndPass(p), UNCHANGED <<gen, up>> PROVE LockMove(p)
  BY <1>1, <1>9 DEF EndPass, LockMove
<1>10. ASSUME UNCHANGED <<gen, up, lock>>, guard = p, guard' = Free, p # "manual",
              NEW r, pass' = [pass EXCEPT ![p] = r]
       PROVE  LockMove(p)
  BY <1>1, <1>10 DEF LockMove
<1>11. pass[p] \in CompactionPass
  BY <1>1
<1>12. CASE ToolWrite(p)
  <2>1. /\ UNCHANGED <<gen, up, lock, guard>> /\ pass[p].pc = "loop"
        /\ pass' = [pass EXCEPT ![p].wrote = TRUE]
    BY <1>12 DEF ToolWrite, PassUnchanged
  <2> QED BY <1>1, <1>11, <2>1 DEF LockMove, CompactionPass
<1>13. CASE LoopArchives(p)
  <2>1. /\ UNCHANGED <<gen, up, lock, guard>> /\ pass[p].pc = "loop"
        /\ pass' = [pass EXCEPT ![p].pc = "segment"]
    BY <1>13 DEF LoopArchives, PassUnchanged
  <2> QED BY <1>1, <1>11, <2>1 DEF LockMove, CompactionPass
<1>14. CASE LoopWithoutWrites(p)
  <2>1. pass[p].pc = "loop" /\ UNCHANGED <<gen, up>>
    BY <1>14 DEF LoopWithoutWrites, PassUnchanged
  <2>2. CASE p = "manual"
    BY <1>9, <1>14, <2>1, <2>2 DEF LoopWithoutWrites
  <2>3. CASE p # "manual"
    <3>1. guard = p
      BY <2>1 DEF LossInv, GuardHeld, Owning
    <3>2. /\ pass' = [pass EXCEPT ![p] = [NoPass EXCEPT !.pc = "reload"]]
          /\ guard' = Free /\ UNCHANGED lock
      BY <1>14, <2>3 DEF LoopWithoutWrites
    <3> QED BY <1>10, <2>1, <2>3, <3>1, <3>2
  <2> QED BY <2>2, <2>3
<1>15. CASE PassRefused(p) \/ LoopFails(p) \/ Rollback(p)
  BY <1>9, <1>15 DEF PassRefused, LoopFails, Rollback, PassUnchanged
<1>16. CASE WriteSegment(p) \/ WriteSegmentFails(p)
  <2>1. pass[p].pc = "segment" /\ UNCHANGED <<gen, up, lock, guard>>
    BY <1>16 DEF WriteSegment, WriteSegmentFails, PassUnchanged
  <2>2. CASE pass' = [pass EXCEPT ![p].pc = "manifest", ![p].index = listed + 1]
    BY <1>1, <1>11, <2>1, <2>2 DEF LockMove, CompactionPass
  <2>3. CASE pass' = [pass EXCEPT ![p].pc = "active"]
    BY <1>1, <1>11, <2>1, <2>3 DEF LockMove, CompactionPass
  <2>4. CASE pass' = [pass EXCEPT ![p].pc = "rollback"]
    BY <1>1, <1>11, <2>1, <2>4 DEF LockMove, CompactionPass
  <2> QED BY <1>16, <2>2, <2>3, <2>4 DEF WriteSegment, WriteSegmentFails
<1>17. CASE WriteManifest(p)
  <2>1. /\ pass[p].pc = "manifest" /\ UNCHANGED <<gen, up, lock, guard>>
        /\ pass' = [pass EXCEPT ![p].pc = "active"]
    BY <1>17 DEF WriteManifest, PassUnchanged
  <2> QED BY <1>1, <1>11, <2>1 DEF LockMove, CompactionPass
<1>18. CASE WriteManifestFails(p) \/ WriteActiveFails(p)
  <2>1. /\ pass[p].pc \in {"manifest", "active"} /\ UNCHANGED <<gen, up, lock, guard>>
        /\ pass' = [pass EXCEPT ![p].pc = "rollback"]
    BY <1>18 DEF WriteManifestFails, WriteActiveFails, PassUnchanged
  <2> QED BY <1>1, <1>11, <2>1 DEF LockMove, CompactionPass
<1>19. CASE WriteActive(p)
  <2>1. /\ pass[p].pc = "active" /\ UNCHANGED <<gen, up, lock>>
        /\ pass' = [pass EXCEPT ![p].pc = "reload"]
        /\ guard' = IF p # "manual" /\ pass[p].mode = "llm" THEN Free ELSE guard
    BY <1>19 DEF WriteActive, PassUnchanged
  <2>2. guard = p
    BY <2>1 DEF LossInv, GuardHeld, Owning
  <2>3. CASE p # "manual" /\ pass[p].mode = "llm"
    BY <1>1, <2>1, <2>2, <2>3 DEF LockMove
  <2>4. CASE ~(p # "manual" /\ pass[p].mode = "llm")
    BY <1>1, <1>11, <2>1, <2>4 DEF LockMove, CompactionPass
  <2> QED BY <2>3, <2>4
<1>20. CASE Reload(p) \/ ReloadFails(p)
  <2>1. pass[p].pc = "reload" /\ UNCHANGED <<gen, up>>
    BY <1>20 DEF Reload, ReloadFails, PassUnchanged, engineVars
  <2>2. CASE EndPass(p)
    BY <1>9, <2>1, <2>2
  <2>3. CASE pass' = [pass EXCEPT ![p].pc = "notify"] /\ UNCHANGED <<lock, guard>>
    BY <1>1, <1>11, <2>1, <2>3 DEF LockMove, CompactionPass
  <2> QED BY <1>20, <2>2, <2>3 DEF Reload, ReloadFails
<1>21. CASE Notify(p) \/ CacheRebuilt(p)
  BY <1>9, <1>21 DEF Notify, CacheRebuilt
<1> QED BY <1>4, <1>5, <1>6, <1>7, <1>8, <1>12, <1>13, <1>14, <1>15, <1>16, <1>17,
           <1>18, <1>19, <1>20, <1>21
        DEF PassStep, BeginPass, StartAsked, EndLoop, ArchiveStep, FinishStep

(* Such a step keeps every lock owned.                                     *)
LEMMA MovesOwn ==
  ASSUME TypeOK, LocksOwned, NEW p \in Passes, LockMove(p)
  PROVE  LocksOwned'
<1>1. /\ pass \in [Passes -> CompactionPass] /\ Free # "manual"
      /\ Free \notin Sessions \cup Passes /\ p \notin Sessions /\ NoPass.pc = "off"
      /\ "manual" \notin Sessions
  BY SessionsAssumption, PassesAssumption DEF TypeOK, PassKinds, Free, NoPass
<1>2. UNCHANGED <<gen, up>> /\ \A q \in Passes \ {p} : pass'[q] = pass[q]
  BY DEF LockMove
<1>3. lock' # lock => lock' \notin Sessions
  BY <1>1 DEF LockMove, EndPass, Release
<1>4. \A s \in Sessions : lock' = s => Appending(s)'
  BY <1>2, <1>3 DEF LocksOwned, Appending
<1>5. CASE p = "manual" /\ lock = Free /\ guard = Free
           /\ lock' = p /\ guard' = p /\ pass'[p].pc = "loop"
  BY <1>1, <1>2, <1>4, <1>5 DEF LocksOwned
<1>6. CASE p # "manual" /\ guard = Free /\ guard' = p /\ lock' = lock
           /\ pass'[p].pc \in {"loop", "segment"}
  BY <1>1, <1>2, <1>4, <1>6 DEF LocksOwned
<1>7. CASE EndPass(p)
  <2>1. /\ pass'[p].pc = "off" /\ guard' = Release(guard, p) /\ lock' = Release(lock, p)
    BY <1>1, <1>7 DEF EndPass
  <2>2. CASE p = "manual"
    BY <1>1, <1>2, <1>4, <2>1, <2>2 DEF LocksOwned, Release
  <2>3. CASE p # "manual"
    <3>1. lock # p /\ lock' = lock
      BY <2>1, <2>3 DEF LocksOwned, Release
    <3> QED BY <1>1, <1>2, <1>4, <2>1, <2>3, <3>1 DEF LocksOwned, Release
  <2> QED BY <2>2, <2>3
<1>8. CASE p # "manual" /\ pass[p].pc \in {"off", "asked", "read"} /\ UNCHANGED <<lock, guard>>
  BY <1>1, <1>2, <1>4, <1>8 DEF LocksOwned
<1>9. CASE pass[p].pc \notin {"off", "asked", "read", "rebuild"} /\ UNCHANGED <<lock, guard>>
           /\ pass'[p].pc \notin {"off", "asked", "read", "rebuild"}
  BY <1>1, <1>2, <1>4, <1>9 DEF LocksOwned
<1>10. CASE p # "manual" /\ guard = p /\ guard' = Free /\ lock' = lock
  BY <1>1, <1>2, <1>4, <1>10 DEF LocksOwned
<1> QED BY <1>5, <1>6, <1>7, <1>8, <1>9, <1>10 DEF LockMove

LEMMA LocksStayOwned == Spec => [](TypeOK /\ LocksOwned)
<1>1. Init => LocksOwned
  BY SessionsAssumption, PassesAssumption
  DEF Init, LocksOwned, NoPass, PassKinds, Free
<1>2. TypeOK /\ LossInv /\ LocksOwned /\ [Next]_vars => LocksOwned'
  <2> SUFFICES ASSUME TypeOK, LossInv, LocksOwned, [Next]_vars PROVE LocksOwned'
    OBVIOUS
  <2>1. CASE UNCHANGED <<lock, guard, gen, pass, up>>
    BY <2>1 DEF LocksOwned, Appending
  <2>2. CASE \E s \in Sessions : SessionStep(s)
    BY <2>2, SessionsOwn
  <2>3. CASE \E p \in Passes : PassStep(p)
    BY <2>3, PassesLock, MovesOwn
  <2>4. CASE EditMessage \/ DeleteMessage \/ InjectSystem \/ HeartbeatMessage \/ SaveAutonomy
    BY <2>1, <2>4
    DEF EditMessage, DeleteMessage, InjectSystem, HeartbeatMessage, SaveAutonomy
  <2>5. CASE Crash
    BY <2>5, SessionsAssumption, PassesAssumption
    DEF Crash, LocksOwned, NoPass, PassKinds, Free
  <2>6. CASE Restart
    BY <2>6 DEF Restart, LocksOwned, Appending
  <2>7. CASE UNCHANGED vars
    BY <2>1, <2>7 DEF vars
  <2> QED BY <2>2, <2>3, <2>4, <2>5, <2>6, <2>7 DEF Next
<1> QED BY <1>1, <1>2, LossInvHolds, PTL DEF Spec

(* NoCircularWait, for every number of sessions and passes: the safety half*)
(* of PassesEnd.  The manual pass takes the engine lock before the guard,  *)
(* the others the guard before the lock.                                   *)
THEOREM LocksNeverCross == Spec => []NoCircularWait
<1>1. TypeOK /\ LocksOwned => NoCircularWait
  BY DEF TypeOK, LocksOwned, NoCircularWait
<1> QED BY <1>1, LocksStayOwned, PTL
=============================================================================
