---------------------------- MODULE CallsProofs ----------------------------
(***************************************************************************)
(* Proofs about Calls, for any callers, keys, limits and costs.            *)
(***************************************************************************)
EXTENDS Calls, FiniteSetTheorems, TLAPS

-----------------------------------------------------------------------------
(* Types, and the bounds of retries and tool rounds                        *)

(* A caller pauses only with a retry left, and runs tools only with a      *)
(* round left.                                                             *)
Bounded ==
  \A c \in Callers :
    /\ at[c] = "backoff" => try[c] < Retries
    /\ at[c] = "tools" => turn[c] < MaxTurns

Typed == TypeOK /\ Bounded

LEMMA TypedInit == Init => Typed
  BY NumbersAssumption DEF Init, Typed, Bounded, TypeOK, Paying, Open

LEMMA ChargeType ==
  ASSUME TypeOK, NEW c \in Callers, NEW cost \in 0..MaxCost, Charge(c, cost)
  PROVE  spent' \in Nat /\ gatedSpent' \in Nat
  BY NumbersAssumption DEF Charge, TypeOK

LEMMA RowType ==
  ASSUME TypeOK, NEW c \in Callers, NEW cost \in 0..MaxCost, Row(c, cost)
  PROVE  spent' \in Nat /\ gatedSpent' \in Nat /\ owed' \in [Callers -> Int]
  BY ChargeType DEF Row, TypeOK

LEMMA FeedType ==
  ASSUME TypeOK, NEW c \in Callers, NEW frame \in {"start", "boundary", "end", "error"},
         Feed(c, frame)
  PROVE  reader' \in
           [Callers -> {"waiting", "inside", "between", "ended", "error", "broken", "left"}]
  BY DEF Feed, TypeOK, Closed

LEMMA TypedStep ==
  ASSUME Typed, NEW c \in Callers, Begin(c) \/ Proceed(c) \/ Abort(c)
  PROVE  Typed'
<1> USE NumbersAssumption DEF Typed, TypeOK, Bounded, Paying, Open, Go
<1>1. CASE Begin(c)
  BY <1>1 DEF Begin, ledgerVars
<1>2. CASE SkipKey(c) \/ Reject(c)
  BY <1>2 DEF SkipKey, Reject, Rotate, ledgerVars
<1>3. CASE Admit(c) \/ Refuse(c) \/ SaveFails(c)
  BY <1>3 DEF Admit, Refuse, SaveFails, walkVars, ledgerVars
<1>4. CASE Block(c) \/ Unreachable(c)
  BY <1>4 DEF Block, Unreachable, Retry, walkVars, ledgerVars
<1>5. CASE Again(c)
  BY <1>5 DEF Again, ledgerVars
<1>6. CASE Answer(c)
  <2>1. spent' \in Nat /\ gatedSpent' \in Nat
    BY <1>6, ChargeType DEF Answer
  <2> QED
    BY <1>6, <2>1 DEF Answer, walkVars
<1>7. CASE OpenStream(c)
  BY <1>7 DEF OpenStream, walkVars
<1>8. CASE Start(c) \/ Save(c) \/ GiveUp(c)
  <2>1. reader' \in
          [Callers -> {"waiting", "inside", "between", "ended", "error", "broken", "left"}]
    BY <1>8, FeedType DEF Start, Save, GiveUp
  <2> QED
    BY <1>8, <2>1 DEF Start, Save, GiveUp, walkVars, ledgerVars
<1>9. CASE Tear(c)
  <2>1. spent' \in Nat /\ gatedSpent' \in Nat /\ owed' \in [Callers -> Int]
    BY <1>9, RowType DEF Tear
  <2>2. torn' \in [Callers -> BOOLEAN]
    <3>1. (torn[c] \/ at[c] = "streaming") \in BOOLEAN
      OBVIOUS
    <3> QED
      BY <1>9, <3>1, Zenon DEF Tear
  <2> QED
    BY <1>9, <2>1, <2>2 DEF Tear, Retry, walkVars
<1>10. CASE Done(c)
  <2>1. spent' \in Nat /\ gatedSpent' \in Nat /\ owed' \in [Callers -> Int]
    BY <1>10, RowType DEF Done
  <2>2. reader' \in
          [Callers -> {"waiting", "inside", "between", "ended", "error", "broken", "left"}]
    BY <1>10, FeedType DEF Done
  <2> QED
    BY <1>10, <2>1, <2>2 DEF Done, walkVars
<1>11. CASE Continue(c)
  BY <1>11 DEF Continue, ledgerVars
<1>12. CASE Abort(c)
  <2>1. spent' \in Nat /\ gatedSpent' \in Nat /\ owed' \in [Callers -> Int]
    <3>1. CASE at[c] \in Open
      BY <1>12, <3>1, RowType DEF Abort
    <3>2. CASE at[c] \notin Open
      BY <1>12, <3>2 DEF Abort, ledgerVars
    <3> QED
      BY <3>1, <3>2
  <2> QED
    BY <1>12, <2>1 DEF Abort, walkVars, Closed
<1> QED
  BY <1>1, <1>2, <1>3, <1>4, <1>5, <1>6, <1>7, <1>8, <1>9, <1>10, <1>11, <1>12 DEF Proceed

LEMMA TypedNext == Typed /\ [Next]_vars => Typed'
<1>1. ASSUME Typed, UNCHANGED vars PROVE Typed'
  BY <1>1 DEF Typed, TypeOK, Bounded, vars, walkVars, ledgerVars
<1>2. ASSUME Typed, NewPeriod PROVE Typed'
  BY <1>2 DEF Typed, TypeOK, Bounded, NewPeriod, walkVars
<1> QED
  BY <1>1, <1>2, TypedStep DEF Next

(* TypeOK: types, and never more keys, retries or tool rounds than the     *)
(* configuration allows.                                                   *)
THEOREM TypesHold == Spec => []TypeOK
<1>1. Typed => TypeOK
  BY DEF Typed
<1> QED
  BY TypedInit, TypedNext, <1>1, PTL DEF Spec

-----------------------------------------------------------------------------
(* The ledger's rows                                                       *)

LEMMA RowsInit == Init => EveryStreamHasARow
  BY CallersAssumption DEF Init, EveryStreamHasARow, Open

(* Every way out of an open stream writes its row: the end, a failure and  *)
(* the drop of an aborted task.                                            *)
LEMMA RowsNext == EveryStreamHasARow /\ TypeOK /\ [Next]_vars => EveryStreamHasARow'
<1> SUFFICES ASSUME EveryStreamHasARow, TypeOK, [Next]_vars PROVE EveryStreamHasARow'
  OBVIOUS
<1> USE CallersAssumption DEF EveryStreamHasARow, Open
<1>1. CASE UNCHANGED vars \/ NewPeriod
  BY <1>1 DEF vars, NewPeriod, ledgerVars
<1>2. ASSUME NEW c \in Callers, Begin(c) \/ SkipKey(c) \/ Admit(c) \/ Block(c) \/ Reject(c)
             \/ Unreachable(c) \/ Refuse(c) \/ Again(c) \/ Start(c) \/ Continue(c) \/ Save(c)
             \/ SaveFails(c) \/ GiveUp(c) \/ Answer(c)
      PROVE  EveryStreamHasARow'
  <2>1. owed' = owed
    BY <1>2 DEF Begin, SkipKey, Admit, Block, Reject, Unreachable, Refuse, Again, Start,
                Continue, Save, SaveFails, GiveUp, Answer, ledgerVars
  <2>2. PICK p : at' = [at EXCEPT ![c] = p] /\ (p \in Open <=> at[c] \in Open)
    BY <1>2 DEF Begin, SkipKey, Admit, Block, Reject, Unreachable, Refuse, Again, Start,
                Continue, Save, SaveFails, GiveUp, Answer, Rotate, Retry, Go
  <2> QED
    BY <2>1, <2>2 DEF TypeOK
<1>3. ASSUME NEW c \in Callers, OpenStream(c) PROVE EveryStreamHasARow'
  BY <1>3 DEF OpenStream, Go, TypeOK
<1>4. ASSUME NEW c \in Callers, Tear(c) \/ Done(c) \/ (Abort(c) /\ at[c] \in Open)
      PROVE  EveryStreamHasARow'
  <2>1. owed' = [owed EXCEPT ![c] = @ - 1] /\ at[c] \in Open
    BY <1>4 DEF Tear, Done, Abort, Row
  <2>2. PICK p : at' = [at EXCEPT ![c] = p] /\ p \notin Open
    BY <1>4 DEF Tear, Done, Abort, Retry, Go
  <2> QED
    BY <2>1, <2>2 DEF TypeOK
<1>5. ASSUME NEW c \in Callers, Abort(c), at[c] \notin Open PROVE EveryStreamHasARow'
  BY <1>5 DEF Abort, ledgerVars, Go, TypeOK
<1> QED
  BY <1>1, <1>2, <1>3, <1>4, <1>5 DEF Next, Proceed

(* EveryStreamHasARow: exactly one row of every stream that was opened,    *)
(* whatever became of the stream or of the task that read it.              *)
THEOREM StreamsAreRecorded == Spec => []EveryStreamHasARow
<1>1. Typed => TypeOK
  BY DEF Typed
<1> QED
  BY TypedInit, TypedNext, RowsInit, RowsNext, <1>1, PTL DEF Spec

-----------------------------------------------------------------------------
(* The budget                                                              *)

(* Gated calls that were admitted and have not been paid for.              *)
InFlight == {c \in Gated : at[c] \in Paying}

(* The invariant reserves the greatest cost for each of them.              *)
Reserved ==
  /\ gatedSpent <= spent
  /\ gatedSpent + MaxCost * Cardinality(InFlight) < Limit + MaxCost * Cardinality(Gated)

LEMMA GatedFinite ==
  /\ IsFiniteSet(Gated) /\ Cardinality(Gated) \in Nat
  /\ \A S \in SUBSET Gated : /\ IsFiniteSet(S) /\ Cardinality(S) \in Nat
                             /\ Cardinality(S) <= Cardinality(Gated)
<1>1. IsFiniteSet(Gated)
  BY CallersAssumption, FS_Subset
<1>2. \A S \in SUBSET Gated : IsFiniteSet(S) /\ Cardinality(S) <= Cardinality(Gated)
  BY <1>1, FS_Subset
<1> QED
  BY <1>1, <1>2, FS_CardinalityType

LEMMA CostIsMonotone ==
  ASSUME NEW a \in Nat, NEW b \in Nat
  PROVE  /\ MaxCost * a \in Nat
         /\ a <= b => MaxCost * a <= MaxCost * b
         /\ a < b => MaxCost * a + MaxCost <= MaxCost * b
<1>1. MaxCost * (a + 1) = MaxCost * a + MaxCost
  BY NumbersAssumption
<1>2. ASSUME NEW x \in Nat, NEW y \in Nat, x <= y PROVE MaxCost * x <= MaxCost * y
  <2>1. PICK d \in Nat : y = x + d
    BY <1>2, y - x \in Nat
  <2>2. MaxCost * y = MaxCost * x + MaxCost * d
    BY <2>1, NumbersAssumption
  <2>3. MaxCost * d \in Nat /\ MaxCost * x \in Nat
    BY NumbersAssumption
  <2> QED
    BY <2>2, <2>3
<1>3. a < b => MaxCost * (a + 1) <= MaxCost * b
  BY <1>2
<1> QED
  BY <1>1, <1>2, <1>3, NumbersAssumption

LEMMA ReservedInit == Init => Reserved
<1> SUFFICES ASSUME Init PROVE Reserved
  OBVIOUS
<1>1. InFlight = {}
  BY CallersAssumption DEF Init, InFlight, Paying, Open
<1>2. Cardinality(InFlight) = 0
  BY <1>1, FS_EmptySet
<1> QED
  BY <1>2, GatedFinite, CostIsMonotone, NumbersAssumption DEF Init, Reserved

(* A step that spends nothing and admits nobody.                           *)
LEMMA ReservedIdle ==
  ASSUME Reserved, TypeOK, InFlight' \subseteq InFlight, UNCHANGED <<spent, gatedSpent>>
  PROVE  Reserved'
<1>1. InFlight \subseteq Gated /\ IsFiniteSet(InFlight)
  BY GatedFinite DEF InFlight
<1>2. /\ Cardinality(InFlight') <= Cardinality(InFlight)
      /\ Cardinality(InFlight') \in Nat /\ Cardinality(InFlight) \in Nat
  BY <1>1, FS_Subset, FS_CardinalityType
<1>3. /\ MaxCost * Cardinality(InFlight') <= MaxCost * Cardinality(InFlight)
      /\ MaxCost * Cardinality(InFlight') \in Nat /\ MaxCost * Cardinality(InFlight) \in Nat
      /\ MaxCost * Cardinality(Gated) \in Nat
  BY <1>2, GatedFinite, CostIsMonotone
<1> QED
  BY <1>3, NumbersAssumption DEF Reserved, TypeOK

(* A step after which less than the limit is spent.                        *)
LEMMA ReservedBelow ==
  ASSUME gatedSpent' <= spent', gatedSpent' \in Nat, gatedSpent' < Limit
  PROVE  Reserved'
<1>1. InFlight' \in SUBSET Gated
  BY DEF InFlight
<1>2. MaxCost * Cardinality(InFlight') <= MaxCost * Cardinality(Gated)
  BY <1>1, GatedFinite, CostIsMonotone
<1>3. MaxCost * Cardinality(InFlight') \in Nat /\ MaxCost * Cardinality(Gated) \in Nat
  BY <1>1, GatedFinite, CostIsMonotone
<1> QED
  BY <1>2, <1>3, NumbersAssumption DEF Reserved

(* A call is paid for and leaves the ones in flight.                       *)
LEMMA ReservedCharge ==
  ASSUME Reserved, TypeOK, NEW c \in Callers, NEW cost \in 0..MaxCost, Charge(c, cost),
         at[c] \in Paying, NEW p, p \notin Paying, at' = [at EXCEPT ![c] = p]
  PROVE  Reserved'
<1>1. CASE c \in Gated
  <2>1. c \in InFlight /\ InFlight' = InFlight \ {c}
    BY <1>1 DEF InFlight, TypeOK
  <2>2. IsFiniteSet(InFlight) /\ InFlight' \in SUBSET Gated /\ InFlight \in SUBSET Gated
    BY GatedFinite DEF InFlight
  <2>3. Cardinality(InFlight') = Cardinality(InFlight) - 1
    BY <2>1, <2>2, FS_RemoveElement
  <2>4. /\ Cardinality(InFlight') \in Nat /\ Cardinality(InFlight) \in Nat
        /\ Cardinality(InFlight') < Cardinality(InFlight)
    BY <2>2, <2>3, GatedFinite
  <2>5. MaxCost * Cardinality(InFlight') + MaxCost <= MaxCost * Cardinality(InFlight)
    BY <2>4, CostIsMonotone
  <2>6. /\ MaxCost * Cardinality(InFlight') \in Nat /\ MaxCost * Cardinality(InFlight) \in Nat
        /\ MaxCost * Cardinality(Gated) \in Nat
    BY <2>4, GatedFinite, CostIsMonotone
  <2>7. spent' = spent + cost /\ gatedSpent' = gatedSpent + cost
    BY <1>1 DEF Charge
  <2> QED
    BY <2>5, <2>6, <2>7, NumbersAssumption DEF Reserved, TypeOK
<1>2. CASE c \notin Gated
  <2>1. InFlight' = InFlight
    BY <1>2 DEF InFlight, TypeOK
  <2>2. spent' = spent + cost /\ gatedSpent' = gatedSpent
    BY <1>2 DEF Charge
  <2> QED
    BY <2>1, <2>2, NumbersAssumption DEF Reserved, TypeOK
<1> QED
  BY <1>1, <1>2

LEMMA ReservedNext == Reserved /\ TypeOK /\ [Next]_vars => Reserved'
<1> SUFFICES ASSUME Reserved, TypeOK, [Next]_vars PROVE Reserved'
  OBVIOUS
<1>1. CASE UNCHANGED vars
  <2>1. InFlight' = InFlight /\ UNCHANGED <<spent, gatedSpent>>
    BY <1>1 DEF vars, ledgerVars, InFlight
  <2> QED
    BY <2>1, ReservedIdle
<1>2. CASE NewPeriod
  BY <1>2, ReservedBelow, NumbersAssumption DEF NewPeriod
<1>3. ASSUME NEW c \in Callers, Admit(c) PROVE Reserved'
  <2>1. UNCHANGED <<spent, gatedSpent>> /\ at' = [at EXCEPT ![c] = "admitted"]
    BY <1>3 DEF Admit, Go, ledgerVars
  <2>2. CASE c \in Gated
    <3>1. spent < Limit /\ gatedSpent <= spent /\ gatedSpent \in Nat
      BY <1>3, <2>2, NumbersAssumption DEF Admit, OverLimit, Reserved, TypeOK
    <3> QED
      BY <2>1, <3>1, ReservedBelow, NumbersAssumption DEF TypeOK
  <2>3. CASE c \notin Gated
    <3>1. InFlight' = InFlight
      BY <2>1, <2>3 DEF InFlight, TypeOK
    <3> QED
      BY <2>1, <3>1, ReservedIdle
  <2> QED
    BY <2>2, <2>3
<1>4. ASSUME NEW c \in Callers, Answer(c) \/ Tear(c) \/ Done(c) \/ (Abort(c) /\ at[c] \in Open)
      PROVE  Reserved'
  <2>1. at[c] \in Paying
    BY <1>4 DEF Answer, Tear, Done, Paying, Open
  <2>2. PICK cost \in 0..MaxCost : Charge(c, cost)
    BY <1>4, NumbersAssumption DEF Answer, Tear, Done, Abort, Row
  <2>3. PICK p : p \notin Paying /\ at' = [at EXCEPT ![c] = p]
    BY <1>4 DEF Answer, Tear, Done, Abort, Retry, Go, Paying, Open
  <2> QED
    BY <2>1, <2>2, <2>3, ReservedCharge
<1>5. ASSUME NEW c \in Callers, Begin(c) \/ SkipKey(c) \/ Block(c) \/ Reject(c)
             \/ Unreachable(c) \/ Refuse(c) \/ Again(c) \/ OpenStream(c) \/ Start(c)
             \/ Continue(c) \/ Save(c) \/ SaveFails(c) \/ GiveUp(c)
             \/ (Abort(c) /\ at[c] \notin Open)
      PROVE  Reserved'
  <2>1. UNCHANGED <<spent, gatedSpent>>
    BY <1>5 DEF Begin, SkipKey, Block, Reject, Unreachable, Refuse, Again, OpenStream, Start,
                Continue, Save, SaveFails, GiveUp, Abort, ledgerVars
  <2>2. PICK p : at' = [at EXCEPT ![c] = p] /\ (p \in Paying => at[c] \in Paying)
    BY <1>5 DEF Begin, SkipKey, Block, Reject, Unreachable, Refuse, Again, OpenStream, Start,
                Continue, Save, SaveFails, GiveUp, Abort, Rotate, Retry, Go, Paying, Open
  <2>3. InFlight' \subseteq InFlight
    BY <2>2 DEF InFlight, TypeOK
  <2> QED
    BY <2>1, <2>3, ReservedIdle
<1> QED
  BY <1>1, <1>2, <1>3, <1>4, <1>5 DEF Next, Proceed

(* SpendBounded: within a period the gated callers exceed the limit by     *)
(* less than the cost of one call each, although the check of the budget   *)
(* and the row of the call it admits are far apart.                        *)
THEOREM SpendIsBounded == Spec => []SpendBounded
<1>1. Reserved /\ TypeOK => SpendBounded
  <2> SUFFICES ASSUME Reserved, TypeOK PROVE SpendBounded
    OBVIOUS
  <2>1. InFlight \in SUBSET Gated
    BY DEF InFlight
  <2>2. MaxCost * Cardinality(InFlight) \in Nat /\ MaxCost * Cardinality(Gated) \in Nat
    BY <2>1, GatedFinite, CostIsMonotone
  <2> QED
    BY <2>2, NumbersAssumption DEF Reserved, SpendBounded, TypeOK
<1>2. Typed => TypeOK
  BY DEF Typed
<1> QED
  BY TypedInit, TypedNext, ReservedInit, ReservedNext, <1>1, <1>2, PTL DEF Spec

-----------------------------------------------------------------------------
(* What the client reads                                                   *)

(* Where the reader of a generation stands when none of its streams failed *)
(* after the start: inside one exactly from the start of a stream to its   *)
(* end, and nowhere it would reject the next frame.                        *)
InStep ==
  \A c \in Chat : ~ torn[c] =>
    /\ at[c] \in {"asking", "admitted", "open", "backoff"} => reader[c] \in {"waiting", "between"}
    /\ at[c] \in {"streaming", "saving"} => reader[c] = "inside"
    /\ at[c] = "tools" => reader[c] = "between"
    /\ at[c] = "failed" => reader[c] \in {"waiting", "between", "inside"}
    /\ at[c] = "idle" => \/ reader[c] \in {"ended", "error", "left"}
                         \/ reader[c] = "waiting" /\ runs[c] = 0

LEMMA InStepInit == Init => InStep
  BY CallersAssumption DEF Init, InStep

LEMMA InStepNext == InStep /\ TypeOK /\ [Next]_vars => InStep'
<1> SUFFICES ASSUME InStep, TypeOK, [Next]_vars PROVE InStep'
  OBVIOUS
<1> USE CallersAssumption, NumbersAssumption DEF InStep, TypeOK, Go, Open, Paying, Closed
<1>1. CASE UNCHANGED vars \/ NewPeriod
  BY <1>1 DEF vars, NewPeriod
<1>2. ASSUME NEW c \in Callers, Begin(c) PROVE InStep'
  BY <1>2 DEF Begin
<1>3. ASSUME NEW c \in Callers, SkipKey(c) \/ Reject(c) PROVE InStep'
  BY <1>3 DEF SkipKey, Reject, Rotate
<1>4. ASSUME NEW c \in Callers, Admit(c) \/ Refuse(c) \/ Again(c) \/ SaveFails(c) PROVE InStep'
  BY <1>4 DEF Admit, Refuse, Again, SaveFails
<1>5. ASSUME NEW c \in Callers, Block(c) \/ Unreachable(c) PROVE InStep'
  BY <1>5 DEF Block, Unreachable, Retry
<1>6. ASSUME NEW c \in Callers, Answer(c) \/ OpenStream(c) PROVE InStep'
  BY <1>6 DEF Answer, OpenStream
<1>7. ASSUME NEW c \in Callers, Start(c) \/ Save(c) PROVE InStep'
  BY <1>7 DEF Start, Save, Feed
<1>8. ASSUME NEW c \in Callers, Tear(c) PROVE InStep'
  <2>1. /\ at[c] \in Open /\ UNCHANGED <<runs, reader>>
        /\ torn' = [torn EXCEPT ![c] = torn[c] \/ at[c] = "streaming"]
        /\ \E next \in {"backoff", "failed"} : at' = [at EXCEPT ![c] = next]
    BY <1>8 DEF Tear, Retry
  <2> QED BY <2>1
<1>9. ASSUME NEW c \in Callers, Done(c) PROVE InStep'
  BY <1>9 DEF Done, Feed
<1>10. ASSUME NEW c \in Callers, Continue(c) PROVE InStep'
  BY <1>10 DEF Continue
<1>11. ASSUME NEW c \in Callers, GiveUp(c) PROVE InStep'
  BY <1>11 DEF GiveUp, Feed
<1>12. ASSUME NEW c \in Callers, Abort(c) PROVE InStep'
  BY <1>12 DEF Abort
<1> QED
  BY <1>1, <1>2, <1>3, <1>4, <1>5, <1>6, <1>7, <1>8, <1>9, <1>10, <1>11, <1>12
     DEF Next, Proceed

(* CleanStreamsFollowed: without a stream that failed half-way, the        *)
(* repository's reader accepts every frame of a generation and gets its    *)
(* end or an error.                                                        *)
THEOREM CleanStreamsAreFollowed == Spec => []CleanStreamsFollowed
<1>1. InStep /\ TypeOK => CleanStreamsFollowed
  BY CallersAssumption DEF InStep, TypeOK, CleanStreamsFollowed, Paying, Open
<1>2. Typed => TypeOK
  BY DEF Typed
<1> QED
  BY TypedInit, TypedNext, InStepInit, InStepNext, <1>1, <1>2, PTL DEF Spec
=============================================================================
