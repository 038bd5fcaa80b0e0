------------------------------- MODULE Calls -------------------------------
(***************************************************************************)
(* The calls to a model: admission by the usage budgets, the keys of the   *)
(* provider tried in order, retries with backoff, the tool loop, and the   *)
(* ledger's rows.  Generations stream their answer; background callers     *)
(* (keepalive, compaction, memory queries) ask once and get all of it.     *)
(* The client of a generation reads with the repository's own              *)
(* collect_stream.  Costs are the ones the provider reports.               *)
(***************************************************************************)
EXTENDS Integers, FiniteSets

CONSTANTS
  Callers,      \* those that call the model
  Chat,         \* the ones that stream a generation
  Gated,        \* the ones whose calls an exceeded budget stops
  Keys,         \* number of enabled keys of the provider
  Missing,      \* keys whose environment variable is empty
  Retries,      \* max_retries
  MaxTurns,     \* max_tool_iterations
  Limit,        \* the budget's cost_usd
  MaxCost,      \* bound: the cost of one call
  MaxRuns       \* bound: what a caller is asked to do, times

ASSUME CallersAssumption ==
  /\ IsFiniteSet(Callers) /\ Chat \subseteq Callers /\ Gated \subseteq Callers
ASSUME NumbersAssumption ==
  /\ Keys \in Nat \ {0} /\ Missing \subseteq 1..Keys
  /\ Retries \in Nat /\ MaxTurns \in Nat
  /\ Limit \in Nat \ {0} /\ MaxCost \in Nat /\ MaxRuns \in Nat

VARIABLES
  at,           \* where each caller is
  key,          \* the key it uses
  try,          \* `attempt`
  turn,         \* `iteration` of the tool loop
  runs,         \* times it started
  spent,        \* cost of the rows in the budget's period
  gatedSpent,   \* that of gated callers
  owed,         \* history: streams opened less rows written
  reader,       \* the client's StreamHandler
  torn          \* history: a stream of the generation failed after its start

walkVars == <<key, try, turn>>
ledgerVars == <<spent, gatedSpent, owed>>
vars == <<at, walkVars, runs, ledgerVars, reader, torn>>

Open == {"open", "streaming"}
Paying == Open \cup {"admitted"}

(* Types, and never more keys, retries or turns than allowed.              *)
TypeOK ==
  /\ at \in [Callers -> Paying \cup {"idle", "asking", "backoff", "tools", "saving", "failed"}]
  /\ key \in [Callers -> 1..Keys] /\ try \in [Callers -> 0..Retries]
  /\ turn \in [Callers -> 0..MaxTurns] /\ runs \in [Callers -> 0..MaxRuns]
  /\ spent \in Nat /\ gatedSpent \in Nat
  /\ owed \in [Callers -> Int]
  /\ reader \in [Callers -> {"waiting", "inside", "between", "ended", "error", "broken", "left"}]
  /\ torn \in [Callers -> BOOLEAN]

Init ==
  /\ at = [c \in Callers |-> "idle"] /\ key = [c \in Callers |-> 1]
  /\ try = [c \in Callers |-> 0] /\ turn = [c \in Callers |-> 0]
  /\ runs = [c \in Callers |-> 0] /\ spent = 0 /\ gatedSpent = 0
  /\ owed = [c \in Callers |-> 0]
  /\ reader = [c \in Callers |-> "waiting"] /\ torn = [c \in Callers |-> FALSE]

-----------------------------------------------------------------------------
Go(c, place) == at' = [at EXCEPT ![c] = place]

(* record_call: a row with the cost that is known.                         *)
Charge(c, cost) ==
  /\ spent' = spent + cost
  /\ gatedSpent' = IF c \in Gated THEN gatedSpent + cost ELSE gatedSpent

(* LedgerStream::record                                                    *)
Row(c, cost) == Charge(c, cost) /\ owed' = [owed EXCEPT ![c] = @ - 1]

(* StreamHandler::feed with a stream_start, a stream_end or an error of    *)
(* the request.  A reader that failed or has its answer stopped reading.   *)
Closed == {"ended", "error", "broken"}
Feed(c, frame) ==
  reader' = [reader EXCEPT ![c] =
    IF @ \in Closed THEN @
    ELSE CASE frame = "start" -> IF @ = "inside" THEN "broken" ELSE "inside"
           [] frame = "boundary" -> IF @ = "inside" THEN "between" ELSE "broken"
           [] frame = "end" -> IF @ = "inside" THEN "ended" ELSE "broken"
           [] frame = "error" -> "error"]

(* Mutant of Retry: one attempt more.                                      *)
RetryOneMore(c) ==
  Go(c, IF c \in Chat /\ try[c] <= Retries THEN "backoff" ELSE "failed")

(* A transient failure: the same key again after a pause, or the end.      *)
Retry(c) ==
  Go(c, IF c \in Chat /\ try[c] < Retries THEN "backoff" ELSE "failed")

(* A failure of the credential: the next key with retries of its own, or   *)
(* the end.  A continuation of the tool loop keeps its key.                *)
Rotate(c) ==
  IF turn[c] = 0 /\ key[c] < Keys
    THEN /\ key' = [key EXCEPT ![c] = @ + 1] /\ try' = [try EXCEPT ![c] = 0]
         /\ Go(c, "asking")
    ELSE Go(c, "failed") /\ UNCHANGED <<key, try>>

-----------------------------------------------------------------------------
(* A generation or a background call begins, with the first key.           *)
Begin(c) ==
  /\ at[c] = "idle" /\ runs[c] < MaxRuns
  /\ Go(c, "asking")
  /\ key' = [key EXCEPT ![c] = 1] /\ try' = [try EXCEPT ![c] = 0]
  /\ turn' = [turn EXCEPT ![c] = 0] /\ runs' = [runs EXCEPT ![c] = @ + 1]
  /\ reader' = [reader EXCEPT ![c] = "waiting"] /\ torn' = [torn EXCEPT ![c] = FALSE]
  /\ UNCHANGED <<ledgerVars>>

SkipKey(c) ==
  /\ at[c] = "asking" /\ key[c] \in Missing
  /\ Rotate(c)
  /\ UNCHANGED <<turn, runs, ledgerVars, reader, torn>>

OverLimit == spent >= Limit

(* Mutant of Admit: the continuations of the tool loop are not checked.    *)
AdmitFirst(c) ==
  /\ at[c] = "asking" /\ key[c] \notin Missing
  /\ ~ (OverLimit /\ c \in Gated /\ turn[c] = 0)
  /\ Go(c, "admitted")
  /\ UNCHANGED <<walkVars, runs, ledgerVars, reader, torn>>

(* enforce_usage_budget.  The price and the provider are asked after it.   *)
Admit(c) ==
  /\ at[c] = "asking" /\ key[c] \notin Missing
  /\ ~ (OverLimit /\ c \in Gated)
  /\ Go(c, "admitted")
  /\ UNCHANGED <<walkVars, runs, ledgerVars, reader, torn>>

(* A BudgetBlock is a Provider error, and so is retried.                   *)
Block(c) ==
  /\ at[c] = "asking" /\ key[c] \notin Missing
  /\ OverLimit /\ c \in Gated
  /\ Retry(c)
  /\ UNCHANGED <<walkVars, runs, ledgerVars, reader, torn>>

(* The provider rejects the key (401, 402, 403, a quota, a budget).        *)
Reject(c) ==
  /\ at[c] = "admitted"
  /\ Rotate(c)
  /\ UNCHANGED <<turn, runs, ledgerVars, reader, torn>>

(* It cannot be reached, fails with 5xx, or is overloaded.                 *)
Unreachable(c) ==
  /\ at[c] = "admitted"
  /\ Retry(c)
  /\ UNCHANGED <<walkVars, runs, ledgerVars, reader, torn>>

(* It refuses the request itself.                                          *)
Refuse(c) ==
  /\ at[c] = "admitted"
  /\ Go(c, "failed")
  /\ UNCHANGED <<walkVars, runs, ledgerVars, reader, torn>>

(* Mutant of Again: the attempt is not counted.                            *)
AgainUncounted(c) ==
  /\ at[c] = "backoff"
  /\ Go(c, "asking")
  /\ UNCHANGED <<walkVars, runs, ledgerVars, reader, torn>>

(* The pause is over.                                                      *)
Again(c) ==
  /\ at[c] = "backoff"
  /\ try' = [try EXCEPT ![c] = @ + 1]
  /\ Go(c, "asking")
  /\ UNCHANGED <<key, turn, runs, ledgerVars, reader, torn>>

(* LedgerClient::generate: the whole answer at once, and its row.          *)
Answer(c) ==
  /\ at[c] = "admitted" /\ c \notin Chat
  /\ \E cost \in 0..MaxCost : Charge(c, cost)
  /\ Go(c, "idle")
  /\ UNCHANGED <<walkVars, runs, owed, reader, torn>>

(* LedgerClient::stream_raw returns a LedgerStream.                        *)
OpenStream(c) ==
  /\ at[c] = "admitted" /\ c \in Chat
  /\ owed' = [owed EXCEPT ![c] = @ + 1]
  /\ Go(c, "open")
  /\ UNCHANGED <<walkVars, runs, spent, gatedSpent, reader, torn>>

(* The model's start event; chunks follow it.                              *)
Start(c) ==
  /\ at[c] = "open"
  /\ Feed(c, "start")
  /\ Go(c, "streaming")
  /\ UNCHANGED <<walkVars, runs, ledgerVars, torn>>

(* The stream fails: cut off, with a provider's error that carries a cost, *)
(* or with an event that cannot be read, which is not retried.             *)
Tear(c) ==
  /\ at[c] \in Open
  /\ torn' = [torn EXCEPT ![c] = @ \/ at[c] = "streaming"]
  /\ \/ \E cost \in 0..MaxCost : Row(c, cost) /\ Retry(c)
     \/ Row(c, 0) /\ Go(c, "failed")
  /\ UNCHANGED <<walkVars, runs, reader>>

(* Mutant of Done: no stream_end before the tools run.                     *)
DoneWithoutBoundary(c) ==
  /\ at[c] = "streaming"
  /\ \E cost \in 0..MaxCost : Row(c, cost)
  /\ \/ turn[c] < MaxTurns /\ Go(c, "tools")
     \/ Go(c, "saving")
  /\ UNCHANGED <<walkVars, runs, reader, torn>>

(* The stream is done: another round of tools, or the answer.              *)
Done(c) ==
  /\ at[c] = "streaming"
  /\ \E cost \in 0..MaxCost : Row(c, cost)
  /\ \/ turn[c] < MaxTurns /\ Feed(c, "boundary") /\ Go(c, "tools")
     \/ Go(c, "saving") /\ UNCHANGED reader
  /\ UNCHANGED <<walkVars, runs, torn>>

(* The tools ran; the continuation has retries of its own.                 *)
Continue(c) ==
  /\ at[c] = "tools"
  /\ turn' = [turn EXCEPT ![c] = @ + 1] /\ try' = [try EXCEPT ![c] = 0]
  /\ Go(c, "asking")
  /\ UNCHANGED <<key, runs, ledgerVars, reader, torn>>

(* persist_and_notify, then the final stream_end.                          *)
Save(c) ==
  /\ at[c] = "saving"
  /\ Feed(c, "end")
  /\ Go(c, "idle")
  /\ UNCHANGED <<walkVars, runs, ledgerVars, torn>>

SaveFails(c) ==
  /\ at[c] = "saving"
  /\ Go(c, "failed")
  /\ UNCHANGED <<walkVars, runs, ledgerVars, reader, torn>>

(* The error goes to the client.                                           *)
GiveUp(c) ==
  /\ at[c] = "failed"
  /\ Feed(c, "error")
  /\ Go(c, "idle")
  /\ UNCHANGED <<walkVars, runs, ledgerVars, torn>>

(* Mutant of Abort: without Drop for LedgerStream.                         *)
AbortUnrecorded(c) ==
  /\ at[c] # "idle"
  /\ reader' = [reader EXCEPT ![c] = IF @ \in Closed THEN @ ELSE "left"]
  /\ Go(c, "idle")
  /\ UNCHANGED <<walkVars, runs, ledgerVars, torn>>

(* The task is aborted: a stream that is open records itself when dropped, *)
(* at no cost; a call that was not streamed leaves nothing.                *)
Abort(c) ==
  /\ at[c] # "idle"
  /\ IF at[c] \in Open THEN Row(c, 0) ELSE UNCHANGED ledgerVars
  /\ reader' = [reader EXCEPT ![c] = IF @ \in Closed THEN @ ELSE "left"]
  /\ Go(c, "idle")
  /\ UNCHANGED <<walkVars, runs, torn>>

(* The budget's period ends; only rows of the new one count.               *)
NewPeriod ==
  /\ spent > 0
  /\ spent' = 0 /\ gatedSpent' = 0
  /\ UNCHANGED <<at, walkVars, runs, owed, reader, torn>>

Proceed(c) ==
  \/ SkipKey(c) \/ Admit(c) \/ Block(c) \/ Reject(c) \/ Unreachable(c)
  \/ Refuse(c) \/ Again(c) \/ Answer(c) \/ OpenStream(c) \/ Start(c)
  \/ Tear(c) \/ Done(c) \/ Continue(c) \/ Save(c) \/ SaveFails(c) \/ GiveUp(c)

Next ==
  \/ \E c \in Callers : Begin(c) \/ Proceed(c) \/ Abort(c)
  \/ NewPeriod

Spec == Init /\ [][Next]_vars

(* The provider answers or the connection breaks, and tasks are scheduled. *)
FairSpec == Spec /\ \A c \in Callers : WF_vars(Proceed(c))

-----------------------------------------------------------------------------
(* The check of a budget and the row of the call it admits are far apart,  *)
(* and calls run side by side.  Gated callers exceed the limit by less     *)
(* than one call each.                                                     *)
SpendBounded == gatedSpent < Limit + MaxCost * Cardinality(Gated)

(* The ledger has exactly one row of every stream that was opened, whether *)
(* it ended, failed or was dropped by an abort.                            *)
EveryStreamHasARow ==
  \A c \in Chat : owed[c] = IF at[c] \in Open THEN 1 ELSE 0

(* Unless one of its streams failed half-way, a generation is a sequence   *)
(* that the repository's own reader accepts, across keys, retries and tool *)
(* rounds, and its end or an error reaches the reader.                     *)
CleanStreamsFollowed ==
  \A c \in Chat : ~ torn[c] =>
    /\ reader[c] # "broken"
    /\ at[c] = "idle" /\ runs[c] > 0 => reader[c] \in {"ended", "error", "left"}

(* Keys, retries and tool rounds are all bounded, so a caller that started *)
(* is done some time.                                                      *)
CallEnds == \A c \in Callers : at[c] # "idle" ~> at[c] = "idle"
=============================================================================
