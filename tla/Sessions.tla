------------------------------ MODULE Sessions ------------------------------
(***************************************************************************)
(* From a client's request to the end of its answer.  The server runs one  *)
(* loop per connection, which writes what the client is sent and passes    *)
(* each request on to the handler, doing nothing else while it waits for   *)
(* room.  One handler takes requests in order: it runs a command itself,   *)
(* starts a task for a message or regeneration, which supersedes the       *)
(* session's earlier one, and cancels.  A task sends through a forwarder   *)
(* of its own, to the session that asked and to the one that last wrote a  *)
(* message.  All channels are bounded and every send waits.  A session is  *)
(* one connection and never comes back.                                    *)
(***************************************************************************)
EXTENDS Naturals, Sequences, FiniteSets, SequencesExt

CONSTANTS
  MaxSessions,     \* bound: the connections there will be
  MaxRequests,     \* bound: the requests there will be
  MaxWork,         \* bound: the requests, the tasks and the chunks together
  RouteSize,       \* capacity of the channel to the handler
  DirectSize,      \* capacity of a session's channel
  FanSize          \* capacity of a forwarder's channel

ASSUME SizesAssumption ==
  /\ MaxSessions \in Nat /\ MaxRequests \in Nat /\ MaxWork \in Nat
  /\ RouteSize \in Nat \ {0} /\ DirectSize \in Nat \ {0} /\ FanSize \in Nat \ {0}

VARIABLES
  conn,        \* each connection's stage
  lastOut,     \* sessions whose end left the client table empty, not yet told
  owner,       \* whose a request is
  held,        \* the request a connection's loop waits to pass on
  route,       \* channel to the handler: requests, and that all are gone
  clearing,    \* it is cancelling everything
  outgoing,    \* what it is about to send, and to whom
  handle,      \* SessionState.generation_handle
  lease,       \* last_user_session of the character
  task,        \* each request's task
  chunks,      \* chunks sent
  persisted,   \* requests whose answer is saved
  mirror,      \* the lease holder a task's forwarder sends to as well
  fan,         \* channel of a task's forwarder
  mirrored,    \* requests whose forwarder has served the lease holder
  direct,      \* each session's channel
  closed       \* history: requests whose owner got the end of the answer

serverVars == <<conn, lastOut, held>>
handlerVars == <<clearing, outgoing>>
stateVars == <<handle, lease>>
taskVars == <<task, chunks, persisted>>
fanVars == <<mirror, fan, mirrored>>
vars == <<serverVars, owner, route, handlerVars, stateVars, taskVars, fanVars,
          direct, closed>>

(* Connections and requests are numbered in the order in which they come.  *)
Sessions == 1..MaxSessions
Requests == 1..MaxRequests
None == 0
AllGone == 0
Frame == [of : Requests \cup {None}, kind : {"chunk", "end", "error", "phase", "output", "cancelled"}]

(* Types, and the channels within their capacities.                        *)
TypeOK ==
  /\ conn \in [Sessions -> {"off", "on", "leaked", "gone"}]
  /\ lastOut \in SUBSET Sessions
  /\ owner \in [Requests -> Sessions \cup {None}]
  /\ held \in [Sessions -> Requests \cup {None}]
  /\ ToSet(route) \subseteq Requests \cup {AllGone} /\ Len(route) <= RouteSize
  /\ clearing \in BOOLEAN
  /\ outgoing.to \in Sessions \cup {None} /\ outgoing.frame \in Frame
  /\ handle \in [Sessions -> Requests \cup {None}]
  /\ lease \in Sessions \cup {None}
  /\ task \in [Requests -> {"none", "streaming", "saved", "dying", "phase", "over"}]
  /\ chunks \in 0..MaxWork
  /\ persisted \in SUBSET Requests /\ closed \in SUBSET Requests
  /\ mirror \in [Requests -> Sessions \cup {None}] /\ mirrored \in SUBSET Requests
  /\ \A r \in Requests : ToSet(fan[r]) \subseteq Frame /\ Len(fan[r]) <= FanSize
  /\ \A s \in Sessions : ToSet(direct[s]) \subseteq Frame /\ Len(direct[s]) <= DirectSize

Frm(r, k) == [of |-> r, kind |-> k]
NoSend == [to |-> None, frame |-> Frm(None, "cancelled")]

Init ==
  /\ conn = [s \in Sessions |-> "off"] /\ lastOut = {}
  /\ owner = [r \in Requests |-> None] /\ held = [s \in Sessions |-> None]
  /\ route = <<>> /\ clearing = FALSE /\ outgoing = NoSend
  /\ handle = [s \in Sessions |-> None] /\ lease = None
  /\ task = [r \in Requests |-> "none"] /\ chunks = 0
  /\ persisted = {} /\ mirror = [r \in Requests |-> None]
  /\ fan = [r \in Requests |-> <<>>] /\ mirrored = {}
  /\ direct = [s \in Sessions |-> <<>>] /\ closed = {}

(* The bound MaxWork is not reached.                                       *)
RoomForMore ==
  Cardinality({r \in Requests : owner[r] # None})
    + Cardinality({r \in Requests : task[r] # "none"}) + chunks < MaxWork

-----------------------------------------------------------------------------
(* Connections                                                             *)

(* The client table, and with it the session router.                       *)
Registered == {s \in Sessions : conn[s] \in {"on", "leaked"}}

(* perform_handshake registers; when the write of the first History fails  *)
(* the handler of the connection returns and nobody unregisters.           *)
Connect(s) ==
  /\ conn[s] = "off" /\ \A x \in 1..(s - 1) : conn[x] # "off"
  /\ conn' \in {[conn EXCEPT ![s] = "on"], [conn EXCEPT ![s] = "leaked"]}
  /\ UNCHANGED <<lastOut, held, owner, route, handlerVars, stateVars,
                 taskVars, fanVars, direct, closed>>

(* The loop is at its select, and not in one of the arms.                  *)
Selects(s) == conn[s] = "on" /\ held[s] = None

(* The loop reads a request and passes it on, or waits for room inside the *)
(* same arm: in the meantime it neither writes nor sees that the client is *)
(* gone.                                                                   *)
Read(s, r) ==
  /\ Selects(s) /\ owner[r] = None /\ RoomForMore
  /\ \A q \in 1..(r - 1) : owner[q] # None
  /\ owner' = [owner EXCEPT ![r] = s]
  /\ IF Len(route) < RouteSize
     THEN route' = Append(route, r) /\ UNCHANGED held
     ELSE held' = [held EXCEPT ![s] = r] /\ UNCHANGED route
  /\ UNCHANGED <<conn, lastOut, handlerVars, stateVars, taskVars, fanVars, direct, closed>>

PassOn(s) ==
  /\ conn[s] = "on" /\ held[s] # None /\ Len(route) < RouteSize
  /\ route' = Append(route, held[s])
  /\ held' = [held EXCEPT ![s] = None]
  /\ UNCHANGED <<conn, lastOut, owner, handlerVars, stateVars, taskVars, fanVars, direct,
                 closed>>

(* The loop writes a frame and the client reads it.                        *)
Deliver(s) ==
  LET f == Head(direct[s])
  IN /\ Selects(s) /\ direct[s] # <<>>
     /\ direct' = [direct EXCEPT ![s] = Tail(@)]
     /\ closed' = IF f.kind \in {"end", "error"} /\ owner[f.of] = s
                  THEN closed \cup {f.of} ELSE closed
     /\ UNCHANGED <<serverVars, owner, route, handlerVars, stateVars,
                    taskVars, fanVars>>

(* Mutant of Leave: it looks at the table before it removes itself.        *)
LeaveLooksFirst(s) ==
  /\ Selects(s)
  /\ conn' = [conn EXCEPT ![s] = "gone"]
  /\ lastOut' = IF Registered = {} THEN lastOut \cup {s} ELSE lastOut
  /\ direct' = [direct EXCEPT ![s] = <<>>]
  /\ UNCHANGED <<held, owner, route, handlerVars, stateVars, taskVars,
                 fanVars, closed>>

(* The client is gone and the loop notices: it takes itself out of the     *)
(* table and sees in the same lock section whether it was the last.        *)
Leave(s) ==
  /\ Selects(s)
  /\ conn' = [conn EXCEPT ![s] = "gone"]
  /\ lastOut' = IF Registered = {s} THEN lastOut \cup {s} ELSE lastOut
  /\ direct' = [direct EXCEPT ![s] = <<>>]
  /\ UNCHANGED <<held, owner, route, handlerVars, stateVars, taskVars,
                 fanVars, closed>>

(* It tells the handler outside that section.                              *)
TellAllGone(s) ==
  /\ s \in lastOut /\ Len(route) < RouteSize
  /\ route' = Append(route, AllGone)
  /\ lastOut' = lastOut \ {s}
  /\ UNCHANGED <<conn, held, owner, handlerVars, stateVars, taskVars,
                 fanVars, direct, closed>>

-----------------------------------------------------------------------------
(* The handler                                                             *)

Running(r) == task[r] \in {"streaming", "saved"}
Idle == ~clearing /\ outgoing = NoSend

(* The handler takes the next request.  Whether that is a message, a       *)
(* regeneration, a cancel or a command matters from here on.               *)
Takes(r) ==
  /\ Idle /\ route # <<>> /\ Head(route) = r
  /\ route' = Tail(route)

(* JoinHandle::abort: the task ends when it next has to wait.              *)
Abort(tasks, r) ==
  IF r # None /\ Running(r) THEN [tasks EXCEPT ![r] = "dying"] ELSE tasks

(* cancel_generation: a handle is taken, though its task may be over, and  *)
(* the session gets a final StreamEnd of its own, past the task's forwarder*)
(* and with no request id.                                                 *)
CancelGeneration(s) ==
  IF handle[s] = None
  THEN UNCHANGED <<task, handle, outgoing>>
  ELSE /\ task' = Abort(task, handle[s])
       /\ handle' = [handle EXCEPT ![s] = None]
       /\ outgoing' = [to |-> s, frame |-> Frm(handle[s], "cancelled")]

HandleCancel(r) ==
  /\ Takes(r)
  /\ CancelGeneration(owner[r])
  /\ UNCHANGED <<serverVars, owner, clearing, lease, chunks,
                 persisted, fanVars, direct, closed>>

(* resolve_lease_tx: the holder, unless it asks itself, has expired or is  *)
(* gone, in which case the lease is forgotten.                             *)
Mirrors(s, holder) ==
  {m \in {holder, None} : m = None \/ (m # s /\ m \in Registered)}

(* Mutant of Launch: the session's earlier task goes on.                   *)
LaunchBeside(r, message) ==
  LET s == owner[r]
      holder == IF message THEN s ELSE lease
  IN /\ Takes(r) /\ RoomForMore
     /\ IF s \in Registered
        THEN /\ \E m \in Mirrors(s, holder) :
                  /\ mirror' = [mirror EXCEPT ![r] = m]
                  /\ lease' = IF holder = s \/ m # None THEN holder ELSE None
             /\ task' = [task EXCEPT ![r] = "streaming"]
             /\ handle' = [handle EXCEPT ![s] = r]
        ELSE lease' = holder /\ UNCHANGED <<mirror, task, handle>>
     /\ UNCHANGED <<serverVars, owner, handlerVars, chunks, persisted, fan,
                    mirrored, direct, closed>>

(* A message takes the lease; a task starts if the session still exists    *)
(* and takes the place of the one before it.                               *)
Launch(r, message) ==
  LET s == owner[r]
      holder == IF message THEN s ELSE lease
  IN /\ Takes(r) /\ RoomForMore
     /\ IF s \in Registered
        THEN /\ \E m \in Mirrors(s, holder) :
                  /\ mirror' = [mirror EXCEPT ![r] = m]
                  /\ lease' = IF holder = s \/ m # None THEN holder ELSE None
             /\ task' = [Abort(task, handle[s]) EXCEPT ![r] = "streaming"]
             /\ handle' = [handle EXCEPT ![s] = r]
        ELSE lease' = holder /\ UNCHANGED <<mirror, task, handle>>
     /\ UNCHANGED <<serverVars, owner, handlerVars, chunks, persisted, fan,
                    mirrored, direct, closed>>

(* The session has no usable character: an error goes back.                *)
Refuse(r) ==
  /\ Takes(r)
  /\ outgoing' = [to |-> owner[r], frame |-> Frm(r, "error")]
  /\ UNCHANGED <<serverVars, owner, clearing, stateVars, taskVars,
                 fanVars, direct, closed>>

(* dispatch_command runs in the handler, an LLM pass of compact included,  *)
(* and nothing else is handled meanwhile.                                  *)
RunCommand(r) ==
  /\ Takes(r)
  /\ outgoing' = [to |-> owner[r], frame |-> Frm(r, "output")]
  /\ UNCHANGED <<serverVars, owner, clearing, stateVars, taskVars, fanVars,
                 direct, closed>>

(* AllClientsDisconnected: every session with a handle is cancelled.       *)
StartAllGone ==
  /\ Takes(AllGone)
  /\ clearing' = TRUE
  /\ UNCHANGED <<serverVars, owner, outgoing, stateVars, taskVars, fanVars,
                 direct, closed>>

CancelNext ==
  /\ clearing /\ outgoing = NoSend
  /\ \E s \in {x \in Sessions : handle[x] # None} : CancelGeneration(s)
  /\ UNCHANGED <<serverVars, owner, route, clearing, lease, chunks, persisted,
                 fanVars, direct, closed>>

FinishAllGone ==
  /\ clearing /\ outgoing = NoSend /\ \A s \in Sessions : handle[s] = None
  /\ clearing' = FALSE /\ lease' = None
  /\ UNCHANGED <<serverVars, owner, route, outgoing, handle, taskVars, fanVars,
                 direct, closed>>

(* Mutant of Sent: it does not wait for room.                              *)
SentAtOnce(s, f) ==
  IF s \in Registered THEN direct' = [direct EXCEPT ![s] = Append(@, f)] ELSE UNCHANGED direct

(* A channel takes the frame when it has room; a channel whose session is  *)
(* gone refuses it.  Nothing ever empties a leaked one.                    *)
Sent(s, f) ==
  \/ s \notin Registered /\ UNCHANGED direct
  \/ /\ s \in Registered /\ Len(direct[s]) < DirectSize
     /\ direct' = [direct EXCEPT ![s] = Append(@, f)]

(* Mutant of HandlerSends: it waits for a session that is gone.            *)
HandlerSendsForever ==
  /\ outgoing # NoSend /\ outgoing.to \in Registered
  /\ Sent(outgoing.to, outgoing.frame)
  /\ outgoing' = NoSend
  /\ UNCHANGED <<serverVars, owner, route, clearing, stateVars,
                 taskVars, fanVars, closed>>

HandlerSends ==
  /\ outgoing # NoSend
  /\ Sent(outgoing.to, outgoing.frame)
  /\ outgoing' = NoSend
  /\ UNCHANGED <<serverVars, owner, route, clearing, stateVars,
                 taskVars, fanVars, closed>>

-----------------------------------------------------------------------------
(* Tasks and their forwarders                                              *)

Emit(r, k) ==
  /\ Len(fan[r]) < FanSize
  /\ fan' = [fan EXCEPT ![r] = Append(@, Frm(r, k))]

(* An aborted task still finishes what it does before it next waits.       *)
After(r, stage) == [task EXCEPT ![r] = IF @ = "dying" THEN "over" ELSE stage]
notTaskVars == <<serverVars, owner, route, handlerVars, stateVars, mirror,
                      mirrored, direct, closed>>

Chunk(r) ==
  /\ task[r] = "streaming" /\ RoomForMore
  /\ Emit(r, "chunk")
  /\ chunks' = chunks + 1
  /\ UNCHANGED <<task, persisted, notTaskVars>>

Persist(r) ==
  /\ task[r] \in {"streaming", "dying"} /\ r \notin persisted
  /\ persisted' = persisted \cup {r}
  /\ task' = After(r, "saved")
  /\ UNCHANGED <<chunks, fan, notTaskVars>>

(* Mutant of End: the frame goes out before the answer is saved.           *)
EndEarly(r) ==
  /\ task[r] \in {"streaming", "saved", "dying"}
  /\ Emit(r, "end")
  /\ task' = [task EXCEPT ![r] = "over"]
  /\ UNCHANGED <<chunks, persisted, notTaskVars>>

(* maybe_schedule_compaction follows: the turn may have crossed the limit, *)
(* and then an inline compaction starts in a task nobody can abort.        *)
End(r) ==
  /\ task[r] \in {"saved", "dying"} /\ r \in persisted
  /\ Emit(r, "end")
  /\ \E next \in {"phase", "over"} : task' = [task EXCEPT ![r] = next]
  /\ UNCHANGED <<chunks, persisted, notTaskVars>>

(* run_inline_compaction announces itself through the same forwarder.      *)
AnnouncePhase(r) ==
  /\ task[r] = "phase"
  /\ Emit(r, "phase")
  /\ task' = [task EXCEPT ![r] = "over"]
  /\ UNCHANGED <<chunks, persisted, notTaskVars>>

(* Set-up, the stream or persistence fails.                                *)
Fail(r) ==
  /\ task[r] = "streaming"
  /\ Emit(r, "error")
  /\ task' = [task EXCEPT ![r] = "over"]
  /\ UNCHANGED <<chunks, persisted, notTaskVars>>

Die(r) ==
  /\ task[r] = "dying"
  /\ task' = [task EXCEPT ![r] = "over"]
  /\ UNCHANGED <<chunks, persisted, fan, notTaskVars>>

notForwarderVars == <<serverVars, owner, route, handlerVars, stateVars,
                           taskVars, mirror, closed>>

(* Mutant of Mirror: the forwarder stops when the lease holder is gone.    *)
MirrorNeedsHolder(r) ==
  /\ fan[r] # <<>> /\ r \notin mirrored
  /\ mirror[r] \in Registered \cup {None}
  /\ IF mirror[r] = None THEN UNCHANGED direct ELSE Sent(mirror[r], Head(fan[r]))
  /\ mirrored' = mirrored \cup {r}
  /\ UNCHANGED <<fan, notForwarderVars>>

(* build_fanout_tx: each frame goes to the lease holder first.             *)
Mirror(r) ==
  /\ fan[r] # <<>> /\ r \notin mirrored
  /\ IF mirror[r] = None THEN UNCHANGED direct ELSE Sent(mirror[r], Head(fan[r]))
  /\ mirrored' = mirrored \cup {r}
  /\ UNCHANGED <<fan, notForwarderVars>>

Forward(r) ==
  /\ fan[r] # <<>> /\ r \in mirrored
  /\ Sent(owner[r], Head(fan[r]))
  /\ fan' = [fan EXCEPT ![r] = Tail(@)]
  /\ mirrored' = mirrored \ {r}
  /\ UNCHANGED notForwarderVars

HandlerStep ==
  \/ \E r \in Requests : \/ HandleCancel(r) \/ Refuse(r) \/ RunCommand(r)
                         \/ \E message \in BOOLEAN : Launch(r, message)
  \/ StartAllGone \/ CancelNext \/ FinishAllGone \/ HandlerSends

Next ==
  \/ HandlerStep
  \/ \E s \in Sessions :
       \/ Connect(s) \/ PassOn(s) \/ Deliver(s) \/ Leave(s) \/ TellAllGone(s)
       \/ \E r \in Requests : Read(s, r)
  \/ \E r \in Requests :
       \/ Chunk(r) \/ Persist(r) \/ End(r) \/ AnnouncePhase(r) \/ Fail(r) \/ Die(r)
       \/ Mirror(r) \/ Forward(r)

Spec == Init /\ [][Next]_vars

(* Loops and forwarders run, clients that stay read what they are sent and *)
(* commands return.  Nothing is assumed of the model: a task may stream    *)
(* forever, though one that has saved its answer ends.                     *)
Fairness ==
  /\ WF_vars(HandlerStep)
  /\ \A s \in Sessions : WF_vars(PassOn(s) \/ Deliver(s) \/ TellAllGone(s))
  /\ \A r \in Requests : WF_vars(End(r) \/ Die(r)) /\ WF_vars(Mirror(r) \/ Forward(r))

FairSpec == Spec /\ Fairness

-----------------------------------------------------------------------------
(* Properties                                                              *)

Frames == (UNION {ToSet(fan[r]) : r \in Requests}) \cup (UNION {ToSet(direct[s]) : s \in Sessions})

(* What may come after a frame of the same request on one channel: after   *)
(* the end of the answer only the notice of its inline compaction, which   *)
(* PROTOCOL.md describes, and the frame of a cancel that came too late; of *)
(* those and of an error at most one.  A cancel's own final frame overtakes*)
(* what the aborted task has sent, and any of that may follow it.          *)
MayFollow(a, b) ==
  CASE a = "chunk"              -> TRUE
    [] a = "end"                -> b \in {"phase", "cancelled"}
    [] a \in {"error", "phase"} -> b = "cancelled"
    [] a = "cancelled"          -> b \in {"chunk", "end", "error", "phase"}
    [] a = "output"             -> FALSE

(* The final frame of an answer is on its way only when the answer is      *)
(* saved, so a command sent on its arrival finds it, and on every channel  *)
(* the frames of a request keep their order, whoever cancels or supersedes.*)
EndIsFinal ==
  /\ \A f \in Frames : f.kind = "end" => f.of \in persisted
  /\ \A q \in Range(fan) \cup Range(direct) : \A i, j \in DOMAIN q :
       i < j /\ q[i].of = q[j].of => MayFollow(q[i].kind, q[j].kind)

(* A task that runs is the one its session's handle names: a cancel, a     *)
(* newer request or the last client's leaving can always reach it, and no  *)
(* session has two tasks that write.                                       *)
RunningIsReachable ==
  \A r \in Requests : Running(r) => handle[owner[r]] = r

(* The one circle of waits there is: the handler waits for room in a       *)
(* session's channel, and the loop that would make room waits to pass on a *)
(* request, with the channel to the handler full.                          *)
Jammed ==
  \E s \in Sessions :
    /\ outgoing.to = s /\ Len(direct[s]) = DirectSize
    /\ held[s] # None /\ Len(route) = RouteSize

(* The request is in a connection's loop or in the channel to the handler. *)
Waits(r) == (\E s \in Sessions : held[s] = r) \/ r \in ToSet(route)

(* A request that is read is handled, however slow the models are, and     *)
(* whichever clients come and go: nobody waits for anybody in a circle     *)
(* but where Jammed says.                                                  *)
RequestsHandled ==
  \A r \in Requests : Waits(r) ~> (Jammed \/ (Idle /\ ~Waits(r)))

(* An answer that is saved reaches the client that asked, even if it is    *)
(* mirrored to a slower one, unless the task is aborted, the client gone or*)
(* the handler stuck for good.                                             *)
AnswerArrives ==
  \A r \in Requests :
    (task[r] = "saved") ~> (\/ r \in closed \/ task[r] = "dying" \/ Jammed
                            \/ \A s \in Sessions : owner[r] = s => conn[s] # "on")

(* When the last client is gone no generation goes on, unless somebody     *)
(* connects meanwhile or a broken handshake left an entry in the table.    *)
NobodyLeftNothingRuns ==
  (Registered = {}) ~> (Registered # {} \/ \A r \in Requests : ~Running(r))
=============================================================================
