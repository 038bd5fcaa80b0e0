----------------------------- MODULE MCSessions -----------------------------
(***************************************************************************)
(* For checking Sessions: a VIEW that forgets what no later step and no    *)
(* property looks at.                                                      *)
(***************************************************************************)
EXTENDS Sessions

(* Nothing of the request is left, and nothing of it can come back but the *)
(* frame of a cancel that takes the handle of a task that is over.         *)
Settled(r) ==
  /\ owner[r] # None /\ ~Waits(r) /\ task[r] \in {"none", "over"}
  /\ \A f \in Frames \cup {outgoing.frame} : f.of = r => f.kind = "cancelled"

(* Of such a request only this counts, which AnswerArrives asks for.       *)
Answered(r) == r \in closed \/ conn[owner[r]] # "on"

RequestView(r) ==
  IF Settled(r)
  THEN IF Answered(r) THEN <<"answered">> ELSE <<owner[r]>>
  ELSE <<owner[r], mirror[r], r \in persisted, r \in closed, r \in mirrored>>

(* No task will start that could mirror its frames to the lease holder.    *)
NoMoreTasks == ~RoomForMore \/ \A r \in Requests : owner[r] # None /\ ~Waits(r)

SessionsView ==
  <<serverVars, route, handlerVars, handle, IF NoMoreTasks THEN None ELSE lease,
    task, chunks, [r \in Requests |-> RequestView(r)], fan, direct>>
=============================================================================
