--------------------------- MODULE SessionsProofs ---------------------------
(***************************************************************************)
(* The types of Sessions, the finality of an answer's end and the handle   *)
(* of a running task, for any numbers of connections and requests and any  *)
(* capacities.                                                             *)
(***************************************************************************)
EXTENDS Sessions, FiniteSetTheorems, TLAPS

-----------------------------------------------------------------------------
(* Channels                                                                *)

(* What is left after a read.                                              *)
LEMMA TailSeq ==
  ASSUME NEW S, NEW q \in Seq(S), q # <<>>
  PROVE  /\ DOMAIN q = 1..Len(q) /\ Len(q) \in Nat
         /\ 1 \in DOMAIN q /\ Head(q) = q[1] /\ Head(q) \in S
         /\ Tail(q) \in Seq(S) /\ Len(Tail(q)) = Len(q) - 1
         /\ DOMAIN Tail(q) = 1..(Len(q) - 1)
         /\ \A i \in DOMAIN Tail(q) : i + 1 \in DOMAIN q /\ Tail(q)[i] = q[i + 1]
<1>1. /\ DOMAIN q = 1..Len(q) /\ Len(q) \in Nat /\ Len(q) # 0
      /\ Head(q) = q[1] /\ Tail(q) \in Seq(S) /\ Len(Tail(q)) = Len(q) - 1
  OBVIOUS
<1>2. 1 \in DOMAIN q /\ q[1] \in S
  BY <1>1
<1>3. DOMAIN Tail(q) = 1..(Len(q) - 1)
  BY <1>1
<1>4. \A i \in 1..(Len(q) - 1) : i + 1 \in 1..Len(q) /\ Tail(q)[i] = q[i + 1]
  BY <1>1
<1> QED
  BY <1>1, <1>2, <1>3, <1>4

(* What is there after a write.                                            *)
LEMMA AppendSeq ==
  ASSUME NEW S, NEW q \in Seq(S), NEW x \in S
  PROVE  /\ DOMAIN q = 1..Len(q) /\ Len(q) \in Nat
         /\ Append(q, x) \in Seq(S) /\ Len(Append(q, x)) = Len(q) + 1
         /\ DOMAIN Append(q, x) = 1..(Len(q) + 1)
         /\ Append(q, x)[Len(q) + 1] = x
         /\ \A i \in DOMAIN q : Append(q, x)[i] = q[i]
  OBVIOUS

(* The elements of a channel are of its type.                              *)
LEMMA SeqType ==
  ASSUME NEW S, NEW q \in Seq(S)
  PROVE  /\ DOMAIN q = 1..Len(q) /\ Len(q) \in Nat /\ ToSet(q) \subseteq S
         /\ \A i \in DOMAIN q : q[i] \in S
  BY DEF ToSet

(* A channel of no length is empty.                                        *)
LEMMA EmptySeq ==
  ASSUME NEW S, NEW q \in Seq(S), Len(q) = 0
  PROVE  q = <<>>
  OBVIOUS

(* Frames.                                                                 *)
Kinds == {"chunk", "end", "error", "phase", "output", "cancelled"}

LEMMA FrameType ==
  /\ None \notin Sessions /\ None \notin Requests /\ AllGone \notin Requests
  /\ Frame = [of : Requests \cup {None}, kind : Kinds]
  /\ \A r \in Requests \cup {None}, k \in Kinds :
       Frm(r, k) \in Frame /\ Frm(r, k).of = r /\ Frm(r, k).kind = k
  /\ NoSend.to = None /\ NoSend.frame \in Frame
  /\ NoSend.frame.of = None /\ NoSend.frame.kind = "cancelled"
  /\ NoSend \in [to : Sessions \cup {None}, frame : Frame]
<1>1. None \notin Sessions /\ None \notin Requests /\ AllGone \notin Requests
  BY SizesAssumption DEF None, AllGone, Sessions, Requests
<1>2. Frame = [of : Requests \cup {None}, kind : Kinds]
  BY DEF Frame, Kinds
<1>3. \A r \in Requests \cup {None}, k \in Kinds :
       Frm(r, k) \in Frame /\ Frm(r, k).of = r /\ Frm(r, k).kind = k
  BY <1>2 DEF Frm
<1>4. /\ NoSend.to = None /\ NoSend.frame = Frm(None, "cancelled")
      /\ NoSend = [to |-> None, frame |-> Frm(None, "cancelled")]
  BY DEF NoSend
<1>5. NoSend \in [to : Sessions \cup {None}, frame : Frame]
  BY <1>3, <1>4 DEF Kinds
<1> QED
  BY <1>1, <1>2, <1>3, <1>4, <1>5 DEF Kinds

(* There are finitely many requests.                                       *)
LEMMA RequestsFinite == IsFiniteSet(Requests)
  BY SizesAssumption, FS_Interval DEF Requests

(* What may follow what, as far as the proofs need it.                     *)
LEMMA Follows ==
  /\ \A b : MayFollow("chunk", b)
  /\ MayFollow("end", "phase")
  /\ \A a \in {"end", "error", "phase"} : MayFollow(a, "cancelled")
  /\ \A b \in {"chunk", "end", "error", "phase"} : MayFollow("cancelled", b)
  BY DEF MayFollow

-----------------------------------------------------------------------------
(* The invariant                                                           *)

TaskStages == {"none", "streaming", "saved", "dying", "phase", "over"}

(* What the channels hold and how much of it.                              *)
Shape ==
  /\ conn \in [Sessions -> {"off", "on", "leaked", "gone"}]
  /\ lastOut \in SUBSET Sessions
  /\ owner \in [Requests -> Sessions \cup {None}]
  /\ held \in [Sessions -> Requests \cup {None}]
  /\ route \in Seq(Requests \cup {AllGone}) /\ Len(route) <= RouteSize
  /\ clearing \in BOOLEAN
  /\ outgoing \in [to : Sessions \cup {None}, frame : Frame]
  /\ handle \in [Sessions -> Requests \cup {None}]
  /\ lease \in Sessions \cup {None}
  /\ task \in [Requests -> TaskStages]
  /\ chunks \in 0..MaxWork
  /\ persisted \in SUBSET Requests /\ closed \in SUBSET Requests
  /\ mirror \in [Requests -> Sessions \cup {None}] /\ mirrored \in SUBSET Requests
  /\ fan \in [Requests -> Seq(Frame)] /\ \A r \in Requests : Len(fan[r]) <= FanSize
  /\ direct \in [Sessions -> Seq(Frame)] /\ \A s \in Sessions : Len(direct[s]) <= DirectSize

(* A request waits only once, in one loop or in the channel.               *)
Once ==
  /\ \A i, j \in DOMAIN route : route[i] \in Requests /\ route[i] = route[j] => i = j
  /\ \A s, t \in Sessions : held[s] \in Requests /\ held[s] = held[t] => s = t
  /\ \A s \in Sessions : held[s] \in Requests => held[s] \notin ToSet(route)

(* While it waits it has an owner and no task.                             *)
Asked == \A r \in Requests : Waits(r) => owner[r] \in Sessions /\ task[r] = "none"

(* A request without a task has sent nothing, and one without an owner has *)
(* no task.  An answer is mirrored to others than its owner.  A handle     *)
(* names a task that was started for the session.                          *)
Started ==
  /\ \A r \in Requests :
       /\ task[r] = "none" => fan[r] = <<>> /\ mirror[r] = None
       /\ owner[r] = None => task[r] = "none"
       /\ mirror[r] \in Sessions => mirror[r] # owner[r]
  /\ \A s \in Sessions : handle[s] \in Requests =>
       task[handle[s]] # "none" /\ owner[handle[s]] = s

(* The handler was done with the request, and no task was started.         *)
NoTask(r) == task[r] = "none" /\ owner[r] # None /\ ~Waits(r)

(* No task or handler will make a frame of r that may not follow one of    *)
(* kind a.                                                                 *)
Spent(r, a) ==
  /\ a = "end" => task[r] \in {"phase", "over"}
  /\ a \in {"error", "phase"} => task[r] = "over" \/ NoTask(r)
  /\ a = "cancelled" => task[r] # "none" /\ \A t \in Sessions : handle[t] # r
  /\ a = "output" => NoTask(r)

(* What the handler sends itself is for a request without a task, or its   *)
(* task has lost its handle for good.                                      *)
Answers ==
  LET f == outgoing.frame
  IN /\ outgoing # NoSend => f.of \in Requests
     /\ f.kind \in {"error", "output", "cancelled"}
     /\ f.of \in Requests => IF f.kind = "cancelled" THEN Spent(f.of, f.kind) ELSE NoTask(f.of)

(* What a task has sent is in order, and so is what it will send.          *)
FanOrder ==
  \A r \in Requests : \A i \in DOMAIN fan[r] :
    LET f == fan[r][i]
    IN /\ f.of = r /\ f.kind \in {"chunk", "end", "error", "phase"}
       /\ Spent(r, f.kind)
       /\ f.kind = "end" => r \in persisted
       /\ \A j \in DOMAIN fan[r] : i < j => MayFollow(f.kind, fan[r][j].kind)

(* Whatever of request r is still to reach session s may follow a frame of *)
(* kind a.                                                                 *)
Past(r, s, a) ==
  /\ r \in Requests /\ a \in Kinds /\ Spent(r, a)
  /\ outgoing.frame.of = r => MayFollow(a, outgoing.frame.kind)
  /\ \A i \in DOMAIN fan[r] :
       (i = 1 /\ r \in mirrored /\ s # owner[r]) \/ MayFollow(a, fan[r][i].kind)

DirectOrder ==
  \A s \in Sessions : \A i \in DOMAIN direct[s] :
    LET f == direct[s][i]
    IN /\ Past(f.of, s, f.kind)
       /\ f.kind = "end" => f.of \in persisted
       /\ \A j \in DOMAIN direct[s] :
            i < j /\ direct[s][j].of = f.of => MayFollow(f.kind, direct[s][j].kind)

SessionsInv ==
  /\ Shape /\ Once /\ Asked /\ Started /\ Answers
  /\ FanOrder /\ DirectOrder /\ RunningIsReachable

(* At the start there are no requests.                                     *)
LEMMA SessionsInvInit == Init => SessionsInv
<1> SUFFICES ASSUME Init PROVE SessionsInv
  OBVIOUS
<1>1. Shape
  <2>1. \A q : q = <<>> => q \in Seq(Frame) /\ q \in Seq(Requests \cup {AllGone}) /\ Len(q) = 0
    OBVIOUS
  <2>2. RouteSize \in Nat /\ FanSize \in Nat /\ DirectSize \in Nat /\ 0 \in 0..MaxWork
    BY SizesAssumption
  <2>3. outgoing \in [to : Sessions \cup {None}, frame : Frame]
    BY FrameType DEF Init
  <2>4. fan \in [Requests -> Seq(Frame)] /\ \A r \in Requests : Len(fan[r]) <= FanSize
    BY <2>1, <2>2 DEF Init
  <2>5. direct \in [Sessions -> Seq(Frame)] /\ \A s \in Sessions : Len(direct[s]) <= DirectSize
    BY <2>1, <2>2 DEF Init
  <2>6. route \in Seq(Requests \cup {AllGone}) /\ Len(route) <= RouteSize
    BY <2>1, <2>2 DEF Init
  <2>7. task \in [Requests -> TaskStages]
    BY DEF Init, TaskStages
  <2>8. chunks \in 0..MaxWork
    BY <2>2 DEF Init
  <2> QED
    BY <2>3, <2>4, <2>5, <2>6, <2>7, <2>8 DEF Init, Shape
<1>2. /\ DOMAIN route = {} /\ ToSet(route) = {}
      /\ \A s \in Sessions : held[s] \notin Requests
      /\ \A r \in Requests : fan[r] = <<>> /\ DOMAIN fan[r] = {}
      /\ \A s \in Sessions : DOMAIN direct[s] = {}
  BY FrameType DEF Init, ToSet
<1>3. Once /\ Asked
  BY <1>2 DEF Once, Asked, Waits
<1>4. Started
  BY <1>2, FrameType DEF Init, Started
<1>5. Answers
  BY FrameType DEF Init, Answers
<1>6. FanOrder /\ DirectOrder
  <2>1. FanOrder
    BY <1>2 DEF FanOrder
  <2>2. DirectOrder
    BY <1>2 DEF DirectOrder
  <2> QED
    BY <2>1, <2>2
<1>7. RunningIsReachable
  BY DEF Init, RunningIsReachable, Running
<1> QED
  BY <1>1, <1>3, <1>4, <1>5, <1>6, <1>7 DEF SessionsInv

(* What is spent stays so when a task only goes forward, the handler does  *)
(* not come back to a request and a handle names a task only at its start. *)
LEMMA Spending ==
  ASSUME NEW r \in Requests, NEW a, Spent(r, a),
         task[r] \in {"phase", "over"} => task'[r] \in {"phase", "over"},
         task[r] = "over" => task'[r] = "over",
         task[r] # "none" => task'[r] # "none",
         NoTask(r) => NoTask(r)',
         \A t \in Sessions : handle'[t] = r => handle[t] = r \/ task[r] = "none"
  PROVE  Spent(r, a)'
  BY DEF Spent

(* Frames that are read, lost with their connection or left where they are *)
(* stay in order, as long as what is past stays past.                      *)
LEMMA DirectShrinks ==
  ASSUME Shape, DirectOrder, persisted \subseteq persisted',
         \A s \in Sessions : \/ direct'[s] = direct[s] \/ direct'[s] = <<>>
                             \/ direct[s] # <<>> /\ direct'[s] = Tail(direct[s]),
         \A r \in Requests, s \in Sessions : \A a : Past(r, s, a) => Past(r, s, a)'
  PROVE  DirectOrder'
<1> SUFFICES ASSUME NEW s \in Sessions, NEW i \in DOMAIN direct'[s], NEW f, f = direct'[s][i]
             PROVE  /\ Past(f.of, s, f.kind)'
                    /\ f.kind = "end" => f.of \in persisted'
                    /\ \A j \in DOMAIN direct'[s] :
                         i < j /\ direct'[s][j].of = f.of => MayFollow(f.kind, direct'[s][j].kind)
  BY DEF DirectOrder
<1>1. direct[s] \in Seq(Frame)
  BY DEF Shape
<1> DEFINE Old(k) ==
             /\ Past(direct[s][k].of, s, direct[s][k].kind)
             /\ direct[s][k].kind = "end" => direct[s][k].of \in persisted
             /\ \A j \in DOMAIN direct[s] :
                  k < j /\ direct[s][j].of = direct[s][k].of
                    => MayFollow(direct[s][k].kind, direct[s][j].kind)
<1>2. \A k \in DOMAIN direct[s] : Old(k)
  BY DEF DirectOrder
<1>3. \A r, a : Past(r, s, a) => Past(r, s, a)'
  BY DEF Past
<1>4. CASE direct'[s] = direct[s]
  BY <1>2, <1>3, <1>4
<1>5. CASE direct[s] # <<>> /\ direct'[s] = Tail(direct[s])
  <2>1. /\ i + 1 \in DOMAIN direct[s] /\ f = direct[s][i + 1]
        /\ \A j \in DOMAIN direct'[s] : j \in Nat /\ j + 1 \in DOMAIN direct[s]
                                        /\ direct'[s][j] = direct[s][j + 1]
    BY <1>1, <1>5, TailSeq
  <2>2. Old(i + 1)
    BY <1>2, <2>1
  <2>3. \A j \in DOMAIN direct'[s] : i < j => i + 1 < j + 1
    BY <2>1
  <2> QED
    BY <1>3, <2>1, <2>2, <2>3
<1>6. CASE direct'[s] = <<>>
  BY <1>6
<1> QED
  BY <1>4, <1>5, <1>6

(* A frame is sent to a session when it may follow all that its request    *)
(* has sent there, and all that the request still sends may follow it.     *)
LEMMA DirectGrows ==
  ASSUME Shape, DirectOrder, persisted \subseteq persisted',
         NEW t \in Sessions, NEW f \in Frame,
         direct' = [direct EXCEPT ![t] = Append(@, f)],
         \A a : Past(f.of, t, a) => MayFollow(a, f.kind),
         Past(f.of, t, f.kind)', f.kind = "end" => f.of \in persisted',
         \A r \in Requests, s \in Sessions : \A a : Past(r, s, a) => Past(r, s, a)'
  PROVE  DirectOrder'
<1> SUFFICES ASSUME NEW s \in Sessions, NEW i \in DOMAIN direct'[s], NEW g, g = direct'[s][i]
             PROVE  /\ Past(g.of, s, g.kind)'
                    /\ g.kind = "end" => g.of \in persisted'
                    /\ \A j \in DOMAIN direct'[s] :
                         i < j /\ direct'[s][j].of = g.of => MayFollow(g.kind, direct'[s][j].kind)
  BY DEF DirectOrder
<1>1. direct[s] \in Seq(Frame) /\ direct \in [Sessions -> Seq(Frame)]
  BY DEF Shape
<1> DEFINE Old(k) ==
             /\ Past(direct[s][k].of, s, direct[s][k].kind)
             /\ direct[s][k].kind = "end" => direct[s][k].of \in persisted
             /\ \A j \in DOMAIN direct[s] :
                  k < j /\ direct[s][j].of = direct[s][k].of
                    => MayFollow(direct[s][k].kind, direct[s][j].kind)
<1>2. \A k \in DOMAIN direct[s] : Old(k)
  BY DEF DirectOrder
<1>3. \A r, a : Past(r, s, a) => Past(r, s, a)'
  BY DEF Past
<1>4. CASE s # t
  <2>1. direct'[s] = direct[s]
    BY <1>1, <1>4
  <2> QED
    BY <1>2, <1>3, <2>1
<1>5. CASE s = t
  <2>1. direct'[s] = Append(direct[s], f)
    BY <1>1, <1>5
  <2>2. /\ DOMAIN direct[s] = 1..Len(direct[s]) /\ Len(direct[s]) \in Nat
        /\ DOMAIN direct'[s] = 1..(Len(direct[s]) + 1)
        /\ direct'[s][Len(direct[s]) + 1] = f
        /\ \A j \in DOMAIN direct[s] : direct'[s][j] = direct[s][j]
    BY <1>1, <2>1, AppendSeq
  <2>3. CASE i = Len(direct[s]) + 1
    <3>1. g = f /\ \A j \in DOMAIN direct'[s] : ~(i < j)
      BY <2>2, <2>3
    <3> QED
      BY <3>1, <1>5
  <2>4. CASE i # Len(direct[s]) + 1
    <3>1. i \in DOMAIN direct[s] /\ g = direct[s][i]
      BY <2>2, <2>4
    <3>2. Old(i)
      BY <1>2, <3>1
    <3>3. g.of = f.of => MayFollow(g.kind, f.kind)
      BY <3>1, <3>2, <1>5
    <3>4. ASSUME NEW j \in DOMAIN direct'[s], i < j, direct'[s][j].of = g.of
          PROVE  MayFollow(g.kind, direct'[s][j].kind)
      <4>1. CASE j \in DOMAIN direct[s]
        BY <2>2, <3>1, <3>2, <3>4, <4>1
      <4>2. CASE j = Len(direct[s]) + 1
        BY <2>2, <3>3, <3>4, <4>2
      <4> QED
        BY <2>2, <4>1, <4>2
    <3> QED
      BY <1>3, <3>1, <3>2, <3>4
  <2> QED
    BY <2>3, <2>4
<1> QED
  BY <1>4, <1>5

-----------------------------------------------------------------------------
(* What several steps have in common                                       *)

(* A request that no loop holds and the channel has not, or the news that  *)
(* all are gone, goes behind what is in the channel.                       *)
LEMMA RouteGrows ==
  ASSUME Shape, Once, NEW m \in Requests \cup {AllGone}, Len(route) < RouteSize,
         route' = Append(route, m), \A s \in Sessions : held'[s] \in {held[s], None},
         m \in Requests => m \notin ToSet(route) /\ \A s \in Sessions : held'[s] # m
  PROVE  /\ route' \in Seq(Requests \cup {AllGone}) /\ Len(route') <= RouteSize /\ Once'
         /\ \A r : r \in ToSet(route') <=> r \in ToSet(route) \/ r = m
<1>1. route \in Seq(Requests \cup {AllGone}) /\ RouteSize \in Nat
  BY SizesAssumption DEF Shape
<1>2. /\ DOMAIN route = 1..Len(route) /\ Len(route) \in Nat
      /\ route' \in Seq(Requests \cup {AllGone}) /\ Len(route') = Len(route) + 1
      /\ DOMAIN route' = 1..(Len(route) + 1) /\ route'[Len(route) + 1] = m
      /\ \A i \in DOMAIN route : route'[i] = route[i]
  BY <1>1, AppendSeq
<1>3. \A i \in DOMAIN route' : i \in DOMAIN route \/ i = Len(route) + 1
  BY <1>2
<1>4. \A r : r \in ToSet(route') <=> r \in ToSet(route) \/ r = m
  BY <1>2, <1>3 DEF ToSet
<1>5. Once'
  <2>1. ASSUME NEW i \in DOMAIN route', NEW j \in DOMAIN route',
               route'[i] \in Requests, route'[i] = route'[j]
        PROVE  i = j
    <3>1. \A k \in DOMAIN route : route[k] \in ToSet(route)
      BY DEF ToSet
    <3> QED
      BY <1>2, <1>3, <2>1, <3>1 DEF Once
  <2>2. \A s \in Sessions : held'[s] \in Requests => held'[s] = held[s]
    BY FrameType
  <2>3. \A s, t \in Sessions : held'[s] \in Requests /\ held'[s] = held'[t] => s = t
    BY <2>2 DEF Once
  <2>4. \A s \in Sessions : held'[s] \in Requests => held'[s] \notin ToSet(route')
    BY <1>4, <2>2 DEF Once
  <2> QED
    BY <2>1, <2>3, <2>4 DEF Once
<1> QED
  BY <1>1, <1>2, <1>4, <1>5

(* The handler takes a request, which then waits no more.                  *)
LEMMA RouteShrinks ==
  ASSUME Shape, Once, route # <<>>, route' = Tail(route), UNCHANGED held
  PROVE  /\ route' \in Seq(Requests \cup {AllGone}) /\ Len(route') <= RouteSize /\ Once'
         /\ \A r : Waits(r)' => Waits(r)
         /\ \A r \in Requests : r = Head(route) => Waits(r) /\ ~Waits(r)'
         /\ \A r : r # Head(route) => (Waits(r)' <=> Waits(r))
<1>1. route \in Seq(Requests \cup {AllGone}) /\ RouteSize \in Nat /\ Len(route) <= RouteSize
  BY SizesAssumption DEF Shape
<1>2. /\ DOMAIN route = 1..Len(route) /\ Len(route) \in Nat
      /\ 1 \in DOMAIN route /\ Head(route) = route[1]
      /\ route' \in Seq(Requests \cup {AllGone}) /\ Len(route') = Len(route) - 1
      /\ DOMAIN route' = 1..(Len(route) - 1)
      /\ \A i \in DOMAIN route' : i \in Nat \ {0} /\ i + 1 \in DOMAIN route /\ route'[i] = route[i + 1]
  BY <1>1, TailSeq
<1>3. ToSet(route') \subseteq ToSet(route) /\ Head(route) \in ToSet(route)
  BY <1>2 DEF ToSet
<1>4. \A r : Waits(r)' => Waits(r)
  BY <1>3 DEF Waits
<1>5. ASSUME NEW r \in Requests, r = Head(route)
      PROVE  Waits(r) /\ ~Waits(r)'
  <2>1. ASSUME NEW i \in DOMAIN route', route'[i] = r PROVE FALSE
    <3>1. i + 1 = 1
      BY <1>2, <1>5, <2>1 DEF Once
    <3> QED
      BY <1>2, <3>1
  <2>2. r \notin ToSet(route')
    BY <2>1 DEF ToSet
  <2>3. \A s \in Sessions : held[s] # r
    BY <1>3, <1>5 DEF Once
  <2> QED
    BY <1>3, <1>5, <2>2, <2>3 DEF Waits
<1>6. ASSUME NEW r, r # Head(route), Waits(r) PROVE Waits(r)'
  <2>1. CASE \E s \in Sessions : held[s] = r
    BY <2>1 DEF Waits
  <2>2. CASE r \in ToSet(route)
    <3>1. PICK i \in DOMAIN route : route[i] = r
      BY <2>2 DEF ToSet
    <3>2. i # 1
      BY <1>2, <1>6, <3>1
    <3>3. i - 1 \in DOMAIN route' /\ route'[i - 1] = r
      BY <1>2, <3>1, <3>2
    <3> QED
      BY <3>3 DEF Waits, ToSet
  <2> QED
    BY <1>6, <2>1, <2>2 DEF Waits
<1>7. Once'
  <2>1. ASSUME NEW i \in DOMAIN route', NEW j \in DOMAIN route',
               route'[i] \in Requests, route'[i] = route'[j]
        PROVE  i = j
    <3>1. i + 1 = j + 1
      BY <1>2, <2>1 DEF Once
    <3> QED
      BY <1>2, <3>1
  <2> QED
    BY <1>3, <2>1 DEF Once
<1> QED
  BY <1>1, <1>2, <1>4, <1>5, <1>6, <1>7

(* Steps that leave requests, tasks and forwarders alone.                  *)
LEMMA StillKeeps ==
  ASSUME SessionsInv, mirrored \subseteq mirrored',
         UNCHANGED <<held, owner, route, outgoing, task, persisted, mirror, fan, handle>>
  PROVE  /\ Once' /\ Asked' /\ Started' /\ Answers' /\ FanOrder' /\ RunningIsReachable'
         /\ \A r \in Requests, s \in Sessions : \A a : Past(r, s, a) => Past(r, s, a)'
<1>1. \A r : (Waits(r)' <=> Waits(r)) /\ (NoTask(r)' <=> NoTask(r))
  BY DEF Waits, NoTask
<1>2. \A r, a : Spent(r, a)' <=> Spent(r, a)
  BY <1>1 DEF Spent
<1>3. Once' /\ Asked'
  BY <1>1 DEF SessionsInv, Once, Asked
<1>4. Started'
  BY DEF SessionsInv, Started
<1>5. FanOrder'
  BY <1>2 DEF SessionsInv, FanOrder
<1>6. Answers'
  BY <1>1, <1>2 DEF SessionsInv, Answers
<1>7. RunningIsReachable'
  BY DEF SessionsInv, RunningIsReachable, Running
<1>8. \A r \in Requests, s \in Sessions : \A a : Past(r, s, a) => Past(r, s, a)'
  BY <1>2 DEF Past
<1> QED
  BY <1>3, <1>4, <1>5, <1>6, <1>7, <1>8

(* What is spent of a request stays so in steps that keep its task, or end *)
(* a running one, and do not make it wait.                                 *)
LEMMA KeepsSpent ==
  ASSUME NEW r \in Requests, owner[r] # None => owner'[r] # None, Waits(r)' => Waits(r),
         task'[r] = task[r] \/ (Running(r) /\ task'[r] = "dying"),
         \A t \in Sessions : handle'[t] = r => handle[t] = r \/ task[r] = "none"
  PROVE  /\ NoTask(r) => NoTask(r)'
         /\ \A a : Spent(r, a) => Spent(r, a)'
<1>1. NoTask(r) => NoTask(r)'
  BY DEF NoTask, Running
<1>2. ASSUME NEW a, Spent(r, a) PROVE Spent(r, a)'
  BY <1>1, <1>2, Spending DEF Running
<1> QED
  BY <1>1, <1>2

(* What an abort changes.                                                  *)
LEMMA Aborted ==
  ASSUME Shape, NEW x \in Requests \cup {None}
  PROVE  /\ Abort(task, x) \in [Requests -> TaskStages]
         /\ \A r \in Requests : Abort(task, x)[r] = IF r = x /\ Running(r) THEN "dying" ELSE task[r]
<1>1. task \in [Requests -> TaskStages]
  BY DEF Shape
<1>2. CASE x # None /\ Running(x)
  <2>1. x \in Requests /\ Abort(task, x) = [task EXCEPT ![x] = "dying"]
    BY <1>2 DEF Abort
  <2>2. "dying" \in TaskStages
    BY DEF TaskStages
  <2> QED
    BY <1>1, <1>2, <2>1, <2>2
<1>3. CASE ~(x # None /\ Running(x))
  BY <1>1, <1>3, FrameType DEF Abort
<1> QED
  BY <1>2, <1>3

(* A cancel ends the task its session's handle names.                      *)
LEMMA CancelKeeps ==
  ASSUME SessionsInv, NEW s \in Sessions, CancelGeneration(s), outgoing = NoSend, Once',
         \A r : Waits(r)' => Waits(r),
         UNCHANGED <<owner, persisted, mirror, fan, mirrored, direct>>
  PROVE  /\ task' \in [Requests -> TaskStages]
         /\ handle' \in [Sessions -> Requests \cup {None}]
         /\ outgoing' \in [to : Sessions \cup {None}, frame : Frame]
         /\ Asked' /\ Started' /\ Answers' /\ FanOrder' /\ DirectOrder' /\ RunningIsReachable'
<1>1. /\ task \in [Requests -> TaskStages]
      /\ handle \in [Sessions -> Requests \cup {None}]
      /\ outgoing \in [to : Sessions \cup {None}, frame : Frame]
      /\ direct \in [Sessions -> Seq(Frame)]
  BY DEF SessionsInv, Shape
<1>2. /\ task' \in [Requests -> TaskStages]
      /\ \A r \in Requests : task'[r] = IF r = handle[s] /\ Running(r) THEN "dying" ELSE task[r]
      /\ handle' \in [Sessions -> Requests \cup {None}]
      /\ \A t \in Sessions : handle'[t] = IF t = s THEN None ELSE handle[t]
      /\ outgoing' \in [to : Sessions \cup {None}, frame : Frame]
      /\ outgoing'.frame.of = handle[s] /\ outgoing'.frame.kind = "cancelled"
      /\ handle[s] = None => outgoing' = NoSend
  <2>1. CASE handle[s] = None
    BY <1>1, <2>1, FrameType DEF CancelGeneration
  <2>2. CASE handle[s] # None
    <3>1. /\ task' = Abort(task, handle[s]) /\ handle' = [handle EXCEPT ![s] = None]
          /\ outgoing' = [to |-> s, frame |-> Frm(handle[s], "cancelled")]
      BY <2>2 DEF CancelGeneration
    <3>2. handle[s] \in Requests \cup {None} /\ Shape
      BY <1>1 DEF SessionsInv
    <3>3. outgoing' \in [to : Sessions \cup {None}, frame : Frame]
          /\ outgoing'.frame.of = handle[s] /\ outgoing'.frame.kind = "cancelled"
      BY <3>1, <3>2, FrameType DEF Kinds
    <3> QED
      BY <1>1, <2>2, <3>1, <3>2, <3>3, Aborted, FrameType
  <2> QED
    BY <2>1, <2>2
<1>3. \A r \in Requests : task'[r] = "none" <=> task[r] = "none"
  BY <1>2 DEF Running
<1>4. handle[s] \in Requests => task[handle[s]] # "none" /\ owner[handle[s]] = s
  BY DEF SessionsInv, Started
<1>5. Asked' /\ Started'
  <2>1. Asked'
    BY <1>3 DEF SessionsInv, Asked
  <2>2. Started'
    <3>1. ASSUME NEW r \in Requests
          PROVE  /\ task'[r] = "none" => fan[r] = <<>> /\ mirror[r] = None
                 /\ owner[r] = None => task'[r] = "none"
                 /\ mirror[r] \in Sessions => mirror[r] # owner[r]
      BY <1>3 DEF SessionsInv, Started
    <3>2. ASSUME NEW t \in Sessions, handle'[t] \in Requests
          PROVE  task'[handle'[t]] # "none" /\ owner[handle'[t]] = t
      <4>1. handle'[t] = handle[t]
        BY <1>2, <3>2, FrameType
      <4> QED
        BY <1>3, <3>2, <4>1 DEF SessionsInv, Started
    <3> QED
      BY <3>1, <3>2 DEF Started
  <2> QED
    BY <2>1, <2>2
<1>6. \A r \in Requests : \A a : Spent(r, a) => Spent(r, a)'
  <2> SUFFICES ASSUME NEW r \in Requests PROVE \A a : Spent(r, a) => Spent(r, a)'
    OBVIOUS
  <2>1. \A t \in Sessions : handle'[t] = r => handle[t] = r \/ task[r] = "none"
    BY <1>2, FrameType
  <2> QED
    BY <1>2, <2>1, KeepsSpent
<1>7. Answers'
  <2>1. ASSUME NEW h \in Requests, h = handle[s] PROVE Spent(h, "cancelled")'
    <3>1. task'[h] # "none"
      BY <1>3, <1>4, <2>1
    <3>2. \A t \in Sessions : handle'[t] # h
      BY <1>2, <1>4, <2>1, FrameType DEF SessionsInv, Started
    <3> QED
      BY <3>1, <3>2 DEF Spent
  <2>2. outgoing'.frame.of = handle[s] /\ outgoing'.frame.kind = "cancelled"
    BY <1>2
  <2>3. outgoing' # NoSend => handle[s] \in Requests
    BY <1>1, <1>2
  <2> QED
    BY <2>1, <2>2, <2>3 DEF Answers
<1>8. FanOrder'
  BY <1>6 DEF SessionsInv, FanOrder
<1>9. \A r \in Requests, t \in Sessions : \A a : Past(r, t, a) => Past(r, t, a)'
  <2> SUFFICES ASSUME NEW r \in Requests, NEW t \in Sessions, NEW a, Past(r, t, a)
               PROVE  Past(r, t, a)'
    OBVIOUS
  <2>1. a \in Kinds /\ Spent(r, a) /\ Spent(r, a)'
    BY <1>6 DEF Past
  <2>2. r = handle[s] => MayFollow(a, "cancelled")
    <3>1. r = handle[s] => a # "cancelled" /\ a # "output"
      BY <1>4, <2>1 DEF Spent, NoTask
    <3> QED
      BY <2>1, <3>1, Follows DEF Kinds
  <2> QED
    BY <1>2, <2>1, <2>2 DEF Past
<1>10. DirectOrder'
  BY <1>9, DirectShrinks DEF SessionsInv
<1>11. RunningIsReachable'
  <2> SUFFICES ASSUME NEW r \in Requests, Running(r)' PROVE handle'[owner[r]] = r
    BY DEF RunningIsReachable
  <2>1. Running(r) /\ r # handle[s]
    BY <1>2 DEF Running
  <2>2. owner[r] \in Sessions
    BY <2>1 DEF SessionsInv, Shape, Started, Running
  <2>3. handle[owner[r]] = r
    BY <2>1 DEF SessionsInv, RunningIsReachable
  <2> QED
    BY <1>2, <2>1, <2>2, <2>3
<1> QED
  BY <1>2, <1>5, <1>7, <1>8, <1>10, <1>11

-----------------------------------------------------------------------------
(* Connections                                                             *)

(* A connection that begins leaves everything in place.                    *)
LEMMA ConnectKeeps ==
  ASSUME SessionsInv, NEW s \in Sessions, Connect(s)
  PROVE  SessionsInv'
<1>1. conn' \in [Sessions -> {"off", "on", "leaked", "gone"}]
  BY DEF SessionsInv, Shape, Connect
<1>2. UNCHANGED <<lastOut, held, owner, route, clearing, outgoing, handle, lease, task, chunks,
                  persisted, mirror, fan, mirrored, direct, closed>>
  BY DEF Connect, handlerVars, stateVars, taskVars, fanVars
<1>3. Shape'
  BY <1>1, <1>2 DEF SessionsInv, Shape
<1>4. DirectOrder'
  BY <1>2, StillKeeps, DirectShrinks DEF SessionsInv
<1> QED
  BY <1>2, <1>3, <1>4, StillKeeps DEF SessionsInv

(* A request that is read is new, whether the loop must hold it or not.    *)
LEMMA ReadKeeps ==
  ASSUME SessionsInv, NEW s \in Sessions, NEW r \in Requests, Read(s, r)
  PROVE  SessionsInv'
<1>1. /\ held[s] = None /\ owner[r] = None /\ owner' = [owner EXCEPT ![r] = s]
      /\ \/ Len(route) < RouteSize /\ route' = Append(route, r) /\ UNCHANGED held
         \/ held' = [held EXCEPT ![s] = r] /\ UNCHANGED route
      /\ UNCHANGED <<conn, lastOut, clearing, outgoing, handle, lease, task, chunks,
                     persisted, mirror, fan, mirrored, direct, closed>>
  BY DEF Read, Selects, handlerVars, stateVars, taskVars, fanVars
<1>2. /\ owner' \in [Requests -> Sessions \cup {None}] /\ owner'[r] = s
      /\ \A x \in Requests : x # r => owner'[x] = owner[x]
  BY <1>1 DEF SessionsInv, Shape
<1>3. task[r] = "none" /\ ~Waits(r) /\ r \notin ToSet(route) /\ \A t \in Sessions : held[t] # r
  BY <1>1, FrameType DEF SessionsInv, Asked, Started, Waits
<1>4. /\ route' \in Seq(Requests \cup {AllGone}) /\ Len(route') <= RouteSize
      /\ held' \in [Sessions -> Requests \cup {None}] /\ Once'
      /\ \A x : Waits(x)' => Waits(x) \/ x = r
  <2>1. CASE Len(route) < RouteSize /\ route' = Append(route, r) /\ UNCHANGED held
    <3>1. /\ route' \in Seq(Requests \cup {AllGone}) /\ Len(route') <= RouteSize /\ Once'
          /\ \A x : x \in ToSet(route') <=> x \in ToSet(route) \/ x = r
      BY <1>3, <2>1, RouteGrows DEF SessionsInv
    <3> QED
      BY <2>1, <3>1 DEF Waits, SessionsInv, Shape
  <2>2. CASE held' = [held EXCEPT ![s] = r] /\ UNCHANGED route
    <3>1. /\ held' \in [Sessions -> Requests \cup {None}] /\ held'[s] = r
          /\ \A t \in Sessions : t # s => held'[t] = held[t]
      BY <2>2 DEF SessionsInv, Shape
    <3>2. Once'
      BY <1>3, <2>2, <3>1 DEF SessionsInv, Once
    <3>3. \A x : Waits(x)' => Waits(x) \/ x = r
      BY <2>2, <3>1 DEF Waits
    <3> QED
      BY <2>2, <3>1, <3>2, <3>3 DEF SessionsInv, Shape
  <2> QED
    BY <1>1, <2>1, <2>2
<1>5. Shape'
  BY <1>1, <1>2, <1>4 DEF SessionsInv, Shape
<1>6. Asked'
  BY <1>1, <1>2, <1>3, <1>4 DEF SessionsInv, Asked
<1>7. Started'
  <2>1. ASSUME NEW x \in Requests
        PROVE  /\ task[x] = "none" => fan[x] = <<>> /\ mirror[x] = None
               /\ owner'[x] = None => task[x] = "none"
               /\ mirror[x] \in Sessions => mirror[x] # owner'[x]
    <3>1. CASE x = r
      BY <1>1, <1>2, <1>3, <3>1, FrameType DEF SessionsInv, Started
    <3>2. CASE x # r
      BY <1>1, <1>2, <3>2 DEF SessionsInv, Started
    <3> QED
      BY <3>1, <3>2
  <2>2. ASSUME NEW t \in Sessions, handle[t] \in Requests
        PROVE  task[handle[t]] # "none" /\ owner'[handle[t]] = t
    <3>1. task[handle[t]] # "none" /\ owner[handle[t]] = t
      BY <2>2 DEF SessionsInv, Started
    <3> QED
      BY <1>2, <1>3, <2>2, <3>1
  <2> QED
    BY <1>1, <2>1, <2>2 DEF Started
<1>8. \A x \in Requests : NoTask(x) => NoTask(x)' /\ x # r
  <2> SUFFICES ASSUME NEW x \in Requests, NoTask(x) PROVE NoTask(x)' /\ x # r
    OBVIOUS
  <2>1. x # r
    BY <1>1 DEF NoTask
  <2> QED
    BY <1>1, <1>2, <1>4, <2>1 DEF NoTask
<1>9. \A x \in Requests : \A a : Spent(x, a) => Spent(x, a)'
  BY <1>1, <1>8, Spending
<1>10. Answers'
  BY <1>1, <1>8, <1>9 DEF SessionsInv, Answers
<1>11. FanOrder'
  BY <1>1, <1>9 DEF SessionsInv, FanOrder
<1>12. \A x \in Requests, t \in Sessions : \A a : Past(x, t, a) => Past(x, t, a)'
  <2> SUFFICES ASSUME NEW x \in Requests, NEW t \in Sessions, NEW a, Past(x, t, a)
               PROVE  Past(x, t, a)'
    OBVIOUS
  <2>1. CASE x = r
    <3>1. fan[x] = <<>> /\ DOMAIN fan[x] = {}
      BY <1>3, <2>1 DEF SessionsInv, Started
    <3> QED
      BY <1>1, <1>9, <3>1 DEF Past
  <2>2. CASE x # r
    BY <1>1, <1>2, <1>9, <2>2 DEF Past
  <2> QED
    BY <2>1, <2>2
<1>13. DirectOrder'
  BY <1>1, <1>12, DirectShrinks DEF SessionsInv
<1>14. RunningIsReachable'
  <2> SUFFICES ASSUME NEW x \in Requests, Running(x)' PROVE handle[owner'[x]] = x
    BY <1>1 DEF RunningIsReachable
  <2>1. Running(x) /\ x # r
    BY <1>1, <1>3 DEF Running
  <2> QED
    BY <1>2, <2>1 DEF SessionsInv, RunningIsReachable
<1> QED
  BY <1>4, <1>5, <1>6, <1>7, <1>10, <1>11, <1>13, <1>14 DEF SessionsInv

(* Steps that change where requests wait, but not which.                   *)
LEMMA WaitingKeeps ==
  ASSUME SessionsInv, \A r \in Requests : Waits(r)' <=> Waits(r),
         UNCHANGED <<owner, outgoing, task, persisted, mirror, fan, mirrored, handle, direct>>
  PROVE  Asked' /\ Started' /\ Answers' /\ FanOrder' /\ DirectOrder' /\ RunningIsReachable'
<1>1. \A r \in Requests : NoTask(r)' <=> NoTask(r)
  BY DEF NoTask
<1>2. \A r \in Requests : \A a : Spent(r, a)' <=> Spent(r, a)
  BY <1>1 DEF Spent
<1>3. Asked' /\ Started'
  BY DEF SessionsInv, Asked, Started
<1>4. Answers' /\ FanOrder'
  BY <1>1, <1>2 DEF SessionsInv, Answers, FanOrder
<1>5. \A r \in Requests, s \in Sessions : \A a : Past(r, s, a) => Past(r, s, a)'
  BY <1>2 DEF Past
<1>6. DirectOrder'
  BY <1>5, DirectShrinks DEF SessionsInv
<1>7. RunningIsReachable'
  BY DEF SessionsInv, RunningIsReachable, Running
<1> QED
  BY <1>3, <1>4, <1>6, <1>7

(* The loop that held a request passes it on.                              *)
LEMMA PassOnKeeps ==
  ASSUME SessionsInv, NEW s \in Sessions, PassOn(s)
  PROVE  SessionsInv'
<1>1. /\ held[s] # None /\ Len(route) < RouteSize /\ route' = Append(route, held[s])
      /\ held' = [held EXCEPT ![s] = None]
      /\ UNCHANGED <<conn, lastOut, owner, clearing, outgoing, handle, lease, task, chunks,
                     persisted, mirror, fan, mirrored, direct, closed>>
  BY DEF PassOn, handlerVars, stateVars, taskVars, fanVars
<1>2. PICK r \in Requests : r = held[s]
  BY <1>1 DEF SessionsInv, Shape
<1>3. /\ held' \in [Sessions -> Requests \cup {None}] /\ held'[s] = None
      /\ \A t \in Sessions : t # s => held'[t] = held[t] /\ held[t] # r
  BY <1>1, <1>2 DEF SessionsInv, Shape, Once
<1>4. /\ route' \in Seq(Requests \cup {AllGone}) /\ Len(route') <= RouteSize /\ Once'
      /\ \A x : x \in ToSet(route') <=> x \in ToSet(route) \/ x = r
  <2>1. \A t \in Sessions : held'[t] \in {held[t], None} /\ held'[t] # r
    BY <1>3, FrameType
  <2>2. r \notin ToSet(route)
    BY <1>2 DEF SessionsInv, Once
  <2>3. Shape /\ Once /\ route' = Append(route, r)
    BY <1>1, <1>2 DEF SessionsInv
  <2> QED
    BY <1>1, <2>1, <2>2, <2>3, RouteGrows
<1>5. \A x \in Requests : Waits(x)' <=> Waits(x)
  BY <1>2, <1>3, <1>4, FrameType DEF Waits
<1>6. Shape'
  BY <1>1, <1>3, <1>4 DEF SessionsInv, Shape
<1> QED
  BY <1>1, <1>4, <1>5, <1>6, WaitingKeeps DEF SessionsInv

(* A frame that is delivered leaves its channel from the front.            *)
LEMMA DeliverKeeps ==
  ASSUME SessionsInv, NEW s \in Sessions, Deliver(s)
  PROVE  SessionsInv'
<1>1. /\ direct[s] # <<>> /\ direct' = [direct EXCEPT ![s] = Tail(@)]
      /\ closed' \in {closed, closed \cup {Head(direct[s]).of}}
      /\ UNCHANGED <<conn, lastOut, held, owner, route, clearing, outgoing, handle, lease, task,
                     chunks, persisted, mirror, fan, mirrored>>
  BY DEF Deliver, serverVars, handlerVars, stateVars, taskVars, fanVars
<1>2. direct \in [Sessions -> Seq(Frame)] /\ Len(direct[s]) <= DirectSize /\ DirectSize \in Nat
  BY SizesAssumption DEF SessionsInv, Shape
<1>3. /\ 1 \in DOMAIN direct[s] /\ Head(direct[s]) = direct[s][1]
      /\ Tail(direct[s]) \in Seq(Frame) /\ Len(Tail(direct[s])) <= DirectSize
  BY <1>1, <1>2, TailSeq
<1>4. closed' \in SUBSET Requests
  <2>1. Head(direct[s]).of \in Requests
    BY <1>3 DEF SessionsInv, DirectOrder, Past
  <2> QED
    BY <1>1, <2>1 DEF SessionsInv, Shape
<1>5. direct' \in [Sessions -> Seq(Frame)] /\ \A t \in Sessions : Len(direct'[t]) <= DirectSize
  BY <1>1, <1>2, <1>3 DEF SessionsInv, Shape
<1>6. Shape'
  BY <1>1, <1>4, <1>5 DEF SessionsInv, Shape
<1>7. \A t \in Sessions : direct'[t] = direct[t] \/ (direct[t] # <<>> /\ direct'[t] = Tail(direct[t]))
  BY <1>1, <1>2
<1>8. DirectOrder'
  BY <1>1, <1>7, StillKeeps, DirectShrinks DEF SessionsInv
<1> QED
  BY <1>1, <1>6, <1>8, StillKeeps DEF SessionsInv

(* A connection that ends loses what is in its channel.                    *)
LEMMA LeaveKeeps ==
  ASSUME SessionsInv, NEW s \in Sessions, Leave(s)
  PROVE  SessionsInv'
<1>1. /\ conn' = [conn EXCEPT ![s] = "gone"] /\ lastOut' \in {lastOut \cup {s}, lastOut}
      /\ direct' = [direct EXCEPT ![s] = <<>>]
      /\ UNCHANGED <<held, owner, route, clearing, outgoing, handle, lease, task, chunks,
                     persisted, mirror, fan, mirrored, closed>>
  BY DEF Leave, handlerVars, stateVars, taskVars, fanVars
<1>2. <<>> \in Seq(Frame) /\ Len(<<>>) <= DirectSize
  BY SizesAssumption
<1>3. direct' \in [Sessions -> Seq(Frame)] /\ \A t \in Sessions : Len(direct'[t]) <= DirectSize
  BY <1>1, <1>2 DEF SessionsInv, Shape
<1>4. Shape'
  BY <1>1, <1>3 DEF SessionsInv, Shape
<1>5. \A t \in Sessions : direct'[t] = direct[t] \/ direct'[t] = <<>>
  BY <1>1 DEF SessionsInv, Shape
<1>6. DirectOrder'
  BY <1>1, <1>5, StillKeeps, DirectShrinks DEF SessionsInv
<1> QED
  BY <1>1, <1>4, <1>6, StillKeeps DEF SessionsInv

(* The news that all are gone names no request.                            *)
LEMMA TellAllGoneKeeps ==
  ASSUME SessionsInv, NEW s \in Sessions, TellAllGone(s)
  PROVE  SessionsInv'
<1>1. /\ Len(route) < RouteSize /\ route' = Append(route, AllGone) /\ lastOut' = lastOut \ {s}
      /\ UNCHANGED <<conn, held, owner, clearing, outgoing, handle, lease, task, chunks,
                     persisted, mirror, fan, mirrored, direct, closed>>
  BY DEF TellAllGone, handlerVars, stateVars, taskVars, fanVars
<1>2. /\ route' \in Seq(Requests \cup {AllGone}) /\ Len(route') <= RouteSize /\ Once'
      /\ \A x : x \in ToSet(route') <=> x \in ToSet(route) \/ x = AllGone
  <2>1. \A t \in Sessions : held'[t] \in {held[t], None}
    BY <1>1
  <2> QED
    BY <1>1, <2>1, FrameType, RouteGrows DEF SessionsInv
<1>3. Shape'
  BY <1>1, <1>2 DEF SessionsInv, Shape
<1>4. \A x \in Requests : Waits(x)' <=> Waits(x)
  BY <1>1, <1>2, FrameType DEF Waits
<1> QED
  BY <1>1, <1>2, <1>3, <1>4, WaitingKeeps DEF SessionsInv

-----------------------------------------------------------------------------
(* The handler                                                             *)

(* A cancel that is taken from the channel.                                *)
LEMMA HandleCancelKeeps ==
  ASSUME SessionsInv, NEW r \in Requests, HandleCancel(r)
  PROVE  SessionsInv'
<1>1. /\ outgoing = NoSend /\ route # <<>> /\ Head(route) = r
      /\ route' = Tail(route) /\ CancelGeneration(owner[r])
      /\ UNCHANGED <<conn, lastOut, held, owner, clearing, lease, chunks, persisted, mirror,
                     fan, mirrored, direct, closed>>
  BY DEF HandleCancel, Takes, Idle, serverVars, fanVars
<1>2. /\ route' \in Seq(Requests \cup {AllGone}) /\ Len(route') <= RouteSize /\ Once'
      /\ \A x : Waits(x)' => Waits(x)
      /\ Waits(r)
  BY <1>1, RouteShrinks DEF SessionsInv
<1>3. owner[r] \in Sessions
  BY <1>2 DEF SessionsInv, Asked
<1>4. /\ task' \in [Requests -> TaskStages]
      /\ handle' \in [Sessions -> Requests \cup {None}]
      /\ outgoing' \in [to : Sessions \cup {None}, frame : Frame]
      /\ Asked' /\ Started' /\ Answers' /\ FanOrder' /\ DirectOrder' /\ RunningIsReachable'
  BY <1>1, <1>2, <1>3, CancelKeeps
<1>5. Shape'
  BY <1>1, <1>2, <1>4 DEF SessionsInv, Shape
<1> QED
  BY <1>2, <1>4, <1>5 DEF SessionsInv

(* One of the cancels after the last client left.                          *)
LEMMA CancelNextKeeps ==
  ASSUME SessionsInv, CancelNext
  PROVE  SessionsInv'
<1>1. PICK s \in Sessions : CancelGeneration(s)
  BY DEF CancelNext
<1>2. /\ outgoing = NoSend
      /\ UNCHANGED <<conn, lastOut, held, owner, route, clearing, lease, chunks, persisted,
                     mirror, fan, mirrored, direct, closed>>
  BY DEF CancelNext, serverVars, fanVars
<1>3. Once' /\ \A r : Waits(r)' => Waits(r)
  BY <1>2 DEF SessionsInv, Once, Waits
<1>4. /\ task' \in [Requests -> TaskStages]
      /\ handle' \in [Sessions -> Requests \cup {None}]
      /\ outgoing' \in [to : Sessions \cup {None}, frame : Frame]
      /\ Asked' /\ Started' /\ Answers' /\ FanOrder' /\ DirectOrder' /\ RunningIsReachable'
  BY <1>1, <1>2, <1>3, CancelKeeps
<1>5. Shape'
  BY <1>2, <1>4 DEF SessionsInv, Shape
<1> QED
  BY <1>3, <1>4, <1>5 DEF SessionsInv

(* A task that starts ends the one its session's handle names.             *)
LEMMA LaunchKeeps ==
  ASSUME SessionsInv, NEW r \in Requests, NEW message \in BOOLEAN, Launch(r, message)
  PROVE  SessionsInv'
<1> DEFINE s == owner[r]
<1>1. /\ outgoing = NoSend /\ route # <<>> /\ Head(route) = r /\ route' = Tail(route)
      /\ UNCHANGED <<conn, lastOut, held, owner, clearing, outgoing, chunks, persisted, fan,
                     mirrored, direct, closed>>
  BY DEF Launch, Takes, Idle, serverVars, handlerVars
<1>2. /\ route' \in Seq(Requests \cup {AllGone}) /\ Len(route') <= RouteSize /\ Once'
      /\ \A x : Waits(x)' => Waits(x)
      /\ Waits(r) /\ ~Waits(r)'
  BY <1>1, RouteShrinks DEF SessionsInv
<1>3. s \in Sessions /\ task[r] = "none"
  BY <1>2 DEF SessionsInv, Asked
<1>4. /\ task \in [Requests -> TaskStages]
      /\ handle \in [Sessions -> Requests \cup {None}]
      /\ mirror \in [Requests -> Sessions \cup {None}]
      /\ lease \in Sessions \cup {None}
  BY DEF SessionsInv, Shape
<1> DEFINE Starts == /\ task' = [Abort(task, handle[s]) EXCEPT ![r] = "streaming"]
                     /\ handle' = [handle EXCEPT ![s] = r]
                     /\ \E m \in Sessions \cup {None} : m # s /\ mirror' = [mirror EXCEPT ![r] = m]
<1>5. /\ Starts \/ UNCHANGED <<task, handle, mirror>>
      /\ lease' \in Sessions \cup {None}
  <2>1. \A h : \A m \in Mirrors(s, h) : m = None \/ (m # s /\ m \in Sessions)
    BY DEF Mirrors, Registered
  <2> DEFINE holder == IF message THEN s ELSE lease
  <2>2. holder \in Sessions \cup {None}
    BY <1>3, <1>4
  <2>3. CASE s \in Registered
    <3>1. PICK m \in Mirrors(s, holder) :
             /\ mirror' = [mirror EXCEPT ![r] = m]
             /\ lease' = IF holder = s \/ m # None THEN holder ELSE None
      BY <2>3 DEF Launch
    <3>2. /\ task' = [Abort(task, handle[s]) EXCEPT ![r] = "streaming"]
          /\ handle' = [handle EXCEPT ![s] = r]
      BY <2>3 DEF Launch
    <3>3. m \in Sessions \cup {None} /\ m # s
      BY <2>1, <1>3, FrameType
    <3> QED
      BY <2>2, <3>1, <3>2, <3>3
  <2>4. CASE s \notin Registered
    BY <2>2, <2>4 DEF Launch
  <2> QED
    BY <2>3, <2>4
<1> HIDE DEF s
<1>6. /\ task' \in [Requests -> TaskStages]
      /\ handle' \in [Sessions -> Requests \cup {None}]
      /\ mirror' \in [Requests -> Sessions \cup {None}]
      /\ \A x \in Requests : x # r =>
           /\ mirror'[x] = mirror[x]
           /\ task'[x] = task[x] \/ (Running(x) /\ task'[x] = "dying")
           /\ Running(x)' => Running(x) /\ (x = handle[s] => UNCHANGED <<task, handle>>)
      /\ \A t \in Sessions : t # s => handle'[t] = handle[t]
      /\ \/ task'[r] = "streaming" /\ handle'[s] = r /\ mirror'[r] # s
         \/ UNCHANGED <<task, handle, mirror>>
  <2>1. CASE UNCHANGED <<task, handle, mirror>>
    BY <1>4, <2>1 DEF Running
  <2>2. CASE Starts
    <3> DEFINE after == Abort(task, handle[s])
    <3>1. /\ after \in [Requests -> TaskStages]
          /\ \A x \in Requests : after[x] = IF x = handle[s] /\ Running(x) THEN "dying" ELSE task[x]
      BY <1>3, <1>4, Aborted DEF SessionsInv
    <3>2. task' = [after EXCEPT ![r] = "streaming"] /\ "streaming" \in TaskStages
      BY <2>2 DEF TaskStages
    <3> HIDE DEF after
    <3>3. /\ task' \in [Requests -> TaskStages]
          /\ task'[r] = "streaming" /\ \A x \in Requests : x # r => task'[x] = after[x]
      BY <3>1, <3>2
    <3>4. PICK m \in Sessions \cup {None} : m # s /\ mirror' = [mirror EXCEPT ![r] = m]
      BY <2>2
    <3>5. /\ mirror' \in [Requests -> Sessions \cup {None}] /\ mirror'[r] # s
          /\ \A x \in Requests : x # r => mirror'[x] = mirror[x]
      BY <1>4, <3>4
    <3>6. /\ handle' \in [Sessions -> Requests \cup {None}] /\ handle'[s] = r
          /\ \A t \in Sessions : t # s => handle'[t] = handle[t]
      BY <1>3, <1>4, <2>2
    <3>7. \A x \in Requests : x # r =>
            /\ task'[x] = task[x] \/ (Running(x) /\ task'[x] = "dying")
            /\ Running(x)' => Running(x) /\ x # handle[s]
      BY <3>1, <3>3 DEF Running
    <3> QED
      BY <3>3, <3>5, <3>6, <3>7
  <2> QED
    BY <1>5, <2>1, <2>2
<1>7. Shape'
  BY <1>1, <1>2, <1>5, <1>6 DEF SessionsInv, Shape
<1>8. fan[r] = <<>> /\ mirror[r] = None /\ s = owner[r]
  BY <1>3 DEF SessionsInv, Started, s
<1>9. Asked'
  <2> SUFFICES ASSUME NEW x \in Requests, Waits(x)' PROVE owner[x] \in Sessions /\ task'[x] = "none"
    BY <1>1 DEF Asked
  <2>1. x # r /\ owner[x] \in Sessions /\ task[x] = "none"
    BY <1>2 DEF SessionsInv, Asked
  <2> QED
    BY <1>6, <2>1 DEF Running
<1>10. Started'
  <2>1. ASSUME NEW x \in Requests
        PROVE  /\ task'[x] = "none" => fan[x] = <<>> /\ mirror'[x] = None
               /\ owner[x] = None => task'[x] = "none"
               /\ mirror'[x] \in Sessions => mirror'[x] # owner[x]
    <3>1. CASE x = r
      BY <1>3, <1>6, <1>8, <3>1, FrameType
    <3>2. CASE x # r
      BY <1>6, <3>2 DEF SessionsInv, Started, Running
    <3> QED
      BY <3>1, <3>2
  <2>2. ASSUME NEW t \in Sessions, handle'[t] \in Requests
        PROVE  task'[handle'[t]] # "none" /\ owner[handle'[t]] = t
    <3>1. CASE handle'[t] = handle[t]
      <4>1. task[handle[t]] # "none" /\ owner[handle[t]] = t
        BY <2>2, <3>1 DEF SessionsInv, Started
      <4>2. task'[handle[t]] # "none"
        BY <1>3, <1>6, <2>2, <3>1, <4>1 DEF Running
      <4> QED
        BY <3>1, <4>1, <4>2
    <3>2. CASE handle'[t] # handle[t]
      BY <1>6, <1>8, <3>2
    <3> QED
      BY <3>1, <3>2
  <2> QED
    BY <1>1, <2>1, <2>2 DEF Started
<1>11. Answers'
  BY <1>1, FrameType DEF Answers
<1>12. \A x \in Requests : x # r =>
         (NoTask(x) => NoTask(x)') /\ \A a : Spent(x, a) => Spent(x, a)'
  <2> SUFFICES ASSUME NEW x \in Requests, x # r
               PROVE  (NoTask(x) => NoTask(x)') /\ \A a : Spent(x, a) => Spent(x, a)'
    OBVIOUS
  <2>1. \A t \in Sessions : handle'[t] = x => handle[t] = x
    BY <1>6
  <2> QED
    BY <1>1, <1>2, <1>6, <2>1, KeepsSpent
<1>13. FanOrder'
  <2> SUFFICES ASSUME NEW x \in Requests, NEW i \in DOMAIN fan[x]
               PROVE  Spent(x, fan[x][i].kind)'
    BY <1>1 DEF SessionsInv, FanOrder
  <2>1. x # r
    BY <1>8
  <2>2. Spent(x, fan[x][i].kind)
    BY DEF SessionsInv, FanOrder
  <2>3. \A a : Spent(x, a) => Spent(x, a)'
    BY <1>12, <2>1
  <2> QED
    BY <1>1, <2>2, <2>3
<1>14. \A x \in Requests, t \in Sessions : \A a : Past(x, t, a) => Past(x, t, a)'
  <2> SUFFICES ASSUME NEW x \in Requests, NEW t \in Sessions, NEW a, Past(x, t, a)
               PROVE  Past(x, t, a)'
    OBVIOUS
  <2>1. CASE x = r
    <3>1. a = "chunk"
      BY <1>2, <1>3, <2>1 DEF Past, Spent, NoTask, Kinds
    <3>2. Spent(x, a)'
      BY <3>1 DEF Spent
    <3> QED
      BY <3>1, <3>2, Follows DEF Past
  <2>2. CASE x # r
    BY <1>1, <1>12, <2>2 DEF Past
  <2> QED
    BY <2>1, <2>2
<1>15. DirectOrder'
  BY <1>1, <1>14, DirectShrinks DEF SessionsInv
<1>16. RunningIsReachable'
  <2> SUFFICES ASSUME NEW x \in Requests, Running(x)' PROVE handle'[owner[x]] = x
    BY <1>1 DEF RunningIsReachable
  <2>1. CASE UNCHANGED <<task, handle, mirror>>
    BY <2>1 DEF SessionsInv, RunningIsReachable, Running
  <2>2. CASE task'[r] = "streaming" /\ handle'[s] = r /\ ~UNCHANGED <<task, handle, mirror>>
    <3>1. CASE x = r
      BY <1>8, <2>2, <3>1
    <3>2. CASE x # r
      <4>1. Running(x) /\ owner[x] \in Sessions /\ handle[owner[x]] = x
        BY <1>6, <3>2 DEF SessionsInv, RunningIsReachable, Shape, Started, Running
      <4>2. CASE owner[x] # s
        BY <1>6, <4>1, <4>2
      <4>3. CASE owner[x] = s
        BY <1>6, <1>3, <2>2, <3>2, <4>1, <4>3
      <4> QED
        BY <4>2, <4>3
    <3> QED
      BY <3>1, <3>2
  <2> QED
    BY <1>6, <2>1, <2>2
<1> QED
  BY <1>2, <1>7, <1>9, <1>10, <1>11, <1>13, <1>15, <1>16 DEF SessionsInv

(* What the handler answers itself is for a request that gets no task.     *)
LEMMA AnsweredKeeps ==
  ASSUME SessionsInv, outgoing = NoSend, NEW r \in Requests, route # <<>>, Head(route) = r,
         route' = Tail(route), NEW k \in {"error", "output"},
         outgoing' = [to |-> owner[r], frame |-> Frm(r, k)],
         UNCHANGED <<conn, lastOut, held, owner, clearing, handle, lease, task, chunks,
                     persisted, mirror, fan, mirrored, direct, closed>>
  PROVE  SessionsInv'
<1>1. /\ route' \in Seq(Requests \cup {AllGone}) /\ Len(route') <= RouteSize /\ Once'
      /\ \A x : Waits(x)' => Waits(x)
      /\ Waits(r) /\ ~Waits(r)'
  BY RouteShrinks DEF SessionsInv
<1>2. owner[r] \in Sessions /\ task[r] = "none"
  BY <1>1 DEF SessionsInv, Asked
<1>3. /\ outgoing' \in [to : Sessions \cup {None}, frame : Frame]
      /\ outgoing'.frame.of = r /\ outgoing'.frame.kind = k
  <2>1. Frm(r, k) \in Frame /\ Frm(r, k).of = r /\ Frm(r, k).kind = k
    BY FrameType DEF Kinds
  <2>2. outgoing'.frame = Frm(r, k)
    OBVIOUS
  <2> QED
    BY <1>2, <2>1, <2>2
<1>4. Shape'
  BY <1>1, <1>3 DEF SessionsInv, Shape
<1>5. Asked' /\ Started'
  BY <1>1 DEF SessionsInv, Asked, Started
<1>6. \A x \in Requests : /\ NoTask(x) => NoTask(x)'
                          /\ \A a : Spent(x, a) => Spent(x, a)'
  BY <1>1, KeepsSpent
<1>7. Answers'
  <2>1. NoTask(r)'
    BY <1>1, <1>2, FrameType DEF NoTask
  <2> QED
    BY <1>3, <2>1 DEF Answers
<1>8. FanOrder'
  BY <1>6 DEF SessionsInv, FanOrder
<1>9. RunningIsReachable'
  BY DEF SessionsInv, RunningIsReachable, Running
<1>10. \A x \in Requests, t \in Sessions : \A a : Past(x, t, a) => Past(x, t, a)'
  <2> SUFFICES ASSUME NEW x \in Requests, NEW t \in Sessions, NEW a, Past(x, t, a)
               PROVE  Past(x, t, a)'
    OBVIOUS
  <2>1. x = r => a = "chunk"
    BY <1>1, <1>2 DEF Past, Spent, NoTask, Kinds
  <2>2. x = r => MayFollow(a, k)
    BY <2>1, Follows
  <2>3. Spent(x, a)'
    BY <1>6 DEF Past
  <2> QED
    BY <1>3, <2>2, <2>3 DEF Past
<1>11. DirectOrder'
  BY <1>10, DirectShrinks DEF SessionsInv
<1> QED
  BY <1>1, <1>4, <1>5, <1>7, <1>8, <1>9, <1>11 DEF SessionsInv

(* The last client's leaving is taken from the channel.                    *)
LEMMA StartAllGoneKeeps ==
  ASSUME SessionsInv, StartAllGone
  PROVE  SessionsInv'
<1>1. /\ route # <<>> /\ Head(route) = AllGone /\ route' = Tail(route) /\ clearing' = TRUE
      /\ UNCHANGED <<conn, lastOut, held, owner, outgoing, handle, lease, task, chunks,
                     persisted, mirror, fan, mirrored, direct, closed>>
  BY DEF StartAllGone, Takes, serverVars, stateVars, taskVars, fanVars
<1>2. /\ route' \in Seq(Requests \cup {AllGone}) /\ Len(route') <= RouteSize /\ Once'
      /\ \A r : r # AllGone => (Waits(r)' <=> Waits(r))
  BY <1>1, RouteShrinks DEF SessionsInv
<1>3. Shape'
  BY <1>1, <1>2 DEF SessionsInv, Shape
<1>4. \A r \in Requests : Waits(r)' <=> Waits(r)
  BY <1>2, FrameType
<1> QED
  BY <1>1, <1>2, <1>3, <1>4, WaitingKeeps DEF SessionsInv

(* All is cancelled.                                                       *)
LEMMA FinishAllGoneKeeps ==
  ASSUME SessionsInv, FinishAllGone
  PROVE  SessionsInv'
<1>1. /\ clearing' = FALSE /\ lease' = None
      /\ UNCHANGED <<conn, lastOut, held, owner, route, outgoing, handle, task, chunks,
                     persisted, mirror, fan, mirrored, direct, closed>>
  BY DEF FinishAllGone, serverVars, taskVars, fanVars
<1>2. Shape'
  BY <1>1 DEF SessionsInv, Shape
<1>3. DirectOrder'
  BY <1>1, StillKeeps, DirectShrinks DEF SessionsInv
<1> QED
  BY <1>1, <1>2, <1>3, StillKeeps DEF SessionsInv

(* What a send does to the channels.                                       *)
LEMMA SentType ==
  ASSUME Shape, NEW t \in Sessions \cup {None}, NEW f \in Frame, Sent(t, f)
  PROVE  /\ direct' \in [Sessions -> Seq(Frame)]
         /\ \A s \in Sessions : Len(direct'[s]) <= DirectSize
         /\ \/ UNCHANGED direct
            \/ t \in Sessions /\ direct' = [direct EXCEPT ![t] = Append(@, f)]
<1>1. DirectSize \in Nat /\ direct \in [Sessions -> Seq(Frame)]
      /\ \A s \in Sessions : Len(direct[s]) <= DirectSize
  BY SizesAssumption DEF Shape
<1>2. CASE UNCHANGED direct
  BY <1>1, <1>2
<1>3. CASE t \in Registered /\ Len(direct[t]) < DirectSize /\ direct' = [direct EXCEPT ![t] = Append(@, f)]
  <2>1. t \in Sessions
    BY <1>3 DEF Registered
  <2>2. Append(direct[t], f) \in Seq(Frame) /\ Len(Append(direct[t], f)) <= DirectSize
    BY <1>1, <1>3, <2>1, AppendSeq
  <2> QED
    BY <1>1, <1>3, <2>1, <2>2
<1> QED
  BY <1>2, <1>3 DEF Sent

(* What the handler sends may follow all that is on its way.               *)
LEMMA HandlerSendsKeeps ==
  ASSUME SessionsInv, HandlerSends
  PROVE  SessionsInv'
<1>1. PICK t \in Sessions \cup {None}, f \in Frame, r \in Requests :
        outgoing.to = t /\ outgoing.frame = f /\ f.of = r
  BY DEF HandlerSends, SessionsInv, Shape, Answers
<1>2. /\ Sent(t, f) /\ outgoing' = NoSend
      /\ UNCHANGED <<conn, lastOut, held, owner, route, clearing, handle, lease, task, chunks,
                     persisted, mirror, fan, mirrored, closed>>
  BY <1>1 DEF HandlerSends, serverVars, stateVars, taskVars, fanVars
<1>3. /\ direct' \in [Sessions -> Seq(Frame)]
      /\ \A s \in Sessions : Len(direct'[s]) <= DirectSize
      /\ UNCHANGED direct \/ (t \in Sessions /\ direct' = [direct EXCEPT ![t] = Append(@, f)])
  BY <1>2, SentType DEF SessionsInv
<1>4. Shape'
  BY <1>2, <1>3, FrameType DEF SessionsInv, Shape
<1>5. /\ \A x : (Waits(x)' <=> Waits(x)) /\ (NoTask(x)' <=> NoTask(x))
      /\ \A x, a : Spent(x, a)' <=> Spent(x, a)
  <2>1. \A x : (Waits(x)' <=> Waits(x)) /\ (NoTask(x)' <=> NoTask(x))
    BY <1>2 DEF Waits, NoTask
  <2> QED
    BY <1>2, <2>1 DEF Spent
<1>6. Once' /\ Asked' /\ Started'
  BY <1>2, <1>5 DEF SessionsInv, Once, Asked, Started
<1>7. FanOrder'
  BY <1>2, <1>5 DEF SessionsInv, FanOrder
<1>8. Answers'
  BY <1>2, FrameType DEF Answers
<1>9. RunningIsReachable'
  BY <1>2 DEF SessionsInv, RunningIsReachable, Running
<1>10. \A x \in Requests, s \in Sessions : \A a : Past(x, s, a) => Past(x, s, a)'
  BY <1>2, <1>5, FrameType DEF Past
<1>11. \A a : Past(f.of, t, a) => MayFollow(a, f.kind)
  BY <1>1 DEF Past
<1>12. f.kind # "end" /\ \A x : x = f.of => Past(x, t, f.kind)'
  <2>1. /\ f.kind \in {"error", "output", "cancelled"}
        /\ IF f.kind = "cancelled" THEN Spent(r, f.kind) ELSE NoTask(r)
    BY <1>1 DEF SessionsInv, Answers
  <2>2. Spent(r, f.kind)'
    BY <1>5, <2>1 DEF Spent
  <2>3. \A i \in DOMAIN fan[r] : MayFollow(f.kind, fan[r][i].kind)
    <3>1. CASE f.kind = "cancelled"
      BY <3>1, Follows DEF SessionsInv, FanOrder
    <3>2. CASE f.kind # "cancelled"
      BY <2>1, <3>2 DEF SessionsInv, Started, NoTask
    <3> QED
      BY <3>1, <3>2
  <2>4. outgoing'.frame.of # r
    BY <1>2, FrameType
  <2>5. Past(r, t, f.kind)'
    BY <1>2, <2>1, <2>2, <2>3, <2>4 DEF Past, Kinds
  <2> QED
    BY <1>1, <2>1, <2>5
<1>13. DirectOrder'
  <2>1. CASE UNCHANGED direct
    BY <1>2, <1>10, <2>1, DirectShrinks DEF SessionsInv
  <2>2. CASE t \in Sessions /\ direct' = [direct EXCEPT ![t] = Append(@, f)]
    BY <1>2, <1>10, <1>11, <1>12, <2>2, DirectGrows DEF SessionsInv
  <2> QED
    BY <1>3, <2>1, <2>2
<1> QED
  BY <1>4, <1>6, <1>7, <1>8, <1>9, <1>13 DEF SessionsInv

-----------------------------------------------------------------------------
(* Tasks and their forwarders                                              *)

(* A task that is not over sends, saves or ends: only the notice of an     *)
(* inline compaction comes after its last frame.                           *)
LEMMA TaskKeeps ==
  ASSUME SessionsInv, NEW r \in Requests, task[r] \in {"streaming", "saved", "dying", "phase"},
         NEW stage \in {"streaming", "saved", "dying", "phase", "over"},
         task' = [task EXCEPT ![r] = stage],
         stage \in {"streaming", "saved"} => Running(r),
         task[r] = "phase" => stage = "over",
         chunks' \in 0..MaxWork,
         persisted \subseteq persisted', persisted' \subseteq Requests,
         \/ UNCHANGED fan
         \/ \E k \in {"chunk", "end", "error", "phase"} :
              /\ Emit(r, k)
              /\ task[r] = "phase" <=> k = "phase"
              /\ k = "end" => stage \in {"phase", "over"} /\ r \in persisted'
              /\ k \in {"error", "phase"} => stage = "over",
         UNCHANGED notTaskVars
  PROVE  SessionsInv'
<1>1. UNCHANGED <<conn, lastOut, held, owner, route, clearing, outgoing, handle, lease, mirror,
                  mirrored, direct, closed>>
  BY DEF notTaskVars, serverVars, handlerVars, stateVars
<1>2. /\ task \in [Requests -> TaskStages]
      /\ fan \in [Requests -> Seq(Frame)] /\ \A x \in Requests : Len(fan[x]) <= FanSize
      /\ FanSize \in Nat
  BY SizesAssumption DEF SessionsInv, Shape
<1>3. /\ task' \in [Requests -> TaskStages]
      /\ task'[r] = stage /\ \A x \in Requests : x # r => task'[x] = task[x]
  BY <1>2 DEF TaskStages
<1> DEFINE Sends(k) ==
             /\ fan' = [fan EXCEPT ![r] = Append(@, Frm(r, k))] /\ Len(fan[r]) < FanSize
             /\ task[r] = "phase" <=> k = "phase"
             /\ k = "end" => stage \in {"phase", "over"} /\ r \in persisted'
             /\ k \in {"error", "phase"} => stage = "over"
<1>4. UNCHANGED fan \/ \E k \in {"chunk", "end", "error", "phase"} : Sends(k)
  BY DEF Emit
<1>5. \A k \in {"chunk", "end", "error", "phase"} :
        Frm(r, k) \in Frame /\ Frm(r, k).of = r /\ Frm(r, k).kind = k
  BY FrameType DEF Kinds
<1>6. /\ fan' \in [Requests -> Seq(Frame)] /\ \A x \in Requests : Len(fan'[x]) <= FanSize
      /\ \A x \in Requests : x # r => fan'[x] = fan[x]
  <2>1. CASE UNCHANGED fan
    BY <1>2, <2>1
  <2>2. ASSUME NEW k \in {"chunk", "end", "error", "phase"}, Sends(k)
        PROVE  /\ fan' \in [Requests -> Seq(Frame)]
               /\ \A x \in Requests : Len(fan'[x]) <= FanSize
               /\ \A x \in Requests : x # r => fan'[x] = fan[x]
    <3>1. Append(fan[r], Frm(r, k)) \in Seq(Frame) /\ Len(Append(fan[r], Frm(r, k))) <= FanSize
      BY <1>2, <1>5, <2>2, AppendSeq
    <3> QED
      BY <1>2, <2>2, <3>1
  <2> QED
    BY <1>4, <2>1, <2>2
<1>7. Shape'
  BY <1>1, <1>3, <1>6 DEF SessionsInv, Shape
<1>8. /\ \A x : Waits(x)' <=> Waits(x)
      /\ \A x \in Requests : NoTask(x)' <=> NoTask(x)
  <2>1. \A x : Waits(x)' <=> Waits(x)
    BY <1>1 DEF Waits
  <2> QED
    BY <1>1, <1>3, <2>1 DEF NoTask
<1>9. Once' /\ Asked'
  BY <1>1, <1>3, <1>8 DEF SessionsInv, Once, Asked
<1>10. Started'
  <2>1. ASSUME NEW x \in Requests
        PROVE  /\ task'[x] = "none" => fan'[x] = <<>> /\ mirror[x] = None
               /\ owner[x] = None => task'[x] = "none"
               /\ mirror[x] \in Sessions => mirror[x] # owner[x]
    <3>1. CASE x = r
      BY <1>3, <3>1 DEF SessionsInv, Started
    <3>2. CASE x # r
      BY <1>3, <1>6, <3>2 DEF SessionsInv, Started
    <3> QED
      BY <3>1, <3>2
  <2>2. \A s \in Sessions : handle[s] \in Requests =>
          task'[handle[s]] # "none" /\ owner[handle[s]] = s
    BY <1>3 DEF SessionsInv, Started
  <2> QED
    BY <1>1, <2>1, <2>2 DEF Started
<1>11. \A x \in Requests : \A a : Spent(x, a) => Spent(x, a)'
  <2> SUFFICES ASSUME NEW x \in Requests, NEW a, Spent(x, a) PROVE Spent(x, a)'
    OBVIOUS
  <2>1. /\ task[x] \in {"phase", "over"} => task'[x] \in {"phase", "over"}
        /\ task[x] = "over" => task'[x] = "over"
        /\ task[x] # "none" => task'[x] # "none"
    BY <1>3
  <2> QED
    BY <1>1, <1>8, <2>1, Spending
<1>12. Answers'
  BY <1>1, <1>8, <1>11 DEF SessionsInv, Answers
<1>13. ASSUME NEW k \in {"chunk", "end", "error", "phase"}, Sends(k)
       PROVE  /\ \A a \in Kinds : Spent(r, a) => MayFollow(a, k)
              /\ Spent(r, k)'
  <2>1. ASSUME NEW a \in Kinds, Spent(r, a) PROVE MayFollow(a, k)
    <3>1. a \in {"chunk", "cancelled"} \/ (a = "end" /\ task[r] = "phase")
      BY <2>1 DEF Spent, NoTask, Kinds
    <3> QED
      BY <1>13, <3>1, Follows
  <2>2. Spent(r, k)'
    BY <1>3, <1>13 DEF Spent
  <2> QED
    BY <2>1, <2>2
<1>14. FanOrder'
  <2> DEFINE InOrder(x, i) ==
               /\ fan'[x][i].of = x /\ fan'[x][i].kind \in {"chunk", "end", "error", "phase"}
               /\ \A a : a = fan'[x][i].kind => Spent(x, a)'
               /\ fan'[x][i].kind = "end" => x \in persisted'
               /\ \A j \in DOMAIN fan'[x] : i < j => MayFollow(fan'[x][i].kind, fan'[x][j].kind)
             Before(x, i) ==
               /\ fan[x][i].of = x /\ fan[x][i].kind \in {"chunk", "end", "error", "phase"}
               /\ Spent(x, fan[x][i].kind)
               /\ fan[x][i].kind = "end" => x \in persisted
               /\ \A j \in DOMAIN fan[x] : i < j => MayFollow(fan[x][i].kind, fan[x][j].kind)
  <2>1. \A x \in Requests : \A i \in DOMAIN fan[x] : Before(x, i)
    BY DEF SessionsInv, FanOrder
  <2>2. \A x \in Requests : \A i, a : a = fan[x][i].kind /\ Spent(x, fan[x][i].kind) => Spent(x, a)'
    BY <1>11
  <2>3. ASSUME NEW x \in Requests, fan'[x] = fan[x], NEW i \in DOMAIN fan'[x] PROVE InOrder(x, i)
    BY <2>1, <2>2, <2>3
  <2>4. ASSUME NEW k \in {"chunk", "end", "error", "phase"}, Sends(k), NEW i \in DOMAIN fan'[r]
        PROVE  InOrder(r, i)
    <3>1. fan'[r] = Append(fan[r], Frm(r, k))
      BY <1>2, <2>4
    <3>2. /\ DOMAIN fan[r] = 1..Len(fan[r]) /\ Len(fan[r]) \in Nat
          /\ DOMAIN fan'[r] = 1..(Len(fan[r]) + 1)
          /\ fan'[r][Len(fan[r]) + 1] = Frm(r, k)
          /\ \A j \in DOMAIN fan[r] : fan'[r][j] = fan[r][j]
      BY <1>2, <1>5, <3>1, AppendSeq
    <3>3. CASE i = Len(fan[r]) + 1
      <4>1. fan'[r][i] = Frm(r, k) /\ \A j \in DOMAIN fan'[r] : ~(i < j)
        BY <3>2, <3>3
      <4>2. fan'[r][i].of = r /\ fan'[r][i].kind = k
        BY <1>5, <4>1
      <4> QED
        BY <1>13, <2>4, <4>1, <4>2
    <3>4. CASE i # Len(fan[r]) + 1
      <4>1. i \in DOMAIN fan[r] /\ fan'[r][i] = fan[r][i] /\ Before(r, i)
        BY <2>1, <3>2, <3>4
      <4>2. MayFollow(fan[r][i].kind, k)
        BY <1>13, <2>4, <4>1 DEF Kinds
      <4>3. ASSUME NEW j \in DOMAIN fan'[r], i < j
            PROVE  MayFollow(fan'[r][i].kind, fan'[r][j].kind)
        <5>1. CASE j \in DOMAIN fan[r]
          BY <3>2, <4>1, <4>3, <5>1
        <5>2. CASE j = Len(fan[r]) + 1
          BY <1>5, <3>2, <4>1, <4>2, <5>2
        <5> QED
          BY <3>2, <5>1, <5>2
      <4> QED
        BY <2>2, <4>1, <4>3
    <3> QED
      BY <3>3, <3>4
  <2>5. ASSUME NEW x \in Requests, NEW i \in DOMAIN fan'[x] PROVE InOrder(x, i)
    <3>1. CASE fan'[x] = fan[x]
      BY <2>3, <3>1
    <3>2. CASE fan'[x] # fan[x]
      <4>1. x = r /\ \E k \in {"chunk", "end", "error", "phase"} : Sends(k)
        BY <1>4, <1>6, <3>2
      <4> QED
        BY <2>4, <2>5, <4>1
    <3> QED
      BY <3>1, <3>2
  <2> QED
    BY <2>5 DEF FanOrder
<1>15. \A x \in Requests, t \in Sessions : \A a : Past(x, t, a) => Past(x, t, a)'
  <2> SUFFICES ASSUME NEW x \in Requests, NEW t \in Sessions, NEW a, Past(x, t, a)
               PROVE  Past(x, t, a)'
    OBVIOUS
  <2>1. a \in Kinds /\ Spent(x, a) /\ Spent(x, a)'
    BY <1>11 DEF Past
  <2>2. CASE fan'[x] = fan[x]
    BY <1>1, <2>1, <2>2 DEF Past
  <2>3. CASE fan'[x] # fan[x]
    <3>1. PICK k \in {"chunk", "end", "error", "phase"} : Sends(k)
      BY <1>4, <2>3
    <3>2. x = r /\ MayFollow(a, k)
      BY <1>6, <1>13, <2>1, <2>3, <3>1
    <3>3. fan'[r] = Append(fan[r], Frm(r, k))
      BY <1>2, <3>1
    <3>4. /\ DOMAIN fan[r] = 1..Len(fan[r]) /\ Len(fan[r]) \in Nat
          /\ DOMAIN fan'[r] = 1..(Len(fan[r]) + 1)
          /\ fan'[r][Len(fan[r]) + 1].kind = k
          /\ \A j \in DOMAIN fan[r] : fan'[r][j] = fan[r][j]
      BY <1>2, <1>5, <3>3, AppendSeq
    <3>5. ASSUME NEW i \in DOMAIN fan'[r]
          PROVE  (i = 1 /\ r \in mirrored /\ t # owner[r]) \/ MayFollow(a, fan'[r][i].kind)
      <4>1. CASE i \in DOMAIN fan[r]
        BY <3>2, <3>4, <4>1 DEF Past
      <4>2. CASE i = Len(fan[r]) + 1
        BY <3>2, <3>4, <4>2
      <4> QED
        BY <3>4, <4>1, <4>2
    <3> QED
      BY <1>1, <2>1, <3>2, <3>5 DEF Past
  <2> QED
    BY <2>2, <2>3
<1>16. DirectOrder'
  BY <1>1, <1>15, DirectShrinks DEF SessionsInv
<1>17. RunningIsReachable'
  <2> SUFFICES ASSUME NEW x \in Requests, Running(x)' PROVE handle[owner[x]] = x
    BY <1>1 DEF RunningIsReachable
  <2>1. Running(x)
    BY <1>3 DEF Running
  <2> QED
    BY <2>1 DEF SessionsInv, RunningIsReachable
<1> QED
  BY <1>7, <1>9, <1>10, <1>12, <1>14, <1>16, <1>17 DEF SessionsInv

(* The six steps of a task.                                                *)
LEMMA TaskStepKeeps ==
  ASSUME SessionsInv, NEW r \in Requests,
         Chunk(r) \/ Persist(r) \/ End(r) \/ AnnouncePhase(r) \/ Fail(r) \/ Die(r)
  PROVE  SessionsInv'
<1>1. /\ task \in [Requests -> TaskStages]
      /\ chunks \in 0..MaxWork /\ persisted \in SUBSET Requests
      /\ MaxWork \in Nat
  BY SizesAssumption DEF SessionsInv, Shape
<1>2. CASE Chunk(r)
  <2>1. /\ task[r] = "streaming" /\ Emit(r, "chunk") /\ UNCHANGED <<task, persisted, notTaskVars>>
        /\ RoomForMore /\ chunks' = chunks + 1
    BY <1>2 DEF Chunk
  <2>2. chunks' \in 0..MaxWork
    <3>1. \A S \in SUBSET Requests : Cardinality(S) \in Nat
      BY RequestsFinite, FS_Subset, FS_CardinalityType
    <3>2. PICK m \in Nat, n \in Nat :
            /\ Cardinality({x \in Requests : owner[x] # None}) = m
            /\ Cardinality({x \in Requests : task[x] # "none"}) = n
      BY <3>1
    <3>3. m + n + chunks < MaxWork
      BY <2>1, <3>2 DEF RoomForMore
    <3> QED
      BY <1>1, <2>1, <3>2, <3>3
  <2>3. task' = [task EXCEPT ![r] = "streaming"]
    BY <1>1, <2>1
  <2> QED
    BY <1>1, <2>1, <2>2, <2>3, TaskKeeps DEF Running
<1>3. CASE Persist(r)
  <2>1. /\ task[r] \in {"streaming", "dying"} /\ persisted' = persisted \cup {r}
        /\ task' = After(r, "saved") /\ UNCHANGED <<chunks, fan, notTaskVars>>
    BY <1>3 DEF Persist
  <2>2. PICK stage \in {"saved", "over"} :
          task' = [task EXCEPT ![r] = stage] /\ (stage = "saved" => task[r] = "streaming")
    <3>1. CASE task[r] = "dying"
      BY <2>1, <3>1 DEF After
    <3>2. CASE task[r] # "dying"
      BY <2>1, <3>2 DEF After
    <3> QED
      BY <3>1, <3>2
  <2> QED
    BY <1>1, <2>1, <2>2, TaskKeeps DEF Running
<1>4. CASE End(r)
  BY <1>1, <1>4, TaskKeeps DEF End
<1>5. CASE AnnouncePhase(r)
  BY <1>1, <1>5, TaskKeeps DEF AnnouncePhase
<1>6. CASE Fail(r)
  BY <1>1, <1>6, TaskKeeps DEF Fail
<1>7. CASE Die(r)
  BY <1>1, <1>7, TaskKeeps DEF Die
<1> QED
  BY <1>2, <1>3, <1>4, <1>5, <1>6, <1>7

(* A forwarder's frame, and what is still to come after it.                *)
LEMMA FanHead ==
  ASSUME SessionsInv, NEW r \in Requests, fan[r] # <<>>
  PROVE  LET f == Head(fan[r])
         IN /\ 1 \in DOMAIN fan[r] /\ f = fan[r][1] /\ f \in Frame /\ f.of = r
            /\ Len(Tail(fan[r])) <= FanSize /\ Tail(fan[r]) \in Seq(Frame)
            /\ f.kind \in Kinds /\ Spent(r, f.kind)
            /\ f.kind = "end" => r \in persisted
            /\ outgoing.frame.of = r => MayFollow(f.kind, outgoing.frame.kind)
            /\ \A j \in DOMAIN fan[r] : j # 1 => MayFollow(f.kind, fan[r][j].kind)
<1>1. fan[r] \in Seq(Frame) /\ Len(fan[r]) <= FanSize /\ FanSize \in Nat
  BY SizesAssumption DEF SessionsInv, Shape
<1>2. /\ 1 \in DOMAIN fan[r] /\ Head(fan[r]) = fan[r][1] /\ Head(fan[r]) \in Frame
      /\ DOMAIN fan[r] = 1..Len(fan[r])
      /\ Tail(fan[r]) \in Seq(Frame) /\ Len(Tail(fan[r])) = Len(fan[r]) - 1 /\ Len(fan[r]) \in Nat
  BY <1>1, TailSeq
<1>3. /\ fan[r][1].of = r /\ fan[r][1].kind \in {"chunk", "end", "error", "phase"}
      /\ Spent(r, fan[r][1].kind)
      /\ fan[r][1].kind = "end" => r \in persisted
      /\ \A j \in DOMAIN fan[r] : 1 < j => MayFollow(fan[r][1].kind, fan[r][j].kind)
  BY <1>2 DEF SessionsInv, FanOrder
<1>4. \A j \in DOMAIN fan[r] : j # 1 => 1 < j
  BY <1>2
<1>5. outgoing.frame.of = r => outgoing.frame.kind = "cancelled"
  <2>1. ~NoTask(r)
    BY DEF SessionsInv, Started, NoTask
  <2> QED
    BY <2>1 DEF SessionsInv, Answers
<1>6. MayFollow(fan[r][1].kind, "cancelled")
  BY <1>3, Follows
<1> QED
  BY <1>1, <1>2, <1>3, <1>4, <1>5, <1>6 DEF Kinds

(* A forwarder serves the lease holder first, and goes on when it is gone. *)
LEMMA MirrorKeeps ==
  ASSUME SessionsInv, NEW r \in Requests, Mirror(r)
  PROVE  SessionsInv'
<1>1. /\ fan[r] # <<>> /\ r \notin mirrored /\ mirrored' = mirrored \cup {r}
      /\ UNCHANGED <<conn, lastOut, held, owner, route, clearing, outgoing, handle, lease, task,
                     chunks, persisted, mirror, fan, closed>>
      /\ UNCHANGED direct \/ (mirror[r] # None /\ Sent(mirror[r], Head(fan[r])))
  BY DEF Mirror, notForwarderVars, serverVars, handlerVars, stateVars, taskVars
<1>2. PICK f \in Frame : f = Head(fan[r]) /\ f.of = r
  BY <1>1, FanHead
<1>3. PICK t \in Sessions \cup {None} : t = mirror[r]
  BY DEF SessionsInv, Shape
<1>4. /\ direct' \in [Sessions -> Seq(Frame)]
      /\ \A s \in Sessions : Len(direct'[s]) <= DirectSize
      /\ UNCHANGED direct \/ (t \in Sessions /\ direct' = [direct EXCEPT ![t] = Append(@, f)])
  <2>1. CASE UNCHANGED direct
    BY <2>1 DEF SessionsInv, Shape
  <2>2. CASE Sent(t, f)
    BY <2>2, SentType DEF SessionsInv
  <2> QED
    BY <1>1, <1>2, <1>3, <2>1, <2>2
<1>5. Shape'
  BY <1>1, <1>4 DEF SessionsInv, Shape
<1>6. \A a : Past(f.of, t, a) => MayFollow(a, f.kind)
  <2>1. 1 \in DOMAIN fan[r] /\ f = fan[r][1]
    BY <1>1, <1>2, FanHead
  <2> QED
    BY <1>1, <1>2, <2>1 DEF Past
<1>7. ASSUME t \in Sessions, NEW x, x = f.of
      PROVE  Past(x, t, f.kind)' /\ (f.kind = "end" => x \in persisted')
  <2>1. /\ f.kind \in Kinds /\ Spent(r, f.kind) /\ (f.kind = "end" => r \in persisted)
        /\ outgoing.frame.of = r => MayFollow(f.kind, outgoing.frame.kind)
        /\ \A j \in DOMAIN fan[r] : j # 1 => MayFollow(f.kind, fan[r][j].kind)
    BY <1>1, <1>2, FanHead
  <2>2. t # owner[r]
    BY <1>3, <1>7 DEF SessionsInv, Started
  <2>3. Spent(r, f.kind)'
    BY <1>1, <2>1 DEF Spent, NoTask, Waits
  <2>4. Past(r, t, f.kind)'
    BY <1>1, <2>1, <2>2, <2>3 DEF Past
  <2> QED
    BY <1>1, <1>2, <1>7, <2>1, <2>4
<1>8. DirectOrder'
  <2>1. \A x \in Requests, s \in Sessions : \A a : Past(x, s, a) => Past(x, s, a)'
    BY <1>1, StillKeeps
  <2>2. CASE UNCHANGED direct
    BY <1>1, <2>1, <2>2, DirectShrinks DEF SessionsInv
  <2>3. CASE t \in Sessions /\ direct' = [direct EXCEPT ![t] = Append(@, f)]
    BY <1>1, <1>6, <1>7, <2>1, <2>3, DirectGrows DEF SessionsInv
  <2> QED
    BY <1>4, <2>2, <2>3
<1> QED
  BY <1>1, <1>5, <1>8, StillKeeps DEF SessionsInv

(* The session that asked gets the frame last.                             *)
LEMMA ForwardKeeps ==
  ASSUME SessionsInv, NEW r \in Requests, Forward(r)
  PROVE  SessionsInv'
<1>1. /\ fan[r] # <<>> /\ r \in mirrored /\ mirrored' = mirrored \ {r}
      /\ fan' = [fan EXCEPT ![r] = Tail(@)]
      /\ Sent(owner[r], Head(fan[r]))
      /\ UNCHANGED <<conn, lastOut, held, owner, route, clearing, outgoing, handle, lease, task,
                     chunks, persisted, mirror, closed>>
  BY DEF Forward, notForwarderVars, serverVars, handlerVars, stateVars, taskVars
<1>2. PICK f \in Frame : f = Head(fan[r]) /\ f.of = r
  BY <1>1, FanHead
<1>3. PICK t \in Sessions \cup {None} : t = owner[r]
  BY DEF SessionsInv, Shape
<1>4. /\ direct' \in [Sessions -> Seq(Frame)]
      /\ \A s \in Sessions : Len(direct'[s]) <= DirectSize
      /\ UNCHANGED direct \/ (t \in Sessions /\ direct' = [direct EXCEPT ![t] = Append(@, f)])
  BY <1>1, <1>2, <1>3, SentType DEF SessionsInv
<1>5. /\ fan' \in [Requests -> Seq(Frame)] /\ \A x \in Requests : Len(fan'[x]) <= FanSize
      /\ fan'[r] = Tail(fan[r]) /\ \A x \in Requests : x # r => fan'[x] = fan[x]
  <2>1. Tail(fan[r]) \in Seq(Frame) /\ Len(Tail(fan[r])) <= FanSize
    BY <1>1, FanHead
  <2> QED
    BY <1>1, <2>1 DEF SessionsInv, Shape
<1>6. \A i \in DOMAIN fan'[r] : /\ i \in Nat \ {0} /\ i + 1 \in DOMAIN fan[r] /\ i + 1 # 1
                                /\ fan'[r][i] = fan[r][i + 1]
  <2>1. fan[r] \in Seq(Frame)
    BY DEF SessionsInv, Shape
  <2> QED
    BY <1>1, <1>5, <2>1, TailSeq
<1>7. Shape'
  BY <1>1, <1>4, <1>5 DEF SessionsInv, Shape
<1>8. /\ \A x : (Waits(x)' <=> Waits(x)) /\ (NoTask(x)' <=> NoTask(x))
      /\ \A x, a : Spent(x, a)' <=> Spent(x, a)
  <2>1. \A x : (Waits(x)' <=> Waits(x)) /\ (NoTask(x)' <=> NoTask(x))
    BY <1>1 DEF Waits, NoTask
  <2> QED
    BY <1>1, <2>1 DEF Spent
<1>9. Once' /\ Asked'
  BY <1>1, <1>8 DEF SessionsInv, Once, Asked
<1>10. Started'
  <2>1. task[r] # "none"
    BY <1>1 DEF SessionsInv, Started
  <2> QED
    BY <1>1, <1>5, <2>1 DEF SessionsInv, Started
<1>11. Answers'
  BY <1>1, <1>8 DEF SessionsInv, Answers
<1>12. FanOrder'
  <2> DEFINE InOrder(x, i) ==
               /\ fan'[x][i].of = x /\ fan'[x][i].kind \in {"chunk", "end", "error", "phase"}
               /\ Spent(x, fan'[x][i].kind)
               /\ fan'[x][i].kind = "end" => x \in persisted
               /\ \A j \in DOMAIN fan'[x] : i < j => MayFollow(fan'[x][i].kind, fan'[x][j].kind)
  <2>1. ASSUME NEW x \in Requests, x # r, NEW i \in DOMAIN fan'[x] PROVE InOrder(x, i)
    BY <1>5, <2>1 DEF SessionsInv, FanOrder
  <2>2. ASSUME NEW i \in DOMAIN fan'[r] PROVE InOrder(r, i)
    <3>1. /\ fan[r][i + 1].of = r /\ fan[r][i + 1].kind \in {"chunk", "end", "error", "phase"}
          /\ Spent(r, fan[r][i + 1].kind)
          /\ fan[r][i + 1].kind = "end" => r \in persisted
          /\ \A j \in DOMAIN fan[r] : i + 1 < j => MayFollow(fan[r][i + 1].kind, fan[r][j].kind)
      BY <1>6 DEF SessionsInv, FanOrder
    <3>2. \A j \in DOMAIN fan'[r] : i < j => i + 1 < j + 1
      BY <1>6
    <3> QED
      BY <1>6, <3>1, <3>2
  <2> QED
    BY <1>1, <1>8, <2>1, <2>2 DEF FanOrder
<1>13. \A x \in Requests, s \in Sessions : \A a : Past(x, s, a) => Past(x, s, a)'
  <2> SUFFICES ASSUME NEW x \in Requests, NEW s \in Sessions, NEW a, Past(x, s, a)
               PROVE  Past(x, s, a)'
    OBVIOUS
  <2>1. CASE x # r
    BY <1>1, <1>5, <1>8, <2>1 DEF Past
  <2>2. CASE x = r
    <3>1. \A i \in DOMAIN fan'[r] : MayFollow(a, fan'[r][i].kind)
      BY <1>6, <2>2 DEF Past
    <3> QED
      BY <1>1, <1>8, <2>2, <3>1 DEF Past
  <2> QED
    BY <2>1, <2>2
<1>14. \A a : Past(f.of, t, a) => MayFollow(a, f.kind)
  <2>1. 1 \in DOMAIN fan[r] /\ f = fan[r][1]
    BY <1>1, <1>2, FanHead
  <2> QED
    BY <1>2, <1>3, <2>1 DEF Past
<1>15. ASSUME NEW x, x = f.of
       PROVE  Past(x, t, f.kind)' /\ (f.kind = "end" => x \in persisted')
  <2>1. /\ f.kind \in Kinds /\ Spent(r, f.kind) /\ (f.kind = "end" => r \in persisted)
        /\ outgoing.frame.of = r => MayFollow(f.kind, outgoing.frame.kind)
        /\ \A j \in DOMAIN fan[r] : j # 1 => MayFollow(f.kind, fan[r][j].kind)
    BY <1>1, <1>2, FanHead
  <2>2. \A i \in DOMAIN fan'[r] : MayFollow(f.kind, fan'[r][i].kind)
    BY <1>6, <2>1
  <2>3. Past(r, t, f.kind)'
    BY <1>1, <1>8, <2>1, <2>2 DEF Past
  <2> QED
    BY <1>1, <1>2, <1>15, <2>1, <2>3
<1>16. DirectOrder'
  <2>1. CASE UNCHANGED direct
    BY <1>1, <1>13, <2>1, DirectShrinks DEF SessionsInv
  <2>2. CASE t \in Sessions /\ direct' = [direct EXCEPT ![t] = Append(@, f)]
    BY <1>1, <1>13, <1>14, <1>15, <2>2, DirectGrows DEF SessionsInv
  <2> QED
    BY <1>4, <2>1, <2>2
<1>17. RunningIsReachable'
  BY <1>1 DEF SessionsInv, RunningIsReachable, Running
<1> QED
  BY <1>7, <1>9, <1>10, <1>11, <1>12, <1>16, <1>17 DEF SessionsInv

-----------------------------------------------------------------------------
(* The theorems                                                            *)

(* Every step keeps the invariant.                                         *)
LEMMA NextKeeps == SessionsInv /\ [Next]_vars => SessionsInv'
<1> SUFFICES ASSUME SessionsInv, [Next]_vars PROVE SessionsInv'
  OBVIOUS
<1>1. ASSUME NEW r \in Requests, HandleCancel(r) \/ \E message \in BOOLEAN : Launch(r, message)
      PROVE  SessionsInv'
  BY <1>1, HandleCancelKeeps, LaunchKeeps
<1>2. ASSUME NEW r \in Requests, Refuse(r) PROVE SessionsInv'
  BY <1>2, AnsweredKeeps DEF Refuse, Takes, Idle, serverVars, stateVars, taskVars, fanVars
<1>3. ASSUME NEW r \in Requests, RunCommand(r) PROVE SessionsInv'
  BY <1>3, AnsweredKeeps DEF RunCommand, Takes, Idle, serverVars, stateVars, taskVars, fanVars
<1>4. CASE StartAllGone \/ CancelNext \/ FinishAllGone \/ HandlerSends
  BY <1>4, StartAllGoneKeeps, CancelNextKeeps, FinishAllGoneKeeps, HandlerSendsKeeps
<1>5. ASSUME NEW s \in Sessions,
             \/ Connect(s) \/ PassOn(s) \/ Deliver(s) \/ Leave(s) \/ TellAllGone(s)
             \/ \E r \in Requests : Read(s, r)
      PROVE  SessionsInv'
  BY <1>5, ConnectKeeps, PassOnKeeps, DeliverKeeps, LeaveKeeps, TellAllGoneKeeps, ReadKeeps
<1>6. ASSUME NEW r \in Requests,
             \/ Chunk(r) \/ Persist(r) \/ End(r) \/ AnnouncePhase(r) \/ Fail(r) \/ Die(r)
             \/ Mirror(r) \/ Forward(r)
      PROVE  SessionsInv'
  BY <1>6, TaskStepKeeps, MirrorKeeps, ForwardKeeps
<1>7. CASE UNCHANGED vars
  <2>1. UNCHANGED <<conn, lastOut, held, owner, route, clearing, outgoing, handle, lease, task,
                    chunks, persisted, mirror, fan, mirrored, direct, closed>>
    BY <1>7 DEF vars, serverVars, handlerVars, stateVars, taskVars, fanVars
  <2>2. Shape'
    BY <2>1 DEF SessionsInv, Shape
  <2>3. DirectOrder'
    BY <2>1, StillKeeps, DirectShrinks DEF SessionsInv
  <2> QED
    BY <2>1, <2>2, <2>3, StillKeeps DEF SessionsInv
<1> QED
  BY <1>1, <1>2, <1>3, <1>4, <1>5, <1>6, <1>7 DEF Next, HandlerStep

LEMMA Invariance == Spec => []SessionsInv
  BY SessionsInvInit, NextKeeps, PTL DEF Spec

(* Types hold and no channel ever exceeds its capacity, whoever leaves,    *)
(* cancels or supersedes.                                                  *)
THEOREM TypesHold == Spec => []TypeOK
<1>1. SessionsInv => TypeOK
  <2> SUFFICES ASSUME SessionsInv PROVE TypeOK
    OBVIOUS
  <2>1. ToSet(route) \subseteq Requests \cup {AllGone}
    BY SeqType DEF SessionsInv, Shape
  <2>2. \A r \in Requests : ToSet(fan[r]) \subseteq Frame
    BY SeqType DEF SessionsInv, Shape
  <2>3. \A s \in Sessions : ToSet(direct[s]) \subseteq Frame
    BY SeqType DEF SessionsInv, Shape
  <2> QED
    BY <2>1, <2>2, <2>3 DEF SessionsInv, Shape, TypeOK, TaskStages
<1> QED
  BY <1>1, Invariance, PTL

(* A running task is the one its session's handle names: nobody starts one *)
(* without ending the other, so a cancel reaches all that runs.            *)
THEOREM RunningStaysReachable == Spec => []RunningIsReachable
<1>1. SessionsInv => RunningIsReachable
  BY DEF SessionsInv
<1> QED
  BY <1>1, Invariance, PTL

(* The end of an answer is on its way only when the answer is saved, and   *)
(* after it no channel carries anything of the request but the notice of a *)
(* compaction and the frame of a late cancel; a cancel's own frame comes   *)
(* once, though what the aborted task has sent may follow it.              *)
THEOREM EndStaysFinal == Spec => []EndIsFinal
<1>1. SessionsInv => EndIsFinal
  <2> SUFFICES ASSUME SessionsInv PROVE EndIsFinal
    OBVIOUS
  <2>1. DOMAIN fan = Requests /\ DOMAIN direct = Sessions
    BY DEF SessionsInv, Shape
  <2>2. ASSUME NEW f \in Frames, f.kind = "end" PROVE f.of \in persisted
    <3>1. CASE \E r \in Requests : f \in ToSet(fan[r])
      BY <2>2, <3>1 DEF SessionsInv, FanOrder, ToSet
    <3>2. CASE \E s \in Sessions : f \in ToSet(direct[s])
      BY <2>2, <3>2 DEF SessionsInv, DirectOrder, ToSet
    <3> QED
      BY <3>1, <3>2 DEF Frames
  <2>3. ASSUME NEW q \in Range(fan) \cup Range(direct), NEW i \in DOMAIN q, NEW j \in DOMAIN q,
               i < j, q[i].of = q[j].of
        PROVE  MayFollow(q[i].kind, q[j].kind)
    <3>1. CASE q \in Range(fan)
      <4>1. PICK r \in Requests : q = fan[r]
        BY <2>1, <3>1 DEF Range
      <4> QED
        BY <2>3, <4>1 DEF SessionsInv, FanOrder
    <3>2. CASE q \in Range(direct)
      <4>1. PICK s \in Sessions : q = direct[s]
        BY <2>1, <3>2 DEF Range
      <4> QED
        BY <2>3, <4>1 DEF SessionsInv, DirectOrder
    <3> QED
      BY <3>1, <3>2
  <2> QED
    BY <2>2, <2>3 DEF EndIsFinal
<1> QED
  BY <1>1, Invariance, PTL
=============================================================================
