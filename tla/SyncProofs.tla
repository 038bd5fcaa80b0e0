----------------------------- MODULE SyncProofs -----------------------------
(***************************************************************************)
(* Sync implements Feed: whatever is broadcast, lost to lag, pushed,       *)
(* switched to or reloaded, each step is a step of Feed or none, for any   *)
(* clients, characters and channel sizes.                                  *)
(***************************************************************************)
EXTENDS Sync, TLAPS

-----------------------------------------------------------------------------
(* Channels                                                                *)

(* Reading and writing a channel neither invents nor alters a frame.       *)
LEMMA ToSetSeq ==
  ASSUME NEW S, NEW q \in Seq(S)
  PROVE  /\ ToSet(q) \subseteq S
         /\ q # <<>> => Head(q) \in ToSet(q) /\ Tail(q) \in Seq(S) /\ ToSet(Tail(q)) \subseteq ToSet(q)
         /\ \A x \in S : Append(q, x) \in Seq(S) /\ ToSet(Append(q, x)) \subseteq ToSet(q) \cup {x}
<1>1. ToSet(q) \subseteq S
  BY DEF ToSet
<1>2. ASSUME q # <<>>
      PROVE  Head(q) \in ToSet(q) /\ Tail(q) \in Seq(S) /\ ToSet(Tail(q)) \subseteq ToSet(q)
  <2>1. Len(q) \in Nat \ {0} /\ Head(q) = q[1] /\ 1 \in DOMAIN q
    BY <1>2
  <2>2. Tail(q) \in Seq(S) /\ Len(Tail(q)) = Len(q) - 1
    BY <1>2
  <2>3. \A i \in 1..(Len(q) - 1) : Tail(q)[i] = q[i + 1] /\ i + 1 \in 1..Len(q)
    BY <1>2, <2>1
  <2> QED
    BY <2>1, <2>2, <2>3 DEF ToSet
<1>3. ASSUME NEW x \in S
      PROVE  Append(q, x) \in Seq(S) /\ ToSet(Append(q, x)) \subseteq ToSet(q) \cup {x}
  <2>1. /\ Append(q, x) \in Seq(S) /\ Len(Append(q, x)) = Len(q) + 1
        /\ \A i \in 1..Len(q) : Append(q, x)[i] = q[i]
        /\ Append(q, x)[Len(q) + 1] = x
    OBVIOUS
  <2> QED
    BY <2>1 DEF ToSet
<1> QED
  BY <1>1, <1>2, <1>3

(* What a concatenation holds was in one of its parts.                     *)
LEMMA ToSetConcat ==
  ASSUME NEW S, NEW p \in Seq(S), NEW q \in Seq(S)
  PROVE  p \o q \in Seq(S) /\ ToSet(p \o q) \subseteq ToSet(p) \cup ToSet(q)
<1>1. /\ p \o q \in Seq(S) /\ Len(p \o q) = Len(p) + Len(q)
      /\ \A i \in 1..Len(p) : (p \o q)[i] = p[i]
      /\ \A i \in Len(p) + 1 .. Len(p) + Len(q) : (p \o q)[i] = q[i - Len(p)]
  OBVIOUS
<1>2. ASSUME NEW i \in 1..(Len(p) + Len(q)) PROVE (p \o q)[i] \in ToSet(p) \cup ToSet(q)
  <2>1. CASE i \in 1..Len(p)
    BY <1>1, <2>1 DEF ToSet
  <2>2. CASE i \in Len(p) + 1 .. Len(p) + Len(q)
    <3>1. i - Len(p) \in 1..Len(q)
      BY <2>2
    <3> QED
      BY <1>1, <2>2, <3>1 DEF ToSet
  <2> QED
    BY <2>1, <2>2
<1> QED
  BY <1>1, <1>2 DEF ToSet

(* What a slow receiver can still read was sent to it.                     *)
LEMMA KeptSeq ==
  ASSUME NEW S, NEW q \in Seq(S)
  PROVE  Kept(q) \in Seq(S) /\ ToSet(Kept(q)) \subseteq ToSet(q)
<1>1. CASE Len(q) > RingSize
  <2> DEFINE m == Len(q) - RingSize + 1
  <2>1. m \in 1..Len(q) /\ Len(q) \in Nat
    BY <1>1, SizesAssumption
  <2>2. /\ SubSeq(q, m, Len(q)) \in Seq(S) /\ Len(SubSeq(q, m, Len(q))) = RingSize
        /\ \A i \in 1..RingSize :
             SubSeq(q, m, Len(q))[i] = q[m + i - 1] /\ m + i - 1 \in 1..Len(q)
    BY <1>1, <2>1, SizesAssumption
  <2>3. Kept(q) = SubSeq(q, m, Len(q))
    BY <1>1 DEF Kept
  <2> HIDE DEF m
  <2>4. \A i \in 1..RingSize : SubSeq(q, m, Len(q))[i] \in ToSet(q)
    BY <2>2 DEF ToSet
  <2>5. DOMAIN SubSeq(q, m, Len(q)) = 1..RingSize
    BY <2>2
  <2> QED
    BY <2>2, <2>3, <2>4, <2>5 DEF ToSet
<1>2. CASE ~ (Len(q) > RingSize)
  BY <1>2 DEF Kept
<1> QED
  BY <1>1, <1>2

-----------------------------------------------------------------------------
(* The invariant                                                           *)

AnyFrame ==
  [kind : {"none", "history", "message"}, char : Characters \cup {None},
   rev : Nat, ver : Nat, epoch : Nat]

(* What the channels hold and the counters are.                            *)
Shape ==
  /\ engine \in [Characters -> [made : BOOLEAN, rev : Nat, ver : Nat]]
  /\ disk \in [Characters -> Nat] /\ fresh \in Nat
  /\ newest \in [Characters -> Nat] /\ epoch \in [Characters -> Nat]
  /\ available \subseteq Characters
  /\ selected \in [Clients -> Characters \cup {None}]
  /\ conn \in [Clients -> {"off", "subscribed", "loaded", "on"}]
  /\ snapshot \in [Clients -> AnyFrame]
  /\ queue \in [Clients -> Seq(AnyFrame)] /\ direct \in [Clients -> Seq(AnyFrame)]
  /\ sync \in [Clients -> [message : Nat, snapshot : Nat]]
  /\ view \in [Clients -> [Characters -> Nat]]

(* Frames on their way to a client.                                        *)
Flight(c) == ToSet(queue[c]) \cup ToSet(direct[c]) \cup {snapshot[c]}

(* All that is known of a character was made by its changes.               *)
Known ==
  \A ch \in Characters :
    /\ newest[ch] <= fresh
    /\ disk[ch] <= newest[ch] /\ engine[ch].ver <= newest[ch]
    /\ \A c \in Clients : \A f \in Flight(c) : f.char = ch => f.ver <= newest[ch]

(* A client without a session knows nothing, and nobody knows anything of  *)
(* a character that has had no engine in this run.                         *)
Blank ==
  /\ \A c \in Clients : conn[c] # "on" => view[c] = Unknown
  /\ \A ch \in Characters : epoch[ch] = 0 =>
       /\ ~engine[ch].made
       /\ \A c \in Clients : view[c][ch] = 0 /\ \A f \in Flight(c) : f.char # ch

Tight(ch) == ch \notin unsaved /\ epoch[ch] <= 1

(* The engine of a tight character is ahead of all that was sent of it.    *)
Ahead ==
  \A ch \in Characters : Tight(ch) /\ engine[ch].made =>
    \A c \in Clients :
      /\ view[c][ch] <= engine[ch].ver
      /\ \A f \in Flight(c) : f.char = ch =>
           /\ f.rev <= engine[ch].rev /\ f.ver <= engine[ch].ver
           /\ f.rev = engine[ch].rev => f.ver = engine[ch].ver

(* The revisions of a tight character order what is on its way to a client *)
(* and what the client shows.                                              *)
Ordered ==
  \A ch \in Characters : Tight(ch) =>
    \A c \in Clients : \A f \in Flight(c) : f.char = ch =>
      /\ f.rev >= sync[c].snapshot => f.ver >= view[c][ch]
      /\ \A g \in Flight(c) : g.char = ch /\ f.rev >= g.rev => f.ver >= g.ver

FeedInv == Shape /\ Known /\ Blank /\ Ahead /\ Ordered

(* At the start nothing is known and nothing is under way.                 *)
LEMMA FeedInvInit == Init => FeedInv
<1> SUFFICES ASSUME Init PROVE FeedInv
  OBVIOUS
<1>1. Shape
  BY DEF Init, Shape, AnyFrame, Unknown, NewSync, NoEngine, NoSnapshot
<1>2. ASSUME NEW c \in Clients PROVE Flight(c) = {NoSnapshot}
  <2>1. queue[c] = <<>> /\ direct[c] = <<>> /\ snapshot[c] = NoSnapshot
    BY DEF Init
  <2> QED
    BY <2>1 DEF Flight, ToSet
<1>3. ASSUME NEW c \in Clients, NEW f \in Flight(c) PROVE f.char \notin Characters
  BY <1>2, <1>3, NoneAssumption DEF NoSnapshot
<1>4. /\ \A ch \in Characters : /\ newest[ch] = 0 /\ disk[ch] = 0 /\ engine[ch] = NoEngine
      /\ \A c \in Clients : view[c] = Unknown /\ \A ch \in Characters : view[c][ch] = 0
      /\ fresh = 0
  BY DEF Init, Unknown
<1>5. Known
  BY <1>3, <1>4 DEF Known, NoEngine
<1>6. Blank
  BY <1>3, <1>4 DEF Blank, NoEngine
<1>7. Ahead
  BY <1>3, <1>4 DEF Ahead, NoEngine
<1>8. Ordered
  BY <1>3 DEF Ordered
<1> QED
  BY <1>1, <1>5, <1>6, <1>7, <1>8 DEF FeedInv

(* What a client shows may go on to a frame on its way to it, or be        *)
(* forgotten, and frames may be read or lost.                              *)
Moves(d) ==
  /\ \A f \in Flight(d)' : f \in Flight(d) \/ f.char \notin Characters
  /\ conn'[d] # "on" => view'[d] = Unknown
  /\ \/ view'[d] = Unknown
     \/ view'[d] = view[d] /\ sync'[d].snapshot >= sync[d].snapshot
     \/ \E f \in Flight(d) :
          /\ f.char \in Characters
          /\ f.rev >= sync[d].snapshot \/ view[d] = Unknown
          /\ sync'[d].snapshot = f.rev
          /\ view'[d] = [view[d] EXCEPT ![f.char] = f.ver]

(* What is under way are frames.                                           *)
LEMMA FlightType ==
  ASSUME Shape, NEW c \in Clients
  PROVE  Flight(c) \subseteq AnyFrame
<1>1. queue[c] \in Seq(AnyFrame) /\ direct[c] \in Seq(AnyFrame) /\ snapshot[c] \in AnyFrame
  BY DEF Shape
<1>2. ToSet(queue[c]) \subseteq AnyFrame /\ ToSet(direct[c]) \subseteq AnyFrame
  BY <1>1, ToSetSeq
<1> QED
  BY <1>1, <1>2 DEF Flight

(* Clients that move on, or forget, keep the invariant.                    *)
LEMMA MovesKeep ==
  ASSUME FeedInv, Shape', UNCHANGED <<engine, disk, fresh, newest, unsaved, epoch>>,
         \A d \in Clients : Moves(d)
  PROVE  FeedInv'
<1>1. ASSUME NEW d \in Clients, NEW ch \in Characters, NEW f \in Flight(d)', f.char = ch
      PROVE  f \in Flight(d) /\ f \in AnyFrame
  BY <1>1, FlightType DEF Moves, FeedInv
<1> DEFINE OnShow(d, ch) ==
             \/ view'[d][ch] = 0
             \/ view'[d][ch] = view[d][ch] /\ sync'[d].snapshot >= sync[d].snapshot
             \/ \E f \in Flight(d) : f.char = ch /\ sync'[d].snapshot = f.rev
                                     /\ view'[d][ch] = f.ver
<1>2. ASSUME NEW d \in Clients, NEW ch \in Characters PROVE OnShow(d, ch)
  <2>1. CASE view'[d] = Unknown
    BY <2>1 DEF Unknown
  <2>2. CASE view'[d] = view[d] /\ sync'[d].snapshot >= sync[d].snapshot
    BY <2>2
  <2>3. ASSUME NEW f \in Flight(d), f.char \in Characters,
               f.rev >= sync[d].snapshot \/ view[d] = Unknown,
               sync'[d].snapshot = f.rev,
               view'[d] = [view[d] EXCEPT ![f.char] = f.ver]
        PROVE  OnShow(d, ch)
    <3>1. view[d] \in [Characters -> Nat]
      BY DEF FeedInv, Shape
    <3>2. CASE f.char = ch
      BY <2>3, <3>1, <3>2
    <3>3. CASE f.char # ch
      BY <2>3, <3>1, <3>3 DEF Unknown
    <3> QED
      BY <3>2, <3>3
  <2> QED
    BY <2>1, <2>2, <2>3 DEF Moves
<1>3. Known'
  BY <1>1 DEF FeedInv, Known
<1>4. Blank'
  <2>1. ASSUME NEW ch \in Characters, epoch[ch] = 0, NEW d \in Clients
        PROVE  view'[d][ch] = 0 /\ \A f \in Flight(d)' : f.char # ch
    BY <1>1, <1>2, <2>1 DEF FeedInv, Blank
  <2> QED
    BY <2>1 DEF Moves, FeedInv, Blank
<1>5. Ahead'
  <2> SUFFICES ASSUME NEW ch \in Characters, Tight(ch), engine[ch].made, NEW d \in Clients
               PROVE  /\ view'[d][ch] <= engine[ch].ver
                      /\ \A f \in Flight(d)' : f.char = ch =>
                           /\ f.rev <= engine[ch].rev /\ f.ver <= engine[ch].ver
                           /\ f.rev = engine[ch].rev => f.ver = engine[ch].ver
    BY DEF Ahead, Tight
  <2>1. engine[ch].ver \in Nat
    BY DEF FeedInv, Shape
  <2>2. view'[d][ch] <= engine[ch].ver
    BY <1>2, <2>1 DEF FeedInv, Ahead
  <2> QED
    BY <1>1, <2>2 DEF FeedInv, Ahead
<1>6. Ordered'
  <2> SUFFICES ASSUME NEW ch \in Characters, Tight(ch), NEW d \in Clients,
                      NEW f \in Flight(d)', f.char = ch
               PROVE  /\ f.rev >= sync'[d].snapshot => f.ver >= view'[d][ch]
                      /\ \A g \in Flight(d)' : g.char = ch /\ f.rev >= g.rev => f.ver >= g.ver
    BY DEF Ordered, Tight
  <2>1. f \in Flight(d) /\ f.rev \in Nat /\ f.ver \in Nat
    BY <1>1 DEF AnyFrame
  <2>2. \A g \in Flight(d) : g.char = ch /\ f.rev >= g.rev => f.ver >= g.ver
    BY <2>1 DEF FeedInv, Ordered
  <2>3. f.rev >= sync[d].snapshot => f.ver >= view[d][ch]
    BY <2>1 DEF FeedInv, Ordered
  <2>4. sync[d].snapshot \in Nat /\ sync'[d].snapshot \in Nat
    BY DEF FeedInv, Shape
  <2>5. f.rev >= sync'[d].snapshot => f.ver >= view'[d][ch]
    BY <1>2, <2>1, <2>2, <2>3, <2>4
  <2> QED
    BY <1>1, <2>2, <2>5
<1> QED
  BY <1>3, <1>4, <1>5, <1>6 DEF FeedInv

-----------------------------------------------------------------------------
(* Shapes                                                                  *)

(* A snapshot says what the engine holds, a new one included.              *)
LEMMA HistoryType ==
  ASSUME Shape, NEW ch \in Characters
  PROVE  /\ EngineOf(ch) \in [made : BOOLEAN, rev : Nat, ver : Nat] /\ EngineOf(ch).made
         /\ EpochOf(ch) \in Nat /\ HistoryOf(ch) \in AnyFrame
         /\ HistoryOf(ch).char = ch /\ HistoryOf(ch).rev = EngineOf(ch).rev
         /\ HistoryOf(ch).ver = EngineOf(ch).ver
<1>1. engine[ch] \in [made : BOOLEAN, rev : Nat, ver : Nat] /\ disk[ch] \in Nat /\ epoch[ch] \in Nat
  BY DEF Shape
<1>2. EngineOf(ch) \in [made : BOOLEAN, rev : Nat, ver : Nat] /\ EngineOf(ch).made
  BY <1>1 DEF EngineOf
<1>3. EpochOf(ch) \in Nat
  BY <1>1 DEF EpochOf
<1> QED
  BY <1>2, <1>3 DEF HistoryOf, AnyFrame

(* A transmission leaves what a receiver can still read of it.             *)
LEMMA BroadcastShape ==
  ASSUME Shape, NEW events \in Seq(AnyFrame), Broadcast(events)
  PROVE  /\ queue' \in [Clients -> Seq(AnyFrame)]
         /\ \A c \in Clients : ToSet(queue'[c]) \subseteq ToSet(queue[c]) \cup ToSet(events)
<1>1. ASSUME NEW c \in Clients
      PROVE  /\ queue'[c] \in Seq(AnyFrame)
             /\ ToSet(queue'[c]) \subseteq ToSet(queue[c]) \cup ToSet(events)
  <2>1. queue[c] \in Seq(AnyFrame)
    BY DEF Shape
  <2>2. /\ queue[c] \o events \in Seq(AnyFrame)
        /\ ToSet(queue[c] \o events) \subseteq ToSet(queue[c]) \cup ToSet(events)
    BY <2>1, ToSetConcat
  <2>3. /\ Kept(queue[c] \o events) \in Seq(AnyFrame)
        /\ ToSet(Kept(queue[c] \o events)) \subseteq ToSet(queue[c] \o events)
    BY <2>2, KeptSeq
  <2>4. queue'[c] = IF c \in Subscribers THEN Kept(queue[c] \o events) ELSE queue[c]
    BY DEF Broadcast
  <2> QED
    BY <2>1, <2>2, <2>3, <2>4
<1>2. queue' = [c \in Clients |->
         IF c \in Subscribers THEN Kept(queue[c] \o events) ELSE queue[c]]
  BY DEF Broadcast
<1> QED
  BY <1>1, <1>2

(* A handshake sets both watermarks.                                       *)
LEMMA NewSyncType ==
  \A n \in Nat : NewSync(n) \in [message : Nat, snapshot : Nat] /\ NewSync(n).snapshot = n
  BY DEF NewSync

(* The absent snapshot is of no character.                                 *)
LEMMA NoSnapshotType == NoSnapshot \in AnyFrame /\ NoSnapshot.char \notin Characters
  BY NoneAssumption DEF NoSnapshot, AnyFrame

(* Ending connections keeps the shapes.                                    *)
LEMMA CloseShape ==
  ASSUME Shape, NEW C \in SUBSET Clients, CloseAll(C),
         engine' \in [Characters -> [made : BOOLEAN, rev : Nat, ver : Nat]],
         epoch' \in [Characters -> Nat],
         UNCHANGED <<disk, fresh, newest, available>>
  PROVE  Shape'
<1>1. NewSync(0) \in [message : Nat, snapshot : Nat]
  BY NewSyncType
<1>2. <<>> \in Seq(AnyFrame)
  OBVIOUS
<1> QED
  BY <1>1, <1>2, NoSnapshotType DEF CloseAll, Shape, Unknown

(* So does taking a snapshot.                                              *)
LEMMA TakeShape ==
  ASSUME Shape, NEW c \in Clients, NEW ch \in Characters \cup {None}, TakeSnapshot(c, ch),
         UNCHANGED <<disk, fresh, newest, available, queue, direct, sync, view>>,
         selected' \in [Clients -> Characters \cup {None}],
         conn' \in [Clients -> {"off", "subscribed", "loaded", "on"}]
  PROVE  Shape'
<1>1. CASE ch \in available
  <2>1. ch \in Characters
    BY <1>1 DEF Shape
  <2>2. /\ snapshot' = [snapshot EXCEPT ![c] = HistoryOf(ch)]
        /\ engine' = [engine EXCEPT ![ch] = EngineOf(ch)]
        /\ epoch' = [epoch EXCEPT ![ch] = EpochOf(ch)]
    BY <1>1 DEF TakeSnapshot
  <2>3. /\ HistoryOf(ch) \in AnyFrame /\ EpochOf(ch) \in Nat
        /\ EngineOf(ch) \in [made : BOOLEAN, rev : Nat, ver : Nat]
    BY <2>1, HistoryType
  <2>4. snapshot' \in [Clients -> AnyFrame]
    BY <2>2, <2>3 DEF Shape
  <2>5. engine' \in [Characters -> [made : BOOLEAN, rev : Nat, ver : Nat]]
    BY <2>1, <2>2, <2>3 DEF Shape
  <2>6. epoch' \in [Characters -> Nat]
    BY <2>1, <2>2, <2>3 DEF Shape
  <2> QED
    BY <2>4, <2>5, <2>6 DEF Shape
<1>2. CASE ch \notin available
  <2>1. [NoSnapshot EXCEPT !.kind = "history"] \in AnyFrame
    BY DEF NoSnapshot, AnyFrame
  <2>2. /\ snapshot' = [snapshot EXCEPT ![c] = [NoSnapshot EXCEPT !.kind = "history"]]
        /\ UNCHANGED <<engine, epoch>>
    BY <1>2 DEF TakeSnapshot
  <2>3. snapshot' \in [Clients -> AnyFrame]
    BY <2>1, <2>2 DEF Shape
  <2> QED
    BY <2>2, <2>3 DEF Shape
<1> QED
  BY <1>1, <1>2

(* And so does what a client does with a frame.                            *)
LEMMA ObserveShape ==
  ASSUME Shape, NEW c \in Clients, NEW f \in AnyFrame, Observe(c, f)
  PROVE  /\ sync' \in [Clients -> [message : Nat, snapshot : Nat]]
         /\ view' \in [Clients -> [Characters -> Nat]]
<1>1. f.rev \in Nat /\ f.ver \in Nat /\ f.char \in Characters \cup {None}
  BY DEF AnyFrame
<1>2. CASE f.kind = "history"
  <2>1. \/ UNCHANGED <<sync, view>>
        \/ /\ sync' = [sync EXCEPT ![c].snapshot = f.rev]
           /\ view' = IF f.char = None THEN view ELSE [view EXCEPT ![c][f.char] = f.ver]
    BY <1>2 DEF Observe, Take
  <2>2. /\ sync \in [Clients -> [message : Nat, snapshot : Nat]]
        /\ view \in [Clients -> [Characters -> Nat]]
    BY DEF Shape
  <2>3. [sync EXCEPT ![c].snapshot = f.rev] \in [Clients -> [message : Nat, snapshot : Nat]]
    BY <1>1, <2>2
  <2>4. ASSUME f.char # None
        PROVE  [view EXCEPT ![c][f.char] = f.ver] \in [Clients -> [Characters -> Nat]]
    BY <1>1, <2>2, <2>4
  <2> QED
    BY <2>1, <2>2, <2>3, <2>4
<1>3. CASE f.kind # "history"
  <2>1. (UNCHANGED sync \/ sync' = [sync EXCEPT ![c].message = f.rev]) /\ UNCHANGED view
    BY <1>3 DEF Observe
  <2>2. /\ sync \in [Clients -> [message : Nat, snapshot : Nat]]
        /\ view \in [Clients -> [Characters -> Nat]]
    BY DEF Shape
  <2>3. [sync EXCEPT ![c].message = f.rev] \in [Clients -> [message : Nat, snapshot : Nat]]
    BY <1>1, <2>2
  <2> QED
    BY <2>1, <2>2, <2>3
<1> QED
  BY <1>2, <1>3

-----------------------------------------------------------------------------
(* Steps of clients and their connections                                  *)

(* A connection that ends forgets, the others stay.                        *)
LEMMA CloseMoves ==
  ASSUME FeedInv, NEW C \in SUBSET Clients, CloseAll(C)
  PROVE  \A d \in Clients : Moves(d) /\ view'[d] \in {Unknown, view[d]}
<1> SUFFICES ASSUME NEW d \in Clients PROVE Moves(d) /\ view'[d] \in {Unknown, view[d]}
  OBVIOUS
<1>1. CASE d \in C
  <2>1. /\ view'[d] = Unknown /\ snapshot'[d] = NoSnapshot
        /\ queue'[d] = <<>> /\ direct'[d] = <<>>
    BY <1>1 DEF CloseAll
  <2>2. Flight(d)' = {NoSnapshot}
    BY <2>1 DEF Flight, ToSet
  <2> QED
    BY <2>1, <2>2, NoSnapshotType DEF Moves
<1>2. CASE d \notin C
  <2>1. /\ view'[d] = view[d] /\ snapshot'[d] = snapshot[d] /\ sync'[d] = sync[d]
        /\ queue'[d] = queue[d] /\ direct'[d] = direct[d] /\ conn'[d] = conn[d]
    BY <1>2 DEF CloseAll
  <2>2. Flight(d)' = Flight(d)
    BY <2>1 DEF Flight
  <2>3. sync[d].snapshot \in Nat
    BY DEF FeedInv, Shape
  <2>4. conn[d] # "on" => view[d] = Unknown
    BY DEF FeedInv, Blank
  <2>5. \A f \in Flight(d)' : f \in Flight(d)
    BY <2>2
  <2>6. conn'[d] # "on" => view'[d] = Unknown
    BY <2>1, <2>4
  <2>7. sync'[d].snapshot >= sync[d].snapshot
    BY <2>1, <2>3
  <2> QED
    BY <2>1, <2>5, <2>6, <2>7 DEF Moves
<1> QED
  BY <1>1, <1>2

(* Nothing that a client shows or compares with changes.                   *)
LEMMA StillMoves ==
  ASSUME FeedInv, UNCHANGED <<sync, view>>,
         \A d \in Clients : conn'[d] # "on" => view[d] = Unknown,
         \A d \in Clients : \A f \in Flight(d)' : f \in Flight(d) \/ f.char \notin Characters
  PROVE  \A d \in Clients : Moves(d)
<1>1. \A d \in Clients : sync[d].snapshot \in Nat
  BY DEF FeedInv, Shape
<1> QED
  BY <1>1 DEF Moves

(* A client reads a frame that was on its way to it.                       *)
LEMMA ObserveMoves ==
  ASSUME FeedInv, NEW c \in Clients, NEW f \in Flight(c), Observe(c, f),
         conn' = conn, conn[c] = "on",
         \A d \in Clients : Flight(d)' \subseteq Flight(d)
  PROVE  \A d \in Clients : Moves(d)
<1>1. f \in AnyFrame
  BY FlightType DEF FeedInv
<1>2. \A d \in Clients : /\ sync[d] \in [message : Nat, snapshot : Nat]
                         /\ view[d] \in [Characters -> Nat]
  BY DEF FeedInv, Shape
<1>3. sync \in [Clients -> [message : Nat, snapshot : Nat]] /\ view \in [Clients -> [Characters -> Nat]]
  BY DEF FeedInv, Shape
<1>4. ASSUME NEW d \in Clients, view'[d] = view[d], sync'[d].snapshot >= sync[d].snapshot
      PROVE  Moves(d)
  BY <1>4 DEF Moves, FeedInv, Blank
<1>5. CASE f.kind = "history" /\ ~ (f.rev < sync[c].snapshot)
  <2>1. /\ sync' = [sync EXCEPT ![c].snapshot = f.rev]
        /\ view' = IF f.char = None THEN view ELSE [view EXCEPT ![c][f.char] = f.ver]
    BY <1>5 DEF Observe, Take
  <2>2. sync'[c].snapshot = f.rev /\ f.rev >= sync[c].snapshot
    BY <1>1, <1>2, <1>3, <1>5, <2>1 DEF AnyFrame
  <2>3. \A d \in Clients \ {c} : view'[d] = view[d] /\ sync'[d].snapshot >= sync[d].snapshot
    BY <1>2, <1>3, <2>1
  <2>4. CASE f.char = None
    BY <1>4, <2>1, <2>2, <2>3, <2>4
  <2>5. CASE f.char # None
    <3>1. f.char \in Characters /\ view'[c] = [view[c] EXCEPT ![f.char] = f.ver]
      BY <1>1, <1>3, <2>1, <2>5 DEF AnyFrame
    <3>2. Moves(c)
      BY <2>2, <3>1 DEF Moves
    <3> QED
      BY <1>4, <2>3, <3>2
  <2> QED
    BY <2>4, <2>5
<1>6. CASE ~ (f.kind = "history" /\ ~ (f.rev < sync[c].snapshot))
  <2>1. /\ view' = view
        /\ sync' = sync \/ sync' = [sync EXCEPT ![c].message = f.rev]
    BY <1>6 DEF Observe
  <2>2. \A d \in Clients : sync'[d].snapshot >= sync[d].snapshot
    BY <1>2, <1>3, <2>1
  <2> QED
    BY <1>4, <2>1, <2>2
<1> QED
  BY <1>5, <1>6

(* A client that is registered moves on to its handshake's History.        *)
LEMMA RegisterMoves ==
  ASSUME FeedInv, NEW c \in Clients, Register(c)
  PROVE  Shape' /\ \A d \in Clients : Moves(d)
<1> DEFINE f == snapshot[c]
<1>1. f \in AnyFrame /\ f \in Flight(c) /\ view[c] = Unknown
  BY DEF FeedInv, Shape, Flight, Register, Blank
<1>2. /\ f.rev \in Nat /\ f.ver \in Nat /\ f.char \in Characters \cup {None}
  BY <1>1 DEF AnyFrame
<1>3. /\ sync' = [sync EXCEPT ![c] = NewSync(f.rev)]
      /\ view' = [view EXCEPT ![c] = IF f.char = None THEN Unknown ELSE Show(f)]
      /\ snapshot' = [snapshot EXCEPT ![c] = NoSnapshot]
      /\ conn' = [conn EXCEPT ![c] = "on"]
      /\ selected' = [selected EXCEPT ![c] = f.char]
      /\ queue' = queue /\ direct' = direct
      /\ UNCHANGED <<engine, disk, fresh, newest, available, epoch>>
  BY DEF Register, engineVars, ringVars
<1>4. f.char # None => Show(f) = [view[c] EXCEPT ![f.char] = f.ver] /\ Show(f) \in [Characters -> Nat]
  BY <1>1, <1>2 DEF Show, Unknown
<1>5. Unknown \in [Characters -> Nat]
  BY DEF Unknown
<1>6. NewSync(f.rev) \in [message : Nat, snapshot : Nat] /\ NewSync(f.rev).snapshot = f.rev
  BY <1>2, NewSyncType
<1>7. sync' \in [Clients -> [message : Nat, snapshot : Nat]]
  BY <1>3, <1>6 DEF FeedInv, Shape
<1>8. view' \in [Clients -> [Characters -> Nat]]
  BY <1>3, <1>4, <1>5 DEF FeedInv, Shape
<1>9. Shape'
  BY <1>2, <1>3, <1>7, <1>8, NoSnapshotType DEF FeedInv, Shape
<1>10. ASSUME NEW d \in Clients PROVE Moves(d)
  <2>1. \A g \in Flight(d)' : g \in Flight(d) \/ g.char \notin Characters
    <3>1. queue'[d] = queue[d] /\ direct'[d] = direct[d] /\ snapshot'[d] \in {snapshot[d], NoSnapshot}
      BY <1>3 DEF FeedInv, Shape
    <3> QED
      BY <3>1, NoSnapshotType DEF Flight
  <2>2. CASE d # c
    <3>1. view'[d] = view[d] /\ sync'[d] = sync[d] /\ conn'[d] = conn[d] /\ sync[d].snapshot \in Nat
      BY <1>3, <2>2 DEF FeedInv, Shape
    <3> QED
      BY <2>1, <3>1 DEF Moves, FeedInv, Blank
  <2>3. CASE d = c
    <3>1. conn'[c] = "on" /\ sync'[c].snapshot = f.rev
      BY <1>3, <1>6 DEF FeedInv, Shape
    <3>2. view'[c] = IF f.char = None THEN Unknown ELSE [view[c] EXCEPT ![f.char] = f.ver]
      BY <1>3, <1>4 DEF FeedInv, Shape
    <3> QED
      BY <1>1, <1>2, <2>1, <2>3, <3>1, <3>2 DEF Moves
  <2> QED
    BY <2>2, <2>3
<1> QED
  BY <1>9, <1>10

-----------------------------------------------------------------------------
(* Steps of engines                                                        *)

(* An engine is read or changed: frames that say what it now holds may be  *)
(* under way, and it is at its old revision or at the next one.            *)
LEMMA EngineKeeps ==
  ASSUME FeedInv, Shape', NEW ch \in Characters, NEW E,
         UNCHANGED <<sync, view>>,
         \A d \in Clients : conn'[d] # "on" => view[d] = Unknown,
         \A f \in E : f.char = ch /\ f.rev = engine'[ch].rev /\ f.ver = engine'[ch].ver,
         \A d \in Clients : Flight(d)' \subseteq Flight(d) \cup E,
         engine'[ch].made, epoch'[ch] = EpochOf(ch),
         \A x \in Characters \ {ch} :
           /\ engine'[x] = engine[x] /\ epoch'[x] = epoch[x]
           /\ newest'[x] = newest[x] /\ disk'[x] = disk[x],
         fresh' >= fresh, newest'[ch] >= newest[ch], newest'[ch] <= fresh',
         disk'[ch] <= newest'[ch], engine'[ch].ver <= newest'[ch],
         unsaved' \in {unsaved, unsaved \cup {ch}},
         ch \notin unsaved' =>
           \/ engine'[ch].rev = EngineOf(ch).rev /\ engine'[ch].ver = EngineOf(ch).ver
           \/ engine'[ch].rev = EngineOf(ch).rev + 1 /\ engine'[ch].ver >= EngineOf(ch).ver
  PROVE  FeedInv'
<1>1. ASSUME NEW d \in Clients, NEW f \in Flight(d), f.char \in Characters
      PROVE  f.rev \in Nat /\ f.ver \in Nat /\ sync[d].snapshot \in Nat
  <2>1. f \in AnyFrame
    BY <1>1, FlightType DEF FeedInv
  <2>2. sync[d].snapshot \in Nat
    BY DEF FeedInv, Shape
  <2> QED
    BY <2>1, <2>2 DEF AnyFrame
<1>2. ASSUME NEW d \in Clients, NEW f \in Flight(d)', f.char \in Characters \ {ch}
      PROVE  f \in Flight(d)
  BY <1>2
<1>3. /\ engine'[ch].rev \in Nat /\ engine'[ch].ver \in Nat
      /\ fresh \in Nat /\ fresh' \in Nat
      /\ \A x \in Characters : /\ newest[x] \in Nat /\ newest'[x] \in Nat
                               /\ engine[x].rev \in Nat /\ engine[x].ver \in Nat
                               /\ disk[x] \in Nat /\ epoch[x] \in Nat
                               /\ \A d \in Clients : view[d][x] \in Nat
  <2>1. ASSUME NEW x \in Characters
        PROVE  /\ engine[x].rev \in Nat /\ engine[x].ver \in Nat
               /\ engine'[x].rev \in Nat /\ engine'[x].ver \in Nat
    BY DEF FeedInv, Shape
  <2>2. ASSUME NEW x \in Characters
        PROVE  newest[x] \in Nat /\ newest'[x] \in Nat /\ disk[x] \in Nat /\ epoch[x] \in Nat
    BY DEF FeedInv, Shape
  <2>3. ASSUME NEW x \in Characters, NEW d \in Clients
        PROVE  view[d][x] \in Nat
    BY DEF FeedInv, Shape
  <2>4. fresh \in Nat /\ fresh' \in Nat
    BY DEF FeedInv, Shape
  <2> QED
    BY <2>1, <2>2, <2>3, <2>4
<1>4. /\ engine[ch].made => EngineOf(ch) = engine[ch] /\ EpochOf(ch) = epoch[ch] /\ epoch[ch] # 0
      /\ ~engine[ch].made => EpochOf(ch) = epoch[ch] + 1
  BY DEF EngineOf, EpochOf, FeedInv, Blank
<1>5. epoch'[ch] # 0
  BY <1>3, <1>4
<1>6. Known'
  <2>1. ASSUME NEW x \in Characters
        PROVE  /\ newest'[x] <= fresh'
               /\ disk'[x] <= newest'[x] /\ engine'[x].ver <= newest'[x]
               /\ \A d \in Clients : \A f \in Flight(d)' : f.char = x => f.ver <= newest'[x]
    <3>1. CASE x = ch
      <4>1. ASSUME NEW d \in Clients, NEW f \in Flight(d)', f.char = ch PROVE f.ver <= newest'[ch]
        <5>1. CASE f \in E
          BY <5>1
        <5>2. CASE f \in Flight(d)
          <6>1. f.ver <= newest[ch]
            BY <4>1, <5>2 DEF FeedInv, Known
          <6> QED
            BY <1>1, <1>3, <4>1, <5>2, <6>1
        <5> QED
          BY <5>1, <5>2
      <4> QED
        BY <3>1, <4>1
    <3>2. CASE x # ch
      <4>1. /\ newest[x] <= fresh /\ disk[x] <= newest[x] /\ engine[x].ver <= newest[x]
            /\ \A d \in Clients : \A f \in Flight(d) : f.char = x => f.ver <= newest[x]
        BY DEF FeedInv, Known
      <4> QED
        BY <1>2, <1>3, <3>2, <4>1
    <3> QED
      BY <3>1, <3>2
  <2> QED
    BY <2>1 DEF Known
<1>7. Blank'
  <2>1. ASSUME NEW x \in Characters, epoch'[x] = 0
        PROVE  /\ ~engine'[x].made
               /\ \A d \in Clients : view'[d][x] = 0 /\ \A f \in Flight(d)' : f.char # x
    <3>1. x # ch
      BY <1>5, <2>1
    <3> QED
      BY <1>2, <2>1, <3>1 DEF FeedInv, Blank
  <2> QED
    BY <2>1 DEF Blank
<1>8. ASSUME Tight(ch)'
      PROVE  /\ ~engine[ch].made => epoch[ch] = 0
             /\ Tight(ch)
  <2>1. epoch'[ch] <= 1 /\ ch \notin unsaved
    BY <1>8 DEF Tight
  <2> QED
    BY <1>3, <1>4, <2>1 DEF Tight
(* What the engine now holds is ahead of what was on its way before.       *)
<1>9. ASSUME Tight(ch)', NEW d \in Clients
      PROVE  /\ view[d][ch] <= engine'[ch].ver
             /\ \A f \in Flight(d) : f.char = ch =>
                  /\ f.rev <= engine'[ch].rev /\ f.ver <= engine'[ch].ver
                  /\ f.rev = engine'[ch].rev => f.ver = engine'[ch].ver
  <2>1. CASE ~engine[ch].made
    <3>1. view[d][ch] = 0 /\ \A f \in Flight(d) : f.char # ch
      BY <1>8, <1>9, <2>1 DEF FeedInv, Blank
    <3> QED
      BY <1>3, <3>1
  <2>2. CASE engine[ch].made
    <3>1. /\ view[d][ch] <= engine[ch].ver
          /\ \A f \in Flight(d) : f.char = ch =>
               /\ f.rev <= engine[ch].rev /\ f.ver <= engine[ch].ver
               /\ f.rev = engine[ch].rev => f.ver = engine[ch].ver
      BY <1>8, <1>9, <2>2 DEF FeedInv, Ahead
    <3>2. \/ engine'[ch].rev = engine[ch].rev /\ engine'[ch].ver = engine[ch].ver
          \/ engine'[ch].rev = engine[ch].rev + 1 /\ engine'[ch].ver >= engine[ch].ver
      BY <1>4, <1>9, <2>2 DEF Tight
    <3> QED
      BY <1>1, <1>3, <3>1, <3>2
  <2> QED
    BY <2>1, <2>2
<1>10. Ahead'
  <2> SUFFICES ASSUME NEW x \in Characters, Tight(x)', engine'[x].made, NEW d \in Clients
               PROVE  /\ view'[d][x] <= engine'[x].ver
                      /\ \A f \in Flight(d)' : f.char = x =>
                           /\ f.rev <= engine'[x].rev /\ f.ver <= engine'[x].ver
                           /\ f.rev = engine'[x].rev => f.ver = engine'[x].ver
    BY DEF Ahead
  <2>1. CASE x = ch
    BY <1>3, <1>9, <2>1
  <2>2. CASE x # ch
    <3>1. Tight(x)
      BY <2>2 DEF Tight
    <3> QED
      BY <1>2, <2>2, <3>1 DEF FeedInv, Ahead
  <2> QED
    BY <2>1, <2>2
<1>11. Ordered'
  <2> SUFFICES ASSUME NEW x \in Characters, Tight(x)', NEW d \in Clients,
                      NEW f \in Flight(d)', f.char = x
               PROVE  /\ f.rev >= sync[d].snapshot => f.ver >= view[d][x]
                      /\ \A g \in Flight(d)' : g.char = x /\ f.rev >= g.rev => f.ver >= g.ver
    BY DEF Ordered
  <2>1. CASE x = ch
    <3>1. /\ f \in Flight(d) => /\ f.rev >= sync[d].snapshot => f.ver >= view[d][x]
                                /\ \A g \in Flight(d) : g.char = x /\ f.rev >= g.rev => f.ver >= g.ver
      BY <1>8, <2>1 DEF FeedInv, Ordered
    <3>2. f \in E => f.ver >= view[d][x]
      BY <1>3, <1>9, <2>1
    <3>3. ASSUME NEW g \in Flight(d)', g.char = x, f.rev >= g.rev PROVE f.ver >= g.ver
      <4>1. CASE f \in Flight(d) /\ g \in Flight(d)
        BY <3>1, <3>3, <4>1
      <4>2. CASE f \in E /\ g \in E
        BY <1>3, <4>2
      <4>3. CASE f \in E /\ g \in Flight(d)
        BY <1>1, <1>3, <1>9, <2>1, <3>3, <4>3
      <4>4. CASE f \in Flight(d) /\ g \in E
        <5>1. f.rev <= engine'[ch].rev /\ (f.rev = engine'[ch].rev => f.ver = engine'[ch].ver)
          BY <1>9, <2>1, <4>4
        <5> QED
          BY <1>1, <1>3, <2>1, <3>3, <4>4, <5>1
      <4> QED
        BY <4>1, <4>2, <4>3, <4>4
    <3> QED
      BY <3>1, <3>2, <3>3
  <2>2. CASE x # ch
    <3>1. Tight(x)
      BY <2>2 DEF Tight
    <3> QED
      BY <1>2, <2>2, <3>1 DEF FeedInv, Ordered
  <2> QED
    BY <2>1, <2>2
<1> QED
  BY <1>6, <1>7, <1>10, <1>11 DEF FeedInv

(* The characters whose revisions do not order their transcripts.          *)
Loose == unsaved \cup {ch \in Characters : epoch[ch] > 1}

(* Making an engine or failing to save loosens one character at most.      *)
LEMMA LooseStep ==
  ASSUME FeedInv, NEW ch \in Characters, epoch' = [epoch EXCEPT ![ch] = EpochOf(ch)],
         unsaved' \in {unsaved, unsaved \cup {ch}}
  PROVE  Loose' \in {Loose, Loose \cup {ch}}
<1>1. EpochOf(ch) \in Nat /\ EpochOf(ch) >= epoch[ch] /\ epoch[ch] \in Nat
      /\ \A x \in Characters : epoch'[x] = IF x = ch THEN EpochOf(ch) ELSE epoch[x]
  BY DEF EpochOf, FeedInv, Shape
<1>2. \A x \in Characters : epoch[x] > 1 => epoch'[x] > 1
  BY <1>1
<1>3. \A x \in Characters \ {ch} : epoch'[x] > 1 => epoch[x] > 1
  BY <1>1
<1> QED
  BY <1>2, <1>3 DEF Loose

(* Taking a snapshot may make an engine; no change is made.                *)
LEMMA TakeKeeps ==
  ASSUME FeedInv, Shape', NEW c \in Clients, NEW ch \in Characters \cup {None},
         TakeSnapshot(c, ch),
         UNCHANGED <<disk, fresh, newest, unsaved, queue, direct, sync, view>>,
         \A d \in Clients : conn'[d] # "on" => view[d] = Unknown
  PROVE  FeedInv' /\ (F!Next \/ UNCHANGED <<newest, view, Loose>>)
<1>0. snapshot \in [Clients -> AnyFrame] /\ available \subseteq Characters
  BY DEF FeedInv, Shape
<1>1. CASE ch \notin available
  <2>1. /\ snapshot' = [snapshot EXCEPT ![c] = [NoSnapshot EXCEPT !.kind = "history"]]
        /\ UNCHANGED <<engine, epoch>>
    BY <1>1 DEF TakeSnapshot
  <2>2. [NoSnapshot EXCEPT !.kind = "history"].char = None
    BY DEF NoSnapshot
  <2>3. ASSUME NEW d \in Clients, NEW f \in Flight(d)'
        PROVE  f \in Flight(d) \/ f.char \notin Characters
    BY <1>0, <2>1, <2>2, NoneAssumption DEF Flight
  <2>4. \A d \in Clients : Moves(d)
    BY <2>3, StillMoves
  <2>5. FeedInv'
    BY <2>1, <2>4, MovesKeep
  <2> QED
    BY <2>1, <2>5 DEF Loose
<1>2. CASE ch \in available
  <2> DEFINE h == HistoryOf(ch)
  <2>1. ch \in Characters /\ Shape
    BY <1>0, <1>2 DEF FeedInv
  <2>2. /\ snapshot' = [snapshot EXCEPT ![c] = h]
        /\ engine' = [engine EXCEPT ![ch] = EngineOf(ch)]
        /\ epoch' = [epoch EXCEPT ![ch] = EpochOf(ch)]
    BY <1>2 DEF TakeSnapshot
  <2>3. /\ h.char = ch /\ h.rev = EngineOf(ch).rev /\ h.ver = EngineOf(ch).ver
        /\ EngineOf(ch) \in [made : BOOLEAN, rev : Nat, ver : Nat] /\ EngineOf(ch).made
    BY <2>1, HistoryType
  <2>4. /\ engine'[ch] = EngineOf(ch) /\ epoch'[ch] = EpochOf(ch)
        /\ \A x \in Characters \ {ch} : engine'[x] = engine[x] /\ epoch'[x] = epoch[x]
    BY <2>1, <2>2 DEF Shape
  <2>5. \A d \in Clients : Flight(d)' \subseteq Flight(d) \cup {h}
    BY <1>0, <2>2 DEF Flight
  <2>6. /\ newest[ch] <= fresh /\ disk[ch] <= newest[ch] /\ EngineOf(ch).ver <= newest[ch]
        /\ newest[ch] \in Nat /\ fresh \in Nat
    BY <2>1 DEF FeedInv, Known, EngineOf, Shape
  <2>7. fresh' >= fresh /\ newest'[ch] >= newest[ch] /\ newest'[ch] <= fresh'
        /\ disk'[ch] <= newest'[ch] /\ engine'[ch].ver <= newest'[ch]
    BY <2>4, <2>6
  <2>8. FeedInv'
    <3>1. /\ engine'[ch].made
          /\ \A f \in {h} : f.char = ch /\ f.rev = engine'[ch].rev /\ f.ver = engine'[ch].ver
      BY <2>3, <2>4
    <3>2. \A x \in Characters \ {ch} :
            /\ engine'[x] = engine[x] /\ epoch'[x] = epoch[x]
            /\ newest'[x] = newest[x] /\ disk'[x] = disk[x]
      BY <2>4
    <3>3. engine'[ch].rev = EngineOf(ch).rev /\ engine'[ch].ver = EngineOf(ch).ver
      BY <2>4
    <3>4. unsaved' \in {unsaved, unsaved \cup {ch}} /\ epoch'[ch] = EpochOf(ch)
      BY <2>4
    <3> HIDE DEF h
    <3> QED
      BY <2>1, <2>5, <2>7, <3>1, <3>2, <3>3, <3>4, EngineKeeps
  <2>9. Loose' \in {Loose, Loose \cup {ch}}
    BY <2>1, <2>2, LooseStep
  <2>10. F!Loosen(ch) \/ UNCHANGED Loose
    BY <2>9 DEF F!Loosen, Loose
  <2> QED
    BY <2>1, <2>8, <2>10 DEF F!Next
<1> QED
  BY <1>1, <1>2

(* A change that is saved is published, and what is broadcast says so.     *)
LEMMA ChangeKeeps ==
  ASSUME FeedInv, NEW ch \in Characters, Change(ch)
  PROVE  FeedInv' /\ F!Next
<1> DEFINE h == [kind |-> "history", char |-> ch, rev |-> EngineOf(ch).rev + 1,
                 ver |-> fresh + 1, epoch |-> EpochOf(ch)]
           m == [h EXCEPT !.kind = "message"]
<1>1. PICK announced \in BOOLEAN :
        /\ fresh < MaxChanges
        /\ fresh' = fresh + 1 /\ newest' = [newest EXCEPT ![ch] = fresh + 1]
        /\ engine' = [engine EXCEPT ![ch] = [made |-> TRUE, rev |-> h.rev, ver |-> h.ver]]
        /\ epoch' = [epoch EXCEPT ![ch] = EpochOf(ch)]
        /\ disk' = [disk EXCEPT ![ch] = h.ver]
        /\ Broadcast(IF announced THEN <<h, m>> ELSE <<h>>)
        /\ UNCHANGED <<available, unsaved, faults, clientVars, lags, connVars, handlerVars>>
  BY DEF Change
<1>2. /\ Shape /\ fresh \in Nat /\ newest[ch] \in Nat /\ newest[ch] <= fresh
      /\ EngineOf(ch) \in [made : BOOLEAN, rev : Nat, ver : Nat] /\ EpochOf(ch) \in Nat
      /\ EngineOf(ch).ver <= newest[ch]
  BY HistoryType DEF FeedInv, Shape, Known, EngineOf
<1>3. h \in AnyFrame /\ m \in AnyFrame
  BY <1>2 DEF AnyFrame
<1>4. \A f \in {h, m} : f.char = ch /\ f.rev = EngineOf(ch).rev + 1 /\ f.ver = fresh + 1
  OBVIOUS
<1>5. /\ engine'[ch].made /\ engine'[ch].rev = EngineOf(ch).rev + 1 /\ engine'[ch].ver = fresh + 1
      /\ epoch'[ch] = EpochOf(ch) /\ newest'[ch] = fresh + 1 /\ disk'[ch] = fresh + 1
      /\ \A x \in Characters \ {ch} :
           /\ engine'[x] = engine[x] /\ epoch'[x] = epoch[x]
           /\ newest'[x] = newest[x] /\ disk'[x] = disk[x]
  BY <1>1, <1>2 DEF Shape
<1>6. UNCHANGED <<sync, view, conn, selected, snapshot, direct, available, unsaved>>
  BY <1>1 DEF clientVars, connVars, handlerVars
<1> DEFINE events == IF announced THEN <<h, m>> ELSE <<h>>
<1>7. events \in Seq(AnyFrame) /\ ToSet(events) \subseteq {h, m}
  <2> HIDE DEF h, m
  <2>1. <<h, m>> \in Seq(AnyFrame) /\ ToSet(<<h, m>>) \subseteq {h, m}
    BY <1>3 DEF ToSet
  <2>2. <<h>> \in Seq(AnyFrame) /\ ToSet(<<h>>) \subseteq {h, m}
    BY <1>3 DEF ToSet
  <2> QED
    BY <2>1, <2>2
<1>8. /\ queue' \in [Clients -> Seq(AnyFrame)]
      /\ \A c \in Clients : ToSet(queue'[c]) \subseteq ToSet(queue[c]) \cup {h, m}
  <2>1. Broadcast(events)
    BY <1>1
  <2> HIDE DEF events, h, m
  <2>2. /\ queue' \in [Clients -> Seq(AnyFrame)]
        /\ \A c \in Clients : ToSet(queue'[c]) \subseteq ToSet(queue[c]) \cup ToSet(events)
    BY <1>2, <1>7, <2>1, BroadcastShape
  <2> QED
    BY <1>7, <2>2
<1>9. Shape'
  <2>1. [made |-> TRUE, rev |-> h.rev, ver |-> h.ver] \in [made : BOOLEAN, rev : Nat, ver : Nat]
    BY <1>2
  <2>2. h.ver \in Nat /\ fresh + 1 \in Nat
    BY <1>2
  <2> HIDE DEF h, m
  <2> QED
    BY <1>1, <1>2, <1>6, <1>8, <2>1, <2>2 DEF Shape
<1>10. \A c \in Clients : Flight(c)' \subseteq Flight(c) \cup {h, m}
  BY <1>6, <1>8 DEF Flight
<1>11. FeedInv'
  <2>1. \A d \in Clients : conn'[d] # "on" => view[d] = Unknown
    BY <1>6 DEF FeedInv, Blank
  <2>2. \A f \in {h, m} : f.char = ch /\ f.rev = engine'[ch].rev /\ f.ver = engine'[ch].ver
    BY <1>4, <1>5
  <2>3. /\ fresh' >= fresh /\ newest'[ch] >= newest[ch] /\ newest'[ch] <= fresh'
        /\ disk'[ch] <= newest'[ch] /\ engine'[ch].ver <= newest'[ch]
        /\ engine'[ch].ver >= EngineOf(ch).ver
    BY <1>1, <1>2, <1>5
  <2>4. unsaved' \in {unsaved, unsaved \cup {ch}} /\ UNCHANGED <<sync, view>>
    BY <1>6
  <2> HIDE DEF h, m
  <2> QED
    BY <1>5, <1>9, <1>10, <2>1, <2>2, <2>3, <2>4, EngineKeeps
<1>12. F!Publish(ch)
  <2>1. Loose' \in {Loose, Loose \cup {ch}}
    BY <1>1, LooseStep
  <2>2. fresh + 1 \in newest[ch] + 1 .. MaxChanges
    BY <1>1, <1>2, SizesAssumption
  <2>3. newest' = [newest EXCEPT ![ch] = fresh + 1] /\ view' = view
    BY <1>1, <1>6
  <2> QED
    BY <2>1, <2>2, <2>3 DEF F!Publish, Loose
<1> QED
  BY <1>11, <1>12 DEF F!Next

(* An engine whose transcript moves on is an engine.                       *)
LEMMA EngineEdit ==
  ASSUME NEW e \in [made : BOOLEAN, rev : Nat, ver : Nat], e.made, NEW n \in Nat
  PROVE  /\ [e EXCEPT !.ver = n] \in [made : BOOLEAN, rev : Nat, ver : Nat]
         /\ [e EXCEPT !.ver = n].made /\ [e EXCEPT !.ver = n].ver = n
  OBVIOUS

(* A change that is not saved is published, and loosens its character.     *)
LEMMA ChangeFailsKeeps ==
  ASSUME FeedInv, NEW ch \in Characters, ChangeFails(ch)
  PROVE  FeedInv' /\ F!Next
<1>1. /\ fresh < MaxChanges
      /\ fresh' = fresh + 1 /\ newest' = [newest EXCEPT ![ch] = fresh + 1]
      /\ unsaved' = unsaved \cup {ch}
      /\ engine' = [engine EXCEPT ![ch] = [EngineOf(ch) EXCEPT !.ver = fresh + 1]]
      /\ epoch' = [epoch EXCEPT ![ch] = EpochOf(ch)]
      /\ UNCHANGED <<available, disk, sync, view, queue, conn, selected, snapshot, direct>>
  BY DEF ChangeFails, clientVars, ringVars, connVars, handlerVars
<1>2. /\ Shape /\ fresh \in Nat /\ newest[ch] \in Nat /\ newest[ch] <= fresh
      /\ disk[ch] \in Nat /\ disk[ch] <= newest[ch]
      /\ EngineOf(ch) \in [made : BOOLEAN, rev : Nat, ver : Nat] /\ EngineOf(ch).made
      /\ EpochOf(ch) \in Nat
  BY HistoryType DEF FeedInv, Shape, Known
<1> DEFINE e == [EngineOf(ch) EXCEPT !.ver = fresh + 1]
<1>3. e \in [made : BOOLEAN, rev : Nat, ver : Nat] /\ e.made /\ e.ver = fresh + 1
  <2>1. fresh + 1 \in Nat
    BY <1>2
  <2> QED
    BY <1>2, <2>1, EngineEdit, Zenon
<1>4. Shape'
  <2> HIDE DEF e
  <2> QED
    BY <1>1, <1>2, <1>3 DEF Shape
<1>5. /\ engine'[ch].made /\ engine'[ch].ver = fresh + 1
      /\ epoch'[ch] = EpochOf(ch) /\ newest'[ch] = fresh + 1 /\ disk'[ch] = disk[ch]
      /\ \A x \in Characters \ {ch} :
           /\ engine'[x] = engine[x] /\ epoch'[x] = epoch[x]
           /\ newest'[x] = newest[x] /\ disk'[x] = disk[x]
  BY <1>1, <1>2, <1>3 DEF Shape
<1>6. \A c \in Clients : Flight(c)' \subseteq Flight(c) \cup {}
  BY <1>1 DEF Flight
<1>7. FeedInv'
  <2>1. \A d \in Clients : conn'[d] # "on" => view[d] = Unknown
    BY <1>1 DEF FeedInv, Blank
  <2>2. /\ fresh' >= fresh /\ newest'[ch] >= newest[ch] /\ newest'[ch] <= fresh'
        /\ disk'[ch] <= newest'[ch] /\ engine'[ch].ver <= newest'[ch]
    BY <1>1, <1>2, <1>5
  <2>3. unsaved' \in {unsaved, unsaved \cup {ch}} /\ UNCHANGED <<sync, view>> /\ ch \in unsaved'
    BY <1>1
  <2> DEFINE E == {}
  <2>4. /\ \A f \in E : f.char = ch /\ f.rev = engine'[ch].rev /\ f.ver = engine'[ch].ver
        /\ \A c \in Clients : Flight(c)' \subseteq Flight(c) \cup E
    BY <1>6
  <2>5. ch \notin unsaved' =>
           \/ engine'[ch].rev = EngineOf(ch).rev /\ engine'[ch].ver = EngineOf(ch).ver
           \/ engine'[ch].rev = EngineOf(ch).rev + 1 /\ engine'[ch].ver >= EngineOf(ch).ver
    BY <2>3
  <2> HIDE DEF e, E
  <2> QED
    BY <1>4, <1>5, <2>1, <2>2, <2>3, <2>4, <2>5, EngineKeeps
<1>8. F!Publish(ch)
  <2>1. Loose' \in {Loose, Loose \cup {ch}}
    BY <1>1, LooseStep
  <2>2. fresh + 1 \in newest[ch] + 1 .. MaxChanges
    BY <1>1, <1>2, SizesAssumption
  <2>3. newest' = [newest EXCEPT ![ch] = fresh + 1] /\ view' = view
    BY <1>1
  <2> QED
    BY <2>1, <2>2, <2>3 DEF F!Publish, Loose
<1> QED
  BY <1>7, <1>8 DEF F!Next

(* A reload drops engines; what is on its way stays.                       *)
LEMMA ReloadKeeps ==
  ASSUME FeedInv, NEW A \in SUBSET Characters, Reload(A)
  PROVE  FeedInv' /\ UNCHANGED <<newest, view, Loose>>
<1>1. /\ available' = A
      /\ engine' = [ch \in Characters |-> IF ch \in A THEN engine[ch] ELSE NoEngine]
      /\ UNCHANGED <<disk, fresh, newest, unsaved, epoch, sync, view, queue, conn, selected,
                     snapshot, direct>>
  BY DEF Reload, clientVars, ringVars, connVars
<1>2. NoEngine \in [made : BOOLEAN, rev : Nat, ver : Nat] /\ NoEngine.ver = 0 /\ ~NoEngine.made
  BY DEF NoEngine
<1>3. Shape'
  BY <1>1, <1>2 DEF FeedInv, Shape
<1>4. \A c \in Clients : Flight(c)' = Flight(c)
  BY <1>1 DEF Flight
<1>5. \A ch \in Characters : engine'[ch] = engine[ch] \/ engine'[ch] = NoEngine
  BY <1>1
<1>6. \A ch \in Characters : newest[ch] \in Nat
  BY DEF FeedInv, Shape
<1>7. Known'
  BY <1>1, <1>2, <1>4, <1>5, <1>6 DEF FeedInv, Known
<1>8. Blank'
  BY <1>1, <1>2, <1>4, <1>5 DEF FeedInv, Blank
<1>9. Ahead'
  BY <1>1, <1>2, <1>4, <1>5 DEF FeedInv, Ahead, Tight
<1>10. Ordered'
  BY <1>1, <1>4 DEF FeedInv, Ordered, Tight
<1> QED
  BY <1>1, <1>3, <1>7, <1>8, <1>9, <1>10 DEF FeedInv, Loose

(* After a restart nobody knows anything.                                  *)
LEMMA RestartKeeps ==
  ASSUME FeedInv, Restart
  PROVE  FeedInv' /\ F!Next
<1>1. /\ CloseAll(Clients) /\ engine' = [ch \in Characters |-> NoEngine]
      /\ epoch' = Unknown /\ unsaved' = {}
      /\ UNCHANGED <<available, disk, fresh, newest>>
  BY DEF Restart
<1>2. NoEngine \in [made : BOOLEAN, rev : Nat, ver : Nat] /\ NoEngine.ver = 0 /\ ~NoEngine.made
  BY DEF NoEngine
<1>3. Shape'
  BY <1>1, <1>2, CloseShape DEF FeedInv, Unknown
<1>4. \A d \in Clients : /\ view'[d] = Unknown /\ snapshot'[d] = NoSnapshot
                         /\ queue'[d] = <<>> /\ direct'[d] = <<>>
  BY <1>1 DEF CloseAll
<1>5. \A d \in Clients : Flight(d)' = {NoSnapshot}
  BY <1>4 DEF Flight, ToSet
<1>6. \A d \in Clients : \A f \in Flight(d)' : f.char \notin Characters
  BY <1>5, NoSnapshotType
<1>7. \A ch \in Characters : newest[ch] \in Nat
  BY DEF FeedInv, Shape
<1>8. Known'
  BY <1>1, <1>2, <1>6, <1>7 DEF FeedInv, Known
<1>9. Blank'
  BY <1>1, <1>2, <1>4, <1>6 DEF Blank, Unknown
<1>10. Ahead' /\ Ordered'
  BY <1>1, <1>2, <1>6 DEF Ahead, Ordered
<1>11. F!Restart
  <2>1. view' = [c \in Clients |-> Unknown]
    BY <1>3, <1>4 DEF Shape
  <2>2. Loose' = {}
    BY <1>1 DEF Loose, Unknown
  <2> QED
    BY <1>1, <2>1, <2>2 DEF F!Restart, F!Nothing, Loose, Unknown
<1> QED
  BY <1>3, <1>8, <1>9, <1>10, <1>11 DEF FeedInv, F!Next

-----------------------------------------------------------------------------
(* Each step is a step of Feed or none                                     *)

FeedStep == F!Next \/ UNCHANGED <<newest, view, Loose>>

(* Nobody learns or forgets anything: subscribing, and pushing a snapshot  *)
(* into a channel that keeps it for the same client.                       *)
LEMMA SubscribeKeeps ==
  ASSUME FeedInv, NEW c \in Clients, Subscribe(c)
  PROVE  FeedInv' /\ FeedStep
<1>1. /\ conn[c] = "off" /\ conn' = [conn EXCEPT ![c] = "subscribed"]
      /\ UNCHANGED <<available, engine, disk, fresh, newest, unsaved, epoch, sync, view,
                     queue, selected, snapshot, direct>>
  BY DEF Subscribe, engineVars, clientVars, ringVars, handlerVars
<1>2. Shape'
  BY <1>1 DEF FeedInv, Shape
<1>3. \A d \in Clients : conn'[d] # "on" => view[d] = Unknown
  BY <1>1 DEF FeedInv, Shape, Blank
<1>4. \A d \in Clients : Flight(d)' = Flight(d)
  BY <1>1 DEF Flight
<1> QED
  BY <1>1, <1>2, <1>3, <1>4, StillMoves, MovesKeep DEF FeedStep, Loose

(* A pushed snapshot waits in the client's channel.                        *)
LEMMA PushKeeps ==
  ASSUME FeedInv, NEW c \in Clients, Push(c)
  PROVE  FeedInv' /\ FeedStep
<1>1. /\ direct' = [direct EXCEPT ![c] = Append(direct[c], snapshot[c])]
      /\ snapshot' = [snapshot EXCEPT ![c] = NoSnapshot]
      /\ UNCHANGED <<available, engine, disk, fresh, newest, unsaved, epoch, sync, view,
                     queue, conn, selected>>
  BY DEF Push, engineVars, clientVars, ringVars, connVars
<1>2. Shape
  BY DEF FeedInv
<1>3. /\ Append(direct[c], snapshot[c]) \in Seq(AnyFrame)
      /\ ToSet(Append(direct[c], snapshot[c])) \subseteq ToSet(direct[c]) \cup {snapshot[c]}
  <2>1. direct[c] \in Seq(AnyFrame) /\ snapshot[c] \in AnyFrame
    BY <1>2 DEF Shape
  <2> QED
    BY <2>1, ToSetSeq
<1>4. Shape'
  BY <1>1, <1>2, <1>3, NoSnapshotType DEF Shape
<1>5. ASSUME NEW d \in Clients, NEW f \in Flight(d)' PROVE f \in Flight(d) \/ f.char \notin Characters
  <2>1. CASE d = c
    <3>1. /\ queue'[c] = queue[c] /\ direct'[c] = Append(direct[c], snapshot[c])
          /\ snapshot'[c] = NoSnapshot
      BY <1>1, <1>2 DEF Shape
    <3> QED
      BY <1>3, <2>1, <3>1, NoSnapshotType DEF Flight
  <2>2. CASE d # c
    <3>1. queue'[d] = queue[d] /\ direct'[d] = direct[d] /\ snapshot'[d] = snapshot[d]
      BY <1>1, <1>2, <2>2 DEF Shape
    <3> QED
      BY <3>1 DEF Flight
  <2> QED
    BY <2>1, <2>2
<1>6. \A d \in Clients : conn'[d] # "on" => view[d] = Unknown
  BY <1>1 DEF FeedInv, Blank
<1> QED
  BY <1>1, <1>4, <1>5, <1>6, StillMoves, MovesKeep DEF FeedStep, Loose

(* Connections end, whoever ends them.                                     *)
LEMMA CloseKeeps ==
  ASSUME FeedInv, NEW C \in SUBSET Clients, CloseAll(C), UNCHANGED engineVars
  PROVE  FeedInv' /\ FeedStep
<1>1. UNCHANGED <<available, engine, disk, fresh, newest, unsaved, epoch>>
  BY DEF engineVars
<1>2. Shape'
  BY <1>1, CloseShape DEF FeedInv, Shape
<1>3. FeedInv'
  BY <1>1, <1>2, CloseMoves, MovesKeep
<1>4. F!Forget(C)
  BY <1>1 DEF CloseAll, F!Forget, F!Nothing, Unknown
<1> QED
  BY <1>3, <1>4 DEF FeedStep, F!Next

(* A lag ends the connection or passes.                                    *)
LEMMA LaggedKeeps ==
  ASSUME FeedInv, NEW c \in Clients, Lagged(c)
  PROVE  FeedInv' /\ FeedStep
<1>1. CASE CloseAll({c}) /\ UNCHANGED engineVars
  BY <1>1, CloseKeeps
<1>2. CASE UNCHANGED <<engineVars, clientVars, queue, conn, selected, handlerVars>>
  <2>1. UNCHANGED <<available, engine, disk, fresh, newest, unsaved, epoch, sync, view,
                    queue, conn, selected, snapshot, direct>>
    BY <1>2 DEF engineVars, clientVars, handlerVars
  <2>2. Shape'
    BY <2>1 DEF FeedInv, Shape
  <2>3. \A d \in Clients : conn'[d] # "on" => view[d] = Unknown
    BY <2>1 DEF FeedInv, Blank
  <2>4. \A d \in Clients : Flight(d)' = Flight(d)
    BY <2>1 DEF Flight
  <2> QED
    BY <2>1, <2>2, <2>3, <2>4, StillMoves, MovesKeep DEF FeedStep, Loose
<1> QED
  BY <1>1, <1>2 DEF Lagged

(* A frame on its way to a client may be learned.                          *)
LEMMA LearnStep ==
  ASSUME FeedInv, NEW c \in Clients, NEW f \in Flight(c), f.char \in Characters,
         f.rev >= sync[c].snapshot \/ view[c] = Unknown,
         view' = [view EXCEPT ![c][f.char] = f.ver],
         UNCHANGED <<newest, unsaved, epoch>>
  PROVE  F!Next
<1>1. f \in AnyFrame /\ newest[f.char] \in Nat /\ f.ver <= newest[f.char]
  BY FlightType DEF FeedInv, Shape, Known
<1>2. f.ver \in 0..newest[f.char]
  BY <1>1 DEF AnyFrame
<1>3. f.char \in Loose \/ f.ver >= view[c][f.char]
  <2>1. CASE view[c] = Unknown
    BY <1>1, <2>1 DEF Unknown, AnyFrame
  <2>2. CASE f.rev >= sync[c].snapshot /\ f.char \notin Loose
    <3>1. Tight(f.char)
      BY <2>2 DEF Loose, Tight, FeedInv, Shape
    <3> QED
      BY <2>2, <3>1 DEF FeedInv, Ordered
  <2> QED
    BY <2>1, <2>2
<1>4. F!Learn(c, f.char)
  BY <1>2, <1>3 DEF F!Learn, Loose
<1> QED
  BY <1>4 DEF F!Next

(* A handshake is learned.                                                 *)
LEMMA RegisterKeeps ==
  ASSUME FeedInv, NEW c \in Clients, Register(c)
  PROVE  FeedInv' /\ FeedStep
<1> DEFINE f == snapshot[c]
<1>1. /\ view' = [view EXCEPT ![c] = IF f.char = None THEN Unknown ELSE Show(f)]
      /\ UNCHANGED <<available, engine, disk, fresh, newest, unsaved, epoch>>
  BY DEF Register, engineVars
<1>2. FeedInv'
  BY <1>1, RegisterMoves, MovesKeep
<1>3. /\ f \in AnyFrame /\ f \in Flight(c) /\ view[c] = Unknown
      /\ view \in [Clients -> [Characters -> Nat]]
  BY DEF FeedInv, Shape, Flight, Register, Blank
<1>4. CASE f.char = None
  BY <1>1, <1>2, <1>3, <1>4 DEF FeedStep, Loose
<1>5. CASE f.char # None
  <2>1. f.char \in Characters
    BY <1>3, <1>5 DEF AnyFrame
  <2>2. view' = [view EXCEPT ![c][f.char] = f.ver]
    BY <1>1, <1>3, <1>5 DEF Show
  <2> QED
    BY <1>1, <1>2, <1>3, <2>1, <2>2, LearnStep DEF FeedStep
<1> QED
  BY <1>4, <1>5

(* A client reads a frame; a stale one changes nothing.                    *)
LEMMA ObserveKeeps ==
  ASSUME FeedInv, NEW c \in Clients, NEW f \in Flight(c), Observe(c, f), conn[c] = "on",
         queue' \in [Clients -> Seq(AnyFrame)], direct' \in [Clients -> Seq(AnyFrame)],
         \A d \in Clients : Flight(d)' \subseteq Flight(d),
         UNCHANGED <<engineVars, connVars, snapshot>>
  PROVE  FeedInv' /\ FeedStep
<1>1. UNCHANGED <<available, engine, disk, fresh, newest, unsaved, epoch, conn, selected, snapshot>>
  BY DEF engineVars, connVars
<1>2. f \in AnyFrame
  BY FlightType DEF FeedInv
<1>3. Shape'
  BY <1>1, <1>2, ObserveShape DEF FeedInv, Shape
<1>4. FeedInv'
  BY <1>1, <1>3, ObserveMoves, MovesKeep
<1>5. \/ view' = view
      \/ /\ f.rev >= sync[c].snapshot /\ f.char # None
         /\ view' = [view EXCEPT ![c][f.char] = f.ver]
  <2>1. f.rev \in Nat /\ sync[c].snapshot \in Nat
    BY <1>2 DEF AnyFrame, FeedInv, Shape
  <2> QED
    BY <2>1 DEF Observe, Take
<1>6. CASE view' = view
  BY <1>1, <1>4, <1>6 DEF FeedStep, Loose
<1>7. CASE /\ f.rev >= sync[c].snapshot /\ f.char # None
           /\ view' = [view EXCEPT ![c][f.char] = f.ver]
  <2>1. f.char \in Characters
    BY <1>2, <1>7 DEF AnyFrame
  <2> QED
    BY <1>1, <1>4, <1>7, <2>1, LearnStep DEF FeedStep
<1> QED
  BY <1>5, <1>6, <1>7

(* Both channels are read from their heads.                                *)
LEMMA ForwardKeeps ==
  ASSUME FeedInv, NEW c \in Clients, ForwardDirect(c) \/ ForwardEvent(c)
  PROVE  FeedInv' /\ FeedStep
<1>1. /\ queue \in [Clients -> Seq(AnyFrame)] /\ direct \in [Clients -> Seq(AnyFrame)]
  BY DEF FeedInv, Shape
<1>2. CASE ForwardDirect(c)
  <2>1. /\ conn[c] = "on" /\ direct[c] # <<>> /\ direct' = [direct EXCEPT ![c] = Tail(direct[c])]
        /\ Observe(c, Head(direct[c])) /\ queue' = queue
        /\ UNCHANGED <<engineVars, connVars, snapshot>>
    BY <1>2 DEF ForwardDirect, ringVars
  <2>2. /\ Head(direct[c]) \in ToSet(direct[c]) /\ Tail(direct[c]) \in Seq(AnyFrame)
        /\ ToSet(Tail(direct[c])) \subseteq ToSet(direct[c])
    BY <1>1, <2>1, ToSetSeq
  <2>3. direct' \in [Clients -> Seq(AnyFrame)]
    BY <1>1, <2>1, <2>2
  <2>4. ASSUME NEW d \in Clients PROVE Flight(d)' \subseteq Flight(d)
    <3>1. ToSet(direct'[d]) \subseteq ToSet(direct[d])
      BY <1>1, <2>1, <2>2
    <3> QED
      BY <2>1, <3>1 DEF Flight
  <2> QED
    BY <1>1, <2>1, <2>2, <2>3, <2>4, ObserveKeeps DEF Flight
<1>3. CASE ForwardEvent(c)
  <2>1. /\ conn[c] = "on" /\ queue[c] # <<>> /\ queue' = [queue EXCEPT ![c] = Tail(queue[c])]
        /\ Observe(c, Head(queue[c])) /\ direct' = direct
        /\ UNCHANGED <<engineVars, connVars, snapshot>>
    BY <1>3 DEF ForwardEvent, handlerVars
  <2>2. /\ Head(queue[c]) \in ToSet(queue[c]) /\ Tail(queue[c]) \in Seq(AnyFrame)
        /\ ToSet(Tail(queue[c])) \subseteq ToSet(queue[c])
    BY <1>1, <2>1, ToSetSeq
  <2>3. queue' \in [Clients -> Seq(AnyFrame)]
    BY <1>1, <2>1, <2>2
  <2>4. ASSUME NEW d \in Clients PROVE Flight(d)' \subseteq Flight(d)
    <3>1. ToSet(queue'[d]) \subseteq ToSet(queue[d])
      BY <1>1, <2>1, <2>2
    <3> QED
      BY <2>1, <3>1 DEF Flight
  <2> QED
    BY <1>1, <2>1, <2>2, <2>3, <2>4, ObserveKeeps DEF Flight
<1> QED
  BY <1>2, <1>3

(* Handshakes, switches and reloads take snapshots.                        *)
LEMMA SnapshotKeeps ==
  ASSUME FeedInv, NEW c \in Clients,
         LoadSnapshot(c) \/ PushReloaded(c) \/ \E ch \in Characters : Switch(c, ch)
  PROVE  FeedInv' /\ FeedStep
<1>0. /\ Shape /\ \A d \in Clients : conn[d] # "on" => view[d] = Unknown
      /\ selected[c] \in Characters \cup {None}
  BY DEF FeedInv, Blank, Shape
<1>1. CASE LoadSnapshot(c)
  <2>1. PICK ch \in Characters \cup {None} : TakeSnapshot(c, ch)
    BY <1>1 DEF LoadSnapshot
  <2>2. /\ conn[c] = "subscribed" /\ conn' = [conn EXCEPT ![c] = "loaded"]
        /\ UNCHANGED <<available, disk, fresh, newest, unsaved, queue, direct, sync, view, selected>>
    BY <1>1 DEF LoadSnapshot, clientVars, ringVars
  <2>3. \A d \in Clients : conn'[d] # "on" => view[d] = Unknown
    BY <1>0, <2>2 DEF Shape
  <2>4. Shape'
    <3>1. /\ conn' \in [Clients -> {"off", "subscribed", "loaded", "on"}]
          /\ selected' \in [Clients -> Characters \cup {None}]
      BY <1>0, <2>2 DEF Shape
    <3> QED
      BY <1>0, <2>1, <2>2, <3>1, TakeShape
  <2> QED
    BY <2>1, <2>2, <2>3, <2>4, TakeKeeps DEF FeedStep
<1>2. CASE PushReloaded(c)
  <2>1. /\ TakeSnapshot(c, selected[c])
        /\ selected' = [selected EXCEPT ![c] = IF @ \in available THEN @ ELSE None]
        /\ UNCHANGED <<available, disk, fresh, newest, unsaved, queue, direct, sync, view, conn>>
    BY <1>2 DEF PushReloaded, clientVars, ringVars
  <2>2. Shape'
    <3>1. /\ conn' \in [Clients -> {"off", "subscribed", "loaded", "on"}]
          /\ selected' \in [Clients -> Characters \cup {None}]
      BY <1>0, <2>1 DEF Shape
    <3> QED
      BY <1>0, <2>1, <3>1, TakeShape
  <2> QED
    BY <1>0, <2>1, <2>2, TakeKeeps DEF FeedStep
<1>3. ASSUME NEW ch \in Characters, Switch(c, ch) PROVE FeedInv' /\ FeedStep
  <2>1. /\ TakeSnapshot(c, ch) /\ selected' = [selected EXCEPT ![c] = ch]
        /\ UNCHANGED <<available, disk, fresh, newest, unsaved, queue, direct, sync, view, conn>>
    BY <1>3 DEF Switch, clientVars, ringVars
  <2>2. Shape'
    <3>1. /\ conn' \in [Clients -> {"off", "subscribed", "loaded", "on"}]
          /\ selected' \in [Clients -> Characters \cup {None}]
      BY <1>0, <2>1 DEF Shape
    <3> QED
      BY <1>0, <2>1, <3>1, TakeShape
  <2> QED
    BY <1>0, <2>1, <2>2, TakeKeeps DEF FeedStep
<1> QED
  BY <1>1, <1>2, <1>3

(* Every step keeps the invariant and is a step of Feed or none.           *)
LEMMA StepKeeps ==
  ASSUME FeedInv, [Next]_vars
  PROVE  FeedInv' /\ FeedStep
<1>1. ASSUME NEW ch \in Characters, Change(ch) \/ ChangeFails(ch) PROVE FeedInv' /\ FeedStep
  BY <1>1, ChangeKeeps, ChangeFailsKeeps DEF FeedStep
<1>2. ASSUME NEW c \in Clients, Subscribe(c) \/ Push(c) \/ Lagged(c) \/ Register(c)
      PROVE FeedInv' /\ FeedStep
  BY <1>2, SubscribeKeeps, PushKeeps, LaggedKeeps, RegisterKeeps
<1>3. ASSUME NEW c \in Clients, Disconnect(c) PROVE FeedInv' /\ FeedStep
  BY <1>3, CloseKeeps DEF Disconnect
<1>4. ASSUME NEW c \in Clients, ForwardDirect(c) \/ ForwardEvent(c) PROVE FeedInv' /\ FeedStep
  BY <1>4, ForwardKeeps
<1>5. ASSUME NEW c \in Clients,
             LoadSnapshot(c) \/ PushReloaded(c) \/ \E ch \in Characters : Switch(c, ch)
      PROVE FeedInv' /\ FeedStep
  BY <1>5, SnapshotKeeps
<1>6. ASSUME NEW A \in SUBSET Characters, Reload(A) PROVE FeedInv' /\ FeedStep
  BY <1>6, ReloadKeeps DEF FeedStep
<1>7. CASE Restart
  BY <1>7, RestartKeeps DEF FeedStep
<1>8. CASE UNCHANGED vars
  <2>1. UNCHANGED <<available, engine, disk, fresh, newest, unsaved, epoch, sync, view,
                    queue, conn, selected, snapshot, direct>>
    BY <1>8 DEF vars, engineVars, clientVars, ringVars, connVars, handlerVars
  <2>2. Shape'
    BY <2>1 DEF FeedInv, Shape
  <2>3. \A d \in Clients : conn'[d] # "on" => view[d] = Unknown
    BY <2>1 DEF FeedInv, Blank
  <2>4. \A d \in Clients : Flight(d)' = Flight(d)
    BY <2>1 DEF Flight
  <2> QED
    BY <2>1, <2>2, <2>3, <2>4, StillMoves, MovesKeep DEF FeedStep, Loose
<1> QED
  BY <1>1, <1>2, <1>3, <1>4, <1>5, <1>6, <1>7, <1>8 DEF Next

(* The daemon's channels, watermarks, reloads and restarts implement what  *)
(* Feed promises: what a client knows of a character never goes back while *)
(* its connection lasts and its revisions tell transcripts apart.          *)
THEOREM FollowsFeed == Spec => FeedSpec
<1>1. Init => F!Init
  BY DEF Init, F!Init, F!Nothing, Unknown
<1>2. FeedInv /\ [Next]_vars => FeedInv'
  BY StepKeeps
<1>3. FeedInv /\ [Next]_vars => [F!Next]_(F!vars)
  BY StepKeeps DEF FeedStep, F!vars, Loose
<1> QED
  BY FeedInvInit, <1>1, <1>2, <1>3, PTL DEF Spec, FeedSpec, F!Spec
=============================================================================
