-------------------------- MODULE SyncSafetyProofs --------------------------
(***************************************************************************)
(* A client ends up showing what is saved, and is told of each new message *)
(* once, for any clients, characters, channel sizes and bounds.            *)
(***************************************************************************)
EXTENDS SyncProofs

-----------------------------------------------------------------------------
(* The invariant                                                           *)

(* Capacities, and what Shape leaves out.                                  *)
Bounds ==
  /\ fresh <= MaxChanges
  /\ base \in [Clients -> [Characters -> Nat]]
  /\ shown \in [Clients -> [Characters -> Nat]]
  /\ raised \in [Clients -> (Characters \cup {None}) \X Nat]
  /\ lagged \in [Clients -> BOOLEAN] /\ lags \in [Clients -> 0..MaxLags]
  /\ todo \subseteq {c \in Clients : conn[c] = "on"}
  /\ evicted \in [Clients -> SUBSET (0..fresh)]
  /\ \A c \in Clients : Len(queue[c]) <= RingSize /\ Len(direct[c]) <= DirectSize

(* An engine starts at revision zero and holds at least what is saved.     *)
Engines ==
  \A ch \in Characters :
    /\ engine[ch].rev <= fresh
    /\ ~engine[ch].made => engine[ch].rev = 0
    /\ engine[ch].made => engine[ch].ver >= disk[ch]
    /\ disk[ch] = 0 => engine[ch].rev = 0

(* A frame of a character tells its age: what is saved is not older than a *)
(* frame below the engine's revision, and no older than what the engine    *)
(* itself sent at its revision.                                            *)
FrameOK(f) ==
  LET ch == f.char
  IN /\ f.epoch \in 1..epoch[ch] /\ f.ver <= fresh /\ f.rev <= fresh
     /\ f.kind = "message" => f.rev > 0 /\ f.ver > 0
     /\ f.ver >= disk[ch] => f.rev >= engine[ch].rev
     /\ engine[ch].made /\ f.epoch = epoch[ch] =>
          /\ f.rev <= engine[ch].rev /\ f.ver <= engine[ch].ver
          /\ f.rev = engine[ch].rev => f.ver >= disk[ch]

(* The revisions of the last engine compare its messages with its frames;  *)
(* frames of earlier engines are older than its messages.                  *)
Comparable(m, f) ==
  m.kind = "message" /\ m.char = f.char /\ m.epoch = epoch[m.char] =>
    IF f.epoch = m.epoch THEN f.rev >= m.rev <=> f.ver >= m.ver ELSE f.ver < m.ver

Nobody(f) == f.char = None /\ f.kind # "message" /\ f.rev = 0 /\ f.ver = 0 /\ f.epoch = 0

Frames ==
  \A c \in Clients : \A f \in Flight(c) :
    \/ Nobody(f)
    \/ f.char \in Characters /\ FrameOK(f) /\ \A m \in Flight(c) : Comparable(m, f)

(* What travels where: what is broadcast is saved.                         *)
Kinds ==
  \A c \in Clients :
    /\ \A f \in ToSet(direct[c]) : f.kind = "history"
    /\ \A f \in ToSet(queue[c]) :
         f.kind \in {"history", "message"} /\ f.char \in Characters /\ f.ver <= disk[f.char]
    /\ snapshot[c].kind \in {"none", "history"}
    /\ snapshot[c].kind = "none" => snapshot[c].char = None

(* An engine's messages wait in the order of their revisions.              *)
Precede(m, n) ==
  m.kind = "message" /\ n.kind = "message" /\ m.char = n.char /\ m.epoch = n.epoch =>
    m.rev < n.rev

InOrder ==
  \A c \in Clients : \A i, j \in 1..Len(queue[c]) :
    i < j => Precede(queue[c][i], queue[c][j])

(* Who shows what is saved has a watermark as high as the engine's.        *)
ViewsOf(c) ==
  /\ sync[c].message <= fresh /\ sync[c].snapshot <= fresh
  /\ \A ch \in Characters :
       /\ view[c][ch] <= fresh /\ base[c][ch] <= fresh
       /\ conn[c] = "on" /\ view[c][ch] >= disk[ch] => sync[c].snapshot >= engine[ch].rev

Views == \A c \in Clients : ViewsOf(c)

(* The message watermark separates the messages the handshake has shown    *)
(* from those it has not.                                                  *)
RaisedOf(c) ==
  conn[c] = "on" =>
    /\ raised[c] = <<None, 0>> => sync[c].message = 0 /\ base[c] = Unknown
    /\ \A ch \in Characters : raised[c][1] = ch =>
         /\ raised[c][2] \in 1..epoch[ch]
         /\ raised[c][2] = epoch[ch] /\ engine[ch].made => sync[c].message <= engine[ch].rev
    /\ \A m \in Flight(c) : m.kind = "message" /\ m.epoch = epoch[m.char] =>
         /\ m.rev > sync[c].message => m.ver > base[c][m.char]
         /\ raised[c] = <<m.char, m.epoch>> /\ m.rev <= sync[c].message => m.ver <= base[c][m.char]

Raised == \A c \in Clients : RaisedOf(c)

(* What is saved of the character a client follows is shown, on its way,   *)
(* lost to lag, or behind the watermark of another engine.                 *)
Target(c) == IF conn[c] = "on" THEN selected[c] ELSE snapshot[c].char

Behind(c, ch) ==
  \/ sync[c].snapshot > engine[ch].rev
  \/ sync[c].snapshot = engine[ch].rev /\ shown[c][ch] \notin {0, EpochOf(ch)}

Saved(f, ch) == f.kind = "history" /\ f.char = ch /\ f.ver >= disk[ch]

Coming ==
  \A c \in Clients : \A ch \in Characters : conn[c] \in {"loaded", "on"} /\ Target(c) = ch =>
    \/ c \in todo \/ disk[ch] \in evicted[c]
    \/ \E f \in Flight(c) : Saved(f, ch)
    \/ conn[c] = "on" /\ (view[c][ch] >= disk[ch] \/ Behind(c, ch))

SafeInv ==
  /\ FeedInv /\ Bounds /\ Engines /\ Frames /\ Kinds
  /\ InOrder /\ Views /\ Raised /\ Coming

(* At the start nothing is under way.                                      *)
LEMMA SafeInvInit == Init => SafeInv
<1> SUFFICES ASSUME Init PROVE SafeInv
  OBVIOUS
<1>1. FeedInv
  BY FeedInvInit
<1>2. /\ \A c \in Clients : /\ queue[c] = <<>> /\ direct[c] = <<>> /\ snapshot[c] = NoSnapshot
                            /\ conn[c] = "off" /\ sync[c] = NewSync(0)
                            /\ view[c] = Unknown /\ base[c] = Unknown
      /\ \A ch \in Characters : engine[ch] = NoEngine /\ disk[ch] = 0
      /\ fresh = 0
  BY DEF Init, Unknown
<1>3. Bounds
  BY <1>2, SizesAssumption DEF Init, Bounds, Unknown
<1>4. Engines
  BY <1>2 DEF Engines, NoEngine
<1>5. \A c \in Clients : Flight(c) = {NoSnapshot}
  BY <1>2 DEF Flight, ToSet
<1>6. Frames
  BY <1>5 DEF Frames, Nobody, NoSnapshot
<1>7. Kinds
  BY <1>2 DEF Kinds, ToSet, NoSnapshot
<1>8. InOrder
  BY <1>2 DEF InOrder
<1>9. Views
  BY <1>2 DEF Views, ViewsOf, NewSync, Unknown
<1>10. Raised /\ Coming
  BY <1>2 DEF Raised, RaisedOf, Coming
<1> QED
  BY <1>1, <1>3, <1>4, <1>6, <1>7, <1>8, <1>9, <1>10 DEF SafeInv

-----------------------------------------------------------------------------
(* Frames and engines                                                      *)

(* Frames may be read or lost, and those of nobody are harmless.           *)
LEMMA StillFrames ==
  ASSUME Engines, Frames, UNCHANGED <<engine, disk, fresh, epoch>>,
         \A d \in Clients : \A f \in Flight(d)' : f \in Flight(d) \/ Nobody(f)
  PROVE  Engines' /\ Frames'
<1>1. Engines'
  BY DEF Engines
<1>2. ASSUME NEW d \in Clients, NEW f \in Flight(d)', ~Nobody(f)
      PROVE  f.char \in Characters /\ FrameOK(f)' /\ \A m \in Flight(d)' : Comparable(m, f)'
  <2>1. f \in Flight(d)
    BY <1>2
  <2>2. f.char \in Characters /\ FrameOK(f) /\ \A m \in Flight(d) : Comparable(m, f)
    BY <1>2, <2>1 DEF Frames
  <2>3. FrameOK(f)'
    BY <2>2 DEF FrameOK
  <2>4. ASSUME NEW m \in Flight(d)' PROVE Comparable(m, f)'
    <3>1. CASE Nobody(m)
      BY <3>1 DEF Nobody, Comparable
    <3>2. CASE m \in Flight(d)
      BY <2>2, <3>2 DEF Comparable
    <3> QED
      BY <3>1, <3>2
  <2> QED
    BY <2>2, <2>3, <2>4
<1>3. Frames'
  BY <1>2 DEF Frames, Nobody
<1> QED
  BY <1>1, <1>3

(* The types of what is on its way.                                        *)
LEMMA FrameTypes ==
  ASSUME Shape, NEW c \in Clients, NEW f \in Flight(c)
  PROVE  f.rev \in Nat /\ f.ver \in Nat /\ f.epoch \in Nat /\ f.char \in Characters \cup {None}
<1>1. f \in AnyFrame
  BY FlightType
<1> QED
  BY <1>1 DEF AnyFrame

(* The types of what is known of a character.                              *)
LEMMA EngineTypes ==
  ASSUME Shape, NEW ch \in Characters
  PROVE  /\ engine[ch].rev \in Nat /\ engine[ch].ver \in Nat /\ disk[ch] \in Nat
         /\ epoch[ch] \in Nat /\ newest[ch] \in Nat /\ fresh \in Nat
  BY DEF Shape

(* The types of what a client knows.                                       *)
LEMMA ClientTypes ==
  ASSUME Shape, Bounds, NEW c \in Clients
  PROVE  /\ sync[c].message \in Nat /\ sync[c].snapshot \in Nat
         /\ \A x \in Characters : view[c][x] \in Nat /\ base[c][x] \in Nat /\ shown[c][x] \in Nat
<1>1. /\ sync[c] \in [message : Nat, snapshot : Nat]
      /\ view[c] \in [Characters -> Nat] /\ base[c] \in [Characters -> Nat]
      /\ shown[c] \in [Characters -> Nat]
  BY DEF Shape, Bounds
<1> QED
  BY <1>1

(* An engine is read, or moves on, and E is what it sends then: messages   *)
(* only of a change that was saved.                                        *)
EngineStep(ch, E) ==
  /\ \A d \in Clients : Flight(d)' \subseteq Flight(d) \cup E
  /\ \A f \in E : /\ f.char = ch /\ f.epoch = epoch'[ch] /\ f.kind \in {"history", "message"}
                 /\ f.rev = engine'[ch].rev /\ f.ver = engine'[ch].ver
  /\ engine'[ch].made /\ epoch'[ch] = EpochOf(ch)
  /\ \A x \in Characters \ {ch} :
       engine'[x] = engine[x] /\ epoch'[x] = epoch[x] /\ disk'[x] = disk[x]
  /\ fresh' >= fresh /\ engine'[ch].ver <= fresh'
  /\ \/ /\ engine'[ch].rev = EngineOf(ch).rev /\ engine'[ch].ver >= EngineOf(ch).ver
        /\ disk'[ch] = disk[ch] /\ \A f \in E : f.kind = "history"
     \/ /\ engine'[ch].rev = EngineOf(ch).rev + 1 /\ engine'[ch].ver = fresh + 1
        /\ disk'[ch] = fresh + 1

LEMMA EngineFrames ==
  ASSUME FeedInv, Engines, Frames, Shape', NEW ch \in Characters, NEW E, EngineStep(ch, E)
  PROVE  Engines' /\ Frames'
<1> USE DEF EngineStep
<1> DEFINE read == /\ engine'[ch].rev = EngineOf(ch).rev /\ engine'[ch].ver >= EngineOf(ch).ver
                   /\ disk'[ch] = disk[ch] /\ \A f \in E : f.kind = "history"
           saved == /\ engine'[ch].rev = EngineOf(ch).rev + 1 /\ engine'[ch].ver = fresh + 1
                    /\ disk'[ch] = fresh + 1
<1>1. Shape /\ Known /\ Blank
  BY DEF FeedInv
<1>2. \A x \in Characters :
        /\ engine[x].rev \in Nat /\ engine[x].ver \in Nat /\ disk[x] \in Nat /\ epoch[x] \in Nat
        /\ engine'[x].rev \in Nat /\ engine'[x].ver \in Nat /\ disk'[x] \in Nat /\ epoch'[x] \in Nat
        /\ fresh \in Nat /\ fresh' \in Nat
        /\ newest[x] \in Nat /\ newest[x] <= fresh /\ disk[x] <= newest[x]
  <2>1. ASSUME NEW x \in Characters
        PROVE  /\ engine[x].rev \in Nat /\ engine[x].ver \in Nat /\ disk[x] \in Nat /\ epoch[x] \in Nat
               /\ newest[x] \in Nat /\ fresh \in Nat
    BY <1>1, EngineTypes
  <2>2. ASSUME NEW x \in Characters
        PROVE  /\ engine'[x].rev \in Nat /\ engine'[x].ver \in Nat /\ disk'[x] \in Nat
               /\ epoch'[x] \in Nat /\ fresh' \in Nat
    BY DEF Shape
  <2> QED
    BY <1>1, <2>1, <2>2 DEF Known
<1>3. /\ engine[ch].made => /\ EngineOf(ch) = engine[ch] /\ EpochOf(ch) = epoch[ch]
                            /\ epoch[ch] > 0 /\ engine[ch].ver >= disk[ch]
      /\ ~engine[ch].made => /\ EpochOf(ch) = epoch[ch] + 1
                             /\ EngineOf(ch).rev = 0 /\ EngineOf(ch).ver = disk[ch]
                             /\ engine[ch].rev = 0
      /\ EngineOf(ch).rev = engine[ch].rev /\ EngineOf(ch).ver >= disk[ch]
      /\ engine[ch].rev <= fresh /\ (disk[ch] = 0 => engine[ch].rev = 0)
  BY <1>1, <1>2 DEF EngineOf, EpochOf, Engines, Blank
<1>4. /\ engine'[ch].rev <= fresh' /\ engine'[ch].ver >= disk'[ch]
      /\ disk'[ch] = 0 => engine'[ch].rev = 0
      /\ epoch'[ch] > 0 /\ epoch'[ch] >= epoch[ch]
  BY <1>2, <1>3
<1>5. Engines'
  <2>1. ASSUME NEW x \in Characters \ {ch}
        PROVE  /\ engine'[x].rev <= fresh'
               /\ ~engine'[x].made => engine'[x].rev = 0
               /\ engine'[x].made => engine'[x].ver >= disk'[x]
               /\ disk'[x] = 0 => engine'[x].rev = 0
    BY <1>2 DEF Engines
  <2> QED
    BY <1>4, <2>1 DEF Engines
<1>6. ASSUME NEW d \in Clients, NEW f \in Flight(d)
      PROVE  f.rev \in Nat /\ f.ver \in Nat /\ f.epoch \in Nat
  BY <1>1, <1>6, FrameTypes

(* What was on its way before is of an earlier engine, or not ahead.       *)
<1>7. ASSUME NEW d \in Clients, NEW f \in Flight(d), f.char = ch
      PROVE  /\ FrameOK(f) /\ FrameOK(f)'
             /\ f.epoch = epoch'[ch] =>
                  /\ engine[ch].made /\ f.rev <= engine[ch].rev /\ f.ver <= engine[ch].ver
  <2>1. FrameOK(f)
    BY <1>7, NoneAssumption DEF Frames, Nobody
  <2>2. f.epoch = epoch'[ch] =>
          engine[ch].made /\ f.rev <= engine[ch].rev /\ f.ver <= engine[ch].ver
    BY <1>2, <1>3, <1>6, <1>7, <2>1 DEF FrameOK
  <2>3. f.epoch \in 1..epoch'[ch] /\ f.ver <= fresh' /\ f.rev <= fresh'
    BY <1>2, <1>4, <1>6, <1>7, <2>1 DEF FrameOK
  <2>4. f.ver >= disk'[ch] => f.rev >= engine'[ch].rev
    BY <1>2, <1>3, <1>6, <1>7, <2>1 DEF FrameOK
  <2>5. f.epoch = epoch'[ch] =>
          /\ f.rev <= engine'[ch].rev /\ f.ver <= engine'[ch].ver
          /\ f.rev = engine'[ch].rev => f.ver >= disk'[ch]
    <3>1. CASE read
      BY <1>2, <1>3, <1>6, <1>7, <2>1, <2>2, <3>1 DEF FrameOK
    <3>2. CASE saved
      BY <1>2, <1>3, <1>6, <1>7, <2>1, <2>2, <3>2 DEF FrameOK
    <3> QED
      BY <3>1, <3>2
  <2>6. f.kind = "message" => f.rev > 0 /\ f.ver > 0
    BY <2>1 DEF FrameOK
  <2> QED
    BY <1>7, <2>1, <2>2, <2>3, <2>4, <2>5, <2>6 DEF FrameOK
<1>8. ASSUME NEW f \in E PROVE FrameOK(f)' /\ f.rev \in Nat /\ f.ver \in Nat
  <2>1. f.kind = "message" => f.rev > 0 /\ f.ver > 0
    BY <1>2, <1>3
  <2> QED
    BY <1>2, <1>4, <2>1 DEF FrameOK
<1>9. ASSUME NEW d \in Clients, NEW f \in Flight(d)', NEW m \in Flight(d)', f.char = ch
      PROVE  Comparable(m, f)'
  <2> SUFFICES ASSUME m.kind = "message", m.char = ch, m.epoch = epoch'[ch]
               PROVE  /\ f.epoch = m.epoch => (f.rev >= m.rev <=> f.ver >= m.ver)
                      /\ f.epoch # m.epoch => f.ver < m.ver
    BY <1>9 DEF Comparable
  <2>1. CASE m \in E /\ f \in E
    BY <1>2, <2>1
  <2>2. CASE m \in E /\ f \in Flight(d)
    <3>1. saved /\ m.ver = fresh + 1 /\ m.rev = EngineOf(ch).rev + 1 /\ m.epoch = epoch'[ch]
      BY <2>2
    <3>2. f.ver <= fresh
      BY <1>7, <1>9, <2>2 DEF FrameOK
    <3>3. f.epoch = m.epoch => f.rev <= EngineOf(ch).rev
      BY <1>3, <1>7, <1>9, <2>2, <3>1
    <3> QED
      BY <1>2, <1>3, <1>6, <2>2, <3>1, <3>2, <3>3
  <2>3. CASE m \in Flight(d) /\ f \in E
    <3>1. engine[ch].made /\ m.rev <= engine[ch].rev /\ m.ver <= engine[ch].ver
      BY <1>7, <2>3
    <3>2. f.epoch = m.epoch /\ f.rev = engine'[ch].rev /\ f.ver = engine'[ch].ver
      BY <2>3
    <3>3. m.ver <= fresh
      BY <1>7, <2>3 DEF FrameOK
    <3>4. f.rev >= m.rev /\ f.ver >= m.ver
      BY <1>2, <1>3, <1>6, <2>3, <3>1, <3>2, <3>3
    <3> QED
      BY <3>2, <3>4
  <2>4. CASE m \in Flight(d) /\ f \in Flight(d)
    <3>1. engine[ch].made
      BY <1>7, <2>4
    <3>2. epoch'[ch] = epoch[ch]
      BY <1>3, <3>1
    <3>3. Comparable(m, f)
      BY <1>9, <2>4, NoneAssumption DEF Frames, Nobody
    <3> QED
      BY <1>9, <3>2, <3>3 DEF Comparable
  <2> QED
    BY <2>1, <2>2, <2>3, <2>4
<1>10. ASSUME NEW d \in Clients, NEW f \in Flight(d)', ~Nobody(f)
       PROVE  f.char \in Characters /\ FrameOK(f)' /\ \A m \in Flight(d)' : Comparable(m, f)'
  <2>1. CASE f.char = ch
    BY <1>7, <1>8, <1>9, <1>10, <2>1
  <2>2. CASE f.char # ch
    <3>1. f \in Flight(d)
      BY <2>2
    <3>2. f.char \in Characters \ {ch} /\ FrameOK(f) /\ \A m \in Flight(d) : Comparable(m, f)
      BY <1>10, <2>2, <3>1 DEF Frames
    <3>3. FrameOK(f)'
      BY <1>2, <1>6, <3>1, <3>2 DEF FrameOK
    <3>4. ASSUME NEW m \in Flight(d)' PROVE Comparable(m, f)'
      <4>1. m.char = f.char => m \in Flight(d)
        BY <2>2
      <4> QED
        BY <3>2, <4>1 DEF Comparable
    <3> QED
      BY <3>2, <3>3, <3>4
  <2> QED
    BY <2>1, <2>2
<1> QED
  BY <1>5, <1>10 DEF Frames, Nobody

(* A reload drops engines, whose revisions nothing is compared with then.  *)
LEMMA ReloadFrames ==
  ASSUME Shape, Engines, Frames, NEW A \in SUBSET Characters, Reload(A)
  PROVE  Engines' /\ Frames'
<1>1. /\ engine' = [ch \in Characters |-> IF ch \in A THEN engine[ch] ELSE NoEngine]
      /\ UNCHANGED <<disk, fresh, epoch, queue, snapshot, direct>>
  BY DEF Reload, ringVars
<1>2. \A c \in Clients : Flight(c)' = Flight(c)
  BY <1>1 DEF Flight
<1>3. \A ch \in Characters :
        /\ engine'[ch] = engine[ch] \/ (engine'[ch].rev = 0 /\ ~engine'[ch].made)
        /\ fresh \in Nat
  BY <1>1 DEF NoEngine, Shape
<1>4. Engines'
  BY <1>1, <1>3 DEF Engines
<1>5. ASSUME NEW c \in Clients, NEW f \in Flight(c), ~Nobody(f)
      PROVE  f.char \in Characters /\ FrameOK(f)' /\ \A m \in Flight(c) : Comparable(m, f)'
  <2>1. f.char \in Characters /\ FrameOK(f) /\ \A m \in Flight(c) : Comparable(m, f)
    BY <1>5 DEF Frames
  <2>2. f.rev \in Nat
    BY FrameTypes
  <2>3. FrameOK(f)'
    BY <1>1, <1>3, <2>1, <2>2 DEF FrameOK
  <2> QED
    BY <1>1, <2>1, <2>3 DEF Comparable
<1> QED
  BY <1>2, <1>4, <1>5 DEF Frames, Nobody

(* After a restart there are neither engines nor frames.                   *)
LEMMA RestartFrames ==
  ASSUME Shape, Engines, Restart
  PROVE  Engines' /\ Frames'
<1>1. /\ engine' = [ch \in Characters |-> NoEngine] /\ fresh' = fresh /\ fresh \in Nat
      /\ \A d \in Clients : queue'[d] = <<>> /\ direct'[d] = <<>> /\ snapshot'[d] = NoSnapshot
  BY DEF Restart, CloseAll, Shape
<1>2. \A d \in Clients : Flight(d)' = {NoSnapshot}
  BY <1>1 DEF Flight, ToSet
<1>3. Engines'
  BY <1>1 DEF Engines, NoEngine
<1>4. Frames'
  BY <1>2 DEF Frames, Nobody, NoSnapshot
<1> QED
  BY <1>3, <1>4

-----------------------------------------------------------------------------
(* What a transmission keeps and loses                                     *)

(* The elements of a concatenation are those of its parts.                 *)
LEMMA ConcatAt ==
  ASSUME NEW S, NEW p \in Seq(S), NEW q \in Seq(S)
  PROVE  /\ p \o q \in Seq(S) /\ Len(p \o q) = Len(p) + Len(q)
         /\ \A i \in 1..Len(p) : (p \o q)[i] = p[i]
         /\ \A i \in Len(p) + 1 .. Len(p) + Len(q) : (p \o q)[i] = q[i - Len(p)]
  OBVIOUS

(* A receiver can read the last of what was sent; the rest is lost.        *)
LEMMA KeptParts ==
  ASSUME NEW S, NEW q \in Seq(S)
  PROVE  /\ Len(Kept(q)) <= RingSize
         /\ \E k \in 0..Len(q) :
              /\ Len(Kept(q)) = Len(q) - k
              /\ \A i \in 1..Len(Kept(q)) : Kept(q)[i] = q[i + k]
         /\ ToSet(Lost(q)) \subseteq ToSet(q)
         /\ ToSet(q) \subseteq ToSet(Kept(q)) \cup ToSet(Lost(q))
<1>0. RingSize \in Nat \ {0} /\ Len(q) \in Nat
  BY SizesAssumption
<1>1. CASE Len(q) > RingSize
  <2> DEFINE k == Len(q) - RingSize
  <2>1. k \in 1..Len(q) /\ k \in Nat
    BY <1>0, <1>1
  <2>2. /\ Len(Kept(q)) = RingSize
        /\ \A i \in 1..RingSize : Kept(q)[i] = q[i + k] /\ i + k \in 1..Len(q)
    <3>1. Kept(q) = SubSeq(q, k + 1, Len(q))
      BY <1>0, <1>1 DEF Kept
    <3>2. k + 1 \in 1..Len(q)
      BY <1>0, <1>1
    <3>3. /\ Len(SubSeq(q, k + 1, Len(q))) = RingSize
          /\ \A i \in 1..RingSize : SubSeq(q, k + 1, Len(q))[i] = q[k + 1 + i - 1]
      BY <1>0, <1>1, <3>2
    <3> HIDE DEF k
    <3> QED
      BY <1>0, <2>1, <3>1, <3>3
  <2>3. /\ Lost(q) \in Seq(S) /\ DOMAIN Lost(q) = 1..k
        /\ \A i \in 1..k : Lost(q)[i] = q[i] /\ i \in 1..Len(q)
    BY <1>0, <1>1, <2>1, <2>2 DEF Lost
  <2>4. ASSUME NEW i \in 1..Len(q) PROVE q[i] \in ToSet(Kept(q)) \cup ToSet(Lost(q))
    <3>1. CASE i <= k
      <4>1. i \in 1..k
        BY <3>1, <2>1
      <4> QED
        BY <2>3, <4>1 DEF ToSet
    <3>2. CASE ~(i <= k)
      <4>1. i - k \in 1..RingSize /\ (i - k) + k = i
        BY <1>0, <2>1, <3>2
      <4>2. Kept(q)[i - k] = q[i] /\ i - k \in 1..Len(Kept(q))
        BY <2>2, <4>1
      <4>3. ToSet(Kept(q)) = {Kept(q)[j] : j \in 1..Len(Kept(q))}
        <5>1. Kept(q) \in Seq(S)
          BY KeptSeq
        <5> QED
          BY <5>1 DEF ToSet
      <4> QED
        BY <4>2, <4>3
    <3> QED
      BY <3>1, <3>2
  <2>5. ToSet(Lost(q)) \subseteq ToSet(q)
    BY <2>3 DEF ToSet
  <2> HIDE DEF k
  <2>6. k \in 0..Len(q) /\ Len(Kept(q)) = Len(q) - k
    BY <1>0, <2>1, <2>2 DEF k
  <2> QED
    <3>1. ToSet(q) \subseteq ToSet(Kept(q)) \cup ToSet(Lost(q))
      BY <1>0, <2>4 DEF ToSet
    <3>2. Len(Kept(q)) <= RingSize
      BY <1>0, <2>2
    <3>3. \E j \in 0..Len(q) :
            Len(Kept(q)) = Len(q) - j /\ \A i \in 1..Len(Kept(q)) : Kept(q)[i] = q[i + j]
      BY <2>2, <2>6
    <3> QED
      BY <2>5, <3>1, <3>2, <3>3
<1>2. CASE ~ (Len(q) > RingSize)
  <2>1. Kept(q) = q /\ Len(q) <= RingSize
    BY <1>0, <1>2 DEF Kept
  <2>2. Lost(q) = <<>>
    BY <1>0, <2>1 DEF Lost
  <2>3. ToSet(Lost(q)) = {}
    BY <2>2 DEF ToSet
  <2>4. 0 \in 0..Len(q) /\ Len(Kept(q)) = Len(q) - 0 /\ \A i \in 1..Len(Kept(q)) : Kept(q)[i] = q[i + 0]
    BY <1>0, <2>1
  <2> QED
    BY <2>1, <2>3, <2>4
<1> QED
  BY <1>1, <1>2

(* A client that is subscribed can read the last of what it had and of     *)
(* what is sent, in order; the changes of the Histories lost are noted.    *)
LEMMA Sent ==
  ASSUME Shape, Bounds, NEW events \in Seq(AnyFrame), Broadcast(events), NEW c \in Clients
  PROVE  /\ queue'[c] \in Seq(AnyFrame)
         /\ c \notin Subscribers => queue'[c] = queue[c]
         /\ c \in Subscribers =>
              \A f \in ToSet(queue[c]) \cup ToSet(events) :
                f \in ToSet(queue'[c]) \/ (f.kind = "history" => f.ver \in evicted'[c])
         /\ \E k \in Nat : \A i \in 1..Len(queue'[c]) :
              i + k \in 1..(Len(queue[c]) + Len(events)) /\ queue'[c][i] = (queue[c] \o events)[i + k]
         /\ Len(queue'[c]) <= RingSize
         /\ evicted[c] \subseteq evicted'[c]
         /\ \A v \in evicted'[c] :
              v \in evicted[c] \/ \E f \in ToSet(queue[c]) \cup ToSet(events) : v = f.ver
<1> DEFINE q == queue[c] \o events
<1>1. /\ queue[c] \in Seq(AnyFrame) /\ Len(queue[c]) <= RingSize /\ Len(queue[c]) \in Nat
      /\ Len(events) \in Nat
  BY DEF Shape, Bounds
<1>2. /\ q \in Seq(AnyFrame) /\ Len(q) = Len(queue[c]) + Len(events)
      /\ ToSet(q) = ToSet(queue[c]) \cup ToSet(events)
  <2>1. /\ q \in Seq(AnyFrame) /\ Len(q) = Len(queue[c]) + Len(events)
        /\ \A i \in 1..Len(queue[c]) : q[i] = queue[c][i]
        /\ \A i \in Len(queue[c]) + 1 .. Len(queue[c]) + Len(events) :
             q[i] = events[i - Len(queue[c])]
    BY <1>1, ConcatAt
  <2> HIDE DEF q
  <2>2. ToSet(queue[c]) \subseteq ToSet(q)
    <3>1. \A i \in 1..Len(queue[c]) : i \in 1..Len(q)
      BY <1>1, <2>1
    <3>2. DOMAIN q = 1..Len(q) /\ DOMAIN queue[c] = 1..Len(queue[c])
      BY <1>1, <2>1
    <3> QED
      BY <2>1, <3>1, <3>2, Zenon DEF ToSet
  <2>3. ASSUME NEW j \in 1..Len(events) PROVE events[j] \in ToSet(q)
    <3> DEFINE i == j + Len(queue[c])
    <3>1. i \in Len(queue[c]) + 1 .. Len(queue[c]) + Len(events) /\ i - Len(queue[c]) = j
      BY <1>1
    <3>2. i \in 1..Len(q)
      BY <1>1, <2>1
    <3> HIDE DEF i
    <3>3. q[i] = events[j]
      BY <2>1, <3>1
    <3> QED
      BY <2>1, <3>2, <3>3 DEF ToSet
  <2>4. ToSet(events) \subseteq ToSet(q)
    BY <2>3 DEF ToSet
  <2>5. ToSet(q) \subseteq ToSet(queue[c]) \cup ToSet(events)
    BY <1>1, ToSetConcat DEF q
  <2> QED
    BY <2>1, <2>2, <2>4, <2>5
<1>3. /\ queue'[c] = IF c \in Subscribers THEN Kept(q) ELSE queue[c]
      /\ evicted'[c] = evicted[c] \cup
           {e.ver : e \in {x \in ToSet(Lost(q)) : c \in Subscribers /\ x.kind = "history"}}
  BY DEF Broadcast
<1> HIDE DEF q
<1>4. /\ Kept(q) \in Seq(AnyFrame) /\ Len(Kept(q)) <= RingSize
      /\ \E k \in 0..Len(q) :
           /\ Len(Kept(q)) = Len(q) - k
           /\ \A i \in 1..Len(Kept(q)) : Kept(q)[i] = q[i + k]
      /\ ToSet(Lost(q)) \subseteq ToSet(q)
      /\ ToSet(q) \subseteq ToSet(Kept(q)) \cup ToSet(Lost(q))
  BY <1>2, KeptParts, KeptSeq
<1>5. \E k \in Nat : \A i \in 1..Len(queue'[c]) :
        i + k \in 1..Len(q) /\ queue'[c][i] = q[i + k]
  <2>1. CASE c \in Subscribers
    <3>1. PICK k \in 0..Len(q) : /\ Len(Kept(q)) = Len(q) - k
                                 /\ \A i \in 1..Len(Kept(q)) : Kept(q)[i] = q[i + k]
      BY <1>4
    <3>2. k \in Nat /\ \A i \in 1..Len(Kept(q)) : i + k \in 1..Len(q)
      BY <1>1, <1>2, <3>1
    <3> QED
      BY <1>3, <2>1, <3>1, <3>2
  <2>2. CASE c \notin Subscribers
    <3>1. \A i \in 1..Len(queue[c]) : i + 0 \in 1..Len(q) /\ q[i + 0] = queue[c][i]
      BY <1>1, <1>2, ConcatAt DEF q
    <3> QED
      BY <1>3, <2>2, <3>1
  <2> QED
    BY <2>1, <2>2
<1>6. c \in Subscribers =>
        \A f \in ToSet(queue[c]) \cup ToSet(events) :
          f \in ToSet(queue'[c]) \/ (f.kind = "history" => f.ver \in evicted'[c])
  BY <1>2, <1>3, <1>4
<1>7. \A v \in evicted'[c] :
        v \in evicted[c] \/ \E f \in ToSet(queue[c]) \cup ToSet(events) : v = f.ver
  BY <1>2, <1>3, <1>4
<1> QED
  BY <1>1, <1>2, <1>3, <1>4, <1>5, <1>6, <1>7 DEF q
-----------------------------------------------------------------------------
(* Steps of engines                                                        *)

(* What a client shows and has been told of keeps its place among the      *)
(* revisions of an engine that is read or moves on.                        *)
LEMMA EngineViews ==
  ASSUME SafeInv, Shape', NEW ch \in Characters, NEW E, EngineStep(ch, E),
         UNCHANGED <<sync, view, base, raised>>,
         \A d \in Clients : conn'[d] = "on" => conn[d] = "on"
  PROVE  Views' /\ Raised'
<1>1. /\ Shape /\ Known /\ Blank /\ Bounds /\ Engines /\ Frames /\ Views /\ Raised
  BY DEF SafeInv, FeedInv
<1>2. ASSUME NEW x \in Characters
      PROVE  /\ engine[x].rev \in Nat /\ engine'[x].rev \in Nat /\ disk[x] \in Nat
             /\ epoch[x] \in Nat /\ epoch'[x] \in Nat /\ fresh \in Nat /\ fresh' \in Nat
  <2>1. engine[x].rev \in Nat /\ disk[x] \in Nat /\ epoch[x] \in Nat /\ fresh \in Nat
    BY <1>1, EngineTypes
  <2>2. engine'[x].rev \in Nat /\ epoch'[x] \in Nat /\ fresh' \in Nat
    BY DEF Shape
  <2> QED
    BY <2>1, <2>2
<1>3. /\ \/ engine[ch].made /\ epoch'[ch] = epoch[ch]
         \/ epoch'[ch] = epoch[ch] + 1
      /\ \/ engine'[ch].rev = engine[ch].rev /\ disk'[ch] = disk[ch] /\ \A f \in E : f.kind = "history"
         \/ engine'[ch].rev = engine[ch].rev + 1 /\ disk'[ch] = fresh + 1
            /\ engine'[ch].ver = fresh + 1
  BY <1>1 DEF EngineStep, EngineOf, EpochOf, Engines
<1>4. ASSUME NEW c \in Clients, NEW x \in Characters
      PROVE  view[c][x] \in Nat /\ base[c][x] \in Nat
             /\ sync[c].message \in Nat /\ sync[c].snapshot \in Nat
  BY <1>1, ClientTypes
<1>5. fresh' >= fresh
  BY DEF EngineStep
<1>6. Views'
  <2>1. ASSUME NEW c \in Clients
        PROVE  sync[c].message <= fresh' /\ sync[c].snapshot <= fresh'
    BY <1>1, <1>2, <1>4, <1>5 DEF Views, ViewsOf
  <2>2. ASSUME NEW c \in Clients, NEW x \in Characters
        PROVE  /\ view[c][x] <= fresh' /\ base[c][x] <= fresh'
               /\ conn'[c] = "on" /\ view[c][x] >= disk'[x] => sync[c].snapshot >= engine'[x].rev
    <3>1. /\ view[c][x] <= fresh /\ base[c][x] <= fresh
          /\ conn[c] = "on" /\ view[c][x] >= disk[x] => sync[c].snapshot >= engine[x].rev
      BY <1>1 DEF Views, ViewsOf
    <3>2. x # ch => engine'[x] = engine[x] /\ disk'[x] = disk[x]
      BY DEF EngineStep
    <3>3. view[c][x] <= fresh' /\ base[c][x] <= fresh'
      BY <1>2, <1>4, <1>5, <3>1
    <3>4. CASE x # ch
      BY <3>1, <3>2, <3>3, <3>4
    <3>5. CASE x = ch
      BY <1>2, <1>3, <1>4, <3>1, <3>3, <3>5
    <3> QED
      BY <3>4, <3>5
  <2> QED
    BY <2>1, <2>2 DEF Views, ViewsOf
<1>7. ASSUME NEW c \in Clients, conn[c] = "on", NEW x \in Characters, raised[c][1] = x
      PROVE  /\ raised[c][2] \in 1..epoch'[x]
             /\ raised[c][2] = epoch'[x] /\ engine'[x].made => sync[c].message <= engine'[x].rev
             /\ raised[c][2] = epoch'[x] /\ x = ch => sync[c].message <= engine[x].rev
  <2>1. /\ raised[c][2] \in 1..epoch[x]
        /\ raised[c][2] = epoch[x] /\ engine[x].made => sync[c].message <= engine[x].rev
    BY <1>1, <1>7 DEF Raised, RaisedOf
  <2>2. CASE x # ch
    BY <2>1, <2>2 DEF EngineStep
  <2>3. CASE x = ch
    BY <1>2, <1>3, <1>4, <2>1, <2>3
  <2> QED
    BY <2>2, <2>3
<1>8. ASSUME NEW c \in Clients, conn[c] = "on", NEW m \in Flight(c)', m.kind = "message",
             m.epoch = epoch'[m.char]
      PROVE  /\ m.rev > sync[c].message => m.ver > base[c][m.char]
             /\ raised[c] = <<m.char, m.epoch>> /\ m.rev <= sync[c].message =>
                  m.ver <= base[c][m.char]
  <2>1. CASE m \in Flight(c)
    <3>1. m.char \in Characters /\ FrameOK(m)
      BY <1>1, <1>8, <2>1 DEF Frames, Nobody
    <3>2. m.epoch \in 1..epoch[m.char]
      BY <3>1 DEF FrameOK
    <3>3. m.epoch = epoch[m.char]
      <4>1. CASE m.char = ch
        BY <1>2, <1>3, <1>8, <3>2, <4>1
      <4>2. CASE m.char # ch
        BY <1>8, <3>1, <4>2 DEF EngineStep
      <4> QED
        BY <4>1, <4>2
    <3> QED
      BY <1>1, <1>8, <2>1, <3>3 DEF Raised, RaisedOf
  <2>2. CASE m \in E
    <3>1. /\ m.char = ch /\ m.ver = fresh + 1 /\ m.rev = engine[ch].rev + 1 /\ m.epoch = epoch'[ch]
      BY <1>3, <1>8, <2>2 DEF EngineStep
    <3>2. base[c][ch] <= fresh
      BY <1>1 DEF Views, ViewsOf
    <3>3. raised[c] = <<ch, m.epoch>> => sync[c].message <= engine[ch].rev
      BY <1>7, <1>8, <3>1
    <3> QED
      BY <1>2, <1>4, <3>1, <3>2, <3>3
  <2> QED
    BY <1>8, <2>1, <2>2 DEF EngineStep
<1>9. Raised'
  <2> SUFFICES ASSUME NEW c \in Clients, conn'[c] = "on"
               PROVE  /\ raised[c] = <<None, 0>> => sync[c].message = 0 /\ base[c] = Unknown
                      /\ \A x \in Characters : raised[c][1] = x =>
                           /\ raised[c][2] \in 1..epoch'[x]
                           /\ raised[c][2] = epoch'[x] /\ engine'[x].made =>
                                sync[c].message <= engine'[x].rev
                      /\ \A m \in Flight(c)' : m.kind = "message" /\ m.epoch = epoch'[m.char] =>
                           /\ m.rev > sync[c].message => m.ver > base[c][m.char]
                           /\ raised[c] = <<m.char, m.epoch>> /\ m.rev <= sync[c].message =>
                                m.ver <= base[c][m.char]
    BY DEF Raised, RaisedOf, Unknown
  <2>1. conn[c] = "on"
    OBVIOUS
  <2>2. raised[c] = <<None, 0>> => sync[c].message = 0 /\ base[c] = Unknown
    BY <1>1, <2>1 DEF Raised, RaisedOf
  <2> QED
    BY <1>7, <1>8, <2>1, <2>2
<1> QED
  BY <1>6, <1>9

(* A change that is saved is sent to all that are subscribed.              *)
LEMMA ChangeFacts ==
  ASSUME FeedInv, Bounds, Engines, Kinds, NEW ch \in Characters, Change(ch)
  PROVE  \E h \in AnyFrame, m \in AnyFrame : \E events \in {<<h>>, <<h, m>>} :
           /\ h.kind = "history" /\ m.kind = "message"
           /\ h.char = ch /\ h.ver = fresh + 1 /\ m.char = ch /\ m.epoch = epoch'[ch]
           /\ m.rev = engine'[ch].rev
           /\ Broadcast(events) /\ EngineStep(ch, {h, m})
           /\ engine'[ch].rev = EngineOf(ch).rev + 1 /\ disk'[ch] = fresh + 1
           /\ fresh' = fresh + 1 /\ fresh' <= MaxChanges
<1> DEFINE h == [kind |-> "history", char |-> ch, rev |-> EngineOf(ch).rev + 1,
                 ver |-> fresh + 1, epoch |-> EpochOf(ch)]
           m == [h EXCEPT !.kind = "message"]
<1>1. PICK announced \in BOOLEAN :
        /\ fresh < MaxChanges /\ fresh' = fresh + 1
        /\ engine' = [engine EXCEPT ![ch] = [made |-> TRUE, rev |-> h.rev, ver |-> h.ver]]
        /\ epoch' = [epoch EXCEPT ![ch] = EpochOf(ch)]
        /\ disk' = [disk EXCEPT ![ch] = h.ver]
        /\ Broadcast(IF announced THEN <<h, m>> ELSE <<h>>)
        /\ UNCHANGED <<snapshot, direct>>
  BY DEF Change, handlerVars
<1> DEFINE events == IF announced THEN <<h, m>> ELSE <<h>>
<1>2. /\ Shape /\ fresh \in Nat /\ EpochOf(ch) \in Nat
      /\ EngineOf(ch) \in [made : BOOLEAN, rev : Nat, ver : Nat]
  BY HistoryType DEF FeedInv, Shape
<1>3. h \in AnyFrame /\ m \in AnyFrame
  BY <1>2 DEF AnyFrame
<1>4. /\ h.kind = "history" /\ m.kind = "message"
      /\ \A f \in {h, m} : /\ f.char = ch /\ f.rev = EngineOf(ch).rev + 1 /\ f.ver = fresh + 1
                           /\ f.epoch = EpochOf(ch)
  OBVIOUS
<1>5. /\ engine'[ch] = [made |-> TRUE, rev |-> EngineOf(ch).rev + 1, ver |-> fresh + 1]
      /\ epoch'[ch] = EpochOf(ch) /\ disk'[ch] = fresh + 1
      /\ \A x \in Characters \ {ch} :
           engine'[x] = engine[x] /\ epoch'[x] = epoch[x] /\ disk'[x] = disk[x]
  BY <1>1, <1>2 DEF Shape
<1>6. events \in {<<h>>, <<h, m>>} /\ Broadcast(events)
  BY <1>1
<1> HIDE DEF h, m, events
<1>7. events \in Seq(AnyFrame) /\ ToSet(events) \subseteq {h, m}
  <2>1. <<h, m>> \in Seq(AnyFrame) /\ ToSet(<<h, m>>) \subseteq {h, m}
    BY <1>3 DEF ToSet
  <2>2. <<h>> \in Seq(AnyFrame) /\ ToSet(<<h>>) \subseteq {h, m}
    BY <1>3 DEF ToSet
  <2> QED
    BY <1>6, <2>1, <2>2
<1>8. \A d \in Clients : Flight(d)' \subseteq Flight(d) \cup {h, m}
  <2>1. \A d \in Clients : ToSet(queue'[d]) \subseteq ToSet(queue[d]) \cup ToSet(events)
    BY <1>2, <1>6, <1>7, BroadcastShape
  <2> QED
    BY <1>1, <1>7, <2>1 DEF Flight
<1>9. EngineStep(ch, {h, m})
  <2>1. fresh' >= fresh /\ engine'[ch].ver <= fresh' /\ engine'[ch].made
        /\ engine'[ch].rev = EngineOf(ch).rev + 1 /\ engine'[ch].ver = fresh + 1
    BY <1>1, <1>2, <1>5
  <2> QED
    BY <1>4, <1>5, <1>8, <2>1 DEF EngineStep
<1>10. fresh' <= MaxChanges /\ engine'[ch].rev = EngineOf(ch).rev + 1
  BY <1>1, <1>2, <1>5, SizesAssumption
<1> QED
  BY <1>1, <1>3, <1>4, <1>5, <1>6, <1>9, <1>10

(* A change that is saved reaches every client that follows the character, *)
(* or its loss is noted.                                                   *)
LEMMA ChangeSafe ==
  ASSUME SafeInv, NEW ch \in Characters, Change(ch)
  PROVE  SafeInv'
<1>1. /\ FeedInv /\ Shape /\ Known /\ Bounds /\ Engines /\ Frames /\ Kinds /\ InOrder /\ Views /\ Coming
  BY DEF SafeInv, FeedInv
<1>2. FeedInv' /\ Shape'
  BY <1>1, ChangeKeeps DEF FeedInv
<1>0. PICK h \in AnyFrame, m \in AnyFrame : \E events \in {<<h>>, <<h, m>>} :
        /\ h.kind = "history" /\ m.kind = "message"
        /\ h.char = ch /\ h.ver = fresh + 1 /\ m.char = ch /\ m.epoch = epoch'[ch]
        /\ m.rev = engine'[ch].rev
        /\ Broadcast(events) /\ EngineStep(ch, {h, m})
        /\ engine'[ch].rev = EngineOf(ch).rev + 1 /\ disk'[ch] = fresh + 1
        /\ fresh' = fresh + 1 /\ fresh' <= MaxChanges
  BY <1>1, ChangeFacts
<1>3. PICK events \in {<<h>>, <<h, m>>} :
        /\ h.kind = "history" /\ m.kind = "message"
        /\ h.char = ch /\ h.ver = fresh + 1 /\ m.char = ch /\ m.epoch = epoch'[ch]
        /\ m.rev = engine'[ch].rev
        /\ Broadcast(events) /\ EngineStep(ch, {h, m})
        /\ engine'[ch].rev = EngineOf(ch).rev + 1 /\ disk'[ch] = fresh + 1
        /\ fresh' = fresh + 1 /\ fresh' <= MaxChanges
  BY <1>0
<1>4. /\ UNCHANGED <<sync, view, base, raised, shown, conn, selected, snapshot, direct, todo, lags>>
      /\ lagged' \in [Clients -> BOOLEAN]
  BY <1>1 DEF Change, clientVars, connVars, handlerVars, Broadcast, Bounds
<1>5. Engines' /\ Frames'
  BY <1>1, <1>2, <1>3, EngineFrames
<1>6. Views' /\ Raised'
  BY <1>2, <1>3, <1>4, EngineViews
<1>7. /\ events \in Seq(AnyFrame) /\ Len(events) \in {1, 2} /\ events[1] = h
      /\ Len(events) = 2 => events[2] = m
      /\ h \in ToSet(events) /\ ToSet(events) \subseteq {h, m}
  <2>1. CASE events = <<h>>
    <3>1. <<h>> \in Seq(AnyFrame) /\ ToSet(<<h>>) = {h} /\ Len(<<h>>) = 1 /\ <<h>>[1] = h
      BY DEF ToSet
    <3> QED
      BY <2>1, <3>1
  <2>2. CASE events = <<h, m>>
    <3>1. /\ <<h, m>> \in Seq(AnyFrame) /\ ToSet(<<h, m>>) = {h, m} /\ Len(<<h, m>>) = 2
          /\ <<h, m>>[1] = h /\ <<h, m>>[2] = m
      BY DEF ToSet
    <3> QED
      BY <2>2, <3>1
  <2> QED
    BY <2>1, <2>2
<1>8. fresh \in Nat /\ \A x \in Characters : disk[x] \in Nat /\ disk[x] <= fresh
  <2>1. ASSUME NEW x \in Characters PROVE disk[x] \in Nat /\ disk[x] <= fresh
    BY <1>1, EngineTypes DEF Known
  <2> QED
    BY <1>1, <2>1 DEF Shape
<1>9. Bounds'
  <2>1. ASSUME NEW c \in Clients PROVE evicted'[c] \subseteq 0..fresh' /\ Len(queue'[c]) <= RingSize
    <3>1. /\ Len(queue'[c]) <= RingSize
          /\ \A v \in evicted'[c] :
               v \in evicted[c] \/ \E f \in ToSet(queue[c]) \cup ToSet(events) : v = f.ver
      BY <1>1, <1>3, <1>7, Sent
    <3>2. evicted[c] \subseteq 0..fresh
      BY <1>1 DEF Bounds
    <3>3. ASSUME NEW f \in ToSet(queue[c]) PROVE f.ver \in 0..fresh
      <4>1. f \in Flight(c) /\ f.char \in Characters /\ f.ver <= disk[f.char]
        BY <1>1, <3>3 DEF Kinds, Flight
      <4>2. f.ver \in Nat
        BY <1>1, <4>1, FrameTypes
      <4> QED
        BY <1>8, <4>1, <4>2
    <3>4. m.ver = fresh + 1
      BY <1>3 DEF EngineStep
    <3> QED
      BY <1>3, <1>7, <1>8, <3>1, <3>2, <3>3, <3>4
  <2>2. evicted' \in [Clients -> SUBSET (0..fresh')]
    <3>1. evicted' = [c \in Clients |-> evicted'[c]]
      BY <1>3 DEF Broadcast
    <3> QED
      BY <2>1, <3>1
  <2> QED
    BY <1>1, <1>3, <1>4, <2>1, <2>2 DEF Bounds
<1>10. Kinds'
  <2> SUFFICES ASSUME NEW c \in Clients, NEW f \in ToSet(queue'[c])
               PROVE  f.kind \in {"history", "message"} /\ f.char \in Characters
                      /\ f.ver <= disk'[f.char]
    BY <1>1, <1>4 DEF Kinds
  <2>1. f \in ToSet(queue[c]) \cup {h, m}
    BY <1>1, <1>3, <1>7, BroadcastShape
  <2>2. CASE f \in {h, m}
    <3>1. f.ver = engine'[ch].ver /\ m.ver = fresh + 1 /\ h.ver = fresh + 1 /\ f.char = ch
      BY <1>3, <2>2 DEF EngineStep
    <3> QED
      BY <1>3, <1>8, <2>2, <3>1
  <2>3. CASE f \in ToSet(queue[c])
    <3>1. /\ f.kind \in {"history", "message"} /\ f.char \in Characters /\ f.ver <= disk[f.char]
          /\ f \in Flight(c)
      BY <1>1, <2>3 DEF Kinds, Flight
    <3>2. f.ver \in Nat
      BY <1>1, <3>1, FrameTypes
    <3>3. disk'[f.char] >= disk[f.char] /\ disk'[f.char] \in Nat
      BY <1>3, <1>8, <3>1 DEF EngineStep
    <3> QED
      BY <1>8, <3>1, <3>2, <3>3
  <2> QED
    BY <2>1, <2>2, <2>3
<1>11. InOrder'
  <2> SUFFICES ASSUME NEW c \in Clients, NEW i \in 1..Len(queue'[c]), NEW j \in 1..Len(queue'[c]), i < j
               PROVE  Precede(queue'[c][i], queue'[c][j])
    BY DEF InOrder
  <2> DEFINE q == queue[c] \o events
             n == Len(queue[c])
  <2>1. queue[c] \in Seq(AnyFrame) /\ queue'[c] \in Seq(AnyFrame) /\ n \in Nat
    BY <1>1, <1>2 DEF Shape
  <2>2. PICK k \in Nat : \A l \in 1..Len(queue'[c]) :
          l + k \in 1..(n + Len(events)) /\ queue'[c][l] = q[l + k]
    BY <1>1, <1>3, <1>7, Sent
  <2>3. /\ \A l \in 1..n : q[l] = queue[c][l]
        /\ \A l \in n + 1 .. n + Len(events) : q[l] = events[l - n]
    BY <1>7, <2>1, ConcatAt
  <2> HIDE DEF q, n
  <2>10. q[n + 1] = h /\ (Len(events) = 2 => q[n + 2] = m)
    <3>1. n + 1 \in n + 1 .. n + Len(events) /\ (n + 1) - n = 1
      BY <1>7, <2>1
    <3>2. Len(events) = 2 => n + 2 \in n + 1 .. n + Len(events) /\ (n + 2) - n = 2
      BY <2>1
    <3> QED
      BY <1>7, <2>3, <3>1, <3>2
  <2> DEFINE a == i + k
             b == j + k
  <2>4. /\ a \in 1..(n + Len(events)) /\ b \in 1..(n + Len(events)) /\ a < b
        /\ queue'[c][i] = q[a] /\ queue'[c][j] = q[b]
    BY <2>2
  <2> HIDE DEF a, b
  <2>5. CASE a \in 1..n /\ b \in 1..n
    <3>1. Precede(queue[c][a], queue[c][b])
      BY <1>1, <2>4, <2>5 DEF InOrder, n
    <3> QED
      BY <2>3, <2>4, <2>5, <3>1
  <2>6. CASE a \in 1..n /\ b = n + 1
    <3>1. q[b] = h
      BY <2>6, <2>10
    <3> QED
      BY <1>3, <1>7, <2>4, <3>1 DEF Precede
  <2>7. CASE a \in 1..n /\ b = n + 2 /\ Len(events) = 2
    <3>1. q[b] = m /\ q[a] = queue[c][a]
      BY <2>3, <2>7, <2>10
    <3>2. queue[c][a] \in ToSet(queue[c])
      BY <2>1, <2>7 DEF ToSet, n
    <3> DEFINE f == queue[c][a]
    <3>3. f \in Flight(c) /\ f.rev \in Nat
      BY <1>1, <3>2, FrameTypes DEF Flight
    <3>4. f.char = ch => FrameOK(f)
      BY <1>1, <3>3, NoneAssumption DEF Frames, Nobody
    <3>5. f.char = ch /\ f.epoch = epoch'[ch] => engine[ch].made /\ f.rev <= engine[ch].rev
      <4>1. epoch[ch] \in Nat /\ epoch'[ch] = EpochOf(ch)
        BY <1>1, <1>3, EngineTypes DEF EngineStep
      <4>2. ASSUME f.char = ch, f.epoch = epoch'[ch]
            PROVE  engine[ch].made /\ f.rev <= engine[ch].rev
        <5>1. f.epoch \in 1..epoch[ch]
          BY <3>4, <4>2 DEF FrameOK
        <5>2. engine[ch].made
          BY <4>1, <4>2, <5>1 DEF EpochOf
        <5> QED
          BY <3>4, <4>1, <4>2, <5>2 DEF FrameOK, EpochOf
      <4> QED
        BY <4>2
    <3>6. engine[ch].made => m.rev = engine[ch].rev + 1 /\ engine[ch].rev \in Nat
      BY <1>1, <1>3, EngineTypes DEF EngineOf
    <3> HIDE DEF f
    <3>7. Precede(f, m)
      BY <1>3, <3>3, <3>5, <3>6 DEF Precede
    <3> QED
      BY <2>4, <3>1, <3>7 DEF f
  <2>8. CASE a = n + 1
    <3>1. q[a] = h
      BY <2>8, <2>10
    <3> QED
      BY <1>3, <2>4, <3>1 DEF Precede
  <2>9. \/ a \in 1..n /\ (b \in 1..n \/ b = n + 1 \/ (b = n + 2 /\ Len(events) = 2))
        \/ a = n + 1
    <3>1. ASSUME NEW s \in Nat, NEW y \in Int, NEW z \in Int, NEW e \in {1, 2},
                 y \in 1..(s + e), z \in 1..(s + e), y < z
          PROVE  (y \in 1..s /\ (z \in 1..s \/ z = s + 1 \/ (z = s + 2 /\ e = 2))) \/ y = s + 1
      BY <3>1
    <3>2. a \in Int /\ b \in Int
      BY <2>4
    <3> QED
      BY <1>7, <2>1, <2>4, <3>1, <3>2, Zenon
  <2> QED
    BY <2>5, <2>6, <2>7, <2>8, <2>9
<1>12. Coming'
  <2> SUFFICES ASSUME NEW c \in Clients, NEW x \in Characters,
                      conn[c] \in {"loaded", "on"}, Target(c) = x
               PROVE  \/ c \in todo \/ disk'[x] \in evicted'[c]
                      \/ \E f \in Flight(c)' : Saved(f, x)'
                      \/ conn[c] = "on" /\ (view[c][x] >= disk'[x] \/ Behind(c, x)')
    BY <1>4 DEF Coming, Target
  <2>1. /\ c \in Subscribers /\ evicted[c] \subseteq evicted'[c]
        /\ \A f \in ToSet(queue[c]) \cup ToSet(events) :
             f \in ToSet(queue'[c]) \/ (f.kind = "history" => f.ver \in evicted'[c])
    <3>1. c \in Subscribers
      BY DEF Subscribers
    <3> QED
      BY <1>1, <1>3, <1>7, <3>1, Sent
  <2>2. CASE x = ch
    <3>1. h \in ToSet(queue'[c]) \/ h.ver \in evicted'[c]
      BY <1>3, <1>7, <2>1
    <3>2. Saved(h, ch)'
      BY <1>3, <1>8 DEF Saved
    <3> QED
      BY <1>3, <2>2, <3>1, <3>2 DEF Flight
  <2>3. CASE x # ch
    <3>1. disk'[x] = disk[x] /\ engine'[x] = engine[x] /\ EpochOf(x)' = EpochOf(x)
      BY <1>3, <2>3 DEF EngineStep, EpochOf
    <3>2. ASSUME NEW f \in Flight(c), Saved(f, x)
          PROVE  f \in Flight(c)' \/ disk'[x] \in evicted'[c]
      <4>1. CASE f \in ToSet(queue[c])
        <5>1. f.ver <= disk[x] /\ f.ver >= disk[x] /\ f.kind = "history"
          BY <1>1, <3>2, <4>1 DEF Kinds, Saved
        <5>2. f.ver = disk[x]
          BY <1>1, <1>8, <5>1, FrameTypes
        <5> QED
          BY <2>1, <3>1, <4>1, <5>1, <5>2 DEF Flight
      <4>2. CASE f \notin ToSet(queue[c])
        BY <1>4, <4>2 DEF Flight
      <4> QED
        BY <4>1, <4>2
    <3>3. \/ c \in todo \/ disk[x] \in evicted[c]
          \/ \E f \in Flight(c) : Saved(f, x)
          \/ conn[c] = "on" /\ (view[c][x] >= disk[x] \/ Behind(c, x))
      BY <1>1 DEF Coming
    <3> QED
      BY <1>4, <2>1, <3>1, <3>2, <3>3 DEF Saved, Behind
  <2> QED
    BY <2>2, <2>3
<1> QED
  BY <1>2, <1>5, <1>6, <1>9, <1>10, <1>11, <1>12 DEF SafeInv

(* Who followed a character of which nothing new was saved still does.     *)
LEMMA StillComing ==
  ASSUME SafeInv, NEW c \in Clients, NEW x \in Characters,
         conn[c] \in {"loaded", "on"}, Target(c) = x, conn'[c] = conn[c],
         disk' = disk, evicted'[c] = evicted[c],
         sync'[c] = sync[c], view'[c] = view[c], shown'[c] = shown[c],
         c \in todo => c \in todo', Flight(c) \subseteq Flight(c)',
         engine'[x].rev = engine[x].rev, EpochOf(x)' = EpochOf(x)
  PROVE  \/ c \in todo' \/ disk'[x] \in evicted'[c]
         \/ \E f \in Flight(c)' : Saved(f, x)'
         \/ conn'[c] = "on" /\ (view'[c][x] >= disk'[x] \/ Behind(c, x)')
<1>1. \/ c \in todo \/ disk[x] \in evicted[c]
      \/ \E f \in Flight(c) : Saved(f, x)
      \/ conn[c] = "on" /\ (view[c][x] >= disk[x] \/ Behind(c, x))
  BY DEF SafeInv, Coming
<1> QED
  BY <1>1 DEF Saved, Behind

(* An engine that is read keeps its revision and its place.                *)
LEMMA ReadEngine ==
  ASSUME SafeInv, NEW ch \in Characters, NEW E, EngineStep(ch, E), disk' = disk
  PROVE  \A x \in Characters : engine'[x].rev = engine[x].rev /\ EpochOf(x)' = EpochOf(x)
<1>1. disk[ch] \in Nat /\ disk[ch] <= fresh /\ fresh \in Nat
  BY EngineTypes DEF SafeInv, FeedInv, Known
<1>2. engine'[ch].rev = EngineOf(ch).rev
  BY <1>1 DEF EngineStep
<1>3. EngineOf(ch).rev = engine[ch].rev
  BY DEF EngineOf, SafeInv, Engines
<1> QED
  BY <1>2, <1>3 DEF EngineStep, EpochOf

(* A change that is not saved alters what the engine holds, no more.       *)
LEMMA ChangeFailsSafe ==
  ASSUME SafeInv, NEW ch \in Characters, ChangeFails(ch)
  PROVE  SafeInv'
<1>1. /\ FeedInv /\ Shape /\ Bounds /\ Engines /\ Frames
  BY DEF SafeInv, FeedInv
<1>2. FeedInv' /\ Shape'
  BY <1>1, ChangeFailsKeeps DEF FeedInv
<1>3. /\ fresh < MaxChanges /\ fresh' = fresh + 1
      /\ engine' = [engine EXCEPT ![ch] = [EngineOf(ch) EXCEPT !.ver = fresh + 1]]
      /\ epoch' = [epoch EXCEPT ![ch] = EpochOf(ch)]
      /\ UNCHANGED <<disk, sync, view, base, raised, shown, queue, lagged, evicted, lags,
                     conn, selected, snapshot, todo, direct>>
  BY DEF ChangeFails, clientVars, ringVars, connVars, handlerVars
<1>4. /\ EngineOf(ch) \in [made : BOOLEAN, rev : Nat, ver : Nat] /\ EngineOf(ch).made
      /\ fresh \in Nat /\ EngineOf(ch).ver <= fresh
  <2>1. EngineOf(ch).ver <= fresh
    BY <1>1, EngineTypes DEF FeedInv, Known, EngineOf
  <2> QED
    BY <1>1, <2>1, HistoryType DEF Shape
<1> DEFINE e == [EngineOf(ch) EXCEPT !.ver = fresh + 1]
<1>5. e.made /\ e.ver = fresh + 1 /\ e.rev = EngineOf(ch).rev
  BY <1>4
<1>6. \A d \in Clients : Flight(d)' = Flight(d)
  BY <1>3 DEF Flight
<1>7. EngineStep(ch, {})
  <2> HIDE DEF e
  <2>1. /\ engine'[ch] = e /\ epoch'[ch] = EpochOf(ch)
        /\ \A x \in Characters \ {ch} :
             engine'[x] = engine[x] /\ epoch'[x] = epoch[x] /\ disk'[x] = disk[x]
    BY <1>1, <1>3 DEF Shape, e
  <2>2. fresh' >= fresh /\ e.ver <= fresh' /\ e.ver >= EngineOf(ch).ver
    BY <1>3, <1>4, <1>5
  <2> QED
    BY <1>3, <1>5, <1>6, <2>1, <2>2 DEF EngineStep
<1>8. Engines' /\ Frames'
  BY <1>1, <1>2, <1>7, EngineFrames
<1>9. Views' /\ Raised'
  BY <1>2, <1>3, <1>7, EngineViews
<1>10. Bounds'
  <2>1. fresh' <= MaxChanges /\ 0..fresh \subseteq 0..fresh'
    BY <1>3, <1>4, SizesAssumption
  <2> HIDE DEF e
  <2> QED
    BY <1>1, <1>3, <2>1 DEF Bounds
<1>11. Kinds' /\ InOrder'
  BY <1>3 DEF SafeInv, Kinds, InOrder
<1>12. Coming'
  <2> SUFFICES ASSUME NEW c \in Clients, NEW x \in Characters,
                      conn[c] \in {"loaded", "on"}, Target(c) = x
               PROVE  \/ c \in todo' \/ disk'[x] \in evicted'[c]
                      \/ \E f \in Flight(c)' : Saved(f, x)'
                      \/ conn'[c] = "on" /\ (view'[c][x] >= disk'[x] \/ Behind(c, x)')
    BY <1>3 DEF Coming, Target
  <2>1. engine'[x].rev = engine[x].rev /\ EpochOf(x)' = EpochOf(x)
    BY <1>3, <1>7, ReadEngine
  <2> QED
    BY <1>3, <1>6, <2>1, StillComing
<1> QED
  BY <1>2, <1>8, <1>9, <1>10, <1>11, <1>12 DEF SafeInv

(* A snapshot says at least what is saved.                                 *)
LEMMA TakeSafe ==
  ASSUME SafeInv, FeedInv', NEW c \in Clients, NEW t \in Characters \cup {None},
         TakeSnapshot(c, t),
         UNCHANGED <<disk, fresh, sync, view, base, raised, shown, queue, lagged, evicted, lags, direct>>,
         todo' \in {todo, todo \ {c}},
         \A d \in Clients \ {c} : conn'[d] = conn[d] /\ selected'[d] = selected[d],
         conn'[c] = "on" <=> conn[c] = "on",
         conn'[c] = "on" => selected'[c] = IF t \in available THEN t ELSE None
  PROVE  SafeInv'
<1> DEFINE empty == [NoSnapshot EXCEPT !.kind = "history"]
<1>1. /\ FeedInv /\ Shape /\ Shape' /\ Bounds /\ Engines /\ Frames /\ Kinds /\ InOrder
      /\ available \subseteq Characters /\ snapshot \in [Clients -> AnyFrame]
  BY DEF SafeInv, FeedInv, Shape
<1>2. Bounds' /\ InOrder'
  BY <1>1 DEF Bounds, InOrder
<1>3. CASE t \notin available
  <2>1. UNCHANGED <<engine, epoch>> /\ snapshot' = [snapshot EXCEPT ![c] = empty]
    BY <1>3 DEF TakeSnapshot
  <2>2. Nobody(empty) /\ empty.kind = "history"
    BY DEF Nobody, NoSnapshot
  <2> HIDE DEF empty
  <2>3. \A d \in Clients : \A f \in Flight(d)' : f \in Flight(d) \/ Nobody(f)
    BY <1>1, <2>1, <2>2 DEF Flight
  <2>4. Engines' /\ Frames'
    BY <1>1, <2>1, <2>3, StillFrames
  <2>5. Kinds'
    <3>1. \A d \in Clients : snapshot'[d] \in {snapshot[d], empty}
      BY <1>1, <2>1
    <3> QED
      BY <1>1, <2>2, <3>1 DEF Kinds
  <2>6. Views'
    BY <2>1 DEF SafeInv, Views, ViewsOf
  <2>7. Raised'
    BY <2>1, <2>2, <2>3 DEF SafeInv, Raised, RaisedOf, Nobody, Unknown
  <2>8. Coming'
    <3> SUFFICES ASSUME NEW d \in Clients, NEW x \in Characters,
                        conn'[d] \in {"loaded", "on"}, Target(d)' = x
                 PROVE  \/ d \in todo' \/ disk'[x] \in evicted'[d]
                        \/ \E f \in Flight(d)' : Saved(f, x)'
                        \/ conn'[d] = "on" /\ (view'[d][x] >= disk'[x] \/ Behind(d, x)')
      BY DEF Coming
    <3>1. d # c
      <4>1. snapshot'[c].char = None /\ (conn'[c] = "on" => selected'[c] = None)
        BY <1>1, <1>3, <2>1, <2>2 DEF Nobody
      <4> QED
        BY <4>1, NoneAssumption DEF Target
    <3>2. conn'[d] = conn[d] /\ selected'[d] = selected[d] /\ snapshot'[d] = snapshot[d]
      BY <1>1, <2>1, <3>1
    <3>3. Target(d) = x /\ Flight(d)' = Flight(d) /\ (d \in todo => d \in todo')
      BY <3>1, <3>2 DEF Target, Flight
    <3>4. engine'[x].rev = engine[x].rev /\ EpochOf(x)' = EpochOf(x)
      BY <2>1 DEF EpochOf
    <3> QED
      BY <3>2, <3>3, <3>4, StillComing
  <2> QED
    BY <1>2, <2>4, <2>5, <2>6, <2>7, <2>8 DEF SafeInv
<1>4. CASE t \in available
  <2>0. PICK h : h = HistoryOf(t)
    OBVIOUS
  <2>1. /\ snapshot' = [snapshot EXCEPT ![c] = h] /\ t \in Characters
        /\ engine' = [engine EXCEPT ![t] = EngineOf(t)]
        /\ epoch' = [epoch EXCEPT ![t] = EpochOf(t)]
    BY <1>1, <1>4, <2>0 DEF TakeSnapshot
  <2>2. /\ h.char = t /\ h.rev = EngineOf(t).rev /\ h.ver = EngineOf(t).ver
        /\ h.kind = "history" /\ h.epoch = EpochOf(t) /\ EngineOf(t).made
    BY <2>0 DEF HistoryOf, EngineOf
  <2>3. /\ engine'[t] = EngineOf(t) /\ epoch'[t] = EpochOf(t)
        /\ \A x \in Characters \ {t} : engine'[x] = engine[x] /\ epoch'[x] = epoch[x]
    BY <1>1, <2>1 DEF Shape
  <2>4. \A d \in Clients : Flight(d)' \subseteq Flight(d) \cup {h}
    BY <1>1, <2>1 DEF Flight
  <2>5. /\ EngineOf(t).ver <= fresh /\ EngineOf(t).ver >= disk[t] /\ fresh \in Nat
        /\ EngineOf(t).ver \in Nat
    BY <1>1, <2>1, EngineTypes DEF FeedInv, Known, EngineOf, Engines
  <2>6. EngineStep(t, {h})
    <3>1. fresh' >= fresh /\ engine'[t].ver <= fresh' /\ engine'[t].ver >= EngineOf(t).ver
      BY <2>3, <2>5
    <3> QED
      BY <2>2, <2>3, <2>4, <3>1 DEF EngineStep
  <2>7. Engines' /\ Frames'
    BY <1>1, <2>1, <2>6, EngineFrames
  <2>8. Views' /\ Raised'
    BY <1>1, <2>1, <2>6, EngineViews
  <2>9. Kinds'
    <3>1. \A d \in Clients : snapshot'[d] \in {snapshot[d], h}
      BY <1>1, <2>1
    <3> QED
      BY <1>1, <2>2, <3>1 DEF Kinds
  <2>10. Coming'
    <3> SUFFICES ASSUME NEW d \in Clients, NEW x \in Characters,
                        conn'[d] \in {"loaded", "on"}, Target(d)' = x
                 PROVE  \/ d \in todo' \/ disk'[x] \in evicted'[d]
                        \/ \E f \in Flight(d)' : Saved(f, x)'
                        \/ conn'[d] = "on" /\ (view'[d][x] >= disk'[x] \/ Behind(d, x)')
      BY DEF Coming
    <3>1. CASE d = c
      <4>1. snapshot'[c] = h /\ x = t
        BY <1>1, <1>4, <2>1, <2>2, <3>1 DEF Target
      <4>2. Saved(h, x)' /\ h \in Flight(c)'
        BY <2>2, <2>5, <4>1 DEF Saved, Flight
      <4> QED
        BY <3>1, <4>2
    <3>2. CASE d # c
      <4>1. conn'[d] = conn[d] /\ selected'[d] = selected[d] /\ snapshot'[d] = snapshot[d]
        BY <1>1, <2>1, <3>2
      <4>2. Target(d) = x /\ Flight(d)' = Flight(d) /\ (d \in todo => d \in todo')
        BY <3>2, <4>1 DEF Target, Flight
      <4>3. engine'[x].rev = engine[x].rev /\ EpochOf(x)' = EpochOf(x)
        BY <2>1, <2>6, ReadEngine
      <4> QED
        BY <4>1, <4>2, <4>3, StillComing
    <3> QED
      BY <3>1, <3>2
  <2> QED
    BY <1>2, <2>7, <2>8, <2>9, <2>10 DEF SafeInv
<1> QED
  BY <1>3, <1>4
-----------------------------------------------------------------------------
(* Steps of clients and their connections                                  *)

(* Clients whose session and SyncState are as they were keep their part of *)
(* the invariant while the engines rest.                                   *)
LEMMA StillRaised ==
  ASSUME SafeInv, UNCHANGED <<engine, disk, fresh, epoch>>, NEW c \in Clients,
         conn'[c] = "on" => conn[c] = "on",
         sync'[c] = sync[c], view'[c] = view[c], base'[c] = base[c], raised'[c] = raised[c],
         \A f \in Flight(c)' : f \in Flight(c) \/ Nobody(f)
  PROVE  ViewsOf(c)' /\ RaisedOf(c)'
<1>1. Views /\ Raised
  BY DEF SafeInv
<1>2. /\ sync[c].message <= fresh /\ sync[c].snapshot <= fresh
      /\ \A ch \in Characters :
           /\ view[c][ch] <= fresh /\ base[c][ch] <= fresh
           /\ conn[c] = "on" /\ view[c][ch] >= disk[ch] => sync[c].snapshot >= engine[ch].rev
  BY <1>1 DEF Views, ViewsOf
<1>3. conn[c] = "on" =>
        /\ raised[c] = <<None, 0>> => sync[c].message = 0 /\ base[c] = Unknown
        /\ \A ch \in Characters : raised[c][1] = ch =>
             /\ raised[c][2] \in 1..epoch[ch]
             /\ raised[c][2] = epoch[ch] /\ engine[ch].made => sync[c].message <= engine[ch].rev
        /\ \A m \in Flight(c) : m.kind = "message" /\ m.epoch = epoch[m.char] =>
             /\ m.rev > sync[c].message => m.ver > base[c][m.char]
             /\ raised[c] = <<m.char, m.epoch>> /\ m.rev <= sync[c].message =>
                  m.ver <= base[c][m.char]
  BY <1>1 DEF Raised, RaisedOf
<1>4. \A m \in Flight(c)' : m.kind = "message" => m \in Flight(c)
  BY DEF Nobody
<1> QED
  BY <1>2, <1>3, <1>4 DEF ViewsOf, RaisedOf

(* The connections that end are forgotten, the others go on.               *)
LEMMA CloseSafe ==
  ASSUME SafeInv, NEW C \in SUBSET Clients, CloseAll(C), UNCHANGED engineVars
  PROVE  SafeInv'
<1>1. FeedInv /\ Shape /\ Bounds /\ Engines /\ Frames /\ Kinds /\ InOrder /\ Views
  BY DEF SafeInv, FeedInv
<1>2. FeedInv' /\ UNCHANGED <<engine, disk, fresh, epoch>>
  BY <1>1, CloseKeeps DEF engineVars
<1>3. ASSUME NEW d \in C
      PROVE  /\ queue'[d] = <<>> /\ direct'[d] = <<>> /\ snapshot'[d] = NoSnapshot /\ conn'[d] = "off"
             /\ sync'[d] = NewSync(0) /\ view'[d] = Unknown /\ base'[d] = Unknown
             /\ Flight(d)' = {NoSnapshot}
  <2>1. d \in Clients
    OBVIOUS
  <2>2. /\ queue'[d] = <<>> /\ direct'[d] = <<>> /\ snapshot'[d] = NoSnapshot /\ conn'[d] = "off"
        /\ sync'[d] = NewSync(0) /\ view'[d] = Unknown /\ base'[d] = Unknown
    BY <2>1 DEF CloseAll
  <2> QED
    BY <2>2 DEF Flight, ToSet
<1>4. ASSUME NEW d \in Clients \ C
      PROVE  /\ queue'[d] = queue[d] /\ direct'[d] = direct[d] /\ snapshot'[d] = snapshot[d]
             /\ conn'[d] = conn[d] /\ selected'[d] = selected[d] /\ evicted'[d] = evicted[d]
             /\ sync'[d] = sync[d] /\ view'[d] = view[d] /\ base'[d] = base[d]
             /\ raised'[d] = raised[d] /\ shown'[d] = shown[d] /\ (d \in todo => d \in todo')
             /\ Flight(d)' = Flight(d)
  <2>1. d \in Clients /\ d \notin C
    OBVIOUS
  <2> QED
    BY <2>1 DEF CloseAll, Flight
<1>5. Nobody(NoSnapshot) /\ Unknown \in [Characters -> Nat] /\ fresh \in Nat /\ <<>> \in Seq(AnyFrame)
  BY <1>1 DEF Nobody, NoSnapshot, Unknown, Shape
<1>6. \A d \in Clients : \A f \in Flight(d)' : f \in Flight(d) \/ Nobody(f)
  BY <1>3, <1>4, <1>5
<1>7. Engines' /\ Frames'
  BY <1>1, <1>2, <1>6, StillFrames
<1>8. Bounds'
  <2>1. /\ base' = [c \in Clients |-> IF c \in C THEN Unknown ELSE base[c]]
        /\ shown' = [c \in Clients |-> IF c \in C THEN Unknown ELSE shown[c]]
        /\ raised' = [c \in Clients |-> IF c \in C THEN <<None, 0>> ELSE raised[c]]
        /\ lagged' = [c \in Clients |-> c \notin C /\ lagged[c]]
        /\ lags' = [c \in Clients |-> IF c \in C THEN 0 ELSE lags[c]]
        /\ evicted' = [c \in Clients |-> IF c \in C THEN {} ELSE evicted[c]]
        /\ todo' = todo \ C
    BY DEF CloseAll
  <2>2. /\ base' \in [Clients -> [Characters -> Nat]] /\ shown' \in [Clients -> [Characters -> Nat]]
    BY <1>1, <1>5, <2>1 DEF Bounds
  <2>3. /\ raised' \in [Clients -> (Characters \cup {None}) \X Nat]
        /\ lagged' \in [Clients -> BOOLEAN] /\ lags' \in [Clients -> 0..MaxLags]
    BY <1>1, <2>1, SizesAssumption DEF Bounds
  <2>4. evicted' \in [Clients -> SUBSET (0..fresh')] /\ todo' \subseteq {c \in Clients : conn'[c] = "on"}
    BY <1>1, <1>2, <1>4, <2>1 DEF Bounds
  <2>5. ASSUME NEW d \in Clients PROVE Len(queue'[d]) <= RingSize /\ Len(direct'[d]) <= DirectSize
    <3>1. CASE d \in C
      <4>1. Len(queue'[d]) = 0 /\ Len(direct'[d]) = 0
        BY <1>3, <3>1
      <4> QED
        BY <4>1, SizesAssumption
    <3>2. CASE d \notin C
      BY <1>1, <1>4, <3>2 DEF Bounds
    <3> QED
      BY <3>1, <3>2
  <2> QED
    BY <1>1, <1>2, <2>2, <2>3, <2>4, <2>5 DEF Bounds
<1>9. Kinds'
  <2>1. ToSet(<<>>) = {} /\ NoSnapshot.kind = "none" /\ NoSnapshot.char = None
    BY DEF ToSet, NoSnapshot
  <2> QED
    BY <1>1, <1>2, <1>3, <1>4, <2>1 DEF Kinds
<1>10. InOrder'
  <2>1. \A d \in C : Len(queue'[d]) = 0
    BY <1>3
  <2> QED
    BY <1>1, <1>4, <2>1 DEF InOrder
<1>11. Views' /\ Raised'
  <2>1. \A d \in C : /\ sync'[d].message = 0 /\ sync'[d].snapshot = 0 /\ conn'[d] # "on"
                     /\ \A x \in Characters : view'[d][x] = 0 /\ base'[d][x] = 0
    BY <1>3 DEF NewSync, Unknown
  <2>2. ASSUME NEW d \in C PROVE ViewsOf(d)' /\ RaisedOf(d)'
    BY <1>2, <1>5, <2>1 DEF ViewsOf, RaisedOf
  <2>3. ASSUME NEW d \in Clients, d \notin C PROVE ViewsOf(d)' /\ RaisedOf(d)'
    BY <1>2, <1>4, <2>3, StillRaised
  <2> QED
    BY <2>2, <2>3 DEF Views, Raised
<1>12. Coming'
  <2> SUFFICES ASSUME NEW d \in Clients, NEW x \in Characters,
                      conn'[d] \in {"loaded", "on"}, Target(d)' = x
               PROVE  \/ d \in todo' \/ disk'[x] \in evicted'[d]
                      \/ \E f \in Flight(d)' : Saved(f, x)'
                      \/ conn'[d] = "on" /\ (view'[d][x] >= disk'[x] \/ Behind(d, x)')
    BY DEF Coming
  <2>1. d \in Clients \ C
    BY <1>3
  <2>2. Target(d) = x /\ conn'[d] = conn[d]
    BY <1>4, <2>1 DEF Target
  <2>3. engine'[x].rev = engine[x].rev /\ EpochOf(x)' = EpochOf(x) /\ disk' = disk
    BY <1>2 DEF EpochOf
  <2> QED
    BY <1>4, <2>1, <2>2, <2>3, StillComing
<1> QED
  BY <1>2, <1>7, <1>8, <1>9, <1>10, <1>11, <1>12 DEF SafeInv

(* A client that subscribes follows nobody yet, and one that has lagged    *)
(* reads on.                                                               *)
LEMMA QuietSafe ==
  ASSUME SafeInv, NEW c \in Clients,
         Subscribe(c) \/ (Lagged(c) /\ UNCHANGED <<clientVars, queue, evicted, conn, selected, handlerVars>>)
  PROVE  SafeInv'
<1>1. FeedInv /\ Shape /\ Bounds /\ Engines /\ Frames /\ Kinds /\ InOrder
  BY DEF SafeInv, FeedInv
<1>2. FeedInv'
  BY <1>1, SubscribeKeeps, LaggedKeeps
<1>3. /\ UNCHANGED <<engine, disk, fresh, epoch, queue, snapshot, direct, selected, todo, evicted,
                     sync, view, base, raised, shown>>
      /\ conn' = conn \/ (conn[c] = "off" /\ conn' = [conn EXCEPT ![c] = "subscribed"])
  BY DEF Subscribe, Lagged, engineVars, clientVars, ringVars, handlerVars
<1>4. lagged' \in [Clients -> BOOLEAN] /\ lags' \in [Clients -> 0..MaxLags]
  <2>1. CASE Subscribe(c)
    BY <1>1, <2>1 DEF Subscribe, ringVars, Bounds
  <2>2. CASE Lagged(c)
    <3>1. lagged \in [Clients -> BOOLEAN] /\ lags \in [Clients -> 0..MaxLags] /\ MaxLags \in Nat
      BY <1>1, SizesAssumption DEF Bounds
    <3>2. CASE lags[c] + 1 >= MaxLags
      <4>1. /\ lagged' = [d \in Clients |-> d \notin {c} /\ lagged[d]]
            /\ lags' = [d \in Clients |-> IF d \in {c} THEN 0 ELSE lags[d]]
        BY <2>2, <3>2 DEF Lagged, CloseAll
      <4> QED
        BY <3>1, <4>1
    <3>3. CASE ~(lags[c] + 1 >= MaxLags)
      <4>1. lagged' = [lagged EXCEPT ![c] = FALSE] /\ lags' = [lags EXCEPT ![c] = lags[c] + 1]
        BY <2>2, <3>3 DEF Lagged
      <4>2. lags[c] + 1 \in 0..MaxLags
        BY <3>1, <3>3
      <4> QED
        BY <3>1, <4>1, <4>2
    <3> QED
      BY <3>2, <3>3
  <2> QED
    BY <2>1, <2>2
<1>5. Bounds' /\ Kinds' /\ InOrder'
  <2>1. \A d \in Clients : conn[d] = "on" => conn'[d] = "on"
    BY <1>1, <1>3 DEF Shape
  <2> QED
    BY <1>1, <1>3, <1>4, <2>1 DEF Bounds, Kinds, InOrder
<1>6. \A d \in Clients : Flight(d)' = Flight(d)
  BY <1>3 DEF Flight
<1>7. Engines' /\ Frames'
  BY <1>1, <1>3, <1>6, StillFrames
<1>8. \A d \in Clients : conn'[d] \in {"loaded", "on"} => conn'[d] = conn[d]
  BY <1>1, <1>3 DEF Shape
<1>9. ASSUME NEW d \in Clients PROVE ViewsOf(d)' /\ RaisedOf(d)'
  BY <1>3, <1>6, <1>8, StillRaised
<1>10. Views' /\ Raised'
  BY <1>9 DEF Views, Raised
<1>11. Coming'
  <2> SUFFICES ASSUME NEW d \in Clients, NEW x \in Characters,
                      conn'[d] \in {"loaded", "on"}, Target(d)' = x
               PROVE  \/ d \in todo' \/ disk'[x] \in evicted'[d]
                      \/ \E f \in Flight(d)' : Saved(f, x)'
                      \/ conn'[d] = "on" /\ (view'[d][x] >= disk'[x] \/ Behind(d, x)')
    BY DEF Coming
  <2>1. Target(d) = x /\ conn'[d] = conn[d]
    BY <1>3, <1>8 DEF Target
  <2>2. engine'[x].rev = engine[x].rev /\ EpochOf(x)' = EpochOf(x) /\ disk' = disk
    BY <1>3 DEF EpochOf
  <2> QED
    BY <1>3, <1>6, <2>1, <2>2, StillComing
<1> QED
  BY <1>2, <1>5, <1>7, <1>10, <1>11 DEF SafeInv

(* A full channel is not written to, and one that is written keeps what it *)
(* had.                                                                    *)
LEMMA AppendKeeps ==
  ASSUME NEW S, NEW q \in Seq(S), NEW x \in S
  PROVE  /\ Len(Append(q, x)) = Len(q) + 1
         /\ ToSet(Append(q, x)) = ToSet(q) \cup {x}
<1>1. /\ Append(q, x) \in Seq(S) /\ Len(Append(q, x)) = Len(q) + 1 /\ Len(q) \in Nat
      /\ \A i \in 1..Len(q) : Append(q, x)[i] = q[i] /\ i \in 1..Len(q) + 1
      /\ Append(q, x)[Len(q) + 1] = x /\ Len(q) + 1 \in 1..Len(q) + 1
  OBVIOUS
<1>2. DOMAIN Append(q, x) = 1..Len(q) + 1 /\ DOMAIN q = 1..Len(q)
  BY <1>1
<1>3. ToSet(q) \subseteq ToSet(Append(q, x)) /\ x \in ToSet(Append(q, x))
  BY <1>1, <1>2, Zenon DEF ToSet
<1>4. ToSet(Append(q, x)) \subseteq ToSet(q) \cup {x}
  BY ToSetSeq
<1> QED
  BY <1>1, <1>3, <1>4

(* A pushed History is still on its way.                                   *)
LEMMA PushSafe ==
  ASSUME SafeInv, NEW c \in Clients, Push(c)
  PROVE  SafeInv'
<1>1. /\ FeedInv /\ Shape /\ Bounds /\ Engines /\ Frames /\ Kinds /\ InOrder
      /\ direct \in [Clients -> Seq(AnyFrame)] /\ snapshot \in [Clients -> AnyFrame]
  BY DEF SafeInv, FeedInv, Shape
<1>2. FeedInv'
  BY <1>1, PushKeeps
<1>3. /\ conn[c] = "on" /\ snapshot[c].kind # "none" /\ Len(direct[c]) < DirectSize
      /\ direct' = [direct EXCEPT ![c] = Append(direct[c], snapshot[c])]
      /\ snapshot' = [snapshot EXCEPT ![c] = NoSnapshot]
      /\ UNCHANGED <<engine, disk, fresh, epoch, queue, lagged, lags, selected, conn, todo, evicted,
                     sync, view, base, raised, shown>>
  BY DEF Push, Pending, engineVars, clientVars, ringVars, connVars
<1>4. /\ Len(direct'[c]) = Len(direct[c]) + 1 /\ ToSet(direct'[c]) = ToSet(direct[c]) \cup {snapshot[c]}
      /\ snapshot'[c] = NoSnapshot
      /\ \A d \in Clients \ {c} : direct'[d] = direct[d] /\ snapshot'[d] = snapshot[d]
  <2>1. direct[c] \in Seq(AnyFrame) /\ snapshot[c] \in AnyFrame
    BY <1>1
  <2> QED
    BY <1>1, <1>3, <2>1, AppendKeeps
<1>5. Nobody(NoSnapshot) /\ NoSnapshot.kind = "none" /\ NoSnapshot.char = None
  BY DEF Nobody, NoSnapshot
<1>6. \A d \in Clients : Flight(d)' \subseteq Flight(d) \cup {NoSnapshot} /\ Flight(d) \subseteq Flight(d)'
  BY <1>3, <1>4 DEF Flight
<1>7. Engines' /\ Frames'
  BY <1>1, <1>3, <1>5, <1>6, StillFrames
<1>8. Bounds'
  <2>1. Len(direct'[c]) <= DirectSize
    <3>1. Len(direct[c]) \in Nat
      BY <1>1
    <3> QED
      BY <1>3, <1>4, <3>1, SizesAssumption
  <2> QED
    BY <1>1, <1>3, <1>4, <2>1 DEF Bounds
<1>9. Kinds'
  BY <1>1, <1>3, <1>4, <1>5 DEF Kinds
<1>10. InOrder'
  BY <1>1, <1>3 DEF InOrder
<1>11. \A d \in Clients : \A f \in Flight(d)' : f \in Flight(d) \/ Nobody(f)
  BY <1>5, <1>6
<1>12. ASSUME NEW d \in Clients PROVE ViewsOf(d)' /\ RaisedOf(d)'
  BY <1>3, <1>11, StillRaised
<1>13. Views' /\ Raised'
  BY <1>12 DEF Views, Raised
<1>14. Coming'
  <2> SUFFICES ASSUME NEW d \in Clients, NEW x \in Characters,
                      conn'[d] \in {"loaded", "on"}, Target(d)' = x
               PROVE  \/ d \in todo' \/ disk'[x] \in evicted'[d]
                      \/ \E f \in Flight(d)' : Saved(f, x)'
                      \/ conn'[d] = "on" /\ (view'[d][x] >= disk'[x] \/ Behind(d, x)')
    BY DEF Coming
  <2>1. Target(d) = x /\ conn'[d] = conn[d]
    BY <1>3, <1>4 DEF Target
  <2>2. engine'[x].rev = engine[x].rev /\ EpochOf(x)' = EpochOf(x) /\ disk' = disk
    BY <1>3 DEF EpochOf
  <2> QED
    BY <1>3, <1>6, <2>1, <2>2, StillComing
<1> QED
  BY <1>2, <1>7, <1>8, <1>9, <1>10, <1>13, <1>14 DEF SafeInv

(* A reload has a History to push to every session.                        *)
LEMMA ReloadSafe ==
  ASSUME SafeInv, NEW A \in SUBSET Characters, Reload(A)
  PROVE  SafeInv'
<1>1. /\ FeedInv /\ Shape /\ Bounds /\ Engines /\ Frames /\ Kinds /\ InOrder /\ Views /\ Raised
  BY DEF SafeInv, FeedInv
<1>2. FeedInv' /\ Engines' /\ Frames'
  BY <1>1, ReloadKeeps, ReloadFrames
<1>3. /\ engine' = [ch \in Characters |-> IF ch \in A THEN engine[ch] ELSE NoEngine]
      /\ todo' = {c \in Clients : conn[c] = "on"}
      /\ UNCHANGED <<disk, fresh, epoch, queue, snapshot, direct, lagged, lags, selected, conn, evicted,
                     sync, view, base, raised, shown>>
  BY DEF Reload, clientVars, ringVars, connVars
<1>4. Bounds' /\ Kinds' /\ InOrder'
  BY <1>1, <1>3 DEF Bounds, Kinds, InOrder
<1>5. \A ch \in Characters :
        engine'[ch] = engine[ch] \/ (engine'[ch].rev = 0 /\ ~engine'[ch].made)
  BY <1>3 DEF NoEngine
<1>6. \A c \in Clients : Flight(c)' = Flight(c)
  BY <1>3 DEF Flight
<1>7. Views'
  <2>1. \A c \in Clients : sync[c].snapshot \in Nat
    BY <1>1, ClientTypes
  <2> QED
    BY <1>1, <1>3, <1>5, <2>1 DEF Views, ViewsOf
<1>8. Raised'
  BY <1>1, <1>3, <1>5, <1>6 DEF Raised, RaisedOf, Unknown
<1>9. Coming'
  <2> SUFFICES ASSUME NEW c \in Clients, NEW x \in Characters,
                      conn[c] \in {"loaded", "on"}, Target(c) = x
               PROVE  \/ c \in todo' \/ disk[x] \in evicted[c]
                      \/ \E f \in Flight(c)' : Saved(f, x)'
    BY <1>3 DEF Coming, Target
  <2>1. CASE conn[c] = "on"
    BY <1>3, <2>1
  <2>2. CASE conn[c] = "loaded"
    <3>1. \/ c \in todo \/ disk[x] \in evicted[c]
          \/ \E f \in Flight(c) : Saved(f, x)
      BY <2>2 DEF SafeInv, Coming
    <3> QED
      BY <1>1, <1>3, <1>6, <2>2, <3>1 DEF Saved, Bounds
  <2> QED
    BY <2>1, <2>2
<1> QED
  BY <1>2, <1>4, <1>7, <1>8, <1>9 DEF SafeInv

(* After a restart nobody is connected.                                    *)
LEMMA RestartSafe ==
  ASSUME SafeInv, Restart
  PROVE  SafeInv'
<1>1. FeedInv /\ Shape /\ Bounds /\ Engines
  BY DEF SafeInv, FeedInv
<1>2. FeedInv' /\ Engines' /\ Frames'
  BY <1>1, RestartKeeps, RestartFrames
<1>3. /\ base' = [c \in Clients |-> IF c \in Clients THEN Unknown ELSE base[c]]
      /\ shown' = [c \in Clients |-> IF c \in Clients THEN Unknown ELSE shown[c]]
      /\ raised' = [c \in Clients |-> IF c \in Clients THEN <<None, 0>> ELSE raised[c]]
      /\ lagged' = [c \in Clients |-> c \notin Clients /\ lagged[c]]
      /\ lags' = [c \in Clients |-> IF c \in Clients THEN 0 ELSE lags[c]]
      /\ evicted' = [c \in Clients |-> IF c \in Clients THEN {} ELSE evicted[c]]
      /\ todo' = todo \ Clients /\ fresh' = fresh
      /\ \A d \in Clients : /\ queue'[d] = <<>> /\ direct'[d] = <<>> /\ snapshot'[d] = NoSnapshot
                            /\ conn'[d] = "off" /\ sync'[d] = NewSync(0)
                            /\ view'[d] = Unknown /\ base'[d] = Unknown
  BY DEF Restart, CloseAll
<1>4. Unknown \in [Characters -> Nat] /\ fresh \in Nat
  BY <1>1 DEF Unknown, Shape
<1>5. Bounds'
  <2>1. \A d \in Clients : Len(queue'[d]) = 0 /\ Len(direct'[d]) = 0
    BY <1>3
  <2>2. base' \in [Clients -> [Characters -> Nat]] /\ shown' \in [Clients -> [Characters -> Nat]]
    BY <1>3, <1>4
  <2>3. /\ raised' \in [Clients -> (Characters \cup {None}) \X Nat]
        /\ lagged' \in [Clients -> BOOLEAN] /\ lags' \in [Clients -> 0..MaxLags]
        /\ evicted' \in [Clients -> SUBSET (0..fresh')] /\ todo' = {}
    BY <1>1, <1>3, SizesAssumption DEF Bounds
  <2>4. \A d \in Clients : Len(queue'[d]) <= RingSize /\ Len(direct'[d]) <= DirectSize
    BY <2>1, SizesAssumption
  <2> QED
    BY <1>1, <1>3, <2>2, <2>3, <2>4 DEF Bounds
<1>6. Kinds'
  BY <1>3 DEF Kinds, ToSet, NoSnapshot
<1>7. InOrder'
  BY <1>3 DEF InOrder
<1>8. Views'
  BY <1>3, <1>4 DEF Views, ViewsOf, NewSync, Unknown
<1>9. Raised' /\ Coming'
  BY <1>3 DEF Raised, RaisedOf, Coming
<1> QED
  BY <1>2, <1>5, <1>6, <1>7, <1>8, <1>9 DEF SafeInv

(* The History of a handshake is shown, and compares with the messages     *)
(* that wait.                                                              *)
LEMMA RegisterSafe ==
  ASSUME SafeInv, NEW c \in Clients, Register(c)
  PROVE  SafeInv'
<1>0. PICK f : f = snapshot[c]
  OBVIOUS
<1>1. /\ FeedInv /\ Shape /\ Bounds /\ Engines /\ Frames /\ Kinds /\ InOrder
      /\ snapshot \in [Clients -> AnyFrame] /\ conn \in [Clients -> {"off", "subscribed", "loaded", "on"}]
      /\ selected \in [Clients -> Characters \cup {None}]
  BY DEF SafeInv, FeedInv, Shape
<1>2. FeedInv'
  BY <1>1, RegisterKeeps
<1>3. /\ conn[c] = "loaded" /\ conn' = [conn EXCEPT ![c] = "on"]
      /\ selected' = [selected EXCEPT ![c] = f.char]
      /\ snapshot' = [snapshot EXCEPT ![c] = NoSnapshot]
      /\ sync' = [sync EXCEPT ![c] = NewSync(f.rev)]
      /\ view' = [view EXCEPT ![c] = IF f.char = None THEN Unknown ELSE Show(f)]
      /\ base' = [base EXCEPT ![c] = view'[c]]
      /\ raised' = [raised EXCEPT ![c] = <<f.char, f.epoch>>]
      /\ shown' = [shown EXCEPT ![c] = Shown(f)]
      /\ UNCHANGED <<engine, disk, fresh, epoch, queue, lagged, evicted, lags, todo, direct>>
  BY <1>0 DEF Register, engineVars, ringVars
<1>4. /\ f \in AnyFrame /\ f \in Flight(c) /\ f.rev \in Nat /\ f.ver \in Nat /\ f.epoch \in Nat
      /\ f.char \in Characters \cup {None}
  BY <1>0, <1>1, FrameTypes DEF Flight
<1>5. /\ f.char # None => FrameOK(f) /\ \A m \in Flight(c) : Comparable(m, f)
      /\ f.char = None => Nobody(f)
  BY <1>1, <1>4, NoneAssumption DEF Frames, Nobody
<1>6. ASSUME NEW d \in Clients \ {c}
      PROVE  /\ conn'[d] = conn[d] /\ selected'[d] = selected[d] /\ snapshot'[d] = snapshot[d]
             /\ sync'[d] = sync[d] /\ view'[d] = view[d] /\ base'[d] = base[d]
             /\ raised'[d] = raised[d] /\ shown'[d] = shown[d] /\ Flight(d)' = Flight(d)
  <2>1. d # c
    OBVIOUS
  <2>2. snapshot'[d] = snapshot[d] /\ conn'[d] = conn[d] /\ selected'[d] = selected[d]
    BY <1>1, <1>3, <2>1
  <2>3. sync'[d] = sync[d] /\ view'[d] = view[d] /\ base'[d] = base[d]
        /\ raised'[d] = raised[d] /\ shown'[d] = shown[d]
    BY <1>1, <1>3, <2>1 DEF Shape, Bounds
  <2> QED
    BY <1>3, <2>2, <2>3 DEF Flight
<1>7. /\ conn'[c] = "on" /\ selected'[c] = f.char /\ snapshot'[c] = NoSnapshot
      /\ sync'[c].message = f.rev /\ sync'[c].snapshot = f.rev
      /\ base'[c] = view'[c] /\ raised'[c] = <<f.char, f.epoch>>
      /\ view'[c] = IF f.char = None THEN Unknown ELSE Show(f)
  <2>1. sync'[c] = NewSync(f.rev)
    BY <1>1, <1>3 DEF Shape
  <2>2. NewSync(f.rev).message = f.rev /\ NewSync(f.rev).snapshot = f.rev
    BY DEF NewSync
  <2> QED
    BY <1>1, <1>3, <2>1, <2>2 DEF Shape, Bounds
<1>8. \A x \in Characters : view'[c][x] = IF x = f.char THEN f.ver ELSE 0
  BY <1>4, <1>7, NoneAssumption DEF Show, Unknown
<1>9. Flight(c)' \subseteq Flight(c) \cup {NoSnapshot} /\ Flight(c) \subseteq Flight(c)' \cup {f}
  BY <1>0, <1>3, <1>7 DEF Flight
<1>10. Nobody(NoSnapshot) /\ NoSnapshot.kind = "none" /\ NoSnapshot.char = None
  BY DEF Nobody, NoSnapshot
<1>11. Engines' /\ Frames'
  BY <1>1, <1>3, <1>6, <1>9, <1>10, StillFrames
<1>12. Bounds'
  <2>1. view'[c] \in [Characters -> Nat] /\ Shown(f) \in [Characters -> Nat]
    BY <1>4, <1>7 DEF Show, Shown, Unknown
  <2>2. base' \in [Clients -> [Characters -> Nat]]
    BY <1>1, <1>3, <2>1 DEF Bounds
  <2>3. shown' \in [Clients -> [Characters -> Nat]]
    BY <1>1, <1>3, <2>1 DEF Bounds
  <2>4. raised' \in [Clients -> (Characters \cup {None}) \X Nat]
    BY <1>1, <1>3, <1>4 DEF Bounds
  <2>5. todo' \subseteq {d \in Clients : conn'[d] = "on"}
    BY <1>1, <1>3, <1>6, <1>7 DEF Bounds
  <2> QED
    BY <1>1, <1>3, <2>2, <2>3, <2>4, <2>5 DEF Bounds
<1>13. Kinds' /\ InOrder'
  BY <1>1, <1>3, <1>6, <1>7, <1>10 DEF Kinds, InOrder
<1>14. fresh \in Nat /\ f.rev <= fresh /\ f.ver <= fresh
       /\ \A x \in Characters : disk[x] \in Nat /\ engine[x].rev \in Nat /\ epoch[x] \in Nat
  <2>1. fresh \in Nat /\ \A x \in Characters : disk[x] \in Nat /\ engine[x].rev \in Nat /\ epoch[x] \in Nat
    BY <1>1, EngineTypes DEF Shape
  <2> QED
    BY <1>5, <2>1 DEF FrameOK, Nobody
<1>15. ASSUME NEW x \in Characters
       PROVE  view'[c][x] <= fresh /\ (view'[c][x] >= disk[x] => f.rev >= engine[x].rev)
  <2>1. CASE x = f.char
    BY <1>5, <1>8, <1>14, <2>1, NoneAssumption DEF FrameOK
  <2>2. CASE x # f.char
    <3>1. view'[c][x] = 0 /\ (disk[x] = 0 => engine[x].rev = 0)
      BY <1>1, <1>8, <2>2 DEF Engines
    <3> QED
      BY <1>4, <1>14, <3>1
  <2> QED
    BY <2>1, <2>2
<1>20. ASSUME NEW d \in Clients \ {c} PROVE ViewsOf(d)' /\ RaisedOf(d)'
  <2>1. UNCHANGED <<engine, disk, fresh, epoch>>
    BY <1>3
  <2> QED
    BY <1>6, <2>1, StillRaised
<1>16. Views'
  <2>1. ViewsOf(c)'
    BY <1>3, <1>7, <1>14, <1>15 DEF ViewsOf
  <2> QED
    BY <1>20, <2>1 DEF Views
<1>17. ASSUME NEW m \in Flight(c)', m.kind = "message", m.epoch = epoch[m.char]
       PROVE  /\ m.rev > f.rev => m.ver > view'[c][m.char]
              /\ f.char = m.char /\ f.epoch = m.epoch /\ m.rev <= f.rev => m.ver <= view'[c][m.char]
  <2>1. m \in Flight(c) /\ m.char \in Characters /\ FrameOK(m) /\ m.rev \in Nat /\ m.ver \in Nat
    <3>1. m \in Flight(c)
      BY <1>9, <1>10, <1>17
    <3> QED
      BY <1>1, <1>17, <3>1, FrameTypes DEF Frames, Nobody
  <2>2. CASE m.char = f.char
    <3>1. Comparable(m, f)
      BY <1>5, <2>1, <2>2, NoneAssumption
    <3> QED
      BY <1>4, <1>8, <1>17, <2>1, <2>2, <3>1 DEF Comparable
  <2>3. CASE m.char # f.char
    BY <1>8, <1>17, <2>1, <2>3 DEF FrameOK
  <2> QED
    BY <2>2, <2>3
<1>18. Raised'
  <2>1. f.char = None => f.rev = 0 /\ view'[c] = Unknown
    BY <1>5, <1>7 DEF Nobody
  <2>2. ASSUME NEW x \in Characters, f.char = x
        PROVE  /\ f.epoch \in 1..epoch[x]
               /\ f.epoch = epoch[x] /\ engine[x].made => f.rev <= engine[x].rev
    BY <1>5, <2>2, NoneAssumption DEF FrameOK
  <2>3. /\ raised'[c] = <<None, 0>> => sync'[c].message = 0 /\ base'[c] = Unknown
        /\ \A x \in Characters : raised'[c][1] = x =>
             /\ raised'[c][2] \in 1..epoch'[x]
             /\ raised'[c][2] = epoch'[x] /\ engine'[x].made => sync'[c].message <= engine'[x].rev
        /\ \A m \in Flight(c)' : m.kind = "message" /\ m.epoch = epoch'[m.char] =>
             /\ m.rev > sync'[c].message => m.ver > base'[c][m.char]
             /\ raised'[c] = <<m.char, m.epoch>> /\ m.rev <= sync'[c].message =>
                  m.ver <= base'[c][m.char]
    BY <1>3, <1>7, <1>17, <2>1, <2>2
  <2>4. RaisedOf(c)'
    BY <2>3 DEF RaisedOf, Unknown
  <2> QED
    BY <1>20, <2>4 DEF Raised
<1>19. Coming'
  <2> SUFFICES ASSUME NEW d \in Clients, NEW x \in Characters,
                      conn'[d] \in {"loaded", "on"}, Target(d)' = x
               PROVE  \/ d \in todo' \/ disk'[x] \in evicted'[d]
                      \/ \E g \in Flight(d)' : Saved(g, x)'
                      \/ conn'[d] = "on" /\ (view'[d][x] >= disk'[x] \/ Behind(d, x)')
    BY DEF Coming
  <2>1. CASE d # c
    <3>1. Target(d) = x /\ conn'[d] = conn[d] /\ disk' = disk
      BY <1>3, <1>6, <2>1 DEF Target
    <3>2. engine'[x].rev = engine[x].rev /\ EpochOf(x)' = EpochOf(x)
      BY <1>3 DEF EpochOf
    <3> QED
      BY <1>3, <1>6, <2>1, <3>1, <3>2, StillComing
  <2>2. CASE d = c
    <3>1. f.char = x /\ Target(c) = x
      BY <1>0, <1>3, <1>7, <2>2 DEF Target
    <3>2. c \in todo \/ disk[x] \in evicted[c] \/ \E g \in Flight(c) : Saved(g, x)
      BY <1>3, <3>1 DEF SafeInv, Coming
    <3>3. ASSUME NEW g \in Flight(c), Saved(g, x)
          PROVE  g \in Flight(c)' \/ view'[c][x] >= disk[x]
      BY <1>8, <1>9, <3>1, <3>3 DEF Saved
    <3> QED
      BY <1>3, <1>7, <2>2, <3>2, <3>3 DEF Saved
  <2> QED
    BY <2>1, <2>2
<1> QED
  BY <1>2, <1>11, <1>12, <1>13, <1>16, <1>18, <1>19 DEF SafeInv

(* What SyncState does with a frame: take a History, note a message, or    *)
(* drop what is stale.                                                     *)
LEMMA ObserveCases ==
  ASSUME Shape, Bounds, NEW c \in Clients, NEW f \in AnyFrame, f.kind \in {"history", "message"},
         Observe(c, f)
  PROVE  /\ \A d \in Clients \ {c} : /\ sync'[d] = sync[d] /\ view'[d] = view[d]
                                     /\ raised'[d] = raised[d] /\ shown'[d] = shown[d]
         /\ \A x \in Characters : x # f.char => view'[c][x] = view[c][x] /\ shown'[c][x] = shown[c][x]
         /\ \/ /\ f.kind = "history" /\ f.rev >= sync[c].snapshot
               /\ sync'[c].snapshot = f.rev /\ sync'[c].message = sync[c].message
               /\ raised'[c] = raised[c]
               /\ f.char # None => view'[c][f.char] = f.ver /\ shown'[c][f.char] = f.epoch
            \/ /\ f.kind = "message" /\ f.rev > sync[c].message
               /\ sync'[c].snapshot = sync[c].snapshot /\ sync'[c].message = f.rev
               /\ raised'[c] = <<f.char, f.epoch>>
               /\ view'[c] = view[c] /\ shown'[c] = shown[c]
            \/ /\ f.kind = "history" => f.rev < sync[c].snapshot
               /\ sync'[c] = sync[c] /\ raised'[c] = raised[c]
               /\ view'[c] = view[c] /\ shown'[c] = shown[c]
         /\ shown' \in [Clients -> [Characters -> Nat]]
         /\ raised' \in [Clients -> (Characters \cup {None}) \X Nat]
<1>1. /\ sync \in [Clients -> [message : Nat, snapshot : Nat]]
      /\ view \in [Clients -> [Characters -> Nat]] /\ shown \in [Clients -> [Characters -> Nat]]
      /\ raised \in [Clients -> (Characters \cup {None}) \X Nat]
      /\ sync[c].snapshot \in Nat /\ sync[c].message \in Nat
  BY DEF Shape, Bounds
<1>2. /\ f.rev \in Nat /\ f.ver \in Nat /\ f.epoch \in Nat /\ f.char \in Characters \cup {None}
  BY DEF AnyFrame
<1>3. CASE f.kind = "history" /\ ~(f.rev < sync[c].snapshot)
  <2>1. /\ sync' = [sync EXCEPT ![c].snapshot = f.rev] /\ raised' = raised /\ Take(c, f)
        /\ f.rev >= sync[c].snapshot
    BY <1>1, <1>2, <1>3 DEF Observe
  <2>2. /\ sync'[c].snapshot = f.rev /\ sync'[c].message = sync[c].message
        /\ \A d \in Clients \ {c} : sync'[d] = sync[d]
    BY <1>1, <2>1
  <2>3. CASE f.char = None
    <3>1. view' = view /\ shown' = shown
      BY <2>1, <2>3 DEF Take
    <3> QED
      BY <1>1, <1>3, <2>1, <2>2, <2>3, <3>1
  <2>4. CASE f.char # None
    <3>1. f.char \in Characters
      BY <1>2, <2>4
    <3>2. view' = [view EXCEPT ![c][f.char] = f.ver] /\ shown' = [shown EXCEPT ![c][f.char] = f.epoch]
      BY <2>1, <2>4 DEF Take
    <3>3. /\ view'[c][f.char] = f.ver /\ shown'[c][f.char] = f.epoch
          /\ \A d \in Clients \ {c} : view'[d] = view[d] /\ shown'[d] = shown[d]
          /\ \A x \in Characters \ {f.char} :
               view'[c][x] = view[c][x] /\ shown'[c][x] = shown[c][x]
      BY <1>1, <3>1, <3>2
    <3>4. shown' \in [Clients -> [Characters -> Nat]]
      BY <1>1, <1>2, <3>1, <3>2
    <3> QED
      BY <1>1, <1>3, <2>1, <2>2, <3>3, <3>4
  <2> QED
    BY <2>3, <2>4
<1>4. CASE f.kind = "history" /\ f.rev < sync[c].snapshot
  BY <1>1, <1>4 DEF Observe
<1>5. CASE f.kind = "message" /\ f.rev <= sync[c].message
  BY <1>1, <1>5 DEF Observe
<1>6. CASE f.kind = "message" /\ ~(f.rev <= sync[c].message)
  <2>1. /\ sync' = [sync EXCEPT ![c].message = f.rev]
        /\ raised' = [raised EXCEPT ![c] = <<f.char, f.epoch>>]
        /\ UNCHANGED <<view, shown>> /\ f.rev > sync[c].message
    BY <1>1, <1>2, <1>6 DEF Observe
  <2>2. /\ sync'[c].message = f.rev /\ sync'[c].snapshot = sync[c].snapshot
        /\ raised'[c] = <<f.char, f.epoch>>
        /\ \A d \in Clients \ {c} : sync'[d] = sync[d] /\ raised'[d] = raised[d]
    BY <1>1, <2>1
  <2>3. raised' \in [Clients -> (Characters \cup {None}) \X Nat]
    BY <1>1, <1>2, <2>1
  <2> QED
    BY <1>1, <1>6, <2>1, <2>2, <2>3
<1> QED
  BY <1>3, <1>4, <1>5, <1>6

(* A frame that is read shows what is saved, or what is saved is behind    *)
(* the watermark or still to come.                                         *)
LEMMA ObserveSafe ==
  ASSUME SafeInv, FeedInv', NEW c \in Clients, NEW f \in Flight(c), Observe(c, f),
         conn[c] = "on", f.kind \in {"history", "message"},
         Flight(c)' \subseteq Flight(c), Flight(c) \subseteq Flight(c)' \cup {f},
         \A m \in Flight(c)' : Precede(f, m),
         \A d \in Clients \ {c} : Flight(d)' = Flight(d),
         UNCHANGED <<engine, disk, fresh, epoch, conn, selected, snapshot, todo, base, evicted, lagged>>,
         lags' \in [Clients -> 0..MaxLags],
         \A d \in Clients : Len(queue'[d]) <= RingSize /\ Len(direct'[d]) <= DirectSize,
         Kinds', InOrder'
  PROVE  SafeInv'
<1>1. /\ FeedInv /\ Shape /\ Bounds /\ Engines /\ Frames /\ Kinds /\ InOrder /\ Views /\ Raised
  BY DEF SafeInv, FeedInv
<1>2. f \in AnyFrame
  BY <1>1, FlightType
<1>3. /\ f.rev \in Nat /\ f.ver \in Nat /\ f.epoch \in Nat /\ f.char \in Characters \cup {None}
      /\ sync[c].message \in Nat /\ sync[c].snapshot \in Nat
      /\ fresh \in Nat
  BY <1>1, FrameTypes, ClientTypes DEF Shape
<1> DEFINE took == /\ f.kind = "history" /\ f.rev >= sync[c].snapshot
                   /\ sync'[c].snapshot = f.rev /\ sync'[c].message = sync[c].message
                   /\ raised'[c] = raised[c]
                   /\ f.char # None => view'[c][f.char] = f.ver /\ shown'[c][f.char] = f.epoch
           told == /\ f.kind = "message" /\ f.rev > sync[c].message
                   /\ sync'[c].snapshot = sync[c].snapshot /\ sync'[c].message = f.rev
                   /\ raised'[c] = <<f.char, f.epoch>>
                   /\ view'[c] = view[c] /\ shown'[c] = shown[c]
           dropped == /\ f.kind = "history" => f.rev < sync[c].snapshot
                      /\ sync'[c] = sync[c] /\ raised'[c] = raised[c]
                      /\ view'[c] = view[c] /\ shown'[c] = shown[c]
<1>4. /\ \A d \in Clients \ {c} : /\ sync'[d] = sync[d] /\ view'[d] = view[d]
                                  /\ raised'[d] = raised[d] /\ shown'[d] = shown[d]
      /\ \A x \in Characters : x # f.char => view'[c][x] = view[c][x] /\ shown'[c][x] = shown[c][x]
      /\ took \/ told \/ dropped
      /\ shown' \in [Clients -> [Characters -> Nat]]
      /\ raised' \in [Clients -> (Characters \cup {None}) \X Nat]
  BY <1>1, <1>2, ObserveCases
<1>5. /\ f.char # None => f.char \in Characters /\ FrameOK(f)
      /\ f.char = None => Nobody(f)
  BY <1>1, <1>3, NoneAssumption DEF Frames, Nobody
<1>6. Engines' /\ Frames'
  BY <1>1, StillFrames
<1>7. Bounds'
  BY <1>1, <1>4 DEF Bounds
<1>8. f.rev <= fresh /\ f.ver <= fresh
  BY <1>3, <1>5 DEF FrameOK, Nobody
<1>9. ASSUME NEW x \in Characters
      PROVE  /\ disk[x] \in Nat /\ engine[x].rev \in Nat /\ epoch[x] \in Nat
             /\ view[c][x] \in Nat /\ shown[c][x] \in Nat
  BY <1>1, EngineTypes, ClientTypes
<1>10. ASSUME NEW d \in Clients \ {c}
       PROVE  /\ sync'[d] = sync[d] /\ view'[d] = view[d] /\ base'[d] = base[d]
              /\ raised'[d] = raised[d] /\ conn'[d] = conn[d]
              /\ \A g \in Flight(d)' : g \in Flight(d) \/ Nobody(g)
  BY <1>4
<1>14. ASSUME NEW d \in Clients \ {c} PROVE ViewsOf(d)' /\ RaisedOf(d)'
  <2> HIDE DEF took, told, dropped
  <2> QED
    BY <1>10, StillRaised
<1>11. Views'
  <2>1. sync'[c].message <= fresh /\ sync'[c].snapshot <= fresh
    BY <1>1, <1>4, <1>8 DEF Views, ViewsOf
  <2>2. ASSUME NEW x \in Characters
        PROVE  /\ view'[c][x] <= fresh /\ base[c][x] <= fresh
               /\ view'[c][x] >= disk[x] => sync'[c].snapshot >= engine[x].rev
    <3>1. /\ view[c][x] <= fresh /\ base[c][x] <= fresh
          /\ view[c][x] >= disk[x] => sync[c].snapshot >= engine[x].rev
      BY <1>1 DEF Views, ViewsOf
    <3>2. CASE took /\ x = f.char
      <4>1. x # None /\ f.char # None /\ FrameOK(f)
        BY <1>5, <3>2, NoneAssumption
      <4>2. view'[c][x] = f.ver /\ sync'[c].snapshot = f.rev
        BY <3>2, <4>1
      <4>3. f.kind = "history" /\ f.char = x
        BY <3>2
      <4>4. f.ver >= disk[x] => f.rev >= engine[x].rev
        BY <4>1, <4>3 DEF FrameOK
      <4> HIDE DEF took
      <4> QED
        BY <1>8, <3>1, <4>2, <4>4
    <3>3. CASE took /\ x # f.char
      <4>1. view'[c][x] = view[c][x]
        BY <1>4, <3>3
      <4>2. sync'[c].snapshot = f.rev /\ f.rev >= sync[c].snapshot
        BY <3>3
      <4> HIDE DEF took
      <4> QED
        BY <1>3, <1>9, <3>1, <4>1, <4>2
    <3>4. CASE told \/ dropped
      BY <3>1, <3>4
    <3> QED
      BY <1>4, <3>2, <3>3, <3>4
  <2>3. ViewsOf(c)'
    BY <2>1, <2>2 DEF ViewsOf
  <2> QED
    BY <1>14, <2>3 DEF Views
<1>12. Raised'
  <2>1. /\ raised[c] = <<None, 0>> => sync[c].message = 0 /\ base[c] = Unknown
        /\ \A x \in Characters : raised[c][1] = x =>
             /\ raised[c][2] \in 1..epoch[x]
             /\ raised[c][2] = epoch[x] /\ engine[x].made => sync[c].message <= engine[x].rev
        /\ \A m \in Flight(c) : m.kind = "message" /\ m.epoch = epoch[m.char] =>
             /\ m.rev > sync[c].message => m.ver > base[c][m.char]
             /\ raised[c] = <<m.char, m.epoch>> /\ m.rev <= sync[c].message =>
                  m.ver <= base[c][m.char]
    BY <1>1 DEF Raised, RaisedOf
  <2>2. ASSUME told
        PROVE  /\ raised'[c] # <<None, 0>>
               /\ \A x \in Characters : raised'[c][1] = x =>
                    /\ raised'[c][2] \in 1..epoch[x]
                    /\ raised'[c][2] = epoch[x] /\ engine[x].made => sync'[c].message <= engine[x].rev
               /\ \A m \in Flight(c)' : m.kind = "message" /\ m.epoch = epoch[m.char] =>
                    /\ m.rev > sync'[c].message => m.ver > base[c][m.char]
                    /\ raised'[c] = <<m.char, m.epoch>> => ~(m.rev <= sync'[c].message)
    <3>1. f.char \in Characters /\ FrameOK(f)
      BY <1>5, <2>2 DEF Nobody
    <3>2. ASSUME NEW m \in Flight(c)', m.kind = "message", m.epoch = epoch[m.char]
          PROVE  /\ m.rev > sync'[c].message => m.ver > base[c][m.char]
                 /\ raised'[c] = <<m.char, m.epoch>> => ~(m.rev <= sync'[c].message)
      <4>1. m.rev \in Nat /\ m \in Flight(c)
        BY <1>1, FrameTypes
      <4>2. raised'[c] = <<m.char, m.epoch>> => f.rev < m.rev
        BY <2>2, <3>2 DEF Precede
      <4>3. m.rev > sync[c].message => m.ver > base[c][m.char]
        BY <2>1, <3>2, <4>1
      <4>4. sync'[c].message = f.rev /\ f.rev > sync[c].message
        BY <2>2
      <4> QED
        BY <1>3, <4>1, <4>2, <4>3, <4>4
    <3> QED
      BY <2>2, <3>1, <3>2, NoneAssumption DEF FrameOK
  <2>3. /\ raised'[c] = <<None, 0>> => sync'[c].message = 0 /\ base[c] = Unknown
        /\ \A x \in Characters : raised'[c][1] = x =>
             /\ raised'[c][2] \in 1..epoch[x]
             /\ raised'[c][2] = epoch[x] /\ engine[x].made => sync'[c].message <= engine[x].rev
        /\ \A m \in Flight(c)' : m.kind = "message" /\ m.epoch = epoch[m.char] =>
             /\ m.rev > sync'[c].message => m.ver > base[c][m.char]
             /\ raised'[c] = <<m.char, m.epoch>> /\ m.rev <= sync'[c].message =>
                  m.ver <= base[c][m.char]
    <3>1. CASE took \/ dropped
      <4>1. sync'[c].message = sync[c].message /\ raised'[c] = raised[c]
        BY <3>1
      <4> QED
        BY <2>1, <4>1
    <3>2. CASE told
      BY <2>2, <3>2
    <3> QED
      BY <1>4, <3>1, <3>2
  <2>4. RaisedOf(c)'
    BY <2>3 DEF RaisedOf, Unknown
  <2> QED
    BY <1>14, <2>4 DEF Raised
<1>13. Coming'
  <2> SUFFICES ASSUME NEW d \in Clients, NEW x \in Characters,
                      conn'[d] \in {"loaded", "on"}, Target(d)' = x
               PROVE  \/ d \in todo' \/ disk'[x] \in evicted'[d]
                      \/ \E g \in Flight(d)' : Saved(g, x)'
                      \/ conn'[d] = "on" /\ (view'[d][x] >= disk'[x] \/ Behind(d, x)')
    BY DEF Coming
  <2>1. Target(d) = x /\ engine'[x].rev = engine[x].rev /\ EpochOf(x)' = EpochOf(x)
    BY DEF Target, EpochOf
  <2>2. CASE d # c
    <3> HIDE DEF took, told, dropped
    <3>1. /\ sync'[d] = sync[d] /\ view'[d] = view[d] /\ shown'[d] = shown[d]
          /\ Flight(d)' = Flight(d)
      BY <1>4, <2>2
    <3>2. conn[d] \in {"loaded", "on"} /\ Target(d) = x /\ conn'[d] = conn[d]
      BY <2>1
    <3>3. disk' = disk /\ evicted'[d] = evicted[d] /\ todo' = todo
      OBVIOUS
    <3> QED
      BY <2>1, <3>1, <3>2, <3>3, StillComing
  <2>3. CASE d = c
    <3> DEFINE Late == \/ sync'[c].snapshot > engine[x].rev
                       \/ sync'[c].snapshot = engine[x].rev /\ shown'[c][x] \notin {0, EpochOf(x)}
    <3>1. \/ c \in todo \/ disk[x] \in evicted[c]
          \/ \E g \in Flight(c) : Saved(g, x)
          \/ view[c][x] >= disk[x] \/ Behind(c, x)
      BY <2>1, <2>3 DEF SafeInv, Coming
    (* The frame that says what is saved is taken or stale. *)
    <3>2. ASSUME NEW g \in Flight(c), Saved(g, x)
          PROVE  g \in Flight(c)' \/ view'[c][x] >= disk[x] \/ Late
      <4>1. CASE g # f
        BY <4>1
      <4>2. CASE g = f
        <5>1. f.kind = "history" /\ f.char = x /\ f.ver >= disk[x] /\ f.rev >= engine[x].rev
          BY <1>5, <3>2, <4>2, NoneAssumption DEF Saved, FrameOK
        <5>2. CASE took
          BY <5>1, <5>2, NoneAssumption
        <5>3. CASE dropped
          BY <1>3, <1>9, <5>1, <5>3
        <5> QED
          BY <1>4, <5>1, <5>2, <5>3
      <4> QED
        BY <4>1, <4>2
    (* Another frame of the character: as old as its engine allows. *)
    <3>3. ASSUME view[c][x] >= disk[x] \/ Behind(c, x)
          PROVE  view'[c][x] >= disk[x] \/ Late
      <4>1. sync[c].snapshot >= engine[x].rev
        BY <1>1, <1>3, <1>9, <3>3 DEF Views, ViewsOf, Behind
      <4>2. CASE told \/ dropped
        BY <3>3, <4>2 DEF Behind
      <4>3. CASE took /\ f.char # x
        <5>1. view'[c][x] = view[c][x] /\ shown'[c][x] = shown[c][x]
          BY <1>4, <4>3
        <5>2. sync'[c].snapshot = f.rev /\ f.rev >= sync[c].snapshot
          BY <4>3
        <5> QED
          BY <1>3, <1>9, <3>3, <4>1, <5>1, <5>2 DEF Behind
      <4>4. CASE took /\ f.char = x /\ ~(f.ver >= disk[x])
        <5>1. sync'[c].snapshot = f.rev /\ f.rev >= engine[x].rev /\ shown'[c][x] = f.epoch
          BY <1>3, <1>9, <4>1, <4>4, NoneAssumption
        <5>2. FrameOK(f)
          BY <1>5, <4>4, NoneAssumption
        <5>3. f.rev = engine[x].rev => f.epoch \notin {0, EpochOf(x)}
          <6>1. f.epoch \in 1..epoch[x]
            BY <4>4, <5>2 DEF FrameOK
          <6>2. CASE engine[x].made
            BY <1>3, <1>9, <4>4, <5>2, <6>1, <6>2 DEF FrameOK, EpochOf
          <6>3. CASE ~engine[x].made
            BY <1>3, <1>9, <6>1, <6>3 DEF EpochOf
          <6> QED
            BY <6>2, <6>3
        <5> QED
          BY <1>3, <1>9, <5>1, <5>3
      <4>5. CASE took /\ f.char = x /\ f.ver >= disk[x]
        BY <4>5, NoneAssumption
      <4> QED
        BY <1>4, <4>2, <4>3, <4>4, <4>5
    <3>4. Late => Behind(c, x)'
      BY <2>1 DEF Behind
    <3> HIDE DEF Late
    <3> QED
      BY <2>3, <3>1, <3>2, <3>3, <3>4 DEF Saved
  <2> QED
    BY <2>2, <2>3
<1> QED
  BY <1>6, <1>7, <1>11, <1>12, <1>13 DEF SafeInv

(* Reading a channel takes its first frame and leaves the rest in order.   *)
LEMMA TailParts ==
  ASSUME NEW S, NEW q \in Seq(S), q # <<>>
  PROVE  /\ Len(q) \in Nat /\ Len(Tail(q)) = Len(q) - 1 /\ Head(q) = q[1] /\ 1 \in 1..Len(q)
         /\ \A i \in 1..Len(Tail(q)) : Tail(q)[i] = q[i + 1] /\ i + 1 \in 1..Len(q)
         /\ ToSet(q) = ToSet(Tail(q)) \cup {Head(q)}
         /\ \A m \in ToSet(Tail(q)) : \E i \in 2..Len(q) : m = q[i]
<1>1. /\ Tail(q) \in Seq(S) /\ Len(q) \in Nat \ {0} /\ Len(Tail(q)) = Len(q) - 1
      /\ Head(q) = q[1] /\ 1 \in 1..Len(q)
      /\ \A i \in 1..Len(Tail(q)) : Tail(q)[i] = q[i + 1] /\ i + 1 \in 1..Len(q)
  OBVIOUS
<1>2. DOMAIN q = 1..Len(q) /\ DOMAIN Tail(q) = 1..Len(q) - 1
  BY <1>1
<1>3. ASSUME NEW i \in 1..Len(q) PROVE q[i] \in ToSet(Tail(q)) \cup {Head(q)}
  <2>1. CASE i = 1
    BY <1>1, <2>1
  <2>2. CASE i # 1
    <3> DEFINE j == i - 1
    <3>1. j \in 1..Len(q) - 1 /\ j + 1 = i
      BY <1>1, <2>2
    <3> HIDE DEF j
    <3>2. Tail(q)[j] = q[i] /\ j \in DOMAIN Tail(q)
      BY <1>1, <1>2, <3>1
    <3> QED
      BY <3>2 DEF ToSet
  <2> QED
    BY <2>1, <2>2
<1>4. ToSet(q) \subseteq ToSet(Tail(q)) \cup {Head(q)}
  BY <1>2, <1>3 DEF ToSet
<1>5. ASSUME NEW m \in ToSet(Tail(q)) PROVE \E i \in 2..Len(q) : m = q[i]
  <2>1. PICK j \in DOMAIN Tail(q) : m = Tail(q)[j]
    BY DEF ToSet
  <2>2. j + 1 \in 2..Len(q) /\ m = q[j + 1]
    BY <1>1, <1>2, <2>1
  <2> QED
    BY <2>2
<1> QED
  BY <1>1, <1>4, <1>5, ToSetSeq

(* The channels are read from their heads.                                 *)
LEMMA ForwardSafe ==
  ASSUME SafeInv, NEW c \in Clients, ForwardDirect(c) \/ ForwardEvent(c)
  PROVE  SafeInv'
<1>1. /\ FeedInv /\ Shape /\ Bounds /\ Engines /\ Kinds /\ InOrder
      /\ queue \in [Clients -> Seq(AnyFrame)] /\ direct \in [Clients -> Seq(AnyFrame)]
  BY DEF SafeInv, FeedInv, Shape
<1>2. FeedInv'
  BY <1>1, ForwardKeeps
<1>3. /\ conn[c] = "on"
      /\ UNCHANGED <<engine, disk, fresh, epoch, conn, selected, snapshot, todo, base, evicted, lagged>>
      /\ lags' = lags \/ lags' = [lags EXCEPT ![c] = 0]
  BY DEF ForwardDirect, ForwardEvent, engineVars, ringVars, connVars, handlerVars
<1>4. lags' \in [Clients -> 0..MaxLags]
  <2>1. lags \in [Clients -> 0..MaxLags] /\ 0 \in 0..MaxLags
    BY <1>1, SizesAssumption DEF Bounds
  <2>2. CASE lags' = lags
    BY <2>1, <2>2
  <2>3. CASE lags' = [lags EXCEPT ![c] = 0]
    BY <2>1, <2>3
  <2> QED
    BY <1>3, <2>2, <2>3
<1>5. CASE ForwardDirect(c)
  <2>0. PICK f : f = Head(direct[c])
    OBVIOUS
  <2>1. /\ direct[c] # <<>> /\ direct' = [direct EXCEPT ![c] = Tail(direct[c])]
        /\ Observe(c, f) /\ queue' = queue
    BY <1>5, <2>0 DEF ForwardDirect, ringVars
  <2>2. /\ direct[c] \in Seq(AnyFrame) /\ direct'[c] = Tail(direct[c])
        /\ Len(direct'[c]) <= Len(direct[c]) /\ Len(direct'[c]) \in Nat /\ Len(direct[c]) \in Nat
        /\ ToSet(direct[c]) = ToSet(direct'[c]) \cup {f}
        /\ \A d \in Clients \ {c} : direct'[d] = direct[d]
    BY <1>1, <2>0, <2>1, TailParts
  <2>3. /\ Flight(c)' \subseteq Flight(c) /\ Flight(c) \subseteq Flight(c)' \cup {f} /\ f \in Flight(c)
        /\ \A d \in Clients \ {c} : Flight(d)' = Flight(d)
    BY <1>3, <2>1, <2>2 DEF Flight
  <2>4. f.kind = "history"
    BY <1>1, <2>2 DEF Kinds
  <2>5. \A m \in Flight(c)' : Precede(f, m)
    BY <2>4 DEF Precede
  <2>6. Kinds' /\ InOrder'
    BY <1>1, <1>3, <2>1, <2>2 DEF Kinds, InOrder
  <2>7. \A d \in Clients : Len(queue'[d]) <= RingSize /\ Len(direct'[d]) <= DirectSize
    BY <1>1, <2>1, <2>2, SizesAssumption DEF Bounds
  <2> QED
    BY <1>2, <1>3, <1>4, <2>1, <2>3, <2>4, <2>5, <2>6, <2>7, ObserveSafe
<1>6. CASE ForwardEvent(c)
  <2>0. PICK f : f = Head(queue[c])
    OBVIOUS
  <2>1. /\ queue[c] # <<>> /\ queue' = [queue EXCEPT ![c] = Tail(queue[c])]
        /\ Observe(c, f) /\ direct' = direct
    BY <1>6, <2>0 DEF ForwardEvent, handlerVars
  <2>2. /\ queue[c] \in Seq(AnyFrame) /\ queue'[c] = Tail(queue[c])
        /\ Len(queue'[c]) <= Len(queue[c]) /\ Len(queue'[c]) \in Nat /\ Len(queue[c]) \in Nat
        /\ ToSet(queue[c]) = ToSet(queue'[c]) \cup {f} /\ f = queue[c][1]
        /\ \A m \in ToSet(queue'[c]) : \E i \in 2..Len(queue[c]) : m = queue[c][i]
        /\ \A i \in 1..Len(queue'[c]) : queue'[c][i] = queue[c][i + 1] /\ i + 1 \in 1..Len(queue[c])
        /\ 1 \in 1..Len(queue[c])
        /\ \A d \in Clients \ {c} : queue'[d] = queue[d]
    BY <1>1, <2>0, <2>1, TailParts
  <2>3. /\ Flight(c)' \subseteq Flight(c) /\ Flight(c) \subseteq Flight(c)' \cup {f} /\ f \in Flight(c)
        /\ \A d \in Clients \ {c} : Flight(d)' = Flight(d)
    BY <1>3, <2>1, <2>2 DEF Flight
  <2>4. f.kind \in {"history", "message"}
    BY <1>1, <2>2 DEF Kinds
  <2>5. ASSUME NEW m \in Flight(c)' PROVE Precede(f, m)
    <3>1. CASE m \in ToSet(queue'[c])
      <4>1. PICK i \in 2..Len(queue[c]) : m = queue[c][i]
        BY <2>2, <3>1
      <4>2. i \in 1..Len(queue[c]) /\ 1 < i
        BY <4>1
      <4>3. Precede(queue[c][1], queue[c][i])
        BY <1>1, <2>2, <4>2 DEF InOrder
      <4> QED
        BY <2>2, <4>1, <4>3
    <3>2. CASE m \notin ToSet(queue'[c])
      <4>1. m.kind # "message"
        BY <1>1, <1>3, <2>1, <3>2 DEF Flight, Kinds
      <4> QED
        BY <4>1 DEF Precede
    <3> QED
      BY <3>1, <3>2
  <2>6. Kinds'
    BY <1>1, <1>3, <2>1, <2>2 DEF Kinds
  <2>7. InOrder'
    <3> SUFFICES ASSUME NEW d \in Clients, NEW i \in 1..Len(queue'[d]), NEW j \in 1..Len(queue'[d]), i < j
                 PROVE  Precede(queue'[d][i], queue'[d][j])
      BY DEF InOrder
    <3>1. CASE d # c
      BY <1>1, <2>2, <3>1 DEF InOrder
    <3>2. CASE d = c
      <4> DEFINE a == i + 1
                 b == j + 1
      <4>0. i \in 1..Len(queue'[c]) /\ j \in 1..Len(queue'[c])
        BY <3>2
      <4>1. queue'[c][i] = queue[c][a] /\ a \in 1..Len(queue[c])
        BY <2>2, <4>0
      <4>2. queue'[c][j] = queue[c][b] /\ b \in 1..Len(queue[c])
        BY <2>2, <4>0
      <4>3. a < b
        BY <2>2, <4>0
      <4> HIDE DEF a, b
      <4> QED
        BY <1>1, <3>2, <4>1, <4>2, <4>3 DEF InOrder
    <3> QED
      BY <3>1, <3>2
  <2>8. \A d \in Clients : Len(queue'[d]) <= RingSize /\ Len(direct'[d]) <= DirectSize
    BY <1>1, <2>1, <2>2, SizesAssumption DEF Bounds
  <2> QED
    BY <1>2, <1>3, <1>4, <2>1, <2>3, <2>4, <2>5, <2>6, <2>7, <2>8, ObserveSafe
<1> QED
  BY <1>5, <1>6

(* Handshakes, switches and reloads take snapshots.                        *)
LEMMA SnapshotSafe ==
  ASSUME SafeInv, NEW c \in Clients,
         LoadSnapshot(c) \/ PushReloaded(c) \/ \E ch \in Characters : Switch(c, ch)
  PROVE  SafeInv'
<1>1. FeedInv /\ Shape /\ FeedInv' /\ todo \subseteq {d \in Clients : conn[d] = "on"}
  BY SnapshotKeeps DEF SafeInv, FeedInv, Bounds
<1>2. /\ selected[c] \in Characters \cup {None} /\ available \subseteq Characters
      /\ conn \in [Clients -> {"off", "subscribed", "loaded", "on"}]
      /\ selected \in [Clients -> Characters \cup {None}]
  BY <1>1 DEF Shape
<1>3. CASE LoadSnapshot(c)
  <2>1. PICK ch \in Characters \cup {None} : TakeSnapshot(c, ch)
    BY <1>3 DEF LoadSnapshot
  <2>2. /\ conn[c] = "subscribed" /\ conn' = [conn EXCEPT ![c] = "loaded"]
        /\ UNCHANGED <<disk, fresh, sync, view, base, raised, shown, queue, lagged, evicted, lags,
                       direct, todo, selected>>
    BY <1>3 DEF LoadSnapshot, clientVars, ringVars
  <2>3. conn'[c] = "loaded" /\ \A d \in Clients \ {c} : conn'[d] = conn[d]
    BY <1>2, <2>2
  <2> QED
    BY <1>1, <2>1, <2>2, <2>3, TakeSafe
<1>4. CASE PushReloaded(c)
  <2>1. /\ c \in todo /\ todo' = todo \ {c} /\ TakeSnapshot(c, selected[c])
        /\ selected' = [selected EXCEPT ![c] = IF selected[c] \in available THEN selected[c] ELSE None]
        /\ UNCHANGED <<disk, fresh, sync, view, base, raised, shown, queue, lagged, evicted, lags,
                       direct, conn>>
    BY <1>4 DEF PushReloaded, clientVars, ringVars
  <2>2. /\ selected'[c] = IF selected[c] \in available THEN selected[c] ELSE None
        /\ \A d \in Clients \ {c} : selected'[d] = selected[d]
    BY <1>2, <2>1
  <2> QED
    BY <1>1, <1>2, <2>1, <2>2, TakeSafe
<1>5. ASSUME NEW ch \in Characters, Switch(c, ch) PROVE SafeInv'
  <2>1. /\ ch \in available /\ TakeSnapshot(c, ch) /\ selected' = [selected EXCEPT ![c] = ch]
        /\ UNCHANGED <<disk, fresh, sync, view, base, raised, shown, queue, lagged, evicted, lags,
                       direct, conn, todo>>
    BY <1>5 DEF Switch, clientVars, ringVars
  <2>2. selected'[c] = ch /\ \A d \in Clients \ {c} : selected'[d] = selected[d]
    BY <1>2, <2>1
  <2> QED
    BY <1>1, <2>1, <2>2, TakeSafe
<1> QED
  BY <1>3, <1>4, <1>5

-----------------------------------------------------------------------------
(* The theorems                                                            *)

(* Every step keeps the invariant.                                         *)
LEMMA SafeStep == SafeInv /\ [Next]_vars => SafeInv'
<1> SUFFICES ASSUME SafeInv, [Next]_vars PROVE SafeInv'
  OBVIOUS
<1>1. ASSUME NEW ch \in Characters, Change(ch) \/ ChangeFails(ch) PROVE SafeInv'
  BY <1>1, ChangeSafe, ChangeFailsSafe
<1>2. ASSUME NEW c \in Clients, Subscribe(c) PROVE SafeInv'
  BY <1>2, QuietSafe
<1>3. ASSUME NEW c \in Clients, Lagged(c) PROVE SafeInv'
  <2>1. CASE CloseAll({c}) /\ UNCHANGED engineVars
    BY <2>1, CloseSafe
  <2>2. CASE UNCHANGED <<clientVars, queue, evicted, conn, selected, handlerVars>>
    BY <1>3, <2>2, QuietSafe
  <2> QED
    BY <1>3, <2>1, <2>2 DEF Lagged
<1>4. ASSUME NEW c \in Clients, Disconnect(c) PROVE SafeInv'
  BY <1>4, CloseSafe DEF Disconnect
<1>5. ASSUME NEW c \in Clients, Push(c) \/ Register(c) PROVE SafeInv'
  BY <1>5, PushSafe, RegisterSafe
<1>6. ASSUME NEW c \in Clients, ForwardDirect(c) \/ ForwardEvent(c) PROVE SafeInv'
  BY <1>6, ForwardSafe
<1>7. ASSUME NEW c \in Clients,
             LoadSnapshot(c) \/ PushReloaded(c) \/ \E ch \in Characters : Switch(c, ch)
      PROVE SafeInv'
  BY <1>7, SnapshotSafe
<1>8. ASSUME NEW A \in SUBSET Characters, Reload(A) PROVE SafeInv'
  BY <1>8, ReloadSafe
<1>9. CASE Restart
  BY <1>9, RestartSafe
<1>10. CASE UNCHANGED vars
  <2>1. /\ UNCHANGED <<available, engine, disk, fresh, newest, unsaved, epoch, sync, view, base,
                       raised, shown, queue, lagged, evicted, lags, conn, selected, snapshot, todo, direct>>
    BY <1>10 DEF vars, engineVars, clientVars, ringVars, connVars, handlerVars
  <2>2. FeedInv'
    BY StepKeeps DEF SafeInv
  <2>3. \A d \in Clients : Flight(d)' = Flight(d)
    BY <2>1 DEF Flight
  <2>4. Bounds' /\ Kinds' /\ InOrder' /\ Views'
    BY <2>1 DEF SafeInv, Bounds, Kinds, InOrder, Views, ViewsOf
  <2>5. Engines' /\ Frames'
    BY <2>1, <2>3, StillFrames DEF SafeInv
  <2>6. Raised'
    BY <2>1, <2>3 DEF SafeInv, Raised, RaisedOf, Unknown
  <2>7. Coming'
    BY <2>1, <2>3 DEF SafeInv, Coming, Target, Behind, Saved, EpochOf
  <2> QED
    BY <2>2, <2>4, <2>5, <2>6, <2>7 DEF SafeInv
<1> QED
  BY <1>1, <1>2, <1>3, <1>4, <1>5, <1>6, <1>7, <1>8, <1>9, <1>10 DEF Next

(* Nothing is counted beyond the changes, no frame is of an unknown kind,  *)
(* and no channel holds more than its capacity.                            *)
THEOREM SyncTypeCorrect == Spec => []TypeOK
<1>1. ASSUME SafeInv PROVE TypeOK
  <2>1. /\ Shape /\ Known /\ Bounds /\ Engines /\ Frames /\ Views
        /\ fresh \in Nat /\ fresh <= MaxChanges /\ MaxChanges \in Nat
    BY <1>1, SizesAssumption DEF SafeInv, FeedInv, Shape, Bounds
  <2>2. \A n \in Nat : n <= fresh => n \in 0..MaxChanges
    BY <2>1
  <2>3. engine \in [Characters -> [made : BOOLEAN, rev : 0..MaxChanges, ver : 0..MaxChanges]]
    <3> SUFFICES ASSUME NEW ch \in Characters
                 PROVE  engine[ch] \in [made : BOOLEAN, rev : 0..MaxChanges, ver : 0..MaxChanges]
      BY <2>1 DEF Shape
    <3>1. engine[ch].ver <= newest[ch] /\ newest[ch] <= fresh /\ engine[ch].rev <= fresh
      BY <2>1 DEF Known, Engines
    <3>2. engine[ch].rev \in 0..MaxChanges /\ engine[ch].ver \in 0..MaxChanges
      BY <2>1, <2>2, <3>1, EngineTypes
    <3>3. engine[ch] \in [made : BOOLEAN, rev : Nat, ver : Nat]
      BY <2>1 DEF Shape
    <3> QED
      BY <3>2, <3>3
  <2>4. disk \in [Characters -> 0..MaxChanges]
    <3> SUFFICES ASSUME NEW ch \in Characters PROVE disk[ch] \in 0..MaxChanges
      BY <2>1 DEF Shape
    <3>1. disk[ch] <= newest[ch] /\ newest[ch] <= fresh
      BY <2>1 DEF Known
    <3> QED
      BY <2>1, <2>2, <3>1, EngineTypes
  <2>5. ASSUME NEW c \in Clients PROVE Flight(c) \subseteq Frame
    <3> SUFFICES ASSUME NEW f \in Flight(c) PROVE f \in Frame
      OBVIOUS
    <3>1. f \in AnyFrame
      BY <2>1, FlightType
    <3>2. f.rev <= fresh /\ f.ver <= fresh
      BY <2>1 DEF Frames, Nobody, FrameOK
    <3>3. f.rev \in 0..MaxChanges /\ f.ver \in 0..MaxChanges
      BY <2>1, <2>2, <3>1, <3>2 DEF AnyFrame
    <3> QED
      BY <3>1, <3>3 DEF AnyFrame, Frame
  <2>6. snapshot \in [Clients -> Frame]
    BY <2>1, <2>5 DEF Shape, Flight
  <2>7. \A c \in Clients :
          /\ Len(queue[c]) <= RingSize /\ Len(direct[c]) <= DirectSize
          /\ ToSet(queue[c]) \cup ToSet(direct[c]) \subseteq Frame
    BY <2>1, <2>5 DEF Bounds, Flight
  <2>8. sync \in [Clients -> [message : 0..MaxChanges, snapshot : 0..MaxChanges]]
    <3> SUFFICES ASSUME NEW c \in Clients
                 PROVE  sync[c] \in [message : 0..MaxChanges, snapshot : 0..MaxChanges]
      BY <2>1 DEF Shape
    <3>1. sync[c] \in [message : Nat, snapshot : Nat]
      BY <2>1 DEF Shape
    <3>2. sync[c].message <= fresh /\ sync[c].snapshot <= fresh
      BY <2>1 DEF Views, ViewsOf
    <3> QED
      BY <2>1, <2>2, <3>1, <3>2
  <2>9. /\ view \in [Clients -> [Characters -> 0..MaxChanges]]
        /\ base \in [Clients -> [Characters -> 0..MaxChanges]]
    <3>1. ASSUME NEW c \in Clients, NEW ch \in Characters
          PROVE  view[c][ch] \in 0..MaxChanges /\ base[c][ch] \in 0..MaxChanges
      BY <2>1, <2>2, ClientTypes DEF Views, ViewsOf
    <3>2. /\ view \in [Clients -> [Characters -> Nat]]
          /\ base \in [Clients -> [Characters -> Nat]]
      BY <2>1 DEF Shape, Bounds
    <3> QED
      BY <3>1, <3>2
  <2>10. evicted \in [Clients -> SUBSET (0..MaxChanges)]
    <3>1. 0..fresh \subseteq 0..MaxChanges
      BY <2>1
    <3> QED
      BY <2>1, <3>1 DEF Bounds
  <2>11. /\ available \in SUBSET Characters /\ todo \in SUBSET Clients
         /\ conn \in [Clients -> {"off", "subscribed", "loaded", "on"}]
         /\ selected \in [Clients -> Characters \cup {None}]
         /\ lagged \in [Clients -> BOOLEAN] /\ lags \in [Clients -> 0..MaxLags]
    BY <2>1 DEF Shape, Bounds
  <2> QED
    BY <2>3, <2>4, <2>6, <2>7, <2>8, <2>9, <2>10, <2>11 DEF TypeOK
<1> QED
  BY <1>1, SafeInvInit, SafeStep, PTL DEF Spec

(* A client with nothing on its way to it shows what is saved of the       *)
(* character it follows, whatever interleaved with its subscription, its   *)
(* handshake, its switches, reloads and restarts, and however often it     *)
(* lagged; what the property excepts is what one watermark for all         *)
(* characters and a bounded ring cannot give.                              *)
THEOREM ClientsShowWhatIsSaved == Spec => []ShowsWhatIsSaved
<1>1. ASSUME SafeInv PROVE ShowsWhatIsSaved
  <2> SUFFICES ASSUME NEW c \in Clients, conn[c] = "on", selected[c] \in available,
                      engine[selected[c]].made, queue[c] = <<>>, direct[c] = <<>>,
                      ~Pending(c), c \notin todo,
                      disk[selected[c]] \notin evicted[c],
                      sync[c].snapshot <= engine[selected[c]].rev,
                      shown[c][selected[c]] \in {0, epoch[selected[c]]}
               PROVE  view[c][selected[c]] >= disk[selected[c]]
    BY DEF ShowsWhatIsSaved
  <2> DEFINE ch == selected[c]
  <2>1. Shape /\ Bounds /\ Kinds /\ Coming /\ ch \in Characters
    BY <1>1 DEF SafeInv, FeedInv, Shape
  <2>2. snapshot[c].char = None
    BY <2>1 DEF Kinds, Pending
  <2>3. \A f \in Flight(c) : ~Saved(f, ch)
    BY <2>1, <2>2, NoneAssumption DEF Flight, ToSet, Saved
  <2>4. ~ Behind(c, ch)
    <3>1. EpochOf(ch) = epoch[ch]
      BY DEF EpochOf
    <3>2. sync[c].snapshot \in Nat /\ engine[ch].rev \in Nat
      BY <2>1, ClientTypes, EngineTypes
    <3> QED
      BY <3>1, <3>2 DEF Behind
  <2> QED
    BY <2>1, <2>3, <2>4 DEF Coming, Target
<1> QED
  BY <1>1, SafeInvInit, SafeStep, PTL DEF Spec

(* The messages of the engine whose revisions the message watermark counts *)
(* are announced if and only if the handshake had not shown them.          *)
THEOREM NoMessageShadowed == Spec => MessagesNotShadowed
<1>1. ASSUME SafeInv, NEW c \in Clients, ForwardEvent(c),
             Head(queue[c]).kind = "message",
             Head(queue[c]).epoch = epoch[Head(queue[c]).char],
             raised[c] \in {<<Head(queue[c]).char, Head(queue[c]).epoch>>, <<None, 0>>}
      PROVE  sync'[c].message # sync[c].message <=> Head(queue[c]).ver > base[c][Head(queue[c]).char]
  <2>0. PICK m : m = Head(queue[c])
    OBVIOUS
  <2>1. Shape /\ Bounds /\ Kinds /\ Frames /\ Raised
    BY <1>1 DEF SafeInv, FeedInv
  <2>2. conn[c] = "on" /\ queue[c] # <<>> /\ Observe(c, m)
    BY <1>1, <2>0 DEF ForwardEvent
  <2>3. m \in ToSet(queue[c]) /\ m \in Flight(c) /\ m.char \in Characters
    <3>1. queue[c] \in Seq(AnyFrame)
      BY <2>1 DEF Shape
    <3> QED
      BY <2>0, <2>1, <2>2, <3>1, ToSetSeq DEF Flight, Kinds
  <2>4. m.kind = "message" /\ m.epoch = epoch[m.char]
        /\ raised[c] \in {<<m.char, m.epoch>>, <<None, 0>>}
    BY <1>1, <2>0
  <2>5. /\ m.rev \in Nat /\ m.ver \in Nat /\ sync[c].message \in Nat /\ sync[c].snapshot \in Nat
        /\ base[c][m.char] \in Nat /\ sync \in [Clients -> [message : Nat, snapshot : Nat]]
    BY <2>1, <2>3, FrameTypes, ClientTypes DEF Shape
  <2>6. m.rev > 0 /\ m.ver > 0
    BY <2>1, <2>3, <2>4, NoneAssumption DEF Frames, Nobody, FrameOK
  <2>7. m.rev > sync[c].message <=> m.ver > base[c][m.char]
    <3>1. m.rev > sync[c].message => m.ver > base[c][m.char]
      BY <2>1, <2>2, <2>3, <2>4 DEF Raised, RaisedOf
    <3>2. CASE raised[c] = <<m.char, m.epoch>>
      BY <2>1, <2>2, <2>3, <2>4, <2>5, <3>1, <3>2 DEF Raised, RaisedOf
    <3>3. CASE raised[c] = <<None, 0>>
      <4>1. sync[c].message = 0
        BY <2>1, <2>2, <3>3 DEF Raised, RaisedOf
      <4> QED
        BY <2>5, <2>6, <3>1, <4>1
    <3> QED
      BY <2>4, <3>2, <3>3
  <2>8. sync'[c].message # sync[c].message <=> m.rev > sync[c].message
    <3>1. CASE m.rev <= sync[c].message
      BY <2>2, <2>4, <2>5, <3>1 DEF Observe
    <3>2. CASE m.rev > sync[c].message
      <4>1. sync' = [sync EXCEPT ![c].message = m.rev]
        BY <2>2, <2>4, <2>5, <3>2 DEF Observe
      <4>2. sync'[c].message = m.rev
        BY <2>5, <4>1
      <4> QED
        BY <2>5, <3>2, <4>2
    <3> QED
      BY <2>5, <3>1, <3>2
  <2> QED
    BY <2>0, <2>7, <2>8
<1>2. SafeInv /\ [Next]_vars =>
        [\A c \in Clients :
           LET m == Head(queue[c])
           IN (/\ ForwardEvent(c) /\ m.kind = "message" /\ m.epoch = epoch[m.char]
               /\ raised[c] \in {<<m.char, m.epoch>>, <<None, 0>>})
              => (sync'[c].message # sync[c].message <=> m.ver > base[c][m.char])]_vars
  BY <1>1
<1> QED
  BY <1>2, SafeInvInit, SafeStep, PTL DEF Spec, MessagesNotShadowed
=============================================================================
