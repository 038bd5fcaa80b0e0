-------------------------------- MODULE Sync --------------------------------
(***************************************************************************)
(* How clients follow the conversations.  Every engine counts revisions    *)
(* and broadcasts a History after each change, and a NewMessage for the    *)
(* message worth announcing, on one channel for all characters.  The       *)
(* server forwards that channel to each client, with what the handler      *)
(* sends to that client alone: the History of a switched-to character and  *)
(* those after a reload of the configuration.  The client drops what its   *)
(* SyncState calls stale.  Restarts, removed characters, slow readers and  *)
(* saves that fail are part of it; the TCP stream between a server loop    *)
(* and its client keeps order and is left out.                             *)
(***************************************************************************)
EXTENDS Naturals, Sequences, FiniteSets, SequencesExt

CONSTANTS
  Clients, Characters,
  None,            \* no character
  RingSize,        \* capacity of the broadcast channel
  DirectSize,      \* capacity of a client's direct channel
  MaxLags,         \* MAX_CONSECUTIVE_LAGS
  MaxChanges,      \* bound: changes of transcripts
  MaxFaults        \* bound: changes not saved and engines dropped by a reload

ASSUME NoneAssumption == None \notin Characters
ASSUME SizesAssumption ==
  /\ RingSize \in Nat \ {0} /\ DirectSize \in Nat \ {0}
  /\ MaxLags \in Nat /\ MaxChanges \in Nat /\ MaxFaults \in Nat

VARIABLES
  available,   \* CharacterRegistry.available
  engine,      \* the registry's engines; revision, transcript and saved one
  disk,        \* the transcript each character's files hold
  conn,        \* each connection's stage
  selected,    \* ClientInfo.character
  snapshot,    \* what perform_handshake or the handler is about to send
  queue,       \* broadcast events a client's receiver has not seen
  lagged,      \* the receiver will report Lagged next
  lags,        \* consecutive_lags
  direct,      \* the client's direct channel
  sync,        \* the client's SyncState
  todo,        \* sessions a reload still has to push a History to
  view,        \* newest transcript of each character delivered to the client
  base,        \* history: what the handshake showed of each character
  raised,      \* history: whose message set the message watermark
  shown,       \* history: the engine of each character whose History it took last
  evicted,     \* history: the changes whose History was lost to lag
  fresh,       \* number of changes made
  newest,      \* history: the last change made to each character
  unsaved,     \* history: characters with a change not saved, in this run
  epoch,       \* history: engines made for each character in this run
  faults

engineVars == <<available, engine, disk, fresh, newest, unsaved, epoch, faults>>
clientVars == <<sync, view, base, raised, shown>>
ringVars == <<queue, lagged, evicted>>
connVars == <<conn, selected>>
handlerVars == <<snapshot, todo, direct>>
vars == <<engineVars, clientVars, ringVars, lags, connVars, handlerVars>>

NoEngine == [made |-> FALSE, rev |-> 0, ver |-> 0]
NoSnapshot == [kind |-> "none", char |-> None, rev |-> 0, ver |-> 0, epoch |-> 0]
Frame ==
  [kind : {"none", "history", "message"}, char : Characters \cup {None},
   rev : 0..MaxChanges, ver : 0..MaxChanges, epoch : Nat]

(* Types, and the channels within their capacities.                        *)
TypeOK ==
  /\ available \in SUBSET Characters
  /\ engine \in [Characters -> [made : BOOLEAN, rev : 0..MaxChanges, ver : 0..MaxChanges]]
  /\ disk \in [Characters -> 0..MaxChanges]
  /\ conn \in [Clients -> {"off", "subscribed", "loaded", "on"}]
  /\ selected \in [Clients -> Characters \cup {None}]
  /\ snapshot \in [Clients -> Frame]
  /\ \A c \in Clients :
       /\ Len(queue[c]) <= RingSize /\ Len(direct[c]) <= DirectSize
       /\ ToSet(queue[c]) \cup ToSet(direct[c]) \subseteq Frame
  /\ lagged \in [Clients -> BOOLEAN] /\ lags \in [Clients -> 0..MaxLags]
  /\ sync \in [Clients -> [message : 0..MaxChanges, snapshot : 0..MaxChanges]]
  /\ todo \in SUBSET Clients
  /\ view \in [Clients -> [Characters -> 0..MaxChanges]]
  /\ base \in [Clients -> [Characters -> 0..MaxChanges]]
  /\ evicted \in [Clients -> SUBSET (0..MaxChanges)]

Unknown == [ch \in Characters |-> 0]
NewSync(rev) == [message |-> rev, snapshot |-> rev]

Init ==
  /\ available = Characters
  /\ engine = [ch \in Characters |-> NoEngine] /\ disk = Unknown
  /\ conn = [c \in Clients |-> "off"] /\ selected = [c \in Clients |-> None]
  /\ snapshot = [c \in Clients |-> NoSnapshot]
  /\ queue = [c \in Clients |-> <<>>] /\ lagged = [c \in Clients |-> FALSE]
  /\ lags = [c \in Clients |-> 0] /\ direct = [c \in Clients |-> <<>>]
  /\ sync = [c \in Clients |-> NewSync(0)] /\ todo = {}
  /\ view = [c \in Clients |-> Unknown] /\ base = [c \in Clients |-> Unknown]
  /\ raised = [c \in Clients |-> <<None, 0>>]
  /\ shown = [c \in Clients |-> Unknown]
  /\ evicted = [c \in Clients |-> {}]
  /\ fresh = 0 /\ newest = Unknown /\ unsaved = {} /\ epoch = Unknown
  /\ faults = 0

-----------------------------------------------------------------------------
(* Engines                                                                 *)

(* get_or_create: the engine there is, or a new one over what was saved.   *)
EngineOf(ch) ==
  IF engine[ch].made THEN engine[ch] ELSE [made |-> TRUE, rev |-> 0, ver |-> disk[ch]]

EpochOf(ch) == IF engine[ch].made THEN epoch[ch] ELSE epoch[ch] + 1

Subscribers == {c \in Clients : conn[c] # "off"}

HistoryOf(ch) == [kind |-> "history", char |-> ch, rev |-> EngineOf(ch).rev,
                  ver |-> EngineOf(ch).ver, epoch |-> EpochOf(ch)]

(* Mutant of Kept: the ring grows.                                         *)
KeptAll(q) == q

(* What a receiver can still read: the newest RingSize events.             *)
Kept(q) == IF Len(q) > RingSize THEN SubSeq(q, Len(q) - RingSize + 1, Len(q)) ELSE q
Lost(q) == SubSeq(q, 1, Len(q) - Len(Kept(q)))

(* broadcast::Sender::send never waits for a receiver.                     *)
Broadcast(events) ==
  /\ queue' = [c \in Clients |->
       IF c \in Subscribers THEN Kept(queue[c] \o events) ELSE queue[c]]
  /\ lagged' = [c \in Clients |->
       lagged[c] \/ (c \in Subscribers /\ Lost(queue[c] \o events) # <<>>)]
  /\ evicted' = [c \in Clients |-> evicted[c] \cup
       {e.ver : e \in {x \in ToSet(Lost(queue[c] \o events)) :
          c \in Subscribers /\ x.kind = "history"}}]

(* An append, edit, deletion, regeneration or reload: saved, counted,      *)
(* broadcast.  A reply and a user's message are announced as well.         *)
Change(ch) ==
  \E announced \in BOOLEAN :
    LET e == EngineOf(ch)
        h == [kind |-> "history", char |-> ch, rev |-> e.rev + 1,
              ver |-> fresh + 1, epoch |-> EpochOf(ch)]
    IN /\ ch \in available /\ fresh < MaxChanges
       /\ fresh' = fresh + 1 /\ newest' = [newest EXCEPT ![ch] = fresh + 1]
       /\ engine' = [engine EXCEPT ![ch] = [made |-> TRUE, rev |-> h.rev, ver |-> h.ver]]
       /\ epoch' = [epoch EXCEPT ![ch] = EpochOf(ch)]
       /\ disk' = [disk EXCEPT ![ch] = h.ver]
       /\ Broadcast(IF announced THEN <<h, [h EXCEPT !.kind = "message"]>> ELSE <<h>>)
       /\ UNCHANGED <<available, unsaved, faults, clientVars, lags, connVars,
                      handlerVars>>

(* The save fails: memory has changed, the revision has not.               *)
ChangeFails(ch) ==
  /\ ch \in available /\ fresh < MaxChanges /\ faults < MaxFaults
  /\ fresh' = fresh + 1 /\ newest' = [newest EXCEPT ![ch] = fresh + 1]
  /\ faults' = faults + 1 /\ unsaved' = unsaved \cup {ch}
  /\ engine' = [engine EXCEPT ![ch] = [EngineOf(ch) EXCEPT !.ver = fresh + 1]]
  /\ epoch' = [epoch EXCEPT ![ch] = EpochOf(ch)]
  /\ UNCHANGED <<available, disk, clientVars, ringVars, lags, connVars,
                 handlerVars>>

-----------------------------------------------------------------------------
(* Connections                                                             *)

(* spawn_client subscribes before the handshake starts.                    *)
Subscribe(c) ==
  /\ conn[c] = "off"
  /\ conn' = [conn EXCEPT ![c] = "subscribed"]
  /\ UNCHANGED <<engineVars, clientVars, ringVars, lags, selected, handlerVars>>

(* A snapshot is taken under the registry lock and the engine's; reading   *)
(* it makes an engine where there is none.                                 *)
TakeSnapshot(c, ch) ==
  IF ch \in available
  THEN /\ snapshot' = [snapshot EXCEPT ![c] = HistoryOf(ch)]
       /\ engine' = [engine EXCEPT ![ch] = EngineOf(ch)]
       /\ epoch' = [epoch EXCEPT ![ch] = EpochOf(ch)]
  ELSE /\ snapshot' = [snapshot EXCEPT ![c] = [NoSnapshot EXCEPT !.kind = "history"]]
       /\ UNCHANGED <<engine, epoch>>

(* The hello names a character, or the server picks the only one there is. *)
LoadSnapshot(c) ==
  /\ conn[c] = "subscribed"
  /\ conn' = [conn EXCEPT ![c] = "loaded"]
  /\ \E ch \in Characters \cup {None} :
       /\ ch = None => Cardinality(available) # 1
       /\ TakeSnapshot(c, ch)
  /\ UNCHANGED <<available, disk, fresh, newest, unsaved, faults, clientVars,
                 ringVars, lags, selected, todo, direct>>

Show(f) == [Unknown EXCEPT ![f.char] = f.ver]
Shown(f) == IF f.char = None THEN Unknown ELSE [Unknown EXCEPT ![f.char] = f.epoch]

(* Mutant of Register: it subscribes only when the handshake is over.      *)
SubscribedLate(c) ==
  LET f == snapshot[c]
  IN /\ conn[c] = "loaded"
     /\ conn' = [conn EXCEPT ![c] = "on"]
     /\ selected' = [selected EXCEPT ![c] = f.char]
     /\ snapshot' = [snapshot EXCEPT ![c] = NoSnapshot]
     /\ sync' = [sync EXCEPT ![c] = NewSync(f.rev)]
     /\ view' = [view EXCEPT ![c] = IF f.char = None THEN Unknown ELSE Show(f)]
     /\ base' = [base EXCEPT ![c] = view'[c]]
     /\ raised' = [raised EXCEPT ![c] = <<f.char, f.epoch>>]
     /\ shown' = [shown EXCEPT ![c] = Shown(f)]
     /\ queue' = [queue EXCEPT ![c] = <<>>]
     /\ UNCHANGED <<engineVars, lagged, evicted, lags, todo, direct>>

(* The session is registered and the handshake History read by the client, *)
(* whose SyncState starts from it.                                         *)
Register(c) ==
  LET f == snapshot[c]
  IN /\ conn[c] = "loaded"
     /\ conn' = [conn EXCEPT ![c] = "on"]
     /\ selected' = [selected EXCEPT ![c] = f.char]
     /\ snapshot' = [snapshot EXCEPT ![c] = NoSnapshot]
     /\ sync' = [sync EXCEPT ![c] = NewSync(f.rev)]
     /\ view' = [view EXCEPT ![c] = IF f.char = None THEN Unknown ELSE Show(f)]
     /\ base' = [base EXCEPT ![c] = view'[c]]
     /\ raised' = [raised EXCEPT ![c] = <<f.char, f.epoch>>]
     /\ shown' = [shown EXCEPT ![c] = Shown(f)]
     /\ UNCHANGED <<engineVars, ringVars, lags, todo, direct>>

(* The connections of C end, whoever ends them; the next one of each is    *)
(* new to the server, and the client starts again.                         *)
CloseAll(C) ==
  /\ conn' = [c \in Clients |-> IF c \in C THEN "off" ELSE conn[c]]
  /\ selected' = [c \in Clients |-> IF c \in C THEN None ELSE selected[c]]
  /\ snapshot' = [c \in Clients |-> IF c \in C THEN NoSnapshot ELSE snapshot[c]]
  /\ queue' = [c \in Clients |-> IF c \in C THEN <<>> ELSE queue[c]]
  /\ lagged' = [c \in Clients |-> c \notin C /\ lagged[c]]
  /\ lags' = [c \in Clients |-> IF c \in C THEN 0 ELSE lags[c]]
  /\ direct' = [c \in Clients |-> IF c \in C THEN <<>> ELSE direct[c]]
  /\ evicted' = [c \in Clients |-> IF c \in C THEN {} ELSE evicted[c]]
  /\ sync' = [c \in Clients |-> IF c \in C THEN NewSync(0) ELSE sync[c]]
  /\ view' = [c \in Clients |-> IF c \in C THEN Unknown ELSE view[c]]
  /\ base' = [c \in Clients |-> IF c \in C THEN Unknown ELSE base[c]]
  /\ raised' = [c \in Clients |-> IF c \in C THEN <<None, 0>> ELSE raised[c]]
  /\ shown' = [c \in Clients |-> IF c \in C THEN Unknown ELSE shown[c]]
  /\ todo' = todo \ C

Disconnect(c) ==
  /\ conn[c] # "off"
  /\ CloseAll({c})
  /\ UNCHANGED engineVars

-----------------------------------------------------------------------------
(* What a client receives                                                  *)

(* What a History that is taken says of its character.                     *)
Take(c, f) ==
  IF f.char = None
  THEN UNCHANGED <<view, shown>>
  ELSE /\ view' = [view EXCEPT ![c][f.char] = f.ver]
       /\ shown' = [shown EXCEPT ![c][f.char] = f.epoch]

(* Mutant of Observe: a History raises both watermarks.                    *)
ObserveBoth(c, f) ==
  IF f.kind = "history"
  THEN /\ IF f.rev < sync[c].snapshot
          THEN UNCHANGED <<sync, view, raised, shown>>
          ELSE /\ sync' = [sync EXCEPT ![c] = [snapshot |-> f.rev,
                             message |-> IF f.rev > @.message THEN f.rev ELSE @.message]]
               /\ Take(c, f)
               /\ raised' = [raised EXCEPT ![c] = <<f.char, f.epoch>>]
  ELSE /\ IF f.rev <= sync[c].message
          THEN UNCHANGED <<sync, raised>>
          ELSE /\ sync' = [sync EXCEPT ![c].message = f.rev]
               /\ raised' = [raised EXCEPT ![c] = <<f.char, f.epoch>>]
       /\ UNCHANGED <<view, shown>>

(* Mutant of Observe: every History is shown.                              *)
ObserveAll(c, f) ==
  IF f.kind = "history"
  THEN /\ sync' = [sync EXCEPT ![c].snapshot = f.rev]
       /\ Take(c, f)
       /\ UNCHANGED raised
  ELSE /\ IF f.rev <= sync[c].message
          THEN UNCHANGED <<sync, raised>>
          ELSE /\ sync' = [sync EXCEPT ![c].message = f.rev]
               /\ raised' = [raised EXCEPT ![c] = <<f.char, f.epoch>>]
       /\ UNCHANGED <<view, shown>>

(* SyncState.observe, and what the client then shows.                      *)
Observe(c, f) ==
  IF f.kind = "history"
  THEN /\ IF f.rev < sync[c].snapshot
          THEN UNCHANGED <<sync, view, shown>>
          ELSE /\ sync' = [sync EXCEPT ![c].snapshot = f.rev]
               /\ Take(c, f)
       /\ UNCHANGED raised
  ELSE /\ IF f.rev <= sync[c].message
          THEN UNCHANGED <<sync, raised>>
          ELSE /\ sync' = [sync EXCEPT ![c].message = f.rev]
               /\ raised' = [raised EXCEPT ![c] = <<f.char, f.epoch>>]
       /\ UNCHANGED <<view, shown>>

(* The client's loop selects between its channels in any order.            *)
ForwardDirect(c) ==
  /\ conn[c] = "on" /\ direct[c] # <<>>
  /\ direct' = [direct EXCEPT ![c] = Tail(@)]
  /\ Observe(c, Head(direct[c]))
  /\ UNCHANGED <<engineVars, base, ringVars, lags, connVars, snapshot, todo>>

ForwardEvent(c) ==
  /\ conn[c] = "on" /\ ~lagged[c] /\ queue[c] # <<>>
  /\ queue' = [queue EXCEPT ![c] = Tail(@)]
  /\ lags' = [lags EXCEPT ![c] = 0]
  /\ Observe(c, Head(queue[c]))
  /\ UNCHANGED <<engineVars, base, lagged, evicted, connVars, handlerVars>>

(* Events were overwritten before this loop read them: it goes on with the *)
(* oldest there is, and ends the connection after MaxLags in a row.        *)
Lagged(c) ==
  /\ conn[c] = "on" /\ lagged[c]
  /\ IF lags[c] + 1 >= MaxLags
     THEN CloseAll({c})
     ELSE /\ lagged' = [lagged EXCEPT ![c] = FALSE]
          /\ lags' = [lags EXCEPT ![c] = @ + 1]
          /\ UNCHANGED <<clientVars, queue, evicted, conn, selected, handlerVars>>
  /\ UNCHANGED engineVars

-----------------------------------------------------------------------------
(* The message handler, one request at a time                              *)

Pending(c) == conn[c] = "on" /\ snapshot[c].kind # "none"
HandlerFree == todo = {} /\ \A c \in Clients : ~Pending(c)

(* switch_character: the session selects, then its History is taken.       *)
Switch(c, ch) ==
  /\ conn[c] = "on" /\ HandlerFree /\ ch \in available
  /\ selected' = [selected EXCEPT ![c] = ch]
  /\ TakeSnapshot(c, ch)
  /\ UNCHANGED <<available, disk, fresh, newest, unsaved, faults, clientVars,
                 ringVars, lags, conn, todo, direct>>

(* send_to_session waits for room in the session's channel.                *)
Push(c) ==
  /\ Pending(c) /\ Len(direct[c]) < DirectSize
  /\ direct' = [direct EXCEPT ![c] = Append(@, snapshot[c])]
  /\ snapshot' = [snapshot EXCEPT ![c] = NoSnapshot]
  /\ UNCHANGED <<engineVars, clientVars, ringVars, lags, connVars, todo>>

(* A reload finds the characters A: engines of others are dropped, and     *)
(* every session is to be sent its History.                                *)
Reload(A) ==
  /\ HandlerFree
  /\ faults' = faults + Cardinality({ch \in Characters \ A : engine[ch].made})
  /\ faults' <= MaxFaults
  /\ available' = A
  /\ engine' = [ch \in Characters |-> IF ch \in A THEN engine[ch] ELSE NoEngine]
  /\ todo' = {c \in Clients : conn[c] = "on"}
  /\ UNCHANGED <<disk, fresh, newest, unsaved, epoch, clientVars, ringVars, lags,
                 connVars, snapshot, direct>>

(* push_session_history_snapshots: a removed character is deselected.      *)
PushReloaded(c) ==
  /\ c \in todo /\ \A d \in Clients : ~Pending(d)
  /\ todo' = todo \ {c}
  /\ TakeSnapshot(c, selected[c])
  /\ selected' = [selected EXCEPT ![c] = IF @ \in available THEN @ ELSE None]
  /\ UNCHANGED <<available, disk, fresh, newest, unsaved, faults, clientVars,
                 ringVars, lags, conn, direct>>

(* The daemon ends and starts again: it remembers what was saved.          *)
Restart ==
  /\ CloseAll(Clients)
  /\ engine' = [ch \in Characters |-> NoEngine]
  /\ epoch' = Unknown /\ unsaved' = {}
  /\ UNCHANGED <<available, disk, fresh, newest, faults>>

Next ==
  \/ \E ch \in Characters : Change(ch) \/ ChangeFails(ch)
  \/ \E c \in Clients :
       \/ Subscribe(c) \/ LoadSnapshot(c) \/ Register(c) \/ Disconnect(c)
       \/ ForwardDirect(c) \/ ForwardEvent(c) \/ Lagged(c)
       \/ Push(c) \/ PushReloaded(c)
       \/ \E ch \in Characters : Switch(c, ch)
  \/ \E A \in SUBSET Characters : Reload(A)
  \/ Restart

Spec == Init /\ [][Next]_vars

-----------------------------------------------------------------------------
(* Properties                                                              *)

(* A client with nothing on its way to it shows at least what is saved of  *)
(* the character it has selected: no change falls between the subscription *)
(* and the snapshot of the handshake, or between a direct History and the  *)
(* broadcast one that overtakes it.  It may show less when the History of  *)
(* the last change was lost to lag; while that engine's revision is below  *)
(* the watermark another engine raised, as observe has one for all         *)
(* characters; and when the last History it took of the character is of an *)
(* engine a reload has dropped, whose revisions are not the new one's.     *)
ShowsWhatIsSaved ==
  \A c \in Clients :
    LET ch == selected[c]
    IN (/\ conn[c] = "on" /\ ch \in available /\ engine[ch].made
        /\ queue[c] = <<>> /\ direct[c] = <<>> /\ ~lagged[c]
        /\ ~Pending(c) /\ c \notin todo
        /\ disk[ch] \notin evicted[c] /\ sync[c].snapshot <= engine[ch].rev
        /\ shown[c][ch] \in {0, epoch[ch]})
       => view[c][ch] >= disk[ch]

(* As long as the revisions of the character's one engine are compared, a  *)
(* client is told of a message exactly when the handshake had not shown    *)
(* it: the History of the same change, which comes first, never shadows it.*)
MessagesNotShadowed ==
  [][\A c \in Clients :
       LET m == Head(queue[c])
       IN (/\ ForwardEvent(c) /\ m.kind = "message" /\ m.epoch = epoch[m.char]
           /\ raised[c] \in {<<m.char, m.epoch>>, <<None, 0>>})
          => (sync'[c].message # sync[c].message <=> m.ver > base[c][m.char])]_vars

(* What the stream of Histories promises, see Feed.                        *)
F == INSTANCE Feed WITH
  latest <- newest, known <- view,
  loose <- unsaved \cup {ch \in Characters : epoch[ch] > 1}

FeedSpec == F!Spec
=============================================================================
