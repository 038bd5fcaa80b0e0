----------------------------- MODULE Transcript -----------------------------
(***************************************************************************)
(* A conversation as the daemon stores it: a sequence of lines, one JSON   *)
(* message each.  A line is its message at one content; an edit of a       *)
(* message is another line.  The role says all the split algorithms look   *)
(* at: a "user" line is a real user message, a "call" an assistant         *)
(* message with tool_use blocks, a "result" the tool_result message that   *)
(* answers it, a "reply" the assistant message a generation ends with, an  *)
(* "auto" line an assistant message the heartbeat sent on its own, and a   *)
(* "system" line an instruction injected by a client.                      *)
(***************************************************************************)
EXTENDS Integers, Sequences, FiniteSets, Functions

Role == {"user", "call", "result", "reply", "auto", "system"}

Line == [id : Nat, role : Role]

UserLines(lines) == {l \in lines : l.role = "user"}

(* Positions of the real user messages of a transcript.                    *)
TurnPositions(s) == {i \in DOMAIN s : s[i].role = "user"}

(* MessageStore::turn_count and CompactionManager::count_turns.            *)
TurnCount(s) == Cardinality(TurnPositions(s))

Prefix(s, n) == SubSeq(s, 1, n)

Suffix(s, n) == SubSeq(s, n + 1, Len(s))

(* last_real_user_turn_keep_index: how many lines there are up to the last *)
(* user line; 0 when there is none.                                        *)
KeepIndex(s) ==
  Cardinality({i \in DOMAIN s : \E j \in i..Len(s) : s[j].role = "user"})

(* find_turn_split: how many lines come before the last keep turns.        *)
FindTurnSplit(s, keep) ==
  LET Starts == {i \in TurnPositions(s) : TurnCount(Suffix(s, i - 1)) = keep}
  IN IF keep = 0 THEN Len(s)
     ELSE IF Starts = {} THEN 0
     ELSE (CHOOSE i \in Starts : TRUE) - 1

(* trailing_autonomous_len: the run of heartbeat messages at the end that  *)
(* the user has not answered.                                              *)
TrailingAutonomous(s) ==
  Cardinality({i \in DOMAIN s : \A j \in i..Len(s) : s[j].role = "auto"})

(* archive_split_index: the lines to archive, short of the unanswered      *)
(* heartbeat messages when the caller asks for that.                       *)
ArchiveSplitIndex(s, keep, retainAutonomous) ==
  LET split == FindTurnSplit(s, keep)
      limit == Len(s) - TrailingAutonomous(s)
  IN IF retainAutonomous /\ limit < split THEN limit ELSE split

Exchange == {"call", "result"}

(* pending_regen_alt: what a regeneration keeps as an alternative is the   *)
(* last assistant message after the last user line, with the tool exchange *)
(* that merge_tool_loop_messages folds into it.                            *)
RegenAlternative(s) ==
  LET After == KeepIndex(s) + 1 .. Len(s)
      Last == {i \in After : /\ s[i].role # "system"
                             /\ \A j \in i + 1 .. Len(s) : s[j].role = "system"}
  IN {s[i] : i \in {k \in After : \E l \in Last :
                       k <= l /\ \A j \in k .. l - 1 : s[j].role \in Exchange}}
=============================================================================
