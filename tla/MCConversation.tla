---------------------------- MODULE MCConversation ----------------------------
(* Conversation with its constants given by the .cfg files.  Sessions are    *)
(* model values that only take part in equalities, so runs of safety         *)
(* properties may treat them as interchangeable.                             *)
EXTENDS Conversation, TLC

SessionSymmetry == Permutations(Sessions)

(* The saved covered count is only read by a restart, so it tells nothing    *)
(* apart when no crash is left to come.                                      *)
SavedView == IF up /\ crashes = MaxCrashes THEN 0 ELSE savedCovered

(* What is in a model request decides nothing but what is in the next one    *)
(* and in the memory files, and no step looks into those.  Runs whose        *)
(* properties are not about memory files only tell apart whether there is a  *)
(* request.                                                                  *)
TranscriptView ==
  <<mem, disk, files, listed, torn, lock, guard,
    [s \in Sessions |-> [gen[s] EXCEPT !.base = {}, !.alt = {}]],
    [p \in Passes |-> [pass[p] EXCEPT !.seen = {x \in {Prompt} : @ # {}}, !.before = {}]],
    lastRequest = {}, covered, SavedView, up, fresh,
    accepted, dropped, exposed, overtaken, failures, crashes>>

(* A property about the user turns in memory files only needs, of requests,  *)
(* of the archive and of the memory files, the turns it does not exempt, and *)
(* of other lines their roles.  A pass needs what it read until it has       *)
(* replaced the file, and its request until it has written.  A count that    *)
(* was overtaken stays so, and then nothing is claimed any more.             *)
Exempt == UserLines(dropped \cup exposed \cup unread)
Claimed(lines) == UserLines(lines) \ Exempt
Request(lines) == Claimed(lines) \cup {x \in {Prompt} : lines # {}}
Roles(s) == [i \in DOMAIN s |-> IF s[i].role = "user" THEN s[i] ELSE [s[i] EXCEPT !.id = 0]]

PassView(p) ==
  LET holding == pass[p].pc \in {"read", "loop", "segment", "manifest", "active", "rollback"}
  IN <<pass[p].pc, pass[p].turns,
       IF holding THEN <<pass[p].mode, Roles(pass[p].snap), pass[p].split, pass[p].wrote,
                         Claimed(pass[p].before)>> ELSE <<>>,
       IF pass[p].wrote THEN {} ELSE Request(pass[p].seen)>>

MemoryView ==
  IF overtaken THEN <<>>
  ELSE <<Roles(mem), Roles(disk), Claimed(Archive), listed, torn, Claimed(memory), lock, guard,
         [s \in Sessions |-> <<gen[s].pc, gen[s].regen, Claimed(gen[s].base), Len(gen[s].todo)>>],
         [p \in Passes |-> PassView(p)],
         Request(lastRequest), covered, SavedView, up, fresh, Exempt, failures, crashes>>
===============================================================================
