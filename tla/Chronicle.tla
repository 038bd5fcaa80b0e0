------------------------------ MODULE Chronicle ------------------------------
(***************************************************************************)
(* What a conversation's files promise, whatever writes, fails or crashes  *)
(* meanwhile.  A line is recorded when a save of it succeeded.  From then  *)
(* on it is in the active transcript until a segment that is appended to   *)
(* the archive holds it, or a client takes it out.  Only the lines that    *)
(* come while a pass works on an older copy of the transcript may go       *)
(* astray, and they do so when they are recorded or not at all.            *)
(***************************************************************************)
EXTENDS Naturals, Sequences, Functions

VARIABLES
  recorded,   \* the lines that some save of the transcript wrote
  active,     \* those the transcript still holds the one copy of
  segments,   \* the archive
  removed,    \* lines clients took out
  astray,     \* lines changed behind the back of a working pass
  working     \* whether a pass works on a copy of the transcript

vars == <<recorded, active, segments, removed, astray, working>>

Init ==
  /\ recorded = {} /\ active = {} /\ segments = <<>>
  /\ removed = {} /\ astray = {} /\ working = FALSE

(* Lines are recorded and taken out.  What was active before only goes     *)
(* astray by being taken out, and nothing does while no pass is working.   *)
Save ==
  /\ recorded \subseteq recorded' /\ removed \subseteq removed' /\ astray \subseteq astray'
  /\ astray' # astray => working
  /\ (astray' \ astray) \cap active \subseteq removed'
  /\ active' = (active \cup (recorded' \ recorded)) \ (removed' \cup astray')
  /\ UNCHANGED <<segments, working>>

(* A pass lists a segment of recorded lines.                               *)
Archive(seg) ==
  /\ working
  /\ Range(seg) \subseteq recorded
  /\ segments' = Append(segments, seg)
  /\ active' = active \ Range(seg)
  /\ UNCHANGED <<recorded, removed, astray, working>>

(* A pass begins or ends.                                                  *)
Work ==
  /\ working' \in BOOLEAN
  /\ UNCHANGED <<recorded, active, segments, removed, astray>>

Next == Save \/ (\E seg \in Range(segments') : Archive(seg)) \/ Work

Spec == Init /\ [][Next]_vars
=============================================================================
