-------------------------------- MODULE Feed --------------------------------
(***************************************************************************)
(* What the History stream promises a client, whatever channels carry it:  *)
(* of each character the client knows some transcript the daemon had, it   *)
(* only moves on to later ones, and it loses what it knows only by losing  *)
(* the connection.  Transcripts are known by the number of the change that *)
(* made them.  Of a character whose revisions do not tell transcripts      *)
(* apart, because a change was not saved or its engine was made anew in    *)
(* one run of the daemon, the order is not promised.                       *)
(***************************************************************************)
EXTENDS Naturals

CONSTANTS Clients, Characters, MaxChanges

VARIABLES
  latest,   \* the last change of each character
  known,    \* what each client knows of each character, 0 for nothing
  loose     \* characters whose revisions do not order their transcripts

vars == <<latest, known, loose>>

Nothing == [ch \in Characters |-> 0]

Init ==
  /\ latest = Nothing
  /\ known = [c \in Clients |-> Nothing]
  /\ loose = {}

(* The conversation changes; a change that is not saved loosens it.        *)
Publish(ch) ==
  /\ \E v \in latest[ch] + 1 .. MaxChanges : latest' = [latest EXCEPT ![ch] = v]
  /\ loose' \in {loose, loose \cup {ch}}
  /\ UNCHANGED known

(* A snapshot reaches a client.                                            *)
Learn(c, ch) ==
  /\ \E v \in 0..latest[ch] :
       /\ ch \in loose \/ v >= known[c][ch]
       /\ known' = [known EXCEPT ![c][ch] = v]
  /\ UNCHANGED <<latest, loose>>

(* The connections of some clients end.                                    *)
Forget(C) ==
  /\ known' = [c \in Clients |-> IF c \in C THEN Nothing ELSE known[c]]
  /\ UNCHANGED <<latest, loose>>

(* An engine is made anew.                                                 *)
Loosen(ch) ==
  /\ loose' = loose \cup {ch}
  /\ UNCHANGED <<latest, known>>

(* The daemon restarts: every connection ends, every engine is new.        *)
Restart ==
  /\ known' = [c \in Clients |-> Nothing] /\ loose' = {}
  /\ UNCHANGED latest

Next ==
  \/ \E ch \in Characters : Publish(ch) \/ Loosen(ch)
  \/ \E c \in Clients, ch \in Characters : Learn(c, ch)
  \/ \E C \in SUBSET Clients : Forget(C)
  \/ Restart

Spec == Init /\ [][Next]_vars
=============================================================================
