------------------------------ MODULE MCDaemon -------------------------------
(* The run of Daemon: the files change or services run, not both.  The two *)
(* share nothing but the phase and the signal, and every step this leaves  *)
(* out, an edit or a start with services, is one without fairness.         *)
EXTENDS Daemon

Apart == edits = 0 \/ \A s \in Services : pc[s] = "off"
==============================================================================
