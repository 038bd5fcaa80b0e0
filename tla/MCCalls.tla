------------------------------ MODULE MCCalls ------------------------------
(* Instances of Calls.                                                     *)
EXTENDS Calls

CONSTANTS chat, compact, keepalive

\* allow_compaction_over_budget: compaction is never stopped.
GatedCallers == {chat, keepalive}
FirstKey == {1}
=============================================================================
