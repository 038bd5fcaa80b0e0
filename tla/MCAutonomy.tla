----------------------------- MODULE MCAutonomy -----------------------------
(* Instances of Autonomy: one model whose cache is kept warm, and another. *)
EXTENDS Autonomy

CONSTANTS opus, glm

ModelCadence == [m \in {opus, glm} |-> IF m = opus THEN 1 ELSE None]
=============================================================================
