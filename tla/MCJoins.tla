------------------------------ MODULE MCJoins ------------------------------
(* Instances of Joins: who may join whom. *)
EXTENDS Joins

\* Whoever is detached may join the others.
Joined == [g \in Gids |-> IF g \in Detached THEN Gids \ Detached ELSE {}]
=============================================================================
