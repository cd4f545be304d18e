------------------------------ MODULE MCLogger ------------------------------
(* Instances of Logger for TLC. *)
EXTENDS Logger

\* Room for one message in the most severe queue, for two in the others
MCCapacity == [q \in Queues |-> IF q = 0 THEN 1 ELSE 2]
=============================================================================
