------------------------------- MODULE MCServer -------------------------------
(* Server on small instances; the .cfg files give every constant its value.  *)
EXTENDS Server

\* One peer sends enough for a split command, or for one before or after its
\* QUIT; the others keep the loop busy with a piece each.
PiecesSent == [fd \in Conns |-> IF fd = 1 THEN 2 ELSE 1]
=============================================================================
