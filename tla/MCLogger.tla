------------------------------ MODULE MCLogger ------------------------------
(* Constants for TLC: a memory that is filled twice over.                  *)
EXTENDS Logger

MCTurns == {-1, 1, 2}
=============================================================================
