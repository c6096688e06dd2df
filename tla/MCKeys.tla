------------------------------- MODULE MCKeys -------------------------------
(* Constants for TLC: the loop may be late by more than a long press.      *)
EXTENDS Keys

MCGaps == 1 .. HoldPeriod + 1
=============================================================================
