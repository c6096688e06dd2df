------------------------------ MODULE MCTrends ------------------------------
(* Constants for TLC: a ring that wraps, and a limit that can be lowered.  *)
EXTENDS Trends

MCSliderValues == 0 .. MaxPrelim + 1
=============================================================================
