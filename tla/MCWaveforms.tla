---------------------------- MODULE MCWaveforms -----------------------------
(* Constants for TLC: amounts in all three spans.                          *)
EXTENDS Waveforms, TLC

MCAmounts   == {-3000, -1500, 0, 1500, 3000}
MCLowLevel  == (VOLTAGE :> 1500) @@ (CURRENT :> 1500)
MCHighLevel == (VOLTAGE :> 3000) @@ (CURRENT :> 1500)
=============================================================================
