---------------------------- MODULE MCInstrument ----------------------------
(* Instrument on small sets of amounts and rates for TLC. *)
EXTENDS Instrument

MC_Functions == AllFunctions
MC_PulseFunctions == {DCC, PULSE}
MC_SweepFunctions == {DCC, SWEEP}
MC_DcFunctions == {DCV, DCC, DIGITIZE, GRAPH, LOGGER}
MC_Micros == {5000}
MC_TwoMicros == {5000, 200000}
MC_Scpi == {5}
MC_NoScpi == {}
MC_Rates == {100}
MC_NoRates == {}
MC_Toggles == {"autoRange", "voltageOnly"}
MC_NoToggles == {}
=============================================================================
