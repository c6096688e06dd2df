----------------------------- MODULE MCDigitizer -----------------------------
(* Digitizer with short buffers for TLC. *)
EXTENDS Digitizer

MC_OneLevel == {"low"}
MC_AllLevels == AllLevels
MC_AllPresses == AllPresses
MC_OnlyType == {"type"}
=============================================================================
