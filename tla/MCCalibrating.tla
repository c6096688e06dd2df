---------------------------- MODULE MCCalibrating ----------------------------
(* Calibrating with the code's end points only as series, for TLC, and a     *)
(* converter whose error tells quantities and ranges apart.                  *)
EXTENDS Calibrating

MC_VoltSeries == [min |-> -10000, step |-> 20000, points |-> 2]
MC_CurrSeries == [min |-> -400, step |-> 800, points |-> 2]
MC_Offset ==
  [op \in Operations |-> [r \in CurrentRanges |->
     (IF op = VOLTAGE THEN 1 ELSE 3) + (IF r = "AMP1" THEN 0 ELSE 1)]]
MC_Rates == {50}
MC_Filters == {5}
=============================================================================
