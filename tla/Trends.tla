------------------------------- MODULE Trends -------------------------------
(***************************************************************************)
(* The sampling interrupt, src/src/Poormanssmu.cpp (handleSampling), with  *)
(* the statistics and the log memory it feeds, next to the loop that shows *)
(* both: Stats on the panel, TrendLog in the graph.  The loop masks the    *)
(* interrupt while it draws, but for the reads of the graph.               *)
(***************************************************************************)
EXTENDS Stats, TrendLog

CONSTANT SliderValues   \* what the slider gives

ASSUME SliderAssumption == SliderValues \subseteq Int

vars == <<statsVars, logVars>>

Init == StatsInit /\ LogInit

(* A sample of the voltage; now and then its mean is logged as well. *)
HandleSampling ==
  /\ \E v \in Values : AddSample(v)
  /\ LogData \/ UNCHANGED logVars

(* The panel is not touched while the graph is drawn. *)
PanelTouched ==
  /\ frame.pass = "none"
  /\ ClearBuffer \/ \E s \in SliderValues : SetNrOfSamplesBeforeStore(s)
  /\ UNCHANGED logVars

DrawGraph == Draw /\ UNCHANGED statsVars

Next == HandleSampling \/ PanelTouched \/ DrawGraph

Spec == Init /\ [][Next]_vars

(* Types and limits of both. *)
TypeOK == StatsTypeOK /\ LogTypeOK
=============================================================================
