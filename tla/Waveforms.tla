----------------------------- MODULE Waveforms ------------------------------
(***************************************************************************)
(* What makes waveforms: src/src/FunctionPulse.cpp, whose timer interrupt  *)
(* sources two levels in turns, and src/src/FunctionSweep.cpp, which the   *)
(* loop lets step up and down; next to all other commits of the loop (SCPI,*)
(* calibration buttons, knob, dialogs, changes of range).  A command of    *)
(* SCPI does not close the pulse function, so its timer may run next to    *)
(* anything.                                                               *)
(***************************************************************************)
EXTENDS Commit

CONSTANTS
  Sourced,     \* what the rest of the loop sources
  Levels,      \* what the two levels of a pulse can be set to
  LowLevel,    \* what they are at first, and when pulsing a current begins
  HighLevel,
  StepUnit,    \* how much a button changes the step of a sweep
  BoundUnit,   \* how much a button moves both bounds of a sweep
  SweepSteps,  \* bound: the steps of a sweep
  SweepHighs   \* bound: its upper bounds

ASSUME LevelsAssumption ==
  /\ Levels \cup Sourced \subseteq Amounts
  /\ LowLevel \in [Operations -> Levels] /\ HighLevel \in [Operations -> Levels]
ASSUME UnitsAssumption  == StepUnit \in Nat \ {0} /\ BoundUnit \in Nat \ {0}
ASSUME SweepAssumption  ==
  /\ SweepSteps \subseteq Int /\ StepUnit \in SweepSteps
  /\ SweepHighs \subseteq Int /\ BoundUnit \in SweepHighs

VARIABLES
  functionType,  \* the selected function, as far as it matters here
  pulse,         \* the timer, operation, which level was sourced last, both levels
  sweep          \* value, direction, step and bounds

vars == <<smu, chip, call, functionType, pulse, sweep>>

PULSE == "SOURCE_PULSE"
SWEEP == "SOURCE_SWEEP"
OTHERS == "others"

Init ==
  /\ CommitInit
  /\ functionType = OTHERS
  /\ pulse = [on |-> FALSE, op |-> VOLTAGE, pulseHigh |-> FALSE,
              min |-> LowLevel[VOLTAGE], max |-> HighLevel[VOLTAGE]]
  /\ sweep = [value |-> 0, dir |-> 1, step |-> StepUnit, high |-> BoundUnit, low |-> -BoundUnit]

-----------------------------------------------------------------------------
(* The menu (between two passes of the loop, so no call is in progress):   *)
(* leaving the pulse function stops its timer, opening it starts it.       *)
(* For a current the levels start from 20 and -20mA.                       *)
Opened(op) ==
  [pulse EXCEPT !.on = TRUE, !.op = op,
                !.min = IF op = CURRENT THEN LowLevel[op] ELSE @,
                !.max = IF op = CURRENT THEN HighLevel[op] ELSE @]
Leave == [pulse EXCEPT !.on = @ /\ functionType # PULSE]

Select(f) ==
  /\ Idle
  /\ functionType' = f
  /\ IF f = PULSE THEN \E op \in Operations : pulse' = Opened(op) ELSE pulse' = Leave
  /\ UNCHANGED <<smu, chip, call, sweep>>

(* Any other commit of the loop; one of SCPI also selects a DC function.   *)
SourceAmount(r) ==
  /\ Begin(r)
  /\ functionType' \in {functionType, OTHERS}
  /\ UNCHANGED <<pulse, sweep>>

Continue == CallStep /\ UNCHANGED <<functionType, pulse, sweep>>

-----------------------------------------------------------------------------
(* The pulse.  sourcePulse passes min as the high and max as the low level.*)

Dynamic(p) == Within(p.min, 4499) /\ Within(p.max, 4499)

PulseRequest(p) ==
  [op |-> p.op, amount |-> IF p.pulseHigh THEN p.max ELSE p.min,
   best |-> p.op = VOLTAGE /\ Dynamic(p)]

SourcePulse ==
  /\ pulse.on
  /\ WholeCommit(PulseRequest(pulse))
  /\ pulse' = [pulse EXCEPT !.pulseHigh = ~@]
  /\ UNCHANGED <<functionType, sweep>>

(* Buttons and knob change a level in steps. *)
SetLevel(a) ==
  /\ Idle
  /\ functionType = PULSE
  /\ \/ pulse' = [pulse EXCEPT !.min = a]
     \/ pulse' = [pulse EXCEPT !.max = a]
  /\ UNCHANGED <<smu, chip, call, functionType, sweep>>

-----------------------------------------------------------------------------
(* The sweep, of voltages (a current is stepped likewise and committed as  *)
(* in SourceAmount).                                                       *)

(* Mutants of Turn: at the upper bound the value does not turn yet; the    *)
(* lower bound is never noticed.                                           *)
TurnsLate(s) ==
  IF s.dir = 1 /\ s.value > s.high + s.step THEN [s EXCEPT !.dir = -1]
  ELSE IF s.dir = -1 /\ s.value <= s.low THEN [s EXCEPT !.dir = 1]
  ELSE s
TurnsOnce(s) == IF s.dir = 1 /\ s.value >= s.high THEN [s EXCEPT !.dir = -1] ELSE s

Turn(s) ==
  IF s.dir = 1 /\ s.value >= s.high THEN [s EXCEPT !.dir = -1]
  ELSE IF s.dir = -1 /\ s.value <= s.low THEN [s EXCEPT !.dir = 1]
  ELSE s

Stepped(s) == [Turn(s) EXCEPT !.value = @ + s.step * Turn(s).dir]

SweepStep ==
  /\ Idle
  /\ functionType = SWEEP
  /\ Stepped(sweep).value \in Amounts                  \* bound: the amounts
  /\ sweep' = Stepped(sweep)
  /\ Begin([op |-> VOLTAGE, amount |-> sweep'.value, best |-> TRUE])
  /\ UNCHANGED <<functionType, pulse>>

SweepSettings(s) ==
  /\ Idle
  /\ functionType = SWEEP
  /\ s.step \in SweepSteps /\ s.high \in SweepHighs    \* bounds: steps and highs
  /\ sweep' = s
  /\ UNCHANGED <<smu, chip, call, functionType, pulse>>

(* Mutant of ChangeBounds: both bounds move the same way. *)
BoundsMoveUp == \E d \in {BoundUnit, -BoundUnit} :
                  SweepSettings([sweep EXCEPT !.high = @ + d, !.low = @ + d])

ChangeStep   == \E d \in {StepUnit, -StepUnit} : SweepSettings([sweep EXCEPT !.step = @ + d])
ChangeBounds == \E d \in {BoundUnit, -BoundUnit} :
                  SweepSettings([sweep EXCEPT !.high = @ + d, !.low = @ - d])
Clear        == SweepSettings([sweep EXCEPT !.value = 0, !.dir = 1])

SweepButton == ChangeStep \/ ChangeBounds \/ Clear

Next ==
  \/ \E f \in {PULSE, SWEEP, OTHERS} : Select(f)
  \/ \E r \in Requests : r.amount \in Sourced /\ SourceAmount(r)
  \/ Continue
  \/ SourcePulse
  \/ \E a \in Levels : SetLevel(a)
  \/ SweepStep
  \/ SweepButton

Spec == Init /\ [][Next]_vars

(* loop() is called for ever, each pass ends its commits before it comes   *)
(* to the sweep, and the sweep steps whenever its time is over: what is    *)
(* enabled in every pass is taken again and again.  Nothing obliges a user *)
(* or a client.                                                            *)
FairSpec == Spec /\ WF_vars(Continue) /\ SF_vars(SweepStep)

-----------------------------------------------------------------------------
TypeOK ==
  /\ CommitTypeOK
  /\ functionType \in {PULSE, SWEEP, OTHERS}
  /\ pulse \in [on : BOOLEAN, op : Operations, pulseHigh : BOOLEAN, min : Levels, max : Levels]
  /\ sweep \in [value : Amounts, dir : {-1, 1}, step : SweepSteps, high : SweepHighs, low : Int]
  /\ sweep.low = -sweep.high

(* However pulses fall into a commit of the loop, the output is what one   *)
(* of them asked for; but after pulses of another span, until the next.    *)
OutputImplemented == O!Spec

(* What the panel shows is sourced, in a code of the span in use, unless a *)
(* pulse fell into the last commit of the loop.                            *)
ShownIsOutput == Idle /\ call.met = {} => Shown = Source /\ ~Torn

(* A sweep of positive steps between bounds in order comes back from any   *)
(* place, to within a step of its bounds, and stays there: the distance    *)
(* from there shrinks by a step or to nothing.                             *)
SaneSweep == sweep.step > 0 /\ sweep.high >= 0
Beyond(s) == LET over  == s.value - (s.high + s.step)
                 under == (s.low - s.step) - s.value
             IN  IF over > 0 THEN over ELSE IF under > 0 THEN under ELSE 0
SweepComesBack ==
  [][SweepStep /\ SaneSweep =>
       LET shorter == Beyond(sweep) - sweep.step
       IN  Beyond(sweep') <= IF shorter > 0 THEN shorter ELSE 0]_vars

(* Left alone, it reaches both bounds again and again. *)
SweepsOn ==
  (<>[](functionType = SWEEP /\ SaneSweep) /\ <>[][~SweepButton]_vars)
    => []<>(sweep.value >= sweep.high) /\ []<>(sweep.value <= sweep.low)
=============================================================================
