-------------------------- MODULE InstrumentProofs --------------------------
(***************************************************************************)
(* What a user may rely on, for every choice of functions, amounts, rates  *)
(* and menu length:                                                        *)
(*   TypeCorrect       types, and the relay, phase by phase of loop()      *)
(*   TimersExclude     exactly one of the two timers drives the converters *)
(*   MenuSetsUpBoard   choosing a DC function sets up the whole board      *)
(*   PanelInvariant    without a SCPI client and with one input per frame, *)
(*                     the panel and the board agree; from it:             *)
(*   ScreenTruthful    a DC screen tells what the board does               *)
(*   DialogsTruthful   a dialog commits the kind of quantity it asked for  *)
(*   KnobTruthful      the knob sources what the DC screen sources         *)
(*   AdcGivenBack      the digitizer gives the ADC back, without SCPI      *)
(*   UnitsKept, SourceScaled  numbers keep units and scale, if besides only*)
(*                     functions without a source of their own are chosen  *)
(*   MenuShrinks       a menu told to close does so in as many frames as it*)
(*                     is high, and nothing opens it again before          *)
(***************************************************************************)
EXTENDS Instrument, BoardProofs

(* Type correctness is inductive together with the relay. *)
TypeInv == TypeOK /\ RelayFollowsRange(board)

(* Whatever the menu opens, the board stays a board; a DC function finds   *)
(* the board set up for what it sources.                                   *)
LEMMA OpenBoardServes ==
  ASSUME board \in Board, RelayFollowsRange(board), operationType \in Operations,
         NEW f \in AllFunctions
  PROVE  /\ OpenBoard(f) \in Board
         /\ RelayFollowsRange(OpenBoard(f))
         /\ f \in DcFunctions => Serves(OpenBoard(f), OperationOf(f))
<1>1. CASE f = DCV
  <2>1. OpenBoard(f) = OpenVoltage(board) /\ OperationOf(f) = VOLTAGE
    BY <1>1 DEF OpenBoard, OperationOf, DCV, DCC, PULSE
  <2> QED
    BY <2>1, OpenVoltageServes
<1>2. CASE f = DCC
  <2>1. OpenBoard(f) = OpenCurrent(board, operationType) /\ OperationOf(f) = CURRENT
    BY <1>2 DEF OpenBoard, OperationOf, DCV, DCC, PULSE
  <2> QED
    BY <2>1, OpenCurrentServes
<1>3. CASE f = PULSE
  <2>1. OpenBoard(f) = SetCurrentRange(board, "AMP1", operationType)
    BY <1>3 DEF OpenBoard, DCV, DCC, PULSE
  <2> QED
    BY <1>3, <2>1, RangeTypes DEF CurrentRanges, DcFunctions, DCV, DCC, PULSE
<1>4. CASE f \notin {DCV, DCC, PULSE}
  BY <1>4 DEF OpenBoard, DcFunctions
<1> QED
  BY <1>1, <1>2, <1>3, <1>4
-----------------------------------------------------------------------------
(* Parts of a step: what menus, dialogs and the digitizer may become. *)

LEMMA MenuRenderType ==
  ASSUME NEW m \in Menus PROVE MenuRender(m) \in Menus
<1> DEFINE up   == [m EXCEPT !.scroll = IF @ > 0 THEN @ - 1 ELSE 0,
                             !.dir = IF m.scroll <= 1 THEN 0 ELSE -1]
           down == [m EXCEPT !.scroll = IF @ < MenuFrames THEN @ + 1 ELSE @,
                             !.dir = IF m.scroll >= MenuFrames - 1 THEN 0 ELSE 1]
<1>1. MenuFrames \in Nat /\ m.scroll \in Nat /\ m.scroll <= MenuFrames
  BY MenuFramesAssumption DEF Menus
<1>2. (IF m.scroll > 0 THEN m.scroll - 1 ELSE 0) \in 0 .. MenuFrames
  BY <1>1
<1>3. (IF m.scroll < MenuFrames THEN m.scroll + 1 ELSE m.scroll) \in 0 .. MenuFrames
  BY <1>1
<1>4. up \in Menus
  BY <1>2 DEF Menus
<1>5. down \in Menus
  BY <1>3 DEF Menus
<1>6. [m EXCEPT !.active = FALSE] \in Menus
  BY DEF Menus
<1>7. MenuRender(m) \in {m, up, down, [m EXCEPT !.active = FALSE]}
  BY DEF MenuRender
<1> QED
  BY <1>4, <1>5, <1>6, <1>7

LEMMA MenuRenderKeeps ==
  ASSUME NEW m \in Menus
  PROVE  /\ MenuRender(m).active => m.active
         /\ MenuRender(m).choice = m.choice
BY MenuFramesAssumption DEF MenuRender, Menus

LEMMA MenuChoices ==
  ASSUME TypeOK PROVE Functions \cup {menu.choice} \subseteq AllFunctions
BY FunctionsAssumption DEF TypeOK, Menus

LEMMA DigitizerTypes ==
  ASSUME NEW a \in Adcs, NEW v \in BOOLEAN
  PROVE  DigitizerOpen(a, v) \in Adcs /\ DigitizerClose(a) \in Adcs
<1>1. (~v) \in BOOLEAN /\ DigitizeRate \in Nat
  BY DEF DigitizeRate
<1>2. a.rate \in Nat /\ a.saved \in Nat
  BY DEF Adcs
<1>3. DigitizerOpen(a, v) \in Adcs
  BY <1>1, <1>2 DEF DigitizerOpen, Adcs
<1>4. DigitizerClose(a) \in Adcs
  BY <1>2 DEF DigitizerClose, Adcs
<1> QED
  BY <1>3, <1>4

(* The callback of the menu, apart from the board. *)
LEMMA CallbackTypes ==
  ASSUME TypeInv, NEW f \in AllFunctions, CloseMainMenuCallback(f)
  PROVE  /\ board' \in Board /\ RelayFollowsRange(board')
         /\ f \in DcFunctions => Serves(board', OperationOf(f))
         /\ functionType' = f
         /\ pulse' \in [on : BOOLEAN, op : Operations]
         /\ sampler' \in BOOLEAN /\ sweepOp' \in Operations
         /\ adc' \in Adcs /\ digitSelected' \in BOOLEAN /\ showSettings' \in BOOLEAN
         /\ knob' \in {"VoltCurrent", "DontCare", "Own"}
<1> USE DEF TypeInv, TypeOK, CloseMainMenuCallback, CloseFunction
<1>1. board' = OpenBoard(f)
  OBVIOUS
<1>2. board' \in Board /\ RelayFollowsRange(board')
      /\ (f \in DcFunctions => Serves(board', OperationOf(f)))
  BY <1>1, OpenBoardServes
<1>3. pulse' \in [on : BOOLEAN, op : Operations]
  OBVIOUS
<1>4. sampler' \in BOOLEAN
  <2>1. sampler' = (f # PULSE /\ CloseFunction(functionType).sampler)
    BY DEF CloseMainMenuCallback
  <2>2. CASE f # PULSE /\ CloseFunction(functionType).sampler
    BY ONLY <2>1, <2>2
  <2>3. CASE ~(f # PULSE /\ CloseFunction(functionType).sampler)
    BY ONLY <2>1, <2>3
  <2> QED
    BY ONLY <2>2, <2>3
<1>5. sweepOp' \in Operations
  OBVIOUS
<1>6. adc' \in Adcs
  <2>1. CloseFunction(functionType).adc \in Adcs
    BY DigitizerTypes
  <2>2. \/ adc' = CloseFunction(functionType).adc
        \/ \E v \in BOOLEAN : adc' = DigitizerOpen(CloseFunction(functionType).adc, v)
    BY DEF CloseMainMenuCallback
  <2> HIDE DEF CloseFunction, CloseMainMenuCallback
  <2> QED
    BY <2>1, <2>2, DigitizerTypes
<1>7. digitSelected' \in BOOLEAN /\ showSettings' \in BOOLEAN
  OBVIOUS
<1>8. knob' \in {"VoltCurrent", "DontCare", "Own"}
  BY DEF KnobOf
<1> QED
  BY <1>2, <1>3, <1>4, <1>5, <1>6, <1>7, <1>8

-----------------------------------------------------------------------------
(* The type invariant, phase by phase. *)

LEMMA GoType == ASSUME NEW s, NEW n \in Phases, Go(s, n) PROVE phase' \in Phases
BY DEF Go

LEMMA AfterType == ASSUME NEW n \in Phases PROVE After(n) \in Phases
BY DEF After, Phases

LEMMA ScpiTypes == ASSUME TypeInv, Scpi PROVE TypeInv'
<1> USE DEF TypeInv, TypeOK
<1>1. ASSUME ScpiStep PROVE phase' \in Phases
  BY <1>1, GoType DEF ScpiStep, Phases
<1>2. VOLTAGE \in Operations /\ CURRENT \in Operations
  BY DEF Operations
<1>3. ASSUME NEW n \in ScpiAmounts, SourceVoltageSCPI(n) PROVE TypeInv'
  <2>1. n * 1000 \in Int
    BY ScpiAmountsAssumption
  <2>2. UseFeedback(board, VOLTAGE) \in Board
        /\ RelayFollowsRange(UseFeedback(board, VOLTAGE))
    BY <1>2, FeedbackBoard
  <2>3. Volt(n * 1000) \in Quantity
    BY <1>2, <2>1, AmountTypes
  <2>4. board' \in Board /\ RelayFollowsRange(board')
    BY <1>2, <1>3, <2>2, <2>3, SetterTypes, SettersKeepRelay DEF SourceVoltageSCPI
  <2> QED
    BY <1>1, <1>3, <2>4 DEF SourceVoltageSCPI, ScpiStep, AllFunctions
<1>4. ASSUME NEW n \in ScpiAmounts, SourceCurrentSCPI(n) PROVE TypeInv'
  <2>1. n * 1000 \in Int
    BY ScpiAmountsAssumption
  <2>2. UseFeedback(board, CURRENT) \in Board
    BY <1>2, FeedbackBoard
  <2>3. Ampere(n * 1000) \in Quantity
    BY <1>2, <2>1, AmountTypes
  <2>4. board' \in Board /\ RelayFollowsRange(board')
    <3> DEFINE fed == UseFeedback(board, CURRENT)
               q   == Ampere(n * 1000)
    <3>1. board' = CommitCurrentAutoRange(fed, q, operationType)
      BY <1>4 DEF SourceCurrentSCPI
    <3>2. fed \in Board /\ q \in Quantity /\ operationType \in Operations
      BY <2>2, <2>3
    <3> HIDE DEF fed, q
    <3> QED
      BY ONLY <3>1, <3>2, CommitAutoRangeBoard
  <2> QED
    BY <1>1, <1>4, <2>4 DEF SourceCurrentSCPI, ScpiStep, AllFunctions
<1>5. ASSUME NEW n \in ScpiAmounts, SourceVoltageILimitSCPI(n) PROVE TypeInv'
  <2>1. Ampere(n) \in Quantity
    BY <1>2, AmountTypes, ScpiAmountsAssumption
  <2>2. board' \in Board /\ RelayFollowsRange(board')
    BY <1>2, <1>5, <2>1, SetterTypes, SettersKeepRelay DEF SourceVoltageILimitSCPI
  <2> QED
    BY <1>1, <1>5, <2>2 DEF SourceVoltageILimitSCPI, ScpiStep
<1>6. ASSUME NEW n \in ScpiAmounts, SourceCurrentVLimitSCPI(n) PROVE TypeInv'
  <2>1. Volt(n) \in Quantity
    BY <1>2, AmountTypes, ScpiAmountsAssumption
  <2>2. board' \in Board /\ RelayFollowsRange(board')
    BY <1>2, <1>6, <2>1, SetterTypes, SettersKeepRelay DEF SourceCurrentVLimitSCPI
  <2> QED
    BY <1>1, <1>6, <2>2 DEF SourceCurrentVLimitSCPI, ScpiStep
<1>7. ASSUME NEW f \in DcFunctions, SourceWithoutNumberSCPI(f) PROVE TypeInv'
  BY <1>1, <1>7 DEF SourceWithoutNumberSCPI, ScpiStep, DcFunctions, AllFunctions
<1> QED
  BY <1>3, <1>4, <1>5, <1>6, <1>7 DEF Scpi

(* Amounts given as what an operation sources, committed as a source. *)
LEMMA CommitAmount ==
  ASSUME NEW b \in Board, RelayFollowsRange(b), NEW op \in Operations, NEW m \in Micros
  PROVE  LET c == SetCommitSource(b, op, SourceAmount(op, m))
         IN  c \in Board /\ RelayFollowsRange(c)
<1>1. SourceAmount(op, m) \in Quantity
  BY AmountTypes, MicrosAssumption
<1> QED
  BY <1>1, SetterTypes, SettersKeepRelay

LEMMA EncoderTypes == ASSUME TypeInv, Encoder PROVE TypeInv'
<1> USE DEF TypeInv, TypeOK
<1>1. PICK m \in Micros : RotaryChanged(m)
  BY DEF Encoder
<1>2. board' \in Board /\ RelayFollowsRange(board')
  BY <1>1, CommitAmount DEF RotaryChanged
<1>3. phase' \in Phases
  BY <1>1, GoType DEF RotaryChanged, Phases
<1> QED
  BY <1>1, <1>2, <1>3 DEF RotaryChanged, panelVars

LEMMA SampleTypes == ASSUME TypeInv, Sample PROVE TypeInv'
<1> USE DEF TypeInv, TypeOK
<1>1. CASE SampleMain
  <2>1. phase' \in Phases
    BY <1>1, GoType DEF SampleMain, Phases
  <2>2. operationType' \in Operations /\ digitSelected' \in BOOLEAN
    BY <1>1 DEF SampleMain, OperationOf, Operations
  <2>3. PICK load \in Loads :
          LET ranged == IF autoRange THEN HandleAutoCurrentRange(board, load) ELSE board
          IN  \/ board' = ranged
              \/ \E m \in Micros :
                   board' = SetCommitSource(ranged, sweepOp, SourceAmount(sweepOp, m))
    BY <1>1 DEF SampleMain
  <2> DEFINE ranged == IF autoRange THEN HandleAutoCurrentRange(board, load) ELSE board
  <2>4. ranged \in Board /\ RelayFollowsRange(ranged)
    BY AutoRangeBoard
  <2>5. board' \in Board /\ RelayFollowsRange(board')
    BY <2>3, <2>4, CommitAmount
  <2> QED
    BY <1>1, <2>1, <2>2, <2>5 DEF SampleMain
<1>2. CASE SampleOwnLoop
  <2>1. phase' \in Phases
    BY <1>2, GoType DEF SampleOwnLoop, Phases
  <2>2. adc' \in Adcs
    <3>1. \/ adc' = adc
          \/ \E v \in BOOLEAN : adc' = [adc EXCEPT !.digitize = TRUE, !.volt = v, !.curr = ~v]
          \/ \E full \in BOOLEAN : adc' = [adc EXCEPT !.digitize = ~full]
      BY <1>2 DEF SampleOwnLoop
    <3>2. ASSUME NEW v \in BOOLEAN, adc' = [adc EXCEPT !.digitize = TRUE, !.volt = v, !.curr = ~v]
          PROVE  adc' \in Adcs
      <4>1. (~v) \in BOOLEAN
        OBVIOUS
      <4> QED
        BY <3>2, <4>1 DEF Adcs
    <3>3. ASSUME NEW v \in BOOLEAN, adc' = [adc EXCEPT !.digitize = ~v]
          PROVE  adc' \in Adcs
      <4>1. (~v) \in BOOLEAN
        OBVIOUS
      <4> QED
        BY <3>3, <4>1 DEF Adcs
    <3> QED
      BY <3>1, <3>2, <3>3
  <2> QED
    BY <1>2, <2>1, <2>2 DEF SampleOwnLoop, panelVars, sourceVars
<1> QED
  BY <1>1, <1>2 DEF Sample

LEMMA TouchTypes == ASSUME TypeInv, Touch PROVE TypeInv'
<1> USE DEF TypeInv, TypeOK
<1>1. Go("Touch", "Keys") \/ Go("Touch", After("Keys")) => phase' \in Phases
  <2>1. "Keys" \in Phases /\ After("Keys") \in Phases
    BY AfterType DEF Phases
  <2> QED
    BY <2>1, GoType
<1>2. CASE NoTouch
  <2>1. menu' \in Menus
    BY <1>2, MenuRenderType DEF NoTouch
  <2> QED
    BY <1>1, <1>2, <2>1 DEF NoTouch, sourceVars
<1>3. ASSUME OpenMainMenu
      PROVE  menu' \in Menus /\ dials' \in [Dials -> {"closed"} \cup Operations]
  <2>1. menu' \in Menus
    BY <1>3 DEF OpenMainMenu, MenuOpen, Menus
  <2> QED
    BY <1>3, <2>1 DEF OpenMainMenu
<1>4. CASE SwipeDown
  BY <1>1, <1>3, <1>4 DEF SwipeDown, sourceVars
<1>5. ASSUME NEW f \in Functions \cup {menu.choice}, MenuSelect(f) PROVE TypeInv'
  <2>1. f \in AllFunctions
    BY MenuChoices
  <2> DEFINE m == [menu EXCEPT !.choice = f, !.dir = -1]
  <2>2. m \in Menus
    BY <2>1 DEF Menus
  <2>3. menu' = m \/ menu' = MenuRender(m)
    BY <1>5 DEF MenuSelect
  <2> HIDE DEF m
  <2>4. menu' \in Menus
    BY <2>2, <2>3, MenuRenderType
  <2> HIDE DEF TypeInv, TypeOK
  <2>5. CloseMainMenuCallback(f)
    BY <1>5 DEF MenuSelect
  <2>6. /\ board' \in Board /\ RelayFollowsRange(board')
        /\ functionType' = f
        /\ pulse' \in [on : BOOLEAN, op : Operations]
        /\ sampler' \in BOOLEAN /\ sweepOp' \in Operations
        /\ adc' \in Adcs /\ digitSelected' \in BOOLEAN /\ showSettings' \in BOOLEAN
        /\ knob' \in {"VoltCurrent", "DontCare", "Own"}
    BY <2>1, <2>5, CallbackTypes
  <2> QED
    BY <1>1, <1>5, <2>1, <2>4, <2>6 DEF MenuSelect, TypeInv, TypeOK
<1>6. ASSUME NEW d \in Dials, dials' = [dials EXCEPT ![d] = operationType]
      PROVE  dials' \in [Dials -> {"closed"} \cup Operations]
  BY <1>6
<1>7. "SET" \in Dials /\ "LIMIT" \in Dials
  BY DEF Dials
<1>8. CASE OpenSourceDial
  BY <1>1, <1>6, <1>7, <1>8 DEF OpenSourceDial, ButtonTouch
<1>9. CASE OpenLimitDial
  BY <1>1, <1>6, <1>7, <1>9 DEF OpenLimitDial, ButtonTouch
<1>10. CASE SwapCurrentRange
  <2> DEFINE r == IF board.range = "AMP1" THEN "MILLIAMP10" ELSE "AMP1"
  <2>1. r \in CurrentRanges
    BY DEF CurrentRanges
  <2>2. board' = SetCurrentRange(board, r, operationType)
    BY <1>10 DEF SwapCurrentRange
  <2>3. board' \in Board /\ RelayFollowsRange(board')
    BY <2>1, <2>2, RangeTypes
  <2> QED
    BY <1>1, <1>10, <2>3 DEF SwapCurrentRange, ButtonTouch
<1>11. ASSUME NEW r \in UserRates, SetSamplingRate(r) PROVE TypeInv'
  <2>1. adc' \in Adcs
    BY <1>11, UserRatesAssumption DEF SetSamplingRate, Adcs
  <2> QED
    BY <1>1, <1>11, <2>1 DEF SetSamplingRate, ButtonTouch
<1>12. CASE CalibrateSource
  <2>1. board.value \in Quantity
    BY DEF Board
  <2>2. board' \in Board /\ RelayFollowsRange(board')
    BY <1>12, <2>1, SetterTypes, SettersKeepRelay DEF CalibrateSource
  <2> QED
    BY <1>1, <1>12, <2>2 DEF CalibrateSource, ButtonTouch
<1>13. CASE CalibrateLimit
  <2>1. board.limit \in Quantity
    BY DEF Board
  <2>2. board' \in Board /\ RelayFollowsRange(board')
    BY <1>13, <2>1, SetterTypes, SettersKeepRelay DEF CalibrateLimit
  <2> QED
    BY <1>1, <1>13, <2>2 DEF CalibrateLimit, ButtonTouch
<1>14. CASE SettingsTouch
  <2>1. (~autoRange) \in BOOLEAN /\ (~adc.voltageOnly) \in BOOLEAN
    OBVIOUS
  <2>2. adc' \in Adcs
    BY <1>14, <2>1 DEF SettingsTouch, Adcs
  <2>3. autoRange' \in BOOLEAN /\ showSettings' \in BOOLEAN
    BY <1>14, <2>1 DEF SettingsTouch
  <2> QED
    BY <1>1, <1>14, <2>2, <2>3 DEF SettingsTouch, sourceVars
<1> QED
  BY <1>2, <1>4, <1>5, <1>8, <1>9, <1>10, <1>11, <1>12, <1>13, <1>14 DEF Touch

LEMMA KeysTypes == ASSUME TypeInv, Keys PROVE TypeInv'
<1> USE DEF TypeInv, TypeOK
<1>1. \A n \in Phases : After(n) \in Phases
  BY AfterType
<1>2. CASE KeyOpensMenu
  <2>1. menu' \in Menus
    BY <1>2 DEF KeyOpensMenu, OpenMainMenu, MenuOpen, Menus
  <2>2. phase' \in Phases
    BY <1>1, <1>2, GoType DEF KeyOpensMenu, Phases
  <2> QED
    BY <1>2, <2>1, <2>2 DEF KeyOpensMenu, OpenMainMenu, sourceVars
<1>3. CASE KeyTogglesSettings
  <2>1. phase' \in Phases
    BY <1>1, <1>3, GoType DEF KeyTogglesSettings, Phases
  <2>2. showSettings' \in BOOLEAN
    BY <1>3 DEF KeyTogglesSettings
  <2> QED
    BY <1>3, <2>1, <2>2 DEF KeyTogglesSettings, sourceVars
<1>4. CASE EncoderKeyPressed
  <2>1. phase' \in Phases
    BY <1>1, <1>4, GoType DEF EncoderKeyPressed, Phases
  <2> QED
    BY <1>4, <2>1 DEF EncoderKeyPressed, sourceVars
<1> QED
  BY <1>2, <1>3, <1>4 DEF Keys

(* The operation a dialog that is on top was opened with. *)
LEMMA OpenDialType ==
  ASSUME TypeOK, NEW d \in Dials, DialOnTop(d) PROVE dials[d] \in Operations
BY DEF TypeOK, DialOnTop

LEMMA DialogTypes == ASSUME TypeInv, Dialog PROVE TypeInv'
<1> USE DEF TypeInv, TypeOK
<1>1. ASSUME NEW d \in Dials, DialCancel(d) PROVE TypeInv'
  <2>1. phase' \in Phases
    BY <1>1, GoType DEF DialCancel, Phases
  <2> QED
    BY <1>1, <2>1 DEF DialCancel, sourceVars
<1>2. ASSUME NEW d \in Dials, NEW m \in Micros, DialOk(d, m) PROVE TypeInv'
  <2>1. phase' \in Phases
    BY <1>2, GoType DEF DialOk, Phases
  <2>2. dials[d] \in Operations
    BY <1>2, OpenDialType DEF DialOk
  <2>3. SourceAmount(dials[d], m) \in Quantity /\ LimitAmount(dials[d], m) \in Quantity
    BY <2>2, AmountTypes, MicrosAssumption
  <2>4. board' \in Board /\ RelayFollowsRange(board')
    BY <1>2, <2>3, SetterTypes, SettersKeepRelay DEF DialOk
  <2> QED
    BY <1>2, <2>1, <2>4 DEF DialOk
<1> QED
  BY <1>1, <1>2 DEF Dialog

LEMMA PulseTypes == ASSUME TypeInv, PulseInterrupt PROVE TypeInv'
<1> USE DEF TypeInv, TypeOK
<1>1. pulse.op \in Operations
  OBVIOUS
<1>2. board' \in Board /\ RelayFollowsRange(board')
  BY <1>1, CommitAmount DEF PulseInterrupt
<1> QED
  BY <1>2 DEF PulseInterrupt, panelVars

LEMMA TypeStep == ASSUME TypeInv, [Next]_vars PROVE TypeInv'
<1>1. CASE UNCHANGED vars
  BY <1>1 DEF TypeInv, TypeOK, vars
<1> QED
  BY <1>1, ScpiTypes, EncoderTypes, SampleTypes, TouchTypes, KeysTypes, DialogTypes,
     PulseTypes DEF Next, Loop

LEMMA TypeInit == ASSUME Init PROVE TypeInv
<1> USE DEF Init
<1>1. board \in Board /\ RelayFollowsRange(board)
  BY SetupBoard
<1>2. menu \in Menus
  BY MenuFramesAssumption DEF Menus, AllFunctions
<1>3. adc \in Adcs
  BY DEF Adcs, DefaultRate
<1> QED
  BY <1>1, <1>2, <1>3 DEF TypeInv, TypeOK, Operations, AllFunctions, Phases

(* Every variable keeps the type its declaration gives it, and the relay   *)
(* always selects the shunt of the current range: SCPI, menu, dialogs,     *)
(* knob, sweep and pulse included.                                         *)
THEOREM TypeCorrect == Spec => [](TypeOK /\ RelayFollowsRange(board))
<1>1. Init => TypeInv
  BY TypeInit
<1>2. TypeInv /\ [Next]_vars => TypeInv'
  BY TypeStep
<1> QED
  BY <1>1, <1>2, PTL DEF Spec, TypeInv

-----------------------------------------------------------------------------
(* The timers.  Only the menu's callback touches them. *)

LEMMA CallbackTimers ==
  ASSUME TypeInv, OneTimer, NEW f \in AllFunctions, CloseMainMenuCallback(f)
  PROVE  OneTimer'
<1> DEFINE left == CloseFunction(functionType)
<1>1. sampler \in BOOLEAN /\ pulse \in [on : BOOLEAN, op : Operations]
  BY DEF TypeInv, TypeOK
<1>2. /\ pulse' = IF f = PULSE THEN [on |-> TRUE, op |-> operationType] ELSE left.pulse
      /\ sampler' = (f # PULSE /\ left.sampler)
  BY DEF CloseMainMenuCallback
<1>3. /\ left.sampler = (functionType = PULSE \/ sampler)
      /\ left.pulse = IF functionType = PULSE THEN [pulse EXCEPT !.on = FALSE] ELSE pulse
  BY DEF CloseFunction
<1> HIDE DEF left
<1>4. CASE f = PULSE
  <2>1. pulse'.on = TRUE
    BY <1>2, <1>4
  <2>2. sampler' = FALSE
    BY <1>2, <1>4
  <2> QED
    BY <2>1, <2>2 DEF OneTimer
<1>5. CASE f # PULSE /\ functionType = PULSE
  <2>1. pulse'.on = FALSE
    BY <1>1, <1>2, <1>3, <1>5
  <2>2. sampler' = TRUE
    BY <1>2, <1>3, <1>5
  <2> QED
    BY <2>1, <2>2 DEF OneTimer
<1>6. CASE f # PULSE /\ functionType # PULSE
  <2>1. pulse' = pulse
    BY <1>2, <1>3, <1>6
  <2>2. sampler' = sampler
    BY <1>1, <1>2, <1>3, <1>6
  <2> QED
    BY <2>1, <2>2 DEF OneTimer
<1> QED
  BY <1>4, <1>5, <1>6

LEMMA TimersStep == ASSUME TypeInv, OneTimer, [Next]_vars PROVE OneTimer'
<1>1. ASSUME NEW f \in Functions \cup {menu.choice}, MenuSelect(f) PROVE OneTimer'
  <2>1. f \in AllFunctions
    BY MenuChoices DEF TypeInv
  <2> QED
    BY <1>1, <2>1, CallbackTimers DEF MenuSelect
<1>2. CASE UNCHANGED <<sampler, pulse>>
  BY <1>2 DEF OneTimer
<1>3. Scpi => UNCHANGED <<sampler, pulse>>
  BY DEF Scpi, SourceVoltageSCPI, SourceCurrentSCPI, SourceWithoutNumberSCPI,
         SourceVoltageILimitSCPI, SourceCurrentVLimitSCPI, ScpiStep
<1>4. Encoder \/ Sample => UNCHANGED <<sampler, pulse>>
  BY DEF Encoder, RotaryChanged, Sample, SampleMain, SampleOwnLoop, sourceVars
<1>5. Touch => \/ UNCHANGED <<sampler, pulse>>
               \/ \E f \in Functions \cup {menu.choice} : MenuSelect(f)
  BY DEF Touch, NoTouch, SwipeDown, OpenSourceDial, OpenLimitDial, SwapCurrentRange,
         SetSamplingRate, CalibrateSource, CalibrateLimit, SettingsTouch, ButtonTouch,
         sourceVars
<1>6. Keys \/ Dialog => UNCHANGED <<sampler, pulse>>
  BY DEF Keys, KeyOpensMenu, KeyTogglesSettings, EncoderKeyPressed, Dialog, DialOk,
         DialCancel, sourceVars
<1>7. PulseInterrupt \/ UNCHANGED vars => UNCHANGED <<sampler, pulse>>
  BY DEF PulseInterrupt, vars
<1> QED
  BY <1>1, <1>2, <1>3, <1>4, <1>5, <1>6, <1>7 DEF Next, Loop

(* At all times exactly one of the sampling timer and the pulse timer      *)
(* drives the converters, whichever way functions are left, SCPI included. *)
THEOREM TimersExclude == Spec => []OneTimer
<1>1. Init => TypeInv /\ OneTimer
  <2>1. ASSUME Init PROVE sampler = TRUE /\ pulse.on = FALSE
    BY <2>1 DEF Init
  <2> QED
    BY <2>1, TypeInit DEF OneTimer
<1>2. TypeInv /\ OneTimer /\ [Next]_vars => (TypeInv /\ OneTimer)'
  BY TypeStep, TimersStep
<1> QED
  BY <1>1, <1>2, PTL DEF Spec

(* Choosing a DC function in the menu sets up feedback, source, limit and  *)
(* relay, whatever SCPI, a sweep or a pulse did to the board before.       *)
THEOREM MenuSetsUpBoard == Spec => MenuRepairs
<1>1. TypeInv /\ [Next]_vars
        => [\A f \in DcFunctions : MenuSelect(f) => Serves(board', OperationOf(f))]_vars
  <2> SUFFICES ASSUME TypeInv, NEW f \in DcFunctions, MenuSelect(f)
               PROVE  Serves(board', OperationOf(f))
    OBVIOUS
  <2>1. f \in AllFunctions /\ CloseMainMenuCallback(f)
    BY DEF MenuSelect, DcFunctions, AllFunctions
  <2> QED
    BY <2>1, CallbackTypes
<1>2. TypeInv /\ [Next]_vars => TypeInv'
  BY TypeStep
<1>3. Init => TypeInv
  BY TypeInit
<1> QED
  BY <1>1, <1>2, <1>3, PTL DEF Spec, MenuRepairs

-----------------------------------------------------------------------------
(* The panel and the board agree.  A SCPI command changes the board behind *)
(* the panel's back, and a second input in a frame may find operationType  *)
(* stale: both are excluded here.                                          *)

Alone == ~ScpiEnabled /\ OneInputPerFrame

LEMMA AfterAlone == ASSUME Alone, NEW n PROVE After(n) = "Scpi"
BY DEF Alone, After

(* The kinds of functions do not overlap. *)
LEMMA FunctionKinds ==
  /\ \A f \in DcFunctions : f \notin OwnLoop /\ f # PULSE /\ f # SWEEP
  /\ \A f : OperationOf(f) \in Operations
BY DEF DcFunctions, OwnLoop, OperationOf, Operations,
       DCV, DCC, PULSE, SWEEP, DIGITIZE, GRAPH, LOGGER

(* What most steps do to the panel: nothing, or they close, deselect.      *)
LEMMA FrameKeeps ==
  ASSUME PanelInv, DcScreenTruthful',
         functionType' = functionType, operationType' = operationType,
         knob' = knob, pulse' = pulse, sampler' = sampler,
         digitSelected' => digitSelected,
         \A d \in Dials : dials'[d] \in {dials[d], "closed"},
         menu'.active => menu.active \/ \A d \in Dials : dials'[d] = "closed",
         phase' \in {"Touch"} \cup Tail /\ functionType \notin OwnLoop => OperationFresh
  PROVE  PanelInv'
<1>1. OneTimer' /\ (pulse.on = (functionType = PULSE))'
  BY DEF PanelInv, OneTimer
<1>2. DialCommitsItsType'
  BY DEF PanelInv, DialCommitsItsType
<1>3. DialOpen' => OperationFresh' /\ ~menu'.active
  BY DEF PanelInv, DialOpen, OperationFresh
<1>4. (knob' = "VoltCurrent") = (functionType' \in DcFunctions)
  BY DEF PanelInv
<1>5. digitSelected' => OperationFresh' /\ functionType' \in DcFunctions
  BY DEF PanelInv, OperationFresh
<1>6. phase' \in {"Touch"} \cup Tail /\ functionType' \notin OwnLoop => OperationFresh'
  BY DEF OperationFresh
<1> QED
  BY <1>1, <1>2, <1>3, <1>4, <1>5, <1>6 DEF PanelInv

(* While touched, loopMain's operationType is fresh.                       *)
LEMMA TouchFresh ==
  ASSUME PanelInv, phase \in {"Touch"} \cup Tail, functionType \notin OwnLoop
  PROVE  OperationFresh
BY DEF PanelInv

LEMMA GoTouch ==
  ASSUME Alone, NEW n, Go("Touch", After(n)) PROVE phase = "Touch" /\ phase' = "Scpi"
BY AfterAlone DEF Go, Skips

LEMMA EncoderPanel == ASSUME Alone, TypeInv, PanelInv, Encoder PROVE PanelInv'
<1>1. PICK m \in Micros : RotaryChanged(m)
  BY DEF Encoder
<1>2. digitSelected /\ OperationFresh /\ functionType \in DcFunctions
  BY <1>1 DEF RotaryChanged, KnobEdits, PanelInv
<1>3. board \in Board /\ operationType \in Operations
  BY DEF TypeInv, TypeOK
<1>4. SourceAmount(operationType, m) \in Quantity
  BY <1>3, AmountTypes, MicrosAssumption
<1>5. Serves(board, operationType)
  BY <1>2 DEF PanelInv, DcScreenTruthful, OperationFresh
<1>6. Serves(board', operationType)
  BY <1>1, <1>3, <1>4, <1>5, RecommitServes DEF RotaryChanged
<1>7. DcScreenTruthful'
  BY <1>1, <1>2, <1>6 DEF DcScreenTruthful, OperationFresh, RotaryChanged, panelVars
<1> QED
  BY <1>1, <1>2, <1>7, FrameKeeps DEF RotaryChanged, panelVars

LEMMA SamplePanel == ASSUME Alone, TypeInv, PanelInv, Sample PROVE PanelInv'
<1>1. CASE SampleMain
  <2>1. /\ operationType' = OperationOf(functionType)
        /\ functionType' = functionType /\ functionType \notin OwnLoop
        /\ UNCHANGED <<menu, dials, knob, pulse, sampler>>
        /\ digitSelected' => digitSelected
    <3>1. digitSelected' \in {digitSelected, FALSE}
      BY <1>1 DEF SampleMain
    <3>2. digitSelected' => digitSelected
      BY ONLY <3>1
    <3> QED
      BY <1>1, <3>2 DEF SampleMain
  <2>2. OperationFresh'
    BY <2>1 DEF OperationFresh
  <2>3. DialCommitsItsType'
    BY <2>1 DEF PanelInv, DialCommitsItsType, DialOpen, OperationFresh
  <2>4. DcScreenTruthful'
    <3> SUFFICES ASSUME functionType \in DcFunctions
                 PROVE  Serves(board', OperationOf(functionType))
      BY <2>1 DEF DcScreenTruthful
    <3>1. functionType # SWEEP
      BY FunctionKinds
    <3>2. PICK load \in Loads :
            board' = IF autoRange THEN HandleAutoCurrentRange(board, load) ELSE board
      BY <1>1, <3>1 DEF SampleMain
    <3>3. Serves(board, OperationOf(functionType))
      BY DEF PanelInv, DcScreenTruthful
    <3>4. board \in Board /\ RelayFollowsRange(board) /\ OperationOf(functionType) \in Operations
      BY FunctionKinds DEF TypeInv, TypeOK
    <3> QED
      BY <3>2, <3>3, <3>4, AutoRangeBoard
  <2>5. DialOpen' => ~menu'.active
    BY <2>1 DEF PanelInv, DialOpen
  <2>6. OneTimer' /\ (pulse.on = (functionType = PULSE))'
        /\ ((knob = "VoltCurrent") = (functionType \in DcFunctions))'
        /\ (digitSelected' => functionType' \in DcFunctions)
    BY <2>1 DEF PanelInv, OneTimer
  <2> QED
    BY <2>2, <2>3, <2>4, <2>5, <2>6 DEF PanelInv
<1>2. CASE SampleOwnLoop
  <2>1. functionType \in OwnLoop /\ UNCHANGED <<panelVars, sourceVars>>
    BY <1>2 DEF SampleOwnLoop
  <2>2. DcScreenTruthful'
    BY <2>1 DEF PanelInv, DcScreenTruthful, panelVars, sourceVars
  <2> QED
    BY <2>1, <2>2, FrameKeeps DEF panelVars, sourceVars
<1> QED
  BY <1>1, <1>2 DEF Sample

(* Opening the menu closes the dialogs. *)
LEMMA OpenMenuPanel ==
  ASSUME PanelInv, OpenMainMenu, phase' = "Scpi",
         UNCHANGED <<sourceVars, functionType, operationType, digitSelected, knob>>
  PROVE  PanelInv'
<1>1. DcScreenTruthful'
  BY DEF PanelInv, DcScreenTruthful, sourceVars
<1>2. \A d \in Dials : dials'[d] = "closed"
  BY DEF OpenMainMenu
<1>3. phase' \notin {"Touch"} \cup Tail
  BY DEF Tail
<1> QED
  BY <1>1, <1>2, <1>3, FrameKeeps DEF sourceVars

LEMMA MenuSelectPanel ==
  ASSUME Alone, TypeInv, PanelInv, NEW f \in AllFunctions, MenuSelect(f)
  PROVE  PanelInv'
<1>1. /\ CloseMainMenuCallback(f) /\ menu.active
      /\ dials' = dials /\ operationType' = operationType /\ phase' = "Scpi"
  BY GoTouch DEF MenuSelect, MenuDown
<1>2. ~DialOpen
  BY <1>1 DEF PanelInv
<1>3. ~DialOpen' /\ DialCommitsItsType'
  BY <1>1, <1>2 DEF DialOpen, DialCommitsItsType
<1>4. functionType' = f
  BY <1>1 DEF CloseMainMenuCallback
<1>5. DcScreenTruthful'
  BY <1>1, <1>4, CallbackTypes DEF DcScreenTruthful
<1>6. OneTimer'
  BY <1>1, CallbackTimers DEF PanelInv
<1>7. pulse'.on = (f = PULSE)
  <2>1. /\ f = PULSE => pulse'.on = TRUE
        /\ f # PULSE => pulse' = CloseFunction(functionType).pulse
    BY <1>1 DEF CloseMainMenuCallback
  <2>2. CloseFunction(functionType).pulse
          = IF functionType = PULSE THEN [pulse EXCEPT !.on = FALSE] ELSE pulse
    BY DEF CloseFunction
  <2>3. pulse \in [on : BOOLEAN, op : Operations]
    BY DEF TypeInv, TypeOK
  <2>4. functionType # PULSE => pulse.on = FALSE
    BY DEF PanelInv
  <2>5. CloseFunction(functionType).pulse.on = FALSE
    BY <2>2, <2>3, <2>4
  <2> QED
    BY <2>1, <2>5
<1>8. (knob' = "VoltCurrent") = (f \in DcFunctions)
  <2>1. knob' = KnobOf(f)
    BY <1>1 DEF CloseMainMenuCallback
  <2>2. CASE f \in DcFunctions
    BY <2>1, <2>2 DEF KnobOf, DcFunctions, DCV, DCC, PULSE, DIGITIZE, LOGGER
  <2>3. CASE f \notin DcFunctions
    <3>1. KnobOf(f) \in {"Own", "DontCare"}
      BY <2>3 DEF KnobOf
    <3> QED
      BY <2>1, <2>3, <3>1
  <2> QED
    BY <2>2, <2>3
<1>9. ~digitSelected'
  <2>1. digitSelected' = (functionType \notin DcFunctions /\ digitSelected)
    BY <1>1 DEF CloseMainMenuCallback, CloseFunction
  <2> QED
    BY <2>1 DEF PanelInv
<1>10. phase' \notin {"Touch"} \cup Tail
  BY <1>1 DEF Tail
<1> QED
  BY <1>3, <1>4, <1>5, <1>6, <1>7, <1>8, <1>9, <1>10 DEF PanelInv

(* A dialog opens with the operation of the screen. *)
LEMMA OpenDialPanel ==
  ASSUME Alone, TypeInv, PanelInv, ButtonTouch, board' = board, NEW d \in Dials,
         dials' = [dials EXCEPT ![d] = operationType]
  PROVE  PanelInv'
<1>1. /\ UNCHANGED <<functionType, operationType, menu, digitSelected, knob, pulse, sampler>>
      /\ phase = "Touch" /\ phase' = "Scpi" /\ ~menu.active /\ functionType \notin OwnLoop
  BY GoTouch DEF ButtonTouch, MainPanel
<1>2. OperationFresh
  BY <1>1, TouchFresh
<1>3. dials \in [Dials -> {"closed"} \cup Operations]
  BY DEF TypeInv, TypeOK
<1>4. DialCommitsItsType'
  BY <1>1, <1>3 DEF PanelInv, DialCommitsItsType
<1>5. OperationFresh' /\ DcScreenTruthful' /\ OneTimer'
  BY <1>1, <1>2 DEF OperationFresh, PanelInv, DcScreenTruthful, OneTimer
<1> QED
  BY <1>1, <1>4, <1>5 DEF PanelInv

LEMMA TouchPanel == ASSUME Alone, TypeInv, PanelInv, Touch PROVE PanelInv'
<1>1. board \in Board /\ operationType \in Operations /\ menu \in Menus
  BY DEF TypeInv, TypeOK
<1>2. board' = board /\ functionType' = functionType => DcScreenTruthful'
  BY DEF PanelInv, DcScreenTruthful
<1>3. ASSUME NEW n, Go("Touch", After(n)) PROVE phase' \notin {"Touch"} \cup Tail
  BY <1>3, GoTouch DEF Tail
<1>4. CASE NoTouch
  <2>1. phase = "Touch"
    BY <1>4 DEF NoTouch, Go, Skips
  <2>2. menu'.active => menu.active
    BY <1>1, <1>4, MenuRenderKeeps DEF NoTouch
  <2>3. functionType \notin OwnLoop => OperationFresh
    BY <2>1, TouchFresh
  <2> QED
    BY <1>2, <1>4, <2>2, <2>3, FrameKeeps DEF NoTouch, sourceVars
<1>5. CASE SwipeDown
  BY <1>5, GoTouch, OpenMenuPanel DEF SwipeDown
<1>6. ASSUME NEW f \in Functions \cup {menu.choice}, MenuSelect(f) PROVE PanelInv'
  BY <1>6, MenuChoices, MenuSelectPanel DEF TypeInv
<1>7. "SET" \in Dials /\ "LIMIT" \in Dials
  BY DEF Dials
<1>8. CASE OpenSourceDial
  BY <1>7, <1>8, OpenDialPanel DEF OpenSourceDial
<1>9. CASE OpenLimitDial
  BY <1>7, <1>9, OpenDialPanel DEF OpenLimitDial
<1>10. ASSUME ButtonTouch, dials' = dials,
              Serves(board, operationType) => Serves(board', operationType)
       PROVE  PanelInv'
  <2>1. /\ UNCHANGED <<functionType, operationType, menu, digitSelected, knob, pulse, sampler>>
        /\ phase = "Touch" /\ functionType \notin OwnLoop
    BY <1>10, GoTouch DEF ButtonTouch, MainPanel
  <2>2. OperationFresh
    BY <2>1, TouchFresh
  <2>3. DcScreenTruthful'
    BY <1>10, <2>1, <2>2 DEF PanelInv, DcScreenTruthful, OperationFresh
  <2> QED
    BY <1>10, <2>1, <2>2, <2>3, FrameKeeps
<1>11. CASE SwapCurrentRange
  <2> DEFINE r == IF board.range = "AMP1" THEN "MILLIAMP10" ELSE "AMP1"
  <2>1. r \in CurrentRanges /\ board' = SetCurrentRange(board, r, operationType)
    BY <1>11 DEF SwapCurrentRange, CurrentRanges
  <2> HIDE DEF r
  <2>2. Serves(board, operationType) => Serves(board', operationType)
    BY <1>1, <2>1, RangeServes
  <2> QED
    BY <1>10, <1>11, <2>2 DEF SwapCurrentRange
<1>12. ASSUME NEW r \in UserRates, SetSamplingRate(r) PROVE PanelInv'
  BY <1>10, <1>12 DEF SetSamplingRate
<1>13. CASE CalibrateSource
  <2>1. Serves(board, operationType) => Serves(board', operationType)
    BY <1>1, <1>13, RecommitServes DEF CalibrateSource, Board
  <2> QED
    BY <1>10, <1>13, <2>1 DEF CalibrateSource
<1>14. CASE CalibrateLimit
  <2>1. board' = SetCommitLimit(board, operationType, board.limit)
    BY <1>14 DEF CalibrateLimit, SetCommitLimit
  <2>2. Serves(board, operationType) => Serves(board', operationType)
    BY <1>1, <2>1, RecommitServes DEF Board
  <2> QED
    BY <1>10, <1>14, <2>2 DEF CalibrateLimit
<1>15. CASE SettingsTouch
  BY <1>2, <1>3, <1>15, FrameKeeps DEF SettingsTouch, sourceVars
<1> QED
  BY <1>4, <1>5, <1>6, <1>8, <1>9, <1>11, <1>12, <1>13, <1>14, <1>15 DEF Touch

LEMMA KeysPanel == ASSUME Alone, TypeInv, PanelInv, Keys PROVE PanelInv'
<1>1. \A n : After(n) = "Scpi"
  BY AfterAlone
<1>2. "Scpi" \notin {"Touch"} \cup Tail
  BY DEF Tail
<1>3. CASE KeyOpensMenu
  BY <1>1, <1>3, OpenMenuPanel DEF KeyOpensMenu, Go
<1>4. CASE KeyTogglesSettings
  <2>1. DcScreenTruthful'
    BY <1>4 DEF KeyTogglesSettings, PanelInv, DcScreenTruthful, sourceVars
  <2> QED
    BY <1>1, <1>2, <1>4, <2>1, FrameKeeps DEF KeyTogglesSettings, Go, sourceVars
<1>5. CASE EncoderKeyPressed
  <2>1. /\ UNCHANGED <<board, functionType, operationType, menu, dials, knob, pulse, sampler>>
        /\ knob = "VoltCurrent" /\ phase \in Tail /\ phase' = "Scpi"
    BY <1>1, <1>5 DEF EncoderKeyPressed, Go, Skips, Tail, sourceVars
  <2>2. functionType \in DcFunctions
    BY <2>1 DEF PanelInv
  <2>3. OperationFresh
    BY <2>1, <2>2, TouchFresh, FunctionKinds
  <2>4. OperationFresh' /\ DcScreenTruthful' /\ OneTimer' /\ DialCommitsItsType'
    BY <2>1, <2>3
    DEF OperationFresh, PanelInv, DcScreenTruthful, OneTimer, DialCommitsItsType
  <2>5. DialOpen' => ~menu'.active
    BY <2>1 DEF PanelInv, DialOpen
  <2> QED
    BY <2>1, <2>2, <2>4, <2>5 DEF PanelInv
<1> QED
  BY <1>3, <1>4, <1>5 DEF Keys

LEMMA DialogPanel == ASSUME Alone, TypeInv, PanelInv, Dialog PROVE PanelInv'
<1>1. board \in Board /\ operationType \in Operations
      /\ dials \in [Dials -> {"closed"} \cup Operations]
  BY DEF TypeInv, TypeOK
<1>2. "Scpi" \notin {"Touch"} \cup Tail
  BY DEF Tail
<1>3. ASSUME NEW d \in Dials, dials' = [dials EXCEPT ![d] = "closed"]
      PROVE  \A e \in Dials : dials'[e] \in {dials[e], "closed"}
  BY <1>1, <1>3
<1>4. ASSUME NEW d \in Dials, DialCancel(d) PROVE PanelInv'
  <2>1. DcScreenTruthful'
    BY <1>4 DEF DialCancel, PanelInv, DcScreenTruthful, sourceVars
  <2> QED
    BY <1>2, <1>3, <1>4, <2>1, FrameKeeps DEF DialCancel, Go, sourceVars
<1>5. ASSUME NEW d \in Dials, NEW m \in Micros, DialOk(d, m) PROVE PanelInv'
  <2>1. DialOpen /\ dials[d] \in Operations
    BY <1>1, <1>5 DEF DialOk, DialOnTop, DialOpen
  <2>2. OperationFresh
    BY <2>1 DEF PanelInv
  <2>3. SourceAmount(dials[d], m) \in Quantity /\ LimitAmount(dials[d], m) \in Quantity
    BY <2>1, AmountTypes, MicrosAssumption
  <2>4. Serves(board, operationType) => Serves(board', operationType)
    BY <1>1, <1>5, <2>3, RecommitServes DEF DialOk
  <2>5. DcScreenTruthful'
    BY <1>5, <2>2, <2>4 DEF DialOk, PanelInv, DcScreenTruthful, OperationFresh
  <2> QED
    BY <1>2, <1>3, <1>5, <2>5, FrameKeeps DEF DialOk, Go
<1> QED
  BY <1>4, <1>5 DEF Dialog

LEMMA PulsePanel == ASSUME TypeInv, PanelInv, PulseInterrupt PROVE PanelInv'
<1>1. functionType = PULSE
  BY DEF PulseInterrupt, PanelInv
<1>2. DcScreenTruthful'
  BY <1>1, FunctionKinds DEF PulseInterrupt, panelVars, DcScreenTruthful
<1>3. phase \in {"Touch"} \cup Tail /\ functionType \notin OwnLoop => OperationFresh
  BY DEF PanelInv
<1> QED
  BY <1>2, <1>3, FrameKeeps DEF PulseInterrupt, panelVars

LEMMA PanelStep == ASSUME Alone, TypeInv, PanelInv, [Next]_vars PROVE PanelInv'
<1>1. CASE UNCHANGED vars
  BY <1>1 DEF vars, PanelInv, DcScreenTruthful, OneTimer, DialCommitsItsType, DialOpen,
              OperationFresh
<1>2. ~Scpi
  BY DEF Alone, Scpi, ScpiStep, SourceVoltageSCPI, SourceCurrentSCPI,
         SourceWithoutNumberSCPI, SourceVoltageILimitSCPI, SourceCurrentVLimitSCPI
<1> QED
  BY <1>1, <1>2, EncoderPanel, SamplePanel, TouchPanel, KeysPanel, DialogPanel, PulsePanel
  DEF Next, Loop

LEMMA PanelInit == ASSUME Init PROVE PanelInv
<1>1. /\ board = AfterSetup /\ functionType = DCV /\ operationType = VOLTAGE
      /\ dials = [d \in Dials |-> "closed"] /\ digitSelected = FALSE /\ sampler = TRUE
      /\ knob = "VoltCurrent" /\ phase = "Scpi"
  BY DEF Init
<1>2. pulse.on = FALSE
  BY DEF Init
<1>3. ~DialOpen /\ DialCommitsItsType
  BY <1>1 DEF DialOpen, DialCommitsItsType
<1>4. DCV \in DcFunctions /\ DCV # PULSE /\ OperationOf(DCV) = VOLTAGE
  BY DEF DcFunctions, DCV, DCC, PULSE, OperationOf
<1>5. DcScreenTruthful
  BY <1>1, <1>4, SetupBoard DEF DcScreenTruthful
<1>6. phase \notin {"Touch"} \cup Tail
  BY <1>1 DEF Tail
<1> QED
  BY <1>1, <1>2, <1>3, <1>4, <1>5, <1>6 DEF PanelInv, OneTimer

(* The inductive invariant behind the next theorems.                       *)
THEOREM PanelInvariant == ASSUME Alone PROVE Spec => [](TypeInv /\ PanelInv)
<1>1. Init => TypeInv /\ PanelInv
  BY TypeInit, PanelInit
<1>2. TypeInv /\ PanelInv /\ [Next]_vars => (TypeInv /\ PanelInv)'
  BY TypeStep, PanelStep
<1> QED
  BY <1>1, <1>2, PTL DEF Spec

(* Whenever a DC function is selected, feedback, both DAC channels and the *)
(* relay serve what its panel says is sourced.                             *)
THEOREM ScreenTruthful == ASSUME Alone PROVE Spec => []DcScreenTruthful
<1>1. TypeInv /\ PanelInv => DcScreenTruthful
  BY DEF PanelInv
<1> QED
  BY <1>1, PanelInvariant, PTL

(* A number typed into a dialog is committed as what the dialog asked for. *)
THEOREM DialogsTruthful == ASSUME Alone PROVE Spec => []DialCommitsItsType
<1>1. TypeInv /\ PanelInv => DialCommitsItsType
  BY DEF PanelInv
<1> QED
  BY <1>1, PanelInvariant, PTL

(* Turning the knob sources what the selected DC screen sources.           *)
THEOREM KnobTruthful == ASSUME Alone PROVE Spec => KnobFollowsScreen
<1>1. TypeInv /\ PanelInv /\ [Next]_vars
        => [\A m \in Micros : RotaryChanged(m) =>
              functionType \in DcFunctions /\ board'.op = OperationOf(functionType)]_vars
  <2> SUFFICES ASSUME TypeInv, PanelInv, NEW m \in Micros, RotaryChanged(m)
               PROVE  functionType \in DcFunctions /\ board'.op = OperationOf(functionType)
    OBVIOUS
  <2>1. functionType \in DcFunctions /\ OperationFresh
    BY DEF RotaryChanged, KnobEdits, PanelInv
  <2>2. Serves(board, operationType) /\ board \in Board /\ operationType \in Operations
    BY <2>1 DEF PanelInv, DcScreenTruthful, OperationFresh, TypeInv, TypeOK
  <2>3. SourceAmount(operationType, m) \in Quantity
    BY <2>2, AmountTypes, MicrosAssumption
  <2>4. Serves(board', operationType)
    BY <2>2, <2>3, RecommitServes DEF RotaryChanged
  <2> QED
    BY <2>1, <2>4 DEF Serves, OperationFresh
<1> QED
  BY <1>1, PanelInvariant, PTL DEF Spec, KnobFollowsScreen

-----------------------------------------------------------------------------
(* The ADC.  While the digitizer is open, the rate it saved is a user's.   *)

AdcInv ==
  /\ AdcRestored
  /\ functionType = DIGITIZE => adc.saved # DigitizeRate

(* Whatever function is left, its clean-up leaves the ADC as a user set it. *)
LEMMA CloseRestores ==
  ASSUME TypeInv, AdcInv
  PROVE  LET a == CloseFunction(functionType).adc
         IN  /\ a \in Adcs
             /\ a.rate # DigitizeRate /\ a.volt /\ (a.curr \/ a.voltageOnly) /\ ~a.digitize
<1>1. adc \in Adcs
  BY DEF TypeInv, TypeOK
<1>2. CASE functionType = DIGITIZE
  <2>1. CloseFunction(functionType).adc = DigitizerClose(adc)
    BY <1>2 DEF CloseFunction
  <2>2. DigitizerClose(adc) \in Adcs
    BY <1>1, DigitizerTypes
  <2> QED
    BY <1>1, <1>2, <2>1, <2>2 DEF AdcInv, DigitizerClose, Adcs
<1>3. CASE functionType # DIGITIZE
  <2>1. CloseFunction(functionType).adc = adc
    BY <1>3 DEF CloseFunction
  <2> QED
    BY <1>1, <1>3, <2>1 DEF AdcInv, AdcRestored
<1> QED
  BY <1>2, <1>3

LEMMA CallbackAdc ==
  ASSUME TypeInv, AdcInv, NEW f \in AllFunctions, CloseMainMenuCallback(f)
  PROVE  AdcInv'
<1> DEFINE a == CloseFunction(functionType).adc
<1>1. /\ a \in Adcs
      /\ a.rate # DigitizeRate /\ a.volt /\ (a.curr \/ a.voltageOnly) /\ ~a.digitize
  BY CloseRestores
<1>2. functionType' = f
  BY DEF CloseMainMenuCallback
<1>3. CASE f = DIGITIZE
  <2>1. PICK v \in BOOLEAN : adc' = DigitizerOpen(a, v)
    BY <1>3 DEF CloseMainMenuCallback
  <2> HIDE DEF a
  <2>2. adc'.saved = a.rate
    BY <1>1, <2>1 DEF DigitizerOpen, Adcs
  <2> QED
    BY <1>1, <1>2, <1>3, <2>2 DEF AdcInv, AdcRestored
<1>4. CASE f # DIGITIZE
  <2>1. adc' = a
    BY <1>4 DEF CloseMainMenuCallback
  <2> QED
    BY <1>1, <1>2, <1>4, <2>1 DEF AdcInv, AdcRestored
<1> QED
  BY <1>3, <1>4

LEMMA AdcStep == ASSUME ~ScpiEnabled, TypeInv, AdcInv, [Next]_vars PROVE AdcInv'
<1>1. adc \in Adcs
  BY DEF TypeInv, TypeOK
<1>2. CASE UNCHANGED <<functionType, adc>>
  BY <1>2 DEF AdcInv, AdcRestored
<1>3. ~Scpi
  BY DEF Scpi, ScpiStep, SourceVoltageSCPI, SourceCurrentSCPI,
         SourceWithoutNumberSCPI, SourceVoltageILimitSCPI, SourceCurrentVLimitSCPI
<1>4. ASSUME NEW f \in Functions \cup {menu.choice}, MenuSelect(f) PROVE AdcInv'
  BY <1>4, MenuChoices, CallbackAdc DEF MenuSelect, TypeInv
<1>5. ASSUME NEW r \in UserRates, SetSamplingRate(r) PROVE AdcInv'
  <2>1. functionType' = functionType /\ adc' = [adc EXCEPT !.rate = r]
    BY <1>5 DEF SetSamplingRate, ButtonTouch
  <2> QED
    BY <1>1, <2>1, UserRatesAssumption DEF AdcInv, AdcRestored, Adcs
<1>6. CASE SettingsTouch
  <2>1. functionType' = functionType /\ functionType # DIGITIZE
    BY <1>6 DEF SettingsTouch, Panel, OwnLoop
  <2>2. \/ adc' = adc
        \/ adc' = [adc EXCEPT !.voltageOnly = ~@, !.volt = TRUE, !.curr = adc.voltageOnly]
    BY <1>6 DEF SettingsTouch
  <2> QED
    BY <1>1, <2>1, <2>2 DEF AdcInv, AdcRestored, Adcs
<1>7. CASE SampleOwnLoop
  <2>1. functionType' = functionType
    BY <1>7 DEF SampleOwnLoop, panelVars
  <2>2. \/ adc' = adc
        \/ /\ functionType = DIGITIZE
           /\ \/ \E v \in BOOLEAN : adc' = [adc EXCEPT !.digitize = TRUE, !.volt = v, !.curr = ~v]
              \/ \E full \in BOOLEAN : adc' = [adc EXCEPT !.digitize = ~full]
    BY <1>7 DEF SampleOwnLoop
  <2>3. adc'.saved = adc.saved \/ adc' = adc
    BY <1>1, <2>2 DEF Adcs
  <2> QED
    BY <2>1, <2>2, <2>3 DEF AdcInv, AdcRestored
<1>8. Encoder \/ SampleMain => UNCHANGED <<functionType, adc>>
  BY DEF Encoder, RotaryChanged, SampleMain, panelVars
<1>9. Touch => \/ UNCHANGED <<functionType, adc>>
               \/ \E f \in Functions \cup {menu.choice} : MenuSelect(f)
               \/ \E r \in UserRates : SetSamplingRate(r)
               \/ SettingsTouch
  BY DEF Touch, NoTouch, SwipeDown, OpenSourceDial, OpenLimitDial, SwapCurrentRange,
         CalibrateSource, CalibrateLimit, ButtonTouch
<1>10. Keys \/ Dialog => UNCHANGED <<functionType, adc>>
  BY DEF Keys, KeyOpensMenu, KeyTogglesSettings, EncoderKeyPressed, Dialog, DialOk, DialCancel
<1>11. PulseInterrupt \/ UNCHANGED vars => UNCHANGED <<functionType, adc>>
  BY DEF PulseInterrupt, panelVars, vars
<1> QED
  BY <1>2, <1>3, <1>4, <1>5, <1>6, <1>7, <1>8, <1>9, <1>10, <1>11 DEF Next, Loop, Sample

(* Whoever leaves the digitizer, the ADC measures slowly and on both       *)
(* channels again; without a SCPI client, who could select a DC function   *)
(* without leaving it.                                                     *)
THEOREM AdcGivenBack == ASSUME ~ScpiEnabled PROVE Spec => []AdcRestored
<1>1. Init => TypeInv /\ AdcInv
  <2>1. ASSUME Init PROVE AdcInv
    BY <2>1 DEF Init, AdcInv, AdcRestored, DCV, DIGITIZE, DefaultRate, DigitizeRate
  <2> QED
    BY <2>1, TypeInit
<1>2. TypeInv /\ AdcInv /\ [Next]_vars => (TypeInv /\ AdcInv)'
  BY TypeStep, AdcStep
<1>3. TypeInv /\ AdcInv => AdcRestored
  BY DEF AdcInv
<1> QED
  BY <1>1, <1>2, <1>3, PTL DEF Spec

-----------------------------------------------------------------------------
(* Units and scale.  A user who chooses only the DC functions and those    *)
(* with a loop of their own never makes the board source for another.      *)

Plain == Functions \subseteq DcFunctions \cup OwnLoop

UnitsInv ==
  /\ functionType \in DcFunctions \cup OwnLoop
  /\ menu.choice \in DcFunctions \cup OwnLoop
  /\ UnitsServe(board, board.op)
  /\ SourceScaledForRange

LEMMA PlainFunctions ==
  /\ \A f \in DcFunctions \cup OwnLoop : f # PULSE /\ f # SWEEP /\ f \in AllFunctions
  /\ \A f \in OwnLoop : f # DCV /\ f # DCC
BY DEF DcFunctions, OwnLoop, AllFunctions, DCV, DCC, PULSE, SWEEP, DIGITIZE, GRAPH, LOGGER

(* On a DC screen the board sources what the screen says.                  *)
LEMMA OnDcScreen ==
  ASSUME DcScreenTruthful, functionType \in DcFunctions
  PROVE  board.op = OperationOf(functionType) /\ SourceScaledForRange
<1>1. Serves(board, OperationOf(functionType))
  BY DEF DcScreenTruthful
<1> QED
  BY <1>1 DEF Serves, SourceScaledForRange

(* What a step may do that selects no function: nothing to the board, or,  *)
(* on a DC screen, what keeps its numbers the screen's.                    *)
LEMMA UnitsKeep ==
  ASSUME UnitsInv, DcScreenTruthful, DcScreenTruthful',
         functionType' = functionType, menu'.choice = menu.choice,
         \/ board' = board
         \/ /\ functionType \in DcFunctions
            /\ UnitsServe(board, OperationOf(functionType))
                 => UnitsServe(board', OperationOf(functionType))
  PROVE  UnitsInv'
<1>1. CASE board' = board
  BY <1>1 DEF UnitsInv, SourceScaledForRange
<1>2. CASE /\ functionType \in DcFunctions
           /\ UnitsServe(board, OperationOf(functionType))
                => UnitsServe(board', OperationOf(functionType))
  <2>1. board.op = OperationOf(functionType)
    BY <1>2, OnDcScreen
  <2>2. board'.op = OperationOf(functionType) /\ SourceScaledForRange'
    <3>1. Serves(board', OperationOf(functionType))
      BY <1>2 DEF DcScreenTruthful
    <3> QED
      BY <3>1 DEF Serves, SourceScaledForRange
  <2> QED
    BY <1>2, <2>1, <2>2 DEF UnitsInv
<1> QED
  BY <1>1, <1>2

LEMMA MenuSelectUnits ==
  ASSUME TypeInv, UnitsInv, NEW f \in DcFunctions \cup OwnLoop, MenuSelect(f)
  PROVE  UnitsInv'
<1>1. f \in AllFunctions /\ f # PULSE
  BY PlainFunctions
<1>2. CloseMainMenuCallback(f) /\ functionType' = f /\ board' = OpenBoard(f)
  BY DEF MenuSelect, CloseMainMenuCallback
<1>3. menu'.choice = f
  <2> DEFINE m == [menu EXCEPT !.choice = f, !.dir = -1]
  <2>1. m \in Menus /\ m.choice = f
    BY <1>1 DEF TypeInv, TypeOK, Menus
  <2>2. menu' = m \/ menu' = MenuRender(m)
    BY DEF MenuSelect
  <2> HIDE DEF m
  <2> QED
    BY <2>1, <2>2, MenuRenderKeeps
<1>4. board \in Board /\ operationType \in Operations /\ UnitsServe(board, board.op)
  BY DEF TypeInv, TypeOK, UnitsInv
<1>5. CASE f \in DcFunctions
  <2>1. Serves(board', OperationOf(f))
    BY <1>1, <1>2, <1>5, CallbackTypes
  <2>2. UnitsServe(board', OperationOf(f))
    <3>1. CASE f = DCV
      <4>1. board' = OpenVoltage(board) /\ OperationOf(f) = VOLTAGE
        BY <1>2, <3>1 DEF OpenBoard, OperationOf, DCV, DCC, PULSE
      <4> QED
        BY <1>4, <4>1, OpenVoltageUnits
    <3>2. CASE f = DCC
      <4>1. board' = OpenCurrent(board, operationType) /\ OperationOf(f) = CURRENT
        BY <1>2, <3>2 DEF OpenBoard, OperationOf, DCV, DCC, PULSE
      <4> QED
        BY <1>4, <4>1, OpenCurrentUnits
    <3> QED
      BY <1>5, <3>1, <3>2 DEF DcFunctions
  <2> QED
    BY <1>2, <1>3, <2>1, <2>2 DEF Serves, UnitsInv, SourceScaledForRange
<1>6. CASE f \in OwnLoop
  <2>1. board' = board
    BY <1>1, <1>2, <1>6, PlainFunctions DEF OpenBoard
  <2> QED
    BY <1>2, <1>3, <1>6, <2>1 DEF UnitsInv, SourceScaledForRange
<1> QED
  BY <1>5, <1>6

LEMMA SampleUnits ==
  ASSUME TypeInv, PanelInv, PanelInv', UnitsInv, Sample
  PROVE  UnitsInv'
<1>1. DcScreenTruthful /\ DcScreenTruthful' /\ board \in Board
  BY DEF PanelInv, TypeInv, TypeOK
<1>2. functionType' = functionType /\ menu' = menu
  BY DEF Sample, SampleMain, SampleOwnLoop, panelVars
<1>3. CASE SampleMain
  <2>1. functionType \in DcFunctions /\ functionType # SWEEP
    BY <1>3, PlainFunctions DEF SampleMain, UnitsInv
  <2>2. PICK load \in Loads :
          board' = IF autoRange THEN HandleAutoCurrentRange(board, load) ELSE board
    BY <1>3, <2>1 DEF SampleMain
  <2>3. board'.value = board.value /\ board'.limit = board.limit
    BY <1>1, <2>2, AutoRangeKeepsNumbers
  <2>4. UnitsServe(board, OperationOf(functionType)) => UnitsServe(board', OperationOf(functionType))
    BY <2>3 DEF UnitsServe
  <2> QED
    BY <1>1, <1>2, <2>1, <2>4, UnitsKeep
<1>4. CASE SampleOwnLoop
  BY <1>1, <1>2, <1>4, UnitsKeep DEF SampleOwnLoop, sourceVars
<1> QED
  BY <1>3, <1>4 DEF Sample

LEMMA TouchUnits ==
  ASSUME Alone, Plain, TypeInv, PanelInv, PanelInv', UnitsInv, Touch
  PROVE  UnitsInv'
<1>1. DcScreenTruthful /\ DcScreenTruthful' /\ board \in Board /\ operationType \in Operations
      /\ menu \in Menus
  BY DEF PanelInv, TypeInv, TypeOK
<1>2. ASSUME NEW f \in Functions \cup {menu.choice}, MenuSelect(f) PROVE UnitsInv'
  <2>1. f \in DcFunctions \cup OwnLoop
    BY DEF Plain, UnitsInv
  <2> QED
    BY <1>2, <2>1, MenuSelectUnits
<1>3. CASE NoTouch
  <2>1. menu'.choice = menu.choice
    BY <1>1, <1>3, MenuRenderKeeps DEF NoTouch
  <2> QED
    BY <1>1, <1>3, <2>1, UnitsKeep DEF NoTouch, sourceVars
<1>4. CASE SwipeDown
  <2>1. menu'.choice = menu.choice
    BY <1>1, <1>4 DEF SwipeDown, OpenMainMenu, MenuOpen, Menus
  <2> QED
    BY <1>1, <1>4, <2>1, UnitsKeep DEF SwipeDown, sourceVars
<1>5. ASSUME ButtonTouch, board' = board PROVE UnitsInv'
  BY <1>1, <1>5, UnitsKeep DEF ButtonTouch
<1>6. ASSUME ButtonTouch,
             UnitsServe(board, operationType) => UnitsServe(board', operationType)
      PROVE  UnitsInv'
  <2>1. functionType' = functionType /\ menu' = menu
        /\ phase = "Touch" /\ functionType \notin OwnLoop
    BY <1>6, GoTouch DEF ButtonTouch, MainPanel
  <2>2. OperationFresh
    BY <2>1, TouchFresh
  <2>3. functionType \in DcFunctions
    BY <2>1 DEF UnitsInv
  <2> QED
    BY <1>1, <1>6, <2>1, <2>2, <2>3, UnitsKeep DEF OperationFresh
<1>7. CASE SwapCurrentRange
  <2> DEFINE r == IF board.range = "AMP1" THEN "MILLIAMP10" ELSE "AMP1"
  <2>1. r \in CurrentRanges /\ board' = SetCurrentRange(board, r, operationType)
    BY <1>7 DEF SwapCurrentRange, CurrentRanges
  <2> HIDE DEF r
  <2>2. board'.value = board.value /\ board'.limit = board.limit
    BY <1>1, <2>1, RangeKeepsNumbers
  <2>3. UnitsServe(board, operationType) => UnitsServe(board', operationType)
    BY <2>2 DEF UnitsServe
  <2> QED
    BY <1>6, <1>7, <2>3 DEF SwapCurrentRange
<1>8. board.value \in Quantity /\ board.limit \in Quantity
  BY <1>1 DEF Board
<1>9. CASE CalibrateSource
  <2>1. UnitsServe(board, operationType) => UnitsServe(board', operationType)
    BY <1>1, <1>8, <1>9, CommitKeepsUnits DEF CalibrateSource
  <2> QED
    BY <1>6, <1>9, <2>1 DEF CalibrateSource
<1>10. CASE CalibrateLimit
  <2>1. board' = SetCommitLimit(board, operationType, board.limit)
    BY <1>10 DEF CalibrateLimit, SetCommitLimit
  <2>2. UnitsServe(board, operationType) => UnitsServe(board', operationType)
    BY <1>1, <1>8, <2>1, CommitKeepsUnits
  <2> QED
    BY <1>6, <1>10, <2>2 DEF CalibrateLimit
<1>11. CASE OpenSourceDial \/ OpenLimitDial \/ \E r \in UserRates : SetSamplingRate(r)
  BY <1>5, <1>11 DEF OpenSourceDial, OpenLimitDial, SetSamplingRate
<1>12. CASE SettingsTouch
  BY <1>1, <1>12, UnitsKeep DEF SettingsTouch, sourceVars
<1> QED
  BY <1>2, <1>3, <1>4, <1>7, <1>9, <1>10, <1>11, <1>12 DEF Touch

LEMMA UnitsStep ==
  ASSUME Alone, Plain, TypeInv, PanelInv, PanelInv', UnitsInv, [Next]_vars
  PROVE  UnitsInv'
<1>1. DcScreenTruthful /\ DcScreenTruthful' /\ board \in Board /\ operationType \in Operations
      /\ menu \in Menus
  BY DEF PanelInv, TypeInv, TypeOK
<1>2. CASE UNCHANGED vars
  BY <1>1, <1>2, UnitsKeep DEF vars
<1>3. ~Scpi
  BY DEF Alone, Scpi, ScpiStep, SourceVoltageSCPI, SourceCurrentSCPI,
         SourceWithoutNumberSCPI, SourceVoltageILimitSCPI, SourceCurrentVLimitSCPI
<1>4. CASE Encoder
  <2>1. PICK m \in Micros : RotaryChanged(m)
    BY <1>4 DEF Encoder
  <2>2. OperationFresh /\ functionType \in DcFunctions
    BY <2>1 DEF RotaryChanged, KnobEdits, PanelInv
  <2>3. SourceAmount(operationType, m) \in Quantity
    BY <1>1, AmountTypes, MicrosAssumption
  <2>4. UnitsServe(board, operationType) => UnitsServe(board', operationType)
    BY <1>1, <2>1, <2>3, AmountUnits, CommitKeepsUnits DEF RotaryChanged
  <2> QED
    BY <1>1, <2>1, <2>2, <2>4, UnitsKeep DEF RotaryChanged, panelVars, OperationFresh
<1>5. CASE Keys
  <2>1. functionType' = functionType /\ board' = board
    BY <1>5 DEF Keys, KeyOpensMenu, KeyTogglesSettings, EncoderKeyPressed, sourceVars
  <2>2. menu'.choice = menu.choice
    BY <1>1, <1>5 DEF Keys, KeyOpensMenu, KeyTogglesSettings, EncoderKeyPressed, OpenMainMenu,
                      MenuOpen, Menus
  <2> QED
    BY <1>1, <2>1, <2>2, UnitsKeep
<1>6. ASSUME NEW d \in Dials, DialCancel(d) PROVE UnitsInv'
  BY <1>1, <1>6, UnitsKeep DEF DialCancel, sourceVars
<1>7. ASSUME NEW d \in Dials, NEW m \in Micros, DialOk(d, m) PROVE UnitsInv'
  <2>1. functionType' = functionType /\ menu' = menu /\ functionType \notin OwnLoop
        /\ dials[d] # "closed"
    BY <1>7 DEF DialOk, DialOnTop
  <2>2. OperationFresh /\ dials[d] = operationType /\ functionType \in DcFunctions
    BY <2>1 DEF PanelInv, DialOpen, DialCommitsItsType, UnitsInv
  <2>3. SourceAmount(operationType, m) \in Quantity /\ LimitAmount(operationType, m) \in Quantity
    BY <1>1, AmountTypes, MicrosAssumption
  <2>4. UnitsServe(board, operationType) => UnitsServe(board', operationType)
    BY <1>1, <1>7, <2>2, <2>3, AmountUnits, CommitKeepsUnits DEF DialOk
  <2> QED
    BY <1>1, <2>1, <2>2, <2>4, UnitsKeep DEF OperationFresh
<1>8. ~PulseInterrupt
  BY PlainFunctions DEF PulseInterrupt, PanelInv, UnitsInv
<1> QED
  BY <1>2, <1>3, <1>4, <1>5, <1>6, <1>7, <1>8, SampleUnits, TouchUnits DEF Next, Loop, Dialog

LEMMA UnitsInit == ASSUME Init PROVE UnitsInv
<1>1. DcScreenTruthful /\ functionType = DCV /\ DCV \in DcFunctions /\ menu.choice = DCV
  BY PanelInit DEF PanelInv, Init, DcFunctions
<1>2. SourceScaledForRange /\ board.op = VOLTAGE
  BY <1>1, OnDcScreen DEF OperationOf, DCV, DCC
<1>3. board.value = DefaultSource(VOLTAGE) /\ board.limit = DefaultLimit(VOLTAGE)
  BY DEF Init, AfterSetup, SetCommitCurrentLimit, SetCurrentRange, SetCommitVoltageSource
<1>4. UnitsServe(board, VOLTAGE)
  BY <1>3 DEF UnitsServe, DefaultSource, DefaultLimit, Volt, Ampere
<1> QED
  BY <1>1, <1>2, <1>4 DEF UnitsInv

LEMMA UnitsInvariant == ASSUME Alone, Plain PROVE Spec => [](PanelInv /\ UnitsInv)
<1>1. Init => UnitsInv
  BY UnitsInit
<1>2. TypeInv /\ PanelInv /\ PanelInv' /\ UnitsInv /\ [Next]_vars => UnitsInv'
  BY UnitsStep
<1> QED
  BY <1>1, <1>2, PanelInvariant, PTL DEF Spec

(* A number on a DC screen was given as the quantity it is shown as.       *)
THEOREM UnitsKept == ASSUME Alone, Plain PROVE Spec => []UnitsTruthful
<1>1. PanelInv /\ UnitsInv => UnitsTruthful
  BY OnDcScreen DEF PanelInv, UnitsInv, UnitsTruthful
<1> QED
  BY <1>1, UnitsInvariant, PTL

(* A sourced current is scaled for the range in use, whoever switched it.  *)
THEOREM SourceScaled == ASSUME Alone, Plain PROVE Spec => []SourceScaledForRange
<1>1. PanelInv /\ UnitsInv => SourceScaledForRange
  BY DEF UnitsInv
<1> QED
  BY <1>1, UnitsInvariant, PTL

-----------------------------------------------------------------------------
(* The menu that closes.  MenuGoesAway needs the loop to go on; this is    *)
(* what each step does for it.                                             *)

(* At most so many frames of the panel, until it is away. *)
FramesLeft == 2 * menu.scroll + (IF menu.dir = -1 THEN 1 ELSE 0) + 1

(* Every frame of the panel brings a menu that closes nearer to being away,*)
(* and nothing else, no key, no command, no knob and no timer, opens it    *)
(* again or holds it up; but for the settings page, which has no frame of  *)
(* the panel.                                                              *)
ClosesSteadily ==
  [][MenuCloses =>
       \/ ~menu'.active
       \/ MenuCloses' /\ IF NoTouch /\ Panel THEN FramesLeft' < FramesLeft
                                             ELSE FramesLeft' = FramesLeft]_vars

LEMMA MenuRendered ==
  ASSUME NEW m \in Menus, m.active, m.dir = -1 \/ (m.dir = 0 /\ m.scroll = 0)
  PROVE  LET n == MenuRender(m)
         IN  \/ ~n.active
             \/ /\ n.active /\ (n.dir = -1 \/ (n.dir = 0 /\ n.scroll = 0))
                /\ 2 * n.scroll + (IF n.dir = -1 THEN 1 ELSE 0)
                     < 2 * m.scroll + (IF m.dir = -1 THEN 1 ELSE 0)
<1>1. m.scroll \in Nat
  BY MenuFramesAssumption DEF Menus
<1>2. CASE m.dir = 0 /\ m.scroll = 0
  <2>1. MenuRender(m) = [m EXCEPT !.active = FALSE]
    BY <1>2 DEF MenuRender
  <2> QED
    BY <2>1 DEF Menus
<1>3. CASE m.dir = -1 /\ m.scroll > 1
  <2> DEFINE low == m.scroll - 1
  <2>0. m.dir # 1 /\ (IF m.scroll > 0 THEN m.scroll - 1 ELSE 0) = low
        /\ (IF m.scroll <= 1 THEN 0 ELSE -1) = -1
    BY <1>1, <1>3
  <2>1. MenuRender(m) = [m EXCEPT !.scroll = low, !.dir = -1]
    <3>1. MenuRender(m) = [m EXCEPT !.scroll = IF m.scroll > 0 THEN m.scroll - 1 ELSE 0,
                                    !.dir = IF m.scroll <= 1 THEN 0 ELSE -1]
      BY <1>3, <2>0, Zenon DEF MenuRender
    <3> QED
      BY <3>1, <2>0, Zenon
  <2>2. low \in Nat /\ low < m.scroll
    BY <1>1, <1>3
  <2> HIDE DEF low
  <2>3. MenuRender(m).active /\ MenuRender(m).dir = -1 /\ MenuRender(m).scroll = low
    BY <2>1 DEF Menus
  <2> QED
    BY <1>1, <1>3, <2>2, <2>3
<1>4. CASE m.dir = -1 /\ m.scroll <= 1
  <2>0. m.dir # 1 /\ (IF m.scroll > 0 THEN m.scroll - 1 ELSE 0) = 0
        /\ (IF m.scroll <= 1 THEN 0 ELSE -1) = 0
    BY <1>1, <1>4
  <2>1. MenuRender(m) = [m EXCEPT !.scroll = 0, !.dir = 0]
    <3>1. MenuRender(m) = [m EXCEPT !.scroll = IF m.scroll > 0 THEN m.scroll - 1 ELSE 0,
                                    !.dir = IF m.scroll <= 1 THEN 0 ELSE -1]
      BY <1>4, <2>0, Zenon DEF MenuRender
    <3> QED
      BY <3>1, <2>0, Zenon
  <2>2. MenuRender(m).active /\ MenuRender(m).dir = 0 /\ MenuRender(m).scroll = 0
    BY <2>1 DEF Menus
  <2> QED
    BY <1>1, <1>4, <2>2
<1> QED
  BY <1>1, <1>2, <1>3, <1>4

(* Whoever else touches the menu does so when it is away or all down. *)
LEMMA MenuLeftAlone ==
  ASSUME TypeInv, MenuCloses, Next, ~(NoTouch /\ Panel)
  PROVE  menu' = menu
<1>1. menu.active /\ ~MenuDown(menu)
  BY MenuFramesAssumption DEF MenuCloses, MenuDown
<1>2. CASE PulseInterrupt
  BY <1>2 DEF PulseInterrupt, panelVars
<1>3. CASE Scpi
  BY <1>3 DEF Scpi, ScpiStep, SourceVoltageSCPI, SourceCurrentSCPI, SourceWithoutNumberSCPI,
              SourceVoltageILimitSCPI, SourceCurrentVLimitSCPI, panelVars, sourceVars
<1>4. CASE Encoder
  BY <1>4 DEF Encoder, RotaryChanged, panelVars
<1>5. CASE Sample
  BY <1>5 DEF Sample, SampleMain, SampleOwnLoop, panelVars
<1>6. CASE Touch
  BY <1>1, <1>6 DEF Touch, NoTouch, SwipeDown, MenuSelect, ButtonTouch, OpenSourceDial, OpenLimitDial,
                    SwapCurrentRange, SetSamplingRate, CalibrateSource, CalibrateLimit, SettingsTouch
<1>7. CASE Keys
  BY <1>1, <1>7 DEF Keys, KeyOpensMenu, KeyTogglesSettings, EncoderKeyPressed
<1>8. CASE Dialog
  BY <1>8 DEF Dialog, DialOk, DialCancel
<1> QED
  BY <1>2, <1>3, <1>4, <1>5, <1>6, <1>7, <1>8 DEF Next, Loop

(* A menu told to close is away after at most FramesLeft frames of the     *)
(* panel, for every length of its way, and under SCPI.                     *)
THEOREM MenuShrinks == Spec => ClosesSteadily
<1>1. TypeInv /\ [Next]_vars =>
        [MenuCloses =>
           \/ ~menu'.active
           \/ MenuCloses' /\ IF NoTouch /\ Panel THEN FramesLeft' < FramesLeft
                                                 ELSE FramesLeft' = FramesLeft]_vars
  <2> SUFFICES ASSUME TypeInv, Next, MenuCloses
               PROVE  \/ ~menu'.active
                      \/ MenuCloses' /\ IF NoTouch /\ Panel THEN FramesLeft' < FramesLeft
                                                            ELSE FramesLeft' = FramesLeft
    OBVIOUS
  <2>1. CASE NoTouch /\ Panel
    <3>1. menu \in Menus /\ menu' = MenuRender(menu)
      BY <2>1 DEF NoTouch, TypeInv, TypeOK
    <3>2. menu' \in Menus
      BY <3>1, MenuRenderType
    <3>3. \/ ~menu'.active
          \/ /\ menu'.active /\ (menu'.dir = -1 \/ (menu'.dir = 0 /\ menu'.scroll = 0))
             /\ 2 * menu'.scroll + (IF menu'.dir = -1 THEN 1 ELSE 0)
                  < 2 * menu.scroll + (IF menu.dir = -1 THEN 1 ELSE 0)
      BY <3>1, MenuRendered DEF MenuCloses
    <3>4. menu.scroll \in Nat /\ menu'.scroll \in Nat
      BY <3>1, <3>2, MenuFramesAssumption DEF Menus
    <3> QED
      BY <2>1, <3>3, <3>4 DEF MenuCloses, FramesLeft
  <2>2. CASE ~(NoTouch /\ Panel)
    BY <2>2, MenuLeftAlone DEF MenuCloses, FramesLeft
  <2> QED
    BY <2>1, <2>2
<1>2. TypeInv /\ [Next]_vars => TypeInv'
  BY TypeStep
<1>3. Init => TypeInv
  BY TypeInit
<1> QED
  BY <1>1, <1>2, <1>3, PTL DEF Spec, ClosesSteadily
=============================================================================
