----------------------------- MODULE Instrument -----------------------------
(***************************************************************************)
(* The instrument's control loop: src/src/Poormanssmu.cpp loop() with the  *)
(* main menu, the two keypad dialogs, the rotary knob, the push buttons,   *)
(* the SCPI commands that source, and what each function does to the board *)
(* when it is opened, stepped and closed.                                  *)
(*                                                                         *)
(* One pass of loop() is the sequence of phases                            *)
(*    Scpi, Encoder, Sample, Touch, Keys, EncoderKey, Dialog               *)
(* in the order of the code; the pulse timer interrupt may run between any *)
(* two of them.                                                            *)
(***************************************************************************)
EXTENDS DcSource

CONSTANTS
  Functions,         \* the functions that can be chosen in the main menu
  Micros,            \* amounts typed, turned to, pulsed or swept
  ScpiAmounts,       \* numbers sent in SCPI commands
  UserRates,         \* sampling rates the panel offers
  Toggles,           \* switches of the settings page that the user touches
  MenuFrames,        \* passes the menu takes to scroll over the screen
  ScpiEnabled,       \* is a SCPI client connected?
  OneInputPerFrame   \* does a user touch or press at most one thing in a frame?

PULSE     == "SOURCE_PULSE"
SWEEP     == "SOURCE_SWEEP"
DIGITIZE  == "DIGITIZE"
GRAPH     == "GRAPH"
LOGGER    == "DATALOGGER"
RESIST    == "MEASURE_RESISTANCE"
SETTINGS  == "SHOWSETTINGS"

AllFunctions == {DCV, DCC, PULSE, SWEEP, DIGITIZE, GRAPH, LOGGER, RESIST, SETTINGS}
OwnLoop      == {DIGITIZE, GRAPH, LOGGER}     \* branches of loop() without loopMain

DefaultRate  == 20
DigitizeRate == 31250

Phases == {"Scpi", "Encoder", "Sample", "Touch", "Keys", "EncoderKey", "Dialog"}

ASSUME FunctionsAssumption   == Functions \subseteq AllFunctions
ASSUME MicrosAssumption      == Micros \subseteq Int
ASSUME ScpiAmountsAssumption == ScpiAmounts \subseteq Int
ASSUME UserRatesAssumption   == UserRates \subseteq Nat \ {DigitizeRate}
ASSUME MenuFramesAssumption  == MenuFrames \in Nat \ {0}
ASSUME TogglesAssumption     == Toggles \subseteq {"autoRange", "voltageOnly"}
ASSUME SwitchesAssumption    == ScpiEnabled \in BOOLEAN /\ OneInputPerFrame \in BOOLEAN

VARIABLES
  board,          \* the analog board, see SmuHal
  functionType,   \* the selected function
  operationType,  \* the global of Poormanssmu.cpp, refreshed only by loopMain
  showSettings,   \* the settings page covers the panel
  menu,           \* MAINMENU: shown, moving, how far, and its own functionType
  dials,          \* SOURCE_DIAL and LIMIT_DIAL: closed, or the type it was opened with
  digitSelected,  \* changeDigit > 0: turning the knob edits the source
  knob,           \* who is called when the knob is turned or pressed
  pulse,          \* the pulse timer, and the operation captured by FUNCTION_PULSE.open
  sweepOp,        \* the operation captured by FUNCTION_SWEEP.open
  sampler,        \* normalSamplingTimer runs
  adc,            \* ADC configuration, and what the digitizer keeps of it
  autoRange,      \* settingsCurrentAutoRange
  phase           \* where loop() is

panelVars  == <<functionType, operationType, showSettings, menu, dials, digitSelected, knob>>
sourceVars == <<board, pulse, sweepOp, sampler>>
vars == <<board, functionType, operationType, showSettings, menu, dials, digitSelected,
          knob, pulse, sweepOp, sampler, adc, autoRange, phase>>

-----------------------------------------------------------------------------
Menus == [active : BOOLEAN, dir : {-1, 0, 1}, scroll : 0 .. MenuFrames,
          choice : AllFunctions]
Dials == {"SET", "LIMIT"}
Adcs  == [rate : Nat, saved : Nat, volt : BOOLEAN, curr : BOOLEAN,
          digitize : BOOLEAN, voltageOnly : BOOLEAN]

Init ==
  /\ board = AfterSetup
  /\ functionType = DCV
  /\ operationType = VOLTAGE
  /\ showSettings = FALSE
  /\ menu = [active |-> FALSE, dir |-> 0, scroll |-> 0, choice |-> DCV]
  /\ dials = [d \in Dials |-> "closed"]
  /\ digitSelected = FALSE
  /\ knob = "VoltCurrent"
  /\ pulse = [on |-> FALSE, op |-> VOLTAGE]
  /\ sweepOp = VOLTAGE
  /\ sampler = TRUE
  /\ adc = [rate |-> DefaultRate, saved |-> DefaultRate, volt |-> TRUE, curr |-> TRUE,
            digitize |-> FALSE, voltageOnly |-> FALSE]
  /\ autoRange = FALSE
  /\ phase = "Scpi"

DialOpen == \E d \in Dials : dials[d] # "closed"

(* The phase is the first one of the pass that may still do something.     *)
(* Every pass samples and renders a frame (Sample, Touch); a phase in which*)
(* nothing arrives is skipped, and a pass whose other phases are skipped   *)
(* starts over.                                                            *)
Tail == {"Keys", "EncoderKey", "Dialog"}
Skips(step) ==
  CASE step = "Scpi"       -> Tail
    [] step = "Encoder"    -> Tail \cup {"Scpi"}
    [] step = "Sample"     -> Tail \cup {"Scpi", "Encoder"}
    [] step = "EncoderKey" -> {"Keys"}
    [] step = "Dialog"     -> {"Keys", "EncoderKey"}
    [] OTHER               -> {}

Go(step, next) == phase \in {step} \cup Skips(step) /\ phase' = next

(* A user who does one thing in a frame does nothing after it. *)
After(next) == IF OneInputPerFrame THEN "Scpi" ELSE next

-----------------------------------------------------------------------------
(* Scpi: at most one command reaches the instrument before the knob is     *)
(* looked at.  A sourcing command also selects the function for the screen,*)
(* even when it was sent without a number.                                 *)

ScpiStep ==
  /\ ScpiEnabled
  /\ Go("Scpi", "Encoder")
  /\ UNCHANGED <<operationType, showSettings, menu, dials, digitSelected, knob,
                 pulse, sweepOp, sampler, adc, autoRange>>

SourceVoltageSCPI(mV) ==
  /\ ScpiStep
  /\ board' = SetCommitVoltageSource(UseFeedback(board, VOLTAGE), Volt(mV * 1000))
  /\ functionType' = DCV

SourceCurrentSCPI(uA) ==
  /\ ScpiStep
  /\ board' = CommitCurrentAutoRange(UseFeedback(board, CURRENT), Ampere(uA * 1000),
                                     operationType)
  /\ functionType' = DCC

SourceWithoutNumberSCPI(f) ==
  /\ ScpiStep
  /\ functionType' = f
  /\ UNCHANGED board

SourceVoltageILimitSCPI(uA) ==
  /\ ScpiStep
  /\ board' = SetCommitCurrentLimit(board, Ampere(uA))
  /\ UNCHANGED functionType

SourceCurrentVLimitSCPI(mV) ==
  /\ ScpiStep
  /\ board' = SetCommitVoltageLimit(board, Volt(mV))
  /\ UNCHANGED functionType

Scpi ==
  \/ \E n \in ScpiAmounts : \/ SourceVoltageSCPI(n)
                            \/ SourceCurrentSCPI(n)
                            \/ SourceVoltageILimitSCPI(n)
                            \/ SourceCurrentVLimitSCPI(n)
  \/ \E f \in DcFunctions : SourceWithoutNumberSCPI(f)

-----------------------------------------------------------------------------
(* Encoder: ROTARY_ENCODER.handle calls the registered function.  Only     *)
(* rotaryChangedVoltCurrentFn touches the board, and only when a digit is  *)
(* selected and no dialog takes the rotation.                              *)

KnobEdits == knob = "VoltCurrent" /\ digitSelected /\ ~DialOpen

RotaryChanged(m) ==
  /\ Go("Encoder", "Sample")
  /\ KnobEdits
  /\ board' = SetCommitSource(board, operationType, SourceAmount(operationType, m))
  /\ UNCHANGED <<panelVars, pulse, sweepOp, sampler, adc, autoRange>>

Encoder == \E m \in Micros : RotaryChanged(m)

-----------------------------------------------------------------------------
(* Sample: what the branch of loop() does before it looks at the screen.   *)

(* loopMain refreshes operationType, drops the digit selection after five  *)
(* seconds, ranges automatically, and advances a sweep when its time has   *)
(* come.                                                                   *)
SampleMain ==
  /\ Go("Sample", "Touch")
  /\ functionType \notin OwnLoop
  /\ operationType' = OperationOf(functionType)
  /\ digitSelected' \in {digitSelected, FALSE}
  /\ \E load \in Loads :
       LET ranged == IF autoRange THEN HandleAutoCurrentRange(board, load) ELSE board
       IN  \/ board' = ranged
           \/ /\ functionType = SWEEP
              /\ \E m \in Micros :
                   board' = SetCommitSource(ranged, sweepOp, SourceAmount(sweepOp, m))
  /\ UNCHANGED <<functionType, showSettings, menu, dials, knob, pulse, sweepOp, sampler,
                 adc, autoRange>>

(* DIGITIZER.loopDigitize: digitizing (re)starts when it is off and the    *)
(* menu is away, on the channel in focus, and stops when the buffer is     *)
(* full.                                                                   *)
SampleOwnLoop ==
  /\ Go("Sample", "Touch")
  /\ functionType \in OwnLoop
  /\ CASE functionType = DIGITIZE /\ ~adc.digitize /\ ~menu.active ->
            \E v \in BOOLEAN :
              adc' = [adc EXCEPT !.digitize = TRUE, !.volt = v, !.curr = ~v]
       [] functionType = DIGITIZE /\ adc.digitize ->
            \E full \in BOOLEAN : adc' = [adc EXCEPT !.digitize = ~full]
       [] OTHER -> UNCHANGED adc
  /\ UNCHANGED <<panelVars, sourceVars, autoRange>>

Sample == SampleMain \/ SampleOwnLoop

-----------------------------------------------------------------------------
(* The callback of the main menu: clean up the function that is left, then *)
(* open the new one.                                                       *)

DigitizerOpen(a, v) ==
  [a EXCEPT !.saved = a.rate, !.rate = DigitizeRate, !.volt = v, !.curr = ~v]
(* Mutant of DigitizerClose: the sampling rate is not restored. *)
KeepsDigitizerRate(a) == [a EXCEPT !.volt = TRUE, !.curr = TRUE, !.digitize = FALSE]

DigitizerClose(a) ==
  [a EXCEPT !.rate = a.saved, !.volt = TRUE, !.curr = TRUE, !.digitize = FALSE]

(* Mutants of CloseFunction: a selected digit survives; the sampling timer *)
(* stays stopped after a pulse.                                            *)
KeepsDigit(f) ==
  [pulse   |-> IF f = PULSE THEN [pulse EXCEPT !.on = FALSE] ELSE pulse,
   sampler |-> f = PULSE \/ sampler,
   adc     |-> IF f = DIGITIZE THEN DigitizerClose(adc) ELSE adc,
   digit   |-> digitSelected]
KeepsSamplerStopped(f) == [KeepsDigit(f) EXCEPT !.sampler = sampler]

CloseFunction(f) ==
  [pulse   |-> IF f = PULSE THEN [pulse EXCEPT !.on = FALSE] ELSE pulse,
   sampler |-> f = PULSE \/ sampler,
   adc     |-> IF f = DIGITIZE THEN DigitizerClose(adc) ELSE adc,
   digit   |-> f \notin DcFunctions /\ digitSelected]

OpenBoard(f) ==
  CASE f = DCV   -> OpenVoltage(board)
    [] f = DCC   -> OpenCurrent(board, operationType)
    [] f = PULSE -> SetCurrentRange(board, "AMP1", operationType)
    [] OTHER     -> board

(* Mutant of KnobOf: the callback is not unregistered. *)
StaysRegistered(f) == IF f \in {PULSE, DIGITIZE, LOGGER} THEN "Own" ELSE "VoltCurrent"

KnobOf(f) ==
  CASE f \in DcFunctions               -> "VoltCurrent"
    [] f \in {PULSE, DIGITIZE, LOGGER} -> "Own"
    [] OTHER                           -> "DontCare"

CloseMainMenuCallback(f) ==
  LET left == CloseFunction(functionType)
  IN  /\ board' = OpenBoard(f)
      /\ pulse' = IF f = PULSE THEN [on |-> TRUE, op |-> operationType] ELSE left.pulse
      /\ sampler' = (f # PULSE /\ left.sampler)
      /\ sweepOp' = IF f = SWEEP THEN operationType ELSE sweepOp
      /\ IF f = DIGITIZE THEN \E v \in BOOLEAN : adc' = DigitizerOpen(left.adc, v)
                         ELSE adc' = left.adc
      /\ digitSelected' = left.digit
      /\ knob' = KnobOf(f)
      /\ showSettings' = (showSettings \/ f = SETTINGS)
      /\ functionType' = f

-----------------------------------------------------------------------------
(* Touch: one frame of the touch screen.  The menu moves one step in every *)
(* frame in which it is rendered.                                          *)

MenuOpen(m)   == [m EXCEPT !.active = TRUE, !.dir = 1]
MenuDown(m)   == m.active /\ m.dir = 0 /\ m.scroll = MenuFrames

(* Mutants of MenuRender: the menu scrolls one step too far; it stays      *)
(* active for ever.                                                        *)
ScrollsTooFar(m) ==
  CASE m.active /\ m.dir = 1  -> [m EXCEPT !.scroll = @ + 1,
                                           !.dir = IF m.scroll >= MenuFrames THEN 0 ELSE 1]
    [] m.active /\ m.dir = -1 -> [m EXCEPT !.scroll = 0, !.dir = 0]
    [] OTHER                  -> m
StaysActive(m) ==
  CASE m.active /\ m.dir = 1  -> [m EXCEPT !.scroll = MenuFrames, !.dir = 0]
    [] m.active /\ m.dir = -1 -> [m EXCEPT !.scroll = 0, !.dir = 0]
    [] OTHER                  -> m

MenuRender(m) ==
  CASE ~m.active               -> m
    [] m.active /\ m.dir = 1  -> [m EXCEPT !.scroll = IF @ < MenuFrames THEN @ + 1 ELSE @,
                                           !.dir = IF m.scroll >= MenuFrames - 1 THEN 0 ELSE 1]
    [] m.active /\ m.dir = -1 -> [m EXCEPT !.scroll = IF @ > 0 THEN @ - 1 ELSE 0,
                                           !.dir = IF m.scroll <= 1 THEN 0 ELSE -1]
    [] OTHER -> IF m.scroll = 0 THEN [m EXCEPT !.active = FALSE] ELSE m

Panel == ~showSettings \/ functionType \in OwnLoop     \* the settings page is in loopMain
MainPanel == ~showSettings /\ functionType \notin OwnLoop

(* A frame without a touch only animates the menu. *)
NoTouch ==
  /\ Go("Touch", "Keys")
  /\ menu' = IF Panel THEN MenuRender(menu) ELSE menu
  /\ UNCHANGED <<sourceVars, functionType, operationType, showSettings, dials, digitSelected,
                 knob, adc, autoRange>>

(* Mutant of OpenMainMenu: dialogs stay open under the menu. *)
OpensOverDialogs == menu' = MenuOpen(menu) /\ UNCHANGED dials

(* openMainMenu; any dialog is closed without a callback *)
OpenMainMenu ==
  /\ menu' = MenuOpen(menu)
  /\ dials' = [d \in Dials |-> "closed"]

SwipeDown ==
  /\ Go("Touch", After("Keys"))
  /\ Panel
  /\ ~menu.active
  /\ OpenMainMenu
  /\ UNCHANGED <<sourceVars, functionType, operationType, showSettings, digitSelected,
                 knob, adc, autoRange>>

(* A button of the menu selects its function; CLOSE selects again what was *)
(* last chosen in the menu.  Graph and logger look at the buttons when the *)
(* menu of this frame is already drawn.                                    *)
MenuSelect(f) ==
  /\ Go("Touch", After("Keys"))
  /\ Panel
  /\ MenuDown(menu)
  /\ LET chosen == [menu EXCEPT !.choice = f, !.dir = -1]
     IN  menu' = IF functionType \in {GRAPH, LOGGER} THEN chosen ELSE MenuRender(chosen)
  /\ CloseMainMenuCallback(f)
  /\ UNCHANGED <<operationType, dials, autoRange>>

(* checkButtons: buttons of the panel and of the lower widget, dead while  *)
(* the menu is shown.                                                      *)
ButtonTouch ==
  /\ Go("Touch", After("Keys"))
  /\ MainPanel
  /\ ~menu.active
  /\ UNCHANGED <<functionType, operationType, showSettings, menu, digitSelected, knob,
                 pulse, sweepOp, sampler, autoRange>>

OpenSourceDial ==
  /\ ButtonTouch
  /\ functionType \in DcFunctions \cup {RESIST}
  /\ dials' = [dials EXCEPT !["SET"] = operationType]
  /\ UNCHANGED <<board, adc>>

OpenLimitDial ==
  /\ ButtonTouch
  /\ dials' = [dials EXCEPT !["LIMIT"] = operationType]
  /\ UNCHANGED <<board, adc>>

SwapCurrentRange ==
  /\ ButtonTouch
  /\ board' = SetCurrentRange(board, IF board.range = "AMP1" THEN "MILLIAMP10" ELSE "AMP1",
                              operationType)
  /\ UNCHANGED <<dials, adc>>

SetSamplingRate(rate) ==
  /\ ButtonTouch
  /\ adc' = [adc EXCEPT !.rate = rate]
  /\ UNCHANGED <<board, dials>>

(* Calibration buttons change a compensation and recommit the set value as *)
(* what operationType says; the gain of the limit is only recommitted when *)
(* it is a current limit.                                                  *)
CalibrateSource ==
  /\ ButtonTouch
  /\ board' = SetCommitSource(board, operationType, board.value)
  /\ UNCHANGED <<dials, adc>>

CalibrateLimit ==
  /\ ButtonTouch
  /\ operationType = VOLTAGE
  /\ board' = SetCommitCurrentLimit(board, board.limit)
  /\ UNCHANGED <<dials, adc>>

(* renderSetingsPage: the toggles that matter to other parts, and CLOSE    *)
SettingsTouch ==
  /\ Go("Touch", After("Keys"))
  /\ ~Panel
  /\ \/ /\ "autoRange" \in Toggles
        /\ autoRange' = ~autoRange
        /\ UNCHANGED <<adc, showSettings>>
     \/ /\ "voltageOnly" \in Toggles
        /\ adc' = [adc EXCEPT !.voltageOnly = ~@, !.volt = TRUE, !.curr = adc.voltageOnly]
        /\ UNCHANGED <<autoRange, showSettings>>
     \/ /\ showSettings' = FALSE
        /\ UNCHANGED <<autoRange, adc>>
  /\ UNCHANGED <<sourceVars, functionType, operationType, menu, dials, digitSelected, knob>>

Touch ==
  \/ NoTouch
  \/ SwipeDown
  \/ \E f \in Functions \cup {menu.choice} : MenuSelect(f)
  \/ OpenSourceDial
  \/ OpenLimitDial
  \/ SwapCurrentRange
  \/ \E r \in UserRates : SetSamplingRate(r)
  \/ CalibrateSource
  \/ CalibrateLimit
  \/ SettingsTouch

-----------------------------------------------------------------------------
(* Keys and EncoderKey: PUSHBUTTONS.handle and PUSHBUTTON_ENC.handle.      *)

KeyOpensMenu ==
  /\ Go("Keys", After("EncoderKey"))
  /\ ~menu.active
  /\ OpenMainMenu
  /\ UNCHANGED <<sourceVars, functionType, operationType, showSettings, digitSelected,
                 knob, adc, autoRange>>

KeyTogglesSettings ==
  /\ Go("Keys", After("EncoderKey"))
  /\ showSettings' = ~showSettings
  /\ UNCHANGED <<sourceVars, functionType, operationType, menu, dials, digitSelected,
                 knob, adc, autoRange>>

(* pushButtonEncInterrupt: the first press selects a digit, the next ones  *)
(* lower digits, the last one none.                                        *)
EncoderKeyPressed ==
  /\ Go("EncoderKey", After("Dialog"))
  /\ knob = "VoltCurrent"
  /\ IF digitSelected THEN digitSelected' \in BOOLEAN ELSE digitSelected' = TRUE
  /\ UNCHANGED <<sourceVars, functionType, operationType, showSettings, menu, dials, knob,
                 adc, autoRange>>

Keys == KeyOpensMenu \/ KeyTogglesSettings \/ EncoderKeyPressed

-----------------------------------------------------------------------------
(* Dialog: the keypad on top, the source's before the limit's, in loopMain *)
(* only.  OK calls closeSourceDCCallback, which goes by operationType.     *)

DialOnTop(d) ==
  /\ functionType \notin OwnLoop
  /\ dials[d] # "closed"
  /\ d = "LIMIT" => dials["SET"] = "closed"

DialOk(d, m) ==
  /\ Go("Dialog", "Scpi")
  /\ DialOnTop(d)
  /\ dials' = [dials EXCEPT ![d] = "closed"]
  /\ board' =
       IF d = "SET"
       THEN SetCommitSource(board, operationType, SourceAmount(dials[d], m))
       ELSE SetCommitLimit(board, operationType, LimitAmount(dials[d], m))
  /\ UNCHANGED <<functionType, operationType, showSettings, menu, digitSelected, knob,
                 pulse, sweepOp, sampler, adc, autoRange>>

DialCancel(d) ==
  /\ Go("Dialog", "Scpi")
  /\ DialOnTop(d)
  /\ dials' = [dials EXCEPT ![d] = "closed"]
  /\ UNCHANGED <<sourceVars, functionType, operationType, showSettings, menu, digitSelected,
                 knob, adc, autoRange>>

Dialog == \E d \in Dials : DialCancel(d) \/ \E m \in Micros : DialOk(d, m)

-----------------------------------------------------------------------------
(* The pulse timer interrupt: the captured kind of source, low or high.    *)
PulseInterrupt ==
  /\ pulse.on
  /\ \E m \in Micros : board' = SetCommitSource(board, pulse.op, SourceAmount(pulse.op, m))
  /\ UNCHANGED <<panelVars, pulse, sweepOp, sampler, adc, autoRange, phase>>

Loop == Scpi \/ Encoder \/ Sample \/ Touch \/ Keys \/ Dialog

Next == Loop \/ PulseInterrupt

Spec == Init /\ [][Next]_vars

(* loop() is called forever; nothing obliges a user or a client. *)
FairSpec == Spec /\ WF_vars(Loop)

-----------------------------------------------------------------------------
(* Every variable holds a value the code's declarations allow. *)
TypeOK ==
  /\ board \in Board
  /\ functionType \in AllFunctions
  /\ operationType \in Operations
  /\ showSettings \in BOOLEAN
  /\ menu \in Menus
  /\ dials \in [Dials -> {"closed"} \cup Operations]
  /\ digitSelected \in BOOLEAN
  /\ knob \in {"VoltCurrent", "DontCare", "Own"}
  /\ pulse \in [on : BOOLEAN, op : Operations]
  /\ sweepOp \in Operations
  /\ sampler \in BOOLEAN
  /\ adc \in Adcs
  /\ autoRange \in BOOLEAN
  /\ phase \in Phases

(* Whenever a DC function is selected, the feedback, both DAC channels and *)
(* the relay serve the quantity its panel says is sourced, with the numbers*)
(* the panel shows, scaled for the range in use.                           *)
DcScreenTruthful == functionType \in DcFunctions => Serves(board, OperationOf(functionType))

(* Two timers must never drive the converters at once, and one of them must*)
(* (the hack in loopMain: "Dont use interrupt driven voltage measurement   *)
(* when in pulse mode").                                                   *)
OneTimer == sampler # pulse.on

(* Whoever leaves the digitizer, and however, the ADC measures slowly and  *)
(* on both channels again, but for a current channel the user switched off;*)
(* and samples go to the filters, not to the digitizer's buffer.           *)
AdcRestored ==
  functionType # DIGITIZE =>
    /\ adc.rate # DigitizeRate
    /\ adc.volt
    /\ adc.curr \/ adc.voltageOnly
    /\ ~adc.digitize

(* What is typed into a dialog is committed as the kind of quantity the    *)
(* dialog asked for.                                                       *)
DialCommitsItsType == \A d \in Dials : dials[d] \in {"closed", operationType}

(* "avoid unwanted stuff to happen when rotating the knob in different     *)
(* function views": a rotation sources what the selected DC screen sources.*)
KnobFollowsScreen ==
  [][\A m \in Micros : RotaryChanged(m) =>
        functionType \in DcFunctions /\ board'.op = OperationOf(functionType)]_vars

(* Selecting a DC function in the menu sets up the whole board for it,     *)
(* whatever was done to the board before.                                  *)
MenuRepairs ==
  [][\A f \in DcFunctions : MenuSelect(f) => Serves(board', OperationOf(f))]_vars

(* "when switching current range while in current source mode, the voltage *)
(* from source controlling DAC must be changed accordingly"                *)
SourceScaledForRange == board.source.kind = CURRENT => board.source.range = board.range

(* The set value and the limit shown on a DC screen were given as the      *)
(* quantities they are shown as.                                           *)
UnitsTruthful == functionType \in DcFunctions => UnitsServe(board, OperationOf(functionType))

(* Why the panel is truthful: a dialog is only open, and a digit only      *)
(* selected, while operationType is what the function on the screen says;  *)
(* the menu closes dialogs before it changes the function; loopMain has    *)
(* refreshed operationType by the time anything is touched.                *)
OperationFresh == operationType = OperationOf(functionType)

PanelInv ==
  /\ DcScreenTruthful
  /\ OneTimer
  /\ DialCommitsItsType
  /\ pulse.on = (functionType = PULSE)
  /\ (knob = "VoltCurrent") = (functionType \in DcFunctions)
  /\ DialOpen => OperationFresh /\ ~menu.active
  /\ digitSelected => OperationFresh /\ functionType \in DcFunctions
  /\ phase \in {"Touch"} \cup Tail /\ functionType \notin OwnLoop => OperationFresh

(* The menu that was told to close goes away, unless the settings page,    *)
(* under which it is not rendered, covers it.                              *)
MenuCloses == menu.active /\ (menu.dir = -1 \/ (menu.dir = 0 /\ menu.scroll = 0))
MenuGoesAway == MenuCloses ~> (~menu.active \/ showSettings)
=============================================================================
