------------------------------ MODULE Digitizer ------------------------------
(***************************************************************************)
(* The digitizer: src/src/Digitizer.cpp, the branch of loop() that serves  *)
(* it, and handleSampling, the timer interrupt that feeds it.  The         *)
(* interrupt may come between any two steps of the loop; a step below is   *)
(* what the loop does between two accesses to what they share.             *)
(*                                                                         *)
(* A sample is named by its sampling time modulo Stamps; what it measured  *)
(* is abstracted to how it compares with the trigger level.                *)
(***************************************************************************)
EXTENDS Integers, FiniteSets

CONSTANTS
  N,              \* nrOfFloats
  Stamps,         \* distinct sampling times
  Levels,         \* how a sample may compare with triggerLevel
  Presses,        \* what the user does on the digitizer's screen
  BoardPowered    \* does the analog board answer (deviceTypeId # 0)?

AllLevels == {"low", "band", "high"}    \* low: below the hysteresis, high: above the level
AllPresses == {"allow", "type", "focus", "menu"}

ASSUME NAssumption       == N \in Nat /\ N >= 2 /\ N % 2 = 0
ASSUME StampsAssumption  == Stamps \in Nat \ {0}
ASSUME LevelsAssumption  == Levels \subseteq AllLevels /\ Levels # {}
ASSUME PressesAssumption == Presses \subseteq AllPresses
ASSUME BoardAssumption   == BoardPowered \in BOOLEAN

Half == N \div 2
NoSample == -1                          \* the 0.0 of a buffer never written

VARIABLES
  digitize, rendering, bufferOverflow,  \* the flags loop and interrupt share
  allowTrigger, triggerType,            \* as the buttons set them; 0 is continuous
  focus, channel,                       \* the quantity selected; what the ADC converts
  history, waitForLower,                \* lastVoltage .. lastVoltageOld3; level trigger
  countSinceLastSample,                 \* counts to N and stays there
  triggered, samplesAfterTrigger, adrAtTrigger,
  ring, ramAdrPtr,                      \* ramEmulator, all samples
  post,                                 \* ramEmulator2, samples after the trigger
  display,                              \* mva
  stamp,                                \* the next sampling time
  excursion,                            \* the signal stayed high since the last level trigger
  menu, due, pc                         \* the main menu, the 100 ms timer, the loop

triggerVars == <<history, waitForLower, countSinceLastSample, triggered, excursion>>
bufferVars  == <<samplesAfterTrigger, adrAtTrigger, ring, ramAdrPtr, post, display, stamp>>
buttonVars  == <<allowTrigger, triggerType, focus>>
flagVars    == <<digitize, rendering, bufferOverflow>>
vars == <<digitize, rendering, bufferOverflow, allowTrigger, triggerType, focus, channel,
          history, waitForLower, countSinceLastSample, triggered, samplesAfterTrigger,
          adrAtTrigger, ring, ramAdrPtr, post, display, stamp, excursion, menu, due, pc>>

Continuous == triggerType = 0
HistoryOf(level) == [i \in 1 .. 4 |-> level]

Init ==
  /\ digitize = FALSE /\ rendering = FALSE /\ bufferOverflow = FALSE
  /\ allowTrigger = TRUE /\ triggerType = 0
  /\ focus = "volt" /\ channel = "volt"
  /\ history = HistoryOf("low") /\ waitForLower = FALSE
  /\ countSinceLastSample = 0
  /\ triggered = FALSE /\ samplesAfterTrigger = 0 /\ adrAtTrigger = 0
  /\ ring = [a \in 0 .. N |-> NoSample] /\ ramAdrPtr = 0
  /\ post = [x \in 0 .. Half |-> NoSample]
  /\ display = [x \in 0 .. N - 1 |-> NoSample]
  /\ stamp = 0
  /\ excursion = FALSE
  /\ menu = "closing" /\ due = TRUE /\ pc = "start"

-----------------------------------------------------------------------------
(* handleSampling: the interrupt hands a sample to the digitizer when it   *)
(* digitizes, does not draw, and has room.  Without the analog board the   *)
(* simulated samples are not handed over.                                  *)

AllIn(h, level) == \A i \in 1 .. 4 : h[i] = level

LevelDetected == AllIn(history, "high") /\ ~waitForLower

WaitNext ==
  LET waits == waitForLower \/ AllIn(history, "high")
  IN  IF triggerType = 2 THEN waitForLower ELSE waits /\ ~AllIn(history, "low")

(* Mutants of Triggers: right after a full buffer; not by itself.          *)
TriggersAtOnce(edge) ==
  allowTrigger /\ (Continuous \/ IF triggerType = 2 THEN edge ELSE LevelDetected)
OnlyDetects(edge) ==
  /\ IF triggerType = 2 THEN edge ELSE LevelDetected
  /\ allowTrigger
  /\ countSinceLastSample + 1 >= N

(* An edge may be seen in any sample. *)
Triggers(edge) ==
  /\ Continuous \/ IF triggerType = 2 THEN edge ELSE LevelDetected
  /\ allowTrigger
  /\ countSinceLastSample + 1 >= N

(* Mutants of Wrap: the ring is one shorter, or one longer. *)
WrapsEarly(adr) == IF adr < N - 1 THEN adr + 1 ELSE 0
WrapsLate(adr)  == IF adr <= N THEN adr + 1 ELSE 0

Wrap(adr) == IF adr < N THEN adr + 1 ELSE 0

(* copyDataBufferToDisplayBuffer: the samples after the trigger, then from *)
(* the trigger's own sample backwards through the ring.  The last point    *)
(* lies behind the end of mva.                                             *)
Before(r, adr, k) == r[IF k <= adr THEN adr - k ELSE adr - k + N + 1]

CopyDataBufferToDisplayBuffer(r, p, adr) ==
  display' = [x \in 0 .. N - 1 |->
               IF x <= Half THEN Before(r, adr, Half - x) ELSE p[x - Half]]

HandleSamplingForDigitizer(level, edge) ==
  LET taken == ~triggered /\ Triggers(edge)
      r     == [ring EXCEPT ![ramAdrPtr] = stamp]
      p     == IF triggered THEN [post EXCEPT ![samplesAfterTrigger] = stamp] ELSE post
      after == IF triggered THEN samplesAfterTrigger + 1 ELSE samplesAfterTrigger
      adr   == IF taken THEN ramAdrPtr ELSE adrAtTrigger
  IN  /\ BoardPowered
      /\ digitize /\ ~rendering /\ ~bufferOverflow
      /\ ring' = r /\ post' = p /\ adrAtTrigger' = adr
      /\ ramAdrPtr' = Wrap(ramAdrPtr)
      /\ waitForLower' = WaitNext
      /\ stamp' = IF stamp < Stamps - 1 THEN stamp + 1 ELSE 0
      /\ excursion' = (level = "high" /\ (excursion \/ (taken /\ triggerType = 1)))
      /\ \/ /\ after # Half
            /\ triggered' = (triggered \/ taken)
            /\ samplesAfterTrigger' = after
            /\ countSinceLastSample' = IF countSinceLastSample < N
                                       THEN countSinceLastSample + 1 ELSE N
            /\ history' = [i \in 1 .. 4 |-> IF i = 1 THEN level ELSE history[i - 1]]
            /\ UNCHANGED <<display, bufferOverflow>>
         \/ /\ after = Half
            /\ bufferOverflow' = TRUE
            /\ triggered' = FALSE
            /\ samplesAfterTrigger' = 0
            /\ countSinceLastSample' = 0
            /\ history' = HistoryOf("low")
            /\ CopyDataBufferToDisplayBuffer(r, p, adr)
      /\ UNCHANGED <<digitize, rendering, buttonVars, channel, menu, due, pc>>

Sampling == \E level \in Levels, edge \in BOOLEAN : HandleSamplingForDigitizer(level, edge)

-----------------------------------------------------------------------------
(* The loop. *)

At(label, next) == pc = label /\ pc' = next

(* loopDigitize: digitizing starts again on the channel in focus. *)
Restart ==
  /\ At("start", "clear")
  /\ ~digitize /\ menu = "away"
  /\ digitize' = TRUE
  /\ channel' = focus
  /\ UNCHANGED <<rendering, bufferOverflow, buttonVars, triggerVars, bufferVars, menu, due>>

NoRestart ==
  /\ At("start", "full")
  /\ digitize \/ menu # "away"
  /\ UNCHANGED <<flagVars, buttonVars, channel, triggerVars, bufferVars, menu, due>>

ClearOverflow ==
  /\ At("clear", "full")
  /\ bufferOverflow' = FALSE
  /\ UNCHANGED <<digitize, rendering, buttonVars, channel, triggerVars, bufferVars, menu, due>>

StopWhenFull ==
  /\ At("full", "frame")
  /\ digitize' = (digitize /\ ~bufferOverflow)
  /\ UNCHANGED <<rendering, bufferOverflow, buttonVars, channel, triggerVars, bufferVars, menu,
                 due>>

(* Mutant of MayRender: no frame is drawn while a trigger is awaited. *)
RendersStopped == (~digitize \/ ~allowTrigger) /\ (due \/ menu # "away")

MayRender == (~digitize \/ ~allowTrigger \/ ~Continuous) /\ (due \/ menu # "away")

BeginFrame ==
  /\ At("frame", "render")
  /\ MayRender
  /\ rendering' = TRUE
  /\ due' = FALSE
  /\ UNCHANGED <<digitize, bufferOverflow, buttonVars, channel, triggerVars, bufferVars, menu>>

SkipFrame ==
  /\ At("frame", "start")
  /\ ~MayRender
  /\ UNCHANGED <<flagVars, buttonVars, channel, triggerVars, bufferVars, menu, due>>

-----------------------------------------------------------------------------
(* One frame: at most one button, and the menu, which needs some frames to *)
(* go away.                                                                *)

EndFrame(next) ==
  /\ At("render", next)
  /\ rendering' = FALSE
  /\ UNCHANGED <<history, waitForLower, countSinceLastSample, triggered, bufferVars, due>>

NoTouch ==
  /\ EndFrame("start")
  /\ menu' \in IF menu = "closing" THEN {"closing", "away"} ELSE {menu}
  /\ UNCHANGED <<digitize, bufferOverflow, buttonVars, channel, excursion>>

PressButton ==
  /\ EndFrame("start")
  /\ menu = "away"
  /\ \/ /\ "allow" \in Presses
        /\ allowTrigger' = ~allowTrigger
        /\ UNCHANGED <<triggerType, focus, excursion>>
     \/ /\ "type" \in Presses
        /\ triggerType' = (triggerType + 1) % 3
        /\ excursion' = FALSE
        /\ UNCHANGED <<allowTrigger, focus>>
     \/ /\ "focus" \in Presses
        /\ focus' = IF focus = "volt" THEN "curr" ELSE "volt"
        /\ UNCHANGED <<allowTrigger, triggerType, excursion>>
  /\ UNCHANGED <<digitize, bufferOverflow, channel, menu>>

OpenMenu ==
  /\ EndFrame("start")
  /\ "menu" \in Presses
  /\ menu = "away"
  /\ menu' = "open"
  /\ UNCHANGED <<digitize, bufferOverflow, buttonVars, channel, excursion>>

(* The menu closes the digitizer, and may open it again at once.  What was *)
(* collected of a waveform stays.                                          *)
Close == digitize' = FALSE /\ bufferOverflow' = FALSE

SelectDigitizer ==
  /\ EndFrame("start")
  /\ menu = "open"
  /\ menu' = "closing"
  /\ Close
  /\ channel' = focus
  /\ UNCHANGED <<buttonVars, excursion>>

SelectOther ==
  /\ EndFrame("elsewhere")
  /\ menu = "open"
  /\ menu' = "closing"
  /\ Close
  /\ channel' = "both"
  /\ UNCHANGED <<buttonVars, excursion>>

ComeBack ==
  /\ At("elsewhere", "start")
  /\ menu' = "closing"
  /\ channel' = focus
  /\ UNCHANGED <<flagVars, buttonVars, triggerVars, bufferVars, due>>

Frame == NoTouch \/ PressButton \/ OpenMenu \/ SelectDigitizer \/ SelectOther

Loop == Restart \/ NoRestart \/ ClearOverflow \/ StopWhenFull \/ BeginFrame \/ SkipFrame \/ Frame

(* samplesUpdateTimer + 100 has passed *)
Timer ==
  /\ ~due
  /\ due' = TRUE
  /\ UNCHANGED <<flagVars, buttonVars, channel, triggerVars, bufferVars, menu, pc>>

Next == Sampling \/ Loop \/ ComeBack \/ Timer

Spec == Init /\ [][Next]_vars

(* The loop runs for ever, time passes, and the sampling timer interrupts. *)
FairSpec == Spec /\ WF_vars(Loop) /\ WF_vars(Timer) /\ WF_vars(Sampling)

-----------------------------------------------------------------------------
(* Every variable holds a value the code's declarations allow; no index    *)
(* leaves its buffer.                                                      *)
Samples == {NoSample} \cup 0 .. Stamps - 1

TypeOK ==
  /\ digitize \in BOOLEAN /\ rendering \in BOOLEAN /\ bufferOverflow \in BOOLEAN
  /\ allowTrigger \in BOOLEAN /\ waitForLower \in BOOLEAN /\ triggered \in BOOLEAN
  /\ excursion \in BOOLEAN /\ due \in BOOLEAN
  /\ triggerType \in 0 .. 2
  /\ focus \in {"volt", "curr"} /\ channel \in {"volt", "curr", "both"}
  /\ history \in [1 .. 4 -> AllLevels]
  /\ countSinceLastSample \in 0 .. N
  /\ samplesAfterTrigger \in 0 .. Half - 1
  /\ adrAtTrigger \in 0 .. N /\ ramAdrPtr \in 0 .. N
  /\ ring \in [0 .. N -> Samples] /\ post \in [0 .. Half -> Samples]
  /\ display \in [0 .. N - 1 -> Samples]
  /\ stamp \in 0 .. Stamps - 1
  /\ menu \in {"away", "open", "closing"}
  /\ pc \in {"start", "clear", "full", "frame", "render", "elsewhere"}

(* The digitizer is an oscilloscope: the ring is just long enough for the  *)
(* half picture before the trigger to survive the half after it, whatever  *)
(* interrupts the acquisition, and the interrupt leaves a picture alone    *)
(* while the loop draws it.                                                *)
Picture == INSTANCE Scope WITH window <- display, drawing <- rendering
IsScope == Picture!Spec

(* Level triggering: a signal that never fell below the level since the    *)
(* last trigger does not trigger again, although a full buffer forgets     *)
(* that it waits for a lower signal.                                       *)
OncePerExcursion ==
  [][~triggered /\ triggered' /\ triggerType = 1 => ~excursion]_vars

(* The screen keeps being served: a user can always stop, change or leave. *)
ScreenServed == []<>(rendering \/ pc = "elsewhere")

(* Continuous digitizing fills its buffer, so there is always a next picture. *)
ContinuousFills == (digitize /\ Continuous /\ allowTrigger) ~> bufferOverflow
=============================================================================
