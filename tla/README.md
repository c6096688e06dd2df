# A verification project for Poor Man's SMU

The firmware under `src/src/` runs a source measure unit on a Teensy: it sources
a voltage or a current through a DAC with two channels (source and limit),
measures both with an ADC, and shows everything on a touch screen. One loop does
the work of the user interface; timer interrupts sample and make pulses; SCPI
commands arrive over a serial line or the network.

This directory holds TLA+ modules of its control logic, the TLC configurations
that check them on small instances, and proofs for the TLA+ proof system that
hold for all values of the constants. `PROJECT.json` lists the components, the
runs, the source lines behind every definition, the hazards the properties are
for, and the disagreements between code and documentation that came up.

## The system

| component | state | operations | talks to | what makes it correct |
|---|---|---|---|---|
| control loop (`Poormanssmu.cpp`) | selected function, the copy `operationType`, dialogs, settings page, digit selected by the knob | one pass: SCPI, automatic calibration, knob, then the branch of the function: sample, touch, keys, dialog | everything | what the screen says is what the board does |
| board driver (`SMU_HAL_717x.cpp`) | set value, limit, current range, operation; behind it relay, feedback switch, two DAC channels | commit source or limit, switch range, automatic range | loop, pulse interrupt, sweep, calibration | both DAC channels always scaled for the range and the quantity in use |
| main menu | active, scroll position and direction, last choice | open, choose, CLOSE, animate | callback of the loop | goes away; cleans up what is left |
| dialogs (`dial.cpp`) | open with a type, digits | open, key, OK, cancel, closed by the menu | callback of the loop | a number keeps the unit it was typed in |
| knob and push buttons | registered callbacks, timers | decode, call back | loop | never act for a function that is gone |
| pulse (`FunctionPulse.cpp`) | captured operation, two levels, timer | open, close, levels, interrupt | board, sampling timer | never runs next to the sampling timer; a commit it interrupts still ends in what is shown |
| sweep (`FunctionSweep.cpp`) | captured operation, value, direction, step, bounds | open, close, step, buttons | board | comes back between its bounds from anywhere, and reaches both |
| digitizer (`Digitizer.cpp`) | ring, buffer after the trigger, trigger, flags, display copy | interrupt per sample; loop: restart, stop, draw, buttons | ADC, menu, sampling timer | the picture is one window of consecutive samples around a trigger |
| calibration, zero calibration | tables, progress, saved rate and filters, EEPROM | timed steps, button presses | board, filters | records what was sourced; restores what it changed |
| statistics (`Stats.cpp`), log memory (`RamClass.cpp`), trend graph (`TrendGraph.cpp`) | samples gathered, a ring of points and extremes; a ring of entries | add a sample (interrupt), CLEAR, slider, draw (loop) | filters | no buffer overflows; readers follow the writer around the wrap |
| logger (`Logger.cpp`) | ring in external memory, view, zoom and scroll | add a sample and refresh the view (interrupt), turn and press the knob (loop) | ADC, knob | the view is the recording, and does not shiver |
| SCPI, network server | parser, client | source, limit, measure | board, loop | units as documented; consistent with the panel |
| chip drivers, displays, fan, graphics library | registers, pixels | I/O | | |

What is hard here: the pulse and sampling interrupts run between any two steps
of the loop; the panel works on a copy of the operation that three of the
functions never refresh; SCPI commands change the function behind the back of
menu, dialogs and knob; every change of range invalidates numbers that were
scaled before it; units are bare integers in micro-units with factors of 1000 at
the call sites; and the digitizer shares its flags and buffers with its
interrupt without a lock; a commit to the DAC is several steps, between any two of
which a pulse may make a whole commit of its own; three rings are written by an
interrupt and read backwards by somebody else; and the two calibrations stretch over many passes of the
loop, share globals, filters and EEPROM cells, and assume that nobody sources
anything in between.

## Modules

| module | models | notes |
|---|---|---|
| `SmuHal` | `SMU_HAL_717x.cpp` | The board as one record and every driver call as an operator on it. A DAC channel keeps what it was last told: the kind of quantity, the number, and the range it was scaled for. A quantity carries the unit its giver meant, which no operator looks at. |
| `DcSource` | how `Poormanssmu.cpp` sets up the board for its two DC functions | Operators on the board: power-up, opening of either function, the range chosen by the amount. `Instrument` and `Calibrating` extend it. |
| `Instrument` | `Poormanssmu.cpp` with menu, dialogs, knob, keys, SCPI, pulse, sweep, digitizer opening and closing | A pass of `loop()` is a sequence of phases; a phase in which nothing arrives is skipped. The pulse interrupt may run between any two. |
| `Output` | an abstract source channel | The output jumps from one amount to the next; only pulses of another span may leave it torn. |
| `Commit` | a commit to the source channel, `setSourceVoltage_unit` and `setSourceCurrent_unit` down to the two writes to the LTC2758 | One action per access to what the interrupt shares with the loop; the interrupt's commit is one action. `O` is the refinement mapping to `Output`. |
| `Waveforms` | `FunctionPulse.cpp` and `FunctionSweep.cpp` next to all other commits | Extends `Commit`: who commits, and when. |
| `Scope` | an abstract oscilloscope | A window that is replaced as a whole and only while it is not drawn. |
| `Digitizer` | `Digitizer.cpp`, the branch of `loop()` that serves it, `handleSampling`'s branch that feeds it | The interrupt is one action; each access of the loop to what they share is one. `Picture` is the refinement mapping to `Scope`. |
| `Calibrating` | `Calibration.cpp`'s automatic calibration, `ZeroCalibration.cpp`, the filters and the EEPROM cells they use | One action per timed part of a handler, next to a user and to power failing at any time. |
| `Stats` | `Stats.cpp`: the short trend on the panel | Gathering, points, extremes, limit and CLEAR. |
| `TrendLog` | `RamClass.cpp` and the reading of it in `TrendGraph.cpp` | One action per read of the loop; the interrupt may record between any two. |
| `Trends` | `handleSampling`'s branch that feeds both | Composes `Stats` and `TrendLog` with the loop that touches the panel or draws the graph. |
| `Logger` | `Logger.cpp` | The interrupt records and refreshes the view in one action; a turn of the knob is a read and a write back. |
| `Keys` | `Pushbuttons.cpp` | From what the pin reads to what the callback is told. |
| `MC...` | | constants for TLC |
| `BoardProofs` | | what each operator of `SmuHal` and `DcSource` preserves or establishes |
| `InstrumentProofs` | | types of `Instrument`, the timers, the ADC, the panel's invariant and what follows from it, units and scale, the menu that closes |
| `DigitizerProofs` | | the acquisition's invariant, the refinement to `Scope`, level triggering, the filling of the buffer, the way to the next frame |
| `CalibratingProofs` | | types, raw and right measurements, offsets and settings given back, the way to the end, of `Calibrating` |
| `WaveformProofs` | | types, shown is sourced, the refinement to `Output`, the return of a sweep and its way to its bounds |
| `TrendProofs` | | types and limits, extremes, CLEAR, line and axis, of `Trends` |
| `LoggerProofs` | | addresses, the view and its points, of `Logger`; a closed form of its recursion |
| `KeysProofs` | | types of `Keys`, that one thing is told of a press, and when |

How code and model correspond. `functionType`, `operationType`, `showSettings`
and `digitSelected` (`changeDigit > 0`) are the globals of the same names;
`menu`, `dials`, `pulse` and `adc` hold the fields of the objects they are named
after; `knob` says which pair of callbacks is registered (they are always
registered together). An action of `Touch` is what one frame does when that
button is touched; the menu is animated in the same frame when the code draws it
after looking at the buttons. `MenuSelect` is the whole of the menu's callback:
clean-up of the function left, opening of the new one, selection.

In `Calibrating`, `cal` holds the fields of `V_CALIBRATION` and `C_CALIBRATION`,
`zero` those of `ZEROCALIBRATION`; `series` and `point` are the globals of
`Calibration.cpp` that both instances share (`point.sourced` is `autoCalDone1`,
`point.index` is `autoCalArrayPointer`, `point.age` is how far `autoCalDacTimer`
lies back); `null` are the offsets, `eeprom` the cells that survive power-down.
`SourcePoint` and `RecordPoint` are the two parts of `autoCalADCfromDAC`;
`PrepareNull`, `RecordNullSmallRange`, `SwitchNullRange` and `FinishNull` the four
of `handleAutoNull`, counted by `zero.steps`. `PowerCycle` is `setup` with what it
reads back.

In `Commit`, `smu` holds the members of `ADCClass` that both the loop and the
interrupt write (`range` is `DAC_RANGE_HIGH`), `chip` what the LTC2758 keeps (a span
written is used from the next code on), and `call` the locals of the commit the loop is in.
`call.met` is history: the spans of the pulses that fell into it. In `Waveforms`, `pulse`
and `sweep` hold the fields of the two functions; `pulse.on` is the timer.

In `Stats`, `prelim` is `prelimBuffer` up to its counter, `trend` is `valueExt`, `extent`
are `minimum` and `maximum`. In `TrendLog`, `ram` is `normalRamValue`, `frame` the loop's
place in one of its passes over it. In `Logger`, `knob` holds the three statics of the knob,
`turn` the value a rotation read and has not written back yet, `view` the buffer of points.
In `Keys`, `key.down` is how far `keydownTimer` lies back, `key.red` is a red `color`.

Abstractions. Those of `Instrument` and `Digitizer` only add behaviours:

* A pulse alternates two levels and a sweep advances by steps; here either
  sources any amount of `Micros` at any time. The knob's result is any amount too.
* Times are nondeterministic: when a sweep step is due, when the five seconds of
  a selected digit are over, when the digitizer may draw again. The menu takes
  `MenuFrames` passes to scroll and stays for one pass after it.
* Every SPI transaction of the graphics library masks the timer interrupts, so a
  frame is one step; in `Instrument` a commit to the board is one step as well. What
  the pulse interrupt does between its steps is the question of `Commit` and `Waveforms`.
* The analogue side (gains, compensations, spans) is left out; the load decides
  nondeterministically when the automatic range switches.
* In `Digitizer` a sample is named by its sampling time modulo `Stamps`, so two
  samples are told apart when `Stamps` exceeds the ring; its value is only how it
  compares with the trigger level (below the hysteresis, between, above). An edge
  may be seen in any sample. The zeroes of an empty history count as low, which
  they are for the default trigger levels; for a level turned below zero they
  would not be.
* `countSinceLastSample` stops at N in the model.
* In `Calibrating` a filter holds either a mean of the present output or a
  mixture (`Unknown`); it has settled when twice its size in samples fits the time
  waited, because voltage and current are sampled in turns. What is measured is what
  is sourced plus the converter's offset for that quantity and range, less the
  recorded one, if the board controls that quantity within its range; else unknown.
  The correction by a table only matters as used or not, and REL is left out.
* Times are ages: before and after each of the handlers' waits. A pass is shorter
  than the waits (half a second at least), so an age does not advance over a part of
  a handler that is due. The calls of one pass may come in any order.
* The range is never switched by the load while a calibration runs.
* The series of the runs have their end points only, where the code's have 21 and 33;
  `readAdcCalFromEeprom` takes tables of at least ten, which those are and these need
  not be. A new EEPROM is a table of no points. A table is written in one step.
* Fields of a zero calibration that is over are reset: its next start sets them all.
* In `Waveforms` an amount is a voltage in mV, or as many of a current, since only the
  span is chosen by its size. A member of 64 bits, and the two members for the span,
  which are always opposite, are written in one step. Only sweeps of voltage step; one of
  current steps likewise and commits as any other commit of the loop does.
* In `Stats` a point is the set of its samples, in the code their mean, least and greatest.
  In `Logger` it is their sequence, in the code their mean: what belongs into a point is
  the question, and the numbers of samples tell it.
* In `TrendLog` an entry is its number. The third pass of a frame, for the labels, reads
  as the second and is left out. `FrameWrites` says that fewer than the seconds that
  separate the ring's end from the window are spent on one frame.
* In `Logger` `scrollAddress`, an unsigned number that counts below zero and is compared
  as an int, is an integer; what is read outside of the memory is `Outside`.
* In `Keys` time passes in units of the sampling, and ages stop one beyond a long press.
* `nulled`, `stamp` and `excursion` are history variables: no guard reads them
  but to advance them.

## Runs

| run | question | bounds |
|---|---|---|
| `panel` | Is a DC screen truthful, and what leads to it (`PanelInv`), under everything a user does? | all nine functions, one amount, one rate, one frame of animation |
| `scpi` | Do timers, menu and board survive commands at any time? | current and pulse, one SCPI number, no panel amounts, two frames of animation |
| `units` | Do numbers keep their units, and their scale? | the two DC functions and those without a source of their own; two amounts, one on each side of the automatic range |
| `capture` | Is the digitizer an oscilloscope, is the screen served, does it fill? | N = 4, 10 sampling times, all buttons and the menu |
| `trigger` | Does a level trigger fire once per excursion? | N = 6, all signals |
| `calibrate` | Is what calibrations record measured while it was sourced, do offsets survive, are settings given back, does each end? | two points a series, one other rate and one filter size, all orders of both calibrations of both quantities, any number of power failures |
| `waveforms` | Does a commit that pulses interrupt end in what is shown, and does a sweep turn at both bounds for ever? | five amounts, in all three spans of the DAC; one unit of step and of bounds; any level |
| `trend` | Do the interrupt's two rings and their readers agree? | 3 samples gathered, 2 points; a ring of 5 entries, a window of 3, 2 entries recorded while a frame is drawn, 11 in all |
| `logger` | Is the view the recording, and do samples stay in their points? | a memory of 7, a window of 3, 16 samples, zoom and scroll up to 3 |
| `keys` | Is one thing told of every press, and a held key as held? | two keys, a hold of three samplings, samplings late by up to more than a hold |
| `sweep_range`, `calibration_table` | violations: see below | |

Why the bounds suffice. In `Instrument` amounts are only compared with the
switching point of the range, so one small and one large one are all the cases;
one amount is enough where no property depends on its size. More animation
frames only stutter. In `Digitizer` N = 4 has a trigger, a sample after it and a
wrap of the ring at every offset; sampling times outlast the ring of N + 1 twice,
so a stale sample never looks fresh. The trigger run needs N larger than the four
samples of history, or the hold-off could not tell whether a zeroed history was
replaced; there sample identities do not matter and one sampling time is enough. In `Calibrating`
the first and the last point of a series are the special ones; with two, each is
there. Both quantities, and so the shared series, the shared EEPROM cell and each
instance's use of the other's remains, are in the one run. `TableSize` is one more
than the written entries, so that an index beyond the table would show. In `Waveforms` the span is
all a commit looks at, and there is an amount for each span, of both signs for two of them.
In `Trends` the log ring wraps twice; window and entries recorded during a frame fill it
exactly, so that one entry more would be overwritten before it is read; the slider's limit
can be lowered under what is gathered. The logger's memory holds seven samples, so that points
of two and of three samples meet its end at every offset; it is filled more than
twice. Two keys are enough to slide from one to the other.

What is fair. `loop()` is called for ever, so its actions are weakly fair as a
whole: some step of the loop is taken, never a particular touch, key or command.
Time passes and the sampling timer interrupts, so `Timer` and `Sampling` are
weakly fair in `Digitizer`; so are `Loop`, `HandleSampling` and `Time` in
`Calibrating`, and `Sample` in `Keys`. In `Waveforms` the steps of a commit, once begun,
are weakly fair; a step of the sweep is strongly fair, because it is enabled again and again rather
than always: each pass ends its commits before it comes to the sweep, which then steps if its time
is over. Nothing else is fair: no touch, no command, no pulse, no power failure.

`Careful` in `Calibrating` is a user who touches nothing while a calibration runs
(nothing but his patience prevents it) and starts the automatic one in the 1A range, as the
series of currents needs. The run checks that user; what calibrations record with
one who sources something else in between is his. `TypeOK`, the bounds of the tables
among it, is proved for every user.

`DcScreenTruthful`, `DialCommitsItsType` and `KnobFollowsScreen` are checked
without SCPI and with `OneInputPerFrame`. Both are needed: a command changes the
function without refreshing the copy of the operation, and a user who turns the
knob in the very pass after touching the menu and pressing the encoder acts on the
old copy. `OneTimer` and `MenuRepairs` hold with SCPI. `UnitsTruthful` leaves out
pulse, sweep and resistance, from which a limit of the other kind is taken over.

### What disagrees with the documentation

* `sweep_range` (`Poormanssmu.cpp:1741`): the range button rescales what the panel
  believes is sourced; in a current sweep the source DAC keeps the old scaling.
* `calibration_table` (`eeprom_adr.h:52`): the voltage offset of the 10mA range and the
  first measurement of the voltage table are one EEPROM cell. A zero calibration
  spoils the table; and after an automatic one, power-up takes the first measurement
  (some -10000 mV) for the offset of the 10mA range. That is why `NullsSurvive` follows
  that offset only until the next power-up (`nulled`), and why `LaterPointsMeasured`, which holds,
  begins with the second point. The first point may also be recorded unsourced, in every automatic
  calibration but the first: the end of one leaves `autoCalDone1` set, and
  `startAutoCal` does not reset it.

More observations; no run is spent on them.

Against comments or the code's own intent:

* `SOURce:CURRent` takes milli-amperes and the voltage limit micro-volts (`Poormanssmu.cpp:1327`,
  `:1427`), although their texts say micro-amperes and milli-volts.
* With no analog board, which the code simulates to be testable, the digitizer waits for ever
  and draws nothing (`:1537`, `:1203`): `ScreenServed` fails with `BoardPowered = FALSE`.
* The digitizer's extremes include an element never written (`Digitizer.cpp:472`), and FOCUS
  toggles the quantity in the middle of an acquisition, the converter's channel after it (`:144`).
* A pulse to 3 V next to one to 1.5 V changes the DAC's span at every edge, although the pulse
  function keeps the span for levels within 4.5 V to avoid glitches (`FunctionPulse.cpp:275`): the
  driver takes the narrow span up to 2.3 V whatever it is told (`SMU_HAL_717x.cpp:596`).
* The suspect second offset of currents is to be dropped, but another variable is
  reset (`Calibration.cpp:371`), so it is used.

Without a sentence to set them against:

* Digitizer: the first sample after the trigger is overwritten in the picture (`Scope` says so in
  `WindowEnding`), and the picture buffer is written one element past its end.
* Calibration: a voltage calibration after one of currents runs over the currents' series, whose
  34 written entries reach into the gain record at 0x200. A zero calibration started again before
  its end would give back its own rate and filter sizes.
* Commit: the loop converts a voltage with the span that the last commit left in the members, its own
  or a pulse's. After a pulse of another span, the code may not belong to the span in use
  until the next pulse (`Output` says so as "torn").
* Sweep: with a step of zero or less, or bounds in the wrong order, the value runs away; that is
  `SaneSweep`.
* Logger: scrolled by hand further back than the recording, `scrollAddress` counts below zero and
  what lies outside of the memory is read (`Holds` excludes it); once the memory has wrapped, an
  address just after the wrap makes a turn of the knob look like one to the present, and the
  view follows again. The interrupt's reset of `scrollRotary` is lost if the loop has
  read it and not yet written it back. Simulated samples are not fed to the logger.
* Trend: the axis is also fitted to the oldest entry of a full ring, and not to the last one of a full
  window (`AxisFitsLine` says so). CLEAR keeps what is gathered and the old extremes; lowering the
  slider drops samples already gathered.
* Keys: sliding from one key to another loses the release of the first, and that the second is held if
  the first was. Times are compared as int, which ends after 24.8 days. The encoder's callbacks
  ignore what they are told, so a long press toggles twice.
* Network: a command that arrives in two segments is cut, because the buffer for its line is local to
  the call.

## Proofs

`tlapm` proves the following from the named assumptions on the constants alone.

* `TypeCorrect`: type correctness of the instrument, together with the relay
  following the range. The lemmas of `BoardProofs` give each driver call its type
  and what it establishes.
* `TimersExclude`, `MenuSetsUpBoard`: with SCPI. The first is inductive with the
  types; the second follows from what opening a DC function does to any board.
* `PanelInvariant`: the inductive invariant `PanelInv`. Truthfulness alone is not
  inductive, because the knob, the dialogs and the range button go by the copy
  `operationType`. The invariant adds that the copy is fresh whenever it can be
  used: from the sampling phase to the end of a pass, while a dialog is open,
  while a digit is selected; that the pulse timer runs in the pulse function only;
  and that the knob belongs to the DC functions only. `ScreenTruthful`,
  `DialogsTruthful` and `KnobTruthful` follow. They assume `Alone`: no SCPI, one
  input per frame.
* `AdcGivenBack`, without SCPI: the rate the digitizer saves is one for measuring, and
  the digitizer alone changes the ADC while it is open.
* `UnitsKept`, `SourceScaled`: they assume `Alone` and `Plain`, that only the DC
  functions, the digitizer, the graph and the logger are chosen. Pulse and sweep leave the board
  with their own source. `UnitsInv` says that each number on the board carries a unit that fits the
  board's operation and its scale the range, and that no pulse or sweep was chosen; the lemmas of
  `BoardProofs` say which call keeps that.
* `CaptureCorrect`: the acquisition's invariant, for every even N and more
  sampling times than N. Looking back from where the ring writes next, it holds the
  latest samples in order; the trigger's place lies as many back as samples came
  after it. The count of these never exceeds half the picture, so the oldest point
  of the window is still in the ring: that is where its length of N + 1 is needed.
  `ScopeImplemented` (the refinement) follows from it. `BufferTypes` (no index leaves its
  buffer) needs only the counters' part of it, `CountsInv`, and so no bound on sampling times.
* `TriggersOnce`: while the signal stays high after a level trigger, `OnceInv` says, the digitizer
  waits for a lower one; or a full buffer has made it forget so, and the fifth sample
  after that reminds it. For a buffer of five samples or less (the code's has 400) this would be
  too late, and the property fails.
* `TypeCorrect` of `CalibratingProofs`, for every user, any two series that fit the
  tables and any offsets. Alone the types are not inductive: that the index stays
  inside the table needs `SeriesInv`, that value and index advance together
  (`value = min + index * step`), that the series in progress is at most at its last
  point, and that both instances share it, so that an instance started later may find the last
  point already taken.
* `RecordsRaw` and `SamplingGivenBack`, for a careful user. `RawInv` adds that no
  automatic calibration runs during a zero calibration, so that the end of one does not
  turn corrections on for the other. `SamplingInv`: while a zero calibration runs, what it
  saved is what was chosen before, by the user or by an automatic calibration; else the
  rate and the filters are.
* `NullsKept` and `LaterPointsRight`, for a careful user. The first assumes offsets below 10 V or A
  in the 1A range (`ModestOffsets`: larger ones power-up drops as faults; in the other range the
  offset of voltages is not followed through a power cycle, and that of currents never dropped).
  The second assumes a series of currents within the range (`CurrentsFit`; the code's goes from -400
  to 400 mA), and no bound on offsets: what power-up drops is unknown again. `ScreenInv`:
  what is calibrated is what the screen sources, so the feedback is right and at most one instance is
  in progress. `ZeroInv`: after each of its waits a zero calibration has sourced nothing in the range
  it records, with its own rate and filters, and its old offset is gone. `PointInv`: the
  same of a series, from the second point on; it does not hold of the first, for which `sourced` may
  be left over (see `TableMeasured` above). `NulledInv`, `OffsetInv` and `TableInv` say of memory and EEPROM together
  what was recorded, so that power may go at any time; `NulledInv` leaves out the shared cell.

* `TypeCorrect`, `ShownTruthful`, `OutputKept` of `WaveformProofs`: for any amounts and levels.
  `CommitInv` says what a commit in progress has reached: after its span is written, the DAC is told
  that span and the members hold it, as long as all pulses that fell into it had the
  same one. `ShownInv` adds that what is sourced is what the members say, when no pulse fell in. The
  refinement maps the write of the code to `End`, the steps before it to stuttering, and the
  interrupt's commit to `Pulse`. `SweepReturns` needs no invariant: it is arithmetic of one step, for
  every step and bounds.
* `GraphFits`, `ClearIsClear` of `TrendProofs`: for any measurements and slider. CLEAR forgets because
  what is gathered when it is pressed becomes one point. `LineTruthful` and `AxisTruthful`: for
  any ring and window that leave room for what is recorded during a frame. The ring's
  invariant gives for each address the number of the entry there; the frame's, how far
  back its place is, and that this is nearer than what the writer may reach.
* `EveryPressToldOnce` of `KeysProofs`: for any keys, hold and lateness. The invariant relates the
  flags of the decoder to what was told of the press.
* `TypeCorrect`, `ViewTruthful` and `PointsKept` of `LoggerProofs`: for any memory, view, zoom and turn
  of the knob. `RingInv` says how old the sample at each address is: the writer's distance around the
  ring (`Age`); `CountInv` when the memory counts as full, and that scrolling stays within it. The view is
  computed by a recursive function, `Back` and `getLastSamples`; that it reads the place `k` samples
  back for every `k` (`BackIs`) is proved without an induction scheme: a least counterexample
  (`NatMinimum`, from the well-foundedness of the naturals) contradicts one unfolding of the definition.
  `PointsKept` adds arithmetic: in step with the view the number of samples recorded is a multiple of the
  samples in a point, so the next refresh moves all of them by whole points.

Six theorems say of something that must happen eventually what its steps do for it, for all
constants and without fairness: as long as it is under way, there is a natural number that no step
increases, that each step of the code that matters decreases, and that is at its end only when it has
happened. With fairness of these steps this is the liveness the runs check on small instances.

* `MenuShrinks` (for `MenuGoesAway`): each frame of the panel takes from `FramesLeft`; no key, knob, command
  or interrupt stops a menu that closes or opens it again. SCPI included. On the settings page it waits.
* `FillsSoon` (`ContinuousFills`): each sample makes one less `Missing`, at most N + Half + 1 of them. It rests
  on no frame being drawn while there is something to fill (`NothingToDraw`), so that no button
  can touch trigger or counters meanwhile.
* `ServedSoon` (`ScreenServed`): once it is time for a frame, `Ahead` counts what is left to it: samples
  while the frame waits for a full buffer, steps of the loop at all other times. A buffer that fills between
  the two steps with which digitizing starts again is forgotten, and has to be filled once more; that this
  happens at most once before a frame is what the steps of `Restarting` are counted ahead of the samples for.
* `CalibrationsShorten` (`CalibrationsEnd`), for a careful user: each part of a handler and each wait takes
  from `Left`, seven in a zero calibration, at most four for each point of a series; filling the filters
  takes nothing from it, but makes `Sampled` true, and so comes at most once in between. That the number is
  positive until the end is `LengthInv`, that a series in progress has a point left, and rests on `ScreenInv`.
* `SweepReaches` (`SweepsOn`): `Way` is the distance to a bound with the turn at the other one;
  each step of a sane sweep takes at least one step from it, wherever the value is.
* `HeldInTime` (`HeldIsTold`): a key is told as held if and only if it has been down for longer than
  the hold period, and each sample of it, on the key or between keys, counts towards that.

Only model-checked: that these steps are taken in the end, which is fairness: the liveness
properties `MenuGoesAway`, `ScreenServed`, `ContinuousFills`, `CalibrationsEnd`, `SweepsOn` and `HeldIsTold`.
Fairness and ENABLED are out of the prover's reach.

## Plan

Done, in this order: `SmuHal` and `Instrument` (the core: what the screen says is
what the board does), their proofs; `Scope` and `Digitizer`, their proofs; `DcSource` and
`Calibrating`, their proofs; `Output`, `Commit` and `Waveforms`, their proofs; `Stats`,
`TrendLog` and `Trends`, their proofs; `Logger` and `Keys`, their proofs; how far from its end
each thing is that must come to one.

Left, each of them small next to what is there: the knob's dynamic speed; the server's
buffer and its first client; the gain record in the EEPROM.

## Not modelled

Drawing, formatting and debug output; the arithmetic of gains, compensation tables and
REL, and the gain record in the EEPROM; the chip drivers' registers; running means
(`SimpleStats`, the filters' arithmetic); the network server; temperatures and
fan; the simulated board (a test double).

Most of the repository's lines, over 75000, are vendored under `src/lib/` (the TCP/IP stack and
its Ethernet driver, the encoder library, SCPI parsing), whose own projects test them, and the
display library `GD2.cpp` came with its board. Nothing here claims anything of them: modelling
them from here would be modelling somebody else's system without its tests and its documentation.
The lines that `PROJECT.json` maps are of the firmware's own files, more than half of which draw
and format.
