----------------------------- MODULE Calibrating -----------------------------
(***************************************************************************)
(* The two calibrations the instrument makes of itself, next to a user:    *)
(*   - src/src/Calibration.cpp, automatic calibration: an instance for each*)
(*     quantity sources a series of values and records what it measures;   *)
(*   - src/src/ZeroCalibration.cpp, zero calibration: sources nothing in   *)
(*     both current ranges and records the offsets.                        *)
(* Both write to the EEPROM, from which power-up reads back.               *)
(*                                                                         *)
(* Every action is one timed part of a handler that each pass of loop()    *)
(* calls.  Amounts on the board and in the filters are in micro-units, the *)
(* values of the series in milli-units as in the code.                     *)
(***************************************************************************)
EXTENDS DcSource

CONSTANTS
  VoltSeries,     \* [min, step, points]: what a voltage calibration sources
  CurrSeries,     \* the same for a current
  TableSize,      \* length of set_adc and meas_adc
  Offset,         \* the converter's error: Offset[quantity][current range]
  UserRates,      \* sampling rates the panel offers
  UserFilters,    \* filter sizes the slider offers
  Careful         \* does the user wait for a calibration, and choose the 1A range for it?

CalibrationRate   == 20     \* startAutoCal
CalibrationFilter == 5
ZeroRate          == 10     \* handleAutoNull
ZeroFilter        == 20
FilterMax         == 1000   \* FILTER_MAX_LENGTH

Series == [min : Int, step : Nat \ {0}, points : Nat \ {0}]
Last(s) == s.min + (s.points - 1) * s.step                   \* maxValueCal
Index == 0 .. TableSize - 1

ASSUME SeriesAssumption  == VoltSeries \in Series /\ CurrSeries \in Series
ASSUME TableAssumption   == /\ TableSize \in Nat
                            /\ VoltSeries.points + 1 < TableSize
                            /\ CurrSeries.points + 1 < TableSize
ASSUME OffsetAssumption  == Offset \in [Operations -> [CurrentRanges -> Int]]
ASSUME UserAssumption    == /\ UserRates \subseteq Nat \ {0, ZeroRate}
                            /\ UserFilters \subseteq 0 .. FilterMax
ASSUME CarefulAssumption == Careful \in BOOLEAN

(* What a filter holds before it is full of samples of one and the same    *)
(* output, and what an ADC shows of a quantity that nothing controls.      *)
Unknown == 987654321

VARIABLES
  board,         \* the analog board, see SmuHal
  functionType,  \* the DC function on the screen
  rate,          \* sampling rate of the ADC
  filter,        \* filterSize of V_FILTERS and C_FILTERS
  mean,          \* and what they hold
  cal,           \* V_CALIBRATION and C_CALIBRATION: progress, table, is it used
  series,        \* the globals min, max and step both instances share
  point,         \* the globals that say where the series is, and its timer
  zero,          \* ZEROCALIBRATION: steps done, timer, what it will restore
  null,          \* nullValueVol and nullValueCur, shared by the instances
  eeprom,        \* what survives power-down
  nulled         \* history: the offsets that were recorded and not cleared since

vars == <<board, functionType, rate, filter, mean, cal, series, point, zero, null,
          eeprom, nulled>>

Instances == [inProgress : BOOLEAN, use : BOOLEAN, points : Index,
              set : [Index -> Int], meas : [Index -> Int]]
Points == [value : Int, index : Index, sourced : BOOLEAN, age : 0 .. 2]
ZeroStates == [started : BOOLEAN, steps : 0 .. 3, op : Operations, age : 0 .. 3,
               rate : Nat, filter : [Operations -> 0 .. FilterMax]]
Nulls == [Operations -> [CurrentRanges -> Int]]
Tables == [Operations -> [Index -> Int]]
Eeproms == [points : [Operations -> Index], set : Tables, meas : Tables, null : Nulls]

NoTable == [i \in Index |-> 0]
NoNulls == [op \in Operations |-> [r \in CurrentRanges |-> 0]]
Both(x) == [op \in Operations |-> x]

StartOfSeries == [value |-> VoltSeries.min, index |-> 0, sourced |-> FALSE, age |-> 0]
NoZero == [started |-> FALSE, steps |-> 0, op |-> VOLTAGE, age |-> 0,
           rate |-> 0, filter |-> Both(0)]

Init ==
  /\ board = AfterSetup
  /\ functionType = DCV
  /\ rate = CalibrationRate
  /\ filter = Both(CalibrationFilter)
  /\ mean = Both(Unknown)
  /\ cal = Both([inProgress |-> FALSE, use |-> TRUE, points |-> 0,
                 set |-> NoTable, meas |-> NoTable])
  /\ series = VoltSeries
  /\ point = StartOfSeries
  /\ zero = NoZero
  /\ null = NoNulls
  /\ eeprom = [points |-> Both(0), set |-> Both(NoTable), meas |-> Both(NoTable),
               null |-> NoNulls]
  /\ nulled = {}

-----------------------------------------------------------------------------
(* What the ADC shows.  A quantity can be known only if it is the one being*)
(* controlled: sourced by its DAC, fed back, scaled for the range in use,  *)
(* within the range.                                                       *)

Span(b) == IF b.range = "MILLIAMP10" THEN 10000 ELSE 1000000

Controls(b, op) ==
  /\ b.source.kind = op
  /\ b.feedback = op
  /\ op = CURRENT => b.source.range = b.range /\ b.source.micro \in -Span(b) .. Span(b)

Measured(op) ==
  IF Controls(board, op)
  THEN board.source.micro + Offset[op][board.range] - null[op][board.range]
  ELSE Unknown

(* handleSampling, called by the sampling timer, has filled both filters   *)
(* with samples of the present output.                                     *)
HandleSampling ==
  /\ \E op \in Operations : mean[op] # Measured(op)
  /\ mean' = [op \in Operations |-> Measured(op)]
  /\ UNCHANGED <<board, functionType, rate, filter, cal, series, point, zero, null,
                 eeprom, nulled>>

(* Whatever changes output or filters leaves a mixture in the filters.     *)
Mixed == mean' = Both(Unknown)

(* The quantities are sampled in turns.  Are the filters full of what is   *)
(* sourced now, or too slow to be after so many seconds?                   *)
Settled(seconds) ==
  \A op \in Operations : 2 * filter[op] <= rate * seconds => mean[op] = Measured(op)

SetFilterSize(old, size) ==
  IF size < 1 THEN 1 ELSE IF size <= FilterMax THEN size ELSE old

-----------------------------------------------------------------------------
(* The EEPROM.  The offset of voltages in the 10mA range is stored where   *)
(* the first measurement of the voltage table is (eeprom_adr.h).           *)

SharedCell(op, r) == op = VOLTAGE /\ r = "MILLIAMP10"

WriteNull(e, op, r, v) ==
  IF SharedCell(op, r) THEN [e EXCEPT !.meas[VOLTAGE][0] = v]
                       ELSE [e EXCEPT !.null[op][r] = v]

NullLimit == 10000000

(* Offsets beyond 10000 are "suspect", and dropped; but for the second one *)
(* of currents, where the code resets another variable.                    *)
ReadNull(e, op, r) ==
  LET v == IF SharedCell(op, r) THEN e.meas[VOLTAGE][0] ELSE e.null[op][r]
      suspect == v \notin -NullLimit .. NullLimit
  IN  IF suspect /\ ~(op = CURRENT /\ r = "MILLIAMP10") THEN 0 ELSE v

(* writeAdcCalToEeprom: one entry more than there are points *)
WriteAdcCal(e, op, c, points) ==
  LET Entries(new, old) == [i \in Index |-> IF i <= points THEN new[i] ELSE old[i]]
  IN  [e EXCEPT !.points = [e.points EXCEPT ![op] = points],
                !.set    = [e.set EXCEPT ![op] = Entries(c.set, e.set[op])],
                !.meas   = [e.meas EXCEPT ![op] = Entries(c.meas, e.meas[op])]]

(* readAdcCalFromEeprom *)
ReadAdcCal(e, op) ==
  LET Entries(t) == [i \in Index |-> IF i < e.points[op] THEN t[i] ELSE 0]
  IN  [inProgress |-> FALSE, use |-> TRUE, points |-> e.points[op],
       set |-> Entries(e.set[op]), meas |-> Entries(e.meas[op])]

(* Power goes and comes back at any time. *)
PowerCycle ==
  /\ board' = AfterSetup
  /\ functionType' = DCV
  /\ rate' = CalibrationRate
  /\ filter' = Both(CalibrationFilter)
  /\ Mixed
  /\ cal' = [op \in Operations |-> ReadAdcCal(eeprom, op)]
  /\ series' = VoltSeries
  /\ point' = StartOfSeries
  /\ zero' = NoZero
  /\ null' = [op \in Operations |-> [r \in CurrentRanges |-> ReadNull(eeprom, op, r)]]
  /\ nulled' = {n \in nulled : ~SharedCell(n[1], n[2])}
  /\ UNCHANGED eeprom

-----------------------------------------------------------------------------
(* Automatic calibration.  A current calibration replaces the series that  *)
(* both instances follow, and nothing brings the other one back.           *)

SeriesFor(op) == IF op = CURRENT THEN CurrSeries ELSE series

(* Mutants of StartPoint: the index is not reset. *)
KeepsIndex(s) == [point EXCEPT !.value = s.min, !.age = 0]

(* autoCalDone1 (sourced) is not reset either *)
StartPoint(s) == [point EXCEPT !.value = s.min, !.index = 0, !.age = 0]

(* Mutant of StartInstance: the old table goes on correcting measurements. *)
KeepsUsing(c, points) == [c EXCEPT !.inProgress = TRUE, !.points = points]

StartInstance(c, points) ==
  [c EXCEPT !.inProgress = TRUE, !.use = FALSE, !.points = points]

StartAutoCal(op) ==
  /\ series' = SeriesFor(op)
  /\ IF cal[op].inProgress
     THEN UNCHANGED <<rate, filter, mean, cal, point>>
     ELSE /\ cal' = [cal EXCEPT ![op] = StartInstance(@, SeriesFor(op).points)]
          /\ point' = StartPoint(SeriesFor(op))
          /\ rate' = CalibrationRate
          /\ filter' = [filter EXCEPT ![op] = SetFilterSize(@, CalibrationFilter)]
          /\ Mixed
  /\ UNCHANGED <<board, functionType, zero, null, eeprom, nulled>>

(* autoCalADCfromDAC, half a second into a point *)
SourcePoint(op) ==
  /\ cal[op].inProgress
  /\ ~point.sourced
  /\ point.age >= 1
  /\ board' = SetCommitSource(board, op, SourceAmount(op, point.value * 1000))
  /\ cal' = [cal EXCEPT ![op].set[point.index] = point.value]
  /\ point' = [point EXCEPT !.sourced = TRUE]
  /\ Mixed
  /\ UNCHANGED <<functionType, rate, filter, series, zero, null, eeprom, nulled>>

(* Mutants of NextPoint: the next value need not be sourced before it is   *)
(* measured; the value stays.                                              *)
KeepsSourced(p) == [p EXCEPT !.value = @ + series.step, !.index = @ + 1, !.age = 0]
KeepsValue(p) == [p EXCEPT !.index = (@ + 1) % series.points, !.age = 0, !.sourced = FALSE]

NextPoint(p) ==
  [p EXCEPT !.value = @ + series.step, !.index = @ + 1, !.age = 0, !.sourced = FALSE]

(* autoCalADCfromDAC, five seconds into a point: record, then go to the    *)
(* next one or finish.  Finishing leaves autoCalDone1 (sourced) set.       *)
RecordPoint(op) ==
  LET recorded == [cal[op] EXCEPT !.meas[point.index] = mean[op]]
      points   == point.index + 1
      next     == NextPoint(point)
  IN  /\ cal[op].inProgress
      /\ point.age = 2
      /\ IF next.value > Last(series)
         THEN /\ cal' = [cal EXCEPT ![op] = [recorded EXCEPT !.inProgress = FALSE,
                                                !.use = TRUE, !.points = points]]
              /\ point' = [point EXCEPT !.value = next.value, !.index = points]
              /\ filter' = [filter EXCEPT ![op] = SetFilterSize(@, CalibrationFilter)]
              /\ eeprom' = WriteAdcCal(eeprom, op, recorded, points)
         ELSE /\ cal' = [cal EXCEPT ![op] = recorded]
              /\ point' = next
              /\ UNCHANGED <<filter, eeprom>>
      /\ UNCHANGED <<board, functionType, rate, mean, series, zero, null, nulled>>

AutoCalADCfromDAC == \E op \in Operations : SourcePoint(op) \/ RecordPoint(op)

-----------------------------------------------------------------------------
(* Zero calibration.  zero.steps counts nullCalibrationDone0 to 3.         *)

StartNullCalibration(op) ==
  LET clear(e) == WriteNull(WriteNull(e, op, "MILLIAMP10", 0), op, "AMP1", 0)
  IN  /\ zero' = [started |-> TRUE, steps |-> 0, op |-> op, age |-> 0,
                  rate |-> rate, filter |-> filter]
      /\ null' = [null EXCEPT ![op] = [r \in CurrentRanges |-> 0]]
      /\ eeprom' = clear(eeprom)
      /\ nulled' = {n \in nulled : n[1] # op}
      /\ Mixed
      /\ UNCHANGED <<board, functionType, rate, filter, cal, series, point>>

(* Mutant of SourceNothing: the range is forgotten. *)
StaysInRange(b, r, op) == SetCommitSource(b, op, SourceAmount(op, 0))

(* zero calibration sources nothing in the given range *)
SourceNothing(b, r, op) ==
  SetCommitSource(SetCurrentRange(b, r, op), op, SourceAmount(op, 0))

PrepareNull ==
  /\ zero.started
  /\ zero.steps = 0
  /\ cal' = [op \in Operations |-> [cal[op] EXCEPT !.use = FALSE]]
  /\ rate' = ZeroRate
  /\ board' = SourceNothing(board, "MILLIAMP10", zero.op)
  /\ filter' = [op \in Operations |-> SetFilterSize(filter[op], ZeroFilter)]
  /\ zero' = [zero EXCEPT !.steps = 1]
  /\ Mixed
  /\ UNCHANGED <<functionType, series, point, null, eeprom, nulled>>

RecordNull(r) ==
  /\ null' = [null EXCEPT ![zero.op][r] = mean[zero.op]]
  /\ eeprom' = WriteNull(eeprom, zero.op, r, mean[zero.op])
  /\ nulled' = nulled \cup {<<zero.op, r>>}
  /\ Mixed

(* after ten seconds *)
RecordNullSmallRange ==
  /\ zero.started
  /\ zero.steps = 1
  /\ zero.age >= 1
  /\ RecordNull("MILLIAMP10")
  /\ zero' = [zero EXCEPT !.steps = 2]
  /\ UNCHANGED <<board, functionType, rate, filter, cal, series, point>>

(* after eleven *)
SwitchNullRange ==
  /\ zero.started
  /\ zero.steps = 2
  /\ zero.age >= 2
  /\ board' = SourceNothing(board, "AMP1", zero.op)
  /\ zero' = [zero EXCEPT !.steps = 3]
  /\ Mixed
  /\ UNCHANGED <<functionType, rate, filter, cal, series, point, null, eeprom, nulled>>

(* Mutant of RestoredRate: the rate of the calibration itself. *)
OwnRate(z) == ZeroRate

RestoredRate(z) == z.rate

(* after twenty-one: record, and give back what was changed *)
FinishNull ==
  /\ zero.started
  /\ zero.steps = 3
  /\ zero.age >= 3
  /\ RecordNull("AMP1")
  /\ rate' = RestoredRate(zero)
  /\ filter' = [op \in Operations |->
                 SetFilterSize(SetFilterSize(filter[op], ZeroFilter), zero.filter[op])]
  /\ cal' = [op \in Operations |-> [cal[op] EXCEPT !.use = TRUE]]
  /\ zero' = NoZero
  /\ UNCHANGED <<board, functionType, series, point>>

HandleAutoNull == PrepareNull \/ RecordNullSmallRange \/ SwitchNullRange \/ FinishNull

-----------------------------------------------------------------------------
(* The user. *)

Idle == ~zero.started /\ \A op \in Operations : ~cal[op].inProgress
MayTouch == Careful => Idle
MayCalibrate == MayTouch /\ (Careful => board.range = "AMP1")

SelectFunction(f) ==
  /\ MayTouch
  /\ functionType' = f
  /\ board' = IF f = DCV THEN OpenVoltage(board)
                         ELSE OpenCurrent(board, OperationOf(functionType))
  /\ Mixed
  /\ UNCHANGED <<rate, filter, cal, series, point, zero, null, eeprom, nulled>>

SwapCurrentRange ==
  /\ MayTouch
  /\ board' = SetCurrentRange(board, IF board.range = "AMP1" THEN "MILLIAMP10" ELSE "AMP1",
                              OperationOf(functionType))
  /\ Mixed
  /\ UNCHANGED <<functionType, rate, filter, cal, series, point, zero, null, eeprom, nulled>>

SetSamplingRate(r) ==
  /\ MayTouch
  /\ rate' = r
  /\ UNCHANGED <<board, functionType, filter, mean, cal, series, point, zero, null,
                 eeprom, nulled>>

SlideFilter(size) ==
  /\ MayTouch
  /\ filter' = [op \in Operations |-> SetFilterSize(filter[op], size)]
  /\ Mixed
  /\ UNCHANGED <<board, functionType, rate, cal, series, point, zero, null, eeprom, nulled>>

(* the UNCAL button *)
ToggleCalibratedValues ==
  /\ MayTouch
  /\ cal' = [op \in Operations |-> [cal[op] EXCEPT !.use = ~@]]
  /\ UNCHANGED <<board, functionType, rate, filter, mean, series, point, zero, null,
                 eeprom, nulled>>

CalibrateNonlinear == MayCalibrate /\ StartAutoCal(OperationOf(functionType))

CalibrateZero == MayTouch /\ StartNullCalibration(OperationOf(functionType))

User ==
  \/ \E f \in DcFunctions : SelectFunction(f)
  \/ SwapCurrentRange
  \/ \E r \in UserRates : SetSamplingRate(r)
  \/ \E size \in UserFilters : SlideFilter(size)
  \/ ToggleCalibratedValues
  \/ CalibrateNonlinear
  \/ CalibrateZero

-----------------------------------------------------------------------------
(* Time.  A pass of loop() is much shorter than the seconds between two    *)
(* parts of a handler: time does not reach the next part before the loop   *)
(* has done the last one.                                                  *)

(* point.age: less than 500 ms, less than 5000 ms, more *)
PointTime ==
  /\ \E op \in Operations : cal[op].inProgress
  /\ point.age < 2
  /\ point.age = 1 => point.sourced /\ Settled(4)
  /\ point' = [point EXCEPT !.age = @ + 1]
  /\ UNCHANGED <<board, functionType, rate, filter, mean, cal, series, zero, null,
                 eeprom, nulled>>

(* zero.age: less than 10 s, 11 s, 21 s, more *)
ZeroTime ==
  /\ zero.started
  /\ zero.age < 3
  /\ zero.steps > zero.age
  /\ zero.age \in {0, 2} => Settled(9)
  /\ zero' = [zero EXCEPT !.age = @ + 1]
  /\ UNCHANGED <<board, functionType, rate, filter, mean, cal, series, point, null,
                 eeprom, nulled>>

Loop == AutoCalADCfromDAC \/ HandleAutoNull
Time == PointTime \/ ZeroTime

Next == Loop \/ HandleSampling \/ Time \/ User \/ PowerCycle

Spec == Init /\ [][Next]_vars

(* The loop runs, the sampling timer interrupts, time passes. *)
FairSpec == Spec /\ WF_vars(Loop) /\ WF_vars(HandleSampling) /\ WF_vars(Time)

-----------------------------------------------------------------------------
(* Every variable holds what its declaration allows.  In particular nobody *)
(* reads or writes beyond the tables, not even when both instances follow  *)
(* one series, or the EEPROM gets an entry more than there are points.     *)
TypeOK ==
  /\ board \in Board
  /\ functionType \in DcFunctions
  /\ rate \in Nat
  /\ filter \in [Operations -> 0 .. FilterMax]
  /\ mean \in [Operations -> Int]
  /\ cal \in [Operations -> Instances]
  /\ series \in {VoltSeries, CurrSeries}
  /\ point \in Points
  /\ zero \in ZeroStates
  /\ null \in Nulls
  /\ eeprom \in Eeproms
  /\ nulled \subseteq Operations \X CurrentRanges

(* A point of a table says what was measured while it was sourced: right,  *)
(* or off by what a zero calibration would remove.                         *)
PointMeasured(op, p) ==
  cal[op].meas[p] - 1000 * cal[op].set[p] \in {0, Offset[op]["AMP1"]}

(* The table of a calibration that is over holds what was measured while   *)
(* its points were sourced, after any sequence of calibrations and power   *)
(* cycles; from the second point on.                                       *)
LaterPointsMeasured ==
  \A op \in Operations : ~cal[op].inProgress =>
    \A p \in 1 .. cal[op].points - 1 : PointMeasured(op, p)

(* "DONE nonlinear calibration of" so many points; "calibration entries    *)
(* from address" the start "to" the end of the table: all of them.         *)
TableMeasured ==
  \A op \in Operations : ~cal[op].inProgress =>
    \A p \in 0 .. cal[op].points - 1 : PointMeasured(op, p)

(* An offset that was recorded is the converter's, for its own quantity and*)
(* range, and stays so whatever is calibrated later and however often power*)
(* fails; but for the one whose cell the EEPROM also uses for a table.     *)
NullsSurvive == \A n \in nulled : null[n[1]][n[2]] = Offset[n[1]][n[2]]

(* After a zero calibration the converter samples at a rate, and through   *)
(* filters, that were chosen for it before.                                *)
GivesBack ==
  ~zero.started =>
    /\ rate \in UserRates \cup {CalibrationRate}
    /\ \A op \in Operations :
         filter[op] \in {SetFilterSize(1, size) : size \in UserFilters \cup {CalibrationFilter}}

(* What a calibration records is never corrected by an older calibration.  *)
RawWhileCalibrating ==
  \A op \in Operations :
    cal[op].inProgress \/ (zero.started /\ zero.steps > 0) => ~cal[op].use

(* A calibration comes to an end.                                          *)
CalibrationsEnd == ~Idle ~> Idle
=============================================================================
