-------------------------- MODULE CalibratingProofs --------------------------
(***************************************************************************)
(* Calibrating, for series of any length and step, tables of any length    *)
(* that leaves two entries free, any converter and any user:               *)
(*   TypeCorrect            the tables are never left; also when both      *)
(*                          instances follow one series                    *)
(*   RecordsRaw             no calibration corrects another                *)
(*   SamplingGivenBack      rate and filters are given back                *)
(*   NullsKept              offsets are recorded in their range, and stay  *)
(*   LaterPointsRight       points are recorded while they are sourced     *)
(*   CalibrationsShorten    what is started comes nearer to its end        *)
(* The last five need the user to wait for a calibration to end; NullsKept *)
(* also offsets that power-up does not take for faults (ModestOffsets), and*)
(* LaterPointsRight a series of currents within the range (CurrentsFit).   *)
(***************************************************************************)
EXTENDS Calibrating, BoardProofs

(* Where the series is.  The last instance that follows it may find that   *)
(* the other one has taken its last point already.                         *)
FollowsSeries ==
  /\ point.value = series.min + point.index * series.step
  /\ point.index <= series.points

SeriesInv ==
  /\ \A op \in Operations : cal[op].inProgress => FollowsSeries
  /\ (\A op \in Operations : cal[op].inProgress) => point.index < series.points
  /\ cal[CURRENT].inProgress => series = CurrSeries

TypeInv == TypeOK /\ RelayFollowsRange(board) /\ SeriesInv

-----------------------------------------------------------------------------
(* Numbers. *)

(* A point is beyond the end of its series exactly if its index is. *)
LEMMA SeriesEnds ==
  ASSUME NEW s \in Series, NEW i \in Nat
  PROVE  /\ s.min + i * s.step + s.step = s.min + (i + 1) * s.step
         /\ s.min + i * s.step + s.step > Last(s) <=> i + 1 >= s.points
<1>1. s.min \in Int /\ s.step \in Nat /\ s.step > 0 /\ s.points \in Nat
  BY DEF Series
<1>2. ASSUME NEW m \in Int, NEW d \in Nat, NEW n \in Nat, d > 0
      PROVE  /\ m + i * d + d = m + (i + 1) * d
             /\ m + i * d + d > m + (n - 1) * d <=> i + 1 >= n
  <2>1. (i + 1) * d = i * d + d
    OBVIOUS
  <2>2. CASE i + 1 >= n
    <3>1. PICK k \in Nat : i + 1 = n + k
      BY <2>2, i + 1 - n \in Nat
    <3>2. (i + 1) * d = (n - 1) * d + d + k * d
      BY <3>1
    <3>3. k * d \in Nat
      OBVIOUS
    <3> QED
      BY <1>2, <2>1, <2>2, <3>2, <3>3
  <2>3. CASE ~(i + 1 >= n)
    <3>1. PICK k \in Nat : n - 1 = (i + 1) + k
      BY <2>3, n - 1 - (i + 1) \in Nat
    <3>2. (n - 1) * d = (i + 1) * d + k * d
      BY <3>1
    <3>3. k * d \in Nat
      OBVIOUS
    <3> QED
      BY <1>2, <2>1, <2>3, <3>2, <3>3
  <2> QED
    BY <2>1, <2>2, <2>3
<1> QED
  BY <1>1, <1>2 DEF Last

(* Both series leave the tables two entries. *)
LEMMA SeriesFit ==
  ASSUME NEW s \in {VoltSeries, CurrSeries}
  PROVE  s \in Series /\ s.points \in Nat \ {0} /\ s.points + 1 < TableSize /\ TableSize \in Nat
BY SeriesAssumption, TableAssumption DEF Series

(* The size of a filter. *)
LEMMA FilterSizes ==
  ASSUME NEW old \in 0 .. FilterMax, NEW size \in 0 .. FilterMax
  PROVE  /\ SetFilterSize(old, size) \in 0 .. FilterMax
         /\ SetFilterSize(old, size) = SetFilterSize(1, size)
         /\ SetFilterSize(old, SetFilterSize(1, size)) = SetFilterSize(1, size)
BY DEF SetFilterSize, FilterMax

-----------------------------------------------------------------------------
(* What the operators of Calibrating return. *)

LEMMA OperationNames == VOLTAGE \in Operations /\ CURRENT \in Operations
BY DEF Operations

LEMMA RangeNames == "AMP1" \in CurrentRanges /\ "MILLIAMP10" \in CurrentRanges
BY DEF CurrentRanges

LEMMA IndexZero == 0 \in Index
BY SeriesFit DEF Index

(* Going to the first point of a series, or to the next one. *)
LEMMA StartPointType ==
  ASSUME point \in Points, NEW s \in Series
  PROVE  StartPoint(s) \in Points /\ StartPoint(s).value = s.min /\ StartPoint(s).index = 0
<1> DEFINE a == [point EXCEPT !.value = s.min, !.index = 0]
<1>1. s.min \in Int
  BY DEF Series
<1>2. a \in Points /\ a.value = s.min /\ a.index = 0
  BY <1>1, IndexZero DEF Points
<1> HIDE DEF a
<1>3. [a EXCEPT !.age = 0] \in Points /\ [a EXCEPT !.age = 0].value = s.min
      /\ [a EXCEPT !.age = 0].index = 0
  BY <1>2 DEF Points
<1> QED
  BY <1>3 DEF a, StartPoint

LEMMA NextPointType ==
  ASSUME NEW p \in Points, series \in Series, p.index + 1 \in Index
  PROVE  /\ NextPoint(p) \in Points
         /\ NextPoint(p).value = p.value + series.step
         /\ NextPoint(p).index = p.index + 1
<1> DEFINE a == [p EXCEPT !.value = @ + series.step, !.index = @ + 1]
           b == [a EXCEPT !.age = 0]
           n == [b EXCEPT !.sourced = FALSE]
<1>1. p.value + series.step \in Int
  BY DEF Series, Points
<1>2. a \in Points /\ a.value = p.value + series.step /\ a.index = p.index + 1
  BY <1>1 DEF Points
<1> HIDE DEF a
<1>3. b \in Points /\ b.value = p.value + series.step /\ b.index = p.index + 1
  BY <1>2 DEF Points
<1> HIDE DEF b
<1>4. n \in Points /\ n.value = p.value + series.step /\ n.index = p.index + 1
  BY <1>3 DEF Points
<1> QED
  BY <1>4 DEF a, b, NextPoint

LEMMA MeasuredType ==
  ASSUME board \in Board, null \in Nulls, NEW op \in Operations
  PROVE  Measured(op) \in Int
<1>1. board.source.micro \in Int /\ board.range \in CurrentRanges
  BY DEF Board, DacWord
<1>2. Offset[op][board.range] \in Int /\ null[op][board.range] \in Int
  BY <1>1, OffsetAssumption DEF Nulls
<1> QED
  BY <1>1, <1>2 DEF Measured, Unknown

LEMMA MixedType == ASSUME Mixed PROVE mean' \in [Operations -> Int]
BY DEF Mixed, Both, Unknown

(* Sourcing an amount, or nothing in a range. *)
LEMMA SourcedBoard ==
  ASSUME NEW b \in Board, RelayFollowsRange(b), NEW op \in Operations, NEW m \in Int,
         NEW r \in CurrentRanges
  PROVE  /\ SetCommitSource(b, op, SourceAmount(op, m)) \in Board
         /\ RelayFollowsRange(SetCommitSource(b, op, SourceAmount(op, m)))
         /\ SourceNothing(b, r, op) \in Board
         /\ RelayFollowsRange(SourceNothing(b, r, op))
<1>1. SourceAmount(op, m) \in Quantity /\ SourceAmount(op, 0) \in Quantity
  BY AmountTypes
<1>2. SetCurrentRange(b, r, op) \in Board /\ RelayFollowsRange(SetCurrentRange(b, r, op))
  BY RangeTypes
<1> QED
  BY <1>1, <1>2, SetterTypes, SettersKeepRelay DEF SourceNothing

LEMMA NullInEeprom ==
  ASSUME NEW e \in Eeproms, NEW op \in Operations, NEW r \in CurrentRanges, NEW v \in Int
  PROVE  WriteNull(e, op, r, v) \in Eeproms /\ ReadNull(e, op, r) \in Int
<1>1. e.meas \in Tables /\ e.null \in Nulls
  BY DEF Eeproms
<1> DEFINE m == [e.meas EXCEPT ![VOLTAGE] = [e.meas[VOLTAGE] EXCEPT ![0] = v]]
           n == [e.null EXCEPT ![op] = [e.null[op] EXCEPT ![r] = v]]
<1>2. m \in Tables /\ e.meas[VOLTAGE][0] \in Int
  BY <1>1, OperationNames, IndexZero DEF Tables
<1>3. n \in Nulls /\ e.null[op][r] \in Int
  BY <1>1 DEF Nulls
<1>4. WriteNull(e, op, r, v) = IF SharedCell(op, r) THEN [e EXCEPT !.meas = m]
                                                   ELSE [e EXCEPT !.null = n]
  BY DEF WriteNull, Eeproms
<1> HIDE DEF m, n
<1>6. WriteNull(e, op, r, v) \in Eeproms
  BY <1>2, <1>3, <1>4 DEF Eeproms
<1>7. ReadNull(e, op, r) \in Int
  BY <1>2, <1>3 DEF ReadNull
<1> QED
  BY <1>6, <1>7

LEMMA TableInEeprom ==
  ASSUME NEW e \in Eeproms, NEW op \in Operations, NEW c \in Instances, NEW n \in Index
  PROVE  WriteAdcCal(e, op, c, n) \in Eeproms /\ ReadAdcCal(e, op) \in Instances
<1>1. e.points \in [Operations -> Index] /\ e.set \in Tables /\ e.meas \in Tables
  BY DEF Eeproms
<1>2. c.set \in [Index -> Int] /\ c.meas \in [Index -> Int]
  BY DEF Instances
<1> DEFINE s == [i \in Index |-> IF i <= n THEN c.set[i] ELSE e.set[op][i]]
           m == [i \in Index |-> IF i <= n THEN c.meas[i] ELSE e.meas[op][i]]
<1>3. s \in [Index -> Int] /\ m \in [Index -> Int]
  BY <1>1, <1>2 DEF Tables
<1>4. /\ [e.points EXCEPT ![op] = n] \in [Operations -> Index]
      /\ [e.set EXCEPT ![op] = s] \in Tables
      /\ [e.meas EXCEPT ![op] = m] \in Tables
  <2> HIDE DEF s, m
  <2> QED
    BY <1>1, <1>3 DEF Tables
<1>5. WriteAdcCal(e, op, c, n)
        = [e EXCEPT !.points = [e.points EXCEPT ![op] = n],
                    !.set = [e.set EXCEPT ![op] = s],
                    !.meas = [e.meas EXCEPT ![op] = m]]
  BY DEF WriteAdcCal, Eeproms
<1>6. WriteAdcCal(e, op, c, n) \in Eeproms
  <2> HIDE DEF s, m
  <2> QED
    BY <1>4, <1>5 DEF Eeproms
<1>7. ReadAdcCal(e, op) \in Instances
  BY <1>1 DEF ReadAdcCal, Instances, Tables
<1> QED
  BY <1>6, <1>7

-----------------------------------------------------------------------------
(* The type invariant, action by action. *)

LEMMA InitTypes == ASSUME Init PROVE TypeInv
<1> USE DEF Init, Both
<1>1. board \in Board /\ RelayFollowsRange(board)
  BY SetupBoard
<1>2. cal \in [Operations -> Instances] /\ \A op \in Operations : ~cal[op].inProgress
  BY IndexZero DEF Instances, NoTable
<1>3. point \in Points /\ series \in {VoltSeries, CurrSeries}
  BY SeriesFit, IndexZero DEF Points, StartOfSeries, Series
<1>4. zero \in ZeroStates
  BY OperationNames DEF NoZero, ZeroStates, FilterMax
<1>5. null \in Nulls /\ eeprom \in Eeproms /\ nulled \subseteq Operations \X CurrentRanges
  BY IndexZero DEF Nulls, Eeproms, Tables, NoNulls, NoTable
<1>6. /\ functionType \in DcFunctions /\ rate \in Nat
      /\ filter \in [Operations -> 0 .. FilterMax]
  BY DEF DcFunctions, CalibrationRate, CalibrationFilter, FilterMax
<1>7. mean \in [Operations -> Int]
  BY DEF Unknown
<1> QED
  BY <1>1, <1>2, <1>3, <1>4, <1>5, <1>6, <1>7, OperationNames DEF TypeInv, TypeOK, SeriesInv

LEMMA StartAutoCalTypes ==
  ASSUME TypeInv, NEW op \in Operations, StartAutoCal(op)
  PROVE  TypeInv'
<1> USE DEF TypeInv, TypeOK
<1> DEFINE s == SeriesFor(op)
<1>1. s \in {VoltSeries, CurrSeries} /\ series' = s /\ (op = CURRENT => s = CurrSeries)
      /\ (op # CURRENT => s = series)
  BY DEF StartAutoCal, SeriesFor
<1>2. s \in Series /\ s.points \in Index /\ s.points > 0
  BY <1>1, SeriesFit DEF Index
<1>3. CASE cal[op].inProgress
  <2>1. UNCHANGED <<rate, filter, mean, cal, point>>
    BY <1>3 DEF StartAutoCal
  <2>2. s = series
    BY <1>1, <1>3, OperationNames DEF SeriesInv
  <2> QED
    BY <1>1, <2>1, <2>2 DEF StartAutoCal, SeriesInv, FollowsSeries
<1>4. CASE ~cal[op].inProgress
  <2>1. /\ cal' = [cal EXCEPT ![op] = StartInstance(@, s.points)]
        /\ point' = StartPoint(s)
        /\ rate' = CalibrationRate
        /\ filter' = [filter EXCEPT ![op] = SetFilterSize(@, CalibrationFilter)]
        /\ Mixed
    BY <1>4 DEF StartAutoCal
  <2>2. StartInstance(cal[op], s.points) \in Instances
    BY <1>2 DEF StartInstance, Instances
  <2>3. cal' \in [Operations -> Instances]
    BY <2>1, <2>2
  <2>4. point' \in Points /\ point'.value = s.min + point'.index * s.step /\ point'.index = 0
    <3> HIDE DEF s
    <3>1. s.min \in Int /\ s.step \in Nat
      BY <1>2 DEF Series
    <3>2. point' \in Points /\ point'.value = s.min /\ point'.index = 0
      BY <1>2, <2>1, StartPointType
    <3>3. s.min = s.min + 0 * s.step
      BY <3>1
    <3> QED
      BY <3>2, <3>3
  <2>5. rate' \in Nat /\ filter' \in [Operations -> 0 .. FilterMax]
    <3>1. CalibrationFilter \in 0 .. FilterMax /\ CalibrationRate \in Nat
      BY DEF CalibrationFilter, FilterMax, CalibrationRate
    <3> QED
      BY <2>1, <3>1, FilterSizes
  <2>6. SeriesInv'
    <3>1. (op # CURRENT /\ cal[CURRENT].inProgress) => s = CurrSeries
      BY <1>1 DEF SeriesInv
    <3>2. cal'[CURRENT].inProgress => s = CurrSeries
      BY <1>1, <2>1, <3>1, OperationNames
    <3>3. FollowsSeries' /\ point'.index < series'.points
      <4> HIDE DEF s
      <4> QED
        BY <1>1, <1>2, <2>4 DEF FollowsSeries, Index
    <3> QED
      BY <1>1, <3>2, <3>3 DEF SeriesInv
  <2> QED
    BY <1>1, <2>1, <2>3, <2>4, <2>5, <2>6, MixedType DEF StartAutoCal
<1> QED
  BY <1>3, <1>4

LEMMA SourcePointTypes ==
  ASSUME TypeInv, NEW op \in Operations, SourcePoint(op)
  PROVE  TypeInv'
<1> USE DEF TypeInv, TypeOK
<1>1. point.value \in Int /\ point.index \in Index /\ point.value * 1000 \in Int
  BY DEF Points
<1>2. board' \in Board /\ RelayFollowsRange(board')
  BY <1>1, SourcedBoard, RangeNames DEF SourcePoint
<1> DEFINE c == [cal[op] EXCEPT !.set = [cal[op].set EXCEPT ![point.index] = point.value]]
<1>3. c \in Instances /\ c.inProgress = cal[op].inProgress
  BY <1>1 DEF Instances
<1>4. cal' = [cal EXCEPT ![op] = c]
  BY DEF SourcePoint
<1> HIDE DEF c
<1>5. cal' \in [Operations -> Instances]
      /\ \A o \in Operations : cal'[o].inProgress = cal[o].inProgress
  BY <1>3, <1>4
<1>6. point' \in Points /\ point'.value = point.value /\ point'.index = point.index
  BY DEF SourcePoint, Points
<1>7. SeriesInv'
  BY <1>5, <1>6, OperationNames DEF SourcePoint, SeriesInv, FollowsSeries
<1> QED
  BY <1>2, <1>5, <1>6, <1>7, MixedType DEF SourcePoint

LEMMA RecordPointTypes ==
  ASSUME TypeInv, NEW op \in Operations, RecordPoint(op)
  PROVE  TypeInv'
<1> USE DEF TypeInv, TypeOK
<1> DEFINE recorded == [cal[op] EXCEPT !.meas[point.index] = mean[op]]
           points   == point.index + 1
           next     == NextPoint(point)
<1>1. /\ point.index \in Index /\ point.index \in Nat /\ point.value \in Int
      /\ series \in Series /\ series.points \in Nat /\ series.points + 1 < TableSize
      /\ TableSize \in Nat
  BY SeriesFit DEF Points, Index
<1>2. cal[op].inProgress /\ FollowsSeries
  BY DEF RecordPoint, SeriesInv
<1>3. points \in Index
  BY <1>1, <1>2 DEF FollowsSeries, Index
<1>4. recorded \in Instances /\ recorded.inProgress
  <2> DEFINE m == [cal[op].meas EXCEPT ![point.index] = mean[op]]
  <2>1. m \in [Index -> Int]
    BY <1>1 DEF Instances
  <2>2. recorded = [cal[op] EXCEPT !.meas = m]
    OBVIOUS
  <2> HIDE DEF m
  <2> QED
    BY <1>2, <2>1, <2>2 DEF Instances
<1>5. next \in Points /\ next.value = point.value + series.step /\ next.index = points
  BY <1>1, <1>3, NextPointType
<1> HIDE DEF recorded, next
<1>50. /\ next.value = series.min + points * series.step
       /\ next.value > Last(series) <=> points >= series.points
  BY <1>1, <1>2, <1>5, SeriesEnds DEF FollowsSeries
<1>7. CASE next.value > Last(series)
  <2> DEFINE over == [recorded EXCEPT !.inProgress = FALSE, !.use = TRUE, !.points = points]
  <2>1. /\ cal' = [cal EXCEPT ![op] = over]
        /\ point' = [point EXCEPT !.value = next.value, !.index = points]
        /\ filter' = [filter EXCEPT ![op] = SetFilterSize(@, CalibrationFilter)]
        /\ eeprom' = WriteAdcCal(eeprom, op, recorded, points)
    BY <1>7 DEF RecordPoint, recorded, next
  <2>2. over \in Instances /\ over.inProgress = FALSE
    BY <1>3, <1>4 DEF Instances
  <2> HIDE DEF over
  <2>3. cal' \in [Operations -> Instances] /\ ~cal'[op].inProgress
        /\ \A o \in Operations : cal'[o].inProgress => cal[o].inProgress
    BY <2>1, <2>2
  <2>4. point' \in Points /\ point'.value = next.value /\ point'.index = points
    BY <1>3, <1>5, <2>1 DEF Points
  <2>5. filter' \in [Operations -> 0 .. FilterMax]
    <3>1. CalibrationFilter \in 0 .. FilterMax
      BY DEF CalibrationFilter, FilterMax
    <3> QED
      BY <2>1, <3>1, FilterSizes
  <2>6. eeprom' \in Eeproms
    BY <1>3, <1>4, <2>1, TableInEeprom
  <2>7. SeriesInv'
    <3>1. ASSUME NEW o \in Operations, cal'[o].inProgress PROVE points <= series.points
      <4>1. o # op /\ \A q \in Operations : q = o \/ q = op
        BY <2>3, <3>1 DEF Operations
      <4>2. \A q \in Operations : cal[q].inProgress
        BY <1>2, <2>3, <3>1, <4>1
      <4> QED
        BY <1>1, <4>2 DEF SeriesInv
    <3>2. series' = series
      BY DEF RecordPoint
    <3> QED
      BY <1>2, <1>50, <2>3, <2>4, <3>1, <3>2, OperationNames DEF SeriesInv, FollowsSeries
  <2> QED
    BY <2>3, <2>4, <2>5, <2>6, <2>7 DEF RecordPoint
<1>8. CASE ~(next.value > Last(series))
  <2>1. cal' = [cal EXCEPT ![op] = recorded] /\ point' = next /\ UNCHANGED <<filter, eeprom>>
    BY <1>8 DEF RecordPoint, recorded, next
  <2>2. cal' \in [Operations -> Instances]
        /\ \A o \in Operations : cal'[o].inProgress = cal[o].inProgress
    BY <1>2, <1>4, <2>1 DEF Instances
  <2>3. point' \in Points
    BY <1>5, <2>1
  <2>4. SeriesInv'
    <3>1. series' = series
      BY DEF RecordPoint
    <3> QED
      BY <1>1, <1>3, <1>5, <1>50, <1>8, <2>1, <2>2, <3>1, OperationNames
      DEF SeriesInv, FollowsSeries, Index
  <2> QED
    BY <2>1, <2>2, <2>3, <2>4 DEF RecordPoint
<1> QED
  BY <1>7, <1>8

LEMMA HandleSamplingTypes == ASSUME TypeInv, HandleSampling PROVE TypeInv'
<1> USE DEF TypeInv, TypeOK
<1>1. mean' \in [Operations -> Int]
  BY MeasuredType DEF HandleSampling
<1> QED
  BY <1>1 DEF HandleSampling, SeriesInv, FollowsSeries

LEMMA PowerCycleTypes == ASSUME TypeInv, PowerCycle PROVE TypeInv'
<1> USE DEF TypeInv, TypeOK
<1>1. board' \in Board /\ RelayFollowsRange(board')
  BY SetupBoard DEF PowerCycle
<1>2. \A op \in Operations : ReadAdcCal(eeprom, op) \in Instances
  <2> TAKE op \in Operations
  <2>1. cal[op] \in Instances
    OBVIOUS
  <2> QED
    BY <2>1, IndexZero, TableInEeprom
<1>3. /\ cal' \in [Operations -> Instances]
      /\ \A op \in Operations : cal'[op].inProgress = FALSE
  BY <1>2 DEF PowerCycle, ReadAdcCal
<1>4. point' \in Points /\ series' \in {VoltSeries, CurrSeries}
  BY SeriesFit, IndexZero DEF PowerCycle, Points, StartOfSeries, Series
<1>5. zero' \in ZeroStates
  BY OperationNames DEF PowerCycle, NoZero, ZeroStates, FilterMax, Both
<1>6. null' \in Nulls
  <2>1. \A op \in Operations, r \in CurrentRanges : ReadNull(eeprom, op, r) \in Int
    <3> TAKE op \in Operations, r \in CurrentRanges
    <3> QED
      BY NullInEeprom, 0 \in Int
  <2> QED
    BY <2>1 DEF PowerCycle, Nulls
<1>7. /\ functionType' \in DcFunctions /\ rate' \in Nat
      /\ filter' \in [Operations -> 0 .. FilterMax]
  BY DEF PowerCycle, DcFunctions, CalibrationRate, CalibrationFilter, FilterMax, Both
<1>8. nulled' \subseteq Operations \X CurrentRanges
  BY DEF PowerCycle
<1>9. SeriesInv'
  BY <1>3, OperationNames DEF SeriesInv
<1> QED
  BY <1>1, <1>3, <1>4, <1>5, <1>6, <1>7, <1>8, <1>9, MixedType DEF PowerCycle

(* Without a new series, point or progress the series goes on. *)
LEMMA SeriesKept ==
  ASSUME SeriesInv, UNCHANGED <<series, point>>,
         \A op \in Operations : cal'[op].inProgress = cal[op].inProgress
  PROVE  SeriesInv'
BY OperationNames DEF SeriesInv, FollowsSeries

(* Using the tables, or not, for all instances. *)
LEMMA UseTypes ==
  ASSUME cal \in [Operations -> Instances],
         cal' = [op \in Operations |-> cal'[op]],
         \A op \in Operations : \E u \in BOOLEAN : cal'[op] = [cal[op] EXCEPT !.use = u]
  PROVE  /\ cal' \in [Operations -> Instances]
         /\ \A op \in Operations : cal'[op].inProgress = cal[op].inProgress
<1>1. ASSUME NEW c \in Instances, NEW u \in BOOLEAN
      PROVE  [c EXCEPT !.use = u] \in Instances
             /\ [c EXCEPT !.use = u].inProgress = c.inProgress
  BY DEF Instances
<1>2. ASSUME NEW op \in Operations
      PROVE  cal'[op] \in Instances /\ cal'[op].inProgress = cal[op].inProgress
  <2>1. cal[op] \in Instances
    OBVIOUS
  <2>2. PICK u \in BOOLEAN : cal'[op] = [cal[op] EXCEPT !.use = u]
    OBVIOUS
  <2> QED
    BY <1>1, <2>1, <2>2
<1> QED
  BY <1>2

LEMMA StartNullTypes ==
  ASSUME TypeInv, NEW op \in Operations, StartNullCalibration(op)
  PROVE  TypeInv'
<1> USE DEF TypeInv, TypeOK
<1>1. zero' \in ZeroStates
  BY DEF StartNullCalibration, ZeroStates
<1>2. null' \in Nulls
  BY DEF StartNullCalibration, Nulls
<1>3. eeprom' \in Eeproms
  <2>1. WriteNull(eeprom, op, "MILLIAMP10", 0) \in Eeproms
    BY NullInEeprom, RangeNames, 0 \in Int
  <2>2. WriteNull(WriteNull(eeprom, op, "MILLIAMP10", 0), op, "AMP1", 0) \in Eeproms
    BY <2>1, NullInEeprom, RangeNames, 0 \in Int
  <2> QED
    BY <2>2 DEF StartNullCalibration
<1>4. nulled' \subseteq Operations \X CurrentRanges
  BY DEF StartNullCalibration
<1> QED
  BY <1>1, <1>2, <1>3, <1>4, MixedType, SeriesKept DEF StartNullCalibration

(* Recording an offset. *)
LEMMA RecordNullTypes ==
  ASSUME TypeOK, NEW r \in CurrentRanges, RecordNull(r)
  PROVE  /\ null' \in Nulls /\ eeprom' \in Eeproms
         /\ nulled' \subseteq Operations \X CurrentRanges
         /\ mean' \in [Operations -> Int]
<1>1. zero.op \in Operations /\ mean[zero.op] \in Int
  BY DEF TypeOK, ZeroStates
<1>2. eeprom' \in Eeproms
  BY <1>1, NullInEeprom DEF TypeOK, RecordNull
<1>3. null' \in Nulls
  <2> DEFINE n == [null[zero.op] EXCEPT ![r] = mean[zero.op]]
  <2>1. n \in [CurrentRanges -> Int]
    BY <1>1 DEF TypeOK, Nulls
  <2>2. null' = [null EXCEPT ![zero.op] = n]
    BY DEF RecordNull
  <2> HIDE DEF n
  <2> QED
    BY <1>1, <2>1, <2>2 DEF TypeOK, Nulls
<1> QED
  BY <1>1, <1>2, <1>3, MixedType DEF TypeOK, RecordNull

LEMMA HandleAutoNullTypes == ASSUME TypeInv, HandleAutoNull PROVE TypeInv'
<1> USE DEF TypeInv, TypeOK
<1>1. zero.op \in Operations /\ zero.rate \in Nat /\ zero.filter \in [Operations -> 0 .. FilterMax]
  BY DEF ZeroStates
<1>2. ZeroFilter \in 0 .. FilterMax /\ ZeroRate \in Nat
  BY DEF ZeroFilter, FilterMax, ZeroRate
<1>3. ASSUME NEW n \in 0 .. 3 PROVE [zero EXCEPT !.steps = n] \in ZeroStates
  BY DEF ZeroStates
<1>4. CASE PrepareNull
  <2>1. board' \in Board /\ RelayFollowsRange(board')
    BY <1>1, <1>4, SourcedBoard, RangeNames, 0 \in Int DEF PrepareNull
  <2>2. cal' \in [Operations -> Instances]
        /\ \A op \in Operations : cal'[op].inProgress = cal[op].inProgress
    BY <1>4, UseTypes DEF PrepareNull
  <2>3. filter' \in [Operations -> 0 .. FilterMax]
    BY <1>2, <1>4, FilterSizes DEF PrepareNull
  <2>4. zero' \in ZeroStates
    BY <1>3, <1>4 DEF PrepareNull
  <2> QED
    BY <1>2, <1>4, <2>1, <2>2, <2>3, <2>4, MixedType, SeriesKept DEF PrepareNull
<1>5. CASE RecordNullSmallRange
  <2>1. RecordNull("MILLIAMP10")
    BY <1>5 DEF RecordNullSmallRange
  <2>2. zero' \in ZeroStates
    BY <1>3, <1>5 DEF RecordNullSmallRange
  <2> QED
    BY <1>5, <2>1, <2>2, RecordNullTypes, RangeNames, SeriesKept DEF RecordNullSmallRange
<1>6. CASE SwitchNullRange
  <2>1. board' \in Board /\ RelayFollowsRange(board')
    BY <1>1, <1>6, SourcedBoard, RangeNames, 0 \in Int DEF SwitchNullRange
  <2>2. zero' \in ZeroStates
    BY <1>3, <1>6 DEF SwitchNullRange
  <2> QED
    BY <1>6, <2>1, <2>2, MixedType, SeriesKept DEF SwitchNullRange
<1>7. CASE FinishNull
  <2>1. RecordNull("AMP1")
    BY <1>7 DEF FinishNull
  <2>2. cal' \in [Operations -> Instances]
        /\ \A op \in Operations : cal'[op].inProgress = cal[op].inProgress
    BY <1>7, UseTypes DEF FinishNull
  <2>3. filter' \in [Operations -> 0 .. FilterMax]
    <3>1. \A op \in Operations : SetFilterSize(filter[op], ZeroFilter) \in 0 .. FilterMax
      BY <1>2, FilterSizes
    <3> QED
      BY <1>1, <1>7, <3>1, FilterSizes DEF FinishNull
  <2>4. zero' \in ZeroStates
    BY <1>7, OperationNames DEF FinishNull, NoZero, ZeroStates, FilterMax, Both
  <2>5. rate' \in Nat
    BY <1>1, <1>7 DEF FinishNull, RestoredRate
  <2> QED
    BY <1>7, <2>1, <2>2, <2>3, <2>4, <2>5, RecordNullTypes, RangeNames, SeriesKept DEF FinishNull
<1> QED
  BY <1>4, <1>5, <1>6, <1>7 DEF HandleAutoNull

LEMMA UserTypes == ASSUME TypeInv, User PROVE TypeInv'
<1> USE DEF TypeInv, TypeOK
<1>1. OperationOf(functionType) \in Operations
  BY DEF OperationOf, Operations
<1>2. ASSUME NEW f \in DcFunctions, SelectFunction(f) PROVE TypeInv'
  <2>1. board' \in Board /\ RelayFollowsRange(board')
    BY <1>1, <1>2, OpenVoltageServes, OpenCurrentServes DEF SelectFunction
  <2> QED
    BY <1>2, <2>1, MixedType, SeriesKept DEF SelectFunction
<1>3. CASE SwapCurrentRange
  <2>1. board' \in Board /\ RelayFollowsRange(board')
    BY <1>1, <1>3, RangeTypes, RangeNames DEF SwapCurrentRange
  <2> QED
    BY <1>3, <2>1, MixedType, SeriesKept DEF SwapCurrentRange
<1>4. ASSUME NEW r \in UserRates, SetSamplingRate(r) PROVE TypeInv'
  <2>1. rate' \in Nat
    BY <1>4, UserAssumption DEF SetSamplingRate
  <2> QED
    BY <1>4, <2>1, SeriesKept DEF SetSamplingRate
<1>5. ASSUME NEW size \in UserFilters, SlideFilter(size) PROVE TypeInv'
  <2>1. filter' \in [Operations -> 0 .. FilterMax]
    BY <1>5, UserAssumption, FilterSizes DEF SlideFilter
  <2> QED
    BY <1>5, <2>1, MixedType, SeriesKept DEF SlideFilter
<1>6. CASE ToggleCalibratedValues
  <2>1. \A op \in Operations : (~cal[op].use) \in BOOLEAN
    OBVIOUS
  <2>2. cal' \in [Operations -> Instances]
        /\ \A op \in Operations : cal'[op].inProgress = cal[op].inProgress
    BY <1>6, <2>1, UseTypes DEF ToggleCalibratedValues
  <2> QED
    BY <1>6, <2>2, SeriesKept DEF ToggleCalibratedValues
<1>7. CASE CalibrateNonlinear
  BY <1>1, <1>7, StartAutoCalTypes DEF CalibrateNonlinear
<1>8. CASE CalibrateZero
  BY <1>1, <1>8, StartNullTypes DEF CalibrateZero
<1> QED
  BY <1>2, <1>3, <1>4, <1>5, <1>6, <1>7, <1>8 DEF User

LEMMA TimeTypes == ASSUME TypeInv, Time PROVE TypeInv'
<1> USE DEF TypeInv, TypeOK
<1>1. CASE PointTime
  <2>1. point' \in Points /\ point'.value = point.value /\ point'.index = point.index
    BY <1>1 DEF PointTime, Points
  <2>2. SeriesInv'
    BY <1>1, <2>1, OperationNames DEF PointTime, SeriesInv, FollowsSeries
  <2> QED
    BY <1>1, <2>1, <2>2 DEF PointTime
<1>2. CASE ZeroTime
  <2>1. zero' \in ZeroStates
    BY <1>2 DEF ZeroTime, ZeroStates
  <2> QED
    BY <1>2, <2>1, SeriesKept DEF ZeroTime
<1> QED
  BY <1>1, <1>2 DEF Time

LEMMA LoopTypes == ASSUME TypeInv, Loop PROVE TypeInv'
BY SourcePointTypes, RecordPointTypes, HandleAutoNullTypes DEF Loop, AutoCalADCfromDAC

LEMMA TypeInductive == TypeInv /\ [Next]_vars => TypeInv'
<1> SUFFICES ASSUME TypeInv, [Next]_vars PROVE TypeInv'
  OBVIOUS
<1>1. CASE UNCHANGED vars
  BY <1>1 DEF vars, TypeInv, TypeOK, SeriesInv, FollowsSeries
<1>2. CASE Next
  BY <1>2, LoopTypes, HandleSamplingTypes, TimeTypes, UserTypes, PowerCycleTypes DEF Next
<1> QED
  BY <1>1, <1>2

LEMMA TypeInvariant == Spec => []TypeInv
<1>1. Init => TypeInv
  BY InitTypes
<1> QED
  BY <1>1, TypeInductive, PTL DEF Spec

(* Every variable keeps its type; in particular no table is written or     *)
(* read beyond its end, whoever starts what calibration when.              *)
THEOREM TypeCorrect == Spec => []TypeOK
<1>1. TypeInv => TypeOK
  BY DEF TypeInv
<1> QED
  BY <1>1, TypeInvariant, PTL

-----------------------------------------------------------------------------
(* A user who waits.  No instance is in progress during a zero calibration,*)
(* so the end of one calibration does not turn corrections on for another. *)

RawInv ==
  /\ zero.started => \A op \in Operations : ~cal[op].inProgress
  /\ RawWhileCalibrating

(* The steps that leave progress, use and the zero calibration alone. *)
LEMMA RawKept ==
  ASSUME RawInv, zero'.started = zero.started, zero'.steps = zero.steps,
         \A op \in Operations : /\ cal'[op].inProgress = cal[op].inProgress
                               /\ cal'[op].use = cal[op].use
  PROVE  RawInv'
BY DEF RawInv, RawWhileCalibrating

LEMMA RawLoop ==
  ASSUME TypeInv, RawInv, Loop
  PROVE  RawInv'
<1> USE DEF TypeInv, TypeOK
<1>1. ASSUME NEW op \in Operations, SourcePoint(op) PROVE RawInv'
  <2> DEFINE t == [cal[op].set EXCEPT ![point.index] = point.value]
             c == [cal[op] EXCEPT !.set = t]
  <2>1. c.inProgress = cal[op].inProgress /\ c.use = cal[op].use
    <3> HIDE DEF t
    <3> QED
      BY DEF Instances
  <2>2. cal' = [cal EXCEPT ![op] = c] /\ UNCHANGED zero
    BY <1>1 DEF SourcePoint
  <2> HIDE DEF c
  <2> QED
    BY <2>1, <2>2, RawKept
<1>2. ASSUME NEW op \in Operations, RecordPoint(op) PROVE RawInv'
  <2> DEFINE t == [cal[op].meas EXCEPT ![point.index] = mean[op]]
             c == [cal[op] EXCEPT !.meas = t]
             over == [c EXCEPT !.inProgress = FALSE, !.use = TRUE, !.points = point.index + 1]
  <2>1. /\ cal' = [cal EXCEPT ![op] = c] \/ cal' = [cal EXCEPT ![op] = over]
        /\ UNCHANGED zero /\ cal[op].inProgress
    BY <1>2 DEF RecordPoint
  <2>2. c.inProgress = cal[op].inProgress /\ c.use = cal[op].use /\ ~over.inProgress
    <3> HIDE DEF t
    <3> QED
      BY DEF Instances
  <2>3. ~zero.started
    BY <2>1 DEF RawInv
  <2> HIDE DEF c, over
  <2> QED
    BY <2>1, <2>2, <2>3 DEF RawInv, RawWhileCalibrating
<1>3. CASE PrepareNull
  <2>1. /\ \A op \in Operations : /\ cal'[op].use = FALSE
                                  /\ cal'[op].inProgress = cal[op].inProgress
        /\ zero'.started = zero.started /\ zero.started
    BY <1>3 DEF PrepareNull, Instances, ZeroStates
  <2> QED
    BY <2>1 DEF RawInv, RawWhileCalibrating
<1>4. CASE RecordNullSmallRange \/ SwitchNullRange
  <2>1. /\ cal' = cal /\ zero'.started = zero.started /\ zero.started
        /\ zero.steps > 0
    BY <1>4 DEF RecordNullSmallRange, SwitchNullRange, ZeroStates
  <2> QED
    BY <2>1 DEF RawInv, RawWhileCalibrating
<1>5. CASE FinishNull
  <2>1. /\ \A op \in Operations : cal'[op].inProgress = cal[op].inProgress
        /\ ~zero'.started /\ zero.started
    BY <1>5 DEF FinishNull, NoZero, Instances
  <2> QED
    BY <2>1 DEF RawInv, RawWhileCalibrating
<1> QED
  BY <1>1, <1>2, <1>3, <1>4, <1>5 DEF Loop, AutoCalADCfromDAC, HandleAutoNull

LEMMA RawUser ==
  ASSUME Careful, TypeInv, RawInv, User
  PROVE  RawInv'
<1> USE DEF TypeInv, TypeOK
<1>1. ~zero.started /\ \A op \in Operations : ~cal[op].inProgress
  BY DEF User, SelectFunction, SwapCurrentRange, SetSamplingRate, SlideFilter,
         ToggleCalibratedValues, CalibrateNonlinear, CalibrateZero, MayCalibrate, MayTouch, Idle
<1>2. CASE ToggleCalibratedValues
  <2>1. \A op \in Operations : cal'[op].inProgress = cal[op].inProgress
    BY <1>2 DEF ToggleCalibratedValues, Instances
  <2> QED
    BY <1>1, <1>2, <2>1 DEF ToggleCalibratedValues, RawInv, RawWhileCalibrating
<1>3. CASE CalibrateNonlinear
  <2> DEFINE op == OperationOf(functionType)
  <2>1. op \in Operations
    BY DEF OperationOf, Operations
  <2>2. PICK n : cal' = [cal EXCEPT ![op] = StartInstance(@, n)]
    BY <1>1, <1>3, <2>1 DEF CalibrateNonlinear, StartAutoCal
  <2> HIDE DEF op
  <2>3. /\ StartInstance(cal[op], n).use = FALSE
    BY <2>1 DEF StartInstance, Instances
  <2>4. UNCHANGED zero
    BY <1>3 DEF CalibrateNonlinear, StartAutoCal
  <2> QED
    BY <1>1, <2>1, <2>2, <2>3, <2>4 DEF RawInv, RawWhileCalibrating
<1>4. CASE CalibrateZero
  <2>1. zero'.steps = 0 /\ UNCHANGED cal
    BY <1>4 DEF CalibrateZero, StartNullCalibration
  <2> QED
    BY <1>1, <2>1 DEF RawInv, RawWhileCalibrating
<1>5. CASE \/ \E f \in DcFunctions : SelectFunction(f)
           \/ SwapCurrentRange
           \/ \E r \in UserRates : SetSamplingRate(r)
           \/ \E size \in UserFilters : SlideFilter(size)
  BY <1>5, RawKept DEF SelectFunction, SwapCurrentRange, SetSamplingRate, SlideFilter
<1> QED
  BY <1>2, <1>3, <1>4, <1>5 DEF User

LEMMA RawInvariant == ASSUME Careful PROVE Spec => []RawInv
<1>1. Init => RawInv
  BY OperationNames DEF Init, RawInv, RawWhileCalibrating, NoZero, Both
<1>2. TypeInv /\ RawInv /\ [Next]_vars => RawInv'
  <2> SUFFICES ASSUME TypeInv, RawInv, [Next]_vars PROVE RawInv'
    OBVIOUS
  <2>1. CASE UNCHANGED vars
    BY <2>1, RawKept DEF vars
  <2>2. CASE HandleSampling
    BY <2>2, RawKept DEF HandleSampling
  <2>3. CASE Time
    BY <2>3, RawKept DEF Time, PointTime, ZeroTime, TypeInv, TypeOK, ZeroStates
  <2>4. CASE PowerCycle
    BY <2>4 DEF PowerCycle, ReadAdcCal, NoZero, RawInv, RawWhileCalibrating
  <2> QED
    BY <2>1, <2>2, <2>3, <2>4, RawLoop, RawUser DEF Next
<1> QED
  BY <1>1, <1>2, TypeInvariant, PTL DEF Spec

(* What a calibration records is never corrected by an older calibration,  *)
(* provided the user touches nothing until it is over.                     *)
THEOREM RecordsRaw == ASSUME Careful PROVE Spec => []RawWhileCalibrating
<1>1. RawInv => RawWhileCalibrating
  BY DEF RawInv
<1> QED
  BY <1>1, RawInvariant, PTL

-----------------------------------------------------------------------------
(* Rate and filters.  During a zero calibration the user's are in zero.    *)

OwnRates == UserRates \cup {CalibrationRate}
OwnSizes == {SetFilterSize(1, size) : size \in UserFilters \cup {CalibrationFilter}}

Chosen(r, f) == r \in OwnRates /\ \A op \in Operations : f[op] \in OwnSizes

SamplingInv == IF zero.started THEN Chosen(zero.rate, zero.filter) ELSE Chosen(rate, filter)

LEMMA CalibrationChosen ==
  CalibrationRate \in OwnRates /\ SetFilterSize(1, CalibrationFilter) \in OwnSizes
  /\ CalibrationFilter \in OwnSizes
<1>1. SetFilterSize(1, CalibrationFilter) = CalibrationFilter
  BY DEF SetFilterSize, CalibrationFilter, FilterMax
<1> QED
  BY <1>1 DEF OwnRates, OwnSizes

LEMMA OwnSizeSet ==
  ASSUME NEW old \in 0 .. FilterMax, NEW size \in OwnSizes
  PROVE  SetFilterSize(old, size) = size
<1>1. PICK n \in UserFilters \cup {CalibrationFilter} : size = SetFilterSize(1, n)
  BY DEF OwnSizes
<1>2. n \in 0 .. FilterMax
  BY UserAssumption DEF CalibrationFilter, FilterMax
<1> QED
  BY <1>1, <1>2, FilterSizes

LEMMA SamplingKept ==
  ASSUME SamplingInv, UNCHANGED <<rate, filter>>,
         zero'.started = zero.started, zero'.rate = zero.rate, zero'.filter = zero.filter
  PROVE  SamplingInv'
BY DEF SamplingInv, Chosen

(* One filter is set back to the size of the calibrations. *)
LEMMA SamplingOfAutoCal ==
  ASSUME TypeOK, SamplingInv, NEW op \in Operations, UNCHANGED zero,
         rate' \in {rate, CalibrationRate},
         filter' = [filter EXCEPT ![op] = SetFilterSize(@, CalibrationFilter)]
  PROVE  SamplingInv'
<1>1. filter'[op] \in OwnSizes /\ \A o \in Operations : o # op => filter'[o] = filter[o]
  BY CalibrationChosen, OwnSizeSet DEF TypeOK
<1> QED
  BY <1>1, CalibrationChosen DEF SamplingInv, Chosen

LEMMA SamplingLoop ==
  ASSUME TypeInv, SamplingInv, Loop
  PROVE  SamplingInv'
<1> USE DEF TypeInv, TypeOK
<1>1. ASSUME NEW op \in Operations, SourcePoint(op) PROVE SamplingInv'
  BY <1>1, SamplingKept DEF SourcePoint
<1>2. ASSUME NEW op \in Operations, RecordPoint(op) PROVE SamplingInv'
  <2>1. \/ UNCHANGED filter
        \/ filter' = [filter EXCEPT ![op] = SetFilterSize(@, CalibrationFilter)]
    BY <1>2 DEF RecordPoint
  <2>2. UNCHANGED <<rate, zero>>
    BY <1>2 DEF RecordPoint
  <2> QED
    BY <2>1, <2>2, SamplingKept, SamplingOfAutoCal
<1>3. CASE PrepareNull \/ RecordNullSmallRange \/ SwitchNullRange
  <2>1. /\ zero.started /\ zero'.started = zero.started
        /\ zero'.rate = zero.rate /\ zero'.filter = zero.filter
    BY <1>3 DEF PrepareNull, RecordNullSmallRange, SwitchNullRange, ZeroStates
  <2> QED
    BY <2>1 DEF SamplingInv, Chosen
<1>4. CASE FinishNull
  <2>1. zero.started /\ ~zero'.started /\ rate' = zero.rate
    BY <1>4 DEF FinishNull, NoZero, RestoredRate
  <2>2. \A op \in Operations : filter'[op] = zero.filter[op]
    <3> TAKE op \in Operations
    <3>1. SetFilterSize(filter[op], ZeroFilter) \in 0 .. FilterMax
      <4>1. ZeroFilter \in 0 .. FilterMax
        BY DEF ZeroFilter, FilterMax
      <4>2. filter[op] \in 0 .. FilterMax
        OBVIOUS
      <4> QED
        BY <4>1, <4>2, FilterSizes
    <3>2. zero.filter[op] \in OwnSizes
      BY <2>1 DEF SamplingInv, Chosen
    <3>3. filter'[op] = SetFilterSize(SetFilterSize(filter[op], ZeroFilter), zero.filter[op])
      BY <1>4 DEF FinishNull
    <3> QED
      BY <3>1, <3>2, <3>3, OwnSizeSet
  <2> QED
    BY <2>1, <2>2 DEF SamplingInv, Chosen
<1> QED
  BY <1>1, <1>2, <1>3, <1>4 DEF Loop, AutoCalADCfromDAC, HandleAutoNull

LEMMA SamplingUser ==
  ASSUME Careful, TypeInv, SamplingInv, User
  PROVE  SamplingInv'
<1> USE DEF TypeInv, TypeOK
<1>1. ~zero.started /\ Chosen(rate, filter)
  BY DEF User, SelectFunction, SwapCurrentRange, SetSamplingRate, SlideFilter, SamplingInv,
         ToggleCalibratedValues, CalibrateNonlinear, CalibrateZero, MayCalibrate, MayTouch, Idle
<1>2. ASSUME NEW r \in UserRates, SetSamplingRate(r) PROVE SamplingInv'
  BY <1>1, <1>2 DEF SetSamplingRate, SamplingInv, Chosen, OwnRates
<1>3. ASSUME NEW size \in UserFilters, SlideFilter(size) PROVE SamplingInv'
  <2>1. \A op \in Operations : filter'[op] = SetFilterSize(1, size)
    BY <1>3, UserAssumption, FilterSizes DEF SlideFilter
  <2> QED
    BY <1>1, <1>3, <2>1 DEF SlideFilter, SamplingInv, Chosen, OwnSizes
<1>4. CASE CalibrateNonlinear
  <2>1. PICK op \in Operations : StartAutoCal(op)
    BY <1>4 DEF CalibrateNonlinear, OperationOf, Operations
  <2>2. UNCHANGED zero
    BY <2>1 DEF StartAutoCal
  <2>3. \/ UNCHANGED <<rate, filter>>
        \/ /\ rate' = CalibrationRate
           /\ filter' = [filter EXCEPT ![op] = SetFilterSize(@, CalibrationFilter)]
    BY <2>1 DEF StartAutoCal
  <2> QED
    BY <2>2, <2>3, SamplingKept, SamplingOfAutoCal
<1>5. CASE CalibrateZero
  BY <1>1, <1>5 DEF CalibrateZero, StartNullCalibration, SamplingInv, Chosen
<1>6. CASE (\E f \in DcFunctions : SelectFunction(f)) \/ SwapCurrentRange \/ ToggleCalibratedValues
  BY <1>6, SamplingKept DEF SelectFunction, SwapCurrentRange, ToggleCalibratedValues
<1> QED
  BY <1>2, <1>3, <1>4, <1>5, <1>6 DEF User

(* A zero calibration gives the converter back a rate and filters that were*)
(* chosen for it, provided the user starts none before the last is over.   *)
THEOREM SamplingGivenBack == ASSUME Careful PROVE Spec => []GivesBack
<1>1. Init => SamplingInv
  BY CalibrationChosen DEF Init, SamplingInv, Chosen, NoZero, Both
<1>2. TypeInv /\ SamplingInv /\ [Next]_vars => SamplingInv'
  <2> SUFFICES ASSUME TypeInv, SamplingInv, [Next]_vars PROVE SamplingInv'
    OBVIOUS
  <2>1. CASE UNCHANGED vars
    BY <2>1, SamplingKept DEF vars
  <2>2. CASE HandleSampling
    BY <2>2, SamplingKept DEF HandleSampling
  <2>3. CASE Time
    BY <2>3, SamplingKept DEF Time, PointTime, ZeroTime, TypeInv, TypeOK, ZeroStates
  <2>4. CASE PowerCycle
    BY <2>4, CalibrationChosen DEF PowerCycle, NoZero, SamplingInv, Chosen, Both
  <2> QED
    BY <2>1, <2>2, <2>3, <2>4, SamplingLoop, SamplingUser DEF Next
<1>3. SamplingInv => GivesBack
  BY DEF SamplingInv, GivesBack, Chosen, OwnRates, OwnSizes
<1> QED
  BY <1>1, <1>2, <1>3, TypeInvariant, PTL DEF Spec
-----------------------------------------------------------------------------
(* What is recorded, for a user who waits.                                 *)

(* The board sources m of op, in range r. *)
Sourcing(op, m, r) ==
  /\ board.source.kind = op /\ board.source.micro = m /\ board.feedback = op
  /\ board.range = r
  /\ op = CURRENT => board.source.range = r

(* Whatever calibrates, calibrates what the screen sources. *)
ScreenInv ==
  /\ board.feedback = OperationOf(functionType)
  /\ zero.started => zero.op = OperationOf(functionType)
  /\ \A op \in Operations : cal[op].inProgress => op = OperationOf(functionType)

(* A zero calibration has waited for its filters in the range it records.  *)
ZeroInv ==
  zero.started =>
    /\ zero.steps = 0 => zero.age = 0
    /\ zero.steps > 0 => rate = ZeroRate /\ \A op \in Operations : filter[op] = ZeroFilter
    /\ zero.steps < 2 => null[zero.op]["MILLIAMP10"] = 0
    /\ null[zero.op]["AMP1"] = 0
    /\ zero.steps = 1 =>
         /\ Sourcing(zero.op, 0, "MILLIAMP10")
         /\ zero.age < 2
         /\ zero.age = 1 => mean[zero.op] = Offset[zero.op]["MILLIAMP10"]
    /\ zero.steps = 2 => zero.age < 3
    /\ zero.steps = 3 =>
         /\ Sourcing(zero.op, 0, "AMP1")
         /\ zero.age = 3 => mean[zero.op] = Offset[zero.op]["AMP1"]

NulledInv ==
  \A n \in nulled :
    /\ null[n[1]][n[2]] = Offset[n[1]][n[2]]
    /\ ~SharedCell(n[1], n[2]) => eeprom.null[n[1]][n[2]] = Offset[n[1]][n[2]]

(* An offset is unknown or right, in the range of the series. *)
OffsetInv ==
  \A op \in Operations : /\ null[op]["AMP1"] \in {0, Offset[op]["AMP1"]}
                         /\ eeprom.null[op]["AMP1"] \in {0, Offset[op]["AMP1"]}

(* From the second point on, a series has sourced and waited for what it   *)
(* records.                                                                *)
PointInv ==
  \A op \in Operations : cal[op].inProgress =>
    /\ board.range = "AMP1" /\ rate = CalibrationRate /\ filter[op] = CalibrationFilter
    /\ point.index < series.points
    /\ point.age = 2 => point.sourced
    /\ point.index > 0 /\ point.sourced =>
         /\ cal[op].set[point.index] = point.value
         /\ Sourcing(op, point.value * 1000, "AMP1")
    /\ point.index > 0 /\ point.age = 2 =>
         mean[op] = point.value * 1000 + Offset[op]["AMP1"] - null[op]["AMP1"]
    /\ \A p \in 1 .. point.index - 1 : PointMeasured(op, p)

StoredMeasured(op, p) ==
  eeprom.meas[op][p] - 1000 * eeprom.set[op][p] \in {0, Offset[op]["AMP1"]}

TableInv ==
  /\ LaterPointsMeasured
  /\ \A op \in Operations : \A p \in 1 .. eeprom.points[op] - 1 : StoredMeasured(op, p)

ZeroesInv == ScreenInv /\ ZeroInv /\ NulledInv
RecordInv == ScreenInv /\ ZeroInv /\ OffsetInv /\ PointInv /\ TableInv

(* What the user does while nothing calibrates. *)
LEMMA UserWaits ==
  ASSUME Careful, User
  PROVE  ~zero.started /\ \A op \in Operations : ~cal[op].inProgress
BY DEF User, SelectFunction, SwapCurrentRange, SetSamplingRate, SlideFilter,
       ToggleCalibratedValues, CalibrateNonlinear, CalibrateZero, MayCalibrate, MayTouch, Idle

(* Neither amounts nor ranges change what is fed back. *)
LEMMA CommitSources ==
  ASSUME NEW b \in Board, NEW op \in Operations, NEW m \in Int
  PROVE  /\ SetCommitSource(b, op, SourceAmount(op, m)).feedback = b.feedback
         /\ SetCommitSource(b, op, SourceAmount(op, m)).range = b.range
         /\ SetCommitSource(b, op, SourceAmount(op, m)).source.kind = op
         /\ SetCommitSource(b, op, SourceAmount(op, m)).source.micro = m
         /\ op = CURRENT => SetCommitSource(b, op, SourceAmount(op, m)).source.range = b.range
<1>1. CASE op = VOLTAGE
  BY <1>1 DEF SetCommitSource, SetCommitVoltageSource, SourceAmount, Volt, Board, VOLTAGE, CURRENT
<1>2. CASE op = CURRENT
  BY <1>2 DEF SetCommitSource, SetCommitCurrentSource, SourceAmount, Ampere, Board, VOLTAGE, CURRENT
<1> QED
  BY <1>1, <1>2 DEF Operations

LEMMA RangeSwitched ==
  ASSUME NEW b \in Board, NEW op \in Operations, NEW r \in CurrentRanges
  PROVE  SetCurrentRange(b, r, op).feedback = b.feedback /\ SetCurrentRange(b, r, op).range = r
BY DEF SetCurrentRange, SetCommitCurrentLimit, SetCommitCurrentSource, Board

LEMMA NothingSourced ==
  ASSUME NEW b \in Board, NEW op \in Operations, NEW r \in CurrentRanges
  PROVE  /\ SourceNothing(b, r, op).feedback = b.feedback
         /\ SourceNothing(b, r, op).range = r
         /\ SourceNothing(b, r, op).source.kind = op
         /\ SourceNothing(b, r, op).source.micro = 0
         /\ op = CURRENT => SourceNothing(b, r, op).source.range = r
<1>1. SetCurrentRange(b, r, op) \in Board
  BY RangeTypes
<1>2. /\ SetCurrentRange(b, r, op).feedback = b.feedback
      /\ SetCurrentRange(b, r, op).range = r
  BY RangeSwitched
<1> DEFINE s == SetCurrentRange(b, r, op)
           c == SetCommitSource(s, op, SourceAmount(op, 0))
<1> HIDE DEF s
<1>3. /\ c.feedback = s.feedback /\ c.range = s.range
      /\ c.source.kind = op /\ c.source.micro = 0
      /\ op = CURRENT => c.source.range = s.range
  BY <1>1, CommitSources DEF s
<1>4. SourceNothing(b, r, op) = c
  BY DEF s, SourceNothing
<1> HIDE DEF c
<1> QED
  BY <1>2, <1>3, <1>4 DEF s

(* What the filters show of an output that is sourced. *)
LEMMA SourcedIsMeasured ==
  ASSUME TypeOK, NEW op \in Operations, NEW m \in Int, NEW r \in CurrentRanges,
         Sourcing(op, m, r), op = CURRENT => m \in -Span(board) .. Span(board)
  PROVE  Measured(op) = m + Offset[op][r] - null[op][r]
BY DEF Sourcing, Measured, Controls

(* What the steps of the loop leave alone. *)
LEMMA LoopProgress ==
  ASSUME TypeInv, Loop
  PROVE  /\ \A op \in Operations : cal'[op].inProgress => cal[op].inProgress
         /\ zero'.started => zero.started /\ zero'.op = zero.op
         /\ UNCHANGED functionType /\ board'.feedback = board.feedback
<1> USE DEF TypeInv, TypeOK
<1>1. ASSUME NEW op \in Operations, SourcePoint(op)
      PROVE  /\ \A o \in Operations : cal'[o].inProgress = cal[o].inProgress
             /\ UNCHANGED <<zero, functionType>> /\ board'.feedback = board.feedback
  <2> DEFINE t == [cal[op].set EXCEPT ![point.index] = point.value]
             c == [cal[op] EXCEPT !.set = t]
  <2>1. c.inProgress = cal[op].inProgress
    <3> HIDE DEF t
    <3> QED
      BY DEF Instances
  <2>2. cal' = [cal EXCEPT ![op] = c] /\ UNCHANGED <<zero, functionType>>
    BY <1>1 DEF SourcePoint
  <2>3. board'.feedback = board.feedback
    <3>1. PICK m \in Int : m = point.value * 1000
      BY DEF Points
    <3>2. board' = SetCommitSource(board, op, SourceAmount(op, m))
      BY <1>1, <3>1 DEF SourcePoint
    <3> QED
      BY <3>2, CommitSources
  <2> HIDE DEF c
  <2> QED
    BY <2>1, <2>2, <2>3
<1>2. ASSUME NEW op \in Operations, RecordPoint(op)
      PROVE  /\ \A o \in Operations : cal'[o].inProgress => cal[o].inProgress
             /\ UNCHANGED <<zero, functionType, board>>
  <2>1. \E c : cal' = [cal EXCEPT ![op] = c]
    BY <1>2 DEF RecordPoint
  <2>2. UNCHANGED <<zero, functionType, board>> /\ cal[op].inProgress
    BY <1>2 DEF RecordPoint
  <2> QED
    BY <2>1, <2>2
<1>3. ASSUME NEW r \in CurrentRanges, board' = SourceNothing(board, r, zero.op)
      PROVE  board'.feedback = board.feedback
  BY <1>3, NothingSourced DEF ZeroStates
<1>4. CASE PrepareNull
  BY <1>3, <1>4, RangeNames DEF PrepareNull, Instances, ZeroStates
<1>5. CASE RecordNullSmallRange
  BY <1>5 DEF RecordNullSmallRange, ZeroStates
<1>6. CASE SwitchNullRange
  BY <1>3, <1>6, RangeNames DEF SwitchNullRange, ZeroStates
<1>7. CASE FinishNull
  BY <1>7 DEF FinishNull, Instances, NoZero
<1> QED
  BY <1>1, <1>2, <1>4, <1>5, <1>6, <1>7 DEF Loop, AutoCalADCfromDAC, HandleAutoNull

LEMMA ScreenKept == ASSUME Careful, TypeInv, ScreenInv, [Next]_vars PROVE ScreenInv'
<1> USE DEF TypeInv, TypeOK
<1>1. CASE Loop
  BY <1>1, LoopProgress DEF ScreenInv
<1>2. CASE HandleSampling \/ Time \/ UNCHANGED vars
  BY <1>2 DEF HandleSampling, Time, PointTime, ZeroTime, ZeroStates, vars, ScreenInv
<1>3. CASE PowerCycle
  <2>1. board'.feedback = VOLTAGE
    BY <1>3, SetupBoard DEF PowerCycle, Serves
  <2> QED
    BY <1>3, <2>1 DEF PowerCycle, ReadAdcCal, NoZero, ScreenInv, OperationOf, DCV, DCC
<1>4. CASE User
  <2>1. ~zero.started /\ \A op \in Operations : ~cal[op].inProgress
    BY <1>4, UserWaits
  <2>2. OperationOf(functionType) \in Operations
    BY DEF OperationOf, Operations
  <2>3. ASSUME NEW f \in DcFunctions, SelectFunction(f) PROVE ScreenInv'
    <3>1. board'.feedback = OperationOf(f)
      BY <2>2, <2>3, OpenVoltageServes, OpenCurrentServes
         DEF SelectFunction, Serves, OperationOf, DcFunctions, DCV, DCC
    <3> QED
      BY <2>1, <2>3, <3>1 DEF SelectFunction, ScreenInv
  <2>4. CASE SwapCurrentRange
    <3>1. board'.feedback = board.feedback
      BY <2>2, <2>4, RangeSwitched, RangeNames DEF SwapCurrentRange
    <3> QED
      BY <2>4, <3>1 DEF SwapCurrentRange, ScreenInv
  <2>5. CASE \/ \E r \in UserRates : SetSamplingRate(r)
             \/ \E size \in UserFilters : SlideFilter(size)
    BY <2>5 DEF SetSamplingRate, SlideFilter, ScreenInv
  <2>6. CASE ToggleCalibratedValues
    <3>1. \A op \in Operations : cal'[op].inProgress = cal[op].inProgress
      BY <2>6 DEF ToggleCalibratedValues, Instances
    <3> QED
      BY <2>6, <3>1 DEF ToggleCalibratedValues, ScreenInv
  <2>7. CASE CalibrateNonlinear
    <3>1. \E c : cal' = [cal EXCEPT ![OperationOf(functionType)] = c]
      BY <2>1, <2>2, <2>7 DEF CalibrateNonlinear, StartAutoCal
    <3>2. UNCHANGED <<zero, functionType, board>>
      BY <2>7 DEF CalibrateNonlinear, StartAutoCal
    <3> QED
      BY <2>1, <2>2, <3>1, <3>2 DEF ScreenInv
  <2>8. CASE CalibrateZero
    BY <2>8 DEF CalibrateZero, StartNullCalibration, ScreenInv
  <2> QED
    BY <1>4, <2>3, <2>4, <2>5, <2>6, <2>7, <2>8 DEF User
<1> QED
  BY <1>1, <1>2, <1>3, <1>4 DEF Next

-----------------------------------------------------------------------------
(* Zero calibration. *)

(* No offset of the 1A range is so large that power-up takes it for a fault. *)
ModestOffsets == \A op \in Operations : Offset[op]["AMP1"] \in -NullLimit .. NullLimit

LEMMA NullCell ==
  ASSUME NEW e \in Eeproms, NEW op \in Operations, NEW r \in CurrentRanges, NEW v \in Int
  PROVE  WriteNull(e, op, r, v).null
           = IF SharedCell(op, r) THEN e.null
                                  ELSE [e.null EXCEPT ![op] = [e.null[op] EXCEPT ![r] = v]]
<1> DEFINE n == [e.null EXCEPT ![op] = [e.null[op] EXCEPT ![r] = v]]
<1>1. ~SharedCell(op, r) => WriteNull(e, op, r, v) = [e EXCEPT !.null = n]
  BY DEF WriteNull, Eeproms
<1>2. ~SharedCell(op, r) => WriteNull(e, op, r, v).null = n
  <2> HIDE DEF n
  <2> QED
    BY <1>1 DEF Eeproms
<1>3. SharedCell(op, r) => WriteNull(e, op, r, v).null = e.null
  BY DEF WriteNull, Eeproms
<1> QED
  BY <1>2, <1>3

LEMMA OtherNulls ==
  ASSUME NEW e \in Eeproms, NEW op \in Operations, NEW r \in CurrentRanges, NEW v \in Int,
         NEW o \in Operations, o # op
  PROVE  WriteNull(e, op, r, v).null[o] = e.null[o]
<1>1. e.null \in Nulls
  BY DEF Eeproms
<1> DEFINE w == WriteNull(e, op, r, v).null
<1>2. w = IF SharedCell(op, r) THEN e.null
                               ELSE [e.null EXCEPT ![op] = [e.null[op] EXCEPT ![r] = v]]
  BY NullCell
<1> HIDE DEF w
<1>3. w[o] = e.null[o]
  BY <1>1, <1>2 DEF Nulls
<1> QED
  BY <1>3 DEF w

(* Recording what is right. *)
LEMMA NullRecorded ==
  ASSUME TypeOK, NEW r \in CurrentRanges, RecordNull(r), mean[zero.op] = Offset[zero.op][r]
  PROVE  null' = [null EXCEPT ![zero.op] = [null[zero.op] EXCEPT ![r] = Offset[zero.op][r]]]
BY DEF TypeOK, ZeroStates, RecordNull, Nulls

LEMMA RecordKeepsNulled ==
  ASSUME TypeOK, NulledInv, NEW r \in CurrentRanges, RecordNull(r),
         mean[zero.op] = Offset[zero.op][r]
  PROVE  NulledInv'
<1> DEFINE op == zero.op
           v == mean[op]
<1>1. op \in Operations /\ eeprom \in Eeproms /\ null \in Nulls /\ eeprom.null \in Nulls
  BY DEF TypeOK, ZeroStates, Eeproms
<1>2. null' = [null EXCEPT ![op] = [null[op] EXCEPT ![r] = v]]
  BY <1>1 DEF RecordNull, Nulls
<1>3. eeprom'.null = IF SharedCell(op, r) THEN eeprom.null
                     ELSE [eeprom.null EXCEPT ![op] = [eeprom.null[op] EXCEPT ![r] = v]]
  <2>1. eeprom' = WriteNull(eeprom, op, r, v)
    BY DEF RecordNull
  <2>2. v \in Int
    BY <1>1 DEF TypeOK
  <2> HIDE DEF op, v
  <2> QED
    BY <1>1, <2>1, <2>2, NullCell
<1>4. v = Offset[op][r] /\ nulled' = nulled \cup {<<op, r>>}
  BY DEF RecordNull
<1> HIDE DEF op, v
<1>5. ASSUME NEW n \in nulled'
      PROVE  /\ null'[n[1]][n[2]] = Offset[n[1]][n[2]]
             /\ ~SharedCell(n[1], n[2]) => eeprom'.null[n[1]][n[2]] = Offset[n[1]][n[2]]
  <2>1. CASE n = <<op, r>>
    <3>1. n[1] = op /\ n[2] = r
      BY <2>1
    <3> QED
      BY <3>1, <1>1, <1>2, <1>3, <1>4 DEF Nulls
  <2>2. CASE n # <<op, r>>
    <3>1. n \in nulled /\ nulled \subseteq Operations \X CurrentRanges
      BY <2>2, <1>4 DEF TypeOK
    <3>2. n[1] \in Operations /\ n[2] \in CurrentRanges /\ (n[1] # op \/ n[2] # r)
      BY <2>2, <3>1
    <3>3. /\ null[n[1]][n[2]] = Offset[n[1]][n[2]]
          /\ ~SharedCell(n[1], n[2]) => eeprom.null[n[1]][n[2]] = Offset[n[1]][n[2]]
      BY <3>1 DEF NulledInv
    <3>4. null'[n[1]][n[2]] = null[n[1]][n[2]] /\ eeprom'.null[n[1]][n[2]] = eeprom.null[n[1]][n[2]]
      BY <3>2, <1>1, <1>2, <1>3 DEF Nulls
    <3> QED
      BY <3>3, <3>4
  <2> QED
    BY <2>1, <2>2
<1> QED
  BY <1>5 DEF NulledInv

LEMMA ZeroLoop ==
  ASSUME TypeInv, RawInv, ScreenInv, ZeroInv, Loop
  PROVE  ZeroInv'
<1> USE DEF TypeInv, TypeOK
<1>1. zero.op \in Operations /\ zero.steps \in 0 .. 3 /\ zero.age \in 0 .. 3
      /\ (zero.started => board.feedback = zero.op)
  BY DEF ZeroStates, ScreenInv
<1>2. ASSUME NEW op \in Operations, SourcePoint(op) \/ RecordPoint(op)
      PROVE  ZeroInv'
  BY <1>2 DEF SourcePoint, RecordPoint, RawInv, ZeroInv
<1>3. CASE PrepareNull
  <2>1. /\ zero.started /\ zero.steps = 0 /\ zero.age = 0
        /\ null[zero.op]["MILLIAMP10"] = 0 /\ null[zero.op]["AMP1"] = 0
    BY <1>3 DEF PrepareNull, ZeroInv
  <2>2. /\ zero'.started /\ zero'.steps = 1 /\ zero'.age = 0 /\ zero'.op = zero.op
        /\ UNCHANGED null /\ rate' = ZeroRate
    BY <1>3, <2>1 DEF PrepareNull, ZeroStates
  <2>3. \A op \in Operations : filter'[op] = ZeroFilter
    BY <1>3 DEF PrepareNull, SetFilterSize, ZeroFilter, FilterMax
  <2>4. Sourcing(zero.op, 0, "MILLIAMP10")'
    <3>1. board' = SourceNothing(board, "MILLIAMP10", zero.op)
      BY <1>3 DEF PrepareNull
    <3> QED
      BY <3>1, <1>1, <2>1, <2>2, NothingSourced, RangeNames DEF Sourcing
  <2> QED
    BY <2>1, <2>2, <2>3, <2>4 DEF ZeroInv
<1>4. CASE RecordNullSmallRange
  <2>1. /\ zero.started /\ zero.steps = 1 /\ zero.age >= 1 /\ RecordNull("MILLIAMP10")
        /\ UNCHANGED <<rate, filter>> /\ zero' = [zero EXCEPT !.steps = 2]
    BY <1>4 DEF RecordNullSmallRange
  <2>2. /\ zero.age = 1 /\ mean[zero.op] = Offset[zero.op]["MILLIAMP10"]
        /\ null[zero.op]["AMP1"] = 0
        /\ rate = ZeroRate /\ \A op \in Operations : filter[op] = ZeroFilter
    BY <1>1, <2>1 DEF ZeroInv
  <2>3. null' = [null EXCEPT ![zero.op] =
                  [null[zero.op] EXCEPT !["MILLIAMP10"] = Offset[zero.op]["MILLIAMP10"]]]
    BY <2>1, <2>2, NullRecorded, RangeNames
  <2>4. null'[zero.op]["AMP1"] = 0
    BY <1>1, <2>2, <2>3, RangeNames DEF Nulls
  <2>5. /\ zero'.started /\ zero'.steps = 2 /\ zero'.age = 1 /\ zero'.op = zero.op
    BY <2>1, <2>2 DEF ZeroStates
  <2> QED
    BY <2>1, <2>2, <2>3, <2>4, <2>5 DEF ZeroInv
<1>5. CASE SwitchNullRange
  <2>1. /\ zero.started /\ zero.steps = 2 /\ zero' = [zero EXCEPT !.steps = 3]
        /\ board' = SourceNothing(board, "AMP1", zero.op)
        /\ UNCHANGED <<rate, filter, null>>
    BY <1>5 DEF SwitchNullRange
  <2>2. /\ zero.age < 3 /\ null[zero.op]["AMP1"] = 0
        /\ rate = ZeroRate /\ \A op \in Operations : filter[op] = ZeroFilter
    BY <2>1 DEF ZeroInv
  <2>3. zero'.started /\ zero'.steps = 3 /\ zero'.age = zero.age /\ zero'.op = zero.op
    BY <2>1 DEF ZeroStates
  <2>4. Sourcing(zero.op, 0, "AMP1")'
    BY <1>1, <2>1, <2>3, NothingSourced, RangeNames DEF Sourcing
  <2> QED
    BY <2>1, <2>2, <2>3, <2>4 DEF ZeroInv
<1>6. CASE FinishNull
  BY <1>6 DEF FinishNull, NoZero, ZeroInv
<1> QED
  BY <1>2, <1>3, <1>4, <1>5, <1>6 DEF Loop, AutoCalADCfromDAC, HandleAutoNull

LEMMA NulledLoop ==
  ASSUME TypeInv, ZeroInv, NulledInv, Loop
  PROVE  NulledInv'
<1> USE DEF TypeInv, TypeOK
<1>1. zero.steps \in 0 .. 3 /\ zero.age \in 0 .. 3
  BY DEF ZeroStates
<1>2. ASSUME NEW op \in Operations, SourcePoint(op) \/ RecordPoint(op)
      PROVE  NulledInv'
  <2>1. UNCHANGED <<null, nulled>> /\ eeprom'.null = eeprom.null
    BY <1>2 DEF SourcePoint, RecordPoint, WriteAdcCal, Eeproms
  <2> QED
    BY <2>1 DEF NulledInv
<1>3. CASE PrepareNull \/ SwitchNullRange
  BY <1>3 DEF PrepareNull, SwitchNullRange, NulledInv
<1>4. CASE RecordNullSmallRange
  <2>1. RecordNull("MILLIAMP10") /\ mean[zero.op] = Offset[zero.op]["MILLIAMP10"]
    BY <1>1, <1>4 DEF RecordNullSmallRange, ZeroInv
  <2> QED
    BY <2>1, RecordKeepsNulled, RangeNames
<1>5. CASE FinishNull
  <2>1. RecordNull("AMP1") /\ mean[zero.op] = Offset[zero.op]["AMP1"]
    BY <1>1, <1>5 DEF FinishNull, ZeroInv
  <2> QED
    BY <2>1, RecordKeepsNulled, RangeNames
<1> QED
  BY <1>2, <1>3, <1>4, <1>5 DEF Loop, AutoCalADCfromDAC, HandleAutoNull

(* Samples and time: what the filters show while nothing is sourced. *)
LEMMA NothingIsMeasured ==
  ASSUME TypeOK, ZeroInv, NEW r \in CurrentRanges, Sourcing(zero.op, 0, r), null[zero.op][r] = 0
  PROVE  Measured(zero.op) = Offset[zero.op][r]
<1>1. zero.op \in Operations /\ 0 \in -Span(board) .. Span(board)
  BY DEF TypeOK, ZeroStates, Span
<1>2. Offset[zero.op][r] \in Int
  BY <1>1, OffsetAssumption
<1> QED
  BY <1>1, <1>2, SourcedIsMeasured

LEMMA ZeroSampled == ASSUME TypeInv, ZeroInv, HandleSampling PROVE ZeroInv'
<1> USE DEF TypeInv, TypeOK
<1>1. zero.op \in Operations
  BY DEF ZeroStates
<1>2. mean'[zero.op] = Measured(zero.op)
      /\ UNCHANGED <<zero, null, rate, filter, board>>
  BY <1>1 DEF HandleSampling
<1>3. zero.started /\ zero.steps = 1 => mean'[zero.op] = Offset[zero.op]["MILLIAMP10"]
  BY <1>2, NothingIsMeasured, RangeNames DEF ZeroInv
<1>4. zero.started /\ zero.steps = 3 => mean'[zero.op] = Offset[zero.op]["AMP1"]
  BY <1>2, NothingIsMeasured, RangeNames DEF ZeroInv
<1> QED
  BY <1>2, <1>3, <1>4 DEF ZeroInv, Sourcing

LEMMA ZeroTimed == ASSUME TypeInv, ZeroInv, Time PROVE ZeroInv'
<1> USE DEF TypeInv, TypeOK
<1>1. CASE PointTime
  BY <1>1 DEF PointTime, ZeroInv, Sourcing
<1>2. CASE ZeroTime
  <2>1. /\ zero.started /\ zero.age < 3 /\ zero.steps > zero.age
        /\ zero.age \in {0, 2} => Settled(9)
        /\ UNCHANGED <<board, rate, filter, mean, null>>
    BY <1>2 DEF ZeroTime
  <2>2. /\ zero'.started /\ zero'.op = zero.op /\ zero'.steps = zero.steps
        /\ zero'.age = zero.age + 1
        /\ zero.op \in Operations /\ zero.steps \in 0 .. 3 /\ zero.age \in 0 .. 3
    BY <1>2, <2>1 DEF ZeroTime, ZeroStates
  <2>3. /\ rate = ZeroRate /\ \A op \in Operations : filter[op] = ZeroFilter
        /\ null[zero.op]["AMP1"] = 0
        /\ zero.steps < 2 => null[zero.op]["MILLIAMP10"] = 0
        /\ zero.steps = 1 => Sourcing(zero.op, 0, "MILLIAMP10")
        /\ zero.steps = 3 => Sourcing(zero.op, 0, "AMP1")
    BY <2>1, <2>2 DEF ZeroInv
  <2>4. zero.age \in {0, 2} => mean[zero.op] = Measured(zero.op)
    BY <2>1, <2>2, <2>3 DEF Settled, ZeroRate, ZeroFilter
  <2>5. zero'.steps = 1 => zero'.age = 1 /\ mean[zero.op] = Offset[zero.op]["MILLIAMP10"]
    BY <2>1, <2>2, <2>3, <2>4, NothingIsMeasured, RangeNames
  <2>6. zero'.steps = 3 /\ zero'.age = 3 => mean[zero.op] = Offset[zero.op]["AMP1"]
    BY <2>1, <2>2, <2>3, <2>4, NothingIsMeasured, RangeNames
  <2>7. zero'.steps = 2 => zero'.age < 3
    BY <2>1, <2>2
  <2> QED
    BY <2>1, <2>2, <2>3, <2>5, <2>6, <2>7 DEF ZeroInv, Sourcing
<1> QED
  BY <1>1, <1>2 DEF Time

LEMMA ZeroUser == ASSUME Careful, TypeInv, ZeroInv, User PROVE ZeroInv'
<1> USE DEF TypeInv, TypeOK
<1>1. ~zero.started
  BY UserWaits
<1>2. CASE CalibrateZero
  <2> DEFINE op == OperationOf(functionType)
  <2>1. op \in Operations
    BY DEF OperationOf, Operations
  <2>2. /\ zero'.started /\ zero'.steps = 0 /\ zero'.age = 0 /\ zero'.op = op
        /\ null' = [null EXCEPT ![op] = [r \in CurrentRanges |-> 0]]
    BY <1>2 DEF CalibrateZero, StartNullCalibration
  <2> QED
    BY <2>1, <2>2, RangeNames DEF ZeroInv, Nulls
<1>3. CASE ~CalibrateZero
  <2>1. UNCHANGED zero
    BY <1>3 DEF User, SelectFunction, SwapCurrentRange, SetSamplingRate, SlideFilter,
                ToggleCalibratedValues, CalibrateNonlinear, StartAutoCal
  <2> QED
    BY <1>1, <2>1 DEF ZeroInv
<1> QED
  BY <1>2, <1>3

LEMMA NulledUser == ASSUME TypeInv, NulledInv, User PROVE NulledInv'
<1> USE DEF TypeInv, TypeOK
<1>1. CASE CalibrateZero
  <2> DEFINE op == OperationOf(functionType)
             e1 == WriteNull(eeprom, op, "MILLIAMP10", 0)
  <2>1. op \in Operations /\ eeprom \in Eeproms /\ eeprom.null \in Nulls
    BY DEF OperationOf, Operations, Eeproms
  <2>2. /\ null' = [null EXCEPT ![op] = [r \in CurrentRanges |-> 0]]
        /\ nulled' = {n \in nulled : n[1] # op}
        /\ eeprom' = WriteNull(e1, op, "AMP1", 0)
    BY <1>1 DEF CalibrateZero, StartNullCalibration
  <2>3. ASSUME NEW o \in Operations, NEW r \in CurrentRanges, o # op
        PROVE  null'[o][r] = null[o][r] /\ eeprom'.null[o][r] = eeprom.null[o][r]
    <3>1. e1 \in Eeproms /\ e1.null \in Nulls
      BY <2>1, RangeNames, NullInEeprom DEF Eeproms
    <3>2. e1.null[o] = eeprom.null[o]
      <4> HIDE DEF op
      <4> QED
        BY <2>1, <2>3, OtherNulls, RangeNames, 0 \in Int
    <3> HIDE DEF e1, op
    <3>3. eeprom'.null[o] = e1.null[o]
      BY <2>1, <2>2, <2>3, <3>1, OtherNulls, RangeNames, 0 \in Int
    <3> QED
      BY <2>1, <2>2, <2>3, <3>2, <3>3 DEF Nulls
  <2> HIDE DEF op, e1
  <2> SUFFICES ASSUME NEW n \in nulled'
               PROVE  /\ null'[n[1]][n[2]] = Offset[n[1]][n[2]]
                      /\ ~SharedCell(n[1], n[2]) => eeprom'.null[n[1]][n[2]] = Offset[n[1]][n[2]]
    BY DEF NulledInv
  <2>4. n \in nulled /\ n[1] # op /\ n[1] \in Operations /\ n[2] \in CurrentRanges
    BY <2>2
  <2> QED
    BY <2>3, <2>4 DEF NulledInv
<1>2. CASE ~CalibrateZero
  <2>1. UNCHANGED <<null, eeprom, nulled>>
    BY <1>2 DEF User, SelectFunction, SwapCurrentRange, SetSamplingRate, SlideFilter,
                ToggleCalibratedValues, CalibrateNonlinear, StartAutoCal
  <2> QED
    BY <2>1 DEF NulledInv
<1> QED
  BY <1>1, <1>2

(* Power-up drops no offset but those that are too large, and of those not *)
(* the second one of currents.                                             *)
LEMMA NulledPowered ==
  ASSUME ModestOffsets, TypeInv, NulledInv, PowerCycle
  PROVE  NulledInv'
<1>1. ASSUME NEW n \in nulled'
      PROVE  /\ null'[n[1]][n[2]] = Offset[n[1]][n[2]]
             /\ eeprom'.null[n[1]][n[2]] = Offset[n[1]][n[2]]
  <2>1. n \in nulled /\ ~SharedCell(n[1], n[2]) /\ UNCHANGED eeprom
        /\ n[1] \in Operations /\ n[2] \in CurrentRanges
    BY <1>1 DEF PowerCycle, TypeInv, TypeOK
  <2>2. eeprom.null[n[1]][n[2]] = Offset[n[1]][n[2]]
    BY <2>1 DEF NulledInv
  <2>3. \/ Offset[n[1]][n[2]] \in -NullLimit .. NullLimit
        \/ n[1] = CURRENT /\ n[2] = "MILLIAMP10"
    BY <2>1 DEF ModestOffsets, SharedCell, Operations, CurrentRanges
  <2>4. null'[n[1]][n[2]] = ReadNull(eeprom, n[1], n[2])
    BY <2>1 DEF PowerCycle
  <2>5. ReadNull(eeprom, n[1], n[2]) = eeprom.null[n[1]][n[2]]
    BY <2>1, <2>2, <2>3 DEF ReadNull
  <2> QED
    BY <2>1, <2>2, <2>4, <2>5
<1> QED
  BY <1>1 DEF NulledInv

LEMMA ZeroStep ==
  ASSUME Careful, TypeInv, RawInv, ScreenInv, ZeroInv, [Next]_vars
  PROVE  ZeroInv'
<1>1. CASE UNCHANGED vars
  BY <1>1 DEF vars, ZeroInv, Sourcing
<1>2. CASE PowerCycle
  BY <1>2 DEF PowerCycle, NoZero, ZeroInv
<1> QED
  BY <1>1, <1>2, ZeroLoop, ZeroUser, ZeroSampled, ZeroTimed DEF Next

LEMMA NulledStep ==
  ASSUME ModestOffsets, TypeInv, ZeroInv, NulledInv, [Next]_vars
  PROVE  NulledInv'
<1>1. CASE HandleSampling \/ Time \/ UNCHANGED vars
  BY <1>1 DEF HandleSampling, Time, PointTime, ZeroTime, vars, NulledInv
<1> QED
  BY <1>1, NulledLoop, NulledUser, NulledPowered DEF Next

-----------------------------------------------------------------------------
(* Automatic calibration. *)

(* Every current of the series is within the 1A range. *)
CurrentsFit == CurrSeries.min >= -1000 /\ Last(CurrSeries) <= 1000

LEMMA ValueFits ==
  ASSUME CurrentsFit, TypeInv, cal[CURRENT].inProgress, point.index < series.points
  PROVE  point.value \in Int /\ point.value >= -1000 /\ point.value <= 1000
<1>1. series = CurrSeries /\ FollowsSeries /\ CurrSeries \in Series
  BY OperationNames, SeriesFit DEF TypeInv, SeriesInv
<1>2. ASSUME NEW m \in Int, NEW d \in Nat, NEW n \in Nat, NEW i \in Nat, i < n,
             m >= -1000, m + (n - 1) * d <= 1000
      PROVE  m + i * d >= -1000 /\ m + i * d <= 1000
  <2>1. PICK k \in Nat : n - 1 = i + k
    BY <1>2, n - 1 - i \in Nat
  <2>2. (n - 1) * d = i * d + k * d /\ k * d \in Nat /\ i * d \in Nat
    BY <2>1
  <2> QED
    BY <1>2, <2>2
<1>3. /\ CurrSeries.min \in Int /\ CurrSeries.step \in Nat /\ CurrSeries.points \in Nat
      /\ point.index \in Nat /\ point.value \in Int
  BY <1>1 DEF Series, TypeInv, TypeOK, Points, Index
<1>4. point.value >= -1000 /\ point.value <= 1000
  BY SMT, <1>1, <1>2, <1>3 DEF CurrentsFit, Last, FollowsSeries
<1> QED
  BY <1>3, <1>4

(* Offsets in the range of the series.  The EEPROM has cells of their own  *)
(* for them.                                                               *)
LEMMA BigRangeUnshared == \A op \in Operations : ~SharedCell(op, "AMP1")
BY DEF SharedCell

LEMMA BigRangeCell ==
  ASSUME NEW e \in Eeproms, NEW op \in Operations, NEW r \in CurrentRanges, NEW v \in Int,
         NEW o \in Operations
  PROVE  WriteNull(e, op, r, v).null[o]["AMP1"]
           = IF o = op /\ r = "AMP1" THEN v ELSE e.null[o]["AMP1"]
<1>1. e.null \in Nulls
  BY DEF Eeproms
<1> DEFINE w == WriteNull(e, op, r, v).null
<1>2. w = IF SharedCell(op, r) THEN e.null
                               ELSE [e.null EXCEPT ![op] = [e.null[op] EXCEPT ![r] = v]]
  BY NullCell
<1> HIDE DEF w
<1>3. w[o]["AMP1"] = IF o = op /\ r = "AMP1" THEN v ELSE e.null[o]["AMP1"]
  BY <1>1, <1>2, RangeNames DEF Nulls, SharedCell
<1> QED
  BY <1>3 DEF w

LEMMA SmallRangeCell ==
  ASSUME NEW e \in Eeproms, NEW op \in Operations, NEW v \in Int, NEW o \in Operations
  PROVE  WriteNull(e, op, "MILLIAMP10", v).null[o]["AMP1"] = e.null[o]["AMP1"]
<1> DEFINE x == WriteNull(e, op, "MILLIAMP10", v).null[o]["AMP1"]
<1>1. x = IF o = op /\ "MILLIAMP10" = "AMP1" THEN v ELSE e.null[o]["AMP1"]
  BY RangeNames, BigRangeCell
<1> HIDE DEF x
<1>2. x = e.null[o]["AMP1"]
  BY <1>1
<1> QED
  BY <1>2 DEF x

LEMMA OffsetsKept ==
  ASSUME OffsetInv,
         \A op \in Operations :
           /\ null'[op]["AMP1"] \in {0, Offset[op]["AMP1"], null[op]["AMP1"], eeprom.null[op]["AMP1"]}
           /\ eeprom'.null[op]["AMP1"] \in {0, Offset[op]["AMP1"], eeprom.null[op]["AMP1"]}
  PROVE  OffsetInv'
BY DEF OffsetInv

LEMMA OffsetsRecorded ==
  ASSUME TypeOK, OffsetInv, NEW r \in CurrentRanges, RecordNull(r),
         mean[zero.op] = Offset[zero.op][r]
  PROVE  OffsetInv'
<1> DEFINE op == zero.op
           v == mean[op]
<1>1. op \in Operations /\ eeprom \in Eeproms /\ null \in Nulls /\ v \in Int
  BY DEF TypeOK, ZeroStates
<1>2. null' = [null EXCEPT ![op] = [null[op] EXCEPT ![r] = v]] /\ v = Offset[op][r]
      /\ eeprom' = WriteNull(eeprom, op, r, v)
  BY <1>1 DEF RecordNull, Nulls
<1> HIDE DEF op, v
<1>3. ASSUME NEW o \in Operations
      PROVE  /\ null'[o]["AMP1"] \in {Offset[o]["AMP1"], null[o]["AMP1"]}
             /\ eeprom'.null[o]["AMP1"] \in {Offset[o]["AMP1"], eeprom.null[o]["AMP1"]}
  <2>1. eeprom'.null[o]["AMP1"] = IF o = op /\ r = "AMP1" THEN v ELSE eeprom.null[o]["AMP1"]
    BY <1>1, <1>2, BigRangeCell
  <2>2. null'[o]["AMP1"] = IF o = op /\ r = "AMP1" THEN v ELSE null[o]["AMP1"]
    BY <1>1, <1>2, RangeNames DEF Nulls
  <2> QED
    BY <1>2, <2>1, <2>2
<1> QED
  BY <1>3, OffsetsKept

LEMMA OffsetsStep ==
  ASSUME TypeInv, RawInv, ZeroInv, OffsetInv, [Next]_vars
  PROVE  OffsetInv'
<1> USE DEF TypeInv, TypeOK
<1>1. CASE RecordNullSmallRange
  <2>1. mean[zero.op] = Offset[zero.op]["MILLIAMP10"] /\ RecordNull("MILLIAMP10")
    BY <1>1 DEF RecordNullSmallRange, ZeroInv, ZeroStates
  <2> QED
    BY <2>1, OffsetsRecorded, RangeNames
<1>2. CASE FinishNull
  <2>1. mean[zero.op] = Offset[zero.op]["AMP1"] /\ RecordNull("AMP1")
    BY <1>2 DEF FinishNull, ZeroInv, ZeroStates
  <2> QED
    BY <2>1, OffsetsRecorded, RangeNames
<1>3. CASE CalibrateZero
  <2> DEFINE op == OperationOf(functionType)
             e1 == WriteNull(eeprom, op, "MILLIAMP10", 0)
  <2>1. op \in Operations /\ 0 \in Int
    BY DEF OperationOf, Operations
  <2>2. /\ null' = [null EXCEPT ![op] = [r \in CurrentRanges |-> 0]]
        /\ eeprom' = WriteNull(e1, op, "AMP1", 0)
    BY <1>3 DEF CalibrateZero, StartNullCalibration
  <2> HIDE DEF op
  <2>3. e1 \in Eeproms
    BY <2>1, RangeNames, NullInEeprom
  <2>4. ASSUME NEW o \in Operations
        PROVE  /\ null'[o]["AMP1"] \in {0, null[o]["AMP1"]}
               /\ eeprom'.null[o]["AMP1"] \in {0, eeprom.null[o]["AMP1"]}
    <3>1. e1.null[o]["AMP1"] = eeprom.null[o]["AMP1"]
      BY <2>1, SmallRangeCell
    <3> HIDE DEF e1
    <3>2. eeprom'.null[o]["AMP1"] \in {0, e1.null[o]["AMP1"]}
      BY <2>1, <2>2, <2>3, RangeNames, BigRangeCell
    <3>3. null'[o]["AMP1"] \in {0, null[o]["AMP1"]}
      BY <2>1, <2>2, RangeNames DEF Nulls
    <3> QED
      BY <3>1, <3>2, <3>3
  <2> QED
    BY <2>4, OffsetsKept
<1>4. CASE PowerCycle
  <2>1. ASSUME NEW op \in Operations
        PROVE  null'[op]["AMP1"] \in {0, eeprom.null[op]["AMP1"]}
    <3>1. null'[op]["AMP1"] = ReadNull(eeprom, op, "AMP1")
      BY <1>4, RangeNames DEF PowerCycle
    <3> QED
      BY <3>1, BigRangeUnshared DEF ReadNull
  <2> QED
    BY <1>4, <2>1, OffsetsKept DEF PowerCycle
<1>5. ASSUME NEW op \in Operations, RecordPoint(op)
      PROVE  OffsetInv'
  <2>1. UNCHANGED null /\ eeprom'.null = eeprom.null
    BY <1>5 DEF RecordPoint, WriteAdcCal, Eeproms
  <2> QED
    BY <2>1 DEF OffsetInv
<1>6. CASE UNCHANGED <<null, eeprom>>
  BY <1>6 DEF OffsetInv
<1> QED
  BY <1>1, <1>2, <1>3, <1>4, <1>5, <1>6
     DEF Next, Loop, AutoCalADCfromDAC, SourcePoint, HandleAutoNull, PrepareNull, SwitchNullRange,
         HandleSampling, Time, PointTime, ZeroTime, User, SelectFunction, SwapCurrentRange,
         SetSamplingRate, SlideFilter, ToggleCalibratedValues, CalibrateNonlinear, StartAutoCal, vars

(* What the two parts of a point do to the tables. *)
LEMMA TableSourced ==
  ASSUME TypeInv, NEW op \in Operations, SourcePoint(op)
  PROVE  /\ cal[op].inProgress /\ cal'[op].inProgress /\ cal'[op].meas = cal[op].meas
         /\ \A o \in Operations : o # op => cal'[o] = cal[o]
         /\ cal'[op].set[point.index] = point.value
         /\ \A p \in Index : p # point.index => cal'[op].set[p] = cal[op].set[p]
<1> USE DEF TypeInv, TypeOK
<1>1. point.index \in Index /\ cal[op].inProgress
  BY DEF Points, SourcePoint
<1> DEFINE t == [cal[op].set EXCEPT ![point.index] = point.value]
           c == [cal[op] EXCEPT !.set = t]
<1>2. t[point.index] = point.value /\ \A p \in Index : p # point.index => t[p] = cal[op].set[p]
  BY <1>1 DEF Instances
<1>3. c.inProgress = cal[op].inProgress /\ c.meas = cal[op].meas /\ c.set = t
  <2> HIDE DEF t
  <2> QED
    BY DEF Instances
<1>4. cal' = [cal EXCEPT ![op] = c]
  BY DEF SourcePoint
<1> HIDE DEF c, t
<1>5. cal'[op] = c /\ \A o \in Operations : o # op => cal'[o] = cal[o]
  BY <1>4
<1> QED
  BY <1>1, <1>2, <1>3, <1>5

LEMMA NextPointWaits ==
  ASSUME point \in Points, series \in Series, point.index + 1 \in Index
  PROVE  NextPoint(point).age = 0 /\ ~NextPoint(point).sourced
<1> DEFINE a == [point EXCEPT !.value = @ + series.step, !.index = @ + 1]
           b == [a EXCEPT !.age = 0]
           n == [b EXCEPT !.sourced = FALSE]
<1>1. point.value + series.step \in Int
  BY DEF Series, Points
<1>2. a \in Points
  BY <1>1 DEF Points
<1> HIDE DEF a
<1>3. b \in Points /\ b.age = 0
  BY <1>2 DEF Points
<1> HIDE DEF b
<1>4. n.age = 0 /\ n.sourced = FALSE
  BY <1>3 DEF Points
<1> QED
  BY <1>4 DEF a, b, NextPoint

LEMMA TableRecorded ==
  ASSUME TypeInv, NEW op \in Operations, RecordPoint(op)
  PROVE  /\ cal[op].inProgress /\ cal'[op].set = cal[op].set /\ point.age = 2
         /\ \A o \in Operations : o # op => cal'[o] = cal[o]
         /\ cal'[op].meas[point.index] = mean[op]
         /\ \A p \in Index : p # point.index => cal'[op].meas[p] = cal[op].meas[p]
         /\ UNCHANGED <<board, rate, mean, series, null>>
         /\ point.index \in Nat /\ point.index + 1 \in Index
         /\ point.index + 1 >= series.points =>
              /\ ~cal'[op].inProgress
              /\ cal'[op].points = point.index + 1
              /\ eeprom'.points[op] = point.index + 1
              /\ \A o \in Operations : o # op =>
                   /\ eeprom'.points[o] = eeprom.points[o]
                   /\ eeprom'.set[o] = eeprom.set[o] /\ eeprom'.meas[o] = eeprom.meas[o]
              /\ \A p \in Index : p <= point.index + 1 =>
                   /\ eeprom'.set[op][p] = cal'[op].set[p]
                   /\ eeprom'.meas[op][p] = cal'[op].meas[p]
         /\ point.index + 1 < series.points =>
              /\ point'.index = point.index + 1 /\ point'.age = 0 /\ ~point'.sourced
              /\ cal'[op].inProgress
              /\ UNCHANGED <<filter, eeprom>>
<1> USE DEF TypeInv, TypeOK
<1> DEFINE i == point.index
           t == [cal[op].meas EXCEPT ![i] = mean[op]]
           c == [cal[op] EXCEPT !.meas = t]
           over == [c EXCEPT !.inProgress = FALSE, !.use = TRUE, !.points = i + 1]
           next == NextPoint(point)
<1>1. /\ i \in Index /\ i \in Nat /\ point.value \in Int
      /\ series \in Series /\ series.points \in Nat /\ series.points + 1 < TableSize
      /\ TableSize \in Nat
  BY SeriesFit DEF Points, Index
<1>2. cal[op].inProgress /\ FollowsSeries /\ point.age = 2
      /\ UNCHANGED <<board, rate, mean, series, null>>
  BY DEF RecordPoint, SeriesInv
<1>3. i + 1 \in Index
  BY <1>1, <1>2 DEF FollowsSeries, Index
<1>4. t[i] = mean[op] /\ \A p \in Index : p # i => t[p] = cal[op].meas[p]
  BY <1>1 DEF Instances
<1>5. c \in Instances /\ c.inProgress = cal[op].inProgress /\ c.meas = t /\ c.set = cal[op].set
  <2>1. t \in [Index -> Int]
    BY <1>1 DEF Instances
  <2> HIDE DEF t
  <2> QED
    BY <2>1 DEF Instances
<1>6. next.value = point.value + series.step
      /\ next.index = i + 1 /\ next.age = 0 /\ ~next.sourced
  BY <1>1, <1>3, NextPointType, NextPointWaits
<1>7. next.value > Last(series) <=> i + 1 >= series.points
  BY <1>1, <1>2, <1>6, SeriesEnds DEF FollowsSeries
<1>8. CASE i + 1 >= series.points
  <2>1. cal' = [cal EXCEPT ![op] = over] /\ eeprom' = WriteAdcCal(eeprom, op, c, i + 1)
    BY <1>7, <1>8 DEF RecordPoint
  <2> HIDE DEF t
  <2>2. over.set = c.set /\ over.meas = c.meas /\ over.points = i + 1 /\ ~over.inProgress
    <3> HIDE DEF c
    <3> QED
      BY <1>3, <1>5 DEF Instances
  <2> HIDE DEF over, c
  <2>3. cal'[op] = over /\ \A o \in Operations : o # op => cal'[o] = cal[o]
    BY <2>1
  <2>4. /\ eeprom'.points[op] = i + 1
        /\ \A o \in Operations : o # op =>
             /\ eeprom'.points[o] = eeprom.points[o]
             /\ eeprom'.set[o] = eeprom.set[o] /\ eeprom'.meas[o] = eeprom.meas[o]
        /\ \A p \in Index : p <= i + 1 =>
             eeprom'.set[op][p] = c.set[p] /\ eeprom'.meas[op][p] = c.meas[p]
    <3> DEFINE s == [p \in Index |-> IF p <= i + 1 THEN c.set[p] ELSE eeprom.set[op][p]]
               m == [p \in Index |-> IF p <= i + 1 THEN c.meas[p] ELSE eeprom.meas[op][p]]
    <3>1. eeprom' = [eeprom EXCEPT !.points = [eeprom.points EXCEPT ![op] = i + 1],
                                   !.set = [eeprom.set EXCEPT ![op] = s],
                                   !.meas = [eeprom.meas EXCEPT ![op] = m]]
      BY <2>1 DEF WriteAdcCal, Eeproms
    <3>2. \A p \in Index : p <= i + 1 => s[p] = c.set[p] /\ m[p] = c.meas[p]
      OBVIOUS
    <3> HIDE DEF s, m
    <3>3. /\ eeprom'.points = [eeprom.points EXCEPT ![op] = i + 1]
          /\ eeprom'.set = [eeprom.set EXCEPT ![op] = s]
          /\ eeprom'.meas = [eeprom.meas EXCEPT ![op] = m]
      BY <3>1 DEF Eeproms
    <3> QED
      BY <3>2, <3>3 DEF Eeproms, Tables
  <2> QED
    BY <1>1, <1>2, <1>3, <1>4, <1>5, <1>8, <2>2, <2>3, <2>4
<1>9. CASE i + 1 < series.points
  <2>1. cal' = [cal EXCEPT ![op] = c] /\ point' = next /\ UNCHANGED <<filter, eeprom>>
    BY <1>1, <1>7, <1>9 DEF RecordPoint
  <2> HIDE DEF c, t, next
  <2>2. cal'[op] = c /\ \A o \in Operations : o # op => cal'[o] = cal[o]
    BY <2>1
  <2>3. point'.index = i + 1 /\ point'.age = 0 /\ ~point'.sourced
    BY <1>6, <2>1
  <2>4. /\ cal'[op].inProgress /\ cal'[op].set = cal[op].set
        /\ cal'[op].meas[i] = mean[op]
        /\ \A p \in Index : p # i => cal'[op].meas[p] = cal[op].meas[p]
    BY <1>2, <1>4, <1>5, <2>2
  <2> QED
    BY <1>1, <1>2, <1>3, <1>9, <2>1, <2>2, <2>3, <2>4
<1> QED
  BY <1>1, <1>8, <1>9

(* At most one instance is in progress: the screen's. *)
LEMMA OneInstance ==
  ASSUME ScreenInv, NEW op \in Operations, NEW o \in Operations,
         cal[op].inProgress, cal[o].inProgress
  PROVE  o = op
BY DEF ScreenInv

(* A later point is what the filters show of it, once they are full. *)
LEMMA PointIsMeasured ==
  ASSUME CurrentsFit, TypeInv, PointInv, NEW op \in Operations, cal[op].inProgress,
         point.index > 0, point.sourced
  PROVE  Measured(op) = point.value * 1000 + Offset[op]["AMP1"] - null[op]["AMP1"]
<1>1. /\ Sourcing(op, point.value * 1000, "AMP1") /\ board.range = "AMP1"
      /\ point.index < series.points
  BY DEF PointInv
<1>2. point.value \in Int /\ (op = CURRENT => point.value >= -1000 /\ point.value <= 1000)
  BY <1>1, ValueFits DEF TypeInv, TypeOK, Points
<1>3. PICK m \in Int : m = point.value * 1000
  BY <1>2
<1>4. op = CURRENT => m \in -Span(board) .. Span(board)
  <2>1. Span(board) = 1000000
    BY SMT, <1>1 DEF Span
  <2>2. PICK k \in Int : k = Span(board)
    BY SMT, <2>1
  <2>3. op = CURRENT => m >= -k /\ m <= k
    BY SMT, <1>2, <1>3, <2>1, <2>2
  <2>4. op = CURRENT => m \in -k .. k
    BY <2>3
  <2> QED
    BY <2>2, <2>4
<1>5. Sourcing(op, m, "AMP1")
  BY <1>1, <1>3
<1> QED
  BY <1>3, <1>4, <1>5, SourcedIsMeasured, RangeNames DEF TypeInv

LEMMA PointSampled ==
  ASSUME CurrentsFit, TypeInv, PointInv, HandleSampling
  PROVE  PointInv'
<1>1. /\ \A op \in Operations : mean'[op] = Measured(op)
      /\ UNCHANGED <<board, rate, filter, cal, series, point, null>>
  BY DEF HandleSampling
<1>2. ASSUME NEW op \in Operations, cal[op].inProgress, point.index > 0, point.age = 2
      PROVE  mean'[op] = point.value * 1000 + Offset[op]["AMP1"] - null[op]["AMP1"]
  <2>1. point.sourced
    BY <1>2 DEF PointInv
  <2> QED
    BY <1>1, <1>2, <2>1, PointIsMeasured
<1> QED
  BY <1>1, <1>2 DEF PointInv, Sourcing, PointMeasured

LEMMA PointTimed ==
  ASSUME CurrentsFit, TypeInv, PointInv, Time
  PROVE  PointInv'
<1> USE DEF TypeInv, TypeOK
<1>1. CASE PointTime
  <2>1. /\ point.age < 2 /\ (point.age = 1 => point.sourced /\ Settled(4))
        /\ UNCHANGED <<board, rate, filter, mean, cal, series, null>>
    BY <1>1 DEF PointTime
  <2>2. /\ point'.index = point.index /\ point'.value = point.value
        /\ point'.sourced = point.sourced /\ point'.age = point.age + 1 /\ point.age \in 0 .. 2
    BY <1>1 DEF PointTime, Points
  <2>3. ASSUME NEW op \in Operations, cal[op].inProgress, point.index > 0, point.age = 1
        PROVE  mean[op] = point.value * 1000 + Offset[op]["AMP1"] - null[op]["AMP1"]
    <3>1. rate = CalibrationRate /\ filter[op] = CalibrationFilter
      BY <2>3 DEF PointInv
    <3>2. mean[op] = Measured(op)
      BY <2>1, <2>3, <3>1 DEF Settled, CalibrationRate, CalibrationFilter
    <3> QED
      BY <2>1, <2>3, <3>2, PointIsMeasured
  <2>4. point'.age = 2 => point.age = 1
    BY <2>2
  <2>5. ASSUME NEW op \in Operations, cal[op].inProgress
        PROVE  /\ board.range = "AMP1" /\ rate = CalibrationRate /\ filter[op] = CalibrationFilter
               /\ point.index < series.points
               /\ point.index > 0 /\ point.sourced =>
                    /\ cal[op].set[point.index] = point.value
                    /\ Sourcing(op, point.value * 1000, "AMP1")
               /\ \A p \in 1 .. point.index - 1 : PointMeasured(op, p)
    BY <2>5 DEF PointInv
  <2> QED
    BY <2>1, <2>2, <2>3, <2>4, <2>5 DEF PointInv, Sourcing, PointMeasured
<1>2. CASE ZeroTime
  BY <1>2 DEF ZeroTime, PointInv, Sourcing, PointMeasured
<1> QED
  BY <1>1, <1>2 DEF Time

LEMMA PointSourced ==
  ASSUME TypeInv, ScreenInv, PointInv, NEW op \in Operations, SourcePoint(op)
  PROVE  PointInv'
<1> USE DEF TypeInv, TypeOK
<1>1. /\ ~point.sourced /\ point' = [point EXCEPT !.sourced = TRUE]
      /\ UNCHANGED <<rate, filter, series, null>>
  BY DEF SourcePoint
<1>2. /\ point'.index = point.index /\ point'.value = point.value /\ point'.age = point.age
      /\ point'.sourced /\ point.index \in Index /\ point.index \in Nat /\ point.value \in Int
  BY <1>1 DEF Points, Index
<1>3. /\ cal[op].inProgress /\ cal'[op].meas = cal[op].meas
      /\ \A o \in Operations : o # op => cal'[o] = cal[o]
      /\ cal'[op].set[point.index] = point.value
      /\ \A p \in Index : p # point.index => cal'[op].set[p] = cal[op].set[p]
  BY TableSourced
<1>4. /\ board.range = "AMP1" /\ rate = CalibrationRate /\ filter[op] = CalibrationFilter
      /\ point.index < series.points /\ point.age # 2
      /\ \A p \in 1 .. point.index - 1 : PointMeasured(op, p)
  BY <1>1, <1>3 DEF PointInv
<1>5. PICK m \in Int : m = point.value * 1000
  BY <1>2
<1>6. board' = SetCommitSource(board, op, SourceAmount(op, m))
  BY <1>5 DEF SourcePoint
<1>7. board'.feedback = board.feedback /\ board'.range = board.range
      /\ board'.source.kind = op /\ board'.source.micro = m
      /\ (op = CURRENT => board'.source.range = board.range)
  BY <1>6, CommitSources
<1>8. board.feedback = op
  BY <1>3 DEF ScreenInv
<1>9. Sourcing(op, point.value * 1000, "AMP1")'
  BY <1>2, <1>4, <1>5, <1>7, <1>8 DEF Sourcing
<1>10. \A p \in 1 .. point.index - 1 : PointMeasured(op, p)'
  <2> TAKE p \in 1 .. point.index - 1
  <2>1. p \in Index /\ p # point.index
    BY <1>2, SeriesFit DEF Index
  <2> QED
    BY <1>3, <1>4, <2>1 DEF PointMeasured
<1>11. \A o \in Operations : cal'[o].inProgress => o = op
  BY <1>3, OneInstance
<1> QED
  BY <1>1, <1>2, <1>3, <1>4, <1>7, <1>9, <1>10, <1>11 DEF PointInv

(* What a later point records is right. *)
LEMMA RecordedMeasured ==
  ASSUME TypeInv, OffsetInv, PointInv, NEW op \in Operations, RecordPoint(op)
  PROVE  \A p \in 1 .. point.index : PointMeasured(op, p)'
<1> USE DEF TypeInv, TypeOK
<1>1. /\ cal[op].inProgress /\ cal'[op].set = cal[op].set /\ point.age = 2
      /\ cal'[op].meas[point.index] = mean[op]
      /\ \A p \in Index : p # point.index => cal'[op].meas[p] = cal[op].meas[p]
      /\ point.index \in Nat
  BY TableRecorded
<1>2. /\ point.sourced
      /\ \A p \in 1 .. point.index - 1 : PointMeasured(op, p)
      /\ point.index > 0 =>
           /\ cal[op].set[point.index] = point.value
           /\ mean[op] = point.value * 1000 + Offset[op]["AMP1"] - null[op]["AMP1"]
  BY <1>1 DEF PointInv
<1>3. point.value \in Int /\ Offset[op]["AMP1"] \in Int /\ point.index \in Index
      /\ null[op]["AMP1"] \in {0, Offset[op]["AMP1"]}
  BY OffsetAssumption, RangeNames DEF Points, OffsetInv
<1> TAKE p \in 1 .. point.index
<1>4. CASE p = point.index
  <2>1. cal'[op].meas[p] = point.value * 1000 + Offset[op]["AMP1"] - null[op]["AMP1"]
        /\ cal'[op].set[p] = point.value
    BY <1>1, <1>2, <1>4
  <2>2. PICK v \in Int, o \in Int, n \in Int :
          v = point.value /\ o = Offset[op]["AMP1"] /\ n = null[op]["AMP1"]
    BY <1>3
  <2>3. (v * 1000 + o - n) - 1000 * v = o - n /\ (n \in {0, o} => o - n \in {0, o})
    OBVIOUS
  <2>4. cal'[op].meas[p] - 1000 * cal'[op].set[p] \in {0, o}
    BY <1>3, <2>1, <2>2, <2>3
  <2> QED
    BY <2>2, <2>4 DEF PointMeasured
<1>5. CASE p # point.index
  <2>1. p \in 1 .. point.index - 1 /\ p \in Index
    BY <1>1, <1>3, <1>5, SeriesFit DEF Index
  <2> QED
    BY <1>1, <1>2, <1>5, <2>1 DEF PointMeasured
<1> QED
  BY <1>4, <1>5

LEMMA PointRecorded ==
  ASSUME TypeInv, ScreenInv, OffsetInv, PointInv, NEW op \in Operations, RecordPoint(op)
  PROVE  PointInv'
<1> USE DEF TypeInv, TypeOK
<1>1. /\ cal[op].inProgress /\ \A o \in Operations : o # op => cal'[o] = cal[o]
      /\ UNCHANGED <<board, rate, mean, series, null>>
      /\ point.index \in Nat
  BY TableRecorded
<1>2. \A o \in Operations : cal'[o].inProgress => o = op
  BY <1>1, OneInstance
<1>3. CASE point.index + 1 >= series.points
  BY <1>2, <1>3, TableRecorded DEF PointInv
<1>4. CASE point.index + 1 < series.points
  <2>1. /\ point'.index = point.index + 1 /\ point'.age = 0 /\ ~point'.sourced
        /\ cal'[op].inProgress /\ UNCHANGED filter
    BY <1>4, TableRecorded
  <2>2. board.range = "AMP1" /\ rate = CalibrationRate /\ filter[op] = CalibrationFilter
    BY <1>1 DEF PointInv
  <2>3. \A p \in 1 .. point'.index - 1 : PointMeasured(op, p)'
    BY <1>1, <2>1, RecordedMeasured
  <2> QED
    BY <1>1, <1>2, <1>4, <2>1, <2>2, <2>3 DEF PointInv
<1> QED
  BY <1>1, <1>3, <1>4, SeriesFit

LEMMA PointStarted ==
  ASSUME Careful, TypeInv, CalibrateNonlinear
  PROVE  PointInv'
<1> USE DEF TypeInv, TypeOK
<1> DEFINE op == OperationOf(functionType)
           s == SeriesFor(op)
<1>1. op \in Operations /\ board.range = "AMP1" /\ StartAutoCal(op)
      /\ \A o \in Operations : ~cal[o].inProgress
  BY DEF CalibrateNonlinear, MayCalibrate, MayTouch, Idle, OperationOf, Operations
<1>2. s \in Series /\ s.points \in Nat /\ s.points > 0
  BY SeriesFit DEF SeriesFor
<1> HIDE DEF op
<1>3. /\ cal' = [cal EXCEPT ![op] = StartInstance(@, s.points)]
      /\ point' = StartPoint(s) /\ rate' = CalibrationRate /\ series' = s
      /\ filter' = [filter EXCEPT ![op] = SetFilterSize(@, CalibrationFilter)]
      /\ UNCHANGED board
  BY <1>1 DEF StartAutoCal
<1> HIDE DEF s
<1>4. \A o \in Operations : cal'[o].inProgress => o = op
  BY <1>1, <1>3
<1>5. point'.index = 0 /\ point'.age = 0
  <2> DEFINE a == [point EXCEPT !.value = s.min, !.index = 0]
             b == [a EXCEPT !.age = 0]
  <2>1. a \in Points /\ a.index = 0
    BY <1>2, IndexZero DEF Points, Series
  <2> HIDE DEF a
  <2>2. b.index = 0 /\ b.age = 0
    BY <2>1 DEF Points
  <2>3. point' = b
    BY <1>3 DEF a, StartPoint
  <2> HIDE DEF b
  <2> QED
    BY <2>2, <2>3
<1>6. filter'[op] = CalibrationFilter
  BY <1>1, <1>3 DEF SetFilterSize, CalibrationFilter, FilterMax
<1> QED
  BY <1>1, <1>2, <1>3, <1>4, <1>5, <1>6 DEF PointInv

(* No instance is in progress after these steps. *)
LEMMA NoInstance ==
  ASSUME Careful, TypeInv, RawInv,
         HandleAutoNull \/ PowerCycle \/ (User /\ ~CalibrateNonlinear)
  PROVE  \A op \in Operations : ~cal'[op].inProgress
<1> USE DEF TypeInv, TypeOK
<1>1. CASE HandleAutoNull
  <2>1. zero.started
    BY <1>1 DEF HandleAutoNull, PrepareNull, RecordNullSmallRange, SwitchNullRange, FinishNull
  <2>2. Loop
    BY <1>1 DEF Loop
  <2> QED
    BY <2>1, <2>2, LoopProgress DEF RawInv
<1>2. CASE PowerCycle
  BY <1>2 DEF PowerCycle, ReadAdcCal
<1>3. CASE User /\ ~CalibrateNonlinear
  <2>1. \A op \in Operations : ~cal[op].inProgress
    BY <1>3, UserWaits
  <2>2. CASE ToggleCalibratedValues
    <3>1. \A op \in Operations : cal'[op].inProgress = cal[op].inProgress
      BY <2>2 DEF ToggleCalibratedValues, Instances
    <3> QED
      BY <2>1, <3>1
  <2>3. CASE UNCHANGED cal
    BY <2>1, <2>3
  <2> QED
    BY <1>3, <2>2, <2>3 DEF User, SelectFunction, SwapCurrentRange, SetSamplingRate, SlideFilter,
                            CalibrateZero, StartNullCalibration
<1> QED
  BY <1>1, <1>2, <1>3

LEMMA PointStep ==
  ASSUME Careful, CurrentsFit, TypeInv, RawInv, ScreenInv, OffsetInv, PointInv, [Next]_vars
  PROVE  PointInv'
<1>1. CASE UNCHANGED vars
  BY <1>1 DEF vars, PointInv, Sourcing, PointMeasured
<1>2. CASE HandleAutoNull \/ PowerCycle \/ (User /\ ~CalibrateNonlinear)
  BY <1>2, NoInstance DEF PointInv
<1> QED
  BY <1>1, <1>2, PointSampled, PointTimed, PointSourced, PointRecorded, PointStarted
     DEF Next, Loop, AutoCalADCfromDAC

(* Offsets are written next to the tables, or to a voltage's first entry.  *)
LEMMA NullsBesideTables ==
  ASSUME NEW e \in Eeproms, NEW op \in Operations, NEW r \in CurrentRanges, NEW v \in Int
  PROVE  /\ WriteNull(e, op, r, v).points = e.points /\ WriteNull(e, op, r, v).set = e.set
         /\ \A o \in Operations, p \in Index :
              p # 0 => WriteNull(e, op, r, v).meas[o][p] = e.meas[o][p]
<1> DEFINE m == [e.meas EXCEPT ![VOLTAGE] = [e.meas[VOLTAGE] EXCEPT ![0] = v]]
           n == [e.null EXCEPT ![op] = [e.null[op] EXCEPT ![r] = v]]
           w == WriteNull(e, op, r, v)
<1>1. e.meas \in Tables
  BY DEF Eeproms
<1>2. \A o \in Operations, p \in Index : p # 0 => m[o][p] = e.meas[o][p]
  BY <1>1, OperationNames DEF Tables
<1>3. w = IF SharedCell(op, r) THEN [e EXCEPT !.meas = m] ELSE [e EXCEPT !.null = n]
  BY DEF WriteNull, Eeproms
<1> HIDE DEF m, n, w
<1>4. w.points = e.points /\ w.set = e.set /\ (w.meas = m \/ w.meas = e.meas)
  BY <1>3 DEF Eeproms
<1>5. \A o \in Operations, p \in Index : p # 0 => w.meas[o][p] = e.meas[o][p]
  BY <1>2, <1>4
<1> QED
  BY <1>4, <1>5 DEF w

(* Steps that finish no table, and read none back. *)
LEMMA TablesKept ==
  ASSUME TypeOK, TableInv,
         \A op \in Operations :
           \/ cal'[op].inProgress
           \/ /\ ~cal[op].inProgress /\ cal'[op].points = cal[op].points
              /\ cal'[op].set = cal[op].set /\ cal'[op].meas = cal[op].meas,
         eeprom'.points = eeprom.points, eeprom'.set = eeprom.set,
         \A op \in Operations, p \in Index : p # 0 => eeprom'.meas[op][p] = eeprom.meas[op][p]
  PROVE  TableInv'
<1>1. ASSUME NEW op \in Operations, ~cal'[op].inProgress, NEW p \in 1 .. cal'[op].points - 1
      PROVE  PointMeasured(op, p)'
  BY <1>1 DEF TableInv, LaterPointsMeasured, PointMeasured
<1>2. ASSUME NEW op \in Operations, NEW p \in 1 .. eeprom'.points[op] - 1
      PROVE  StoredMeasured(op, p)'
  <2>1. eeprom.points[op] \in Index
    BY DEF TypeOK, Eeproms
  <2>2. p \in Index /\ p # 0 /\ p \in 1 .. eeprom.points[op] - 1
    BY <1>2, <2>1, SeriesFit DEF Index
  <2>3. StoredMeasured(op, p)
    BY <2>2 DEF TableInv
  <2> QED
    BY <2>2, <2>3 DEF StoredMeasured
<1> QED
  BY <1>1, <1>2 DEF TableInv, LaterPointsMeasured

LEMMA TableFinished ==
  ASSUME TypeInv, ScreenInv, OffsetInv, PointInv, TableInv, NEW op \in Operations, RecordPoint(op)
  PROVE  TableInv'
<1> USE DEF TypeInv, TypeOK
<1>1. \A o \in Operations : o # op => ~cal[o].inProgress /\ cal'[o] = cal[o]
  BY TableRecorded, OneInstance
<1>2. CASE point.index + 1 < series.points
  <2>1. cal'[op].inProgress /\ UNCHANGED eeprom
    BY <1>2, TableRecorded
  <2> QED
    BY <1>1, <2>1, TablesKept
<1>3. CASE point.index + 1 >= series.points
  <2>1. /\ cal'[op].points = point.index + 1
        /\ eeprom'.points[op] = point.index + 1
        /\ \A o \in Operations : o # op =>
             /\ eeprom'.points[o] = eeprom.points[o]
             /\ eeprom'.set[o] = eeprom.set[o] /\ eeprom'.meas[o] = eeprom.meas[o]
        /\ \A p \in Index : p <= point.index + 1 =>
             /\ eeprom'.set[op][p] = cal'[op].set[p]
             /\ eeprom'.meas[op][p] = cal'[op].meas[p]
        /\ point.index \in Nat /\ point.index + 1 \in Index
    BY <1>3, TableRecorded
  <2>2. ASSUME NEW p \in 1 .. point.index PROVE PointMeasured(op, p)' /\ StoredMeasured(op, p)'
    <3>1. PointMeasured(op, p)'
      BY RecordedMeasured
    <3>2. p \in Index /\ p <= point.index + 1
      BY <2>1, SeriesFit DEF Index
    <3> QED
      BY <2>1, <3>1, <3>2 DEF PointMeasured, StoredMeasured
  <2>3. ASSUME NEW o \in Operations, o # op
        PROVE  /\ \A p \in 1 .. cal'[o].points - 1 : PointMeasured(o, p)'
               /\ \A p \in 1 .. eeprom'.points[o] - 1 : StoredMeasured(o, p)'
    BY <1>1, <2>1, <2>3 DEF TableInv, LaterPointsMeasured, PointMeasured, StoredMeasured
  <2>4. point.index + 1 - 1 = point.index
    BY <2>1
  <2> QED
    BY <2>1, <2>2, <2>3, <2>4 DEF TableInv, LaterPointsMeasured
<1> QED
  BY <1>2, <1>3, TableRecorded, SeriesFit

LEMMA TableStep ==
  ASSUME Careful, TypeInv, RawInv, ScreenInv, OffsetInv, PointInv, TableInv, [Next]_vars
  PROVE  TableInv'
<1> USE DEF TypeInv, TypeOK
<1>1. ASSUME NEW op \in Operations, SourcePoint(op) PROVE TableInv'
  <2>1. /\ cal'[op].inProgress /\ UNCHANGED eeprom
        /\ \A o \in Operations : o # op => ~cal[o].inProgress /\ cal'[o] = cal[o]
    BY <1>1, TableSourced, OneInstance DEF SourcePoint
  <2> QED
    BY <2>1, TablesKept
<1>2. ASSUME NEW op \in Operations, RecordPoint(op) PROVE TableInv'
  BY <1>2, TableFinished
<1>3. CASE HandleAutoNull
  <2>1. \A op \in Operations : ~cal[op].inProgress
    BY <1>3 DEF RawInv, HandleAutoNull, PrepareNull, RecordNullSmallRange, SwitchNullRange, FinishNull
  <2>2. \A op \in Operations :
          cal'[op].points = cal[op].points /\ cal'[op].set = cal[op].set /\ cal'[op].meas = cal[op].meas
    BY <1>3 DEF HandleAutoNull, PrepareNull, RecordNullSmallRange, SwitchNullRange, FinishNull,
                Instances
  <2>3. \/ UNCHANGED eeprom
        \/ \E r \in CurrentRanges : eeprom' = WriteNull(eeprom, zero.op, r, mean[zero.op])
    BY <1>3, RangeNames DEF HandleAutoNull, PrepareNull, RecordNullSmallRange, SwitchNullRange,
                            FinishNull, RecordNull
  <2>4. zero.op \in Operations /\ mean[zero.op] \in Int
    BY DEF ZeroStates
  <2>5. eeprom'.points = eeprom.points /\ eeprom'.set = eeprom.set
        /\ \A op \in Operations, p \in Index : p # 0 => eeprom'.meas[op][p] = eeprom.meas[op][p]
    BY <2>3, <2>4, NullsBesideTables
  <2> QED
    BY <2>1, <2>2, <2>5, TablesKept
<1>4. CASE User
  <2>1. \A op \in Operations : ~cal[op].inProgress
    BY <1>4, UserWaits
  <2>2. CASE CalibrateNonlinear
    <3> DEFINE op == OperationOf(functionType)
    <3>1. op \in Operations /\ UNCHANGED eeprom
      BY <2>2 DEF OperationOf, Operations, CalibrateNonlinear, StartAutoCal
    <3>2. PICK n : cal' = [cal EXCEPT ![op] = StartInstance(@, n)]
      BY <2>1, <2>2, <3>1 DEF CalibrateNonlinear, StartAutoCal
    <3> HIDE DEF op
    <3>3. StartInstance(cal[op], n).inProgress
      BY <3>1 DEF StartInstance, Instances
    <3> QED
      BY <2>1, <3>1, <3>2, <3>3, TablesKept
  <2>3. CASE CalibrateZero
    <3> DEFINE op == OperationOf(functionType)
               e1 == WriteNull(eeprom, op, "MILLIAMP10", 0)
    <3>1. op \in Operations /\ UNCHANGED cal /\ eeprom' = WriteNull(e1, op, "AMP1", 0) /\ 0 \in Int
      BY <2>3 DEF OperationOf, Operations, CalibrateZero, StartNullCalibration
    <3> HIDE DEF op
    <3>2. e1 \in Eeproms /\ e1.points = eeprom.points /\ e1.set = eeprom.set
          /\ \A o \in Operations, p \in Index : p # 0 => e1.meas[o][p] = eeprom.meas[o][p]
      BY <3>1, RangeNames, NullInEeprom, NullsBesideTables
    <3> HIDE DEF e1
    <3>3. eeprom'.points = e1.points /\ eeprom'.set = e1.set
          /\ \A o \in Operations, p \in Index : p # 0 => eeprom'.meas[o][p] = e1.meas[o][p]
      BY <3>1, <3>2, RangeNames, NullsBesideTables
    <3> QED
      BY <2>1, <3>1, <3>2, <3>3, TablesKept
  <2>4. CASE ToggleCalibratedValues
    <3>1. \A op \in Operations :
            cal'[op].points = cal[op].points /\ cal'[op].set = cal[op].set /\ cal'[op].meas = cal[op].meas
      BY <2>4 DEF ToggleCalibratedValues, Instances
    <3>2. UNCHANGED eeprom
      BY <2>4 DEF ToggleCalibratedValues
    <3> QED
      BY <2>1, <3>1, <3>2, TablesKept
  <2>5. CASE UNCHANGED <<cal, eeprom>>
    BY <2>1, <2>5, TablesKept
  <2> QED
    BY <1>4, <2>2, <2>3, <2>4, <2>5
       DEF User, SelectFunction, SwapCurrentRange, SetSamplingRate, SlideFilter
<1>5. CASE PowerCycle
  <2>1. UNCHANGED eeprom /\ \A op \in Operations : cal'[op] = ReadAdcCal(eeprom, op)
    BY <1>5 DEF PowerCycle
  <2>2. ASSUME NEW op \in Operations, NEW p \in 1 .. cal'[op].points - 1
        PROVE  PointMeasured(op, p)'
    <3> DEFINE n == eeprom.points[op]
               s == [i \in Index |-> IF i < n THEN eeprom.set[op][i] ELSE 0]
               m == [i \in Index |-> IF i < n THEN eeprom.meas[op][i] ELSE 0]
    <3>1. cal'[op] = [inProgress |-> FALSE, use |-> TRUE, points |-> n, set |-> s, meas |-> m]
      BY <2>1 DEF ReadAdcCal
    <3>2. n \in Index /\ \A i \in Index : i < n => s[i] = eeprom.set[op][i]
                                               /\ m[i] = eeprom.meas[op][i]
      BY DEF Eeproms
    <3> HIDE DEF s, m
    <3>3. cal'[op].points = eeprom.points[op] /\ eeprom.points[op] \in Index
      BY <3>1, <3>2
    <3>4. p \in Index /\ p < eeprom.points[op] /\ p \in 1 .. eeprom.points[op] - 1
      BY <2>2, <3>3, SeriesFit DEF Index
    <3>5. cal'[op].set[p] = eeprom.set[op][p] /\ cal'[op].meas[p] = eeprom.meas[op][p]
      BY <3>1, <3>2, <3>4
    <3>6. StoredMeasured(op, p)
      BY <3>4 DEF TableInv
    <3> QED
      BY <3>5, <3>6 DEF PointMeasured, StoredMeasured
  <2> QED
    BY <2>1, <2>2 DEF TableInv, LaterPointsMeasured, StoredMeasured
<1>6. CASE UNCHANGED <<cal, eeprom>>
  BY <1>6 DEF TableInv, LaterPointsMeasured, PointMeasured, StoredMeasured
<1> QED
  BY <1>1, <1>2, <1>3, <1>4, <1>5, <1>6
     DEF Next, Loop, AutoCalADCfromDAC, HandleSampling, Time, PointTime, ZeroTime, vars

-----------------------------------------------------------------------------
(* What is recorded survives. *)

LEMMA RecordInit == ASSUME Init PROVE ZeroesInv /\ RecordInv
<1> USE DEF Init, Both
<1>1. /\ board.feedback = VOLTAGE /\ ~zero.started /\ nulled = {}
      /\ \A op \in Operations : ~cal[op].inProgress /\ cal[op].points = 0
      /\ \A op \in Operations : eeprom.points[op] = 0
      /\ functionType = DCV
  BY SetupBoard DEF Serves, NoZero
<1>2. OffsetInv
  BY RangeNames DEF OffsetInv, NoNulls
<1>3. ScreenInv /\ ZeroInv /\ NulledInv /\ PointInv
  BY <1>1 DEF ScreenInv, ZeroInv, NulledInv, PointInv, OperationOf, DCV, DCC
<1>4. 1 .. 0 - 1 = {}
  OBVIOUS
<1>5. TableInv
  BY <1>1, <1>4 DEF TableInv, LaterPointsMeasured
<1> QED
  BY <1>2, <1>3, <1>5 DEF ZeroesInv, RecordInv

LEMMA RecordStep ==
  ASSUME Careful, CurrentsFit, TypeInv, RawInv, RecordInv, [Next]_vars
  PROVE  RecordInv'
<1> USE DEF RecordInv
<1>1. ScreenInv'
  BY ScreenKept
<1>2. ZeroInv'
  BY ZeroStep
<1>3. OffsetInv'
  BY OffsetsStep
<1>4. PointInv'
  BY PointStep
<1>5. TableInv'
  BY TableStep
<1> QED
  BY <1>1, <1>2, <1>3, <1>4, <1>5

(* The zero calibration needs nothing of the tables. *)
LEMMA ZeroesInvariant ==
  ASSUME Careful, ModestOffsets
  PROVE  Spec => []ZeroesInv
<1>1. Init => ZeroesInv
  BY RecordInit
<1>2. TypeInv /\ RawInv /\ ZeroesInv /\ [Next]_vars => ZeroesInv'
  BY ScreenKept, ZeroStep, NulledStep DEF ZeroesInv
<1> QED
  BY <1>1, <1>2, TypeInvariant, RawInvariant, PTL DEF Spec

(* And the tables need no modest offsets: what power-up drops is unknown.  *)
LEMMA RecordInvariant ==
  ASSUME Careful, CurrentsFit
  PROVE  Spec => []RecordInv
<1>1. Init => RecordInv
  BY RecordInit
<1>2. TypeInv /\ RawInv /\ RecordInv /\ [Next]_vars => RecordInv'
  BY RecordStep
<1> QED
  BY <1>1, <1>2, TypeInvariant, RawInvariant, PTL DEF Spec

(* Provided the user waits, an offset a zero calibration recorded stays    *)
(* the converter's, for its quantity and range, until it is nulled again;  *)
(* also through later calibrations of either kind and power cycles, but    *)
(* for the one whose cell in the EEPROM a table uses.                      *)
THEOREM NullsKept ==
  ASSUME Careful, ModestOffsets
  PROVE  Spec => []NullsSurvive
<1>1. ZeroesInv => NullsSurvive
  BY DEF ZeroesInv, NulledInv, NullsSurvive
<1> QED
  BY <1>1, ZeroesInvariant, PTL

(* Provided the user waits, every point of a table but the first was       *)
(* measured while the series sourced it, and settled, through later        *)
(* calibrations and power cycles.                                          *)
THEOREM LaterPointsRight ==
  ASSUME Careful, CurrentsFit
  PROVE  Spec => []LaterPointsMeasured
<1>1. RecordInv => LaterPointsMeasured
  BY DEF RecordInv, TableInv
<1> QED
  BY <1>1, RecordInvariant, PTL

-----------------------------------------------------------------------------
(* The end of a calibration.  CalibrationsEnd needs the loop, the sampling *)
(* timer and the clock to go on; this is what each step does for it.       *)

Running == \E op \in Operations : cal[op].inProgress

(* Steps to the end of a series: four for each point that is left. *)
PointSteps ==
  4 * (series.points - point.index) - point.age - (IF point.sourced THEN 1 ELSE 0)

(* Parts of handlers, and waits between them, to the end of what is going on. *)
Left == IF zero.started THEN 7 - zero.steps - zero.age
        ELSE IF Running THEN PointSteps ELSE 0

LengthInv == Running => point.index < series.points
WaitInv   == ScreenInv /\ LengthInv

Sampled == \A op \in Operations : mean[op] = Measured(op)

(* Until nothing calibrates, every step brings the end nearer, or fills the*)
(* filters with what is sourced; they are not filled twice between two     *)
(* steps that do, and no step adds one.                                    *)
EndsSteadily ==
  [][~Idle => \/ Left' < Left
              \/ Left' = Left /\ ~Sampled /\ Sampled']_vars

LEMMA LeftCounts ==
  ASSUME TypeInv, LengthInv
  PROVE  /\ Left \in Nat /\ (Left = 0 <=> Idle)
         /\ Running /\ ~zero.started => Left = PointSteps /\ PointSteps \in Int
<1>1. /\ zero.started \in BOOLEAN /\ zero.steps \in 0 .. 3 /\ zero.age \in 0 .. 3
  BY DEF TypeInv, TypeOK, ZeroStates
<1>2. /\ point.index \in Nat /\ point.age \in 0 .. 2 /\ point.sourced \in BOOLEAN
      /\ series.points \in Nat
  BY SeriesFit DEF TypeInv, TypeOK, Points, Index
<1>3. CASE zero.started
  BY <1>1, <1>3 DEF Left, Idle
<1>4. CASE ~zero.started /\ Running
  <2>1. point.index + 1 <= series.points
    BY <1>2, <1>4 DEF LengthInv
  <2>2. PointSteps \in Nat /\ PointSteps > 0
    BY <1>2, <2>1 DEF PointSteps
  <2> QED
    BY <1>4, <2>2 DEF Left, Idle, Running
<1>5. CASE ~zero.started /\ ~Running
  BY <1>5 DEF Left, Idle, Running
<1> QED
  BY <1>3, <1>4, <1>5

(* A part of the automatic calibration. *)
LEMMA SourceNearer ==
  ASSUME TypeInv, RawInv, WaitInv, NEW op \in Operations, SourcePoint(op)
  PROVE  LengthInv' /\ Left' < Left
<1> USE DEF TypeInv, TypeOK
<1> DEFINE t == [cal[op].set EXCEPT ![point.index] = point.value]
           c == [cal[op] EXCEPT !.set = t]
<1>1. c.inProgress = cal[op].inProgress
  <2> HIDE DEF t
  <2> QED
    BY DEF Instances
<1>2. /\ cal' = [cal EXCEPT ![op] = c] /\ cal[op].inProgress /\ ~point.sourced
      /\ point' = [point EXCEPT !.sourced = TRUE] /\ UNCHANGED <<zero, series>>
  BY DEF SourcePoint
<1> HIDE DEF c
<1>3. Running /\ Running' /\ ~zero.started
  BY <1>1, <1>2 DEF Running, RawInv
<1>4. point'.index = point.index /\ point'.age = point.age /\ point'.sourced = TRUE
  BY <1>2 DEF Points
<1>5. LengthInv'
  BY <1>2, <1>3, <1>4 DEF WaitInv, LengthInv
<1>6. /\ point.index \in Nat /\ point.age \in Nat /\ series.points \in Nat
  BY SeriesFit DEF Points, Index
<1>7. PointSteps' < PointSteps
  BY <1>2, <1>4, <1>6 DEF PointSteps
<1> QED
  BY <1>2, <1>3, <1>5, <1>7 DEF Left

LEMMA RecordNearer ==
  ASSUME TypeInv, RawInv, WaitInv, NEW op \in Operations, RecordPoint(op)
  PROVE  LengthInv' /\ Left' < Left
<1> USE DEF TypeInv, TypeOK
<1> DEFINE t == [cal[op].meas EXCEPT ![point.index] = mean[op]]
           recorded == [cal[op] EXCEPT !.meas = t]
           points == point.index + 1
           over == [recorded EXCEPT !.inProgress = FALSE, !.use = TRUE, !.points = points]
           next == NextPoint(point)
<1>1. recorded.inProgress = cal[op].inProgress /\ over.inProgress = FALSE
  <2> HIDE DEF t
  <2> QED
    BY DEF Instances
<1>2. /\ cal[op].inProgress /\ point.age = 2 /\ UNCHANGED <<zero, series>>
      /\ IF next.value > Last(series)
         THEN cal' = [cal EXCEPT ![op] = over]
         ELSE cal' = [cal EXCEPT ![op] = recorded] /\ point' = next
  BY DEF RecordPoint
<1>3. /\ Running /\ ~zero.started /\ ~zero'.started
      /\ \A o \in Operations : cal[o].inProgress => o = op
  BY <1>2, OneInstance DEF Running, RawInv, WaitInv
<1>4. /\ point.index \in Nat /\ series.points \in Nat /\ series.points + 1 < TableSize
      /\ TableSize \in Nat /\ series \in Series /\ point.sourced \in BOOLEAN
      /\ point.index < series.points
  BY <1>3, SeriesFit DEF Points, Index, WaitInv, LengthInv
<1>5. Left \in Nat /\ Left > 0
  <2>1. Left \in Nat /\ (Left = 0 <=> Idle)
    BY LeftCounts DEF WaitInv
  <2>2. ~Idle
    BY <1>2 DEF Idle
  <2> QED
    BY <2>1, <2>2
<1>6. CASE next.value > Last(series)
  <2> HIDE DEF over
  <2>1. ~Running'
    BY <1>1, <1>2, <1>3, <1>6 DEF Running
  <2> QED
    BY <1>3, <1>5, <2>1 DEF LengthInv, Left
<1>7. CASE ~(next.value > Last(series))
  <2>1. points \in Index
    BY <1>4 DEF Index
  <2>2. next.value = point.value + series.step /\ next.index = points
    BY <1>4, <2>1, NextPointType
  <2>3. next.age = 0 /\ next.sourced = FALSE
    BY DEF NextPoint, Points
  <2> HIDE DEF recorded, next
  <2>4. Running'
    BY <1>1, <1>2, <1>7 DEF Running
  <2>5. FollowsSeries /\ point.value \in Int
    BY <1>2 DEF SeriesInv, Points
  <2>6. points < series.points
    BY <1>4, <1>7, <2>2, <2>5, SeriesEnds DEF FollowsSeries
  <2>7. point'.index = points /\ point'.age = 0 /\ point'.sourced = FALSE /\ series' = series
    BY <1>2, <1>7, <2>2, <2>3
  <2>8. LengthInv'
    BY <2>6, <2>7 DEF LengthInv
  <2>9. PointSteps' < PointSteps
    BY <1>2, <1>4, <2>7 DEF PointSteps
  <2> QED
    BY <1>3, <2>4, <2>8, <2>9 DEF Left
<1> QED
  BY <1>6, <1>7

(* A part of the zero calibration. *)
LEMMA NullNearer ==
  ASSUME TypeInv, RawInv, HandleAutoNull
  PROVE  LengthInv' /\ Left' < Left
<1> USE DEF TypeInv, TypeOK
<1>1. zero.steps \in 0 .. 3 /\ zero.age \in 0 .. 3
  BY DEF ZeroStates
<1>2. /\ zero.started /\ \A op \in Operations : cal'[op].inProgress = cal[op].inProgress
      /\ ~Running
  BY DEF HandleAutoNull, PrepareNull, RecordNullSmallRange, SwitchNullRange, FinishNull,
         Instances, RawInv, Running
<1>3. ~Running' /\ LengthInv'
  BY <1>2 DEF Running, LengthInv
<1>4. \/ zero'.started /\ zero'.steps = zero.steps + 1 /\ zero'.age = zero.age
      \/ ~zero'.started
  BY DEF HandleAutoNull, PrepareNull, RecordNullSmallRange, SwitchNullRange, FinishNull,
         ZeroStates, NoZero
<1> QED
  BY <1>1, <1>2, <1>3, <1>4 DEF Left

LEMMA TimeNearer ==
  ASSUME TypeInv, RawInv, LengthInv, Time
  PROVE  LengthInv' /\ Left' < Left
<1> USE DEF TypeInv, TypeOK
<1>1. CASE PointTime
  <2>1. Running /\ Running' /\ ~zero.started /\ UNCHANGED <<zero, series>>
    BY <1>1 DEF PointTime, Running, RawInv
  <2>2. /\ point'.index = point.index /\ point'.age = point.age + 1
        /\ point'.sourced = point.sourced
        /\ point.index \in Nat /\ point.age \in Nat /\ series.points \in Nat
        /\ point.sourced \in BOOLEAN
    BY <1>1, SeriesFit DEF PointTime, Points, Index
  <2>3. PointSteps' < PointSteps
    BY <2>1, <2>2 DEF PointSteps
  <2> QED
    BY <2>1, <2>2, <2>3 DEF Left, LengthInv
<1>2. CASE ZeroTime
  <2>1. /\ zero.started /\ zero'.started /\ zero'.steps = zero.steps
        /\ zero'.age = zero.age + 1 /\ zero.steps \in Nat /\ zero.age \in Nat
        /\ UNCHANGED <<cal, point, series>>
    BY <1>2 DEF ZeroTime, ZeroStates
  <2> QED
    BY <2>1 DEF Left, LengthInv, Running
<1> QED
  BY <1>1, <1>2 DEF Time

LEMMA SamplingNearer ==
  ASSUME TypeInv, LengthInv, HandleSampling
  PROVE  LengthInv' /\ Left' = Left /\ ~Sampled /\ Sampled'
<1>1. /\ UNCHANGED <<zero, cal, point, series, board, null>>
      /\ \E op \in Operations : mean[op] # Measured(op)
      /\ mean' = [op \in Operations |-> Measured(op)]
  BY DEF HandleSampling
<1>2. \A op \in Operations : Measured(op)' = Measured(op)
  BY <1>1 DEF Measured, Controls, Span
<1> QED
  BY <1>1, <1>2 DEF Sampled, LengthInv, Left, Running, PointSteps

LEMMA PowerNearer ==
  ASSUME TypeInv, LengthInv, PowerCycle
  PROVE  LengthInv' /\ Left' = 0
BY DEF PowerCycle, ReadAdcCal, NoZero, LengthInv, Left, Running

(* The user, who waits, starts a series at its first point. *)
LEMMA UserLength ==
  ASSUME Careful, TypeInv, User
  PROVE  Idle /\ LengthInv'
<1> USE DEF TypeInv, TypeOK
<1>1. Idle /\ ~zero.started /\ \A op \in Operations : ~cal[op].inProgress
  BY UserWaits DEF Idle
<1>2. CASE CalibrateNonlinear
  <2> DEFINE op == OperationOf(functionType)
  <2>1. op \in Operations
    BY DEF OperationOf, Operations
  <2>2. SeriesFor(op) \in {VoltSeries, CurrSeries}
    BY DEF SeriesFor
  <2>3. point' = StartPoint(SeriesFor(op)) /\ series' = SeriesFor(op)
    BY <1>1, <1>2, <2>1 DEF CalibrateNonlinear, StartAutoCal
  <2> HIDE DEF op
  <2>4. point'.index = 0 /\ series'.points \in Nat \ {0}
    BY <2>2, <2>3, StartPointType, SeriesFit
  <2> QED
    BY <1>1, <2>4 DEF LengthInv
<1>3. CASE ToggleCalibratedValues
  <2>1. \A op \in Operations : ~cal'[op].inProgress
    BY <1>1, <1>3 DEF ToggleCalibratedValues, Instances
  <2> QED
    BY <1>1, <2>1 DEF LengthInv, Running
<1>4. CASE ~CalibrateNonlinear /\ ~ToggleCalibratedValues
  <2>1. UNCHANGED cal
    BY <1>4 DEF User, SelectFunction, SwapCurrentRange, SetSamplingRate, SlideFilter,
                CalibrateZero, StartNullCalibration
  <2> QED
    BY <1>1, <2>1 DEF LengthInv, Running
<1> QED
  BY <1>2, <1>3, <1>4

LEMMA StepNearer ==
  ASSUME Careful, TypeInv, RawInv, WaitInv, Next
  PROVE  /\ LengthInv'
         /\ ~Idle => \/ Left' < Left
                     \/ Left' = Left /\ ~Sampled /\ Sampled'
<1>1. CASE AutoCalADCfromDAC
  BY <1>1, SourceNearer, RecordNearer DEF AutoCalADCfromDAC
<1>2. CASE HandleAutoNull
  BY <1>2, NullNearer
<1>3. CASE HandleSampling
  BY <1>3, SamplingNearer DEF WaitInv
<1>4. CASE Time
  BY <1>4, TimeNearer DEF WaitInv
<1>5. CASE User
  BY <1>5, UserLength
<1>6. CASE PowerCycle
  <2>1. ~Idle => Left > 0
    BY LeftCounts DEF WaitInv
  <2> QED
    BY <1>6, <2>1, PowerNearer DEF WaitInv
<1> QED
  BY <1>1, <1>2, <1>3, <1>4, <1>5, <1>6 DEF Next, Loop

LEMMA WaitInvariant == ASSUME Careful PROVE Spec => []WaitInv
<1>1. Init => WaitInv
  BY RecordInit DEF ZeroesInv, WaitInv, LengthInv, Running, Init, Both
<1>2. TypeInv /\ RawInv /\ WaitInv /\ [Next]_vars => WaitInv'
  <2> SUFFICES ASSUME TypeInv, RawInv, WaitInv, [Next]_vars PROVE WaitInv'
    OBVIOUS
  <2>1. ScreenInv'
    BY ScreenKept DEF WaitInv
  <2>2. CASE UNCHANGED vars
    BY <2>1, <2>2 DEF vars, WaitInv, LengthInv, Running
  <2> QED
    BY <2>1, <2>2, StepNearer DEF WaitInv
<1> QED
  BY <1>1, <1>2, TypeInvariant, RawInvariant, PTL DEF Spec

(* Provided the user waits, a zero calibration is over after seven steps,  *)
(* and an automatic one after four for each point of its series, with at   *)
(* most one sampling of the output between two of them; power cycles end   *)
(* both.                                                                   *)
THEOREM CalibrationsShorten ==
  ASSUME Careful
  PROVE  Spec => [](Left \in Nat /\ (Left = 0 <=> Idle)) /\ EndsSteadily
<1>1. TypeInv /\ WaitInv => Left \in Nat /\ (Left = 0 <=> Idle)
  BY LeftCounts DEF WaitInv
<1>2. TypeInv /\ RawInv /\ WaitInv /\ [Next]_vars =>
        [~Idle => \/ Left' < Left
                  \/ Left' = Left /\ ~Sampled /\ Sampled']_vars
  BY StepNearer
<1> QED
  BY <1>1, <1>2, TypeInvariant, RawInvariant, WaitInvariant, PTL DEF Spec, EndsSteadily
=============================================================================
