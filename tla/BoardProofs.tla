---------------------------- MODULE BoardProofs ----------------------------
(***************************************************************************)
(* Facts about the operators of SmuHal and DcSource: what they keep, and   *)
(* what the boards they set up serve.  InstrumentProofs and                *)
(* CalibratingProofs rest on them.                                         *)
(***************************************************************************)
EXTENDS DcSource, TLAPS

(* The relay selects the shunt of the current range. *)
RelayFollowsRange(b) == b.relay = (b.range = "AMP1")

(* A quantity is a quantity, whichever unit it is read in. *)
LEMMA AmountTypes ==
  ASSUME NEW m \in Int, NEW op \in Operations
  PROVE  /\ Volt(m) \in Quantity /\ Ampere(m) \in Quantity
         /\ SourceAmount(op, m) \in Quantity /\ LimitAmount(op, m) \in Quantity
         /\ DefaultSource(op) \in Quantity /\ DefaultLimit(op) \in Quantity
BY DEF Volt, Ampere, Quantity, Units, SourceAmount, LimitAmount, DefaultSource, DefaultLimit

(* The setters keep a board a board, and leave the relay as it is. *)
LEMMA SetterTypes ==
  ASSUME NEW b \in Board, NEW q \in Quantity, NEW op \in Operations
  PROVE  /\ SetCommitVoltageSource(b, q) \in Board
         /\ SetCommitCurrentSource(b, q) \in Board
         /\ SetCommitVoltageLimit(b, q) \in Board
         /\ SetCommitCurrentLimit(b, q) \in Board
         /\ UseFeedback(b, op) \in Board
         /\ SetCommitSource(b, op, q) \in Board
         /\ SetCommitLimit(b, op, q) \in Board
<1> USE DEF Board, DacWord, Quantity, Operations, VOLTAGE, CURRENT, CurrentRanges
<1>1. SetCommitVoltageSource(b, q) \in Board
  BY DEF SetCommitVoltageSource
<1>2. SetCommitCurrentSource(b, q) \in Board
  BY DEF SetCommitCurrentSource
<1>3. SetCommitVoltageLimit(b, q) \in Board
  BY DEF SetCommitVoltageLimit
<1>4. SetCommitCurrentLimit(b, q) \in Board
  BY DEF SetCommitCurrentLimit
<1>5. UseFeedback(b, op) \in Board
  BY DEF UseFeedback
<1>6. SetCommitSource(b, op, q) \in Board /\ SetCommitLimit(b, op, q) \in Board
  BY <1>1, <1>2, <1>3, <1>4 DEF SetCommitSource, SetCommitLimit
<1> QED
  BY <1>1, <1>2, <1>3, <1>4, <1>5, <1>6

(* So does switching the range, which moves the relay with it. *)
LEMMA RangeTypes ==
  ASSUME NEW b \in Board, NEW r \in CurrentRanges, NEW op \in Operations
  PROVE  /\ SetCurrentRange(b, r, op) \in Board
         /\ RelayFollowsRange(SetCurrentRange(b, r, op))
<1> DEFINE switched == [b EXCEPT !.range = r, !.relay = (r = "AMP1")]
<1>1. switched \in Board /\ switched.limit \in Quantity /\ switched.value \in Quantity
  BY DEF Board
<1>2. RelayFollowsRange(switched)
  BY DEF Board, RelayFollowsRange
<1>3. SetCommitCurrentLimit(switched, b.limit) \in Board
  BY <1>1, SetterTypes DEF Board
<1>4. SetCommitCurrentSource(switched, b.value) \in Board
  BY <1>1, SetterTypes DEF Board
<1>5. RelayFollowsRange(SetCommitCurrentLimit(switched, b.limit))
  BY <1>1, <1>2 DEF Board, RelayFollowsRange, SetCommitCurrentLimit
<1>6. RelayFollowsRange(SetCommitCurrentSource(switched, b.value))
  BY <1>1, <1>2 DEF Board, RelayFollowsRange, SetCommitCurrentSource
<1> QED
  BY <1>3, <1>4, <1>5, <1>6 DEF SetCurrentRange

(* Committing a source or a limit does not move the relay. *)
LEMMA SettersKeepRelay ==
  ASSUME NEW b \in Board, NEW q \in Quantity, NEW op \in Operations, RelayFollowsRange(b)
  PROVE  /\ RelayFollowsRange(SetCommitVoltageSource(b, q))
         /\ RelayFollowsRange(SetCommitCurrentSource(b, q))
         /\ RelayFollowsRange(SetCommitVoltageLimit(b, q))
         /\ RelayFollowsRange(SetCommitCurrentLimit(b, q))
         /\ RelayFollowsRange(SetCommitSource(b, op, q))
         /\ RelayFollowsRange(SetCommitLimit(b, op, q))
         /\ RelayFollowsRange(UseFeedback(b, op))
<1> USE DEF Board, RelayFollowsRange
<1>1. /\ RelayFollowsRange(SetCommitVoltageSource(b, q))
      /\ RelayFollowsRange(SetCommitCurrentSource(b, q))
  BY DEF SetCommitVoltageSource, SetCommitCurrentSource
<1>2. /\ RelayFollowsRange(SetCommitVoltageLimit(b, q))
      /\ RelayFollowsRange(SetCommitCurrentLimit(b, q))
  BY DEF SetCommitVoltageLimit, SetCommitCurrentLimit
<1>3. RelayFollowsRange(UseFeedback(b, op))
  BY DEF UseFeedback
<1> QED
  BY <1>1, <1>2, <1>3 DEF SetCommitSource, SetCommitLimit

LEMMA FeedbackBoard ==
  ASSUME NEW b \in Board, NEW op \in Operations
  PROVE  /\ UseFeedback(b, op) \in Board
         /\ RelayFollowsRange(b) => RelayFollowsRange(UseFeedback(b, op))
BY DEF UseFeedback, Board, RelayFollowsRange

(* A board that serves an operation still does after any recommit that     *)
(* believes the same operation.                                            *)
LEMMA RecommitServes ==
  ASSUME NEW b \in Board, NEW q \in Quantity, NEW op \in Operations, Serves(b, op)
  PROVE  Serves(SetCommitSource(b, op, q), op) /\ Serves(SetCommitLimit(b, op, q), op)
<1> USE DEF Board, Serves, Quantity, DacWord, SetCommitSource, SetCommitLimit,
            Operations, VOLTAGE, CURRENT
<1>1. CASE op = VOLTAGE
  BY <1>1 DEF SetCommitVoltageSource, SetCommitCurrentLimit
<1>2. CASE op = CURRENT
  BY <1>2 DEF SetCommitCurrentSource, SetCommitVoltageLimit
<1> QED
  BY <1>1, <1>2

LEMMA RangeServes ==
  ASSUME NEW b \in Board, NEW r \in CurrentRanges, NEW op \in Operations, Serves(b, op)
  PROVE  Serves(SetCurrentRange(b, r, op), op)
<1> USE DEF Board, Serves, Quantity, DacWord, SetCurrentRange, Operations, VOLTAGE, CURRENT,
            CurrentRanges
<1>1. CASE op = VOLTAGE
  BY <1>1 DEF SetCommitCurrentLimit
<1>2. CASE op = CURRENT
  BY <1>2 DEF SetCommitCurrentSource
<1> QED
  BY <1>1, <1>2

(* Automatic ranging keeps a board a board, and what it serves. *)
LEMMA AutoRangeBoard ==
  ASSUME NEW b \in Board, NEW load \in Loads, RelayFollowsRange(b)
  PROVE  /\ HandleAutoCurrentRange(b, load) \in Board
         /\ RelayFollowsRange(HandleAutoCurrentRange(b, load))
         /\ \A op \in Operations : Serves(b, op) => Serves(HandleAutoCurrentRange(b, load), op)
<1> DEFINE t == AutoRangeTarget(b.range, load)
           s == SetCurrentRange(b, t, b.op)
<1>1. b.range \in CurrentRanges /\ b.op \in Operations
  BY DEF Board
<1>2. t \in CurrentRanges
  BY <1>1 DEF AutoRangeTarget, CurrentRanges
<1>3. s \in Board /\ RelayFollowsRange(s)
  BY <1>1, <1>2, RangeTypes
<1>4. s.limit \in Quantity
  BY <1>3 DEF Board
<1>5. /\ SetCommitCurrentLimit(s, s.limit) \in Board
      /\ RelayFollowsRange(SetCommitCurrentLimit(s, s.limit))
  BY <1>3, <1>4, <1>1, SetterTypes, SettersKeepRelay
<1>6. ASSUME NEW op \in Operations, Serves(b, op)
      PROVE  Serves(HandleAutoCurrentRange(b, load), op)
  <2>1. b.op = op
    BY <1>6 DEF Serves
  <2>2. Serves(s, op)
    BY <1>1, <1>2, <1>6, <2>1, RangeServes
  <2>3. Serves(SetCommitLimit(s, op, s.limit), op)
    BY <1>3, <1>4, <2>2, RecommitServes
  <2>4. b.op = VOLTAGE => Serves(SetCommitCurrentLimit(s, s.limit), op)
    BY <2>1, <2>3 DEF SetCommitLimit
  <2> QED
    BY <1>6, <2>2, <2>4 DEF HandleAutoCurrentRange
<1> QED
  BY <1>3, <1>5, <1>6 DEF HandleAutoCurrentRange

(* fltCommitCurrentSourceAutoRange *)
LEMMA CommitAutoRangeBoard ==
  ASSUME NEW b \in Board, NEW q \in Quantity, NEW belief \in Operations
  PROVE  LET c == CommitCurrentAutoRange(b, q, belief)
         IN  /\ c \in Board /\ RelayFollowsRange(c)
             /\ c.op = CURRENT /\ c.feedback = b.feedback
             /\ c.value = q
             /\ c.source = [kind |-> CURRENT, micro |-> q.micro, range |-> c.range]
<1> DEFINE small == -AutoRangeSwitch < q.micro /\ q.micro < AutoRangeSwitch
           r == IF small THEN "MILLIAMP10" ELSE "AMP1"
           s == SetCurrentRange(b, r, belief)
<1>1. r \in CurrentRanges
  BY DEF CurrentRanges
<1>2. s \in Board /\ RelayFollowsRange(s)
  BY <1>1, RangeTypes
<1>3. s.feedback = b.feedback
  BY <1>1 DEF Board, SetCurrentRange, SetCommitCurrentLimit, SetCommitCurrentSource
<1>4. CommitCurrentAutoRange(b, q, belief) = SetCommitCurrentSource(s, q)
  BY DEF CommitCurrentAutoRange
<1> HIDE DEF s
<1>5. /\ SetCommitCurrentSource(s, q) \in Board
      /\ RelayFollowsRange(SetCommitCurrentSource(s, q))
  BY <1>2, SetterTypes, SettersKeepRelay
<1>6. LET c == SetCommitCurrentSource(s, q)
      IN  /\ c.op = CURRENT /\ c.feedback = s.feedback /\ c.value = q
          /\ c.source = [kind |-> CURRENT, micro |-> q.micro, range |-> c.range]
  BY <1>2 DEF SetCommitCurrentSource, Board
<1> QED
  BY <1>3, <1>4, <1>5, <1>6

(* The board that setup() leaves serves a voltage. *)
LEMMA SetupBoard ==
  AfterSetup \in Board /\ RelayFollowsRange(AfterSetup) /\ Serves(AfterSetup, VOLTAGE)
<1> DEFINE b == [op |-> VOLTAGE, value |-> Volt(0), limit |-> Ampere(0), range |-> "AMP1",
                 relay |-> FALSE, feedback |-> VOLTAGE,
                 source  |-> [kind |-> VOLTAGE, micro |-> 0, range |-> "any"],
                 limiter |-> [kind |-> CURRENT, micro |-> 0, range |-> "AMP1"]]
           v == SetCommitVoltageSource(b, DefaultSource(VOLTAGE))
           r == SetCurrentRange(v, "AMP1", VOLTAGE)
<1>1. b \in Board
  BY DEF Board, DacWord, Quantity, Units, Operations, CurrentRanges, VOLTAGE, CURRENT,
         Volt, Ampere
<1>2. DefaultSource(VOLTAGE) \in Quantity /\ DefaultLimit(VOLTAGE) \in Quantity
  BY AmountTypes DEF Operations
<1>3. v \in Board
  BY <1>1, <1>2, SetterTypes DEF Operations
<1>4. v.op = VOLTAGE /\ v.feedback = VOLTAGE /\ v.source.kind = VOLTAGE
      /\ v.source.micro = v.value.micro
  BY <1>1 DEF SetCommitVoltageSource
<1> HIDE DEF v
<1>5. r \in Board /\ RelayFollowsRange(r)
  BY <1>3, RangeTypes DEF Operations, CurrentRanges
<1>6. r = SetCommitCurrentLimit([v EXCEPT !.range = "AMP1", !.relay = ("AMP1" = "AMP1")], v.limit)
  BY DEF SetCurrentRange
<1>7. r.op = VOLTAGE /\ r.feedback = VOLTAGE /\ r.source = v.source /\ r.value = v.value
  BY <1>3, <1>4, <1>6 DEF SetCommitCurrentLimit, Board
<1> HIDE DEF r
<1>8. AfterSetup = SetCommitCurrentLimit(r, DefaultLimit(VOLTAGE))
  BY DEF AfterSetup, r, v
<1>9. AfterSetup \in Board /\ RelayFollowsRange(AfterSetup)
  BY <1>2, <1>5, <1>8, SetterTypes, SettersKeepRelay DEF Operations
<1>10. Serves(AfterSetup, VOLTAGE)
  BY <1>4, <1>5, <1>7, <1>8, <1>9
  DEF SetCommitCurrentLimit, Serves, RelayFollowsRange, Board, VOLTAGE, CURRENT
<1> QED
  BY <1>9, <1>10

(* Opening DC voltage in the menu sets up the whole board for a voltage.   *)
LEMMA OpenVoltageServes ==
  ASSUME NEW b \in Board, RelayFollowsRange(b)
  PROVE  /\ OpenVoltage(b) \in Board
         /\ RelayFollowsRange(OpenVoltage(b))
         /\ Serves(OpenVoltage(b), VOLTAGE)
<1> DEFINE fed  == UseFeedback(b, VOLTAGE)
           q    == IF fed.op = VOLTAGE THEN fed.value ELSE DefaultSource(VOLTAGE)
           l    == IF fed.op = VOLTAGE THEN fed.limit ELSE DefaultLimit(VOLTAGE)
           v    == SetCommitVoltageSource(fed, q)
           o    == SetCommitCurrentLimit(v, l)
<1>1. fed \in Board /\ RelayFollowsRange(fed) /\ fed.feedback = VOLTAGE
  BY SetterTypes, SettersKeepRelay DEF UseFeedback, Board, Operations
<1>2. q \in Quantity /\ l \in Quantity
  BY <1>1, AmountTypes DEF Board, Operations
<1> HIDE DEF fed, q, l
<1>3. v \in Board /\ RelayFollowsRange(v)
  BY <1>1, <1>2, SetterTypes, SettersKeepRelay DEF Operations
<1>4. /\ v.op = VOLTAGE /\ v.feedback = VOLTAGE /\ v.source.kind = VOLTAGE
      /\ v.source.micro = v.value.micro
  BY <1>1 DEF SetCommitVoltageSource, Board
<1> HIDE DEF v
<1>5. o \in Board /\ RelayFollowsRange(o)
  BY <1>2, <1>3, SetterTypes, SettersKeepRelay DEF Operations
<1>6. Serves(o, VOLTAGE)
  BY <1>3, <1>4, <1>5
  DEF SetCommitCurrentLimit, Serves, RelayFollowsRange, Board, VOLTAGE, CURRENT
<1>7. OpenVoltage(b) = o
  BY DEF OpenVoltage, o, v, q, l, fed
<1> QED
  BY <1>5, <1>6, <1>7

(* Opening DC current sets up the whole board for a current, whatever the  *)
(* stale operationType makes the range switch believe.                     *)
LEMMA OpenCurrentServes ==
  ASSUME NEW b \in Board, RelayFollowsRange(b), NEW belief \in Operations
  PROVE  /\ OpenCurrent(b, belief) \in Board
         /\ RelayFollowsRange(OpenCurrent(b, belief))
         /\ Serves(OpenCurrent(b, belief), CURRENT)
<1> DEFINE fed  == UseFeedback(b, CURRENT)
           q    == IF fed.op = CURRENT THEN fed.value ELSE DefaultSource(CURRENT)
           l    == IF fed.op = CURRENT THEN fed.limit ELSE DefaultLimit(CURRENT)
           c    == CommitCurrentAutoRange(fed, q, belief)
           o    == SetCommitVoltageLimit(c, l)
<1>1. fed \in Board /\ RelayFollowsRange(fed) /\ fed.feedback = CURRENT
  BY SetterTypes, SettersKeepRelay DEF UseFeedback, Board, Operations
<1>2. q \in Quantity /\ l \in Quantity
  BY <1>1, AmountTypes DEF Board, Operations
<1> HIDE DEF fed, q, l
<1>3. /\ c \in Board /\ RelayFollowsRange(c)
      /\ c.op = CURRENT /\ c.feedback = CURRENT /\ c.value = q
      /\ c.source = [kind |-> CURRENT, micro |-> q.micro, range |-> c.range]
  BY <1>1, <1>2, CommitAutoRangeBoard
<1> HIDE DEF c
<1>4. o \in Board /\ RelayFollowsRange(o)
  BY <1>2, <1>3, SetterTypes, SettersKeepRelay DEF Operations
<1>5. Serves(o, CURRENT)
  BY <1>3, <1>4
  DEF SetCommitVoltageLimit, Serves, RelayFollowsRange, Board, VOLTAGE, CURRENT
<1>6. OpenCurrent(b, belief) = o
  BY DEF OpenCurrent, o, c, q, l, fed
<1> QED
  BY <1>4, <1>5, <1>6

-----------------------------------------------------------------------------
(* Numbers keep their units through every call that only scales them anew. *)

LEMMA RangeKeepsNumbers ==
  ASSUME NEW b \in Board, NEW r \in CurrentRanges, NEW op \in Operations
  PROVE  /\ SetCurrentRange(b, r, op).value = b.value
         /\ SetCurrentRange(b, r, op).limit = b.limit
BY DEF SetCurrentRange, SetCommitCurrentLimit, SetCommitCurrentSource, Board

LEMMA AutoRangeKeepsNumbers ==
  ASSUME NEW b \in Board, NEW load \in Loads
  PROVE  /\ HandleAutoCurrentRange(b, load).value = b.value
         /\ HandleAutoCurrentRange(b, load).limit = b.limit
<1> DEFINE t == AutoRangeTarget(b.range, load)
           s == SetCurrentRange(b, t, b.op)
<1>1. b.range \in CurrentRanges /\ b.op \in Operations
  BY DEF Board
<1>2. t \in CurrentRanges
  BY <1>1 DEF AutoRangeTarget, CurrentRanges
<1>3. s \in Board /\ s.value = b.value /\ s.limit = b.limit
  BY <1>1, <1>2, RangeTypes, RangeKeepsNumbers
<1>4. HandleAutoCurrentRange(b, load) \in {b, s, SetCommitCurrentLimit(s, s.limit)}
  BY DEF HandleAutoCurrentRange
<1> HIDE DEF s
<1>5. LET c == SetCommitCurrentLimit(s, s.limit) IN c.value = s.value /\ c.limit = s.limit
  BY <1>3 DEF SetCommitCurrentLimit, Board
<1> QED
  BY <1>3, <1>4, <1>5

(* What is typed as what op sources, or limits, is committed as that. *)
LEMMA CommitKeepsUnits ==
  ASSUME NEW b \in Board, NEW op \in Operations, NEW q \in Quantity, UnitsServe(b, op)
  PROVE  /\ q.unit = b.value.unit => UnitsServe(SetCommitSource(b, op, q), op)
         /\ q.unit = b.limit.unit => UnitsServe(SetCommitLimit(b, op, q), op)
<1>1. LET c == SetCommitSource(b, op, q) IN c.value = q /\ c.limit = b.limit
  BY DEF SetCommitSource, SetCommitVoltageSource, SetCommitCurrentSource, Board
<1>2. LET c == SetCommitLimit(b, op, q) IN c.value = b.value /\ c.limit = q
  BY DEF SetCommitLimit, SetCommitVoltageLimit, SetCommitCurrentLimit, Board
<1> QED
  BY <1>1, <1>2, Zenon DEF UnitsServe

LEMMA AmountUnits ==
  ASSUME NEW b, NEW op \in Operations, NEW m, UnitsServe(b, op)
  PROVE  /\ SourceAmount(op, m).unit = b.value.unit
         /\ LimitAmount(op, m).unit = b.limit.unit
<1>1. Volt(m).unit = "uV" /\ Ampere(m).unit = "uA"
  BY DEF Volt, Ampere
<1> QED
  BY <1>1 DEF SourceAmount, LimitAmount, UnitsServe

(* The menu keeps the numbers of a board that sources the same quantity,   *)
(* and takes the predefined ones else.                                     *)
LEMMA NumbersOnOpening ==
  ASSUME NEW b \in Board, NEW op \in Operations, UnitsServe(b, b.op)
  PROVE  LET fed == UseFeedback(b, op)
             q == IF fed.op = op THEN fed.value ELSE DefaultSource(op)
             l == IF fed.op = op THEN fed.limit ELSE DefaultLimit(op)
         IN  /\ fed \in Board /\ q \in Quantity /\ l \in Quantity
             /\ q.unit = (IF op = VOLTAGE THEN "uV" ELSE "uA")
             /\ l.unit = (IF op = VOLTAGE THEN "uA" ELSE "uV")
<1> DEFINE fed == UseFeedback(b, op)
<1>1. /\ fed \in Board /\ fed.op = b.op /\ fed.value = b.value /\ fed.limit = b.limit
      /\ b.value \in Quantity /\ b.limit \in Quantity
  BY DEF UseFeedback, Board
<1> HIDE DEF fed
<1>2. /\ DefaultSource(op) \in Quantity /\ DefaultLimit(op) \in Quantity
      /\ DefaultSource(op).unit = (IF op = VOLTAGE THEN "uV" ELSE "uA")
      /\ DefaultLimit(op).unit = (IF op = VOLTAGE THEN "uA" ELSE "uV")
  <2>1. DefaultSource(op) \in Quantity /\ DefaultLimit(op) \in Quantity
    BY AmountTypes
  <2>2. /\ DefaultSource(op).unit = (IF op = VOLTAGE THEN "uV" ELSE "uA")
        /\ DefaultLimit(op).unit = (IF op = VOLTAGE THEN "uA" ELSE "uV")
    BY DEF DefaultSource, DefaultLimit, Volt, Ampere
  <2> QED
    BY <2>1, <2>2
<1>3. CASE fed.op = op
  BY <1>1, <1>3 DEF UnitsServe, fed
<1>4. CASE fed.op # op
  BY <1>1, <1>2, <1>4 DEF fed
<1> QED
  BY <1>3, <1>4

LEMMA OpenVoltageUnits ==
  ASSUME NEW b \in Board, UnitsServe(b, b.op)
  PROVE  UnitsServe(OpenVoltage(b), VOLTAGE)
<1> DEFINE fed == UseFeedback(b, VOLTAGE)
           q == IF fed.op = VOLTAGE THEN fed.value ELSE DefaultSource(VOLTAGE)
           l == IF fed.op = VOLTAGE THEN fed.limit ELSE DefaultLimit(VOLTAGE)
           v == SetCommitVoltageSource(fed, q)
<1>1. fed \in Board /\ q \in Quantity /\ l \in Quantity /\ q.unit = "uV" /\ l.unit = "uA"
  BY NumbersOnOpening DEF Operations
<1>2. OpenVoltage(b) = SetCommitCurrentLimit(v, l)
  BY DEF OpenVoltage
<1> HIDE DEF fed, q, l
<1>3. v \in Board
  BY <1>1, SetterTypes DEF Operations
<1>4. v.value = q
  BY <1>1 DEF SetCommitVoltageSource, Board
<1> HIDE DEF v
<1>5. LET o == SetCommitCurrentLimit(v, l) IN o.value = q /\ o.limit = l
  BY <1>3, <1>4 DEF SetCommitCurrentLimit, Board
<1> QED
  BY <1>1, <1>2, <1>5 DEF UnitsServe

LEMMA OpenCurrentUnits ==
  ASSUME NEW b \in Board, NEW belief \in Operations, UnitsServe(b, b.op)
  PROVE  UnitsServe(OpenCurrent(b, belief), CURRENT)
<1> DEFINE fed == UseFeedback(b, CURRENT)
           q == IF fed.op = CURRENT THEN fed.value ELSE DefaultSource(CURRENT)
           l == IF fed.op = CURRENT THEN fed.limit ELSE DefaultLimit(CURRENT)
           c == CommitCurrentAutoRange(fed, q, belief)
<1>1. fed \in Board /\ q \in Quantity /\ l \in Quantity /\ q.unit = "uA" /\ l.unit = "uV"
  BY NumbersOnOpening DEF Operations, VOLTAGE, CURRENT
<1>2. OpenCurrent(b, belief) = SetCommitVoltageLimit(c, l)
  BY DEF OpenCurrent
<1> HIDE DEF fed, q, l
<1>3. c \in Board /\ c.value = q
  BY <1>1, CommitAutoRangeBoard
<1> HIDE DEF c
<1>4. LET o == SetCommitVoltageLimit(c, l) IN o.value = q /\ o.limit = l
  BY <1>3 DEF SetCommitVoltageLimit, Board
<1> QED
  BY <1>1, <1>2, <1>4 DEF UnitsServe, VOLTAGE, CURRENT
=============================================================================
