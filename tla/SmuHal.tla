------------------------------- MODULE SmuHal -------------------------------
(***************************************************************************)
(* The analog board as src/src/SMU_HAL_717x.cpp (class ADCClass) drives it: *)
(* one LTC2758 with a source channel and a limit channel, a current range  *)
(* with its sense relay, and a switch that feeds back either the output    *)
(* voltage or the output current.                                          *)
(*                                                                         *)
(* The board is one record.  Every operator below maps the record before a *)
(* call to the record after it, so a caller composes them in the order the *)
(* code makes the calls.                                                   *)
(*                                                                         *)
(* The code passes bare 64-bit numbers of micro-volts or micro-amperes.  A *)
(* quantity here also carries the unit its giver meant, which no operator  *)
(* looks at: it only shows when a number changes meaning on its way.       *)
(***************************************************************************)
EXTENDS Integers

VOLTAGE == "SOURCE_VOLTAGE"
CURRENT == "SOURCE_CURRENT"
Operations == {VOLTAGE, CURRENT}

CurrentRanges == {"AMP1", "MILLIAMP10"}

Units == {"uV", "uA"}
Quantity == [micro : Int, unit : Units]
Volt(m) == [micro |-> m, unit |-> "uV"]
Ampere(m) == [micro |-> m, unit |-> "uA"]

(* What a DAC channel was last told: the kind of quantity the code scaled  *)
(* the number as, the number, and the current range of that scaling ("any" *)
(* when the scaling does not depend on it).                                *)
DacWord == [kind : Operations, micro : Int, range : CurrentRanges \cup {"any"}]

Board == [op       : Operations,      \* ADCClass::operationType
          value    : Quantity,        \* setValue_micro
          limit    : Quantity,        \* setLimit_micro
          range    : CurrentRanges,   \* current_range
          relay    : BOOLEAN,         \* gpio1 and pin 4: the 1A shunt
          feedback : Operations,      \* gpio0
          source   : DacWord,         \* DAC channel 0
          limiter  : DacWord]         \* DAC channel 1

-----------------------------------------------------------------------------
(* Setters.  Each records the number, then writes its DAC channel. *)

SetCommitVoltageSource(b, q) ==
  [b EXCEPT !.op = VOLTAGE, !.value = q,
            !.source = [kind |-> VOLTAGE, micro |-> q.micro, range |-> "any"]]

SetCommitCurrentSource(b, q) ==
  [b EXCEPT !.op = CURRENT, !.value = q,
            !.source = [kind |-> CURRENT, micro |-> q.micro, range |-> b.range]]

SetCommitVoltageLimit(b, q) ==
  [b EXCEPT !.limit = q,
            !.limiter = [kind |-> VOLTAGE, micro |-> q.micro, range |-> "any"]]

SetCommitCurrentLimit(b, q) ==
  [b EXCEPT !.limit = q,
            !.limiter = [kind |-> CURRENT, micro |-> q.micro, range |-> b.range]]

UseFeedback(b, op) == [b EXCEPT !.feedback = op]

(* Recommit the set value as the given kind of source. *)
SetCommitSource(b, op, q) ==
  IF op = VOLTAGE THEN SetCommitVoltageSource(b, q) ELSE SetCommitCurrentSource(b, q)

(* The limit that goes with a kind of source is of the other kind. *)
SetCommitLimit(b, op, q) ==
  IF op = VOLTAGE THEN SetCommitCurrentLimit(b, q) ELSE SetCommitVoltageLimit(b, q)

(* Mutants of SetCurrentRange: the limit is not rescaled; the source is not. *)
ForgetsLimit(b, range, op) ==
  LET switched == [b EXCEPT !.range = range, !.relay = (range = "AMP1")]
  IN  IF op = VOLTAGE THEN switched ELSE SetCommitCurrentSource(switched, b.value)
ForgetsSource(b, range, op) ==
  SetCommitCurrentLimit([b EXCEPT !.range = range, !.relay = (range = "AMP1")], b.limit)

(* The range is switched by what the CALLER believes is being sourced: the *)
(* parameter shadows the member.  Only the DAC of that belief is rescaled. *)
SetCurrentRange(b, range, op) ==
  LET switched == [b EXCEPT !.range = range, !.relay = (range = "AMP1")]
  IN  IF op = VOLTAGE
      THEN SetCommitCurrentLimit(switched, b.limit)
      ELSE SetCommitCurrentSource(switched, b.value)

-----------------------------------------------------------------------------
(* handleAutoCurrentRange.  The measured current, with its hysteresis, is  *)
(* either small enough for the 10mA range, too large for it, or between.   *)

Loads == {"low", "hysteresis", "high"}

AutoRangeTarget(range, load) ==
  CASE range = "AMP1" /\ load = "low"        -> "MILLIAMP10"
    [] range = "MILLIAMP10" /\ load = "high" -> "AMP1"
    [] OTHER                                 -> range

(* Here the belief is the board's own member, and the limit is recommitted *)
(* a second time when a voltage is sourced.                                *)
HandleAutoCurrentRange(b, load) ==
  LET target == AutoRangeTarget(b.range, load)
      switched == SetCurrentRange(b, target, b.op)
  IN  IF target = b.range THEN b
      ELSE IF b.op = VOLTAGE THEN SetCommitCurrentLimit(switched, switched.limit)
      ELSE switched

-----------------------------------------------------------------------------
(* The output is what a screen that says "sourcing op" claims it is: the   *)
(* feedback, the source channel and the limit channel all serve op, hold   *)
(* the numbers the screen shows, and are scaled for the range in use.      *)

Serves(b, op) ==
  /\ b.op = op
  /\ b.feedback = op
  /\ b.source.kind = op
  /\ b.source.micro = b.value.micro
  /\ op = CURRENT => b.source.range = b.range
  /\ b.limiter.kind # op
  /\ b.limiter.micro = b.limit.micro
  /\ op = VOLTAGE => b.limiter.range = b.range
  /\ b.relay = (b.range = "AMP1")

(* The numbers also mean what the screen prints them as. *)
UnitsServe(b, op) ==
  /\ b.value.unit = (IF op = VOLTAGE THEN "uV" ELSE "uA")
  /\ b.limit.unit = (IF op = VOLTAGE THEN "uA" ELSE "uV")
=============================================================================
