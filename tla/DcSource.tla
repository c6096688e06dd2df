------------------------------ MODULE DcSource ------------------------------
(***************************************************************************)
(* How src/src/Poormanssmu.cpp sets up the board for its two DC functions: *)
(* at power-up, from the menu, and with the range chosen by the amount.    *)
(***************************************************************************)
EXTENDS SmuHal

DCV == "SOURCE_DC_VOLTAGE"
DCC == "SOURCE_DC_CURRENT"
DcFunctions == {DCV, DCC}

(* getOperationType *)
OperationOf(f) == IF f = DCC THEN CURRENT ELSE VOLTAGE

(* Settings.h, in micro-units *)
DefaultSource(op) == IF op = VOLTAGE THEN Volt(1234500) ELSE Ampere(13000)
DefaultLimit(op)  == IF op = VOLTAGE THEN Ampere(33000) ELSE Volt(5432100)

(* a number read as the kind of quantity that op sources, or limits *)
SourceAmount(op, m) == IF op = VOLTAGE THEN Volt(m) ELSE Ampere(m)
LimitAmount(op, m)  == IF op = VOLTAGE THEN Ampere(m) ELSE Volt(m)

AutoRangeSwitch == 8000

(* fltCommitCurrentSourceAutoRange: the range is switched as belief says   *)
CommitCurrentAutoRange(b, q, belief) ==
  LET small == -AutoRangeSwitch < q.micro /\ q.micro < AutoRangeSwitch
      range == IF small THEN "MILLIAMP10" ELSE "AMP1"
  IN  SetCommitCurrentSource(SetCurrentRange(b, range, belief), q)

AfterSetup ==
  LET b == [op |-> VOLTAGE, value |-> Volt(0), limit |-> Ampere(0), range |-> "AMP1",
            relay |-> FALSE, feedback |-> VOLTAGE,
            source  |-> [kind |-> VOLTAGE, micro |-> 0, range |-> "any"],
            limiter |-> [kind |-> CURRENT, micro |-> 0, range |-> "AMP1"]]
  IN  SetCommitCurrentLimit(
        SetCurrentRange(SetCommitVoltageSource(b, DefaultSource(VOLTAGE)), "AMP1", VOLTAGE),
        DefaultLimit(VOLTAGE))

-----------------------------------------------------------------------------
(* Sourcing the same kind of quantity already: keep the numbers.  Else use *)
(* the predefined ones.                                                    *)
OpenVoltage(b) ==
  LET fed  == UseFeedback(b, VOLTAGE)
      keep == fed.op = VOLTAGE
  IN  SetCommitCurrentLimit(
        SetCommitVoltageSource(fed, IF keep THEN fed.value ELSE DefaultSource(VOLTAGE)),
        IF keep THEN fed.limit ELSE DefaultLimit(VOLTAGE))

(* Mutants of OpenCurrent: the limit is left as it was; the numbers are    *)
(* kept whatever they were numbers of.                                     *)
OpensWithoutLimit(b, belief) ==
  LET fed == UseFeedback(b, CURRENT)
  IN  CommitCurrentAutoRange(fed, IF fed.op = CURRENT THEN fed.value ELSE DefaultSource(CURRENT),
                             belief)
OpensWithOldNumbers(b, belief) ==
  SetCommitVoltageLimit(
    CommitCurrentAutoRange(UseFeedback(b, CURRENT), b.value, belief), b.limit)

OpenCurrent(b, belief) ==
  LET fed  == UseFeedback(b, CURRENT)
      keep == fed.op = CURRENT
  IN  SetCommitVoltageLimit(
        CommitCurrentAutoRange(fed, IF keep THEN fed.value ELSE DefaultSource(CURRENT),
                               belief),
        IF keep THEN fed.limit ELSE DefaultLimit(CURRENT))
=============================================================================
