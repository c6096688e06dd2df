------------------------------- MODULE Commit -------------------------------
(***************************************************************************)
(* A commit of the source, step by step, in src/src/SMU_HAL_717x.cpp       *)
(* (fltSetCommitVoltageSource, fltSetCommitCurrentSource): remember the    *)
(* amount, choose a span of the DAC, write it, convert the amount to a     *)
(* code for that span, write the code.  Only the two writes are SPI        *)
(* transactions, which mask the pulse timer (src/src/LTC2758.cpp); between *)
(* any two steps of a call from the loop its interrupt may make a whole    *)
(* commit of its own.                                                      *)
(*                                                                         *)
(* Amounts are the millivolts the DAC has to give for them.                *)
(***************************************************************************)
EXTENDS Integers

CONSTANT Amounts       \* the millivolts that are sourced

ASSUME AmountsAssumption == Amounts \subseteq Int /\ 0 \in Amounts

VOLTAGE == "SOURCE_VOLTAGE"
CURRENT == "SOURCE_CURRENT"
Operations == {VOLTAGE, CURRENT}

(* Half the width of a span, in millivolts: -2.5 to 2.5V and so on. *)
Spans == {2500, 5000, 10000}

(* best: fltSetCommitVoltageSource's argument dynamicRange *)
Requests == [op : {VOLTAGE}, amount : Amounts, best : BOOLEAN]
              \cup [op : {CURRENT}, amount : Amounts, best : {FALSE}]

Within(a, bound) == -bound <= a /\ a <= bound

SpanOf(r) ==
  IF r.op = CURRENT
  THEN IF Within(r.amount, 2199) THEN 2500 ELSE 10000
  ELSE IF r.best /\ Within(r.amount, 2300) THEN 2500
  ELSE IF r.best /\ Within(r.amount, 4600) THEN 5000
  ELSE 10000

VARIABLES
  smu,    \* members of ADCClass: operationType and setValue_micro, DAC_RANGE_HIGH
  chip,   \* the LTC2758's channel: span to be used with the next code, span and code in use
  call    \* the call from the loop: where it is, its argument and locals, pulses met

Codes == [op : Operations, amount : Amounts, span : Spans]
Steps == {"idle", "choose", "span", "convert", "code"}

(* Writing a code also puts the span written before it into use. *)
UpdateChip(c, code) == [c EXCEPT !.code = code, !.span = c.next]

CodeOf(r, span) == [op |-> r.op, amount |-> r.amount, span |-> span]

(* DAC_RANGE_LOW and DAC_RANGE_HIGH, always opposite, are members, for a   *)
(* current locals; both are set in one step.                               *)
Remember(s, r) == [s EXCEPT !.op = r.op, !.amount = r.amount]
SetRange(s, r)    == IF r.op = VOLTAGE THEN [s EXCEPT !.range = SpanOf(r)] ELSE s

Zero == [op |-> VOLTAGE, amount |-> 0, best |-> TRUE]

(* The locals of no call at all. *)
NoCall == [at |-> "idle", req |-> Zero, span |-> SpanOf(Zero),
           code |-> CodeOf(Zero, SpanOf(Zero)), met |-> {}]

CommitInit ==
  /\ smu = [op |-> VOLTAGE, amount |-> 0, range |-> 2500]
  /\ chip = [next |-> 2500, span |-> 2500, code |-> CodeOf(Zero, 2500)]
  /\ call = NoCall

Idle == call.at = "idle"

-----------------------------------------------------------------------------
(* The call from the loop. *)

Begin(r) ==
  /\ Idle
  /\ smu' = Remember(smu, r)
  /\ call' = [NoCall EXCEPT !.at = "choose", !.req = r]
  /\ UNCHANGED chip

ChooseSpan ==
  /\ call.at = "choose"
  /\ smu' = SetRange(smu, call.req)
  /\ call' = [call EXCEPT !.at = "span", !.span = SpanOf(call.req)]
  /\ UNCHANGED chip

WriteSpan ==
  /\ call.at = "span"
  /\ chip' = [chip EXCEPT !.next = call.span]
  /\ call' = [call EXCEPT !.at = "convert"]
  /\ UNCHANGED smu

(* Mutant of Convert: for a current, too, the members are used. *)
ConvertsFromMembers ==
  /\ call.at = "convert"
  /\ call' = [call EXCEPT !.at = "code", !.code = CodeOf(call.req, smu.range)]
  /\ UNCHANGED <<smu, chip>>

(* For a voltage the code is made from the members, whoever set them last. *)
Convert ==
  /\ call.at = "convert"
  /\ call' = [call EXCEPT !.at = "code",
                !.code = CodeOf(call.req, IF call.req.op = VOLTAGE THEN smu.range ELSE call.span)]
  /\ UNCHANGED <<smu, chip>>

WriteCode ==
  /\ call.at = "code"
  /\ chip' = UpdateChip(chip, call.code)
  /\ call' = [NoCall EXCEPT !.met = call.met]
  /\ UNCHANGED smu

CallStep == ChooseSpan \/ WriteSpan \/ Convert \/ WriteCode

-----------------------------------------------------------------------------
(* Mutant of WholeCommit: the code is written before its span. *)
CodeBeforeSpan(r) ==
  /\ smu' = SetRange(Remember(smu, r), r)
  /\ chip' = [UpdateChip(chip, CodeOf(r, SpanOf(r))) EXCEPT !.next = SpanOf(r)]
  /\ call' = [call EXCEPT !.met = IF Idle THEN {} ELSE @ \cup {SpanOf(r)}]

(* A commit from the interrupt: nothing comes between its steps. *)
WholeCommit(r) ==
  /\ smu' = SetRange(Remember(smu, r), r)
  /\ chip' = UpdateChip([chip EXCEPT !.next = SpanOf(r)], CodeOf(r, SpanOf(r)))
  /\ call' = [call EXCEPT !.met = IF Idle THEN {} ELSE @ \cup {SpanOf(r)}]

CommitTypeOK ==
  /\ smu \in [op : Operations, amount : Amounts, range : Spans]
  /\ chip \in [next : Spans, span : Spans, code : Codes]
  /\ call \in [at : Steps, req : Requests, span : Spans, code : Codes, met : SUBSET Spans]

Amount(r) == [op |-> r.op, amount |-> r.amount]

(* What the panel shows as sourced, and what is. *)
Shown  == Amount(smu)
Source == Amount(chip.code)
Torn   == chip.code.span # chip.span

O == INSTANCE Output WITH
       Amounts  <- [op : Operations, amount : Amounts],
       Zero     <- Amount(Zero),
       ZeroSpan <- SpanOf(Zero),
       out      <- [amount |-> Source, torn |-> Torn],
       shown    <- Shown,
       call     <- [busy |-> ~Idle, amount |-> Amount(call.req), span |-> SpanOf(call.req),
                    met |-> call.met]
=============================================================================
