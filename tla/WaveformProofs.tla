--------------------------- MODULE WaveformProofs ---------------------------
(***************************************************************************)
(* Proofs about Waveforms, for all amounts, levels and bounds: what the    *)
(* channel gives is what Output promises, although the pulse timer may     *)
(* interrupt a commit between any two steps; a sweep comes back between its*)
(* bounds, and reaches both, each step nearer (SweepReaches).              *)
(*                                                                         *)
(* The argument: as long as all pulses that fell into a commit had its own *)
(* span, the DAC is still told that span, and the members the code is made *)
(* from still hold it.                                                     *)
(***************************************************************************)
EXTENDS Waveforms, TLAPS

(* No pulse of another span fell into the commit. *)
Undisturbed == call.met \subseteq {SpanOf(call.req)}

CommitInv ==
  /\ Idle => call.req = Zero
  /\ call.at \in {"span", "convert"} => call.span = SpanOf(call.req)
  /\ call.at \in {"span", "convert"} /\ call.req.op = VOLTAGE /\ Undisturbed =>
       smu.range = SpanOf(call.req)
  /\ call.at \in {"convert", "code"} /\ Undisturbed => chip.next = SpanOf(call.req)
  /\ call.at = "code" => Amount(call.code) = Amount(call.req)
  /\ call.at = "code" /\ Undisturbed => call.code.span = SpanOf(call.req)

(* What is shown is asked for, or sourced already. *)
ShownInv ==
  call.met = {} => /\ Idle  => Shown = Source /\ ~Torn
                   /\ ~Idle => Shown = Amount(call.req)

IInv == TypeOK /\ CommitInv /\ ShownInv

-----------------------------------------------------------------------------
(* Types. *)

LEMMA RequestTypes ==
  ASSUME NEW r \in Requests
  PROVE  /\ r.op \in Operations /\ r.amount \in Amounts
         /\ SpanOf(r) \in Spans
         /\ \A span \in Spans : CodeOf(r, span) \in Codes
<1>1. r.op \in Operations /\ r.amount \in Amounts
  BY DEF Requests, Operations
<1>2. SpanOf(r) \in Spans
  <2>1. CASE r.op = CURRENT
    BY <2>1 DEF SpanOf, Spans
  <2>2. CASE r.op # CURRENT
    BY <2>2 DEF SpanOf, Spans
  <2> QED
    BY <2>1, <2>2
<1>3. ASSUME NEW span \in Spans PROVE CodeOf(r, span) \in Codes
  BY <1>1 DEF CodeOf, Codes
<1> QED
  BY <1>1, <1>2, <1>3

LEMMA ZeroType == Zero \in Requests
BY AmountsAssumption DEF Zero, Requests, Operations

LEMMA PulseTypes ==
  ASSUME TypeOK
  PROVE  PulseRequest(pulse) \in Requests
<1>1. /\ pulse.op \in Operations /\ pulse.min \in Amounts /\ pulse.max \in Amounts
  BY LevelsAssumption DEF TypeOK
<1>2. Dynamic(pulse) \in BOOLEAN
  BY DEF Dynamic, Within
<1>3. CASE pulse.op = VOLTAGE
  BY <1>1, <1>2, <1>3 DEF PulseRequest, Requests
<1>4. CASE pulse.op = CURRENT
  BY <1>1, <1>4 DEF PulseRequest, Requests, VOLTAGE, CURRENT
<1> QED
  BY <1>1, <1>3, <1>4 DEF Operations

-----------------------------------------------------------------------------
(* The call from the loop. *)

LEMMA NoCallTypes ==
  NoCall \in [at : Steps, req : Requests, span : Spans, code : Codes, met : SUBSET Spans]
<1>1. Zero \in Requests /\ SpanOf(Zero) \in Spans /\ CodeOf(Zero, SpanOf(Zero)) \in Codes
  BY ZeroType, RequestTypes
<1> QED
  BY <1>1 DEF NoCall, Steps

LEMMA BeginKeeps ==
  ASSUME CommitTypeOK, NEW r \in Requests, Begin(r)
  PROVE  CommitTypeOK' /\ CommitInv' /\ ShownInv'
<1>1. smu' = Remember(smu, r) /\ chip' = chip
      /\ call' = [NoCall EXCEPT !.at = "choose", !.req = r]
  BY DEF Begin
<1>2. /\ call' \in [at : Steps, req : Requests, span : Spans, code : Codes, met : SUBSET Spans]
      /\ call'.at = "choose" /\ call'.req = r /\ call'.met = {}
  BY <1>1, NoCallTypes DEF Steps, NoCall
<1>3. smu' \in [op : Operations, amount : Amounts, range : Spans]
      /\ smu'.op = r.op /\ smu'.amount = r.amount
  BY <1>1, RequestTypes DEF Remember, CommitTypeOK
<1>4. CommitTypeOK'
  BY <1>1, <1>2, <1>3 DEF CommitTypeOK
<1>5. CommitInv'
  BY <1>2 DEF CommitInv, Idle
<1>6. ShownInv'
  BY <1>2, <1>3 DEF ShownInv, Idle, Shown, Amount
<1> QED
  BY <1>4, <1>5, <1>6

LEMMA CallStepKeeps ==
  ASSUME CommitTypeOK, CommitInv, ShownInv, CallStep
  PROVE  CommitTypeOK' /\ CommitInv' /\ ShownInv'
<1>1. /\ call.req \in Requests /\ SpanOf(call.req) \in Spans /\ call.req.op \in Operations
      /\ call.span \in Spans /\ smu.range \in Spans
      /\ \A span \in Spans : CodeOf(call.req, span) \in Codes
  BY RequestTypes DEF CommitTypeOK
<1>2. CASE ChooseSpan
  <2>1. /\ call.at = "choose" /\ chip' = chip /\ smu' = SetRange(smu, call.req)
        /\ call' = [call EXCEPT !.at = "span", !.span = SpanOf(call.req)]
    BY <1>2 DEF ChooseSpan
  <2>2. /\ call'.at = "span" /\ call'.span = SpanOf(call.req) /\ call'.req = call.req
        /\ call'.met = call.met
        /\ call' \in [at : Steps, req : Requests, span : Spans, code : Codes, met : SUBSET Spans]
    BY <1>1, <2>1 DEF CommitTypeOK, Steps
  <2>3. /\ smu' \in [op : Operations, amount : Amounts, range : Spans]
        /\ smu'.op = smu.op /\ smu'.amount = smu.amount
        /\ call.req.op = VOLTAGE => smu'.range = SpanOf(call.req)
    BY <1>1, <2>1 DEF CommitTypeOK, SetRange
  <2>4. CommitTypeOK'
    BY <2>1, <2>2, <2>3 DEF CommitTypeOK
  <2>5. CommitInv'
    BY <2>2, <2>3 DEF CommitInv, Idle
  <2>6. ShownInv'
    BY <2>1, <2>2, <2>3 DEF ShownInv, Idle, Shown, Amount
  <2> QED
    BY <2>4, <2>5, <2>6
<1>3. CASE WriteSpan
  <2>1. /\ call.at = "span" /\ smu' = smu /\ chip' = [chip EXCEPT !.next = call.span]
        /\ call' = [call EXCEPT !.at = "convert"]
    BY <1>3 DEF WriteSpan
  <2>2. /\ call'.at = "convert" /\ call'.span = call.span /\ call'.req = call.req
        /\ call'.met = call.met
        /\ call' \in [at : Steps, req : Requests, span : Spans, code : Codes, met : SUBSET Spans]
    BY <1>1, <2>1 DEF CommitTypeOK, Steps
  <2>3. /\ chip' \in [next : Spans, span : Spans, code : Codes] /\ chip'.next = call.span
    BY <1>1, <2>1 DEF CommitTypeOK
  <2>4. CommitTypeOK'
    BY <2>1, <2>2, <2>3 DEF CommitTypeOK
  <2>5. CommitInv'
    BY <2>1, <2>2, <2>3 DEF CommitInv, Idle, Undisturbed
  <2>6. ShownInv'
    BY <2>1, <2>2 DEF ShownInv, Idle, Shown, Amount
  <2> QED
    BY <2>4, <2>5, <2>6
<1>4. CASE Convert
  <2> DEFINE span == IF call.req.op = VOLTAGE THEN smu.range ELSE call.span
             code == CodeOf(call.req, span)
  <2>1. /\ call.at = "convert" /\ smu' = smu /\ chip' = chip
        /\ call' = [call EXCEPT !.at = "code", !.code = code]
    BY <1>4 DEF Convert
  <2>2. span \in Spans /\ code \in Codes /\ code.span = span /\ Amount(code) = Amount(call.req)
    BY <1>1 DEF CodeOf, Amount
  <2>3. Undisturbed => span = SpanOf(call.req)
    BY <2>1 DEF CommitInv
  <2> HIDE DEF code, span
  <2>4. /\ call'.at = "code" /\ call'.code = code /\ call'.req = call.req /\ call'.met = call.met
        /\ call' \in [at : Steps, req : Requests, span : Spans, code : Codes, met : SUBSET Spans]
    BY <1>1, <2>1, <2>2 DEF CommitTypeOK, Steps
  <2>5. CommitTypeOK'
    BY <2>1, <2>4 DEF CommitTypeOK
  <2>6. CommitInv'
    BY <2>1, <2>2, <2>3, <2>4 DEF CommitInv, Idle, Undisturbed
  <2>7. ShownInv'
    BY <2>1, <2>4 DEF ShownInv, Idle, Shown, Amount
  <2> QED
    BY <2>5, <2>6, <2>7
<1>5. CASE WriteCode
  <2>1. /\ call.at = "code" /\ smu' = smu /\ chip' = UpdateChip(chip, call.code)
        /\ call' = [NoCall EXCEPT !.met = call.met]
    BY <1>5 DEF WriteCode
  <2>2. /\ call'.at = "idle" /\ call'.req = Zero /\ call'.met = call.met
        /\ call' \in [at : Steps, req : Requests, span : Spans, code : Codes, met : SUBSET Spans]
    BY <2>1, NoCallTypes DEF CommitTypeOK, NoCall
  <2>3. /\ chip' \in [next : Spans, span : Spans, code : Codes]
        /\ chip'.code = call.code /\ chip'.span = chip.next
    BY <2>1 DEF CommitTypeOK, UpdateChip
  <2>4. CommitTypeOK'
    BY <2>1, <2>2, <2>3 DEF CommitTypeOK
  <2>5. CommitInv'
    BY <2>2 DEF CommitInv, Idle
  <2>6. ASSUME call.met = {} PROVE Shown' = Source' /\ ~Torn'
    <3>1. Undisturbed /\ Shown = Amount(call.req)
      BY <2>1, <2>6 DEF Undisturbed, ShownInv, Idle
    <3>2. Amount(call.code) = Amount(call.req) /\ call.code.span = chip.next
      BY <2>1, <3>1 DEF CommitInv
    <3> QED
      BY <2>1, <2>3, <3>1, <3>2 DEF Shown, Source, Torn, Amount
  <2>7. ShownInv'
    BY <2>2, <2>6 DEF ShownInv, Idle
  <2> QED
    BY <2>4, <2>5, <2>7
<1> QED
  BY <1>2, <1>3, <1>4, <1>5 DEF CallStep

(* The interrupt. *)
LEMMA WholeCommitKeeps ==
  ASSUME CommitTypeOK, CommitInv, ShownInv, NEW r \in Requests, WholeCommit(r)
  PROVE  CommitTypeOK' /\ CommitInv' /\ ShownInv'
<1> DEFINE met == IF Idle THEN {} ELSE call.met \cup {SpanOf(r)}
<1>1. /\ smu' = SetRange(Remember(smu, r), r)
      /\ chip' = UpdateChip([chip EXCEPT !.next = SpanOf(r)], CodeOf(r, SpanOf(r)))
      /\ call' = [call EXCEPT !.met = met]
  BY DEF WholeCommit
<1>2. /\ r.op \in Operations /\ r.amount \in Amounts /\ SpanOf(r) \in Spans
      /\ CodeOf(r, SpanOf(r)) \in Codes
  BY RequestTypes
<1>3. met \in SUBSET Spans
  BY <1>2 DEF CommitTypeOK
<1>4. /\ smu' \in [op : Operations, amount : Amounts, range : Spans]
      /\ smu'.op = r.op /\ smu'.amount = r.amount
      /\ smu'.range = IF r.op = VOLTAGE THEN SpanOf(r) ELSE smu.range
  BY <1>1, <1>2 DEF SetRange, Remember, CommitTypeOK
<1>5. /\ chip' \in [next : Spans, span : Spans, code : Codes]
      /\ chip'.next = SpanOf(r) /\ chip'.span = SpanOf(r) /\ chip'.code = CodeOf(r, SpanOf(r))
  BY <1>1, <1>2 DEF UpdateChip, CommitTypeOK
<1>6. met = {} <=> Idle
  OBVIOUS
<1>7. ~Idle /\ met \subseteq {SpanOf(call.req)} =>
        call.met \subseteq {SpanOf(call.req)} /\ SpanOf(r) = SpanOf(call.req)
  OBVIOUS
<1> HIDE DEF met
<1>8. /\ call' \in [at : Steps, req : Requests, span : Spans, code : Codes, met : SUBSET Spans]
      /\ call'.at = call.at /\ call'.req = call.req /\ call'.span = call.span
      /\ call'.code = call.code /\ call'.met = met
  BY <1>1, <1>3 DEF CommitTypeOK
<1>9. CommitTypeOK'
  BY <1>4, <1>5, <1>8 DEF CommitTypeOK
<1>10. CommitInv'
  <2>1. Undisturbed' /\ ~Idle => Undisturbed /\ SpanOf(r) = SpanOf(call.req)
    BY <1>7, <1>8 DEF Undisturbed
  <2>2. Idle' <=> Idle
    BY <1>8 DEF Idle
  <2> QED
    BY <1>4, <1>5, <1>8, <2>1, <2>2 DEF CommitInv, Idle
<1>11. ShownInv'
  <2>1. Idle' => Shown' = Source' /\ ~Torn'
    BY <1>4, <1>5, <1>8 DEF Idle, Shown, Source, Torn, Amount, CodeOf
  <2>2. call'.met = {} => Idle'
    BY <1>6, <1>8 DEF Idle
  <2> QED
    BY <2>1, <2>2 DEF ShownInv
<1> QED
  BY <1>9, <1>10, <1>11

-----------------------------------------------------------------------------
(* The rest of the state, and the invariant. *)

WaveTypeOK ==
  /\ functionType \in {PULSE, SWEEP, OTHERS}
  /\ pulse \in [on : BOOLEAN, op : Operations, pulseHigh : BOOLEAN, min : Levels, max : Levels]
  /\ sweep \in [value : Amounts, dir : {-1, 1}, step : SweepSteps, high : SweepHighs, low : Int]
  /\ sweep.low = -sweep.high

LEMMA TypeParts == TypeOK <=> CommitTypeOK /\ WaveTypeOK
BY DEF TypeOK, WaveTypeOK

LEMMA InitIInv == Init => IInv
<1> SUFFICES ASSUME Init PROVE IInv
  OBVIOUS
<1>1. /\ smu = [op |-> VOLTAGE, amount |-> 0, range |-> 2500]
      /\ chip = [next |-> 2500, span |-> 2500, code |-> CodeOf(Zero, 2500)]
      /\ call = NoCall
  BY DEF Init, CommitInit
<1>2. CodeOf(Zero, 2500) \in Codes
  BY ZeroType, RequestTypes DEF Spans
<1>3. CommitTypeOK
  BY <1>1, <1>2, NoCallTypes, AmountsAssumption DEF CommitTypeOK, Operations, Spans
<1>4. WaveTypeOK
  <2>1. /\ LowLevel[VOLTAGE] \in Levels /\ HighLevel[VOLTAGE] \in Levels
    BY LevelsAssumption DEF Operations
  <2>2. functionType \in {PULSE, SWEEP, OTHERS}
    BY DEF Init
  <2>3. pulse \in [on : BOOLEAN, op : Operations, pulseHigh : BOOLEAN, min : Levels, max : Levels]
    BY <2>1 DEF Init, Operations
  <2>4. sweep \in [value : Amounts, dir : {-1, 1}, step : SweepSteps, high : SweepHighs, low : Int]
        /\ sweep.low = -sweep.high
    BY AmountsAssumption, SweepAssumption, UnitsAssumption DEF Init
  <2> QED
    BY <2>2, <2>3, <2>4 DEF WaveTypeOK
<1>5. call.at = "idle" /\ call.req = Zero
  BY <1>1 DEF NoCall
<1>6. CommitInv
  BY <1>5 DEF CommitInv, Idle
<1>7. ShownInv
  BY <1>1, <1>5 DEF ShownInv, Idle, Shown, Source, Torn, Amount, CodeOf, Zero
<1> QED
  BY <1>3, <1>4, <1>6, <1>7, TypeParts DEF IInv

(* A step that leaves the commit alone. *)
LEMMA OthersKeep ==
  ASSUME IInv, UNCHANGED <<smu, chip, call>>
  PROVE  CommitTypeOK' /\ CommitInv' /\ ShownInv'
<1>1. CommitTypeOK'
  BY TypeParts DEF IInv, CommitTypeOK
<1>2. CommitInv'
  BY DEF IInv, CommitInv, Idle, Undisturbed
<1>3. ShownInv'
  BY DEF IInv, ShownInv, Idle, Shown, Source, Torn
<1> QED
  BY <1>1, <1>2, <1>3

(* The sweep. *)
LEMMA TurnTypes ==
  ASSUME WaveTypeOK
  PROVE  /\ Turn(sweep) = [sweep EXCEPT !.dir = Turn(sweep).dir]
         /\ Turn(sweep).dir \in {-1, 1}
         /\ Stepped(sweep).value = sweep.value + sweep.step * Turn(sweep).dir
         /\ Stepped(sweep).dir = Turn(sweep).dir
         /\ Stepped(sweep) = [sweep EXCEPT !.dir = Stepped(sweep).dir,
                                           !.value = Stepped(sweep).value]
<1>1. sweep \in [value : Amounts, dir : {-1, 1}, step : SweepSteps, high : SweepHighs, low : Int]
  BY DEF WaveTypeOK
<1> HIDE DEF WaveTypeOK
<1>2. /\ Turn(sweep) = [sweep EXCEPT !.dir = Turn(sweep).dir]
      /\ Turn(sweep).dir \in {-1, 1}
  BY <1>1 DEF Turn
<1>3. Stepped(sweep) = [Turn(sweep) EXCEPT !.value = sweep.value + sweep.step * Turn(sweep).dir]
  BY <1>1, <1>2 DEF Stepped
<1> QED
  BY <1>1, <1>2, <1>3

LEMMA SettingsKeep ==
  ASSUME WaveTypeOK, NEW s, SweepSettings(s),
         s \in [value : Amounts, dir : {-1, 1}, step : Int, high : Int, low : Int],
         s.low = -s.high
  PROVE  WaveTypeOK' /\ UNCHANGED <<smu, chip, call>>
BY DEF WaveTypeOK, SweepSettings

LEMMA SweepButtonKeeps ==
  ASSUME WaveTypeOK, SweepButton
  PROVE  WaveTypeOK' /\ UNCHANGED <<smu, chip, call>>
<1> DEFINE S == [value : Amounts, dir : {-1, 1}, step : Int, high : Int, low : Int]
<1>1. /\ sweep \in S
      /\ sweep.low = -sweep.high
      /\ StepUnit \in Int /\ BoundUnit \in Int
  BY SweepAssumption, UnitsAssumption DEF WaveTypeOK
<1>2. CASE ChangeStep
  <2>1. PICK d \in {StepUnit, -StepUnit} : SweepSettings([sweep EXCEPT !.step = @ + d])
    BY <1>2 DEF ChangeStep
  <2>2. /\ [sweep EXCEPT !.step = @ + d] \in S
        /\ [sweep EXCEPT !.step = @ + d].low = -[sweep EXCEPT !.step = @ + d].high
    BY <1>1
  <2> QED
    BY <2>1, <2>2, SettingsKeep
<1>3. CASE ChangeBounds
  <2>1. PICK d \in {BoundUnit, -BoundUnit} :
          SweepSettings([sweep EXCEPT !.high = @ + d, !.low = @ - d])
    BY <1>3 DEF ChangeBounds
  <2> DEFINE moved == [sweep EXCEPT !.high = @ + d, !.low = @ - d]
  <2>2. d \in Int /\ sweep.high \in Int /\ sweep.low \in Int
    BY <1>1
  <2>3. moved \in S /\ moved.high = sweep.high + d /\ moved.low = sweep.low - d
    <3> DEFINE h == sweep.high + d
               l == sweep.low - d
    <3>1. h \in Int /\ l \in Int
      BY <2>2
    <3> HIDE DEF h, l
    <3>2. [sweep EXCEPT !.high = h, !.low = l] \in S
      BY <1>1, <3>1
    <3>3. [sweep EXCEPT !.high = h, !.low = l].high = h /\ [sweep EXCEPT !.high = h, !.low = l].low = l
      BY <1>1
    <3> QED
      BY <3>2, <3>3 DEF h, l
  <2> HIDE DEF moved
  <2>4. moved.low = -moved.high
    BY <1>1, <2>2, <2>3
  <2>5. SweepSettings(moved)
    BY <2>1 DEF moved
  <2> QED
    BY <2>3, <2>4, <2>5, SettingsKeep
<1>4. CASE Clear
  <2>1. SweepSettings([sweep EXCEPT !.value = 0, !.dir = 1])
    BY <1>4 DEF Clear
  <2>2. /\ [sweep EXCEPT !.value = 0, !.dir = 1] \in S
        /\ [sweep EXCEPT !.value = 0, !.dir = 1].low = -[sweep EXCEPT !.value = 0, !.dir = 1].high
    BY <1>1, AmountsAssumption
  <2> QED
    BY <2>1, <2>2, SettingsKeep
<1> QED
  BY <1>2, <1>3, <1>4 DEF SweepButton

LEMMA StepIInv == IInv /\ [Next]_vars => IInv'
<1> SUFFICES ASSUME IInv, [Next]_vars PROVE IInv'
  OBVIOUS
<1> USE TypeParts
<1>1. CommitTypeOK /\ WaveTypeOK /\ CommitInv /\ ShownInv
  BY DEF IInv
<1>2. SUFFICES /\ CommitTypeOK' /\ CommitInv' /\ ShownInv'
               /\ WaveTypeOK'
  BY DEF IInv, TypeOK, WaveTypeOK
<1>3. ASSUME NEW f \in {PULSE, SWEEP, OTHERS}, Select(f)
      PROVE  CommitTypeOK' /\ CommitInv' /\ ShownInv' /\ WaveTypeOK'
  <2>1. UNCHANGED <<smu, chip, call>> /\ UNCHANGED sweep /\ functionType' = f
    BY <1>3 DEF Select
  <2>2. ASSUME NEW op \in Operations
        PROVE  Opened(op) \in [on : BOOLEAN, op : Operations, pulseHigh : BOOLEAN,
                               min : Levels, max : Levels]
    <3>1. LowLevel[op] \in Levels /\ HighLevel[op] \in Levels
      BY LevelsAssumption
    <3>2. CASE op = CURRENT
      BY <1>1, <3>1, <3>2 DEF Opened, WaveTypeOK
    <3>3. CASE op # CURRENT
      BY <1>1, <3>3 DEF Opened, WaveTypeOK
    <3> QED
      BY <3>2, <3>3
  <2>3. Leave \in [on : BOOLEAN, op : Operations, pulseHigh : BOOLEAN,
                   min : Levels, max : Levels]
    BY <1>1 DEF Leave, WaveTypeOK
  <2>4. pulse' \in [on : BOOLEAN, op : Operations, pulseHigh : BOOLEAN,
                    min : Levels, max : Levels]
    <3>1. CASE f = PULSE
      BY <1>3, <2>2, <3>1 DEF Select
    <3>2. CASE f # PULSE
      BY <1>3, <2>3, <3>2 DEF Select
    <3> QED
      BY <3>1, <3>2
  <2>5. WaveTypeOK'
    BY <1>1, <2>1, <2>4 DEF WaveTypeOK
  <2> QED
    BY <2>1, <2>5, OthersKeep
<1>4. ASSUME NEW r \in Requests, SourceAmount(r)
      PROVE  CommitTypeOK' /\ CommitInv' /\ ShownInv' /\ WaveTypeOK'
  <2>1. Begin(r)
    BY <1>4 DEF SourceAmount
  <2>2. WaveTypeOK'
    BY <1>1, <1>4 DEF SourceAmount, WaveTypeOK
  <2> QED
    BY <1>1, <2>1, <2>2, BeginKeeps
<1>5. CASE Continue
  <2>1. CallStep
    BY <1>5 DEF Continue
  <2>2. WaveTypeOK'
    BY <1>1, <1>5 DEF Continue, WaveTypeOK
  <2> QED
    BY <1>1, <2>1, <2>2, CallStepKeeps
<1>6. CASE SourcePulse
  <2>1. PulseRequest(pulse) \in Requests /\ WholeCommit(PulseRequest(pulse))
    BY <1>1, <1>6, PulseTypes DEF SourcePulse
  <2>2. WaveTypeOK'
    BY <1>1, <1>6 DEF SourcePulse, WaveTypeOK
  <2> QED
    BY <1>1, <2>1, <2>2, WholeCommitKeeps
<1>7. ASSUME NEW a \in Levels, SetLevel(a)
      PROVE  CommitTypeOK' /\ CommitInv' /\ ShownInv' /\ WaveTypeOK'
  <2>1. UNCHANGED <<smu, chip, call>> /\ UNCHANGED <<functionType, sweep>>
    BY <1>7 DEF SetLevel
  <2>2. WaveTypeOK'
    BY <1>1, <1>7, <2>1 DEF SetLevel, WaveTypeOK
  <2> QED
    BY <2>1, <2>2, OthersKeep
<1>8. CASE SweepStep
  <2> DEFINE r == [op |-> VOLTAGE, amount |-> sweep'.value, best |-> TRUE]
  <2>1. /\ Stepped(sweep).value \in Amounts /\ sweep' = Stepped(sweep)
        /\ Begin(r) /\ UNCHANGED <<functionType, pulse>>
    BY <1>8 DEF SweepStep
  <2>2. r \in Requests
    BY <2>1 DEF Requests
  <2> HIDE DEF r
  <2>3. /\ Stepped(sweep) = [sweep EXCEPT !.dir = Stepped(sweep).dir,
                                          !.value = Stepped(sweep).value]
        /\ Stepped(sweep).dir \in {-1, 1}
    BY <1>1, TurnTypes
  <2>4. /\ sweep' \in [value : Amounts, dir : {-1, 1}, step : SweepSteps,
                       high : SweepHighs, low : Int]
        /\ sweep'.low = -sweep'.high
    BY <1>1, <2>1, <2>3 DEF WaveTypeOK
  <2>5. WaveTypeOK'
    BY <1>1, <2>1, <2>4 DEF WaveTypeOK
  <2> QED
    BY <1>1, <2>1, <2>2, <2>5, BeginKeeps
<1>9. CASE SweepButton
  BY <1>1, <1>9, SweepButtonKeeps, OthersKeep
<1>10. CASE UNCHANGED vars
  <2>1. WaveTypeOK'
    BY <1>1, <1>10 DEF vars, WaveTypeOK
  <2> QED
    BY <1>10, <2>1, OthersKeep DEF vars
<1> QED
  BY <1>3, <1>4, <1>5, <1>6, <1>7, <1>8, <1>9, <1>10 DEF Next

(* The invariant of the whole proof. *)
THEOREM Inductive == FairSpec => []IInv
BY InitIInv, StepIInv, PTL DEF FairSpec, Spec

(* All state keeps its type: so the span told to the DAC and the span of   *)
(* every code are spans there are, and the bounds of a sweep mirror.       *)
THEOREM TypeCorrect == FairSpec => []TypeOK
<1>1. IInv => TypeOK
  BY DEF IInv
<1> QED
  BY <1>1, Inductive, PTL

(* What the panel shows is sourced, in a code of the span in use, unless a *)
(* pulse fell into the last commit of the loop.                            *)
THEOREM ShownTruthful == FairSpec => []ShownIsOutput
<1>1. IInv => ShownIsOutput
  BY DEF IInv, ShownInv, ShownIsOutput
<1> QED
  BY <1>1, Inductive, PTL

-----------------------------------------------------------------------------
(* The output is what Output promises. *)

LEMMA InitImplements == Init => O!Init
<1> SUFFICES ASSUME Init PROVE O!Init
  OBVIOUS
<1>1. /\ smu = [op |-> VOLTAGE, amount |-> 0, range |-> 2500]
      /\ chip = [next |-> 2500, span |-> 2500, code |-> CodeOf(Zero, 2500)]
      /\ call = NoCall
  BY DEF Init, CommitInit
<1>2. Shown = Amount(Zero) /\ Source = Amount(Zero)
  BY <1>1 DEF Shown, Source, Amount, CodeOf, Zero
<1>3. Torn = FALSE
  BY <1>1 DEF Torn, CodeOf
<1>4. (~Idle) = FALSE /\ call.req = Zero /\ call.met = {}
  BY <1>1 DEF Idle, NoCall
<1> QED
  BY <1>2, <1>3, <1>4 DEF O!Init, O!Whole, O!NoCall

LEMMA BeginImplements ==
  ASSUME CommitTypeOK, NEW r \in Requests, Begin(r)
  PROVE  O!Next
<1>1. /\ Idle /\ smu' = Remember(smu, r) /\ chip' = chip
      /\ call' = [NoCall EXCEPT !.at = "choose", !.req = r]
  BY DEF Begin
<1>2. call'.at = "choose" /\ call'.req = r /\ call'.met = {}
  BY <1>1 DEF NoCall
<1>3. (~Idle') = TRUE /\ (~Idle) = FALSE
  BY <1>1, <1>2 DEF Idle
<1>4. Shown' = Amount(r) /\ Source' = Source /\ Torn' = Torn
  BY <1>1 DEF CommitTypeOK, Shown, Amount, Remember, Source, Torn
<1>5. O!Begin(Amount(r), SpanOf(r))
  BY <1>2, <1>3, <1>4 DEF O!Begin
<1>6. Amount(r) \in [op : Operations, amount : Amounts] /\ SpanOf(r) \in Spans
  BY RequestTypes DEF Amount
<1> QED
  BY <1>5, <1>6 DEF O!Next

LEMMA WholeCommitImplements ==
  ASSUME CommitTypeOK, NEW r \in Requests, WholeCommit(r)
  PROVE  O!Next
<1>1. /\ smu' = SetRange(Remember(smu, r), r)
      /\ chip' = UpdateChip([chip EXCEPT !.next = SpanOf(r)], CodeOf(r, SpanOf(r)))
      /\ call' = [call EXCEPT !.met = IF Idle THEN {} ELSE call.met \cup {SpanOf(r)}]
  BY DEF WholeCommit
<1>2. /\ call'.at = call.at /\ call'.req = call.req
      /\ call'.met = IF Idle THEN {} ELSE call.met \cup {SpanOf(r)}
  BY <1>1 DEF CommitTypeOK
<1>3. (~Idle') = (~Idle)
  BY <1>2 DEF Idle
<1>4. Shown' = Amount(r)
  BY <1>1 DEF CommitTypeOK, Shown, Amount, Remember, SetRange
<1>5. Source' = Amount(r) /\ Torn' = FALSE
  BY <1>1 DEF CommitTypeOK, Source, Torn, Amount, UpdateChip, CodeOf
<1>6. [busy |-> ~Idle', amount |-> Amount(call'.req), span |-> SpanOf(call'.req), met |-> call'.met]
      = [[busy |-> ~Idle, amount |-> Amount(call.req), span |-> SpanOf(call.req), met |-> call.met]
           EXCEPT !.met = IF ~Idle THEN call.met \cup {SpanOf(r)} ELSE {}]
  BY <1>2, <1>3
<1>7. O!Pulse(Amount(r), SpanOf(r))
  BY <1>4, <1>5, <1>6 DEF O!Pulse, O!Whole
<1>8. Amount(r) \in [op : Operations, amount : Amounts] /\ SpanOf(r) \in Spans
  BY RequestTypes DEF Amount
<1> QED
  BY <1>7, <1>8 DEF O!Next

LEMMA WriteCodeImplements ==
  ASSUME CommitTypeOK, CommitInv, WriteCode
  PROVE  O!Next
<1>1. /\ call.at = "code" /\ smu' = smu /\ chip' = UpdateChip(chip, call.code)
      /\ call' = [NoCall EXCEPT !.met = call.met]
  BY DEF WriteCode
<1>2. call'.at = "idle" /\ call'.req = Zero /\ call'.met = call.met
  BY <1>1 DEF NoCall
<1>3. (~Idle') = FALSE /\ (~Idle) = TRUE
  BY <1>1, <1>2 DEF Idle
<1>4. chip'.code = call.code /\ chip'.span = chip.next
  BY <1>1 DEF CommitTypeOK, UpdateChip
<1>5. Source' = Amount(call.req) /\ Shown' = Shown
  BY <1>1, <1>4 DEF CommitInv, Source, Shown, Amount
<1>6. ASSUME Torn' PROVE call.met \ {SpanOf(call.req)} # {}
  <2>1. ~(call.met \subseteq {SpanOf(call.req)})
    BY <1>1, <1>4, <1>6 DEF CommitInv, Undisturbed, Torn
  <2> QED
    BY <2>1
<1>7. Torn' \in BOOLEAN
  BY DEF Torn
<1>8. O!End
  <2>1. [busy |-> ~Idle', amount |-> Amount(call'.req), span |-> SpanOf(call'.req), met |-> call'.met]
        = O!NoCall(call.met)
    BY <1>2, <1>3 DEF O!NoCall
  <2>2. [amount |-> Source', torn |-> Torn'] = [amount |-> Amount(call.req), torn |-> Torn']
    BY <1>5
  <2>3. \E torn \in BOOLEAN : /\ torn => call.met \ {SpanOf(call.req)} # {}
                             /\ [amount |-> Source', torn |-> Torn']
                                  = [amount |-> Amount(call.req), torn |-> torn]
    BY <1>6, <1>7, <2>2
  <2> QED
    BY <1>3, <1>5, <2>1, <2>3 DEF O!End
<1> QED
  BY <1>8 DEF O!Next

(* Steps that neither remember an amount nor write a code. *)
LEMMA Stutters ==
  ASSUME smu'.op = smu.op, smu'.amount = smu.amount,
         chip'.code = chip.code, chip'.span = chip.span,
         call'.req = call.req, call'.met = call.met, Idle' <=> Idle
  PROVE  UNCHANGED O!vars
<1>1. (~Idle') = (~Idle)
  OBVIOUS
<1>2. Shown' = Shown /\ Source' = Source /\ Torn' = Torn
  BY DEF Shown, Source, Amount, Torn
<1> QED
  BY <1>1, <1>2 DEF O!vars

LEMMA CallStepImplements ==
  ASSUME CommitTypeOK, CommitInv, CallStep
  PROVE  [O!Next]_(O!vars)
<1>1. CASE ChooseSpan
  <2>1. /\ call.at = "choose" /\ chip' = chip /\ smu' = SetRange(smu, call.req)
        /\ call' = [call EXCEPT !.at = "span", !.span = SpanOf(call.req)]
    BY <1>1 DEF ChooseSpan
  <2>2. call'.at = "span" /\ call'.req = call.req /\ call'.met = call.met
    BY <2>1 DEF CommitTypeOK
  <2>3. smu'.op = smu.op /\ smu'.amount = smu.amount
    BY <2>1 DEF SetRange, CommitTypeOK
  <2>4. Idle' <=> Idle
    BY <2>1, <2>2 DEF Idle
  <2> QED
    BY <2>1, <2>2, <2>3, <2>4, Stutters
<1>2. CASE WriteSpan
  <2>1. /\ call.at = "span" /\ smu' = smu /\ chip' = [chip EXCEPT !.next = call.span]
        /\ call' = [call EXCEPT !.at = "convert"]
    BY <1>2 DEF WriteSpan
  <2>2. call'.at = "convert" /\ call'.req = call.req /\ call'.met = call.met
    BY <2>1 DEF CommitTypeOK
  <2>3. chip'.code = chip.code /\ chip'.span = chip.span
    BY <2>1 DEF CommitTypeOK
  <2>4. Idle' <=> Idle
    BY <2>1, <2>2 DEF Idle
  <2> QED
    BY <2>1, <2>2, <2>3, <2>4, Stutters
<1>3. CASE Convert
  <2>1. /\ call.at = "convert" /\ smu' = smu /\ chip' = chip
        /\ call' = [call EXCEPT !.at = "code", !.code = CodeOf(call.req,
                      IF call.req.op = VOLTAGE THEN smu.range ELSE call.span)]
    BY <1>3 DEF Convert
  <2>2. call'.at = "code" /\ call'.req = call.req /\ call'.met = call.met
    BY <2>1 DEF CommitTypeOK
  <2>3. Idle' <=> Idle
    BY <2>1, <2>2 DEF Idle
  <2> QED
    BY <2>1, <2>2, <2>3, Stutters
<1>4. CASE WriteCode
  BY <1>4, WriteCodeImplements
<1> QED
  BY <1>1, <1>2, <1>3, <1>4 DEF CallStep

LEMMA StepImplements == IInv /\ [Next]_vars => [O!Next]_(O!vars)
<1> SUFFICES ASSUME IInv, [Next]_vars PROVE [O!Next]_(O!vars)
  OBVIOUS
<1>1. TypeOK /\ CommitTypeOK /\ CommitInv
  BY TypeParts DEF IInv
<1>2. ASSUME UNCHANGED <<smu, chip, call>> PROVE UNCHANGED O!vars
  <2>1. Idle' <=> Idle
    BY <1>2 DEF Idle
  <2> QED
    BY <1>2, <2>1, Stutters
<1>3. ASSUME NEW f \in {PULSE, SWEEP, OTHERS}, Select(f) PROVE UNCHANGED O!vars
  BY <1>2, <1>3 DEF Select
<1>4. ASSUME NEW r \in Requests, SourceAmount(r) PROVE O!Next
  BY <1>1, <1>4, BeginImplements DEF SourceAmount
<1>5. CASE Continue
  BY <1>1, <1>5, CallStepImplements DEF Continue
<1>6. CASE SourcePulse
  BY <1>1, <1>6, PulseTypes, WholeCommitImplements DEF SourcePulse
<1>7. ASSUME NEW a \in Levels, SetLevel(a) PROVE UNCHANGED O!vars
  BY <1>2, <1>7 DEF SetLevel
<1>8. CASE SweepStep
  <2> DEFINE r == [op |-> VOLTAGE, amount |-> sweep'.value, best |-> TRUE]
  <2>1. Begin(r) /\ sweep'.value \in Amounts
    BY <1>8 DEF SweepStep
  <2>2. r \in Requests
    BY <2>1 DEF Requests
  <2> HIDE DEF r
  <2> QED
    BY <1>1, <2>1, <2>2, BeginImplements
<1>9. CASE SweepButton
  BY <1>2, <1>9 DEF SweepButton, ChangeStep, ChangeBounds, Clear, SweepSettings
<1>10. CASE UNCHANGED vars
  BY <1>2, <1>10 DEF vars
<1> QED
  BY <1>3, <1>4, <1>5, <1>6, <1>7, <1>8, <1>9, <1>10 DEF Next

(* However pulses fall into a commit of the loop, the output is what one   *)
(* of them asked for; but after pulses of another span, until the next.    *)
THEOREM OutputKept == FairSpec => OutputImplemented
<1>1. Spec => O!Spec
  BY InitImplements, StepImplements, InitIInv, StepIInv, PTL DEF Spec, O!Spec
<1> QED
  BY <1>1, PTL DEF FairSpec, OutputImplemented

-----------------------------------------------------------------------------
(* A sweep of positive steps between bounds in order comes back from any   *)
(* place, to within a step of its bounds, and stays there.                 *)
LEMMA StepComesBack ==
  ASSUME WaveTypeOK, SweepStep, SaneSweep
  PROVE  LET shorter == Beyond(sweep) - sweep.step
         IN  Beyond(sweep') <= IF shorter > 0 THEN shorter ELSE 0
<1> DEFINE v == sweep.value
           s == sweep.step
           h == sweep.high
           d == Turn(sweep).dir
           B(x) == IF x - (h + s) > 0 THEN x - (h + s) ELSE IF (-h - s) - x > 0 THEN (-h - s) - x ELSE 0
<1>1. v \in Int /\ s \in Int /\ h \in Int /\ s > 0 /\ h >= 0 /\ sweep.low = -h
  BY AmountsAssumption, SweepAssumption DEF WaveTypeOK, SaneSweep
<1>2. /\ sweep'.value = v + s * d /\ sweep'.step = s /\ sweep'.high = h /\ sweep'.low = -h
      /\ d \in {-1, 1}
  BY TurnTypes, <1>1 DEF SweepStep, WaveTypeOK
<1>3. (d = 1 => v <= h) /\ (d = -1 => v >= -h)
  <2>1. sweep.dir \in {-1, 1}
    BY DEF WaveTypeOK
  <2> QED
    BY <1>1, <2>1 DEF Turn, WaveTypeOK
<1>4. /\ Beyond(sweep) = B(v) /\ Beyond(sweep') = B(v + s * d)
  BY <1>1, <1>2 DEF Beyond
<1> HIDE DEF d, v, s, h
<1>5. CASE d = 1
  <2>1. v + s * d = v + s
    BY <1>1, <1>5
  <2>2. v <= h
    BY <1>1, <1>3, <1>5
  <2>3. B(v + s) <= IF B(v) - s > 0 THEN B(v) - s ELSE 0
    BY <1>1, <2>2
  <2> QED
    BY <1>4, <2>1, <2>3 DEF s
<1>6. CASE d = -1
  <2>1. v + s * d = v - s
    BY <1>1, <1>6
  <2>2. v >= -h
    BY <1>1, <1>3, <1>6
  <2>3. B(v - s) <= IF B(v) - s > 0 THEN B(v) - s ELSE 0
    BY <1>1, <2>2
  <2> QED
    BY <1>4, <2>1, <2>3 DEF s
<1> QED
  BY <1>2, <1>5, <1>6

THEOREM SweepReturns == FairSpec => SweepComesBack
<1>1. IInv /\ [Next]_vars =>
        [SweepStep /\ SaneSweep =>
           LET shorter == Beyond(sweep) - sweep.step
           IN  Beyond(sweep') <= IF shorter > 0 THEN shorter ELSE 0]_vars
  BY StepComesBack, TypeParts DEF IInv
<1> QED
  BY <1>1, InitIInv, StepIInv, PTL DEF FairSpec, Spec, SweepComesBack

-----------------------------------------------------------------------------
(* What a step does towards a bound.  SweepsOn needs the sweep to step     *)
(* again and again; this is why it need not step for long.                 *)

(* How far the value still goes up and down before it is at the bound      *)
(* called high, at most: to the bound itself when it is on the way there,  *)
(* else to the other one, a step or two too far, and back.                 *)
Way(value, dir, low, high, step) ==
  IF dir = 1 THEN high - value
  ELSE (high - low) + IF value > low THEN (value - low) + 2 * step ELSE low - value

WayUp(s)   == Way(s.value, s.dir, s.low, s.high, s.step)
WayDown(s) == Way(-s.value, -s.dir, -s.high, -s.low, s.step)

(* Each step takes at least a step off the way to either bound.            *)
ComesNearer ==
  [][SweepStep /\ SaneSweep =>
       /\ sweep.value < sweep.high => 0 < WayUp(sweep) /\ WayUp(sweep') <= WayUp(sweep) - sweep.step
       /\ sweep.value > sweep.low =>
            0 < WayDown(sweep) /\ WayDown(sweep') <= WayDown(sweep) - sweep.step]_vars

(* Numbers.  Seen from the other bound, value and direction are negated.   *)
LEMMA WayShortens ==
  ASSUME NEW v \in Int, NEW h \in Int, NEW s \in Int, NEW d \in {-1, 1}, NEW t \in {-1, 1},
         s > 0, h >= 0, v < h,
         t = IF d = -1 /\ v <= -h THEN 1 ELSE d
  PROVE  /\ 0 < Way(v, d, -h, h, s)
         /\ Way(IF t = 1 THEN v + s ELSE v - s, t, -h, h, s) <= Way(v, d, -h, h, s) - s
<1>1. CASE d = 1
  BY <1>1 DEF Way
<1>2. CASE d = -1 /\ v <= -h
  BY <1>2 DEF Way
<1>3. CASE d = -1 /\ v > -h
  BY <1>3 DEF Way
<1> QED
  BY <1>1, <1>2, <1>3

LEMMA StepNearer ==
  ASSUME WaveTypeOK, SweepStep, SaneSweep
  PROVE  /\ sweep.value < sweep.high =>
              0 < WayUp(sweep) /\ WayUp(sweep') <= WayUp(sweep) - sweep.step
         /\ sweep.value > sweep.low =>
              0 < WayDown(sweep) /\ WayDown(sweep') <= WayDown(sweep) - sweep.step
<1> DEFINE v == sweep.value
           s == sweep.step
           h == sweep.high
           t == Turn(sweep).dir
<1>1. v \in Int /\ s \in Int /\ h \in Int /\ s > 0 /\ h >= 0 /\ sweep.low = -h
  BY AmountsAssumption, SweepAssumption DEF WaveTypeOK, SaneSweep
<1>2. sweep.dir \in {-1, 1}
  BY DEF WaveTypeOK
<1>3. /\ sweep'.value = v + s * t /\ sweep'.step = s /\ sweep'.high = h /\ sweep'.low = -h
      /\ sweep'.dir = t /\ t \in {-1, 1}
  BY TurnTypes, <1>1 DEF SweepStep, Stepped, WaveTypeOK
<1>4. t = IF sweep.dir = 1 /\ v >= h THEN -1 ELSE IF sweep.dir = -1 /\ v <= -h THEN 1 ELSE sweep.dir
  BY <1>1, <1>2 DEF Turn, WaveTypeOK
<1> HIDE DEF v, s, h, t
<1> DEFINE w == IF t = 1 THEN v + s ELSE v - s
<1>5. sweep'.value = w
  BY <1>1, <1>3
<1>6. /\ WayUp(sweep) = Way(v, sweep.dir, -h, h, s)
      /\ WayDown(sweep) = Way(-v, -sweep.dir, -h, h, s)
      /\ WayUp(sweep') = Way(w, t, -h, h, s)
      /\ WayDown(sweep') = Way(-w, -t, -h, h, s)
  <2>1. -(-h) = h
    BY <1>1
  <2> HIDE DEF w
  <2> QED
    BY <1>1, <1>3, <1>5, <2>1 DEF WayUp, WayDown, v, s, h
<1>7. v < h => 0 < Way(v, sweep.dir, -h, h, s) /\ Way(w, t, -h, h, s) <= Way(v, sweep.dir, -h, h, s) - s
  <2>1. v < h => t = IF sweep.dir = -1 /\ v <= -h THEN 1 ELSE sweep.dir
    BY <1>1, <1>2, <1>4
  <2> QED
    BY <1>1, <1>2, <1>3, <2>1, WayShortens
<1>8. v > -h => 0 < Way(-v, -sweep.dir, -h, h, s)
                /\ Way(-w, -t, -h, h, s) <= Way(-v, -sweep.dir, -h, h, s) - s
  <2> SUFFICES ASSUME v > -h
               PROVE  /\ 0 < Way(-v, -sweep.dir, -h, h, s)
                      /\ Way(-w, -t, -h, h, s) <= Way(-v, -sweep.dir, -h, h, s) - s
    OBVIOUS
  <2> DEFINE m == -v
             d == -sweep.dir
             u == -t
  <2>1. m \in Int /\ d \in {-1, 1} /\ u \in {-1, 1} /\ m < h
    BY <1>1, <1>2, <1>3
  <2>2. u = IF d = -1 /\ m <= -h THEN 1 ELSE d
    BY <1>1, <1>2, <1>4
  <2>3. -w = IF u = 1 THEN m + s ELSE m - s
    BY <1>1, <1>3
  <2> HIDE DEF m, d, u, w
  <2>4. /\ 0 < Way(m, d, -h, h, s)
        /\ Way(IF u = 1 THEN m + s ELSE m - s, u, -h, h, s) <= Way(m, d, -h, h, s) - s
    BY <1>1, <2>1, <2>2, WayShortens
  <2> QED
    BY <2>3, <2>4 DEF m, d, u
<1> QED
  BY <1>1, <1>6, <1>7, <1>8 DEF v, s, h

(* A sweep of positive steps between bounds in order, wherever it is,      *)
(* reaches its bound after at most as many steps as there are in the way.  *)
THEOREM SweepReaches == FairSpec => ComesNearer
<1>1. IInv /\ [Next]_vars =>
        [SweepStep /\ SaneSweep =>
           /\ sweep.value < sweep.high =>
                0 < WayUp(sweep) /\ WayUp(sweep') <= WayUp(sweep) - sweep.step
           /\ sweep.value > sweep.low =>
                0 < WayDown(sweep) /\ WayDown(sweep') <= WayDown(sweep) - sweep.step]_vars
  BY StepNearer, TypeParts DEF IInv
<1> QED
  BY <1>1, InitIInv, StepIInv, PTL DEF FairSpec, Spec, ComesNearer
=============================================================================
