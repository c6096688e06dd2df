------------------------------- MODULE Output -------------------------------
(***************************************************************************)
(* What the callers of src/src/SMU_HAL_717x.cpp may expect of the source   *)
(* channel, although a commit takes several steps and the pulse timer may  *)
(* interrupt it: the output jumps once, from one amount to the next; only  *)
(* a call in which a pulse of another DAC span fell may leave a code that  *)
(* belongs to another span ("torn"), and the next pulse mends it.          *)
(***************************************************************************)
EXTENDS Integers

CONSTANTS
  Amounts,   \* what can be sourced
  Spans,     \* the spans the DAC can be set to
  Zero,      \* what is sourced at first,
  ZeroSpan   \* and its span

VARIABLES
  out,       \* what the channel gives: the amount of its code; is its span that of the code?
  shown,     \* the amount the panel shows as sourced
  call       \* the commit in progress, and the spans of the pulses that fell into it

vars == <<out, shown, call>>

NoCall(met) == [busy |-> FALSE, amount |-> Zero, span |-> ZeroSpan, met |-> met]

Whole(a) == [amount |-> a, torn |-> FALSE]

Init ==
  /\ out = Whole(Zero)
  /\ shown = Zero
  /\ call = NoCall({})

Begin(a, s) ==
  /\ ~call.busy
  /\ shown' = a
  /\ call' = [busy |-> TRUE, amount |-> a, span |-> s, met |-> {}]
  /\ UNCHANGED out

End ==
  /\ call.busy
  /\ call' = NoCall(call.met)
  /\ \E torn \in BOOLEAN :
       /\ torn => call.met \ {call.span} # {}
       /\ out' = [amount |-> call.amount, torn |-> torn]
  /\ UNCHANGED shown

Pulse(a, s) ==
  /\ out' = Whole(a)
  /\ shown' = a
  /\ call' = [call EXCEPT !.met = IF call.busy THEN @ \cup {s} ELSE {}]

Next ==
  \/ \E a \in Amounts, s \in Spans : Begin(a, s) \/ Pulse(a, s)
  \/ End

Spec == Init /\ [][Next]_vars
=============================================================================
