-------------------------------- MODULE Keys --------------------------------
(***************************************************************************)
(* The keys on an analog pin, src/src/Pushbuttons.cpp: every 50ms or later *)
(* (whenever the loop gets there) the pin is sampled, and a callback is    *)
(* told of a quick press, of a key held long and of its release.           *)
(*                                                                         *)
(* Time passes in units of the sampling; the code compares milliseconds as *)
(* int, which holds for 24 days.  The pin of the encoder has one key and   *)
(* nothing unclear, that of the keyboard four.                             *)
(***************************************************************************)
EXTENDS Integers, Sequences

CONSTANTS
  Buttons,      \* the keys, from 1
  HoldPeriod,   \* holdPeriodms, in units of the sampling
  Gaps          \* how long after one sample the next one may come

ASSUME KeysAssumption ==
  /\ Buttons \subseteq Nat \ {0}
  /\ HoldPeriod \in Nat \ {0}
  /\ Gaps \subseteq Nat \ {0}

Released == 0
Unclear  == -1     \* a voltage between those of two keys
Contacts == Buttons \cup {Released, Unclear}

VARIABLES
  contact,   \* what the pin would be read as
  key,       \* members of PushbuttonsClass
  press      \* history: the latest press, what was told of it, and did it begin without a release?

vars == <<contact, key, press>>

QUICK   == "quickPress"
HELD    == "holdAfterLongPress"
RELEASE == "releaseAfterLongPress"
Nothing == "nothing"

Init ==
  /\ contact = Released
  /\ key = [function |-> Released, down |-> HoldPeriod + 1, red |-> FALSE, heldLong |-> FALSE]
  /\ press = [button |-> Released, told |-> <<>>, slid |-> FALSE]

(* The user. *)
Touch(c) == contact' = c /\ UNCHANGED <<key, press>>

-----------------------------------------------------------------------------
(* handle(), in the loop, once 50ms have passed. *)

(* Mutant of ButtonFunction: an unclear voltage is a key, too. *)
AnyVoltage == contact

ButtonFunction == IF contact = Unclear THEN key.function ELSE contact

Pressed   == ButtonFunction # key.function /\ ButtonFunction # Released
LetGo     == ButtonFunction # key.function /\ ButtonFunction = Released
Down(gap) == IF Pressed THEN 0
             ELSE IF key.down + gap > HoldPeriod THEN HoldPeriod + 1   \* that is long enough
             ELSE key.down + gap
Long(gap) == Down(gap) > HoldPeriod /\ ButtonFunction # Released

(* Mutant of HeldLong: it is not reset. *)
NeverReset == key.heldLong

(* keyHeldLong is reset where the pin is seen released. *)
HeldLong == key.heldLong /\ contact # Released

(* Mutant of Event: how long the key was pressed is not looked at again.   *)
AlwaysQuick(gap) ==
  IF LetGo THEN QUICK ELSE IF Long(gap) /\ ~HeldLong THEN HELD ELSE Nothing

(* What the callback is told. *)
Event(gap) ==
  IF LetGo THEN (IF key.red THEN RELEASE ELSE QUICK)
  ELSE IF Long(gap) /\ ~HeldLong THEN HELD ELSE Nothing

Tell(told, event) == IF event = Nothing THEN told ELSE Append(told, event)

Handle(gap) ==
  /\ key' = [function |-> ButtonFunction, down |-> Down(gap), red |-> Long(gap),
             heldLong |-> HeldLong \/ Long(gap)]
  /\ press' = IF Pressed
              THEN [button |-> ButtonFunction, told |-> Tell(<<>>, Event(gap)),
                    slid |-> key.function # Released]
              ELSE [press EXCEPT !.told = Tell(@, Event(gap))]
  /\ UNCHANGED contact

Sample == \E gap \in Gaps : Handle(gap)

Next == (\E c \in Contacts : Touch(c)) \/ Sample

Spec == Init /\ [][Next]_vars

(* loop() calls handle() for ever. *)
FairSpec == Spec /\ WF_vars(Sample)

-----------------------------------------------------------------------------
TypeOK ==
  /\ contact \in Contacts
  /\ key \in [function : Buttons \cup {Released}, down : 0 .. HoldPeriod + 1,
              red : BOOLEAN, heldLong : BOOLEAN]
  /\ press \in [button : Buttons \cup {Released}, told : Seq({QUICK, HELD, RELEASE}),
                slid : BOOLEAN]

(* Of every press one thing is told: that it was quick, or that it is held *)
(* and then that it is released; whatever is read between the keys.  Only  *)
(* a press that slid from another key may lack that it is held.            *)
Quick == <<QUICK>>
LongPress == <<HELD, RELEASE>>
WhilePressed == {<<>>, <<HELD>>}
ToldOnce ==
  press.button # Released =>
    \/ key.function = Released /\ press.told \in {Quick, LongPress}
    \/ key.function = press.button /\ press.told \in WhilePressed
    \/ key.function = Released /\ press.slid /\ press.told = <<RELEASE>>

(* A key that is kept down is told as held, unless it was slid to from one *)
(* that was held already.                                                  *)
HeldIsTold ==
  \A b \in Buttons :
    <>[](contact = b /\ ~press.slid) => <>[](press.button = b /\ press.told = <<HELD>>)
=============================================================================
