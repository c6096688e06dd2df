----------------------------- MODULE KeysProofs -----------------------------
(***************************************************************************)
(* Proofs about Keys, for every set of keys, hold period and lateness of   *)
(* the loop: types, that of every press one thing is told (ToldOnce), and  *)
(* that a key is told as held neither early nor late (HeldInTime).         *)
(***************************************************************************)
EXTENDS Keys, TLAPS

(* What the members know of the press that goes on. *)
KeyInv ==
  /\ key.function = Released => ~key.heldLong
  /\ key.red <=> key.function # Released /\ key.down > HoldPeriod
  /\ key.function # Released =>
       /\ press.button = key.function
       /\ \/ press.told = <<HELD>> /\ key.red /\ key.heldLong
          \/ press.told = <<>> /\ ~key.red /\ (key.heldLong => press.slid)
          \/ press.told = <<>> /\ key.red /\ key.heldLong /\ press.slid

IInv == TypeOK /\ KeyInv /\ ToldOnce

LEMMA AppendToOne ==
  ASSUME NEW first, NEW event
  PROVE  Append(<<first>>, event) = <<first, event>>
<1> DEFINE S    == {first, event}
           both == Append(<<first>>, event)
<1>1. event \in S /\ <<first>> \in Seq(S) /\ Len(<<first>>) = 1 /\ <<first>>[1] = first
  OBVIOUS
<1>2. both \in Seq(S) /\ Len(both) = 2 /\ both[1] = first /\ both[2] = event
  BY <1>1
<1> HIDE DEF both, S
<1>3. both = [i \in 1 .. 2 |-> both[i]]
  BY <1>2
<1>4. <<first, event>> = [i \in 1 .. 2 |-> <<first, event>>[i]]
  OBVIOUS
<1>5. \A i \in 1 .. 2 : both[i] = <<first, event>>[i]
  BY <1>2
<1> QED
  BY <1>3, <1>4, <1>5 DEF both

(* What an event adds to what was told. *)
LEMMA Telling ==
  /\ Tell(<<>>, Nothing) = <<>>
  /\ Tell(<<HELD>>, Nothing) = <<HELD>>
  /\ Tell(Quick, Nothing) = Quick
  /\ Tell(LongPress, Nothing) = LongPress
  /\ Tell(<<RELEASE>>, Nothing) = <<RELEASE>>
  /\ Tell(<<>>, HELD) = <<HELD>>
  /\ Tell(<<>>, QUICK) = Quick
  /\ Tell(<<>>, RELEASE) = <<RELEASE>>
  /\ Tell(<<HELD>>, RELEASE) = LongPress
<1>1. Append(<<HELD>>, RELEASE) = <<HELD, RELEASE>>
  BY AppendToOne
<1> QED
  BY <1>1 DEF Tell, Nothing, HELD, QUICK, RELEASE, Quick, LongPress

(* Types are kept by every sample. *)
LEMMA HandleTypes ==
  ASSUME TypeOK, NEW gap \in Gaps, Handle(gap)
  PROVE  TypeOK'
<1> USE KeysAssumption
<1>1. ButtonFunction \in Buttons \cup {Released}
  BY DEF TypeOK, ButtonFunction, Contacts
<1>2. Down(gap) \in 0 .. HoldPeriod + 1
  BY DEF TypeOK, Down
<1>3. Event(gap) \in {QUICK, HELD, RELEASE, Nothing}
  BY DEF Event
<1> DEFINE Told == Seq({QUICK, HELD, RELEASE})
<1>4. \A told \in Told : Tell(told, Event(gap)) \in Told
  BY <1>3 DEF Tell
<1>5. <<>> \in Told /\ press.told \in Told
  BY DEF TypeOK
<1>6. press' \in [button : Buttons \cup {Released}, told : Seq({QUICK, HELD, RELEASE}),
                   slid : BOOLEAN]
  BY <1>1, <1>4, <1>5 DEF TypeOK, Handle
<1>7. Long(gap) \in BOOLEAN /\ HeldLong \in BOOLEAN
  BY DEF Long, HeldLong, TypeOK
<1>8. key' \in [function : Buttons \cup {Released}, down : 0 .. HoldPeriod + 1,
                 red : BOOLEAN, heldLong : BOOLEAN]
  BY <1>1, <1>2, <1>7 DEF Handle
<1> QED
  BY <1>6, <1>8 DEF TypeOK, Handle

(* A sample that sees a key go down begins a press, one that sees it       *)
(* released ends it, and any other goes on with it.                        *)
LEMMA HandleTells ==
  ASSUME IInv, NEW gap \in Gaps, Handle(gap)
  PROVE  KeyInv' /\ ToldOnce'
<1> USE KeysAssumption DEF IInv, TypeOK, Released
<1>1. TypeOK'
  BY HandleTypes DEF IInv
<1>2. ButtonFunction \in Buttons \cup {Released} /\ Down(gap) \in 0 .. HoldPeriod + 1
  BY <1>1 DEF Handle
<1>3. key'.function = ButtonFunction /\ key'.down = Down(gap)
      /\ (key'.red <=> Down(gap) > HoldPeriod /\ ButtonFunction # Released)
      /\ (key'.heldLong <=> HeldLong \/ Long(gap))
  BY <1>1, <1>2 DEF Handle, Long
<1>4. CASE Pressed
  <2>1. ~Long(gap) /\ ~LetGo
    BY <1>4 DEF Long, Down, Pressed, LetGo
  <2>2. Event(gap) = Nothing
    BY <2>1 DEF Event
  <2>3. press'.button = ButtonFunction /\ press'.told = <<>>
        /\ press'.slid = (key.function # Released)
    BY <1>4, <2>2, Telling DEF Handle
  <2>4. key'.heldLong => key.function # Released
    BY <1>3, <2>1 DEF HeldLong, KeyInv
  <2>5. ButtonFunction # Released /\ ~key'.red
    BY <1>3, <1>4, <2>1 DEF Pressed, Long
  <2> QED
    BY <1>3, <2>3, <2>4, <2>5 DEF KeyInv, ToldOnce, WhilePressed
<1>5. CASE LetGo
  <2>1. ButtonFunction = Released /\ key.function # Released /\ contact = Released /\ ~Pressed
    BY <1>5 DEF LetGo, Pressed, ButtonFunction
  <2>2. Event(gap) = IF key.red THEN RELEASE ELSE QUICK
    BY <1>5 DEF Event
  <2>3. press'.button = press.button /\ press'.slid = press.slid
        /\ press'.told = Tell(press.told, Event(gap))
    BY <2>1 DEF Handle
  <2>4. ~key'.red /\ ~key'.heldLong /\ key'.function = Released
    BY <1>3, <2>1 DEF HeldLong, Long
  <2>5. \/ press'.told \in {Quick, LongPress}
        \/ press'.slid /\ press'.told = <<RELEASE>>
    BY <2>1, <2>2, <2>3, Telling DEF KeyInv
  <2> QED
    BY <1>3, <2>3, <2>4, <2>5 DEF KeyInv, ToldOnce
<1>6. CASE ~Pressed /\ ~LetGo
  <2>1. ButtonFunction = key.function
    BY <1>6 DEF Pressed, LetGo
  <2>2. press'.button = press.button /\ press'.slid = press.slid
        /\ press'.told = Tell(press.told, Event(gap))
    BY <1>6 DEF Handle
  <2>3. CASE key.function = Released
    <3>1. ~Long(gap) /\ ~HeldLong
      BY <2>1, <2>3 DEF Long, HeldLong, KeyInv
    <3>2. Event(gap) = Nothing
      BY <1>6, <3>1 DEF Event
    <3>3. press'.told = press.told
      BY <2>2, <3>2 DEF Tell
    <3> QED
      BY <1>3, <2>1, <2>2, <2>3, <3>1, <3>3 DEF KeyInv, ToldOnce
  <2>4. CASE key.function # Released
    <3>1. HeldLong <=> key.heldLong
      BY <2>1, <2>4 DEF HeldLong, ButtonFunction, Unclear
    <3>2. Long(gap) <=> Down(gap) > HoldPeriod
      BY <2>1, <2>4 DEF Long
    <3>3. key.red => Long(gap)
      BY <3>2, <1>6 DEF KeyInv, Down
    <3>4. Event(gap) = IF Long(gap) /\ ~key.heldLong THEN HELD ELSE Nothing
      BY <1>6, <3>1 DEF Event
    <3>5. CASE press.told = <<HELD>> /\ key.red /\ key.heldLong
      <4>1. press'.told = <<HELD>>
        BY <2>2, <3>4, <3>5, Telling
      <4> QED
        BY <1>3, <2>1, <2>2, <2>4, <3>2, <3>3, <3>5, <4>1 DEF KeyInv, ToldOnce, WhilePressed
    <3>6. CASE press.told = <<>> /\ key.heldLong
      <4>1. press'.told = <<>>
        BY <2>2, <3>4, <3>6, Telling
      <4>2. press.slid
        BY <2>4, <3>6 DEF KeyInv
      <4> QED
        BY <1>3, <2>1, <2>2, <2>4, <3>1, <3>2, <3>6, <4>1, <4>2 DEF KeyInv, ToldOnce, WhilePressed
    <3>7. CASE press.told = <<>> /\ ~key.heldLong
      <4>1. press'.told = IF Long(gap) THEN <<HELD>> ELSE <<>>
        BY <2>2, <3>4, <3>7, Telling
      <4> QED
        BY <1>3, <2>1, <2>2, <2>4, <3>1, <3>2, <3>7, <4>1 DEF KeyInv, ToldOnce, WhilePressed
    <3> QED
      BY <2>4, <3>5, <3>6, <3>7 DEF KeyInv
  <2> QED
    BY <2>3, <2>4
<1> QED
  BY <1>4, <1>5, <1>6

LEMMA InitIInv == Init => IInv
<1> SUFFICES ASSUME Init PROVE IInv
  OBVIOUS
<1>1. TypeOK
  BY KeysAssumption DEF Init, TypeOK, Contacts
<1> QED
  BY <1>1 DEF Init, IInv, KeyInv, ToldOnce, Released

LEMMA StepIInv == IInv /\ [Next]_vars => IInv'
<1> SUFFICES ASSUME IInv, [Next]_vars PROVE IInv'
  OBVIOUS
<1>1. ASSUME NEW c \in Contacts, Touch(c) PROVE IInv'
  BY <1>1 DEF IInv, TypeOK, KeyInv, ToldOnce, Touch
<1>2. ASSUME NEW gap \in Gaps, Handle(gap) PROVE IInv'
  BY <1>2, HandleTypes, HandleTells DEF IInv
<1>3. CASE UNCHANGED vars
  BY <1>3 DEF IInv, TypeOK, KeyInv, ToldOnce, vars
<1> QED
  BY <1>1, <1>2, <1>3 DEF Next, Sample

LEMMA Invariance == Spec => []IInv
  BY InitIInv, StepIInv, PTL DEF Spec

(* The types of Keys. *)
THEOREM TypeCorrect == Spec => []TypeOK
<1>1. IInv => TypeOK
  BY DEF IInv
<1> QED
  BY <1>1, Invariance, PTL

(* Of every press exactly one thing is told, however late the loop         *)
(* samples, whatever bounces, and whatever is slid to.                     *)
THEOREM EveryPressToldOnce == Spec => []ToldOnce
<1>1. IInv => ToldOnce
  BY DEF IInv
<1> QED
  BY <1>1, Invariance, PTL

-----------------------------------------------------------------------------
(* When a key is told as held.  HeldIsTold needs the loop to go on; this is*)
(* what each of its samples does.                                          *)

(* A key that is down is told as held if and only if it has been down for  *)
(* longer than a long press: neither early nor late.                       *)
HeldWhenLong ==
  key.function # Released /\ ~press.slid => (press.told = <<HELD>> <=> key.down > HoldPeriod)

(* A sample of a key that stays down, through whatever is read between the *)
(* keys, brings it nearer to a long press.                                 *)
NearerToLong ==
  [][key.function # Released /\ contact \in {key.function, Unclear} /\ Sample =>
       /\ key'.function = key.function
       /\ key'.down > key.down \/ key'.down > HoldPeriod]_vars

(* At the latest HoldPeriod + 1 samples after the first one that saw a key *)
(* down it is told as held, for every hold period and lateness.            *)
THEOREM HeldInTime == Spec => []HeldWhenLong /\ NearerToLong
<1>1. IInv => HeldWhenLong
  <2> SUFFICES ASSUME KeyInv, key.function # Released, ~press.slid
               PROVE  press.told = <<HELD>> <=> key.down > HoldPeriod
    BY DEF IInv, HeldWhenLong
  <2>1. <<HELD>> # <<>>
    OBVIOUS
  <2> QED
    BY <2>1 DEF KeyInv
<1>2. IInv /\ [Next]_vars =>
        [key.function # Released /\ contact \in {key.function, Unclear} /\ Sample =>
           /\ key'.function = key.function
           /\ key'.down > key.down \/ key'.down > HoldPeriod]_vars
  <2> SUFFICES ASSUME TypeOK, key.function # Released, contact \in {key.function, Unclear},
                      NEW gap \in Gaps, Handle(gap)
               PROVE  /\ key'.function = key.function
                      /\ key'.down > key.down \/ key'.down > HoldPeriod
    BY DEF IInv, Sample
  <2>1. ButtonFunction = key.function /\ ~Pressed
    BY DEF ButtonFunction, Pressed
  <2>2. key'.function = key.function /\ key'.down = Down(gap)
    BY <2>1 DEF Handle
  <2>3. gap \in Nat \ {0} /\ key.down \in 0 .. HoldPeriod + 1 /\ HoldPeriod \in Nat
    BY KeysAssumption DEF TypeOK
  <2> QED
    BY <2>1, <2>2, <2>3 DEF Down
<1> QED
  BY <1>1, <1>2, Invariance, PTL DEF Spec, NearerToLong
=============================================================================
