---------------------------- MODULE LoggerProofs ----------------------------
(***************************************************************************)
(* Proofs about Logger, for every size of memory and view and every turn   *)
(* of the knob: what the view shows is the recording, and it moves by      *)
(* whole points.                                                           *)
(***************************************************************************)
EXTENDS Logger, TLAPS, WellFoundedInduction

KnobInv ==
  /\ knob.rotary <= MaxRotary
  /\ knob.scrollRotary \in -MaxRotary .. MaxRotary

(* The memory is full when more was recorded than it holds; before, the    *)
(* addresses count the samples, and nothing is scrolled to beyond them.    *)
CountInv(l) ==
  /\ ~l.full => l.address = l.total /\ l.scroll <= l.address
  /\ l.full  => l.total > MaxSize /\ l.address > 0
  /\ l.scroll <= MaxSize

(* How many samples were recorded after the one at an address. *)
Age(a, l) == IF a < l.address THEN l.address - 1 - a ELSE l.address + MaxSize - 1 - a

(* The ring holds the latest samples, each at its place. *)
RingInv(l, mem) ==
  \A a \in Addresses : mem[a] = IF Age(a, l) < l.total THEN l.total - Age(a, l) ELSE 0

(* The view was made of at most what is recorded now, at most as it says.  *)
ViewInv ==
  /\ view.perPoint \in Nat \ {0} /\ view.total \in Nat /\ view.lag \in Int
  /\ view.total <= logger.total
  /\ view.inSync => view.total % view.perPoint = 0

IInv == TypeOK /\ KnobInv /\ CountInv(logger) /\ RingInv(logger, memory) /\ ViewInv /\ ViewIsHistory

-----------------------------------------------------------------------------
(* The least element of a set of naturals, on which inductions rest here.  *)

Less == {ss \in Nat \X Nat : ss[1] < ss[2]}

LEMMA NatMinimum ==
  ASSUME NEW T, T \subseteq Nat, T # {}
  PROVE  \E x \in T : \A y \in T : x <= y
<1>1. OpToRel(<, Nat) = Less
  BY Zenon DEF OpToRel, Less
<1>2. PICK x \in T : \A y \in T : ~(<<y, x>> \in Less)
  BY <1>1, WFMin, NatLessThanWellFounded
<1>3. \A y \in T : x <= y
  <2> SUFFICES ASSUME NEW y \in T, y < x PROVE FALSE
    OBVIOUS
  <2>1. <<y, x>> \in Nat \X Nat /\ <<y, x>>[1] < <<y, x>>[2]
    OBVIOUS
  <2>2. <<y, x>> \in Less
    BY <2>1 DEF Less
  <2> QED
    BY <1>2, <2>2
<1> QED
  BY <1>3

-----------------------------------------------------------------------------
(* Back in the ring. *)

(* Where the recursion of getLastSamples gets to after j steps, if it does *)
(* not go around more than once: a formula without recursion.              *)
Earlier(l, j) ==
  IF j <= l.scroll THEN l.scroll - j ELSE IF l.full THEN l.scroll + MaxSize - j ELSE 0

Once(l) ==
  /\ l.perPoint \in Nat \ {0} /\ l.scroll \in 0 .. MaxSize /\ l.full \in BOOLEAN
  /\ l.full => Window * l.perPoint <= MaxSize

LEMMA Reaches ==
  ASSUME NEW n \in Nat \ {0}
  PROVE  Window * n \in Nat
BY LoggerAssumption

(* One step back is one place earlier. *)
LEMMA OneBack ==
  ASSUME NEW l, NEW j \in 1 .. Window * l.perPoint, Once(l)
  PROVE  Previous(l, Earlier(l, j - 1)) = Earlier(l, j)
<1> DEFINE reach == Window * l.perPoint
<1>1. reach \in Nat /\ (l.full => reach <= MaxSize) /\ j \in 1 .. reach
  BY Reaches DEF Once
<1> HIDE DEF reach
<1> QED
  BY <1>1, LoggerAssumption DEF Once, Previous, Earlier

(* The recursion has a solution, the formula. *)
LEMMA BackStep ==
  ASSUME NEW l, Once(l)
  PROVE  Back(l) = [j \in 0 .. Window * l.perPoint |->
                      IF j = 0 THEN l.scroll ELSE Previous(l, Back(l)[j - 1])]
<1> DEFINE reach == Window * l.perPoint
           F == [j \in 0 .. reach |-> Earlier(l, j)]
           Step(f) == [j \in 0 .. reach |-> IF j = 0 THEN l.scroll ELSE Previous(l, f[j - 1])]
<1>1. reach \in Nat
  BY Reaches DEF Once
<1>2. ASSUME NEW j \in 0 .. reach
      PROVE  F[j] = Step(F)[j]
  <2>1. CASE j = 0
    <3>1. Earlier(l, j) = l.scroll
      BY <2>1 DEF Earlier, Once
    <3> QED
      BY <2>1, <3>1
  <2>2. CASE j # 0
    <3>1. j \in 1 .. reach /\ j - 1 \in 0 .. reach
      BY <2>2, <1>1
    <3>2. Previous(l, Earlier(l, j - 1)) = Earlier(l, j)
      BY <3>1, OneBack
    <3>3. F[j - 1] = Earlier(l, j - 1) /\ F[j] = Earlier(l, j)
      BY <3>1
    <3>4. Step(F)[j] = Previous(l, F[j - 1])
      BY <2>2
    <3> QED
      BY <3>2, <3>3, <3>4
  <2> QED
    BY <2>1, <2>2
<1>3. F = Step(F)
  <2> HIDE DEF reach
  <2> QED
    BY <1>2
<1>4. \E f : f = Step(f)
  BY <1>3
<1>5. Back(l) = CHOOSE f : f = Step(f)
  BY DEF Back
<1> HIDE DEF Step
<1>6. Back(l) = Step(Back(l))
  BY <1>4, <1>5, Zenon
<1> QED
  BY <1>6 DEF Step

(* And only that one. *)
LEMMA BackIs ==
  ASSUME NEW l, Once(l), NEW k \in 0 .. Window * l.perPoint
  PROVE  Back(l)[k] = Earlier(l, k)
<1> DEFINE reach == Window * l.perPoint
           Wrong == {j \in 0 .. reach : Back(l)[j] # Earlier(l, j)}
<1>1. reach \in Nat
  BY Reaches DEF Once
<1>2. SUFFICES ASSUME Wrong # {} PROVE FALSE
  OBVIOUS
<1>3. Wrong \subseteq Nat
  BY <1>1
<1>4. PICK j \in Wrong : \A i \in Wrong : j <= i
  BY <1>2, <1>3, NatMinimum
<1>5. Back(l)[j] = IF j = 0 THEN l.scroll ELSE Previous(l, Back(l)[j - 1])
  BY BackStep
<1>6. j # 0
  BY <1>5, <1>4 DEF Earlier, Once
<1>7. j \in 1 .. reach /\ j - 1 \in 0 .. reach
  BY <1>1, <1>4, <1>6
<1>8. j - 1 \notin Wrong
  BY <1>4, <1>7
<1>9. Back(l)[j - 1] = Earlier(l, j - 1)
  BY <1>7, <1>8
<1>10. Back(l)[j] = Earlier(l, j)
  BY <1>5, <1>6, <1>7, <1>9, OneBack
<1> QED
  BY <1>4, <1>10

-----------------------------------------------------------------------------
(* A sample recorded. *)

LoggerType ==
  [address : 0 .. MaxSize, full : BOOLEAN, samples : 0 .. MaxSize, total : Nat,
   scroll : Int, auto : BOOLEAN, perPoint : Nat \ {0}, oldRot : Int]

CountsAll(l) == l.samples = IF l.total < MaxSize THEN l.total ELSE MaxSize

(* What was there is one sample older. *)
LEMMA OneOlder ==
  ASSUME NEW l, NEW r, NEW a \in Addresses, l.address \in 0 .. MaxSize,
         r.address = (IF l.address >= MaxSize THEN 0 ELSE l.address) + 1, a # r.address - 1
  PROVE  Age(a, r) = Age(a, l) + 1 /\ Age(a, l) \in Nat
BY LoggerAssumption DEF Age, Addresses

(* It is counted, and takes the place of the oldest. *)
LEMMA RecordedKeeps ==
  ASSUME NEW l \in LoggerType, NEW mem \in [Addresses -> Nat],
         CountsAll(l), CountInv(l), RingInv(l, mem)
  PROVE  /\ Recorded(l) \in LoggerType
         /\ Recorded(l).total = l.total + 1
         /\ CountsAll(Recorded(l)) /\ CountInv(Recorded(l))
         /\ Recorded(l).address > 0 /\ Recorded(l).address - 1 \in Addresses
         /\ RingInv(Recorded(l), [mem EXCEPT ![Recorded(l).address - 1] = Recorded(l).total])
<1> DEFINE r == Recorded(l)
           full == l.full \/ l.address >= MaxSize
           samples == IF full THEN l.samples ELSE l.samples + 1
           total == l.total + 1
           address == Slot(l) + 1
<1>1. /\ l.address \in 0 .. MaxSize /\ l.full \in BOOLEAN /\ l.samples \in 0 .. MaxSize
      /\ l.total \in Nat /\ l.scroll \in Int
  BY DEF LoggerType
<1>2. /\ full \in BOOLEAN /\ samples \in 0 .. MaxSize /\ total \in Nat
      /\ address \in 1 .. MaxSize /\ address \in 0 .. MaxSize
  BY <1>1, LoggerAssumption DEF Slot, CountInv, CountsAll
<1>3. r = [l EXCEPT !.total = total, !.full = full, !.address = address, !.samples = samples]
  BY DEF Recorded
<1>4. r \in LoggerType /\ r.total = total /\ r.full = full /\ r.address = address
      /\ r.samples = samples /\ r.scroll = l.scroll
  <2> HIDE DEF r, full, samples, total, address
  <2>1. r \in LoggerType
    BY <1>2, <1>3 DEF LoggerType
  <2> QED
    BY <1>3, <2>1 DEF LoggerType
<1> HIDE DEF r
<1>5. /\ r.full <=> (l.full \/ l.address >= MaxSize)
      /\ r.full \in BOOLEAN
      /\ r.address = (IF l.address >= MaxSize THEN 0 ELSE l.address) + 1
      /\ r.samples = IF l.full \/ l.address >= MaxSize THEN l.samples ELSE l.samples + 1
      /\ r.total = l.total + 1
      /\ r.scroll = l.scroll
  BY <1>1, <1>2, <1>4 DEF Slot
<1> HIDE DEF full, samples, total, address
<1>6. CountsAll(r) /\ CountInv(r) /\ r.address > 0 /\ r.address - 1 \in Addresses
  <2>1. r.address > 0 /\ r.address - 1 \in Addresses
    BY <1>1, <1>5, LoggerAssumption DEF Addresses
  <2>2. l.samples = IF l.total < MaxSize THEN l.total ELSE MaxSize
    BY DEF CountsAll
  <2>3. /\ ~l.full => l.address = l.total /\ l.scroll <= l.address
        /\ l.full  => l.total > MaxSize /\ l.address > 0
        /\ l.scroll <= MaxSize
    BY DEF CountInv
  <2>4. CASE r.full
    <3>1. r.total > MaxSize /\ r.samples = MaxSize
      BY <1>1, <1>5, <2>2, <2>3, <2>4, LoggerAssumption
    <3> QED
      BY <1>1, <1>5, <2>1, <2>3, <2>4, <3>1, LoggerAssumption DEF CountInv, CountsAll
  <2>5. CASE ~r.full
    <3>1. /\ ~l.full /\ l.address < MaxSize /\ l.address = l.total
          /\ r.address = r.total /\ r.samples = r.total /\ r.total <= MaxSize
      BY <1>1, <1>5, <2>2, <2>3, <2>5, LoggerAssumption
    <3> QED
      BY <1>1, <1>5, <2>1, <2>3, <2>5, <3>1, LoggerAssumption DEF CountInv, CountsAll
  <2> QED
    BY <2>1, <2>4, <2>5
<1>7. RingInv(r, [mem EXCEPT ![r.address - 1] = r.total])
  <2> SUFFICES ASSUME NEW a \in Addresses
               PROVE  [mem EXCEPT ![r.address - 1] = r.total][a]
                        = IF Age(a, r) < r.total THEN r.total - Age(a, r) ELSE 0
    BY DEF RingInv
  <2>1. CASE a = r.address - 1
    <3>1. Age(a, r) = 0
      BY <1>1, <1>5, <2>1 DEF Age
    <3> QED
      BY <1>1, <1>5, <1>6, <2>1, <3>1
  <2>2. CASE a # r.address - 1
    <3>1. [mem EXCEPT ![r.address - 1] = r.total][a] = mem[a]
      BY <2>2, <1>6
    <3>2. mem[a] = IF Age(a, l) < l.total THEN l.total - Age(a, l) ELSE 0
      BY DEF RingInv
    <3>3. Age(a, r) = Age(a, l) + 1 /\ Age(a, l) \in Nat
      BY <1>1, <1>5, <2>2, OneOlder
    <3> QED
      BY <1>1, <1>5, <3>1, <3>2, <3>3
  <2> QED
    BY <2>1, <2>2
<1> QED
  BY <1>4, <1>5, <1>6, <1>7 DEF r

(* The knob then says where the view begins: never beyond the samples. *)
LEMMA ShownKeeps ==
  ASSUME TypeOK, NEW r \in LoggerType, CountsAll(r), CountInv(r), r.address > 0,
         NEW s, s = IF knob.scrolls THEN Scrolled(r) ELSE Zoomed(r)
  PROVE  /\ s \in LoggerType
         /\ s.address = r.address /\ s.full = r.full /\ s.total = r.total
         /\ CountsAll(s) /\ CountInv(s)
<1> DEFINE Same ==
             /\ s \in LoggerType /\ s.address = r.address /\ s.full = r.full
             /\ s.total = r.total /\ s.samples = r.samples
             /\ s.scroll <= r.address \/ s.scroll = r.scroll
           address == r.address
           rotary  == knob.rotary
           turned  == knob.scrollRotary
<1>1. /\ rotary \in Nat \ {0} /\ rotary \in Int /\ turned \in Int /\ knob.scrolls \in BOOLEAN
      /\ address \in Int /\ r.auto \in BOOLEAN /\ r.scroll \in Int /\ r.oldRot \in Int
  BY DEF TypeOK, LoggerType
<1>2. Same
  <2>1. CASE ~knob.scrolls /\ ZoomTurned(r)
    <3>1. s = [r EXCEPT !.scroll = address, !.oldRot = rotary]
      BY <2>1 DEF Zoomed
    <3> HIDE DEF address, rotary
    <3>2. s \in LoggerType
      BY <3>1, <1>1 DEF LoggerType
    <3>3. /\ s.scroll = address /\ s.address = r.address /\ s.full = r.full
          /\ s.total = r.total /\ s.samples = r.samples
      BY <3>1 DEF LoggerType
    <3> QED
      BY <1>1, <3>2, <3>3 DEF address
  <2>2. CASE ~knob.scrolls /\ ~ZoomTurned(r)
    <3>1. s = [r EXCEPT !.scroll = address, !.perPoint = rotary]
      BY <2>2 DEF Zoomed
    <3> HIDE DEF address, rotary
    <3>2. s \in LoggerType
      BY <3>1, <1>1 DEF LoggerType
    <3>3. /\ s.scroll = address /\ s.address = r.address /\ s.full = r.full
          /\ s.total = r.total /\ s.samples = r.samples
      BY <3>1 DEF LoggerType
    <3> QED
      BY <1>1, <3>2, <3>3 DEF address
  <2>3. CASE knob.scrolls /\ ~ScrollTurned(r)
    <3> DEFINE scroll == IF r.auto THEN address ELSE r.scroll
    <3>1. s = [r EXCEPT !.scroll = scroll]
      BY <2>3 DEF Scrolled, Follows
    <3>2. scroll \in Int /\ (scroll <= address \/ scroll = r.scroll)
      BY <1>1
    <3> HIDE DEF scroll
    <3>3. s \in LoggerType
      BY <3>1, <3>2 DEF LoggerType
    <3>4. /\ s.scroll = scroll /\ s.address = r.address /\ s.full = r.full
          /\ s.total = r.total /\ s.samples = r.samples
      BY <3>1 DEF LoggerType
    <3> QED
      BY <3>2, <3>3, <3>4
  <2>4. CASE knob.scrolls /\ Follows(r)
    <3> DEFINE auto   == TRUE
               oldRot == 0
    <3>1. s = [r EXCEPT !.auto = auto, !.scroll = address, !.oldRot = oldRot]
      BY <2>4 DEF Scrolled, Follows
    <3>a. auto \in BOOLEAN /\ oldRot \in Int
      OBVIOUS
    <3> HIDE DEF address, auto, oldRot
    <3>2. s \in LoggerType
      BY <3>1, <3>a, <1>1 DEF LoggerType
    <3>3. /\ s.scroll = address /\ s.address = r.address /\ s.full = r.full
          /\ s.total = r.total /\ s.samples = r.samples
      BY <3>1 DEF LoggerType
    <3> QED
      BY <1>1, <3>2, <3>3 DEF address
  <2>5. CASE knob.scrolls /\ ScrollTurned(r) /\ ~Follows(r)
    <3> DEFINE scroll == IF r.auto THEN address - turned ELSE r.scroll - (turned - r.oldRot)
    <3>1. s = Moved(r)
      BY <2>5 DEF Scrolled
    <3>2. Moved(r) = [r EXCEPT !.auto = FALSE, !.oldRot = turned, !.scroll = scroll]
      BY DEF Moved
    <3>3. scroll \in Int
      BY <1>1
    <3>4. ~(address - s.scroll <= 0)
      BY <2>5, <3>1 DEF Follows
    <3> HIDE DEF scroll, address, turned
    <3>5. s \in LoggerType
      BY <3>1, <3>2, <3>3, <1>1 DEF LoggerType
    <3>6. /\ s.scroll = scroll /\ s.address = r.address /\ s.full = r.full
          /\ s.total = r.total /\ s.samples = r.samples
      BY <3>1, <3>2 DEF LoggerType
    <3> QED
      BY <1>1, <3>3, <3>4, <3>5, <3>6 DEF address
  <2> QED
    BY <2>1, <2>2, <2>3, <2>4, <2>5, <1>1 DEF Follows
<1>3. /\ r.address \in 0 .. MaxSize /\ r.full \in BOOLEAN /\ r.total \in Nat
      /\ s.scroll \in Int
  BY <1>2 DEF LoggerType
<1>4. CountsAll(s) /\ CountInv(s)
  BY <1>1, <1>2, <1>3, LoggerAssumption DEF CountsAll, CountInv
<1> QED
  BY <1>2, <1>4

-----------------------------------------------------------------------------
(* The view made of the ring. *)

(* The j-th sample back from the place scrolled to is the j-th before the  *)
(* latest of the view.                                                     *)
LEMMA EarlierSample ==
  ASSUME NEW l \in LoggerType, NEW mem, CountInv(l), RingInv(l, mem), l.scroll >= 0,
         NEW j \in Nat \ {0}, j <= MaxSize, l.total - Lag(l) - j + 1 >= 1,
         l.full => Lag(l) + j <= MaxSize
  PROVE  /\ Earlier(l, j) \in Addresses
         /\ mem[Earlier(l, j)] = l.total - Lag(l) - j + 1
<1> DEFINE a == Earlier(l, j)
<1>1. a \in Addresses /\ Age(a, l) = Lag(l) + j - 1 /\ Lag(l) \in Nat
  BY LoggerAssumption DEF LoggerType, CountInv, Earlier, Addresses, Age, Lag
<1>2. mem[a] = IF Age(a, l) < l.total THEN l.total - Age(a, l) ELSE 0
  BY <1>1 DEF RingInv
<1> QED
  BY <1>1, <1>2 DEF LoggerType

LEMMA Products ==
  ASSUME NEW n \in Nat \ {0}, NEW i \in 1 .. Window
  PROVE  /\ (i - 1) * n \in Nat /\ i * n \in Nat /\ Window * n \in Nat
         /\ i * n = (i - 1) * n + n /\ i * n <= Window * n
<1>1. Window \in Nat /\ i \in Nat /\ i - 1 \in Nat /\ Window - i \in Nat
  BY LoggerAssumption
<1>2. \A a, b \in Nat : a * b \in Nat
  OBVIOUS
<1>3. (i - 1) * n \in Nat /\ i * n \in Nat /\ Window * n \in Nat /\ (Window - i) * n \in Nat
  BY <1>1, <1>2
<1>4. i * n = (i - 1) * n + n
  BY <1>1
<1>5. Window * n = i * n + (Window - i) * n
  BY <1>1
<1> QED
  BY <1>3, <1>4, <1>5

(* A point of the view ends in the begin of the recording just when there  *)
(* are not enough samples for it.                                          *)
LEMMA EndsWhere ==
  ASSUME NEW l \in LoggerType, CountInv(l), Once(l), l.full => Lag(l) + Window * l.perPoint <= MaxSize,
         NEW last \in Nat \ {0}, last <= Window * l.perPoint
  PROVE  (\E j \in 1 .. last : Back(l)[j - 1] = 0 /\ ~l.full) <=> l.total - Lag(l) < last
<1> DEFINE reach == Window * l.perPoint
<1>1. /\ l.address \in 0 .. MaxSize /\ l.full \in BOOLEAN /\ l.total \in Nat /\ l.scroll \in Nat
      /\ Lag(l) \in Int
  BY LoggerAssumption DEF LoggerType, Once, Lag
<1>2. reach \in Nat
  BY Reaches DEF Once
<1>3. \A j \in 1 .. last : Back(l)[j - 1] = Earlier(l, j - 1)
  BY <1>2, BackIs
<1>4. CASE l.full
  BY <1>1, <1>2, <1>4, LoggerAssumption DEF CountInv
<1>5. CASE ~l.full
  <2>1. l.total - Lag(l) = l.scroll
    BY <1>1, <1>5 DEF CountInv, Lag
  <2>2. ASSUME l.scroll < last
        PROVE  \E j \in 1 .. last : Back(l)[j - 1] = 0 /\ ~l.full
    <3>1. l.scroll + 1 \in 1 .. last /\ (l.scroll + 1) - 1 = l.scroll
      BY <1>1, <2>2
    <3>2. Back(l)[(l.scroll + 1) - 1] = Earlier(l, l.scroll)
      BY <1>3, <3>1
    <3>3. Earlier(l, l.scroll) = 0
      BY <1>1 DEF Earlier
    <3> QED
      BY <1>5, <3>1, <3>2, <3>3
  <2>3. ASSUME NEW j \in 1 .. last, Back(l)[j - 1] = 0
        PROVE  l.scroll < last
    <3>1. Earlier(l, j - 1) = 0
      BY <1>3, <2>3
    <3> QED
      BY <1>1, <1>5, <3>1 DEF Earlier
  <2> QED
    BY <2>1, <2>2, <2>3
<1> QED
  BY <1>4, <1>5, <1>1

LEMMA PointIsHistory ==
  ASSUME NEW l \in LoggerType, NEW mem, CountInv(l), RingInv(l, mem), l.scroll >= 0,
         l.full => Lag(l) + Window * l.perPoint <= MaxSize, NEW i \in 1 .. Window
  PROVE  Points(l, mem)[i] = Point(l.total - Lag(l) - (i - 1) * l.perPoint, l.perPoint)
<1> DEFINE n      == l.perPoint
           reach  == Window * n
           before == (i - 1) * n
           last   == i * n
           latest == l.total - Lag(l) - before
           Read(j) == IF Back(l)[j] \in Addresses THEN mem[Back(l)[j]] ELSE Outside
           ends    == \E j \in 1 .. last : Back(l)[j - 1] = 0 /\ ~l.full
<1>1. /\ l.address \in 0 .. MaxSize /\ l.full \in BOOLEAN /\ l.total \in Nat /\ l.scroll \in Nat
      /\ n \in Nat \ {0} /\ Lag(l) \in Nat
  BY LoggerAssumption DEF LoggerType, CountInv, Lag
<1>2. before \in Nat /\ last \in Nat /\ reach \in Nat /\ last = before + n /\ last <= reach
  BY <1>1, Products
<1>3. Once(l)
  <2> HIDE DEF reach
  <2>1. l.full => reach <= MaxSize
    BY <1>1, <1>2, LoggerAssumption DEF reach
  <2> QED
    BY <1>1, <2>1, LoggerAssumption DEF Once, CountInv, reach
<1>4. Points(l, mem)[i] = IF ends THEN <<>> ELSE [s \in 1 .. n |-> Read(before + s)]
  BY DEF Points
<1>5. ends <=> l.total - Lag(l) < last
  <2>1. last \in Nat \ {0}
    BY <1>1, <1>2
  <2> QED
    BY <1>2, <1>3, <2>1, EndsWhere
<1>6. ASSUME l.total - Lag(l) >= last, NEW s \in 1 .. n
      PROVE  Read(before + s) = latest - s + 1
  <2> DEFINE j == before + s
  <2>1. j \in Nat \ {0} /\ j <= last /\ j \in 0 .. reach
    BY <1>1, <1>2
  <2>2. l.total - Lag(l) - j + 1 >= 1 /\ l.total - Lag(l) - j + 1 = latest - s + 1
    BY <1>1, <1>2, <1>6
  <2>3. j <= MaxSize /\ (l.full => Lag(l) + j <= MaxSize)
    <3> HIDE DEF j, reach, last
    <3>1. l.full => Lag(l) + reach <= MaxSize
      BY DEF reach
    <3>2. CASE l.full
      BY <3>1, <3>2, <2>1, <1>1, <1>2, LoggerAssumption
    <3>3. CASE ~l.full
      BY <3>3, <2>2, <2>1, <1>1, LoggerAssumption DEF CountInv, Lag
    <3> QED
      BY <3>2, <3>3
  <2>4. Back(l)[j] = Earlier(l, j)
    BY <1>3, <2>1, BackIs
  <2> HIDE DEF j
  <2>5. Earlier(l, j) \in Addresses /\ mem[Earlier(l, j)] = l.total - Lag(l) - j + 1
    BY <2>1, <2>2, <2>3, EarlierSample
  <2> QED
    BY <2>2, <2>4, <2>5 DEF j
<1> HIDE DEF n, last, before, ends, Read, latest
<1>7. CASE l.total - Lag(l) < last
  <2>1. ~(latest - n + 1 >= 1)
    BY <1>1, <1>2, <1>7 DEF latest
  <2> QED
    BY <1>4, <1>5, <1>7, <2>1 DEF Point, latest, before, n
<1>8. CASE l.total - Lag(l) >= last
  <2>1. latest - n + 1 >= 1 /\ ~ends
    BY <1>1, <1>2, <1>5, <1>8 DEF latest
  <2>2. [s \in 1 .. n |-> Read(before + s)] = [s \in 1 .. n |-> latest - s + 1]
    BY <1>6, <1>8
  <2>3. Point(latest, n) = [s \in 1 .. n |-> latest - s + 1]
    BY <2>1 DEF Point
  <2> QED
    BY <1>4, <2>1, <2>2, <2>3 DEF latest, before, n
<1> QED
  BY <1>1, <1>2, <1>7, <1>8

-----------------------------------------------------------------------------
(* The invariant. *)

LEMMA Initially == Init => IInv
<1> SUFFICES ASSUME Init PROVE IInv
  OBVIOUS
<1> USE LoggerAssumption
<1>1. TypeOK
  <2>1. logger \in LoggerType /\ CountsAll(logger)
    BY DEF Init, LoggerType, CountsAll
  <2>2. memory \in [Addresses -> Nat]
    BY DEF Init
  <2>3. knob \in [rotary : Nat \ {0}, scrollRotary : Int, scrolls : BOOLEAN]
    BY DEF Init
  <2> QED
    BY <2>1, <2>2, <2>3 DEF Init, TypeOK, LoggerType, CountsAll
<1>2. KnobInv /\ CountInv(logger) /\ ViewInv
  BY DEF Init, KnobInv, CountInv, ViewInv
<1>3. RingInv(logger, memory)
  BY DEF Init, RingInv, Age, Addresses
<1>4. ViewIsHistory
  <2> SUFFICES ASSUME NEW i \in 1 .. Window
               PROVE  view.points[i] = Point(view.total - view.lag - (i - 1) * view.perPoint,
                                             view.perPoint)
    BY DEF ViewIsHistory
  <2>1. view.points[i] = <<>> /\ view.total = 0 /\ view.lag = 0 /\ view.perPoint = 1
    BY DEF Init
  <2>2. ~(0 - 0 - (i - 1) * 1 - 1 + 1 >= 1)
    OBVIOUS
  <2> QED
    BY <2>1, <2>2 DEF Point
<1> QED
  BY <1>1, <1>2, <1>3, <1>4 DEF IInv

(* What a recorded sample does to all of it, and to the view. *)
LEMMA RegisterStep ==
  ASSUME IInv, RegisterValue2
  PROVE  /\ IInv'
         /\ logger'.total = logger.total + 1
         /\ view' = view \/ (view'.total = logger'.total)
<1> DEFINE r == Recorded(logger)
           s == IF knob.scrolls THEN Scrolled(r) ELSE Zoomed(r)
<1>1. /\ memory \in [Addresses -> Nat] /\ logger \in LoggerType /\ CountsAll(logger)
      /\ CountInv(logger) /\ RingInv(logger, memory)
      /\ knob \in [rotary : Nat \ {0}, scrollRotary : Int, scrolls : BOOLEAN]
  BY DEF IInv, TypeOK, LoggerType, CountsAll
<1>2. /\ memory' = [memory EXCEPT ![r.address - 1] = r.total]
      /\ logger' = s
      /\ knob' = IF Follows(r) THEN [knob EXCEPT !.scrollRotary = 0] ELSE knob
      /\ view' = IF InSync(s) \/ ZoomTurned(r) THEN ViewOf(s, memory', InSync(s)) ELSE view
      /\ turn' = turn
  BY DEF RegisterValue2
<1>3. /\ r \in LoggerType /\ r.total = logger.total + 1 /\ CountsAll(r) /\ CountInv(r)
      /\ r.address > 0 /\ r.address - 1 \in Addresses /\ RingInv(r, memory')
  BY <1>1, <1>2, RecordedKeeps
<1> HIDE DEF r
<1>4. /\ s \in LoggerType /\ s.address = r.address /\ s.full = r.full /\ s.total = r.total
      /\ CountsAll(s) /\ CountInv(s)
  BY <1>3, ShownKeeps DEF IInv
<1> HIDE DEF s
<1>5. memory' \in [Addresses -> Nat]
  BY <1>1, <1>2, <1>3 DEF LoggerType
<1>6. RingInv(s, memory')
  BY <1>3, <1>4 DEF RingInv, Age
<1>7. /\ knob' \in [rotary : Nat \ {0}, scrollRotary : Int, scrolls : BOOLEAN]
      /\ KnobInv'
  <2>1. CASE Follows(r)
    BY <1>1, <1>2, <2>1, LoggerAssumption DEF IInv, KnobInv
  <2>2. CASE ~Follows(r)
    BY <1>1, <1>2, <2>2 DEF IInv, KnobInv
  <2> QED
    BY <2>1, <2>2
<1>8. TypeOK'
  <2>1. logger' \in LoggerType /\ CountsAll(logger')
    BY <1>2, <1>4
  <2> QED
    BY <1>2, <1>5, <1>7, <2>1 DEF IInv, TypeOK, LoggerType, CountsAll
<1>9. logger'.total = logger.total + 1
  BY <1>2, <1>3, <1>4
<1>10. CASE view' = view
  <2>1. ViewInv' /\ ViewIsHistory'
    BY <1>1, <1>9, <1>10 DEF IInv, ViewInv, ViewIsHistory, Holds, LoggerType
  <2> QED
    BY <1>2, <1>4, <1>6, <1>7, <1>8, <1>9, <1>10, <2>1 DEF IInv
<1>11. CASE view' = ViewOf(s, memory', InSync(s))
  <2>1. /\ view'.points = Points(s, memory') /\ view'.perPoint = s.perPoint
        /\ view'.total = s.total /\ view'.lag = Lag(s) /\ view'.scroll = s.scroll
        /\ view'.full = s.full /\ view'.inSync = InSync(s)
    BY <1>11 DEF ViewOf
  <2>2. s.perPoint \in Nat \ {0} /\ s.total \in Nat /\ Lag(s) \in Int
    BY <1>4, LoggerAssumption DEF LoggerType, Lag
  <2>3. ViewInv'
    <3>1. view'.inSync => s.total % s.perPoint = 0
      BY <2>1 DEF InSync
    <3>2. logger'.total = s.total
      BY <1>2
    <3> QED
      BY <2>1, <2>2, <3>1, <3>2 DEF ViewInv
  <2>4. ViewIsHistory'
    <3> SUFFICES ASSUME Holds(view'), NEW i \in 1 .. Window
                 PROVE  view'.points[i] = Point(view'.total - view'.lag - (i - 1) * view'.perPoint,
                                                view'.perPoint)
      BY DEF ViewIsHistory
    <3>1. s.scroll >= 0 /\ (s.full => Lag(s) + Window * s.perPoint <= MaxSize)
      BY <2>1 DEF Holds
    <3>2. Points(s, memory')[i] = Point(s.total - Lag(s) - (i - 1) * s.perPoint, s.perPoint)
      BY <1>4, <1>6, <3>1, PointIsHistory
    <3> QED
      BY <2>1, <3>2
  <2>5. view'.total = logger'.total
    BY <1>2, <2>1
  <2> QED
    BY <1>2, <1>4, <1>6, <1>7, <1>8, <1>9, <2>3, <2>4, <2>5 DEF IInv
<1> QED
  BY <1>2, <1>10, <1>11

LEMMA KnobStep ==
  ASSUME IInv, BeginTurn \/ (\E change \in Turns : EndTurn(change)) \/ RotarySwitch
  PROVE  IInv'
<1>1. memory' = memory /\ logger' = logger /\ view' = view
  BY DEF BeginTurn, EndTurn, RotarySwitch
<1>2. /\ CountInv(logger)' /\ RingInv(logger, memory)' /\ ViewInv' /\ ViewIsHistory'
  BY <1>1 DEF IInv, CountInv, RingInv, Age, ViewInv, ViewIsHistory, Holds
<1>3. /\ knob \in [rotary : Nat \ {0}, scrollRotary : Int, scrolls : BOOLEAN]
      /\ knob.rotary <= MaxRotary /\ knob.scrollRotary \in -MaxRotary .. MaxRotary
      /\ turn \in { <<v>> : v \in -MaxRotary .. MaxRotary } \cup {NoTurn}
  BY DEF IInv, TypeOK, KnobInv
<1> DEFINE Kept ==
             /\ knob' \in [rotary : Nat \ {0}, scrollRotary : Int, scrolls : BOOLEAN]
             /\ knob'.rotary <= MaxRotary /\ knob'.scrollRotary \in -MaxRotary .. MaxRotary
             /\ turn' \in { <<v>> : v \in -MaxRotary .. MaxRotary } \cup {NoTurn}
<1>4. Kept
  <2>1. CASE BeginTurn
    <3>1. Current \in -MaxRotary .. MaxRotary
      BY <1>3, LoggerAssumption DEF Current
    <3> QED
      BY <1>3, <2>1, <3>1 DEF BeginTurn
  <2>2. ASSUME NEW change \in Turns, EndTurn(change)
        PROVE  Kept
    <3> DEFINE to == turn[1] + change
               rotary == IF to < 1 THEN 1 ELSE to
    <3>1. /\ to \in -MaxRotary .. MaxRotary /\ turn' = NoTurn
          /\ knob' = IF knob.scrolls THEN [knob EXCEPT !.scrollRotary = to]
                     ELSE [knob EXCEPT !.rotary = rotary]
      BY <2>2 DEF EndTurn
    <3>2. rotary \in Nat \ {0} /\ rotary <= MaxRotary
      BY <3>1, LoggerAssumption
    <3> HIDE DEF to, rotary
    <3> QED
      BY <1>3, <3>1, <3>2, LoggerAssumption
  <2>3. CASE RotarySwitch
    BY <1>3, <2>3 DEF RotarySwitch
  <2> QED
    BY <2>1, <2>2, <2>3
<1>5. TypeOK' /\ KnobInv'
  BY <1>1, <1>4 DEF IInv, TypeOK, KnobInv
<1> QED
  BY <1>2, <1>5 DEF IInv

LEMMA Step == IInv /\ [Next]_vars => IInv'
<1> SUFFICES ASSUME IInv, [Next]_vars PROVE IInv'
  OBVIOUS
<1>1. CASE RegisterValue2
  BY <1>1, RegisterStep
<1>2. CASE BeginTurn \/ (\E change \in Turns : EndTurn(change)) \/ RotarySwitch
  BY <1>2, KnobStep
<1>3. CASE UNCHANGED vars
  BY <1>3 DEF vars, IInv, TypeOK, KnobInv, CountInv, RingInv, Age, ViewInv, ViewIsHistory, Holds
<1> QED
  BY <1>1, <1>2, <1>3 DEF Next

LEMMA Invariant == Spec => []IInv
BY Initially, Step, PTL DEF Spec

(* The samples counted and the addresses, with the types. *)
THEOREM TypeCorrect == Spec => []TypeOK
<1>1. IInv => TypeOK
  BY DEF IInv
<1> QED
  BY <1>1, Invariant, PTL

(* The view is the recording back from where it was scrolled to, through   *)
(* the end of the ring and around it.                                      *)
THEOREM ViewTruthful == Spec => []ViewIsHistory
<1>1. IInv => ViewIsHistory
  BY DEF IInv
<1> QED
  BY <1>1, Invariant, PTL

-----------------------------------------------------------------------------
(* The view moves by whole points. *)

LEMMA WholePoints ==
  ASSUME NEW n \in Nat \ {0}, NEW was \in Nat, NEW is \in Nat, was < is,
         was % n = 0, is % n = 0, NEW i \in Nat \ {0}
  PROVE  \/ is - (i - 1) * n >= was + n
         \/ \E j \in 1 .. i : is - (i - 1) * n = was - (j - 1) * n
<1> DEFINE p == was \div n
           q == is \div n
<1>1. p \in Nat /\ q \in Nat /\ was = p * n /\ is = q * n
  OBVIOUS
<1> HIDE DEF p, q
<1>2. p < q
  <2> SUFFICES ASSUME q <= p PROVE FALSE
    BY <1>1
  <2>1. (p - q) * n \in Nat
    BY <1>1
  <2>2. p * n = q * n + (p - q) * n
    BY <1>1
  <2> QED
    BY <1>1, <2>1, <2>2
<1>3. CASE i <= q - p
  <2>1. q - p - i \in Nat /\ (q - p - i) * n \in Nat
    BY <1>1, <1>3
  <2>2. q * n - (i - 1) * n = p * n + n + (q - p - i) * n
    BY <1>1
  <2>3. p * n \in Nat
    BY <1>1
  <2> QED
    BY <1>1, <2>1, <2>2, <2>3
<1>4. CASE i > q - p
  <2>1. i - (q - p) \in 1 .. i
    BY <1>1, <1>2, <1>4
  <2>2. q * n - (i - 1) * n = p * n - ((i - (q - p)) - 1) * n
    BY <1>1
  <2> QED
    BY <1>1, <2>1, <2>2
<1> QED
  BY <1>1, <1>3, <1>4

(* A point of the new view is one of the old, or of samples since. *)
LEMMA PointStays ==
  ASSUME IInv, IInv', RegisterValue2, Slides(view), Slides(view'),
         view'.perPoint = view.perPoint, NEW i \in 1 .. Window
  PROVE  \/ view'.points[i] \in { view.points[j] : j \in 1 .. Window }
         \/ \A s \in DOMAIN view'.points[i] : view'.points[i][s] > view.total
<1>1. CASE view' = view
  BY <1>1
<1>2. CASE view'.total = logger'.total
  <2> DEFINE n == view.perPoint
             was == view.total
             is == view'.total
  <2>1. n \in Nat \ {0} /\ was \in Nat /\ is \in Nat /\ was < is
    BY <1>2, RegisterStep DEF IInv, ViewInv, TypeOK
  <2>2. was % n = 0 /\ is % n = 0 /\ view'.perPoint = n
    BY DEF IInv, ViewInv, Slides
  <2>3. i \in Nat \ {0} /\ \A j \in 1 .. i : j \in 1 .. Window
    BY LoggerAssumption
  <2>4. \A j \in 1 .. Window : view.points[j] = Point(was - (j - 1) * n, n)
    <3>1. view.lag = 0 /\ Holds(view)
      BY DEF Slides
    <3>2. \A j \in 1 .. Window : view.points[j] = Point(was - view.lag - (j - 1) * n, n)
      BY <3>1 DEF IInv, ViewIsHistory
    <3>3. was - view.lag = was
      BY <2>1, <3>1
    <3> QED
      BY <3>2, <3>3
  <2>5. view'.points[i] = Point(is - (i - 1) * n, n)
    <3>1. view'.lag = 0 /\ Holds(view')
      BY DEF Slides
    <3>2. view'.points[i] = Point(is - view'.lag - (i - 1) * n, n)
      BY <2>2, <3>1 DEF IInv, ViewIsHistory
    <3>3. is - view'.lag = is
      BY <2>1, <3>1
    <3> QED
      BY <3>2, <3>3
  <2> HIDE DEF n, was, is
  <2>6. CASE is - (i - 1) * n >= was + n
    <3> DEFINE latest == is - (i - 1) * n
    <3>1. latest \in Int
      BY <2>1, <2>3
    <3> HIDE DEF latest
    <3>2. \A s \in DOMAIN Point(latest, n) : s \in 1 .. n /\ Point(latest, n)[s] = latest - s + 1
      BY <2>1 DEF Point
    <3>3. \A s \in DOMAIN Point(latest, n) : Point(latest, n)[s] > was
      BY <2>1, <2>6, <3>1, <3>2 DEF latest
    <3> QED
      BY <2>5, <3>3 DEF latest, was
  <2>7. CASE \E j \in 1 .. i : is - (i - 1) * n = was - (j - 1) * n
    BY <2>3, <2>4, <2>5, <2>7
  <2>8. is - (i - 1) * n >= was + n \/ \E j \in 1 .. i : is - (i - 1) * n = was - (j - 1) * n
    <3>1. was % n = 0 /\ is % n = 0
      BY <2>2
    <3> QED
      BY <2>1, <2>3, <3>1, WholePoints
  <2> QED
    BY <2>6, <2>7, <2>8
<1> QED
  BY <1>1, <1>2, RegisterStep

(* While the view follows with one zoom, a sample stays in the point it is *)
(* in: the graph does not shiver.                                          *)
THEOREM PointsKept == Spec => PointsStay
<1>1. IInv /\ IInv' /\ [Next]_vars
        => [Slides(view) /\ Slides(view') /\ view'.perPoint = view.perPoint =>
              \A i \in 1 .. Window :
                \/ view'.points[i] \in { view.points[j] : j \in 1 .. Window }
                \/ \A s \in DOMAIN view'.points[i] : view'.points[i][s] > view.total]_vars
  <2> SUFFICES ASSUME IInv, IInv', Next, Slides(view), Slides(view'),
                      view'.perPoint = view.perPoint, NEW i \in 1 .. Window
               PROVE  \/ view'.points[i] \in { view.points[j] : j \in 1 .. Window }
                      \/ \A s \in DOMAIN view'.points[i] : view'.points[i][s] > view.total
    OBVIOUS
  <2>1. CASE RegisterValue2
    BY <2>1, PointStays
  <2>2. CASE BeginTurn \/ (\E change \in Turns : EndTurn(change)) \/ RotarySwitch
    <3>1. view' = view
      BY <2>2 DEF BeginTurn, EndTurn, RotarySwitch
    <3> QED
      BY <3>1
  <2> QED
    BY <2>1, <2>2 DEF Next
<1> QED
  BY <1>1, Invariant, PTL DEF Spec, PointsStay
=============================================================================
