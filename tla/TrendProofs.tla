---------------------------- MODULE TrendProofs -----------------------------
(***************************************************************************)
(* Proofs about Trends, for every measuring range, limit, size of the ring *)
(* and window: the short trend covers what it shows and forgets what was   *)
(* cleared; the graph of the log memory is history.                        *)
(*                                                                         *)
(* The argument for the log: looking back from where the interrupt writes  *)
(* next, the ring holds the entries in order.  What the loop reads lies as *)
(* many entries back as it has read and as were recorded since it began;   *)
(* together these are fewer than the ring has, so the writer never reaches *)
(* the reader.                                                             *)
(***************************************************************************)
EXTENDS Trends, TLAPS, WellFoundedInduction

(* ClearForgets is inductive with the samples gathered: once they are of   *)
(* the time before CLEAR, the graph is empty of it.                        *)
Gathered ==
  (\E i \in DOMAIN prelim : prelim[i].old) => \A p \in DOMAIN trend : \A s \in trend[p] : ~s.old

StatsInv == StatsTypeOK /\ ExtentCoversGraph /\ ClearForgets /\ Gathered

(* How many entries were recorded after the one at an address. *)
Age(adr, current) == IF adr < current THEN current - 1 - adr ELSE current + MaxLogAddress - adr

RingInv ==
  /\ ~log.full => log.written = log.current
  /\ log.full => log.written > MaxLogAddress
  /\ \A a \in Addresses :
       ram[a] = IF Age(a, log.current) < log.written
                THEN log.written - Age(a, log.current) ELSE 0

(* The address is k entries back from the latest when there were n of      *)
(* them: the place where the next entry goes counts as one before it.      *)
Behind(adr, l, k, n) == \/ Age(adr, l.current) = l.written - n + k - 1
                        \/ l.written - n + k = 0 /\ adr = l.current

AxisInv ==
  frame.pass = "axis" =>
    /\ frame.begun <= log.written /\ log.written <= frame.begun + FrameWrites
    /\ frame.line = <<>>
    /\ \A j \in 1 .. frame.begun : j < frame.i => frame.begun - j + 1 \in frame.axis
    /\ frame.at = "read" => /\ frame.i < Window /\ frame.i <= frame.begun
                            /\ Behind(frame.adr, log, frame.i, frame.begun)
                            /\ frame.i > 0 => frame.begun - frame.i + 1 > 0
    /\ frame.at = "next" => /\ frame.i > 0 /\ frame.i <= frame.begun + 1
                            /\ Behind(frame.adr, log, frame.i - 1, frame.begun)

AxisDone == \A j \in 1 .. frame.begun : j < Window => frame.begun - j + 1 \in frame.axis

LineInv ==
  frame.pass = "line" =>
    /\ frame.begun <= frame.first /\ frame.first <= log.written
    /\ log.written <= frame.begun + FrameWrites
    /\ AxisDone
    /\ Len(frame.line) = frame.i
    /\ frame.at = "read" => frame.i < Window /\ frame.i < frame.first
                            /\ Behind(frame.adr, log, frame.i + 1, frame.first)
    /\ frame.at = "next" => frame.i <= frame.first /\ Behind(frame.adr, log, frame.i, frame.first)

DoneInv ==
  frame.pass = "none" =>
    /\ AxisDone /\ frame.begun <= frame.first
    /\ Len(frame.line) <= Window /\ Len(frame.line) <= frame.first

LogInv == LogTypeOK /\ RingInv /\ AxisInv /\ LineInv /\ DoneInv /\ LineIsHistory

IInv == StatsInv /\ LogInv
-----------------------------------------------------------------------------
(* A bounded set of integers has a least and a greatest element.           *)

Less == {ss \in Nat \X Nat : ss[1] < ss[2]}

LEMMA NatMinimum ==
  ASSUME NEW T, T \subseteq Nat, T # {}
  PROVE  \E x \in T : \A y \in T : x <= y
<1>1. OpToRel(<, Nat) = Less
  BY Zenon DEF OpToRel, Less
<1>2. PICK x \in T : \A y \in T : ~(<<y, x>> \in Less)
  BY <1>1, WFMin, NatLessThanWellFounded
<1>3. \A y \in T : x <= y
  <2> SUFFICES ASSUME NEW y \in T, y < x PROVE FALSE
    OBVIOUS
  <2>1. <<y, x>> \in Nat \X Nat /\ <<y, x>>[1] < <<y, x>>[2]
    OBVIOUS
  <2>2. <<y, x>> \in Less
    BY <2>1 DEF Less
  <2> QED
    BY <1>2, <2>2
<1> QED
  BY <1>3

LEMMA LeastFact ==
  ASSUME NEW S, NEW low \in Int, S \subseteq Int, S # {}, \A v \in S : low <= v
  PROVE  Least(S) \in S /\ \A v \in S : Least(S) <= v
<1> DEFINE T == {n \in Nat : \E v \in S : n = v - low}
<1>1. \A v \in S : v - low \in T
  OBVIOUS
<1>2. PICK x \in T : \A y \in T : x <= y
  BY <1>1, NatMinimum
<1>3. PICK least \in S : x = least - low
  OBVIOUS
<1> HIDE DEF T
<1>4. \A v \in S : least <= v
  <2> TAKE v \in S
  <2>1. x <= v - low
    BY <1>1, <1>2
  <2> QED
    BY <1>3, <2>1
<1> QED
  BY <1>4 DEF Least

LEMMA GreatestFact ==
  ASSUME NEW S, NEW high \in Int, S \subseteq Int, S # {}, \A v \in S : v <= high
  PROVE  Greatest(S) \in S /\ \A v \in S : v <= Greatest(S)
<1> DEFINE T == {n \in Nat : \E v \in S : n = high - v}
<1>1. \A v \in S : high - v \in T
  OBVIOUS
<1>2. PICK x \in T : \A y \in T : x <= y
  BY <1>1, NatMinimum
<1>3. PICK greatest \in S : x = high - greatest
  OBVIOUS
<1> HIDE DEF T
<1>4. \A v \in S : v <= greatest
  <2> TAKE v \in S
  <2>1. x <= high - v
    BY <1>1, <1>2
  <2> QED
    BY <1>3, <2>1
<1> QED
  BY <1>4 DEF Greatest

-----------------------------------------------------------------------------
(* The short trend. *)

(* The extent of points that are not all empty is theirs.                  *)
LEMMA ExtentFact ==
  ASSUME NEW points, UNION { points[p] : p \in DOMAIN points } \subseteq Samples,
         UNION { points[p] : p \in DOMAIN points } # {}
  PROVE  /\ Extent(points) \in [minimum : Int, maximum : Int]
         /\ \A v \in ValuesIn(points) : Extent(points).minimum <= v /\ v <= Extent(points).maximum
<1> DEFINE all == UNION { points[p] : p \in DOMAIN points }
<1>1. ValuesIn(points) = { s.v : s \in all }
  BY Zenon DEF ValuesIn
<1> HIDE DEF all
<1>2. \A s \in all : s.v \in Values
  BY DEF Samples, all
<1>3. \A v \in Values : v \in Int /\ -FullScale <= v /\ v <= FullScale
  BY ValuesAssumption
<1>4. ValuesIn(points) # {} /\ ValuesIn(points) \subseteq Values
  BY <1>1, <1>2 DEF all
<1> DEFINE shown == ValuesIn(points)
<1> HIDE DEF shown
<1>5. shown # {} /\ shown \subseteq Int /\ \A v \in shown : -FullScale <= v /\ v <= FullScale
  BY <1>3, <1>4 DEF shown
<1>6. -FullScale \in Int /\ FullScale \in Int
  BY ValuesAssumption
<1>7. Least(shown) \in shown /\ \A v \in shown : Least(shown) <= v
  BY <1>5, <1>6, LeastFact
<1>8. Greatest(shown) \in shown /\ \A v \in shown : v <= Greatest(shown)
  BY <1>5, <1>6, GreatestFact
<1> QED
  BY <1>5, <1>7, <1>8 DEF Extent, shown

LEMMA AddSampleKeeps ==
  ASSUME StatsInv, NEW v \in Values, AddSample(v)
  PROVE  StatsInv'
<1> DEFINE sample  == [v |-> v, old |-> FALSE]
           samples == Append(prelim, sample)
           point   == { samples[i] : i \in 1 .. limit }
<1>1. /\ prelim \in Seq(Samples) /\ Len(prelim) < MaxPrelim /\ limit \in 1 .. MaxPrelim
      /\ trend \in [0 .. TrendPoints - 1 -> SUBSET Samples] /\ endPtr \in 0 .. TrendPoints - 1
      /\ extent \in [minimum : Int, maximum : Int] /\ MaxPrelim \in Nat /\ TrendPoints \in Nat \ {0}
  BY SizesAssumption DEF StatsInv, StatsTypeOK
<1>2. sample \in Samples /\ ~sample.old
  BY DEF Samples
<1> HIDE DEF sample
<1>3. /\ samples \in Seq(Samples) /\ Len(samples) = Len(prelim) + 1
      /\ \A i \in 1 .. Len(samples) : samples[i] = IF i <= Len(prelim) THEN prelim[i] ELSE sample
  BY <1>1, <1>2
<1>4. \A i \in 1 .. Len(samples) : samples[i].old => \E j \in DOMAIN prelim : prelim[j].old
  BY <1>1, <1>2, <1>3
<1> HIDE DEF samples
<1>5. limit' = limit
  BY DEF AddSample
<1>6. CASE Len(samples) < limit
  <2>1. prelim' = samples /\ UNCHANGED <<trend, endPtr, extent>>
    BY <1>6 DEF AddSample, samples, sample
  <2>2. StatsTypeOK'
    BY <1>1, <1>3, <1>5, <1>6, <2>1 DEF StatsTypeOK
  <2>3. ExtentCoversGraph' /\ ClearForgets'
    BY <2>1 DEF StatsInv, ExtentCoversGraph, ClearForgets, ValuesIn
  <2>4. DOMAIN samples = 1 .. Len(samples)
    BY <1>3
  <2>5. Gathered'
    BY <1>4, <2>1, <2>4 DEF StatsInv, Gathered
  <2> QED
    BY <2>2, <2>3, <2>5 DEF StatsInv
<1>7. CASE ~(Len(samples) < limit)
  <2>1. /\ prelim' = <<>>
        /\ trend' = [trend EXCEPT ![endPtr] = point]
        /\ extent' = Extent(trend')
        /\ endPtr' = AfterEnd
    BY <1>7 DEF AddSample, StoreOf, samples, sample
  <2>2. \A i \in 1 .. limit : i \in 1 .. Len(samples)
    BY <1>1, <1>3, <1>7
  <2>3. point \subseteq Samples /\ samples[1] \in point
    <3>1. \A i \in 1 .. Len(samples) : samples[i] \in Samples
      BY <1>3
    <3>2. 1 \in 1 .. limit
      BY <1>1
    <3> QED
      BY <2>2, <3>1, <3>2
  <2>4. \A s \in point : s.old => \E j \in DOMAIN prelim : prelim[j].old
    BY <1>4, <2>2
  <2> HIDE DEF point
  <2>5. trend' \in [0 .. TrendPoints - 1 -> SUBSET Samples] /\ trend'[endPtr] = point
        /\ \A p \in 0 .. TrendPoints - 1 : p # endPtr => trend'[p] = trend[p]
    BY <1>1, <2>1, <2>3
  <2>6. UNION { trend'[p] : p \in DOMAIN trend' } \subseteq Samples
    BY <2>5
  <2>7. UNION { trend'[p] : p \in DOMAIN trend' } # {}
    <3>1. endPtr \in DOMAIN trend' /\ samples[1] \in trend'[endPtr]
      BY <1>1, <2>3, <2>5
    <3> QED
      BY <3>1
  <2>8. /\ extent' \in [minimum : Int, maximum : Int]
        /\ \A w \in ValuesIn(trend') : extent'.minimum <= w /\ w <= extent'.maximum
    <3> DEFINE points == trend'
    <3>1. /\ UNION { points[p] : p \in DOMAIN points } \subseteq Samples
          /\ UNION { points[p] : p \in DOMAIN points } # {}
      BY <2>6, <2>7
    <3>2. extent' = Extent(points)
      BY <2>1
    <3> HIDE DEF points
    <3>3. /\ extent' \in [minimum : Int, maximum : Int]
          /\ \A w \in ValuesIn(points) : extent'.minimum <= w /\ w <= extent'.maximum
      BY ONLY <3>1, <3>2, ExtentFact
    <3> QED
      BY <3>3 DEF points
  <2>9. endPtr' \in 0 .. TrendPoints - 1
    BY <1>1, <2>1 DEF AfterEnd
  <2>10. StatsTypeOK'
    BY <1>1, <1>5, <2>1, <2>5, <2>8, <2>9 DEF StatsTypeOK
  <2>11. ExtentCoversGraph'
    BY <2>8 DEF ExtentCoversGraph, ValuesIn
  <2>12. ClearForgets'
    <3> SUFFICES ASSUME NEW p \in 0 .. TrendPoints - 1, NEW q \in 0 .. TrendPoints - 1, p # q,
                        NEW s \in trend'[p], s.old, NEW t \in trend'[q], t.old
                 PROVE  FALSE
      BY <2>5 DEF ClearForgets
    <3>1. CASE p # endPtr /\ q # endPtr
      BY <1>1, <2>5, <3>1 DEF StatsInv, ClearForgets
    <3>2. CASE p = endPtr
      BY <1>1, <2>4, <2>5, <3>2 DEF StatsInv, Gathered
    <3>3. CASE q = endPtr
      BY <1>1, <2>4, <2>5, <3>3 DEF StatsInv, Gathered
    <3> QED
      BY <3>1, <3>2, <3>3
  <2>13. Gathered'
    BY <2>1 DEF Gathered
  <2> QED
    BY <2>10, <2>11, <2>12, <2>13 DEF StatsInv
<1> QED
  BY <1>6, <1>7

LEMMA ClearKeeps == StatsInv /\ ClearBuffer => StatsInv'
<1> SUFFICES ASSUME StatsInv, ClearBuffer PROVE StatsInv'
  OBVIOUS
<1>1. /\ prelim \in Seq(Samples) /\ Len(prelim) < MaxPrelim
      /\ trend \in [0 .. TrendPoints - 1 -> SUBSET Samples]
  BY DEF StatsInv, StatsTypeOK
<1>2. /\ \A p \in DOMAIN trend' : trend'[p] = {}
      /\ trend' \in [0 .. TrendPoints - 1 -> SUBSET Samples]
      /\ UNCHANGED <<limit, endPtr, extent>>
  BY <1>1 DEF ClearBuffer
<1>3. prelim' = [i \in 1 .. Len(prelim) |-> [prelim[i] EXCEPT !.old = TRUE]]
  BY <1>1 DEF ClearBuffer
<1>4. \A i \in 1 .. Len(prelim) : [prelim[i] EXCEPT !.old = TRUE] \in Samples
  <2>1. \A s \in Samples : [s EXCEPT !.old = TRUE] \in Samples
    BY DEF Samples
  <2>2. \A i \in 1 .. Len(prelim) : prelim[i] \in Samples
    BY <1>1
  <2> QED
    BY <2>1, <2>2
<1>5. prelim' \in Seq(Samples) /\ Len(prelim') = Len(prelim)
  BY <1>1, <1>3, <1>4
<1>6. StatsTypeOK'
  BY <1>1, <1>2, <1>5 DEF StatsInv, StatsTypeOK
<1>7. ExtentCoversGraph' /\ ClearForgets' /\ Gathered'
  BY <1>2 DEF ExtentCoversGraph, ClearForgets, Gathered, ValuesIn
<1> QED
  BY <1>6, <1>7 DEF StatsInv

LEMMA SliderKeeps ==
  ASSUME StatsInv, NEW s \in Int, SetNrOfSamplesBeforeStore(s)
  PROVE  StatsInv'
<1>1. StatsTypeOK'
  BY SizesAssumption DEF StatsInv, StatsTypeOK, SetNrOfSamplesBeforeStore
<1>2. ExtentCoversGraph' /\ ClearForgets' /\ Gathered'
  BY DEF StatsInv, SetNrOfSamplesBeforeStore, ExtentCoversGraph, ClearForgets, Gathered, ValuesIn
<1> QED
  BY <1>1, <1>2 DEF StatsInv

LEMMA StatsUnchanged == StatsInv /\ UNCHANGED statsVars => StatsInv'
BY DEF StatsInv, statsVars, StatsTypeOK, ExtentCoversGraph, ClearForgets, Gathered, ValuesIn

-----------------------------------------------------------------------------
(* The log memory and its graph. *)

LEMMA LogTypes ==
  ASSUME LogTypeOK
  PROVE  /\ MaxLogAddress \in Nat /\ Window \in Nat /\ Window > 0 /\ FrameWrites \in Nat
         /\ Window + FrameWrites <= MaxLogAddress + 1
         /\ log.current \in 0 .. MaxLogAddress /\ log.full \in BOOLEAN /\ log.written \in Nat
         /\ frame.pass \in {"none", "axis", "line"} /\ frame.at \in {"read", "next"}
         /\ frame.i \in Nat /\ frame.adr \in 0 .. MaxLogAddress
         /\ frame.begun \in Nat /\ frame.first \in Nat /\ frame.i <= Window
         /\ frame.line \in Seq(Nat) /\ frame.axis \subseteq Nat
BY RingAssumption DEF LogTypeOK, Addresses, Axes

(* One more entry makes every other one older by one. *)
LEMMA OlderByOne ==
  ASSUME LogTypeOK, LogData, NEW a \in Addresses
  PROVE  /\ Age(a, log.current) \in 0 .. MaxLogAddress
         /\ Age(a, log'.current) = IF a = log.current THEN 0 ELSE Age(a, log.current) + 1
         /\ log'.written = log.written + 1
         /\ log.current \in Addresses /\ log'.current \in Addresses
         /\ log'.current = IF log.current = MaxLogAddress THEN 0 ELSE log.current + 1
         /\ (log'.full <=> log.full \/ log.current = MaxLogAddress)
<1>1. /\ log'.current = IF log.current + 1 > MaxLogAddress THEN 0 ELSE log.current + 1
      /\ (log'.full <=> log.full \/ log.current + 1 > MaxLogAddress)
      /\ log'.written = log.written + 1
  BY DEF LogData
<1>2. MaxLogAddress \in Nat /\ log.current \in 0 .. MaxLogAddress /\ a \in 0 .. MaxLogAddress
      /\ log.full \in BOOLEAN
  BY LogTypes DEF Addresses
<1>3. log'.current = IF log.current = MaxLogAddress THEN 0 ELSE log.current + 1
  BY <1>1, <1>2
<1>4. (log'.full <=> log.full \/ log.current = MaxLogAddress)
  BY <1>1, <1>2
<1>5. Age(a, log.current) \in 0 .. MaxLogAddress
  BY <1>2 DEF Age
<1>6. Age(a, log'.current) = IF a = log.current THEN 0 ELSE Age(a, log.current) + 1
  BY <1>2, <1>3 DEF Age
<1> QED
  BY <1>1, <1>2, <1>3, <1>4, <1>5, <1>6 DEF Addresses

LEMMA LogDataRing ==
  ASSUME LogTypeOK, RingInv, LogData
  PROVE  RingInv' /\ LogTypeOK'
<1>1. log' \in [current : Addresses, full : BOOLEAN, written : Nat] /\ UNCHANGED frame
  BY LogTypes DEF LogData, Addresses
<1>2. log.current \in Addresses /\ log.written \in Nat
  BY LogTypes DEF Addresses
<1>3. ram \in [Addresses -> Nat] /\ ram' = [ram EXCEPT ![log.current] = log.written + 1]
  BY DEF LogData, LogTypeOK
<1>4. ram' \in [Addresses -> Nat]
  BY <1>2, <1>3
<1>5. LogTypeOK'
  BY <1>1, <1>4 DEF LogTypeOK
<1>6. /\ ~log'.full => log'.written = log'.current
      /\ log'.full => log'.written > MaxLogAddress
  <2>1. /\ log'.current = IF log.current = MaxLogAddress THEN 0 ELSE log.current + 1
        /\ (log'.full <=> log.full \/ log.current = MaxLogAddress)
        /\ log'.written = log.written + 1
    BY <1>2, OlderByOne
  <2>2. MaxLogAddress \in Nat /\ log.current \in Nat /\ log.full \in BOOLEAN
    BY LogTypes
  <2>3. (~log.full => log.written = log.current) /\ (log.full => log.written > MaxLogAddress)
    BY DEF RingInv
  <2>4. CASE log.full
    BY <1>2, <2>1, <2>2, <2>3, <2>4
  <2>5. CASE ~log.full
    BY <1>2, <2>1, <2>2, <2>3, <2>5
  <2> QED
    BY <2>4, <2>5
<1>7. ASSUME NEW a \in Addresses
      PROVE  ram'[a] = IF Age(a, log'.current) < log'.written
                       THEN log'.written - Age(a, log'.current) ELSE 0
  <2>1. /\ Age(a, log.current) \in Int
        /\ Age(a, log'.current) = IF a = log.current THEN 0 ELSE Age(a, log.current) + 1
        /\ log'.written = log.written + 1
    BY OlderByOne
  <2>2. ram[a] = IF Age(a, log.current) < log.written THEN log.written - Age(a, log.current) ELSE 0
    BY DEF RingInv
  <2> QED
    BY <1>2, <1>3, <2>1, <2>2
<1> QED
  BY <1>5, <1>6, <1>7 DEF RingInv

(* The writer does not reach what the reader reads next. *)
LEMMA WriterStaysAway ==
  ASSUME LogTypeOK, LogData, NEW adr \in Addresses, NEW k \in Int, NEW n \in Nat,
         Behind(adr, log, k, n), 0 <= k, k <= Window, n <= log.written,
         log.written < n + FrameWrites
  PROVE  Behind(adr, log', k, n)
<1>1. Age(log.current, log.current) = MaxLogAddress
  BY LogTypes DEF Age
<1>2. /\ Age(adr, log'.current) = IF adr = log.current THEN 0 ELSE Age(adr, log.current) + 1
      /\ log'.written = log.written + 1 /\ Age(adr, log.current) \in Int
  BY OlderByOne
<1>3. /\ log.written \in Nat /\ Window \in Nat /\ FrameWrites \in Nat /\ MaxLogAddress \in Nat
      /\ Window + FrameWrites <= MaxLogAddress + 1
  BY LogTypes
<1>4. CASE Age(adr, log.current) = log.written - n + k - 1
  <2>1. Age(adr, log.current) < MaxLogAddress
    BY <1>3, <1>4
  <2>2. adr # log.current
    BY <1>1, <1>3, <2>1
  <2>3. Age(adr, log'.current) = log'.written - n + k - 1
    BY <1>2, <1>3, <1>4, <2>2
  <2> QED
    BY <2>3 DEF Behind
<1>5. CASE log.written - n + k = 0 /\ adr = log.current
  <2>1. Age(adr, log'.current) = log'.written - n + k - 1
    BY <1>2, <1>3, <1>5
  <2> QED
    BY <2>1 DEF Behind
<1> QED
  BY <1>4, <1>5 DEF Behind

LEMMA LogDataKeeps ==
  ASSUME LogInv, LogData
  PROVE  LogInv'
<1>1. LogTypeOK' /\ RingInv' /\ LogTypeOK
  BY LogDataRing DEF LogInv
<1>2. UNCHANGED frame /\ log'.written = log.written + 1
      /\ (frame.pass # "none" => log.written < frame.begun + FrameWrites)
  BY <1>1, LogTypes DEF LogData
<1>3. frame.adr \in Addresses
  BY <1>1 DEF LogTypeOK
<1>4. AxisInv'
  <2> SUFFICES ASSUME frame.pass = "axis" PROVE AxisInv'
    BY <1>2 DEF AxisInv
  <2>1. /\ frame.begun <= log.written /\ log.written < frame.begun + FrameWrites
        /\ frame.at = "read" => /\ frame.i < Window /\ frame.i <= frame.begun
                                /\ Behind(frame.adr, log, frame.i, frame.begun)
        /\ frame.at = "next" => /\ frame.i > 0 /\ frame.i <= frame.begun + 1
                                /\ Behind(frame.adr, log, frame.i - 1, frame.begun)
    BY <1>2 DEF LogInv, AxisInv
  <2>2. frame.at = "read" => Behind(frame.adr, log', frame.i, frame.begun)
    BY <1>1, <1>3, <2>1, WriterStaysAway, LogTypes
  <2>3. frame.at = "next" => Behind(frame.adr, log', frame.i - 1, frame.begun)
    <3> SUFFICES ASSUME frame.at = "next" PROVE Behind(frame.adr, log', frame.i - 1, frame.begun)
      OBVIOUS
    <3>1. frame.i - 1 \in Int /\ 0 <= frame.i - 1 /\ frame.i - 1 <= Window
          /\ frame.begun \in Nat
      BY <1>1, <2>1, LogTypes
    <3> QED
      BY <1>1, <1>3, <2>1, <3>1, WriterStaysAway
  <2> HIDE DEF Behind
  <2> QED
    BY <1>1, <1>2, <2>1, <2>2, <2>3, LogTypes DEF LogInv, AxisInv
<1>5. LineInv'
  <2> SUFFICES ASSUME frame.pass = "line" PROVE LineInv'
    BY <1>2 DEF LineInv
  <2>1. /\ frame.begun <= frame.first /\ frame.first <= log.written
        /\ log.written < frame.first + FrameWrites
        /\ frame.at = "read" => frame.i < Window /\ frame.i < frame.first
                                /\ Behind(frame.adr, log, frame.i + 1, frame.first)
        /\ frame.at = "next" => frame.i <= frame.first
                                /\ Behind(frame.adr, log, frame.i, frame.first)
    BY <1>1, <1>2, LogTypes DEF LogInv, LineInv
  <2>2. frame.at = "next" => Behind(frame.adr, log', frame.i, frame.first)
    BY <1>1, <1>3, <2>1, WriterStaysAway, LogTypes
  <2>3. frame.at = "read" => Behind(frame.adr, log', frame.i + 1, frame.first)
    <3> SUFFICES ASSUME frame.at = "read" PROVE Behind(frame.adr, log', frame.i + 1, frame.first)
      OBVIOUS
    <3>1. frame.i + 1 \in Int /\ 0 <= frame.i + 1 /\ frame.i + 1 <= Window
          /\ frame.first \in Nat
      BY <1>1, <2>1, LogTypes
    <3> QED
      BY <1>1, <1>3, <2>1, <3>1, WriterStaysAway
  <2>4. AxisDone'
    BY <1>2 DEF LogInv, LineInv, AxisDone
  <2> HIDE DEF Behind
  <2> QED
    BY <1>1, <1>2, <2>1, <2>2, <2>3, <2>4, LogTypes DEF LogInv, LineInv
<1>6. DoneInv' /\ LineIsHistory'
  BY <1>2 DEF LogInv, DoneInv, AxisDone, LineIsHistory
<1> QED
  BY <1>1, <1>4, <1>5, <1>6 DEF LogInv

(* One step back from k entries back, unless the reader has been there.    *)
LEMMA StepBack ==
  ASSUME LogTypeOK, RingInv, NEW adr \in Addresses, NEW k \in Nat, NEW n \in Nat,
         Behind(adr, log, k, n), k <= n, n <= log.written, log.written - n + k <= MaxLogAddress
  PROVE  /\ NextAdr(adr) = None => k = n
         /\ NextAdr(adr) # None => /\ NextAdr(adr) \in Addresses
                                  /\ k < n
                                  /\ Behind(NextAdr(adr), log, k + 1, n)
<1> DEFINE c == log.current
           w == log.written
<1>1. /\ MaxLogAddress \in Nat /\ c \in 0 .. MaxLogAddress /\ w \in Nat
      /\ adr \in 0 .. MaxLogAddress /\ log.full \in BOOLEAN
  BY LogTypes DEF Addresses
<1>2. (~log.full => w = c) /\ (log.full => w > MaxLogAddress)
  BY DEF RingInv
<1>3. Age(adr, c) = w - n + k - 1 \/ (w - n + k = 0 /\ adr = c)
  BY DEF Behind
<1>4. w - n + k <= MaxLogAddress /\ n <= w
  OBVIOUS
<1> HIDE DEF c, w
<1>5. Age(adr, c) = IF adr < c THEN c - 1 - adr ELSE c + MaxLogAddress - adr
  BY DEF Age
<1>6. adr = c => w - n + k = 0
  BY <1>1, <1>3, <1>4, <1>5
<1>7. log.full => k < n
  BY <1>1, <1>2, <1>4
<1>8. CASE adr > 0
  <2>0. adr - 1 >= 0
    BY <1>1, <1>8
  <2>1. NextAdr(adr) = adr - 1
    BY <2>0 DEF NextAdr
  <2>2. Age(adr - 1, c) = w - n + (k + 1) - 1
    <3>1. Age(adr - 1, c) = IF adr - 1 < c THEN c - 1 - (adr - 1) ELSE c + MaxLogAddress - (adr - 1)
      BY DEF Age
    <3> QED
      BY <1>1, <1>3, <1>4, <1>5, <1>6, <1>8, <3>1
  <2>3. ~log.full => k < n
    BY <1>1, <1>2, <1>3, <1>4, <1>5, <1>8
  <2>4. adr - 1 \in Addresses /\ adr - 1 # None
    BY <1>1, <1>8 DEF Addresses, None
  <2>5. Behind(adr - 1, log, k + 1, n)
    BY <2>2 DEF Behind, c, w
  <2> QED
    BY <1>1, <1>7, <2>1, <2>3, <2>4, <2>5
<1>9. CASE adr = 0 /\ log.full
  <2>1. NextAdr(adr) = MaxLogAddress
    BY <1>9 DEF NextAdr
  <2>2. Age(MaxLogAddress, c) = c
    BY <1>1 DEF Age
  <2>3. Age(MaxLogAddress, c) = w - n + (k + 1) - 1
    BY <1>1, <1>3, <1>4, <1>5, <1>9, <2>2
  <2>4. MaxLogAddress \in Addresses /\ MaxLogAddress # None
    BY <1>1 DEF Addresses, None
  <2>5. Behind(MaxLogAddress, log, k + 1, n)
    BY <2>3 DEF Behind, c, w
  <2> QED
    BY <1>7, <1>9, <2>1, <2>4, <2>5
<1>10. CASE adr = 0 /\ ~log.full
  <2>1. NextAdr(adr) = None
    BY <1>10 DEF NextAdr
  <2>2. k = n
    BY <1>1, <1>2, <1>3, <1>4, <1>5, <1>10
  <2> QED
    BY <2>1, <2>2
<1> QED
  BY <1>1, <1>8, <1>9, <1>10

(* What is read k entries back. *)
LEMMA ReadBack ==
  ASSUME LogTypeOK, RingInv, NEW adr \in Addresses, NEW k \in Nat, NEW n \in Nat,
         Behind(adr, log, k, n), 0 < k, k <= n, n <= log.written
  PROVE  ram[adr] = n - k + 1
<1>1. log.written \in Nat
  BY LogTypes
<1>2. Age(adr, log.current) = log.written - n + k - 1
  BY <1>1 DEF Behind
<1>3. ram[adr] = IF Age(adr, log.current) < log.written
                 THEN log.written - Age(adr, log.current) ELSE 0
  BY DEF RingInv
<1> QED
  BY <1>1, <1>2, <1>3

LEMMA BeginFrameKeeps ==
  ASSUME LogInv, BeginFrame
  PROVE  LogInv'
<1>1. LogTypeOK /\ RingInv /\ UNCHANGED <<ram, log>>
  BY DEF LogInv, BeginFrame
<1>2. frame' = [pass |-> "axis", at |-> "read", i |-> 0, adr |-> log.current,
                axis |-> {}, line |-> <<>>, begun |-> log.written, first |-> 0]
  BY DEF BeginFrame, NoFrame
<1>3. LogTypeOK' /\ RingInv'
  BY <1>1, <1>2, LogTypes DEF LogTypeOK, RingInv, Addresses, Axes
<1>4. AxisInv'
  BY <1>1, <1>2, LogTypes DEF AxisInv, Behind
<1>5. LineInv' /\ DoneInv' /\ LineIsHistory'
  BY <1>2 DEF LineInv, DoneInv, LineIsHistory
<1> QED
  BY <1>3, <1>4, <1>5 DEF LogInv

LEMMA ReadAxisKeeps ==
  ASSUME LogInv, ReadAxis
  PROVE  LogInv'
<1>1. LogTypeOK /\ RingInv /\ UNCHANGED <<ram, log>> /\ frame.pass = "axis" /\ frame.at = "read"
  BY DEF LogInv, ReadAxis
<1>2. /\ frame'.pass = "axis" /\ frame'.at = "next" /\ frame'.i = frame.i + 1
      /\ frame'.adr = frame.adr /\ frame'.begun = frame.begun /\ frame'.line = frame.line
      /\ frame'.first = frame.first /\ frame'.axis = frame.axis \cup ({ram[frame.adr]} \ {0})
  BY <1>1 DEF ReadAxis, LogTypeOK
<1>3. /\ frame.begun <= log.written /\ log.written <= frame.begun + FrameWrites
      /\ frame.line = <<>>
      /\ \A j \in 1 .. frame.begun : j < frame.i => frame.begun - j + 1 \in frame.axis
      /\ frame.i < Window /\ frame.i <= frame.begun
      /\ Behind(frame.adr, log, frame.i, frame.begun)
  BY <1>1 DEF LogInv, AxisInv
<1>4. LogTypeOK'
  <2>1. ram[frame.adr] \in Nat
    BY <1>1 DEF LogTypeOK
  <2> DEFINE axis == frame.axis \cup ({ram[frame.adr]} \ {0})
  <2>2. axis \in Axes
    BY <1>1, <2>1, LogTypes DEF Axes
  <2> DEFINE i == frame.i + 1
  <2>5. frame' = [frame EXCEPT !.at = "next", !.i = i, !.axis = axis]
    BY DEF ReadAxis
  <2>6. i \in Nat
    BY <1>1, LogTypes
  <2> HIDE DEF axis, i
  <2>3. frame' \in [pass : {"none", "axis", "line"}, at : {"read", "next"}, i : Nat,
                    adr : Addresses, axis : Axes, line : Seq(Nat), begun : Nat, first : Nat]
    BY <1>1, <2>2, <2>5, <2>6 DEF LogTypeOK
  <2>4. frame.i + 1 <= Window
    BY <1>1, <1>3, LogTypes
  <2> QED
    BY <1>1, <1>2, <2>3, <2>4 DEF LogTypeOK
<1>5. RingInv'
  BY <1>1 DEF RingInv
<1>6. \A j \in 1 .. frame.begun : j < frame.i + 1 => frame.begun - j + 1 \in frame'.axis
  <2> SUFFICES ASSUME NEW j \in 1 .. frame.begun, j < frame.i + 1
               PROVE  frame.begun - j + 1 \in frame'.axis
    OBVIOUS
  <2>1. CASE j < frame.i
    BY <1>2, <1>3, <2>1
  <2>2. CASE j = frame.i
    <3>1. frame.adr \in Addresses
      BY <1>1 DEF LogTypeOK
    <3>2. ram[frame.adr] = frame.begun - frame.i + 1
      BY <1>1, <1>3, <2>2, <3>1, ReadBack, LogTypes
    <3> QED
      BY <1>1, <1>2, <2>2, <3>2, LogTypes
  <2> QED
    BY <1>1, <2>1, <2>2, LogTypes
<1>7. AxisInv'
  <2>1. frame.i + 1 - 1 = frame.i /\ frame.i + 1 > 0 /\ frame.i + 1 <= frame.begun + 1
    BY <1>1, <1>3, LogTypes
  <2>2. Behind(frame'.adr, log', frame'.i - 1, frame'.begun)
    <3>1. frame'.i - 1 = frame.i
      BY <1>1, <1>2, LogTypes
    <3>2. frame'.adr = frame.adr /\ frame'.begun = frame.begun /\ log' = log
      BY <1>1, <1>2
    <3> QED
      BY <1>3, <3>1, <3>2
  <2>3. \A j \in 1 .. frame'.begun : j < frame'.i => frame'.begun - j + 1 \in frame'.axis
    BY <1>2, <1>6
  <2>4. /\ frame'.begun <= log'.written /\ log'.written <= frame'.begun + FrameWrites
        /\ frame'.line = <<>> /\ frame'.i > 0 /\ frame'.i <= frame'.begun + 1
    BY <1>1, <1>2, <1>3, <2>1
  <2>5. frame'.at = "next"
    BY <1>2
  <2> HIDE DEF Behind
  <2> QED
    BY <2>2, <2>3, <2>4, <2>5 DEF AxisInv
<1>8. LineInv' /\ DoneInv' /\ LineIsHistory'
  BY <1>2, <1>3 DEF LineInv, DoneInv, LineIsHistory
<1> QED
  BY <1>4, <1>5, <1>7, <1>8 DEF LogInv

(* The axis is done when its reader is back at the first entry of all, or  *)
(* at the end of the window.                                               *)
LEMMA AdvanceAxisKeeps ==
  ASSUME LogInv, AdvanceAxis
  PROVE  LogInv'
<1> DEFINE next == NextAdr(frame.adr)
<1>1. LogTypeOK /\ RingInv /\ UNCHANGED <<ram, log>> /\ frame.pass = "axis" /\ frame.at = "next"
  BY DEF LogInv, AdvanceAxis
<1>2. /\ frame.begun <= log.written /\ log.written <= frame.begun + FrameWrites
      /\ frame.line = <<>>
      /\ \A j \in 1 .. frame.begun : j < frame.i => frame.begun - j + 1 \in frame.axis
      /\ frame.i > 0 /\ frame.i <= frame.begun + 1
      /\ Behind(frame.adr, log, frame.i - 1, frame.begun)
  BY <1>1 DEF LogInv, AxisInv
<1>3. frame.adr \in Addresses /\ log.current \in Addresses
  BY <1>1 DEF LogTypeOK
<1>4. /\ next = None => frame.i = frame.begun + 1
      /\ next # None => /\ next \in Addresses /\ frame.i <= frame.begun
                        /\ Behind(next, log, frame.i, frame.begun)
  <2>1. /\ frame.i - 1 \in Nat /\ frame.begun \in Nat /\ frame.i - 1 <= frame.begun
        /\ log.written - frame.begun + (frame.i - 1) <= MaxLogAddress
        /\ frame.i - 1 + 1 = frame.i
    <3>1. /\ frame.i \in Nat /\ frame.begun \in Nat /\ log.written \in Nat
          /\ Window \in Nat /\ FrameWrites \in Nat /\ MaxLogAddress \in Nat
          /\ frame.i <= Window /\ Window + FrameWrites <= MaxLogAddress + 1
      BY <1>1, LogTypes
    <3>2. /\ log.written <= frame.begun + FrameWrites
          /\ frame.i > 0 /\ frame.i <= frame.begun + 1
      BY <1>2
    <3> HIDE DEF next
    <3> QED
      BY <3>1, <3>2
  <2>2. /\ next = None => frame.i - 1 = frame.begun
        /\ next # None => /\ next \in Addresses /\ frame.i - 1 < frame.begun
                          /\ Behind(next, log, frame.i - 1 + 1, frame.begun)
    BY <1>1, <1>2, <1>3, <2>1, StepBack
  <2> HIDE DEF next
  <2> QED
    BY <1>1, <2>1, <2>2, LogTypes
<1>5. RingInv' /\ ram' = ram /\ log' = log
  BY <1>1 DEF RingInv
<1>6. CASE next = None \/ frame.i = Window
  <2>1. frame' = BeginLine
    BY <1>6 DEF AdvanceAxis
  <2>2. /\ frame'.pass = "line" /\ frame'.at = "next" /\ frame'.i = 0 /\ frame'.adr = log.current
        /\ frame'.axis = frame.axis /\ frame'.line = <<>> /\ frame'.begun = frame.begun
        /\ frame'.first = log.written
    BY <1>1, <1>2, <2>1 DEF BeginLine, LogTypeOK
  <2>3. LogTypeOK'
    <3>1. log.written \in Nat /\ 0 \in Nat /\ 0 <= Window
      BY <1>1, LogTypes
    <3> QED
      BY <1>1, <1>3, <1>5, <2>1, <2>2, <3>1 DEF LogTypeOK, BeginLine
  <2>4. AxisDone'
    <3> HIDE DEF next
    <3>1. \A j \in 1 .. frame.begun : j < Window => j < frame.i
      BY <1>1, <1>2, <1>4, <1>6, LogTypes
    <3> QED
      BY <1>2, <2>2, <3>1 DEF AxisDone
  <2>5. Behind(frame'.adr, log', frame'.i, frame'.first)
    BY <1>1, <1>5, <2>2, LogTypes DEF Behind
  <2>6. frame'.begun <= frame'.first /\ frame'.first <= log'.written
        /\ log'.written <= frame'.begun + FrameWrites /\ frame'.i <= frame'.first
        /\ Len(frame'.line) = frame'.i
    BY <1>1, <1>2, <1>5, <2>2, LogTypes
  <2>7. LineInv'
    BY <2>2, <2>4, <2>5, <2>6 DEF LineInv
  <2>8. AxisInv' /\ DoneInv' /\ LineIsHistory'
    BY <2>2 DEF AxisInv, DoneInv, LineIsHistory
  <2> QED
    BY <1>5, <2>3, <2>7, <2>8 DEF LogInv
<1>7. CASE ~(next = None \/ frame.i = Window)
  <2>1. frame' = [frame EXCEPT !.at = "read", !.adr = next]
    BY <1>7 DEF AdvanceAxis
  <2>2. next \in Addresses /\ frame.i <= frame.begun /\ Behind(next, log, frame.i, frame.begun)
        /\ frame.i # Window
    BY <1>4, <1>7
  <2> HIDE DEF next
  <2>3. /\ frame'.pass = "axis" /\ frame'.at = "read" /\ frame'.i = frame.i /\ frame'.adr = next
        /\ frame'.axis = frame.axis /\ frame'.line = frame.line /\ frame'.begun = frame.begun
    BY <1>1, <2>1 DEF LogTypeOK
  <2>4. LogTypeOK'
    BY <1>1, <1>5, <2>1, <2>2, <2>3 DEF LogTypeOK
  <2>5. frame.i < Window /\ (frame.i > 0 => frame.begun - frame.i + 1 > 0)
    BY <1>1, <2>2, LogTypes
  <2>6. Behind(frame'.adr, log', frame'.i, frame'.begun)
    BY <1>5, <2>2, <2>3
  <2>7. AxisInv'
    BY <1>2, <1>5, <2>2, <2>3, <2>5, <2>6 DEF AxisInv
  <2>8. LineInv' /\ DoneInv' /\ LineIsHistory'
    BY <1>2, <2>3 DEF LineInv, DoneInv, LineIsHistory
  <2> QED
    BY <1>5, <2>4, <2>7, <2>8 DEF LogInv
<1> QED
  BY <1>6, <1>7

LEMMA AdvanceLineKeeps ==
  ASSUME LogInv, AdvanceLine
  PROVE  LogInv'
<1> DEFINE next == NextAdr(frame.adr)
<1>1. LogTypeOK /\ RingInv /\ UNCHANGED <<ram, log>> /\ frame.pass = "line" /\ frame.at = "next"
  BY DEF LogInv, AdvanceLine
<1>2. /\ frame.begun <= frame.first /\ frame.first <= log.written
      /\ log.written <= frame.begun + FrameWrites
      /\ AxisDone
      /\ Len(frame.line) = frame.i
      /\ frame.i <= frame.first /\ Behind(frame.adr, log, frame.i, frame.first)
  BY <1>1 DEF LogInv, LineInv
<1>3. RingInv' /\ ram' = ram /\ log' = log /\ frame.adr \in Addresses
  BY <1>1 DEF RingInv, LogTypeOK
<1>4. frame.i # Window =>
        /\ next = None => frame.i = frame.first
        /\ next # None => /\ next \in Addresses /\ frame.i < frame.first
                          /\ Behind(next, log, frame.i + 1, frame.first)
  <2> SUFFICES ASSUME frame.i # Window
               PROVE  /\ next = None => frame.i = frame.first
                      /\ next # None => /\ next \in Addresses /\ frame.i < frame.first
                                        /\ Behind(next, log, frame.i + 1, frame.first)
    OBVIOUS
  <2>1. /\ frame.i \in Nat /\ frame.first \in Nat
        /\ log.written - frame.first + frame.i <= MaxLogAddress
    BY <1>1, <1>2, LogTypes
  <2> QED
    BY <1>1, <1>2, <1>3, <2>1, StepBack
<1>5. \A k \in DOMAIN frame.line : frame.line[k] = frame.first - k + 1
  BY DEF LogInv, LineIsHistory
<1>6. CASE frame.i = Window \/ next = None
  <2>1. frame' = [frame EXCEPT !.pass = "none"]
    BY <1>6 DEF AdvanceLine
  <2>2. /\ frame'.pass = "none" /\ frame'.axis = frame.axis /\ frame'.line = frame.line
        /\ frame'.begun = frame.begun /\ frame'.first = frame.first /\ frame'.i = frame.i
    BY <1>1, <2>1 DEF LogTypeOK
  <2>3. LogTypeOK'
    BY <1>1, <1>3, <2>1, <2>2 DEF LogTypeOK
  <2> HIDE DEF next
  <2>4. Len(frame.line) = (IF frame.first < Window THEN frame.first ELSE Window)
        /\ Len(frame.line) <= Window /\ Len(frame.line) <= frame.first
    <3>1. frame.first \in Nat /\ Window \in Nat /\ frame.i \in Nat
      BY <1>1, LogTypes
    <3>2. CASE frame.i = Window
      BY <1>2, <3>1, <3>2
    <3>3. CASE frame.i # Window /\ frame.i = frame.first
      <4>1. frame.i < Window
        BY <1>1, <3>3, LogTypes
      <4> QED
        BY <1>2, <3>1, <3>3, <4>1
    <3>4. frame.i = Window \/ frame.i = frame.first
      BY <1>4, <1>6
    <3> QED
      BY <3>2, <3>3, <3>4
  <2>5. LineIsHistory'
    BY <1>5, <2>2, <2>4 DEF LineIsHistory
  <2>6. DoneInv' /\ AxisInv' /\ LineInv'
    BY <1>2, <2>2, <2>4 DEF DoneInv, AxisInv, LineInv, AxisDone
  <2> QED
    BY <1>3, <2>3, <2>5, <2>6 DEF LogInv
<1>7. CASE ~(frame.i = Window \/ next = None)
  <2>1. frame' = [frame EXCEPT !.at = "read", !.adr = next]
    BY <1>7 DEF AdvanceLine
  <2>2. next \in Addresses /\ frame.i < frame.first /\ Behind(next, log, frame.i + 1, frame.first)
        /\ frame.i # Window
    BY <1>4, <1>7
  <2> HIDE DEF next
  <2>3. /\ frame'.pass = "line" /\ frame'.at = "read" /\ frame'.i = frame.i /\ frame'.adr = next
        /\ frame'.axis = frame.axis /\ frame'.line = frame.line /\ frame'.begun = frame.begun
        /\ frame'.first = frame.first
    BY <1>1, <2>1 DEF LogTypeOK
  <2>4. LogTypeOK'
    BY <1>1, <1>3, <2>1, <2>2, <2>3 DEF LogTypeOK
  <2>5. frame.i < Window
    BY <1>1, <2>2, LogTypes
  <2>6. Behind(frame'.adr, log', frame'.i + 1, frame'.first)
    BY <1>3, <2>2, <2>3
  <2>7. AxisDone'
    BY <1>2, <2>3 DEF AxisDone
  <2>8. LineInv'
    BY <1>2, <1>3, <2>2, <2>3, <2>5, <2>6, <2>7 DEF LineInv
  <2>9. AxisInv' /\ DoneInv' /\ LineIsHistory'
    BY <1>5, <2>3 DEF AxisInv, DoneInv, LineIsHistory
  <2> QED
    BY <1>3, <2>4, <2>8, <2>9 DEF LogInv
<1> QED
  BY <1>6, <1>7

LEMMA ReadLineKeeps ==
  ASSUME LogInv, ReadLine
  PROVE  LogInv'
<1> DEFINE i    == frame.i + 1
           line == Append(frame.line, ram[frame.adr])
<1>1. LogTypeOK /\ RingInv /\ UNCHANGED <<ram, log>> /\ frame.pass = "line" /\ frame.at = "read"
  BY DEF LogInv, ReadLine
<1>2. /\ frame.begun <= frame.first /\ frame.first <= log.written
      /\ log.written <= frame.begun + FrameWrites
      /\ AxisDone
      /\ Len(frame.line) = frame.i
      /\ frame.i < Window /\ frame.i < frame.first
      /\ Behind(frame.adr, log, frame.i + 1, frame.first)
  BY <1>1 DEF LogInv, LineInv
<1>3. RingInv' /\ ram' = ram /\ log' = log /\ frame.adr \in Addresses
  BY <1>1 DEF RingInv, LogTypeOK
<1>4. frame' = [frame EXCEPT !.at = "next", !.i = i, !.line = line]
  BY DEF ReadLine
<1>5. i \in Nat /\ 0 < i /\ i <= frame.first /\ i <= Window /\ frame.first \in Nat
  BY <1>1, <1>2, LogTypes
<1>6. ram[frame.adr] = frame.first - i + 1 /\ ram[frame.adr] \in Nat
  <2>1. ram[frame.adr] \in Nat
    BY <1>1, <1>3 DEF LogTypeOK
  <2> QED
    BY <1>1, <1>2, <1>3, <1>5, <2>1, ReadBack
<1>7. \A k \in DOMAIN frame.line : frame.line[k] = frame.first - k + 1
  BY DEF LogInv, LineIsHistory
<1>8. /\ line \in Seq(Nat) /\ Len(line) = i
      /\ \A k \in DOMAIN line : line[k] = frame.first - k + 1
  <2>1. frame.line \in Seq(Nat) /\ frame.i \in Nat
    BY <1>1, LogTypes
  <2> DEFINE entry == ram[frame.adr]
  <2>2. entry \in Nat /\ entry = frame.first - i + 1
    BY <1>6
  <2> HIDE DEF entry
  <2>3. Append(frame.line, entry) \in Seq(Nat) /\ Len(Append(frame.line, entry)) = frame.i + 1
    BY <1>2, <2>1, <2>2
  <2>4. ASSUME NEW k \in 1 .. frame.i + 1
        PROVE  Append(frame.line, entry)[k] = frame.first - k + 1
    <3>1. CASE k <= Len(frame.line)
      <4>1. Append(frame.line, entry)[k] = frame.line[k] /\ k \in DOMAIN frame.line
        BY <1>2, <2>1, <2>2, <3>1
      <4> QED
        BY <1>7, <4>1
    <3>2. CASE k = Len(frame.line) + 1
      BY <1>2, <2>1, <2>2, <3>2
    <3> QED
      BY <1>2, <2>1, <3>1, <3>2
  <2>5. DOMAIN Append(frame.line, entry) = 1 .. frame.i + 1
    BY <2>3
  <2> QED
    BY <2>3, <2>4, <2>5 DEF entry
<1> HIDE DEF i, line
<1>9. /\ frame'.pass = "line" /\ frame'.at = "next" /\ frame'.i = i /\ frame'.adr = frame.adr
      /\ frame'.axis = frame.axis /\ frame'.line = line /\ frame'.begun = frame.begun
      /\ frame'.first = frame.first
  BY <1>1, <1>4 DEF LogTypeOK
<1>10. LogTypeOK'
  BY <1>1, <1>3, <1>4, <1>5, <1>8, <1>9 DEF LogTypeOK
<1>11. LineInv'
  <2>1. Behind(frame'.adr, log', frame'.i, frame'.first)
    BY <1>2, <1>3, <1>9 DEF i
  <2>2. AxisDone'
    BY <1>2, <1>9 DEF AxisDone
  <2> QED
    BY <1>2, <1>3, <1>5, <1>8, <1>9, <2>1, <2>2 DEF LineInv
<1>12. AxisInv' /\ DoneInv' /\ LineIsHistory'
  BY <1>8, <1>9 DEF AxisInv, DoneInv, LineIsHistory
<1> QED
  BY <1>3, <1>10, <1>11, <1>12 DEF LogInv

LEMMA LogUnchanged == LogInv /\ UNCHANGED logVars => LogInv'
BY DEF LogInv, logVars, LogTypeOK, RingInv, AxisInv, LineInv, DoneInv, AxisDone, LineIsHistory

-----------------------------------------------------------------------------
LEMMA InitIInv == Init => IInv
<1> SUFFICES ASSUME Init PROVE IInv
  OBVIOUS
<1>1. StatsInv
  BY SizesAssumption DEF Init, StatsInit, StatsInv, StatsTypeOK, ExtentCoversGraph, ClearForgets,
       Gathered, ValuesIn
<1>2. LogTypeOK
  BY RingAssumption DEF Init, LogInit, LogTypeOK, NoFrame, Addresses, Axes
<1>3. RingInv
  BY <1>2, LogTypes DEF Init, LogInit, RingInv, Age, Addresses
<1>4. AxisInv /\ LineInv /\ DoneInv /\ LineIsHistory
  BY RingAssumption DEF Init, LogInit, NoFrame, AxisInv, LineInv, DoneInv, AxisDone, LineIsHistory
<1> QED
  BY <1>1, <1>2, <1>3, <1>4 DEF IInv, LogInv

LEMMA StepIInv == IInv /\ [Next]_vars => IInv'
<1> SUFFICES ASSUME IInv, [Next]_vars PROVE IInv'
  OBVIOUS
<1>1. CASE HandleSampling
  <2>1. StatsInv'
    BY <1>1, AddSampleKeeps DEF HandleSampling, IInv
  <2>2. LogInv'
    BY <1>1, LogDataKeeps, LogUnchanged DEF HandleSampling, IInv
  <2> QED
    BY <2>1, <2>2 DEF IInv
<1>2. CASE PanelTouched
  <2>1. StatsInv'
    <3>1. CASE ClearBuffer
      BY <3>1, ClearKeeps DEF IInv
    <3>2. ASSUME NEW s \in SliderValues, SetNrOfSamplesBeforeStore(s) PROVE StatsInv'
      BY <3>2, SliderKeeps, SliderAssumption DEF IInv
    <3> QED
      BY <1>2, <3>1, <3>2 DEF PanelTouched
  <2>2. LogInv'
    BY <1>2, LogUnchanged DEF PanelTouched, IInv
  <2> QED
    BY <2>1, <2>2 DEF IInv
<1>3. CASE DrawGraph
  <2>1. StatsInv'
    BY <1>3, StatsUnchanged DEF DrawGraph, IInv
  <2>2. LogInv'
    BY <1>3, BeginFrameKeeps, ReadAxisKeeps, AdvanceAxisKeeps, AdvanceLineKeeps, ReadLineKeeps
       DEF DrawGraph, Draw, IInv
  <2> QED
    BY <2>1, <2>2 DEF IInv
<1>4. CASE UNCHANGED vars
  BY <1>4, StatsUnchanged, LogUnchanged DEF IInv, vars, statsVars, logVars
<1> QED
  BY <1>1, <1>2, <1>3, <1>4 DEF Next

LEMMA Invariance == Spec => []IInv
BY InitIInv, StepIInv, PTL DEF Spec

(* Types: the buffer of gathered samples is never full when the next one   *)
(* comes, and no address leaves the ring.                                  *)
THEOREM TypeCorrect == Spec => []TypeOK
<1>1. IInv => TypeOK
  BY DEF IInv, StatsInv, LogInv, TypeOK
<1> QED
  BY <1>1, Invariance, PTL

(* The extremes bound all that is shown, for every measuring range.        *)
THEOREM GraphFits == Spec => []ExtentCoversGraph
<1>1. IInv => ExtentCoversGraph
  BY DEF IInv, StatsInv
<1> QED
  BY <1>1, Invariance, PTL

(* After CLEAR no more than one point shows what was before.               *)
THEOREM ClearIsClear == Spec => []ClearForgets
<1>1. IInv => ClearForgets
  BY DEF IInv, StatsInv
<1> QED
  BY <1>1, Invariance, PTL

(* The line of the graph is the history of the log, without gap or         *)
(* repetition, however the ring wraps while it is read.                    *)
THEOREM LineTruthful == Spec => []LineIsHistory
<1>1. IInv => LineIsHistory
  BY DEF IInv, LogInv
<1> QED
  BY <1>1, Invariance, PTL

(* The axis fits the line, but for the last entry of a full window.        *)
THEOREM AxisTruthful == Spec => []AxisFitsLine
<1>1. ASSUME IInv PROVE AxisFitsLine
  <2>1. LogTypeOK /\ LineIsHistory
    BY <1>1 DEF IInv, LogInv
  <2> SUFFICES ASSUME NEW k \in DOMAIN frame.line
               PROVE  \/ frame.line[k] \in frame.axis
                      \/ frame.line[k] > frame.begun
                      \/ frame.line[k] = frame.begun - Window + 1
    BY DEF AxisFitsLine
  <2>2. k \in 1 .. Len(frame.line) /\ Len(frame.line) \in Nat
    BY <2>1, LogTypes
  <2>3. frame.line[k] = frame.first - k + 1
    BY <2>1 DEF LineIsHistory
  <2>4. frame.pass # "axis"
    BY <1>1, <2>2 DEF IInv, LogInv, AxisInv
  <2>5. AxisDone /\ frame.begun <= frame.first /\ Len(frame.line) <= Window
        /\ Len(frame.line) <= frame.first
    <3>1. CASE frame.pass = "none"
      BY <1>1, <3>1 DEF IInv, LogInv, DoneInv
    <3>2. CASE frame.pass = "line"
      <4>1. /\ AxisDone /\ frame.begun <= frame.first /\ Len(frame.line) = frame.i
            /\ frame.at = "read" => frame.i < frame.first
            /\ frame.at = "next" => frame.i <= frame.first
        BY <1>1, <3>2 DEF IInv, LogInv, LineInv
      <4>2. /\ frame.at \in {"read", "next"} /\ frame.i \in Nat /\ frame.first \in Nat
            /\ frame.i <= Window
        BY <2>1, LogTypes
      <4> QED
        BY <4>1, <4>2
    <3> QED
      BY <2>1, <2>4, <3>1, <3>2, LogTypes
  <2> DEFINE j == frame.begun - (frame.first - k + 1) + 1
  <2>6. /\ frame.begun \in Nat /\ frame.first \in Nat /\ Window \in Nat
    BY <2>1, LogTypes
  <2>7. CASE j \in 1 .. frame.begun /\ j < Window
    <3>1. frame.begun - j + 1 \in frame.axis
      BY <2>5, <2>7 DEF AxisDone
    <3>2. frame.begun - j + 1 = frame.line[k]
      BY <2>2, <2>3, <2>6
    <3> QED
      BY <3>1, <3>2
  <2>8. CASE j < 1
    BY <2>2, <2>3, <2>6, <2>8
  <2>9. j <= Window /\ j <= frame.begun
    BY <2>2, <2>5, <2>6
  <2>10. CASE j = Window
    BY <2>2, <2>3, <2>6, <2>10
  <2> QED
    BY <2>2, <2>6, <2>7, <2>8, <2>9, <2>10
<1> QED
  BY <1>1, Invariance, PTL
=============================================================================
