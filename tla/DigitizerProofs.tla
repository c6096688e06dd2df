--------------------------- MODULE DigitizerProofs ---------------------------
(***************************************************************************)
(* Digitizer implements Scope for every buffer length: what the screen     *)
(* draws is one window of consecutive samples around a trigger.            *)
(*                                                                         *)
(* The argument: looking back from the place the ring writes next, the     *)
(* ring holds the latest samples in order, as many as were counted since   *)
(* the last full buffer, and all N + 1 of them once a sample came after    *)
(* the trigger; the trigger's own place and the samples after it are where *)
(* the count of samples after the trigger says.  That count is at most     *)
(* Half, so the window never reaches further back than N + 1 samples.      *)
(*                                                                         *)
(* TriggersOnce says that a signal that stays high triggers once, if the   *)
(* buffer is longer than what the trigger looks at (N > 5), FillsSoon when *)
(* continuous digitizing has filled its buffer, ServedSoon when the screen *)
(* is drawn.  These, and the types, do not need the sampling times that    *)
(* tell the samples apart.                                                 *)
(***************************************************************************)
EXTENDS Digitizer, TLAPS

Ago(t, k) == Picture!Ago(t, k)

(* The place in the ring that was written k samples before place p. *)
Behind(p, k) == IF k <= p THEN p - k ELSE p - k + N + 1

Known == IF samplesAfterTrigger > 0 THEN N + 1 ELSE countSinceLastSample

(* What the counters say of each other; it needs no sampling times.        *)
CountInv ==
  /\ ~triggered => samplesAfterTrigger = 0
  /\ triggered => countSinceLastSample = N

CaptureInv ==
  /\ \A k \in 1 .. Known : ring[Behind(ramAdrPtr, k)] = Ago(stamp, k)
  /\ triggered =>
       /\ adrAtTrigger = Behind(ramAdrPtr, samplesAfterTrigger + 1)
       /\ \A x \in 0 .. samplesAfterTrigger - 1 : post[x] = Ago(stamp, samplesAfterTrigger - x)

DigitizerInv == TypeOK /\ CountInv /\ CaptureInv

-----------------------------------------------------------------------------
(* Arithmetic of the ring and of the sampling times. *)

LEMMA HalfFact == Half \in Nat /\ Half >= 1 /\ N = 2 * Half
BY NAssumption DEF Half

LEMMA WrapFact ==
  ASSUME NEW p \in 0 .. N
  PROVE  /\ Wrap(p) \in 0 .. N
         /\ Behind(Wrap(p), 1) = p
         /\ \A k \in 1 .. N : /\ Behind(Wrap(p), k + 1) = Behind(p, k)
                              /\ Behind(p, k) # p
         /\ \A k \in 1 .. N + 1 : Behind(p, k) \in 0 .. N
BY NAssumption DEF Wrap, Behind

LEMMA BehindTwice ==
  ASSUME NEW p \in 0 .. N, NEW k \in 0 .. Half
  PROVE  LET a == Behind(p, Half + 1)
         IN  (IF k <= a THEN a - k ELSE a - k + N + 1) = Behind(p, Half + 1 + k)
BY HalfFact DEF Behind

NextStamp(t) == IF t < Stamps - 1 THEN t + 1 ELSE 0

LEMMA NextStampFact ==
  ASSUME NEW t \in 0 .. Stamps - 1
  PROVE  NextStamp(t) \in 0 .. Stamps - 1
BY StampsAssumption DEF NextStamp

LEMMA StampFact ==
  ASSUME Stamps > N, NEW t \in 0 .. Stamps - 1
  PROVE  /\ Ago(NextStamp(t), 1) = t
         /\ Ago(t, 0) = t
         /\ \A k \in 1 .. N : Ago(NextStamp(t), k + 1) = Ago(t, k)
BY NAssumption, StampsAssumption DEF NextStamp, Ago, Picture!Ago

LEMMA HistoryTypes ==
  ASSUME NEW h \in [1 .. 4 -> AllLevels], NEW level \in AllLevels
  PROVE  [i \in 1 .. 4 |-> IF i = 1 THEN level ELSE h[i - 1]] \in [1 .. 4 -> AllLevels]
<1>1. \A i \in 1 .. 4 : i # 1 => i - 1 \in 1 .. 4
  OBVIOUS
<1> QED
  BY <1>1

-----------------------------------------------------------------------------
(* One sample. *)

LEMMA SampleTypes ==
  ASSUME TypeOK, CountInv, NEW level \in Levels, NEW edge \in BOOLEAN,
         HandleSamplingForDigitizer(level, edge)
  PROVE  TypeOK' /\ CountInv'
<1> DEFINE taken == ~triggered /\ Triggers(edge)
           r     == [ring EXCEPT ![ramAdrPtr] = stamp]
           p     == IF triggered THEN [post EXCEPT ![samplesAfterTrigger] = stamp] ELSE post
           after == IF triggered THEN samplesAfterTrigger + 1 ELSE samplesAfterTrigger
           adr   == IF taken THEN ramAdrPtr ELSE adrAtTrigger
<1>1. /\ ring' = r /\ post' = p /\ adrAtTrigger' = adr
      /\ ramAdrPtr' = Wrap(ramAdrPtr)
      /\ waitForLower' = WaitNext
      /\ stamp' = NextStamp(stamp)
      /\ excursion' = (level = "high" /\ (excursion \/ (taken /\ triggerType = 1)))
      /\ UNCHANGED <<digitize, rendering, allowTrigger, triggerType, focus, channel, menu, due, pc>>
  BY DEF HandleSamplingForDigitizer, buttonVars, NextStamp
<1>2. \/ /\ after # Half
         /\ triggered' = (triggered \/ taken)
         /\ samplesAfterTrigger' = after
         /\ countSinceLastSample' = IF countSinceLastSample < N
                                    THEN countSinceLastSample + 1 ELSE N
         /\ history' = [i \in 1 .. 4 |-> IF i = 1 THEN level ELSE history[i - 1]]
         /\ UNCHANGED <<display, bufferOverflow>>
      \/ /\ after = Half
         /\ bufferOverflow' = TRUE
         /\ triggered' = FALSE
         /\ samplesAfterTrigger' = 0
         /\ countSinceLastSample' = 0
         /\ history' = HistoryOf("low")
         /\ CopyDataBufferToDisplayBuffer(r, p, adr)
  BY DEF HandleSamplingForDigitizer
<1> HIDE DEF r, p, after, adr, taken
<1>3. Half \in Nat /\ Half >= 1 /\ N = 2 * Half
  BY HalfFact
<1>4. /\ stamp \in 0 .. Stamps - 1 /\ ramAdrPtr \in 0 .. N /\ adrAtTrigger \in 0 .. N
      /\ samplesAfterTrigger \in 0 .. Half - 1 /\ countSinceLastSample \in 0 .. N
      /\ ring \in [0 .. N -> Samples] /\ post \in [0 .. Half -> Samples]
      /\ triggered \in BOOLEAN
      /\ ~triggered => samplesAfterTrigger = 0
  BY DEF TypeOK, CountInv
<1>5. ramAdrPtr' \in 0 .. N /\ stamp' \in 0 .. Stamps - 1
  BY <1>1, <1>4, WrapFact, NextStampFact
<1>6. r \in [0 .. N -> Samples] /\ p \in [0 .. Half -> Samples] /\ adr \in 0 .. N
  <2>1. stamp \in Samples
    BY <1>4 DEF Samples
  <2> QED
    BY <1>3, <1>4, <2>1 DEF r, p, adr
<1>7. after \in 0 .. Half /\ (~triggered => after = 0)
  BY <1>3, <1>4 DEF after
<1>8. waitForLower' \in BOOLEAN /\ excursion' \in BOOLEAN
  <2>1. WaitNext \in BOOLEAN
    BY DEF WaitNext, AllIn, TypeOK
  <2>2. excursion' \in BOOLEAN
    BY <1>1
  <2> QED
    BY <1>1, <2>1, <2>2
<1>9. level \in AllLevels /\ history \in [1 .. 4 -> AllLevels]
  BY LevelsAssumption DEF TypeOK
<1>10. CASE after # Half
  <2>1. /\ triggered' = (triggered \/ taken)
        /\ samplesAfterTrigger' = after
        /\ countSinceLastSample' = IF countSinceLastSample < N
                                   THEN countSinceLastSample + 1 ELSE N
        /\ history' = [i \in 1 .. 4 |-> IF i = 1 THEN level ELSE history[i - 1]]
        /\ UNCHANGED <<display, bufferOverflow>>
    BY <1>2, <1>10
  <2>2. samplesAfterTrigger' \in 0 .. Half - 1 /\ countSinceLastSample' \in 0 .. N
    BY <1>3, <1>4, <1>7, <1>10, <2>1, NAssumption
  <2>3. triggered' \in BOOLEAN /\ history' \in [1 .. 4 -> AllLevels]
    BY <1>9, <2>1, HistoryTypes
  <2>4. TypeOK'
    BY <1>1, <1>5, <1>6, <1>8, <2>1, <2>2, <2>3 DEF TypeOK
  <2>5. triggered' => countSinceLastSample' = N
    <3>1. taken => countSinceLastSample + 1 >= N
      BY DEF taken, Triggers
    <3>2. triggered => countSinceLastSample = N
      BY DEF CountInv
    <3> QED
      BY <1>4, <2>1, <3>1, <3>2, NAssumption
  <2> QED
    BY <1>7, <2>1, <2>4, <2>5 DEF CountInv
<1>11. CASE after = Half
  <2>1. /\ bufferOverflow' = TRUE /\ triggered' = FALSE /\ samplesAfterTrigger' = 0
        /\ countSinceLastSample' = 0 /\ history' = HistoryOf("low")
        /\ CopyDataBufferToDisplayBuffer(r, p, adr)
    BY <1>2, <1>11
  <2>2. display' \in [0 .. N - 1 -> Samples]
    <3>1. ASSUME NEW k \in 0 .. Half PROVE p[k] \in Samples /\ Before(r, adr, k) \in Samples
      <4>1. (IF k <= adr THEN adr - k ELSE adr - k + N + 1) \in 0 .. N
        BY <1>3, <1>6
      <4> QED
        BY <1>6, <4>1 DEF Before
    <3>2. \A x \in 0 .. N - 1 : /\ x <= Half => Half - x \in 0 .. Half
                                /\ ~(x <= Half) => x - Half \in 0 .. Half
      BY <1>3
    <3>3. display' = [x \in 0 .. N - 1 |->
                        IF x <= Half THEN Before(r, adr, Half - x) ELSE p[x - Half]]
      BY <2>1 DEF CopyDataBufferToDisplayBuffer
    <3> QED
      BY <3>1, <3>2, <3>3
  <2>3. history' \in [1 .. 4 -> AllLevels]
    BY <2>1 DEF HistoryOf, AllLevels
  <2>4. samplesAfterTrigger' \in 0 .. Half - 1 /\ countSinceLastSample' \in 0 .. N
    BY <1>3, <2>1
  <2>5. TypeOK'
    BY <1>1, <1>5, <1>6, <1>8, <2>1, <2>2, <2>3, <2>4 DEF TypeOK
  <2> QED
    BY <2>1, <2>5 DEF CountInv
<1> QED
  BY <1>10, <1>11

LEMMA SampleStep ==
  ASSUME Stamps > N, DigitizerInv, NEW level \in Levels, NEW edge \in BOOLEAN,
         HandleSamplingForDigitizer(level, edge)
  PROVE  /\ DigitizerInv'
         /\ \/ display' = display
            \/ ~rendering /\ display' = Picture!WindowEnding(stamp)
<1> DEFINE taken == ~triggered /\ Triggers(edge)
           r     == [ring EXCEPT ![ramAdrPtr] = stamp]
           p     == IF triggered THEN [post EXCEPT ![samplesAfterTrigger] = stamp] ELSE post
           after == IF triggered THEN samplesAfterTrigger + 1 ELSE samplesAfterTrigger
           adr   == IF taken THEN ramAdrPtr ELSE adrAtTrigger
<1>1. /\ digitize /\ ~rendering /\ ~bufferOverflow
      /\ ring' = r /\ post' = p /\ adrAtTrigger' = adr
      /\ ramAdrPtr' = Wrap(ramAdrPtr)
      /\ stamp' = NextStamp(stamp)
  BY DEF HandleSamplingForDigitizer, NextStamp
<1>2. \/ /\ after # Half
         /\ triggered' = (triggered \/ taken)
         /\ samplesAfterTrigger' = after
         /\ countSinceLastSample' = IF countSinceLastSample < N
                                    THEN countSinceLastSample + 1 ELSE N
         /\ UNCHANGED display
      \/ /\ after = Half
         /\ triggered' = FALSE
         /\ samplesAfterTrigger' = 0
         /\ countSinceLastSample' = 0
         /\ CopyDataBufferToDisplayBuffer(r, p, adr)
  BY DEF HandleSamplingForDigitizer
<1> HIDE DEF r, p, after, adr, taken
<1>3. Half \in Nat /\ Half >= 1 /\ N = 2 * Half
  BY HalfFact
<1>4. /\ stamp \in 0 .. Stamps - 1 /\ ramAdrPtr \in 0 .. N /\ adrAtTrigger \in 0 .. N
      /\ samplesAfterTrigger \in 0 .. Half - 1 /\ countSinceLastSample \in 0 .. N
      /\ ring \in [0 .. N -> Samples] /\ post \in [0 .. Half -> Samples]
  BY DEF DigitizerInv, TypeOK
<1>5. TypeOK' /\ CountInv'
  BY SampleTypes DEF DigitizerInv
<1>6. ramAdrPtr' \in 0 .. N
  BY <1>5 DEF TypeOK
<1>7. after \in 0 .. Half
  BY <1>3, <1>4 DEF after

(* The ring, looked at from where it writes next. *)
<1>8. \A k \in 1 .. Known + 1 : k <= N + 1 => r[Behind(ramAdrPtr', k)] = Ago(stamp', k)
  <2> SUFFICES ASSUME NEW k \in 1 .. Known + 1, k <= N + 1
               PROVE  r[Behind(ramAdrPtr', k)] = Ago(stamp', k)
    OBVIOUS
  <2>1. Known \in 0 .. N + 1
    BY <1>4, NAssumption DEF Known
  <2>2. CASE k = 1
    BY <1>1, <1>4, <2>2, WrapFact, StampFact DEF r
  <2>3. CASE k # 1
    <3> DEFINE j == k - 1
    <3>1. j \in 1 .. N /\ j \in 1 .. Known /\ k = j + 1
      BY <2>1, <2>3, NAssumption
    <3> HIDE DEF j
    <3>2. ring[Behind(ramAdrPtr, j)] = Ago(stamp, j)
      BY <3>1 DEF DigitizerInv, CaptureInv
    <3>3. Behind(ramAdrPtr, j) # ramAdrPtr /\ Behind(ramAdrPtr, j) \in 0 .. N
      BY <1>4, <3>1, WrapFact
    <3>4. r[Behind(ramAdrPtr, j)] = ring[Behind(ramAdrPtr, j)]
      BY <1>4, <3>3 DEF r
    <3>5. Behind(ramAdrPtr', j + 1) = Behind(ramAdrPtr, j)
      BY <1>1, <1>4, <3>1, WrapFact
    <3>6. Ago(stamp', j + 1) = Ago(stamp, j)
      BY <1>1, <1>4, <3>1, StampFact
    <3> QED
      BY <3>1, <3>2, <3>4, <3>5, <3>6
  <2> QED
    BY <2>2, <2>3

(* The samples after the trigger, and the trigger's place. *)
<1>9. ASSUME triggered
       PROVE  /\ after = samplesAfterTrigger + 1 /\ countSinceLastSample = N
              /\ adr = Behind(ramAdrPtr', after + 1)
              /\ \A x \in 0 .. after - 1 : p[x] = Ago(stamp', after - x)
  <2>1. after = samplesAfterTrigger + 1 /\ countSinceLastSample = N
    BY <1>9 DEF after, DigitizerInv, CountInv
  <2>2. adr = adrAtTrigger /\ adrAtTrigger = Behind(ramAdrPtr, after)
    BY <1>9, <2>1 DEF adr, taken, DigitizerInv, CaptureInv
  <2>3. Behind(ramAdrPtr', after + 1) = Behind(ramAdrPtr, after)
    BY <1>1, <1>3, <1>4, <2>1, WrapFact
  <2>4. ASSUME NEW x \in 0 .. after - 1 PROVE p[x] = Ago(stamp', after - x)
    <3>1. CASE x = samplesAfterTrigger
      BY <1>1, <1>3, <1>4, <1>9, <2>1, <3>1, StampFact DEF p
    <3>2. CASE x # samplesAfterTrigger
      <4> DEFINE k == samplesAfterTrigger - x
      <4>1. k \in 1 .. N /\ x \in 0 .. samplesAfterTrigger - 1 /\ x \in 0 .. Half
            /\ after - x = k + 1
        BY <1>3, <1>4, <2>1, <3>2
      <4>2. p[x] = post[x]
        BY <1>4, <1>9, <3>2, <4>1 DEF p
      <4>3. post[x] = Ago(stamp, k)
        BY <1>9, <4>1 DEF DigitizerInv, CaptureInv
      <4> HIDE DEF k
      <4>4. Ago(stamp', k + 1) = Ago(stamp, k)
        BY <1>1, <1>4, <4>1, StampFact
      <4> QED
        BY <4>1, <4>2, <4>3, <4>4
    <3> QED
      BY <3>1, <3>2
  <2> QED
    BY <2>1, <2>2, <2>3, <2>4

<1>10. CASE after # Half
  <2>1. /\ triggered' = (triggered \/ taken)
        /\ samplesAfterTrigger' = after
        /\ countSinceLastSample' = IF countSinceLastSample < N
                                   THEN countSinceLastSample + 1 ELSE N
        /\ UNCHANGED display
    BY <1>2, <1>10
  <2>2. \A k \in 1 .. Known' : r[Behind(ramAdrPtr', k)] = Ago(stamp', k)
    <3>1. CASE triggered
      <4>1. Known' = N + 1 /\ Known + 1 >= N + 1
        BY <1>4, <1>9, <2>1, <3>1, NAssumption DEF Known
      <4>2. Known \in Nat
        BY <1>4, NAssumption DEF Known
      <4> QED
        BY <1>8, <4>1, <4>2, NAssumption
    <3>2. CASE ~triggered
      <4>1. samplesAfterTrigger = 0 /\ samplesAfterTrigger' = 0
        BY <2>1, <3>2 DEF after, DigitizerInv, CountInv
      <4>2. Known' <= Known + 1 /\ Known' \in 0 .. N /\ Known \in 0 .. N
        BY <1>4, <2>1, <4>1, NAssumption DEF Known
      <4> QED
        BY <1>8, <4>2, NAssumption
    <3> QED
      BY <3>1, <3>2
  <2>3. ASSUME triggered'
        PROVE  /\ adr = Behind(ramAdrPtr', samplesAfterTrigger' + 1)
               /\ \A x \in 0 .. samplesAfterTrigger' - 1 :
                    p[x] = Ago(stamp', samplesAfterTrigger' - x)
    <3>1. CASE triggered
      BY <1>4, <1>9, <2>1, <3>1
    <3>2. CASE ~triggered
      <4>1. taken /\ samplesAfterTrigger' = 0 /\ adr = ramAdrPtr
        BY <2>1, <2>3, <3>2 DEF after, adr, DigitizerInv, CountInv
      <4>2. adr = Behind(ramAdrPtr', 1)
        BY <1>1, <1>4, <4>1, WrapFact
      <4> QED
        BY <4>1, <4>2
    <3> QED
      BY <3>1, <3>2
  <2>4. CaptureInv'
    BY <1>1, <2>2, <2>3 DEF CaptureInv
  <2> QED
    BY <1>5, <2>1, <2>4 DEF DigitizerInv
<1>11. CASE after = Half
  <2>1. /\ triggered' = FALSE /\ samplesAfterTrigger' = 0
        /\ countSinceLastSample' = 0
        /\ CopyDataBufferToDisplayBuffer(r, p, adr)
    BY <1>2, <1>11
  <2>2. triggered
    BY <1>3, <1>11 DEF after, DigitizerInv, CountInv
  <2>3. \A k \in 1 .. N + 1 : r[Behind(ramAdrPtr', k)] = Ago(stamp', k)
    <3>1. Known + 1 >= N + 1
      BY <1>4, <1>9, <2>2, NAssumption DEF Known
    <3> QED
      BY <1>4, <1>8, <3>1, NAssumption DEF Known
  <2>4. adr = Behind(ramAdrPtr', Half + 1)
        /\ \A x \in 0 .. Half - 1 : p[x] = Ago(stamp', Half - x)
    BY <1>9, <1>11, <2>2
  <2>5. ASSUME NEW k \in 0 .. Half
        PROVE  Before(r, adr, k) = Ago(stamp, Half + k)
    <3>1. Half + 1 + k \in 1 .. N + 1 /\ Half + k \in 1 .. N
      BY <1>3
    <3>2. Before(r, adr, k) = r[Behind(ramAdrPtr', Half + 1 + k)]
      <4>1. (IF k <= adr THEN adr - k ELSE adr - k + N + 1) = Behind(ramAdrPtr', Half + 1 + k)
        BY <1>3, <1>6, <2>4, BehindTwice
      <4> QED
        BY <4>1 DEF Before
    <3>3. r[Behind(ramAdrPtr', Half + 1 + k)] = Ago(stamp', Half + 1 + k)
      BY <2>3, <3>1
    <3>4. Ago(stamp', (Half + k) + 1) = Ago(stamp, Half + k)
      BY <1>1, <1>4, <3>1, StampFact
    <3>5. (Half + k) + 1 = Half + 1 + k
      BY <1>3
    <3> QED
      BY <3>2, <3>3, <3>4, <3>5
  <2>6. ASSUME NEW x \in 1 .. Half - 1 PROVE p[x] = Ago(stamp, Half - x - 1)
    <3>1. p[x] = Ago(stamp', Half - x)
      BY <1>3, <2>4
    <3>2. CASE x = Half - 1
      BY <1>1, <1>3, <1>4, <3>1, <3>2, StampFact
    <3>3. CASE x # Half - 1
      <4> DEFINE k == Half - x - 1
      <4>1. k \in 1 .. N /\ k + 1 = Half - x
        BY <1>3, <3>3
      <4> HIDE DEF k
      <4>2. Ago(stamp', k + 1) = Ago(stamp, k)
        BY <1>1, <1>4, <4>1, StampFact
      <4> QED
        BY <3>1, <4>1, <4>2 DEF k
    <3> QED
      BY <3>2, <3>3
  <2>7. display' = [x \in 0 .. N - 1 |->
                      IF x <= Half THEN Before(r, adr, Half - x) ELSE p[x - Half]]
    BY <2>1 DEF CopyDataBufferToDisplayBuffer
  <2>8. display' = Picture!WindowEnding(stamp)
    <3>1. ASSUME NEW x \in 0 .. N - 1
          PROVE  (IF x <= Half THEN Before(r, adr, Half - x) ELSE p[x - Half])
                   = Ago(stamp, IF x <= Half THEN 2 * Half - x ELSE 2 * Half - x - 1)
      <4>1. CASE x <= Half
        <5>1. Half - x \in 0 .. Half /\ Half + (Half - x) = 2 * Half - x
          BY <1>3, <4>1
        <5> QED
          BY <2>5, <4>1, <5>1
      <4>2. CASE x > Half
        <5>1. x - Half \in 1 .. Half - 1 /\ Half - (x - Half) - 1 = 2 * Half - x - 1
          BY <1>3, <4>2
        <5>2. ~(x <= Half)
          BY <1>3, <4>2
        <5> QED
          BY <2>6, <5>1, <5>2
      <4> QED
        BY <1>3, <4>1, <4>2
    <3>2. Picture!WindowEnding(stamp)
            = [x \in 0 .. 2 * Half - 1 |->
                 Ago(stamp, IF x <= Half THEN 2 * Half - x ELSE 2 * Half - x - 1)]
      BY DEF Picture!WindowEnding, Picture!Points, Ago
    <3> QED
      BY <1>3, <2>7, <3>1, <3>2
  <2>9. CaptureInv'
    <3>1. Known' = 0
      BY <2>1 DEF Known
    <3> QED
      BY <2>1, <3>1 DEF CaptureInv
  <2> QED
    BY <1>1, <1>5, <2>8, <2>9 DEF DigitizerInv
<1> QED
  BY <1>10, <1>11

-----------------------------------------------------------------------------
(* The steps of the loop and of its timer leave what was captured alone.   *)

captureVars == <<history, countSinceLastSample, triggered, waitForLower, bufferVars>>

LEMMA CaptureKept ==
  ASSUME UNCHANGED captureVars
  PROVE  /\ CountInv => CountInv'
         /\ CaptureInv => CaptureInv'
BY DEF CountInv, CaptureInv, captureVars, bufferVars, Known

(* A step of the loop changes only flags and buttons, each to one of its   *)
(* values, and ends or begins a frame without touching the picture.        *)
LoopOnly ==
  /\ UNCHANGED captureVars
  /\ digitize' \in {digitize, TRUE, FALSE}
  /\ rendering' \in {rendering, ~rendering}
  /\ bufferOverflow' \in {bufferOverflow, FALSE}
  /\ excursion' \in {excursion, FALSE}
  /\ allowTrigger' \in {allowTrigger, ~allowTrigger}
  /\ triggerType' \in {triggerType, (triggerType + 1) % 3}
  /\ focus' \in {focus, "volt", "curr"}
  /\ channel' \in {channel, focus, "both"}
  /\ menu' \in {menu, "away", "open", "closing"}
  /\ pc' \in {pc, "start", "clear", "full", "frame", "render", "elsewhere"}
  /\ due' \in {due, TRUE, FALSE}

(* The frame is being drawn exactly between its beginning and its end. *)
FrameInv == rendering <=> pc = "render"

LEMMA LoopStep ==
  ASSUME TypeOK, FrameInv, Loop \/ ComeBack \/ Timer
  PROVE  LoopOnly /\ FrameInv'
<1>1. CASE Restart
  BY <1>1 DEF LoopOnly, captureVars, FrameInv, TypeOK, Restart, At, flagVars, triggerVars,
              bufferVars, buttonVars
<1>2. CASE NoRestart
  BY <1>2 DEF LoopOnly, captureVars, FrameInv, TypeOK, NoRestart, At, flagVars, triggerVars,
              bufferVars, buttonVars
<1>3. CASE ClearOverflow
  BY <1>3 DEF LoopOnly, captureVars, FrameInv, TypeOK, ClearOverflow, At, flagVars,
              triggerVars, bufferVars, buttonVars
<1>4. CASE StopWhenFull
  BY <1>4 DEF LoopOnly, captureVars, FrameInv, TypeOK, StopWhenFull, At, flagVars,
              triggerVars, bufferVars, buttonVars
<1>5. CASE BeginFrame
  BY <1>5 DEF LoopOnly, captureVars, FrameInv, TypeOK, BeginFrame, At, flagVars, triggerVars,
              bufferVars, buttonVars
<1>6. CASE SkipFrame
  BY <1>6 DEF LoopOnly, captureVars, FrameInv, TypeOK, SkipFrame, At, flagVars, triggerVars,
              bufferVars, buttonVars
<1>7. CASE Frame
  <2>1. CASE NoTouch
    BY <1>7, <2>1 DEF LoopOnly, captureVars, FrameInv, TypeOK, NoTouch, EndFrame, At,
                      bufferVars, buttonVars
  <2>2. CASE PressButton
    BY <1>7, <2>2 DEF LoopOnly, captureVars, FrameInv, TypeOK, PressButton, EndFrame, At,
                      bufferVars
  <2>3. CASE OpenMenu
    BY <1>7, <2>3 DEF LoopOnly, captureVars, FrameInv, TypeOK, OpenMenu, EndFrame, At,
                      bufferVars, buttonVars
  <2>4. CASE SelectDigitizer
    BY <1>7, <2>4 DEF LoopOnly, captureVars, FrameInv, TypeOK, SelectDigitizer, EndFrame, At,
                      Close, bufferVars, buttonVars
  <2>5. CASE SelectOther
    BY <1>7, <2>5 DEF LoopOnly, captureVars, FrameInv, TypeOK, SelectOther, EndFrame, At,
                      Close, bufferVars, buttonVars
  <2> QED
    BY <1>7, <2>1, <2>2, <2>3, <2>4, <2>5 DEF Frame
<1>8. CASE ComeBack
  BY <1>8 DEF LoopOnly, captureVars, FrameInv, TypeOK, ComeBack, At, flagVars, triggerVars,
              bufferVars, buttonVars
<1>9. CASE Timer
  BY <1>9 DEF LoopOnly, captureVars, FrameInv, TypeOK, Timer, flagVars, triggerVars,
              bufferVars, buttonVars
<1> QED
  BY <1>1, <1>2, <1>3, <1>4, <1>5, <1>6, <1>7, <1>8, <1>9 DEF Loop

LEMMA LoopTypes ==
  ASSUME TypeOK, LoopOnly
  PROVE  TypeOK'
<1>1. digitize' \in BOOLEAN
  BY DEF TypeOK, LoopOnly
<1>2. rendering' \in BOOLEAN
  BY DEF TypeOK, LoopOnly
<1>3. bufferOverflow' \in BOOLEAN
  BY DEF TypeOK, LoopOnly
<1>4. excursion' \in BOOLEAN
  BY DEF TypeOK, LoopOnly
<1>5. allowTrigger' \in BOOLEAN
  BY DEF TypeOK, LoopOnly
<1>6. due' \in BOOLEAN
  BY DEF TypeOK, LoopOnly
<1>7. waitForLower' \in BOOLEAN /\ triggered' \in BOOLEAN
  BY DEF TypeOK, LoopOnly, captureVars
<1>8. triggerType' \in 0 .. 2
  <2>1. triggerType \in 0 .. 2 /\ triggerType' \in {triggerType, (triggerType + 1) % 3}
    BY DEF TypeOK, LoopOnly
  <2> QED
    BY ONLY <2>1
<1>9. /\ focus' \in {"volt", "curr"} /\ channel' \in {"volt", "curr", "both"}
      /\ menu' \in {"away", "open", "closing"}
      /\ pc' \in {"start", "clear", "full", "frame", "render", "elsewhere"}
  BY DEF TypeOK, LoopOnly
<1>10. UNCHANGED <<history, countSinceLastSample, bufferVars>>
  BY DEF LoopOnly, captureVars
<1> QED
  BY <1>1, <1>2, <1>3, <1>4, <1>5, <1>6, <1>7, <1>8, <1>9, <1>10
     DEF TypeOK, bufferVars, Samples

-----------------------------------------------------------------------------
(* Together. *)

FullInv == DigitizerInv /\ FrameInv

LEMMA DigitizerInit == Init => FullInv /\ Picture!Init
<1> SUFFICES ASSUME Init PROVE FullInv /\ Picture!Init
  OBVIOUS
<1>1. TypeOK
  <2>1. Half \in Nat \ {0} /\ N \in Nat /\ 0 \in 0 .. Stamps - 1 /\ 0 \in 0 .. Half - 1
        /\ 0 \in 0 .. N
    BY HalfFact, NAssumption, StampsAssumption
  <2>2. /\ ring \in [0 .. N -> Samples] /\ post \in [0 .. Half -> Samples]
        /\ display \in [0 .. N - 1 -> Samples]
        /\ history \in [1 .. 4 -> AllLevels]
    BY DEF Init, HistoryOf, AllLevels, Samples
  <2>3. /\ digitize \in BOOLEAN /\ rendering \in BOOLEAN /\ bufferOverflow \in BOOLEAN
        /\ allowTrigger \in BOOLEAN /\ waitForLower \in BOOLEAN /\ triggered \in BOOLEAN
        /\ excursion \in BOOLEAN /\ due \in BOOLEAN
    BY DEF Init
  <2>4. /\ triggerType \in 0 .. 2 /\ focus \in {"volt", "curr"}
        /\ channel \in {"volt", "curr", "both"} /\ menu \in {"away", "open", "closing"}
        /\ pc \in {"start", "clear", "full", "frame", "render", "elsewhere"}
    BY DEF Init
  <2> QED
    BY <2>1, <2>2, <2>3, <2>4 DEF Init, TypeOK
<1>2. CountInv /\ CaptureInv
  BY DEF Init, CountInv, CaptureInv, Known
<1>3. Picture!Init
  BY HalfFact DEF Init, Picture!Init, Picture!Blank, Picture!Points, NoSample
<1> QED
  BY <1>1, <1>2, <1>3 DEF FullInv, DigitizerInv, FrameInv, Init

LEMMA DigitizerStep ==
  ASSUME Stamps > N, FullInv, [Next]_vars
  PROVE  FullInv' /\ [Picture!Next]_<<display, rendering>>
<1>1. CASE Sampling
  <2> PICK level \in Levels, edge \in BOOLEAN : HandleSamplingForDigitizer(level, edge)
    BY <1>1 DEF Sampling
  <2>1. /\ DigitizerInv'
        /\ \/ display' = display
           \/ ~rendering /\ display' = Picture!WindowEnding(stamp)
    BY SampleStep DEF FullInv
  <2>2. UNCHANGED <<rendering, pc>> /\ stamp \in 0 .. Stamps - 1
    BY DEF HandleSamplingForDigitizer, FullInv, DigitizerInv, TypeOK
  <2> QED
    BY <2>1, <2>2 DEF FullInv, FrameInv, Picture!Next, Picture!Capture
<1>2. CASE Loop \/ ComeBack \/ Timer
  <2>1. LoopOnly /\ FrameInv'
    BY <1>2, LoopStep DEF FullInv, DigitizerInv
  <2>2. DigitizerInv'
    BY <2>1, LoopTypes, CaptureKept DEF LoopOnly, FullInv, DigitizerInv
  <2>3. rendering' \in {rendering, ~rendering} /\ display' = display
    BY <2>1 DEF LoopOnly, captureVars, bufferVars
  <2> QED
    BY <2>1, <2>2, <2>3 DEF FullInv, Picture!Next, Picture!Draw
<1>3. CASE UNCHANGED vars
  <2>1. TypeOK'
    BY <1>3 DEF vars, FullInv, DigitizerInv, TypeOK
  <2>2. CountInv' /\ CaptureInv'
    BY <1>3, CaptureKept DEF vars, FullInv, DigitizerInv, captureVars, bufferVars
  <2> QED
    BY <1>3, <2>1, <2>2 DEF vars, FullInv, DigitizerInv, FrameInv
<1> QED
  BY <1>1, <1>2, <1>3 DEF Next

(* The invariant of the acquisition, for every even buffer length: no      *)
(* index leaves its buffer, the ring holds the latest samples, and the     *)
(* trigger and what came after it are where the counters say.              *)
THEOREM CaptureCorrect ==
  ASSUME Stamps > N
  PROVE  Spec => []FullInv
<1>1. FullInv /\ [Next]_vars => FullInv'
  BY DigitizerStep
<1> QED
  BY <1>1, DigitizerInit, PTL DEF Spec

(* Types, counters and frames alone need no sampling times. *)
CountsInv == TypeOK /\ CountInv /\ FrameInv

LEMMA CountsStep == ASSUME CountsInv, [Next]_vars PROVE CountsInv'
<1>1. CASE Sampling
  <2> PICK level \in Levels, edge \in BOOLEAN : HandleSamplingForDigitizer(level, edge)
    BY <1>1 DEF Sampling
  <2>1. TypeOK' /\ CountInv'
    BY SampleTypes DEF CountsInv
  <2>2. UNCHANGED <<rendering, pc>>
    BY DEF HandleSamplingForDigitizer
  <2> QED
    BY <2>1, <2>2 DEF CountsInv, FrameInv
<1>2. CASE Loop \/ ComeBack \/ Timer
  <2>1. LoopOnly /\ FrameInv'
    BY <1>2, LoopStep DEF CountsInv
  <2> QED
    BY <2>1, LoopTypes, CaptureKept DEF LoopOnly, CountsInv
<1>3. CASE UNCHANGED vars
  BY <1>3 DEF vars, CountsInv, TypeOK, CountInv, FrameInv
<1> QED
  BY <1>1, <1>2, <1>3 DEF Next

LEMMA CountsInvariant == Spec => []CountsInv
<1>1. Init => CountsInv
  BY DigitizerInit DEF FullInv, DigitizerInv, CountsInv
<1>2. CountsInv /\ [Next]_vars => CountsInv'
  BY CountsStep
<1> QED
  BY <1>1, <1>2, PTL DEF Spec

(* No index leaves its buffer, whatever the length (the type invariant     *)
(* gives every pointer and counter its range).                             *)
THEOREM BufferTypes == Spec => []TypeOK
<1>1. CountsInv => TypeOK
  BY DEF CountsInv
<1> QED
  BY <1>1, CountsInvariant, PTL

(* The digitizer implements the oscilloscope: every picture shown is one   *)
(* window of consecutive samples around its trigger, and changes as a      *)
(* whole, never while it is drawn.                                         *)
THEOREM ScopeImplemented ==
  ASSUME Stamps > N
  PROVE  Spec => IsScope
<1>1. FullInv /\ [Next]_vars => [Picture!Next]_<<display, rendering>>
  BY DigitizerStep
<1> QED
  BY <1>1, DigitizerInit, CaptureCorrect, PTL DEF Spec, IsScope, Picture!Spec
-----------------------------------------------------------------------------
(* Level triggering.  While the signal stays high after a trigger, either  *)
(* the digitizer waits for a lower one; or it forgot so with a full buffer,*)
(* and sees at the fifth sample after it, when its history is all high     *)
(* again, that it has to wait.  A buffer of five samples or less would     *)
(* have been full by then.                                                 *)

Waiting == waitForLower /\ AllIn(history, "high")

Refilling ==
  /\ ~triggered
  /\ countSinceLastSample <= 4
  /\ \A i \in 1 .. 4 : history[i] = IF i <= countSinceLastSample THEN "high" ELSE "low"
  /\ countSinceLastSample > 0 => ~waitForLower

OnceInv == excursion => triggerType = 1 /\ (Waiting \/ Refilling)

(* A signal that stayed high is not detected again. *)
LEMMA NotAgain ==
  ASSUME N > 5, TypeOK, OnceInv, excursion, NEW edge \in BOOLEAN
  PROVE  ~Triggers(edge)
<1>1. triggerType = 1 /\ (Waiting \/ Refilling) /\ countSinceLastSample \in 0 .. N
  BY DEF OnceInv, TypeOK
<1>2. CASE Waiting
  BY <1>1, <1>2 DEF Waiting, Triggers, Continuous, LevelDetected
<1>3. CASE Refilling
  <2>1. AllIn(history, "high") => countSinceLastSample >= 4
    <3>1. 4 \in 1 .. 4
      OBVIOUS
    <3> QED
      BY <1>1, <1>3, <3>1 DEF Refilling, AllIn
  <2> QED
    BY <1>1, <1>3, <2>1, NAssumption DEF Refilling, Triggers, Continuous, LevelDetected
<1> QED
  BY <1>1, <1>2, <1>3

LEMMA OnceSampled ==
  ASSUME N > 5, TypeOK, CountInv, OnceInv, NEW level \in Levels, NEW edge \in BOOLEAN,
         HandleSamplingForDigitizer(level, edge)
  PROVE  OnceInv' /\ (~triggered /\ triggered' => ~excursion)
<1> DEFINE taken == ~triggered /\ Triggers(edge)
           after == IF triggered THEN samplesAfterTrigger + 1 ELSE samplesAfterTrigger
<1>1. /\ waitForLower' = WaitNext
      /\ excursion' = (level = "high" /\ (excursion \/ (taken /\ triggerType = 1)))
      /\ UNCHANGED triggerType
  BY DEF HandleSamplingForDigitizer, buttonVars
<1>2. \/ /\ after # Half
         /\ triggered' = (triggered \/ taken)
         /\ countSinceLastSample' = IF countSinceLastSample < N
                                    THEN countSinceLastSample + 1 ELSE N
         /\ history' = [i \in 1 .. 4 |-> IF i = 1 THEN level ELSE history[i - 1]]
      \/ /\ after = Half /\ triggered' = FALSE /\ countSinceLastSample' = 0
         /\ history' = HistoryOf("low")
  BY DEF HandleSamplingForDigitizer
<1>3. excursion => ~taken
  BY NotAgain
<1>4. ~triggered => after # Half
  BY HalfFact DEF CountInv
<1> HIDE DEF after
<1>5. ~triggered /\ triggered' => ~excursion
  BY <1>2, <1>3
<1>6. countSinceLastSample \in 0 .. N /\ history \in [1 .. 4 -> AllLevels]
  BY DEF TypeOK
<1>7. AllIn(history, "high") /\ triggerType = 1 => WaitNext
  <2>1. AllIn(history, "high") => ~AllIn(history, "low")
    <3>1. 1 \in 1 .. 4
      OBVIOUS
    <3> QED
      BY <3>1 DEF AllIn
  <2> QED
    BY <2>1 DEF WaitNext
<1>8. ASSUME ~excursion' PROVE OnceInv'
  BY <1>8 DEF OnceInv
<1>9. ASSUME excursion', ~excursion PROVE OnceInv'
  <2>1. taken /\ triggerType = 1 /\ level = "high"
    BY <1>1, <1>9
  <2>2. AllIn(history, "high")
    BY <2>1 DEF Triggers, Continuous, LevelDetected
  <2>3. waitForLower'
    BY <1>1, <1>7, <2>1, <2>2
  <2>4. history' = [i \in 1 .. 4 |-> IF i = 1 THEN level ELSE history[i - 1]]
    BY <1>2, <1>4, <2>1
  <2>5. AllIn(history, "high")'
    BY <2>1, <2>2, <2>4 DEF AllIn
  <2> QED
    BY <1>1, <2>1, <2>3, <2>5 DEF OnceInv, Waiting
<1>10. ASSUME excursion', excursion PROVE OnceInv'
  <2>1. triggerType = 1 /\ triggerType' = 1 /\ (Waiting \/ Refilling) /\ level = "high" /\ ~taken
    BY <1>1, <1>3, <1>10 DEF OnceInv
  <2>2. CASE after = Half
    <3>1. ~triggered' /\ countSinceLastSample' = 0 /\ history' = HistoryOf("low")
      BY <1>2, <2>2
    <3>2. \A i \in 1 .. 4 : history'[i] = IF i <= countSinceLastSample' THEN "high" ELSE "low"
      BY <3>1 DEF HistoryOf
    <3> QED
      BY <2>1, <3>1, <3>2 DEF OnceInv, Refilling
  <2>3. CASE after # Half
    <3>1. /\ triggered' => triggered
          /\ countSinceLastSample' = IF countSinceLastSample < N
                                     THEN countSinceLastSample + 1 ELSE N
          /\ history' = [i \in 1 .. 4 |-> IF i = 1 THEN level ELSE history[i - 1]]
      BY <1>2, <2>1, <2>3
    <3>2. CASE AllIn(history, "high")
      <4>1. waitForLower'
        BY <1>1, <1>7, <2>1, <3>2
      <4>2. AllIn(history, "high")'
        BY <2>1, <3>1, <3>2 DEF AllIn
      <4> QED
        BY <2>1, <4>1, <4>2 DEF OnceInv, Waiting
    <3>3. CASE ~AllIn(history, "high")
      <4>1. Refilling
        BY <2>1, <3>3 DEF Waiting
      <4>2. countSinceLastSample <= 3
        BY <1>6, <3>3, <4>1 DEF Refilling, AllIn
      <4>3. countSinceLastSample' = countSinceLastSample + 1 /\ ~triggered'
        BY <1>6, <3>1, <4>1, <4>2, NAssumption DEF Refilling
      <4>4. \A i \in 1 .. 4 : history'[i] = IF i <= countSinceLastSample' THEN "high" ELSE "low"
        <5> SUFFICES ASSUME NEW i \in 1 .. 4
                     PROVE  history'[i] = IF i <= countSinceLastSample + 1 THEN "high" ELSE "low"
          BY <4>3
        <5>1. CASE i = 1
          BY <1>6, <2>1, <3>1, <5>1
        <5>2. CASE i # 1
          <6>1. i - 1 \in 1 .. 4 /\ history'[i] = history[i - 1]
            BY <3>1, <5>2
          <6>2. history[i - 1] = IF i - 1 <= countSinceLastSample THEN "high" ELSE "low"
            BY <4>1, <6>1 DEF Refilling
          <6> QED
            BY <1>6, <6>1, <6>2
        <5> QED
          BY <5>1, <5>2
      <4>5. ~waitForLower'
        <5>1. CASE countSinceLastSample = 0
          <6>1. AllIn(history, "low")
            BY <4>1, <5>1 DEF AllIn, Refilling
          <6>2. ~WaitNext
            BY <2>1, <6>1 DEF WaitNext
          <6> QED
            BY <1>1, <6>2
        <5>2. CASE countSinceLastSample # 0
          <6>1. ~waitForLower
            BY <1>6, <4>1, <5>2 DEF Refilling
          <6> QED
            BY <1>1, <2>1, <3>3, <6>1 DEF WaitNext
        <5> QED
          BY <5>1, <5>2
      <4> QED
        BY <1>6, <2>1, <4>2, <4>3, <4>4, <4>5 DEF OnceInv, Refilling
    <3> QED
      BY <3>2, <3>3
  <2> QED
    BY <2>2, <2>3
<1> QED
  BY <1>5, <1>8, <1>9, <1>10

LEMMA OnceStep ==
  ASSUME N > 5, CountsInv, OnceInv, [Next]_vars
  PROVE  OnceInv' /\ (~triggered /\ triggered' => ~excursion)
<1>1. CASE Sampling
  BY <1>1, OnceSampled DEF Sampling, CountsInv
<1>2. CASE Loop \/ ComeBack \/ Timer
  <2>1. /\ UNCHANGED <<history, waitForLower, countSinceLastSample, triggered>>
        /\ ~excursion' \/ UNCHANGED <<excursion, triggerType>>
    BY <1>2 DEF Loop, Frame, EndFrame, NoTouch, PressButton, OpenMenu, SelectDigitizer, SelectOther,
                Restart, NoRestart, ClearOverflow, StopWhenFull, BeginFrame, SkipFrame, ComeBack,
                Timer, triggerVars, buttonVars
  <2> QED
    BY <2>1 DEF OnceInv, Waiting, Refilling, AllIn
<1>3. CASE UNCHANGED vars
  BY <1>3 DEF vars, OnceInv, Waiting, Refilling, AllIn
<1> QED
  BY <1>1, <1>2, <1>3 DEF Next

(* A signal that never fell below the level since the last level trigger   *)
(* triggers no second picture, for every buffer of more than five samples; *)
(* also when a full buffer, a stop, the menu or a button came between.     *)
THEOREM TriggersOnce ==
  ASSUME N > 5
  PROVE  Spec => OncePerExcursion
<1>1. Init => OnceInv
  BY DEF Init, OnceInv
<1>2. CountsInv /\ OnceInv /\ [Next]_vars => OnceInv'
  BY OnceStep
<1>3. CountsInv /\ OnceInv /\ [Next]_vars
        => [~triggered /\ triggered' /\ triggerType = 1 => ~excursion]_vars
  BY OnceStep
<1> QED
  BY <1>1, <1>2, <1>3, CountsInvariant, PTL DEF Spec, OncePerExcursion

-----------------------------------------------------------------------------
(* Filling the buffer.  ContinuousFills needs the interrupt to come again  *)
(* and again; this is what each step does for it.                          *)

Filling == digitize /\ Continuous /\ allowTrigger /\ ~bufferOverflow

(* How many samples are missing, at most. *)
Missing == IF triggered THEN Half - samplesAfterTrigger ELSE Half + N + 1 - countSinceLastSample

(* The interrupt finds the digitizer as it needs it, because no frame is   *)
(* drawn meanwhile; it misses no more than one and a half pictures.        *)
FillingInv == Filling => ~rendering /\ Missing \in 1 .. N + Half + 1

(* Until the buffer is full each sample makes one less missing, and nothing*)
(* else, no step of the loop, no touch and no menu, makes it more or stops *)
(* the filling.                                                            *)
MissesLess ==
  [][Filling => \/ bufferOverflow'
                \/ Filling' /\ IF Sampling THEN Missing' < Missing ELSE Missing' = Missing]_vars

(* A frame is only begun when there is nothing to fill, and its buttons    *)
(* come at its end.                                                        *)
NothingToDraw == pc = "render" => ~digitize \/ ~allowTrigger \/ ~Continuous

LEMMA NothingToDrawStep ==
  ASSUME CountsInv, NothingToDraw, [Next]_vars
  PROVE  NothingToDraw'
<1>1. CASE Sampling \/ Timer \/ UNCHANGED vars
  BY <1>1 DEF Sampling, HandleSamplingForDigitizer, Timer, vars, NothingToDraw, Continuous,
              flagVars, buttonVars
<1>2. CASE BeginFrame
  BY <1>2 DEF BeginFrame, MayRender, NothingToDraw, Continuous, buttonVars
<1>3. CASE Restart \/ NoRestart \/ ClearOverflow \/ StopWhenFull \/ SkipFrame \/ Frame \/ ComeBack
  <2>1. pc' # "render"
    BY <1>3 DEF Restart, NoRestart, ClearOverflow, StopWhenFull, SkipFrame, Frame, NoTouch,
                PressButton, OpenMenu, SelectDigitizer, SelectOther, EndFrame, ComeBack, At
  <2> QED
    BY <2>1 DEF NothingToDraw
<1> QED
  BY <1>1, <1>2, <1>3 DEF Next, Loop

LEMMA MissingRange == ASSUME CountsInv PROVE Missing \in 1 .. N + Half + 1
<1>1. /\ samplesAfterTrigger \in 0 .. Half - 1 /\ countSinceLastSample \in 0 .. N
      /\ Half \in Nat /\ Half >= 1 /\ N = 2 * Half
  BY HalfFact DEF CountsInv, TypeOK
<1> QED
  BY <1>1 DEF Missing

LEMMA SampleFills ==
  ASSUME CountsInv, Filling, NEW level \in Levels, NEW edge \in BOOLEAN,
         HandleSamplingForDigitizer(level, edge), ~bufferOverflow'
  PROVE  Filling' /\ Missing' < Missing
<1> DEFINE after == IF triggered THEN samplesAfterTrigger + 1 ELSE samplesAfterTrigger
<1>1. /\ samplesAfterTrigger \in 0 .. Half - 1 /\ countSinceLastSample \in 0 .. N
      /\ Half \in Nat /\ Half >= 1 /\ N = 2 * Half
      /\ ~triggered => samplesAfterTrigger = 0
  BY HalfFact DEF CountsInv, TypeOK, CountInv
<1>2. /\ triggered' = (triggered \/ (~triggered /\ Triggers(edge)))
      /\ samplesAfterTrigger' = after
      /\ countSinceLastSample' = IF countSinceLastSample < N THEN countSinceLastSample + 1 ELSE N
      /\ UNCHANGED <<digitize, allowTrigger, triggerType>>
  BY DEF HandleSamplingForDigitizer, buttonVars
<1>3. Filling'
  BY <1>2 DEF Filling, Continuous
<1>4. Triggers(edge) <=> countSinceLastSample + 1 >= N
  BY DEF Filling, Triggers
<1>5. CASE triggered
  <2>1. triggered' /\ samplesAfterTrigger' = samplesAfterTrigger + 1
    BY <1>2, <1>5
  <2> QED
    BY <1>1, <1>3, <1>5, <2>1 DEF Missing
<1>6. CASE ~triggered /\ Triggers(edge)
  <2>1. triggered' /\ samplesAfterTrigger' = 0
    BY <1>1, <1>2, <1>6
  <2> QED
    BY <1>1, <1>3, <1>6, <2>1 DEF Missing
<1>7. CASE ~triggered /\ ~Triggers(edge)
  <2>1. ~triggered'
    BY <1>2, <1>7
  <2>2. countSinceLastSample' = countSinceLastSample + 1
    BY <1>1, <1>2, <1>4, <1>7
  <2> QED
    BY <1>1, <1>3, <1>7, <2>1, <2>2 DEF Missing
<1> QED
  BY <1>5, <1>6, <1>7

LEMMA LoopLeavesFilling ==
  ASSUME CountsInv, NothingToDraw, Filling, Loop \/ ComeBack \/ Timer
  PROVE  Filling' /\ Missing' = Missing
<1>1. LoopOnly /\ pc # "render"
  BY LoopStep DEF CountsInv, NothingToDraw, Filling
<1>2. UNCHANGED <<samplesAfterTrigger, countSinceLastSample, triggered>>
  BY <1>1 DEF LoopOnly, captureVars, bufferVars
<1>3. ~Frame
  BY <1>1 DEF Frame, NoTouch, PressButton, OpenMenu, SelectDigitizer, SelectOther, EndFrame, At
<1>4. UNCHANGED <<digitize, triggerType, allowTrigger>> /\ ~bufferOverflow'
  <2>1. digitize = TRUE /\ bufferOverflow = FALSE
    BY DEF Filling, CountsInv, TypeOK
  <2>2. CASE Restart \/ NoRestart
    BY <2>1, <2>2 DEF Restart, NoRestart, flagVars, buttonVars
  <2>3. CASE ClearOverflow \/ StopWhenFull
    BY <2>1, <2>3 DEF ClearOverflow, StopWhenFull, buttonVars
  <2>4. CASE BeginFrame \/ SkipFrame
    BY <2>1, <2>4 DEF BeginFrame, SkipFrame, flagVars, buttonVars
  <2>5. CASE ComeBack \/ Timer
    BY <2>1, <2>5 DEF ComeBack, Timer, flagVars, buttonVars
  <2> QED
    BY <1>3, <2>2, <2>3, <2>4, <2>5 DEF Loop
<1> QED
  BY <1>2, <1>4 DEF Filling, Missing, Continuous

(* Continuous digitizing has filled its buffer after at most one and a half*)
(* pictures and one sample, for every buffer length and whatever the loop  *)
(* and the user do.                                                        *)
THEOREM FillsSoon == Spec => []FillingInv /\ MissesLess
<1>1. Init => NothingToDraw
  BY DEF Init, NothingToDraw
<1>2. CountsInv /\ NothingToDraw /\ [Next]_vars => NothingToDraw'
  BY NothingToDrawStep
<1>3. CountsInv /\ NothingToDraw => FillingInv
  BY MissingRange DEF CountsInv, FrameInv, NothingToDraw, Filling, FillingInv
<1>4. CountsInv /\ NothingToDraw /\ [Next]_vars =>
        [Filling => \/ bufferOverflow'
                    \/ Filling' /\ IF Sampling THEN Missing' < Missing ELSE Missing' = Missing]_vars
  <2> SUFFICES ASSUME CountsInv, NothingToDraw, Next, Filling, ~bufferOverflow'
               PROVE  Filling' /\ IF Sampling THEN Missing' < Missing ELSE Missing' = Missing
    OBVIOUS
  <2>1. CASE Sampling
    BY <2>1, SampleFills DEF Sampling
  <2>2. CASE ~Sampling
    BY <2>2, LoopLeavesFilling DEF Next
  <2> QED
    BY <2>1, <2>2
<1> QED
  BY <1>1, <1>2, <1>3, <1>4, CountsInvariant, PTL DEF Spec, MissesLess

-----------------------------------------------------------------------------
(* The screen that is served.  ScreenServed needs loop, timer and interrupt*)
(* to go on; this is what each step does for it.                           *)

Served == rendering \/ pc = "elsewhere"

(* It is time for a frame; and is one held back until the buffer is full?  *)
Ready    == due \/ menu # "away"
HeldBack == Continuous /\ allowTrigger

(* Digitizing is about to start again; what was full is forgotten. *)
Restarting == pc = "clear" \/ (pc = "start" /\ ~digitize /\ menu = "away")

StepsToFrame ==
  CASE pc = "frame" -> 1
    [] pc = "full"  -> 2
    [] pc = "clear" -> 3
    [] pc = "start" -> IF Restarting THEN 4 ELSE 3
    [] OTHER        -> 0

(* Samples and steps of the loop to the next frame, at most. *)
Ahead ==
  IF ~HeldBack THEN StepsToFrame
  ELSE IF Restarting THEN N + Half + StepsToFrame + 3
  ELSE IF ~digitize THEN StepsToFrame
  ELSE IF bufferOverflow THEN IF pc = "frame" THEN 4 ELSE StepsToFrame
  ELSE Missing + 4

AheadInv == ~Served => Ahead \in 1 .. N + Half + 7

(* What brings the frame nearer: while it waits for a full buffer, samples;*)
(* at all other times steps of the loop.                                   *)
Helps == IF Filling /\ pc # "clear" THEN Sampling ELSE Loop

(* The first do so each time, and no step takes the frame further away, not*)
(* even one that forgets a full buffer.                                    *)
ServedSteadily ==
  [][Ready /\ ~Served =>
       \/ Served'
       \/ Ready' /\ IF Helps THEN Ahead' < Ahead ELSE Ahead' = Ahead]_vars

LEMMA StepsRange ==
  ASSUME CountsInv, ~Served
  PROVE  /\ pc \in {"start", "clear", "full", "frame"} /\ StepsToFrame \in 1 .. 4
         /\ Restarting => StepsToFrame \in 3 .. 4
         /\ Ahead \in 1 .. N + Half + 7
<1>1. pc \in {"start", "clear", "full", "frame"}
  BY DEF CountsInv, TypeOK, FrameInv, Served
<1>2. StepsToFrame \in 1 .. 4 /\ (Restarting => StepsToFrame \in 3 .. 4)
  BY <1>1 DEF StepsToFrame, Restarting
<1>3. Missing \in 1 .. N + Half + 1 /\ N + Half \in Nat
  BY MissingRange, HalfFact, NAssumption
<1> HIDE DEF StepsToFrame, Missing
<1> QED
  BY <1>1, <1>2, <1>3 DEF Ahead

(* Steps of the loop between two frames leave buttons and counters alone. *)
LEMMA PassNearer ==
  ASSUME CountsInv, ~Served, Ready, Loop
  PROVE  \/ Served'
         \/ Ready' /\ IF Filling /\ pc # "clear" THEN Ahead' = Ahead ELSE Ahead' < Ahead
<1> USE DEF At
<1>1. /\ pc # "render" /\ digitize \in BOOLEAN /\ bufferOverflow \in BOOLEAN
      /\ N + Half \in Nat
      /\ Missing \in 1 .. N + Half + 1
  BY MissingRange, HalfFact, NAssumption DEF CountsInv, TypeOK, FrameInv, Served
<1>2. CASE Restart
  <2>1. /\ pc = "start" /\ pc' = "clear" /\ Restarting /\ Restarting' /\ ~digitize
        /\ UNCHANGED <<menu, due, allowTrigger, triggerType>>
    BY <1>2 DEF Restart, Restarting, buttonVars
  <2>2. StepsToFrame = 4 /\ StepsToFrame' = 3 /\ HeldBack' = HeldBack /\ Ready' = Ready
    BY <2>1 DEF StepsToFrame, HeldBack, Continuous, Ready
  <2> QED
    BY <1>1, <2>1, <2>2 DEF Ahead, Filling
<1>3. CASE NoRestart
  <2>1. /\ pc = "start" /\ pc' = "full" /\ ~Restarting /\ ~Restarting'
        /\ UNCHANGED <<menu, due, allowTrigger, triggerType, digitize, bufferOverflow,
                       triggered, samplesAfterTrigger, countSinceLastSample>>
    BY <1>3 DEF NoRestart, Restarting, flagVars, buttonVars, triggerVars, bufferVars
  <2>2. /\ StepsToFrame = 3 /\ StepsToFrame' = 2 /\ HeldBack' = HeldBack /\ Ready' = Ready
        /\ Missing' = Missing
    BY <2>1 DEF StepsToFrame, HeldBack, Continuous, Ready, Missing
  <2> QED
    BY <1>1, <2>1, <2>2 DEF Ahead, Filling, HeldBack
<1>4. CASE ClearOverflow
  <2>1. /\ pc = "clear" /\ pc' = "full" /\ Restarting /\ ~Restarting'
        /\ UNCHANGED <<menu, due, allowTrigger, triggerType, digitize,
                       triggered, samplesAfterTrigger, countSinceLastSample>>
        /\ bufferOverflow' = FALSE
    BY <1>4 DEF ClearOverflow, Restarting, buttonVars, triggerVars, bufferVars
  <2>2. /\ StepsToFrame = 3 /\ StepsToFrame' = 2 /\ HeldBack' = HeldBack /\ Ready' = Ready
        /\ Missing' = Missing
    BY <2>1 DEF StepsToFrame, HeldBack, Continuous, Ready, Missing
  <2> QED
    BY <1>1, <2>1, <2>2 DEF Ahead
<1>5. CASE StopWhenFull
  <2>1. /\ pc = "full" /\ pc' = "frame" /\ ~Restarting /\ ~Restarting'
        /\ UNCHANGED <<menu, due, allowTrigger, triggerType, bufferOverflow,
                       triggered, samplesAfterTrigger, countSinceLastSample>>
        /\ digitize' = (digitize /\ ~bufferOverflow)
    BY <1>5 DEF StopWhenFull, Restarting, buttonVars, triggerVars, bufferVars
  <2>2. /\ StepsToFrame = 2 /\ StepsToFrame' = 1 /\ HeldBack' = HeldBack /\ Ready' = Ready
        /\ Missing' = Missing
    BY <2>1 DEF StepsToFrame, HeldBack, Continuous, Ready, Missing
  <2>3. CASE digitize /\ ~bufferOverflow
    <3>1. digitize' /\ ~bufferOverflow' /\ (Filling <=> HeldBack)
      BY <2>1, <2>3 DEF Filling, HeldBack
    <3>2. Ahead = IF HeldBack THEN Missing + 4 ELSE 2
      BY <2>1, <2>2, <2>3 DEF Ahead
    <3>3. Ahead' = IF HeldBack THEN Missing + 4 ELSE 1
      BY <2>1, <2>2, <3>1 DEF Ahead
    <3> QED
      BY <2>1, <2>2, <3>1, <3>2, <3>3
  <2>4. CASE ~(digitize /\ ~bufferOverflow)
    <3>1. ~digitize' /\ ~Filling
      BY <2>1, <2>4 DEF Filling
    <3>2. Ahead = 2 /\ Ahead' = 1
      BY <2>1, <2>2, <2>4, <3>1 DEF Ahead
    <3> QED
      BY <2>2, <3>1, <3>2
  <2> QED
    BY <2>3, <2>4
<1>6. CASE BeginFrame
  BY <1>6 DEF BeginFrame, Served
<1>7. CASE SkipFrame
  <2>1. /\ pc = "frame" /\ pc' = "start" /\ ~Restarting /\ HeldBack /\ digitize
        /\ UNCHANGED <<menu, due, allowTrigger, triggerType, digitize, bufferOverflow,
                       triggered, samplesAfterTrigger, countSinceLastSample>>
    BY <1>7 DEF SkipFrame, MayRender, Ready, HeldBack, Restarting, flagVars, buttonVars,
                triggerVars, bufferVars
  <2>2. ~Restarting'
    BY <2>1 DEF Restarting
  <2>3. /\ StepsToFrame' = 3 /\ HeldBack' = HeldBack /\ Ready' = Ready /\ Missing' = Missing
    BY <2>1, <2>2 DEF StepsToFrame, HeldBack, Continuous, Ready, Missing
  <2> QED
    BY <1>1, <2>1, <2>2, <2>3 DEF Ahead, Filling, HeldBack
<1>8. ~Frame
  BY <1>1 DEF Frame, NoTouch, PressButton, OpenMenu, SelectDigitizer, SelectOther, EndFrame
<1> QED
  BY <1>2, <1>3, <1>4, <1>5, <1>6, <1>7, <1>8 DEF Loop

(* A sample counts when a frame waits for it. *)
LEMMA SampleNearer ==
  ASSUME CountsInv, ~Served, Ready, NEW level \in Levels, NEW edge \in BOOLEAN,
         HandleSamplingForDigitizer(level, edge)
  PROVE  Ready' /\ IF Filling /\ pc # "clear" THEN Ahead' < Ahead ELSE Ahead' = Ahead
<1>1. /\ digitize /\ ~bufferOverflow
      /\ UNCHANGED <<pc, menu, due, allowTrigger, triggerType, digitize>>
  BY DEF HandleSamplingForDigitizer, buttonVars
<1>2. /\ Restarting' = Restarting /\ Ready' = Ready /\ HeldBack' = HeldBack
      /\ (Restarting <=> pc = "clear") /\ (Filling <=> HeldBack)
  BY <1>1 DEF Restarting, Ready, HeldBack, Continuous, Filling
<1>3. StepsToFrame' = StepsToFrame /\ StepsToFrame \in 1 .. 4
  BY <1>1, <1>2, StepsRange DEF StepsToFrame
<1>4. CASE ~(Filling /\ pc # "clear")
  BY <1>2, <1>3, <1>4 DEF Ahead
<1>5. CASE Filling /\ pc # "clear"
  <2>1. Missing \in Int /\ Missing >= 1
    BY MissingRange, HalfFact, NAssumption
  <2>10. Ahead = Missing + 4
    BY <1>1, <1>2, <1>5 DEF Ahead
  <2>2. CASE bufferOverflow'
    <3>1. Ahead' <= 4
      BY <1>1, <1>2, <1>3, <1>5, <2>2 DEF Ahead
    <3>2. Ahead' < Ahead
      <4>1. Ahead' \in Int
        BY <1>1, <1>2, <1>3, <1>5, <2>2 DEF Ahead
      <4> QED
        BY <2>1, <2>10, <3>1, <4>1
    <3> QED
      BY <1>2, <1>5, <3>2
  <2>3. CASE ~bufferOverflow'
    <3>1. Missing' < Missing
      BY <1>5, <2>3, SampleFills
    <3>2. Ahead' = Missing' + 4
      BY <1>1, <1>2, <1>5, <2>3 DEF Ahead
    <3>3. Missing' \in Int
      <4>1. CountsInv'
        BY CountsStep DEF Next, Sampling
      <4>2. /\ Half' = Half /\ N + 1 + Half \in Int /\ samplesAfterTrigger' \in Int
            /\ countSinceLastSample' \in Int
        BY <4>1, HalfFact, NAssumption DEF CountsInv, TypeOK, Half
      <4> QED
        BY <4>2, HalfFact, NAssumption DEF Missing
    <3>4. Ahead' < Ahead
      <4>1. Missing' + 4 < Missing + 4
        <5>1. \A a, b \in Int : a < b => a + 4 < b + 4
          OBVIOUS
        <5> QED
          BY <2>1, <3>1, <3>3, <5>1, Zenon
      <4> QED
        BY <2>10, <3>2, <4>1
    <3> QED
      BY <1>2, <1>5, <3>4
  <2> QED
    BY <2>2, <2>3
<1> QED
  BY <1>4, <1>5

(* From when it is time for a frame, one is drawn after at most as many    *)
(* samples as fill the buffer and two passes of the loop, although a buffer*)
(* that fills while digitizing starts again is forgotten.                  *)
THEOREM ServedSoon == Spec => []AheadInv /\ ServedSteadily
<1>1. CountsInv => AheadInv
  BY StepsRange DEF AheadInv
<1>2. CountsInv /\ [Next]_vars =>
        [Ready /\ ~Served =>
           \/ Served'
           \/ Ready' /\ IF Helps THEN Ahead' < Ahead ELSE Ahead' = Ahead]_vars
  <2> SUFFICES ASSUME CountsInv, Next, Ready, ~Served, ~Served'
               PROVE  Ready' /\ IF Helps THEN Ahead' < Ahead ELSE Ahead' = Ahead
    OBVIOUS
  <2>1. CASE Loop
    <3>1. ~Sampling
      <4>1. pc' # pc
        BY <2>1 DEF Loop, Restart, NoRestart, ClearOverflow, StopWhenFull, BeginFrame, SkipFrame,
                    Frame, NoTouch, PressButton, OpenMenu, SelectDigitizer, SelectOther, EndFrame, At
      <4> QED
        BY <4>1 DEF Sampling, HandleSamplingForDigitizer
    <3> QED
      BY <2>1, <3>1, PassNearer DEF Helps
  <2>2. CASE Sampling
    <3>1. ~Loop
      <4>1. pc' = pc
        BY <2>2 DEF Sampling, HandleSamplingForDigitizer
      <4> QED
        BY <4>1 DEF Loop, Restart, NoRestart, ClearOverflow, StopWhenFull, BeginFrame, SkipFrame,
                    Frame, NoTouch, PressButton, OpenMenu, SelectDigitizer, SelectOther, EndFrame, At
    <3> QED
      BY <2>2, <3>1, SampleNearer DEF Helps, Sampling
  <2>3. ~ComeBack
    BY DEF ComeBack, At, Served
  <2>4. CASE Timer
    <3>1. /\ due' = TRUE
          /\ UNCHANGED <<pc, menu, allowTrigger, triggerType, digitize, bufferOverflow,
                         triggered, samplesAfterTrigger, countSinceLastSample>>
      BY <2>4 DEF Timer, flagVars, buttonVars, triggerVars, bufferVars
    <3>2. Ready' /\ Ahead' = Ahead
      BY <3>1 DEF Ready, Ahead, HeldBack, Continuous, Restarting, StepsToFrame, Missing
    <3>3. ~Loop
      BY <3>1 DEF Loop, Restart, NoRestart, ClearOverflow, StopWhenFull, BeginFrame, SkipFrame,
                  Frame, NoTouch, PressButton, OpenMenu, SelectDigitizer, SelectOther, EndFrame, At
    <3>4. ~Sampling
      BY <2>4 DEF Timer, bufferVars, Sampling, HandleSamplingForDigitizer
    <3> QED
      BY <3>2, <3>3, <3>4 DEF Helps
  <2> QED
    BY <2>1, <2>2, <2>3, <2>4 DEF Next
<1> QED
  BY <1>1, <1>2, CountsInvariant, PTL DEF Spec, ServedSteadily
=============================================================================
