------------------------------- MODULE Stats --------------------------------
(***************************************************************************)
(* The short trend on the panel, src/src/Stats.cpp: samples are gathered   *)
(* in prelimBuffer until there are maxSamplesBeforeStore, then a point of  *)
(* the graph is made of them; minimum and maximum bound the graph.         *)
(*                                                                         *)
(* A sample carries, for the properties, whether it was taken before the   *)
(* last press of CLEAR.  A point is the set of its samples, in the code    *)
(* their mean, minimum and maximum; it is empty where the code has         *)
(* undefinedValue.                                                         *)
(***************************************************************************)
EXTENDS Integers, Sequences, FiniteSets

CONSTANTS
  Values,       \* what can be measured
  FullScale,    \* how far from 0 it may be (within undefinedValue)
  FirstLimit,   \* maxSamplesBeforeStore at first (5)
  MaxPrelim,    \* MAX_PRELIMBUFFER_SIZE
  TrendPoints   \* MAX_FULL_SAMPLES

ASSUME ValuesAssumption ==
  FullScale \in Nat /\ Values \subseteq -FullScale .. FullScale /\ Values # {}
ASSUME SizesAssumption  ==
  MaxPrelim \in Nat \ {0} /\ FirstLimit \in 1 .. MaxPrelim /\ TrendPoints \in Nat \ {0}

Samples == [v : Values, old : BOOLEAN]

VARIABLES
  prelim,   \* prelimBuffer, up to prelimSamplesCounter
  limit,    \* maxSamplesBeforeStore
  trend,    \* valueExt
  endPtr,   \* the next point to be replaced
  extent    \* minimum and maximum

statsVars == <<prelim, limit, trend, endPtr, extent>>

StatsInit ==
  /\ prelim = <<>>
  /\ limit = FirstLimit
  /\ trend = [p \in 0 .. TrendPoints - 1 |-> {}]
  /\ endPtr = 0
  /\ extent = [minimum |-> 0, maximum |-> 0]

Least(S)    == CHOOSE v \in S : \A w \in S : v <= w
Greatest(S) == CHOOSE v \in S : \A w \in S : v >= w

ValuesIn(points) == { s.v : s \in UNION { points[p] : p \in DOMAIN points } }
Extent(points)   == [minimum |-> Least(ValuesIn(points)), maximum |-> Greatest(ValuesIn(points))]

AfterEnd == IF endPtr + 1 > TrendPoints - 1 THEN 0 ELSE endPtr + 1

(* Mutants of StoreOf: the extremes are those of the new point; what the   *)
(* point has no room for is kept for the next one.                         *)
ExtentOfPoint(samples) ==
  LET point == { samples[i] : i \in 1 .. limit }
  IN  /\ prelim' = <<>>
      /\ trend' = [trend EXCEPT ![endPtr] = point]
      /\ extent' = Extent(<<point>>)
      /\ endPtr' = AfterEnd
KeepsRest(samples) ==
  LET point == { samples[i] : i \in 1 .. limit }
  IN  /\ prelim' = SubSeq(samples, limit + 1, Len(samples))
      /\ trend' = [trend EXCEPT ![endPtr] = point]
      /\ extent' = Extent(trend')
      /\ endPtr' = AfterEnd

(* Only the first of the samples gathered make up the point, if the limit  *)
(* was lowered meanwhile.                                                  *)
StoreOf(samples) ==
  LET point == { samples[i] : i \in 1 .. limit }
  IN  /\ prelim' = <<>>
      /\ trend' = [trend EXCEPT ![endPtr] = point]
      /\ extent' = Extent(trend')
      /\ endPtr' = AfterEnd

AddSample(v) ==
  LET samples == Append(prelim, [v |-> v, old |-> FALSE])
  IN  /\ IF Len(samples) < limit
         THEN prelim' = samples /\ UNCHANGED <<trend, endPtr, extent>>
         ELSE StoreOf(samples)
      /\ UNCHANGED limit

(* Mutant of SetNrOfSamplesBeforeStore: the size of the buffer is ignored. *)
LimitsToAny(s) ==
  /\ limit' = IF s < 1 THEN 1 ELSE s
  /\ UNCHANGED <<prelim, trend, endPtr, extent>>

(* The slider under the graph. *)
SetNrOfSamplesBeforeStore(s) ==
  /\ limit' = IF s < 1 THEN 1 ELSE IF s > MaxPrelim THEN MaxPrelim ELSE s
  /\ UNCHANGED <<prelim, trend, endPtr, extent>>

(* CLEAR empties the graph; what was gathered and the extremes stay. *)
ClearBuffer ==
  /\ trend' = [p \in DOMAIN trend |-> {}]
  /\ prelim' = [i \in DOMAIN prelim |-> [prelim[i] EXCEPT !.old = TRUE]]
  /\ UNCHANGED <<limit, endPtr, extent>>

-----------------------------------------------------------------------------
(* The buffer of gathered samples is never full when the next one comes,   *)
(* wherever the slider is moved meanwhile.                                 *)
StatsTypeOK ==
  /\ prelim \in Seq(Samples) /\ Len(prelim) < MaxPrelim
  /\ limit \in 1 .. MaxPrelim
  /\ trend \in [0 .. TrendPoints - 1 -> SUBSET Samples]
  /\ endPtr \in 0 .. TrendPoints - 1
  /\ extent \in [minimum : Int, maximum : Int]

(* Extremes below or above the graph would put points outside of it.       *)
ExtentCoversGraph ==
  \A v \in ValuesIn(trend) : extent.minimum <= v /\ v <= extent.maximum

(* After CLEAR no more than the first point is of samples from before it,  *)
(* whatever was gathered by then.                                          *)
ClearForgets ==
  \A p, q \in DOMAIN trend :
    p # q => ~ /\ \E s \in trend[p] : s.old
               /\ \E s \in trend[q] : s.old
=============================================================================
