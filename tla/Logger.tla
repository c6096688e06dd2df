------------------------------- MODULE Logger -------------------------------
(***************************************************************************)
(* The data logger, src/src/Logger.cpp: a ring in external memory which    *)
(* the sampling interrupt writes, and the view of it, which the interrupt  *)
(* refreshes as well: points of samplesPrViewPoint samples each, back from *)
(* scrollAddress.  The loop's knob zooms or scrolls; its changes are read  *)
(* and written back around interrupts.                                     *)
(*                                                                         *)
(* A sample is its number, 0 where nothing was recorded yet; a point is    *)
(* the sequence of its samples (in the code their mean), empty where the   *)
(* code has no timestamp.  scrollAddress is an uint32_t that counts below  *)
(* zero like an int, as which it is compared: here it is an integer.       *)
(***************************************************************************)
EXTENDS Integers, Sequences

CONSTANTS
  MaxSize,      \* maxSize: samples in the memory
  Window,       \* nrOfWindowSamples: points in the view
  Turns,        \* what a rotation changes
  MaxSamples,   \* bound: samples recorded
  MaxRotary     \* bound: the zoom, and how far the knob scrolls

ASSUME LoggerAssumption ==
  /\ MaxSize \in Nat \ {0} /\ Window \in Nat \ {0}
  /\ Turns \subseteq Int /\ MaxSamples \in Nat /\ MaxRotary \in Nat \ {0}

Addresses == 0 .. MaxSize - 1
Outside   == -1     \* what is read where no sample is stored
NoTurn    == <<>>

VARIABLES
  memory,   \* the samples
  logger,   \* members of LoggerClass
  knob,     \* its statics: rotary, scrollRotary, encButtonScroll
  turn,     \* a rotation in progress: the value read before it is written back
  view      \* viewBuffer, and history: how it was made

vars == <<memory, logger, knob, turn, view>>

Init ==
  /\ memory = [a \in Addresses |-> 0]
  /\ logger = [address |-> 0, full |-> FALSE, samples |-> 0, total |-> 0,
               scroll |-> 0, auto |-> TRUE, perPoint |-> 1, oldRot |-> 0]
  /\ knob = [rotary |-> 1, scrollRotary |-> 0, scrolls |-> TRUE]
  /\ turn = NoTurn
  /\ view = [points |-> [i \in 1 .. Window |-> <<>>], perPoint |-> 1, total |-> 0,
             lag |-> 0, scroll |-> 0, full |-> FALSE, inSync |-> TRUE]

-----------------------------------------------------------------------------
(* The interrupt. *)

(* empty is never reset, so the address is advanced once, after the write. *)
Slot(l) == IF l.address >= MaxSize THEN 0 ELSE l.address

(* Mutant of Recorded: the samples are counted on when the memory is full. *)
CountsOn(l) ==
  [l EXCEPT !.total = @ + 1, !.full = @ \/ l.address >= MaxSize, !.address = Slot(l) + 1,
            !.samples = @ + 1]

Recorded(l) ==
  LET full == l.full \/ l.address >= MaxSize
  IN  [l EXCEPT !.total = @ + 1, !.full = full, !.address = Slot(l) + 1,
                !.samples = IF full THEN @ ELSE @ + 1]

(* Mutant of Previous: the ring is taken to be one longer than it is. *)
WrapsToSize(l, a) ==
  IF a # 0 THEN a - 1 ELSE IF l.full THEN MaxSize ELSE 0

Previous(l, a) ==
  IF a # 0 THEN a - 1 ELSE IF l.full THEN MaxSize - 1 ELSE 0

(* getLastSamples: Back(l)[j] is where the j-th sample is read; from a     *)
(* point that meets the begin of the recording on, the rest of the view is *)
(* empty.                                                                  *)
Back(l) ==
  LET back[j \in 0 .. Window * l.perPoint] ==
        IF j = 0 THEN l.scroll ELSE Previous(l, back[j - 1])
  IN  back

Points(l, mem) ==
  LET back    == Back(l)
      Read(j) == IF back[j] \in Addresses THEN mem[back[j]] ELSE Outside
      Ends(j) == back[j - 1] = 0 /\ ~l.full
      Last(i) == i * l.perPoint
  IN  [i \in 1 .. Window |->
         IF \E j \in 1 .. Last(i) : Ends(j) THEN <<>>
         ELSE [s \in 1 .. l.perPoint |-> Read(Last(i - 1) + s)]]

(* How many samples are later than scrollAddress. *)
Lag(l) == IF l.scroll <= l.address THEN l.address - l.scroll ELSE l.address + MaxSize - l.scroll

ViewOf(l, mem, inSync) ==
  [points |-> Points(l, mem), perPoint |-> l.perPoint, total |-> l.total,
   lag |-> Lag(l), scroll |-> l.scroll, full |-> l.full, inSync |-> inSync]

(* Zooming: a new zoom is used from the next sample on. *)
ZoomTurned(l) == ~knob.scrolls /\ l.oldRot # knob.rotary
Zoomed(l) ==
  IF ZoomTurned(l) THEN [l EXCEPT !.scroll = l.address, !.oldRot = knob.rotary]
                   ELSE [l EXCEPT !.scroll = l.address, !.perPoint = knob.rotary]

(* Scrolling away from the latest sample, and on. *)
Moved(l) ==
  [l EXCEPT !.auto = FALSE, !.oldRot = knob.scrollRotary,
            !.scroll = IF l.auto THEN l.address - knob.scrollRotary
                                 ELSE @ - (knob.scrollRotary - l.oldRot)]
ScrollTurned(l) == knob.scrolls /\ l.oldRot # knob.scrollRotary
Follows(l)      == ScrollTurned(l) /\ l.address - Moved(l).scroll <= 0
Scrolled(l) ==
  CASE ~ScrollTurned(l) -> [l EXCEPT !.scroll = IF l.auto THEN l.address ELSE @]
    [] Follows(l)       -> [l EXCEPT !.auto = TRUE, !.scroll = l.address, !.oldRot = 0]
    [] OTHER            -> Moved(l)

(* Mutant of InSync: the view is refreshed at every sample. *)
Always(l) == l.total >= 0

InSync(l) == l.total % l.perPoint = 0

RegisterValue2 ==
  /\ logger.total < MaxSamples                            \* bound
  /\ LET recorded == Recorded(logger)
         shown    == IF knob.scrolls THEN Scrolled(recorded) ELSE Zoomed(recorded)
     IN  /\ memory' = [memory EXCEPT ![recorded.address - 1] = recorded.total]
         /\ logger' = shown
         /\ knob' = IF Follows(recorded) THEN [knob EXCEPT !.scrollRotary = 0] ELSE knob
         /\ view' = IF InSync(shown) \/ ZoomTurned(recorded)
                    THEN ViewOf(shown, memory', InSync(shown)) ELSE view
  /\ UNCHANGED turn

-----------------------------------------------------------------------------
(* The loop: knob and key of the logger. *)

Current == IF knob.scrolls THEN knob.scrollRotary ELSE knob.rotary

BeginTurn ==
  /\ turn = NoTurn
  /\ turn' = <<Current>>
  /\ UNCHANGED <<memory, logger, knob, view>>

EndTurn(change) ==
  /\ turn # NoTurn
  /\ turn[1] + change \in -MaxRotary .. MaxRotary               \* bound
  /\ knob' = IF knob.scrolls THEN [knob EXCEPT !.scrollRotary = turn[1] + change]
             ELSE [knob EXCEPT !.rotary = IF turn[1] + change < 1 THEN 1 ELSE turn[1] + change]
  /\ turn' = NoTurn
  /\ UNCHANGED <<memory, logger, view>>

RotarySwitch ==
  /\ turn = NoTurn
  /\ knob' = [knob EXCEPT !.scrolls = ~@]
  /\ UNCHANGED <<memory, logger, turn, view>>

Next ==
  \/ RegisterValue2
  \/ BeginTurn
  \/ \E change \in Turns : EndTurn(change)
  \/ RotarySwitch

Spec == Init /\ [][Next]_vars

-----------------------------------------------------------------------------
(* Samples are counted until the memory is full, and then are as many as   *)
(* it holds: the percentage shown does not exceed 100.                     *)
TypeOK ==
  /\ memory \in [Addresses -> Nat]
  /\ logger \in [address : 0 .. MaxSize, full : BOOLEAN, samples : 0 .. MaxSize, total : Nat,
                 scroll : Int, auto : BOOLEAN, perPoint : Nat \ {0}, oldRot : Int]
  /\ logger.samples = (IF logger.total < MaxSize THEN logger.total ELSE MaxSize)
  /\ knob \in [rotary : Nat \ {0}, scrollRotary : Int, scrolls : BOOLEAN]
  /\ turn \in { <<v>> : v \in -MaxRotary .. MaxRotary } \cup {NoTurn}

(* The points are the recording back from the place scrolled to, in steps  *)
(* of perPoint and without a gap, through the end of the ring and around;  *)
(* and nothing is shown of a time before it.  So it is for places the      *)
(* memory has, and if it holds the whole view back from there.             *)
Holds(v) == v.scroll >= 0 /\ (v.full => v.lag + Window * v.perPoint <= MaxSize)
Point(latest, n) == IF latest - n + 1 >= 1 THEN [s \in 1 .. n |-> latest - s + 1] ELSE <<>>
ViewIsHistory ==
  Holds(view) =>
    \A i \in 1 .. Window :
      view.points[i] = Point(view.total - view.lag - (i - 1) * view.perPoint, view.perPoint)

(* "Important the the update of view data is in sync with number of        *)
(* samples used. If not, the grah can look like it's shivering": while the *)
(* view follows with one zoom, a sample stays in the point it is in.       *)
Slides(v) == Holds(v) /\ v.lag = 0 /\ v.inSync
PointsStay ==
  [][Slides(view) /\ Slides(view') /\ view'.perPoint = view.perPoint =>
       \A i \in 1 .. Window :
         \/ view'.points[i] \in { view.points[j] : j \in 1 .. Window }
         \/ \A s \in DOMAIN view'.points[i] : view'.points[i][s] > view.total]_vars
=============================================================================
