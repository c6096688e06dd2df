------------------------------ MODULE TrendLog ------------------------------
(***************************************************************************)
(* The log memory, src/src/RamClass.cpp, which the sampling interrupt      *)
(* writes once a second, and the loop's graph of it,                       *)
(* src/src/TrendGraph.cpp, which reads it from the latest entry backwards: *)
(* once to find the extremes, for the axis, and once to draw the line.     *)
(* (A third pass, for the times below the graph, reads as the second.)     *)
(* The interrupt may come whenever the display's SPI transaction is ended  *)
(* for a read.                                                             *)
(*                                                                         *)
(* An entry is the number it was recorded as, 0 where nothing was yet      *)
(* (in the code 99000, which is no measurement).                           *)
(***************************************************************************)
EXTENDS Integers, Sequences

CONSTANTS
  MaxLogAddress,   \* maxLogAddress: the last address of the ring
  Window,          \* how many entries are drawn (200)
  FrameWrites,     \* entries recorded while a frame is drawn, which takes less than seconds
  MaxWritten       \* bound: entries recorded

ASSUME RingAssumption ==
  /\ MaxLogAddress \in Nat /\ Window \in Nat \ {0} /\ FrameWrites \in Nat
  /\ MaxWritten \in Nat
  /\ Window + FrameWrites <= MaxLogAddress + 1

Addresses == 0 .. MaxLogAddress
None == -1

Axes == SUBSET Nat   \* the entries whose extremes the axis is fitted to

VARIABLES
  ram,       \* normalRamValue
  log,       \* currentLogAddress, full, and history: how many entries were recorded
  frame      \* the loop in TrendGraphClass::loop, and history: the log as it began, and its line

logVars == <<ram, log, frame>>

NoFrame == [pass |-> "none", at |-> "next", i |-> 0, adr |-> 0,
            axis |-> {}, line |-> <<>>, begun |-> 0, first |-> 0]

LogInit ==
  /\ ram = [a \in Addresses |-> 0]
  /\ log = [current |-> 0, full |-> FALSE, written |-> 0]
  /\ frame = NoFrame

-----------------------------------------------------------------------------
(* The interrupt, once a second. *)

LogData ==
  /\ log.written < MaxWritten                                     \* bound
  /\ frame.pass # "none" => log.written < frame.begun + FrameWrites
  /\ ram' = [ram EXCEPT ![log.current] = log.written + 1]
  /\ log' = [current |-> IF log.current + 1 > MaxLogAddress THEN 0 ELSE log.current + 1,
             full    |-> log.full \/ log.current + 1 > MaxLogAddress,
             written |-> log.written + 1]
  /\ UNCHANGED frame

-----------------------------------------------------------------------------
(* The loop. *)

(* Mutant of NextAdr: it wraps to one address before the last.             *)
WrapsShort(adr) ==
  IF adr - 1 >= 0 THEN adr - 1 ELSE IF log.full THEN MaxLogAddress - 1 ELSE None

NextAdr(adr) ==
  IF adr - 1 >= 0 THEN adr - 1 ELSE IF log.full THEN MaxLogAddress ELSE None

BeginFrame ==
  /\ frame.pass = "none"
  /\ frame' = [NoFrame EXCEPT !.pass = "axis", !.at = "read", !.adr = log.current,
                              !.begun = log.written]
  /\ UNCHANGED <<ram, log>>

(* What was never written counts neither as an extreme nor in the line. *)
ReadAxis ==
  /\ frame.pass = "axis" /\ frame.at = "read"
  /\ frame' = [frame EXCEPT !.at = "next", !.i = @ + 1, !.axis = @ \cup ({ram[frame.adr]} \ {0})]
  /\ UNCHANGED <<ram, log>>

BeginLine == [frame EXCEPT !.pass = "line", !.i = 0, !.adr = log.current, !.first = log.written]

(* Mutant of AdvanceAxis: the axis is fitted up to the first address only. *)
FitsUpToWrap ==
  /\ frame.pass = "axis" /\ frame.at = "next"
  /\ frame' = IF frame.adr = 0 \/ frame.i = Window THEN BeginLine
              ELSE [frame EXCEPT !.at = "read", !.adr = @ - 1]
  /\ UNCHANGED <<ram, log>>

AdvanceAxis ==
  /\ frame.pass = "axis" /\ frame.at = "next"
  /\ LET adr == NextAdr(frame.adr)
     IN  frame' = IF adr = None \/ frame.i = Window THEN BeginLine
                  ELSE [frame EXCEPT !.at = "read", !.adr = adr]
  /\ UNCHANGED <<ram, log>>

(* At address None the loop only counts on: the transaction is not ended   *)
(* any more, so nothing can fill the ring meanwhile.                       *)
AdvanceLine ==
  /\ frame.pass = "line" /\ frame.at = "next"
  /\ LET adr == NextAdr(frame.adr)
     IN  frame' = IF frame.i = Window \/ adr = None THEN [frame EXCEPT !.pass = "none"]
                  ELSE [frame EXCEPT !.at = "read", !.adr = adr]
  /\ UNCHANGED <<ram, log>>

ReadLine ==
  /\ frame.pass = "line" /\ frame.at = "read"
  /\ frame' = [frame EXCEPT !.at = "next", !.i = @ + 1, !.line = Append(@, ram[frame.adr])]
  /\ UNCHANGED <<ram, log>>

Draw == BeginFrame \/ ReadAxis \/ AdvanceAxis \/ AdvanceLine \/ ReadLine

-----------------------------------------------------------------------------
LogTypeOK ==
  /\ ram \in [Addresses -> Nat]
  /\ log \in [current : Addresses, full : BOOLEAN, written : Nat]
  /\ frame \in [pass : {"none", "axis", "line"}, at : {"read", "next"}, i : Nat, adr : Addresses,
                axis : Axes, line : Seq(Nat), begun : Nat, first : Nat]
  /\ frame.i <= Window

(* The line goes from the latest entry, when it was begun, back in time    *)
(* without a gap or a repetition, to the first entry of all or to the end  *)
(* of the window; although entries are recorded meanwhile, the ring wraps  *)
(* and what is oldest is overwritten.                                      *)
LineIsHistory ==
  /\ \A k \in DOMAIN frame.line : frame.line[k] = frame.first - k + 1
  /\ frame.pass = "none" /\ frame.begun > 0 =>
       Len(frame.line) = IF frame.first < Window THEN frame.first ELSE Window

(* The axis is made for what is drawn, but for the last entry of a full    *)
(* window and for those recorded after the frame was begun.                *)
AxisFitsLine ==
  \A k \in DOMAIN frame.line :
    \/ frame.line[k] \in frame.axis
    \/ frame.line[k] > frame.begun
    \/ frame.line[k] = frame.begun - Window + 1
=============================================================================
