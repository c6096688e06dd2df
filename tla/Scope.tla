-------------------------------- MODULE Scope --------------------------------
(***************************************************************************)
(* What an oscilloscope promises to whoever looks at its screen: a drawn   *)
(* picture is one window of consecutive samples around a trigger, it is    *)
(* replaced as a whole, and never while it is being drawn.                 *)
(*                                                                         *)
(* Samples are named by their sampling time, counted modulo Stamps.        *)
(***************************************************************************)
EXTENDS Integers

CONSTANTS
  Half,     \* samples before the trigger
  Stamps    \* distinct sampling times, more than a window is long

VARIABLES
  window,   \* the picture: a sampling time for every point
  drawing   \* is the picture being drawn?

Points == 0 .. 2 * Half - 1
Blank  == [x \in Points |-> -1]

(* The sampling time k samples before t. *)
Ago(t, k) == IF k <= t THEN t - k ELSE t - k + Stamps

(* Half samples before the trigger, the trigger in the middle, the rest    *)
(* after it up to the sample taken at time e.  The sample right after the  *)
(* trigger is not in the picture.                                          *)
WindowEnding(e) ==
  [x \in Points |-> Ago(e, IF x <= Half THEN 2 * Half - x ELSE 2 * Half - x - 1)]

Init == window = Blank /\ drawing = FALSE

Capture ==
  /\ ~drawing
  /\ \E e \in 0 .. Stamps - 1 : window' = WindowEnding(e)
  /\ UNCHANGED drawing

Draw ==
  /\ drawing' = ~drawing
  /\ UNCHANGED window

Next == Capture \/ Draw

Spec == Init /\ [][Next]_<<window, drawing>>
=============================================================================
