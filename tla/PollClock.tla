------------------------------ MODULE PollClock -------------------------------
(***************************************************************************)
(* The clock that PollSchedule and Staleness read.  It is coarse: a timer  *)
(* that is due fires within the same tick.                                 *)
(***************************************************************************)
EXTENDS Integers

CONSTANTS
  MaxPoll,  \* the longest poll
  MaxTime   \* bound of the clock

ASSUME ClockAssumption == {MaxPoll, MaxTime} \subseteq Nat

VARIABLE now  \* the clock; it starts at 1, for 0 is the zero time

Zero == 0

=============================================================================
