---------------------------- MODULE RequestBudget ----------------------------
(***************************************************************************)
(* What the rate limiter promises, seen from the API: at any instant at    *)
(* most one request more than whole intervals have gone by was released    *)
(* since the limiter was built, however many clients share it and whenever *)
(* they call.                                                              *)
(***************************************************************************)
EXTENDS Integers

CONSTANT Interval

VARIABLES
  now,   \* time since the limiter was built
  sent   \* requests released

Init == now \in Nat /\ sent = 0

Tick == now' = now + 1 /\ UNCHANGED sent

Send ==
  /\ sent * Interval <= now
  /\ sent' = sent + 1
  /\ UNCHANGED now

Next == Tick \/ Send

Spec == Init /\ [][Next]_<<now, sent>>

=============================================================================
