----------------------------- MODULE RateLimiter -----------------------------
(***************************************************************************)
(* APIRateLimiter of internal/scraper/blizzard_api_client.go: the one      *)
(* limiter that main.go gives to the clients of all regions.  A caller of  *)
(* Wait reserves a slot under the lock and sleeps outside it; its context  *)
(* may be done while it sleeps.                                            *)
(*                                                                         *)
(* Abstractions.  Time is a whole number of units since the limiter was    *)
(* built, and the zero time is 0.  The critical section is one step.  A    *)
(* timer fires at its instant or any time later, as the scheduler likes.   *)
(***************************************************************************)
EXTENDS Integers, Sequences, FiniteSets

CONSTANTS
  Caller,    \* goroutines that share the limiter
  Interval,  \* time between two slots
  MaxTime,   \* bound: the clock stops here
  MaxSlots   \* bound: calls of Wait

ASSUME LimiterAssumption ==
  /\ IsFiniteSet(Caller)
  /\ Interval \in Nat \ {0}
  /\ MaxTime \in Nat /\ MaxSlots \in Nat

VARIABLES
  now,      \* the clock
  next,     \* earliest slot not yet handed out
  caller,   \* caller[c]: where c is in Wait, and the number of its slot
  done,     \* callers whose context is done
  handed,   \* the instant of every slot handed out, in order
  released  \* numbers of the slots whose Wait returned nil

vars == <<now, next, caller, done, handed, released>>

Outside == [at |-> "outside", slot |-> 0]

Become(c, at, slot) == caller' = [caller EXCEPT ![c] = [at |-> at, slot |-> slot]]

-----------------------------------------------------------------------------

\* Mutant: a limiter that waits first, like a ticker.
ReadyAt_AfterTick == IF next > now THEN next ELSE now + Interval

ReadyAt == IF next > now THEN next ELSE now

\* Mutant: the next slot counted from the last one, even after a pause.
FollowingSlot_Catches == next + Interval

FollowingSlot == ReadyAt + Interval

Ticket == Len(handed) + 1

\* The critical section of Wait.
Reserve(c) ==
  /\ caller[c].at = "outside"
  /\ Len(handed) < MaxSlots /\ ReadyAt <= MaxTime
  /\ handed' = Append(handed, ReadyAt)
  /\ next' = FollowingSlot
  /\ Become(c, "reserved", Ticket)
  /\ UNCHANGED <<now, done, released>>

Sleep(c) ==
  /\ caller[c].at = "reserved" /\ now < handed[caller[c].slot]
  /\ Become(c, "asleep", caller[c].slot)
  /\ UNCHANGED <<now, next, done, handed, released>>

MayReturn(c) == now >= handed[caller[c].slot]

\* Wait returns nil: at once when the slot has come, or when the timer fires.
Return(c) ==
  /\ caller[c].at \in {"reserved", "asleep"} /\ MayReturn(c)
  /\ released' = released \cup {caller[c].slot}
  /\ caller' = [caller EXCEPT ![c] = Outside]
  /\ UNCHANGED <<now, next, done, handed>>

\* Mutant: a cancelled wait returns nil.
Abandon_Released(c) ==
  /\ caller[c].at = "asleep" /\ c \in done
  /\ released' = released \cup {caller[c].slot}
  /\ caller' = [caller EXCEPT ![c] = Outside]
  /\ UNCHANGED <<now, next, done, handed>>

\* Wait returns the context's error; the slot stays taken.
Abandon(c) ==
  /\ caller[c].at = "asleep" /\ c \in done
  /\ caller' = [caller EXCEPT ![c] = Outside]
  /\ UNCHANGED <<now, next, done, handed, released>>

Cancel(c) ==
  /\ c \notin done
  /\ done' = done \cup {c}
  /\ UNCHANGED <<now, next, caller, handed, released>>

Tick ==
  /\ now < MaxTime
  /\ now' = now + 1
  /\ UNCHANGED <<next, caller, done, handed, released>>

-----------------------------------------------------------------------------

Init ==
  /\ now \in 0..MaxTime
  /\ next = 0
  /\ caller = [c \in Caller |-> Outside]
  /\ done = {}
  /\ handed = <<>>
  /\ released = {}

Next ==
  \/ Tick
  \/ \E c \in Caller : Reserve(c) \/ Sleep(c) \/ Return(c) \/ Abandon(c) \/ Cancel(c)

Spec == Init /\ [][Next]_vars

-----------------------------------------------------------------------------
(* Properties *)

\* Type correctness.
TypeOK ==
  /\ now \in 0..MaxTime /\ next \in 0..(MaxTime + Interval)
  /\ handed \in Seq(0..MaxTime) /\ Len(handed) <= MaxSlots
  /\ done \subseteq Caller /\ released \subseteq 1..Len(handed)
  /\ caller \in [Caller -> [at : {"outside", "reserved", "asleep"}, slot : 0..Len(handed)]]
  /\ \A c \in Caller : caller[c].at # "outside" => caller[c].slot > 0

\* Slots handed out to any callers, in any order of calls and after any pause,
\* are an interval apart and in arrival order: k slots take k intervals.
SlotsPaced ==
  \A i, j \in DOMAIN handed :
    i < j => handed[j] - handed[i] >= (j - i) * Interval

\* A caller never waits longer than the slots before it last: a pause, or the
\* slot of a wait that was cancelled, costs its own interval and nothing more.
WaitBounded ==
  \A c \in Caller : caller[c].at # "outside" =>
    LET k == caller[c].slot
        Pending == {i \in 1..(k - 1) : handed[i] + Interval > now}
    IN handed[k] - now <= Cardinality(Pending) * Interval

\* The API never sees more than the budget, also when waits are cancelled and
\* goroutines wake late.
Budget == INSTANCE RequestBudget WITH sent <- Cardinality(released)
RequestsInBudget == Budget!Spec

=============================================================================
