------------------------- MODULE ScraperProcessProofs -------------------------
(***************************************************************************)
(* Proofs about the process, for any regions and any number of attempts,   *)
(* signals and failures.                                                   *)
(***************************************************************************)
EXTENDS ScraperProcess, TLAPS

\* The types of the process's state.
TypeOK ==
  /\ bounded \in BOOLEAN
  /\ phase \in {"connect", "migrate", "seed", "ping", "run", "exited"}
  /\ attempt \in 1..Attempts
  /\ ctx \in BOOLEAN
  /\ groupCtx \in BOOLEAN
  /\ loop \in [Loop -> {"off", "waiting", "loading", "polling", "sleeping", "returned", "failed"}]
  /\ pinged \subseteq Region
  /\ status \in {"running", "ok", "error"}
  /\ failed \in BOOLEAN
  /\ late \in [Loop -> 0..2]
  /\ signals \in 0..MaxSignals
  /\ faults \in 0..MaxFaults

\* Loops move only while run waits for the group, and before it starts them
\* nothing has cancelled it.
LoopsKnown ==
  /\ phase = "exited" => \A l \in Loop : loop[l] \in {"off", "returned", "failed"}
  /\ phase \notin {"run", "exited"} => ~groupCtx /\ \A l \in Loop : loop[l] = "off"

\* While run waits, what has failed is the Blizzard loop, which shows it.
FailureKnown ==
  /\ phase \notin {"run", "exited"} => ~failed
  /\ phase = "run" => (failed <=> loop[Blizzard] = "failed")
  /\ phase # "exited" => status = "running"
  /\ status = "ok" => ~failed

\* After a late poll a loop does nothing but return.
LatePollEnds ==
  \A l \in Loop :
    \/ late[l] = 0
    \/ late[l] = 1 /\ groupCtx /\ loop[l] \in {"polling", "returned", "failed", "off"}

IInv == TypeOK /\ LoopsKnown /\ FailureKnown /\ LatePollEnds

\* The Blizzard loop is one of the loops, and no region is.
LEMMA LoopNames == Blizzard \in Loop /\ \A r \in Region : r \in Loop /\ r # Blizzard
  BY ProcessAssumption DEF Loop

\* A process begins with nothing running and nothing failed.
LEMMA InitInv == Init => IInv
<1> SUFFICES ASSUME Init PROVE IInv
  OBVIOUS
<1>1. TypeOK
  <2>1. late \in [Loop -> 0..2] /\ attempt \in 1..Attempts
    BY ProcessAssumption DEF Init
  <2>2. signals \in 0..MaxSignals /\ faults \in 0..MaxFaults
    BY ProcessAssumption DEF Init
  <2> QED
    BY <2>1, <2>2 DEF Init, TypeOK
<1>2. LoopsKnown /\ FailureKnown /\ LatePollEnds
  BY DEF Init, LoopsKnown, FailureKnown, LatePollEnds
<1> QED
  BY <1>1, <1>2 DEF IInv

\* Start-up.
LEMMA StartUpStep == IInv /\ StartUp => IInv'
<1> SUFFICES ASSUME IInv, StartUp PROVE IInv'
  OBVIOUS
<1> USE DEF quiet, IInv
<1>0. faults \in Nat /\ attempt \in Nat /\ MaxFaults \in Nat /\ Attempts \in Nat
  BY ProcessAssumption DEF TypeOK
<1>1. CASE Connect \/ Migrate \/ Seed
  BY <1>1 DEF TypeOK, LoopsKnown, FailureKnown, LatePollEnds, Connect, Migrate, Seed
<1>2. CASE ConnectRetried
  <2>1. attempt' \in 1..Attempts /\ faults' \in 0..MaxFaults
    BY <1>0, <1>2 DEF ConnectRetried, LastAttempt, TypeOK
  <2> QED
    BY <1>2, <2>1 DEF TypeOK, LoopsKnown, FailureKnown, LatePollEnds, ConnectRetried
<1>3. CASE ConnectFails \/ StartUpFails
  <2>1. faults' \in 0..MaxFaults
    BY <1>0, <1>3 DEF ConnectFails, StartUpFails, Fails, TypeOK
  <2> QED
    BY <1>3, <2>1
    DEF TypeOK, LoopsKnown, FailureKnown, LatePollEnds, ConnectFails, StartUpFails, Fails, ExitWithError
<1>4. ASSUME NEW r \in Region, Ping(r) PROVE IInv'
  BY <1>4 DEF TypeOK, LoopsKnown, FailureKnown, LatePollEnds, Ping
<1>5. CASE StartLoops
  <2>1. \A l \in Loop : late[l] = 0
    BY <1>5 DEF StartLoops, LatePollEnds, LoopsKnown
  <2>2. TypeOK'
    BY <1>5 DEF StartLoops, TypeOK
  <2>3. LoopsKnown' /\ LatePollEnds'
    BY <1>5, <2>1 DEF StartLoops, LoopsKnown, LatePollEnds
  <2>4. FailureKnown'
    BY <1>5, LoopNames DEF StartLoops, FailureKnown
  <2> QED
    BY <2>2, <2>3, <2>4
<1> QED
  BY <1>1, <1>2, <1>3, <1>4, <1>5, Zenon DEF StartUp

\* A loop's step, whatever it does to the group: it happens while run waits.
LEMMA LoopMoves ==
  ASSUME IInv, NEW l \in Loop, NEW place \in {"waiting", "loading", "polling", "sleeping", "returned", "failed"},
         loop[l] \in {"waiting", "loading", "polling", "sleeping"}, LoopGoesTo(l, place)
  PROVE  /\ phase = "run" /\ status = "running"
         /\ loop' \in [Loop -> {"off", "waiting", "loading", "polling", "sleeping", "returned", "failed"}]
         /\ loop'[l] = place
         /\ \A m \in Loop \ {l} : loop'[m] = loop[m]
         /\ UNCHANGED <<phase, attempt, ctx, pinged, status, bounded, signals>>
<1>1. phase = "run"
  BY DEF IInv, TypeOK, LoopsKnown
<1>2. status = "running"
  BY <1>1 DEF IInv, FailureKnown
<1> QED
  BY <1>1, <1>2 DEF LoopGoesTo, IInv, TypeOK, quiet

\* A poll begun late is the first one, and it is the loop's last.
LEMMA PollsStep ==
  ASSUME IInv, NEW l \in Loop, loop[l] \in {"loading", "sleeping"}, Polls(l)
  PROVE  IInv'
<1>1. /\ phase = "run" /\ status = "running"
      /\ loop' \in [Loop -> {"off", "waiting", "loading", "polling", "sleeping", "returned", "failed"}]
      /\ loop'[l] = "polling"
      /\ \A m \in Loop \ {l} : loop'[m] = loop[m]
      /\ UNCHANGED <<phase, attempt, ctx, pinged, status, bounded, signals, groupCtx, failed, faults>>
  BY LoopMoves DEF Polls
<1>2. late[l] = 0
  BY DEF IInv, LatePollEnds
<1>3. /\ late' \in [Loop -> 0..2] /\ late'[l] = (IF groupCtx THEN 1 ELSE 0)
      /\ \A m \in Loop \ {l} : late'[m] = late[m]
  <2>1. late' = [late EXCEPT ![l] = IF groupCtx /\ late[l] < 2 THEN late[l] + 1 ELSE late[l]]
    BY DEF Polls
  <2> QED
    BY <1>2, <2>1 DEF IInv, TypeOK
<1>4. TypeOK'
  BY <1>1, <1>3 DEF IInv, TypeOK
<1>5. LoopsKnown'
  BY <1>1 DEF IInv, LoopsKnown
<1>6. FailureKnown'
  BY <1>1, LoopNames DEF IInv, FailureKnown
<1>7. LatePollEnds'
  BY <1>1, <1>3 DEF IInv, LatePollEnds
<1> QED
  BY <1>4, <1>5, <1>6, <1>7 DEF IInv

\* What every other step of a loop does: it goes elsewhere and polls no more
\* than it has; only the failure of the Blizzard loop is a failure.
LEMMA PlainStep ==
  ASSUME IInv, NEW l \in Loop, loop[l] \in {"waiting", "loading", "polling", "sleeping"},
         NEW place \in {"loading", "sleeping", "returned", "failed"}, LoopGoesTo(l, place),
         late' = late, faults' \in 0..MaxFaults, groupCtx' \in BOOLEAN, groupCtx => groupCtx',
         \/ place # "failed" /\ failed' = failed
         \/ place = "failed" /\ l = Blizzard /\ failed' = TRUE,
         late[l] = 0 \/ place \in {"returned", "failed"}
  PROVE  IInv'
<1>1. /\ phase = "run" /\ status = "running"
      /\ loop' \in [Loop -> {"off", "waiting", "loading", "polling", "sleeping", "returned", "failed"}]
      /\ loop'[l] = place
      /\ \A m \in Loop \ {l} : loop'[m] = loop[m]
      /\ UNCHANGED <<phase, attempt, ctx, pinged, status, bounded, signals>>
  BY LoopMoves
<1>2. failed' \in BOOLEAN
  BY DEF IInv, TypeOK
<1>3. TypeOK'
  BY <1>1, <1>2 DEF IInv, TypeOK
<1>4. LoopsKnown'
  BY <1>1 DEF IInv, LoopsKnown
<1>5. FailureKnown'
  BY <1>1, LoopNames DEF IInv, FailureKnown
<1>6. LatePollEnds'
  BY <1>1 DEF IInv, LatePollEnds
<1> QED
  BY <1>3, <1>4, <1>5, <1>6 DEF IInv

\* The loops.
LEMMA LoopInv == ASSUME IInv, NEW l \in Loop, LoopStep(l) PROVE IInv'
<1>0. /\ faults \in 0..MaxFaults /\ groupCtx \in BOOLEAN /\ MaxFaults \in Nat
      /\ loop[l] \in {"waiting", "loading", "sleeping"} => late[l] = 0
      /\ late[l] = 0 \/ groupCtx
  BY ProcessAssumption DEF IInv, TypeOK, LatePollEnds
<1>1. CASE Open(l)
  <2>1. PICK place \in {"loading", "returned"} : LoopGoesTo(l, place)
    BY <1>1 DEF Open
  <2> QED
    BY <1>0, <1>1, <2>1, PlainStep DEF Open
<1>2. CASE Load(l) \/ Wake(l)
  BY <1>2, PollsStep DEF Load, Wake
<1>3. CASE LoadFails(l)
  <2>1. /\ loop[l] = "loading" /\ FailureOf(l) /\ faults' \in 0..MaxFaults /\ late' = late
    BY <1>0, <1>3 DEF LoadFails
  <2>2. CASE l = Blizzard
    <3>1. LoopGoesTo(l, "failed") /\ groupCtx' = TRUE /\ failed' = TRUE
      BY <2>1, <2>2 DEF FailureOf
    <3> QED
      BY <1>0, <2>1, <2>2, <3>1, PlainStep
  <2>3. CASE l # Blizzard
    <3>1. LoopGoesTo(l, "returned") /\ UNCHANGED <<groupCtx, failed>>
      BY <2>1, <2>3 DEF FailureOf
    <3> QED
      BY <1>0, <2>1, <3>1, PlainStep
  <2> QED
    BY <2>2, <2>3
<1>4. CASE EndPoll(l)
  <2>1. PICK place \in AfterPoll(l) : LoopGoesTo(l, place)
    BY <1>4 DEF EndPoll
  <2>2. place \in {"sleeping", "returned"} /\ (groupCtx => place = "returned")
    BY <2>1 DEF AfterPoll
  <2>3. late[l] = 0 \/ place = "returned"
    BY <1>0, <2>2
  <2> QED
    BY <1>0, <1>4, <2>1, <2>2, <2>3, PlainStep DEF EndPoll
<1>5. CASE WakeCancelled(l)
  BY <1>0, <1>5, PlainStep DEF WakeCancelled
<1> QED
  BY <1>1, <1>2, <1>3, <1>4, <1>5 DEF LoopStep

\* Every step keeps the invariant.
LEMMA NextInv == IInv /\ [Next]_vars => IInv'
<1> SUFFICES ASSUME IInv, [Next]_vars PROVE IInv'
  OBVIOUS
<1> USE DEF quiet, IInv
<1>0. faults \in Nat /\ signals \in Nat /\ MaxFaults \in Nat /\ MaxSignals \in Nat /\ 1 \in 1..Attempts
  BY ProcessAssumption DEF TypeOK
<1>1. CASE Wait
  <2>1. LoopsKnown' /\ LatePollEnds' /\ TypeOK'
    BY <1>1 DEF TypeOK, LoopsKnown, LatePollEnds, Wait
  <2>2. FailureKnown'
    BY <1>1 DEF FailureKnown, Wait
  <2> QED
    BY <2>1, <2>2
<1>2. CASE Signal
  <2>1. /\ phase # "exited" /\ signals' = signals + 1 /\ signals < MaxSignals
        /\ ctx' = TRUE /\ groupCtx' = (phase = "run" \/ groupCtx)
        /\ UNCHANGED <<bounded, phase, attempt, loop, pinged, status, failed, late, faults>>
    BY <1>2 DEF Signal
  <2>2. signals' \in 0..MaxSignals
    BY <1>0, <2>1
  <2>3. groupCtx' \in BOOLEAN
    <3>1. (phase = "run" \/ groupCtx) \in BOOLEAN
      OBVIOUS
    <3> QED
      BY <2>1, <3>1
  <2>4. ctx' \in BOOLEAN
    BY <2>1
  <2>5. bounded' = bounded /\ phase' = phase /\ attempt' = attempt /\ loop' = loop
        /\ pinged' = pinged /\ status' = status /\ failed' = failed /\ late' = late
        /\ faults' = faults
    BY <2>1
  <2>6. TypeOK'
    BY <2>2, <2>3, <2>4, <2>5, Zenon DEF TypeOK
  <2>7. LoopsKnown' /\ FailureKnown' /\ LatePollEnds'
    BY <2>1 DEF TypeOK, LoopsKnown, FailureKnown, LatePollEnds
  <2> QED
    BY <2>6, <2>7
<1>3. CASE Crash
  <2>1. faults' \in 0..MaxFaults
    BY <1>0, <1>3 DEF Crash
  <2>2. TypeOK'
    BY <1>3, <2>1 DEF TypeOK, Crash
  <2>3. LoopsKnown' /\ FailureKnown' /\ LatePollEnds'
    BY <1>3 DEF LoopsKnown, FailureKnown, LatePollEnds, Crash
  <2> QED
    BY <2>2, <2>3
<1>4. CASE Restart
  <2>0. /\ loop' \in [Loop -> {"off"}] /\ late' \in [Loop -> {0}]
        /\ attempt' \in 1..Attempts /\ {0} \subseteq 0..2
    BY <1>0, <1>4 DEF Restart
  <2>1. TypeOK'
    BY <1>4, <2>0 DEF TypeOK, Restart
  <2>2. LoopsKnown' /\ FailureKnown' /\ LatePollEnds'
    BY <1>4 DEF LoopsKnown, FailureKnown, LatePollEnds, Restart
  <2> QED
    BY <2>1, <2>2
<1>5. CASE UNCHANGED vars
  BY <1>5 DEF TypeOK, LoopsKnown, FailureKnown, LatePollEnds, vars
<1> QED
  BY <1>1, <1>2, <1>3, <1>4, <1>5, StartUpStep, LoopInv, Zenon DEF Next

\* The inductive invariant of the process.
LEMMA Invariance == Spec => []IInv
  BY InitInv, NextInv, PTL DEF Spec

\* The process's state keeps its types, for any regions, attempts and bounds.
THEOREM TypeCorrect == Spec => []TypeOK
<1>1. IInv => TypeOK
  BY DEF IInv
<1> QED
  BY <1>1, Invariance, PTL

\* Exit status 0 means that nothing the process depends on has failed
\* (SuccessIsHonest of ScraperProcess).
THEOREM HonestSuccess == Spec => []SuccessIsHonest
<1>1. IInv => SuccessIsHonest
  BY DEF IInv, FailureKnown, SuccessIsHonest
<1> QED
  BY <1>1, Invariance, PTL

\* Once the group's context is done, a loop begins at most one more poll
\* (AtMostOneLatePoll of ScraperProcess).
THEOREM OneLatePoll == Spec => []AtMostOneLatePoll
<1>1. IInv => AtMostOneLatePoll
  BY DEF IInv, LatePollEnds, AtMostOneLatePoll
<1> QED
  BY <1>1, Invariance, PTL

=============================================================================
