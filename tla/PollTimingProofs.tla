--------------------------- MODULE PollTimingProofs ----------------------------
(***************************************************************************)
(* Proofs about what the loops do with the clock, for any environments,    *)
(* thresholds, backoffs, cadences, loops and bounds: first the polling     *)
(* window of PollSchedule, then the warnings of Staleness.                 *)
(***************************************************************************)
EXTENDS PollSchedule, Staleness, TLAPS

\* The types of the schedule's state.
TypeOK ==
  /\ now \in Nat \ {0}
  /\ env \in Envs
  /\ proc \in {"down", "starting", "up"}
  /\ loadedAt \in Nat
  /\ schedule \in [startAt : Nat, stopAt : Nat]
  /\ pc \in [Loop -> {"off", "waiting", "loading", "polling", "sleeping", "ended"}]
  /\ timer \in [Loop -> Nat]
  /\ readyAt \in Nat
  /\ polled \subseteq Loop
  /\ crashes \in Nat

\* A process follows the schedule that it made of the environment; its loops
\* run once start-up is over.
Resolved ==
  /\ proc # "down" => schedule = ResolveSchedule(loadedAt, env)
  /\ \A l \in Loop : pc[l] \in {"waiting", "loading", "polling", "sleeping"} => proc = "up"

\* Nobody waits for a start that has passed, except one that had passed
\* already when start-up was over.
WaitsInTime ==
  \A l \in Loop : pc[l] = "waiting" => now = readyAt \/ now <= schedule.startAt

\* Past the wait, the window has begun; what was checked against its end is
\* the time the loading began, or the time at which the sleep ends.
ChecksMade ==
  \A l \in Loop :
    /\ pc[l] \in {"loading", "polling", "sleeping"} => now >= schedule.startAt
    /\ pc[l] \in {"loading", "sleeping"} => ~Closed(timer[l])
    /\ pc[l] = "sleeping" => now <= timer[l]
    /\ pc[l] \in {"polling", "sleeping"} => l \in polled

IInv == TypeOK /\ Resolved /\ WaitsInTime /\ ChecksMade /\ WindowUsed

-----------------------------------------------------------------------------
(* Of the schedule *)

\* The later of two times.
LEMMA MaxOfTwo ==
  ASSUME NEW a \in Nat, NEW b \in Nat
  PROVE  Max({a, b}) \in {a, b} /\ Max({a, b}) >= a /\ Max({a, b}) >= b
<1>1. \E x \in {a, b} : \A y \in {a, b} : x >= y
  <2>1. CASE a >= b
    BY <2>1
  <2>2. CASE b >= a
    BY <2>2
  <2> QED
    BY <2>1, <2>2
<1> QED
  BY <1>1 DEF Max

\* The earlier of what there is of two times.
LEMMA MinOfUpToTwo ==
  ASSUME NEW a \in Nat, NEW b \in Nat, NEW S, S \subseteq {a, b}, S # {}
  PROVE  Min(S) \in S /\ \A y \in S : Min(S) <= y
<1>1. ASSUME NEW x \in S, \A y \in S : x <= y
      PROVE  Min(S) \in S /\ \A y \in S : Min(S) <= y
  BY <1>1 DEF Min
<1>2. PICK z \in S : TRUE
  OBVIOUS
<1>3. CASE a \in S /\ b \in S
  <2>1. CASE a <= b
    <3>1. \A y \in S : a <= y
      BY <2>1
    <3> QED
      BY <1>1, <1>3, <3>1
  <2>2. CASE b <= a
    <3>1. \A y \in S : b <= y
      BY <2>2
    <3> QED
      BY <1>1, <1>3, <3>1
  <2> QED
    BY <2>1, <2>2
<1>4. CASE ~(a \in S /\ b \in S)
  <2>1. \A y \in S : y = z /\ y \in Nat
    BY <1>2, <1>4
  <2>2. \A y \in S : z <= y
    BY <2>1
  <2> QED
    BY <1>1, <1>2, <2>2
<1> QED
  BY <1>3, <1>4

\* The times of an environment.
LEMMA EnvTimes ==
  ASSUME NEW e \in Envs
  PROVE  e.pollStart \in Nat /\ e.pollEnd \in Nat /\ e.scrapeFrom \in Nat /\ e.scrapeUntil \in Nat
  BY ScheduleAssumption, ClockAssumption

\* resolveSchedule: neither end lies beyond what is asked for, and there is an
\* end if one is.
LEMMA ScheduleMeaning ==
  ASSUME NEW at \in Nat, NEW e \in Envs
  PROVE  LET start == Max({at + e.pollStart, e.scrapeFrom})
             s == ResolveSchedule(at, e)
         IN  /\ start \in Nat
             /\ s \in [startAt : Nat, stopAt : Nat]
             /\ s.startAt = start
             /\ e.scrapeUntil # Zero => s.stopAt # Zero /\ s.stopAt <= e.scrapeUntil
             /\ e.pollEnd > 0 => s.stopAt # Zero /\ s.stopAt <= start + e.pollEnd
<1> DEFINE start == Max({at + e.pollStart, e.scrapeFrom})
           relative == {start + d : d \in {e.pollEnd} \ {0}}
           ends == relative \cup ({e.scrapeUntil} \ {Zero})
           stop == IF ends = {} THEN Zero ELSE Min(ends)
<1>1. /\ e.pollStart \in Nat /\ e.pollEnd \in Nat /\ e.scrapeFrom \in Nat /\ e.scrapeUntil \in Nat
      /\ at + e.pollStart \in Nat
  BY EnvTimes
<1>2. start \in Nat
  BY <1>1, MaxOfTwo
<1>3. ResolveSchedule(at, e) = Schedule(start, stop)
  BY DEF ResolveSchedule
<1>4. ends \subseteq {start + e.pollEnd, e.scrapeUntil} /\ 0 \notin ends
  <2>1. \A y \in relative : y = start + e.pollEnd /\ y # 0
    <3> HIDE DEF start
    <3> QED
      BY <1>1, <1>2
  <2> HIDE DEF start, relative
  <2> QED
    BY <2>1, <1>1, <1>2 DEF Zero
<1>5. /\ e.pollEnd > 0 => start + e.pollEnd \in ends
      /\ e.scrapeUntil # Zero => e.scrapeUntil \in ends
  BY <1>1
<1> HIDE DEF start, relative, ends
<1>6. ends # {} => Min(ends) \in ends /\ \A y \in ends : Min(ends) <= y
  <2>1. start + e.pollEnd \in Nat
    BY <1>1, <1>2
  <2> QED
    BY <1>1, <1>4, <2>1, MinOfUpToTwo
<1>7. /\ stop \in Nat
      /\ \A y \in ends : stop # Zero /\ stop <= y
  <2>1. CASE ends = {}
    BY <2>1 DEF Zero
  <2>2. CASE ends # {}
    <3>1. start + e.pollEnd \in Nat
      BY <1>1, <1>2
    <3>2. Min(ends) \in Nat /\ Min(ends) # 0
      BY <1>1, <1>4, <1>6, <2>2, <3>1
    <3> QED
      BY <1>6, <2>2, <3>2 DEF Zero
  <2> QED
    BY <2>1, <2>2
<1> HIDE DEF stop
<1>8. /\ ResolveSchedule(at, e) \in [startAt : Nat, stopAt : Nat]
      /\ ResolveSchedule(at, e).startAt = start
      /\ ResolveSchedule(at, e).stopAt = stop
  BY <1>2, <1>3, <1>7 DEF Schedule
<1>9. /\ start \in Nat
      /\ e.scrapeUntil # Zero => stop # Zero /\ stop <= e.scrapeUntil
      /\ e.pollEnd > 0 => stop # Zero /\ stop <= start + e.pollEnd
  BY <1>2, <1>5, <1>7
<1> QED
  BY <1>8, <1>9 DEF start

-----------------------------------------------------------------------------
(* The invariant *)

\* The cadences are natural numbers.
LEMMA Cadence ==
  ASSUME NEW l \in Loop, NEW delay \in PollWindow[l]..(PollWindow[l] + Jitter[l])
  PROVE  delay \in Nat
<1>1. PollWindow[l] \in Nat /\ Jitter[l] \in Nat
  BY ScheduleAssumption, ClockAssumption
<1> QED
  BY <1>1

\* A container begins with no process.
LEMMA InitInv == Init => IInv
<1> SUFFICES ASSUME Init PROVE IInv
  OBVIOUS
<1>1. schedule \in [startAt : Nat, stopAt : Nat]
  BY DEF Init, Schedule, Zero
<1>2. timer \in [Loop -> Nat] /\ loadedAt \in Nat /\ readyAt \in Nat
  BY DEF Init, Zero
<1>3. TypeOK
  BY <1>1, <1>2 DEF Init, TypeOK
<1>4. \A l \in Loop : pc[l] = "off"
  BY DEF Init
<1> QED
  BY <1>3, <1>4 DEF Init, IInv, Resolved, WaitsInTime, ChecksMade, WindowUsed

\* LoadConfig makes a schedule, and the loops are not started yet.
LEMMA LoadConfigInv == IInv /\ LoadConfig => IInv'
<1> SUFFICES ASSUME IInv, LoadConfig PROVE IInv'
  OBVIOUS
<1>1. /\ env' = env /\ env \in Envs /\ now' = now /\ now \in Nat
      /\ schedule' = ResolveSchedule(now, env) /\ loadedAt' = now
  BY DEF IInv, TypeOK, LoadConfig
<1>2. schedule' \in [startAt : Nat, stopAt : Nat]
  BY <1>1, ScheduleMeaning
<1>3. TypeOK'
  BY <1>1, <1>2 DEF IInv, TypeOK, LoadConfig
<1>4. \A l \in Loop : pc'[l] = "off"
  BY DEF LoadConfig
<1> QED
  BY <1>1, <1>3, <1>4 DEF IInv, Resolved, WaitsInTime, ChecksMade, WindowUsed

\* A step that leaves the schedule, the clock and the history alone, changes
\* one loop's place and timer, and keeps what that place promises.
LEMMA LoopInv ==
  ASSUME IInv, NEW l \in Loop, NEW place \in {"loading", "polling", "sleeping", "ended"},
         NEW t \in Nat, proc = "up",
         pc' = [pc EXCEPT ![l] = place], timer' = [timer EXCEPT ![l] = t],
         polled' \in {polled, polled \cup {l}},
         UNCHANGED <<now, env, proc, loadedAt, schedule, readyAt, crashes>>,
         place # "ended" => now >= schedule.startAt,
         place \in {"loading", "sleeping"} => ~Closed(t),
         place = "sleeping" => now <= t,
         place \in {"polling", "sleeping"} => l \in polled',
         place = "ended" => /\ schedule.stopAt # Zero
                            /\ l \in polled' \/ schedule.stopAt <= readyAt
                               \/ schedule.stopAt <= schedule.startAt
  PROVE  IInv'
<1>1. TypeOK'
  BY DEF IInv, TypeOK
<1>2. /\ pc'[l] = place /\ timer'[l] = t
      /\ \A k \in Loop \ {l} : pc'[k] = pc[k] /\ timer'[k] = timer[k]
      /\ \A k \in Loop : k \in polled => k \in polled'
  BY DEF IInv, TypeOK
<1>3. Resolved'
  BY <1>2 DEF IInv, Resolved
<1>4. WaitsInTime'
  BY <1>2 DEF IInv, WaitsInTime
<1>5. ChecksMade'
  <2> SUFFICES ASSUME NEW k \in Loop
               PROVE  /\ pc'[k] \in {"loading", "polling", "sleeping"} => now' >= schedule'.startAt
                      /\ pc'[k] \in {"loading", "sleeping"} => ~Closed(timer[k])'
                      /\ pc'[k] = "sleeping" => now' <= timer'[k]
                      /\ pc'[k] \in {"polling", "sleeping"} => k \in polled'
    BY DEF ChecksMade
  <2>1. CASE k = l
    BY <1>2, <2>1 DEF Closed
  <2>2. CASE k # l
    BY <1>2, <2>2 DEF IInv, ChecksMade, Closed
  <2> QED
    BY <2>1, <2>2
<1>6. WindowUsed'
  <2> SUFFICES ASSUME NEW k \in Loop, pc'[k] = "ended"
               PROVE  /\ schedule'.stopAt # Zero
                      /\ k \in polled' \/ schedule'.stopAt <= readyAt'
                         \/ schedule'.stopAt <= schedule'.startAt
    BY DEF WindowUsed
  <2>1. CASE k = l
    BY <1>2, <2>1
  <2>2. CASE k # l
    BY <1>2, <2>2 DEF IInv, WindowUsed
  <2> QED
    BY <2>1, <2>2
<1> QED
  BY <1>1, <1>3, <1>4, <1>5, <1>6 DEF IInv

\* A loop's steps. The first check of the end is made as soon as the start has
\* come, which is what makes an end that has passed the fault of start-up.
LEMMA LoopStepInv == \A l \in Loop : IInv /\ LoopStep(l) => IInv'
<1> SUFFICES ASSUME NEW l \in Loop, IInv, LoopStep(l) PROVE IInv'
  OBVIOUS
<1>0. /\ now \in Nat /\ schedule.startAt \in Nat /\ schedule.stopAt \in Nat /\ readyAt \in Nat
      /\ timer[l] \in Nat
  BY DEF IInv, TypeOK
<1>1. CASE Open(l)
  <2>1. /\ proc = "up" /\ now >= schedule.startAt
        /\ now = readyAt \/ now <= schedule.startAt
    BY <1>1 DEF IInv, Resolved, WaitsInTime, Open
  <2>2. CASE Closed(now)
    <3>1. schedule.stopAt # Zero /\ (schedule.stopAt <= readyAt \/ schedule.stopAt <= schedule.startAt)
      BY <1>0, <2>1, <2>2 DEF Closed
    <3>2. pc' = [pc EXCEPT ![l] = "ended"] /\ timer' = [timer EXCEPT ![l] = now]
          /\ UNCHANGED <<now, env, proc, loadedAt, schedule, readyAt, polled, crashes>>
      BY <1>1, <2>2 DEF Open
    <3> QED
      BY <1>0, <2>1, <3>1, <3>2, LoopInv
  <2>3. CASE ~Closed(now)
    <3>1. pc' = [pc EXCEPT ![l] = "loading"] /\ timer' = [timer EXCEPT ![l] = now]
          /\ UNCHANGED <<now, env, proc, loadedAt, schedule, readyAt, polled, crashes>>
      BY <1>1, <2>3 DEF Open
    <3> QED
      BY <1>0, <2>1, <2>3, <3>1, LoopInv
  <2> QED
    BY <2>2, <2>3
<1>2. CASE BeginPoll(l)
  <2>1. proc = "up" /\ now >= schedule.startAt
    BY <1>2 DEF IInv, Resolved, ChecksMade, BeginPoll
  <2> QED
    BY <1>0, <1>2, <2>1, LoopInv DEF BeginPoll
<1>3. CASE EndPoll(l)
  <2>1. proc = "up" /\ now >= schedule.startAt /\ l \in polled
    BY <1>3 DEF IInv, Resolved, ChecksMade, EndPoll
  <2>2. PICK delay \in PollWindow[l]..(PollWindow[l] + Jitter[l]) :
          /\ pc' = [pc EXCEPT ![l] = SleepOrEnd(l, delay)]
          /\ timer' = [timer EXCEPT ![l] = now + delay]
    BY <1>3 DEF EndPoll
  <2>3. now + delay \in Nat /\ now <= now + delay
    BY <1>0, Cadence
  <2>4. UNCHANGED <<now, env, proc, loadedAt, schedule, readyAt, polled, crashes>>
    BY <1>3 DEF EndPoll
  <2>5. CASE Closed(now + delay)
    <3>1. pc' = [pc EXCEPT ![l] = "ended"] /\ schedule.stopAt # Zero
      BY <2>2, <2>5 DEF SleepOrEnd, Closed
    <3> QED
      BY <2>1, <2>2, <2>3, <2>4, <3>1, LoopInv
  <2>6. CASE ~Closed(now + delay)
    <3>1. pc' = [pc EXCEPT ![l] = "sleeping"]
      BY <2>2, <2>6 DEF SleepOrEnd
    <3> QED
      BY <2>1, <2>2, <2>3, <2>4, <2>6, <3>1, LoopInv
  <2> QED
    BY <2>5, <2>6
<1> QED
  BY <1>1, <1>2, <1>3 DEF LoopStep

\* Time does not pass a start that somebody waits for, nor a timer.
LEMMA TickInv == IInv /\ Tick => IInv'
<1> SUFFICES ASSUME IInv, Tick PROVE IInv'
  OBVIOUS
<1>1. /\ now \in Nat /\ now' = now + 1 /\ schedule.startAt \in Nat
      /\ UNCHANGED <<env, proc, loadedAt, schedule, pc, timer, readyAt, polled, crashes>>
  BY DEF IInv, TypeOK, Tick
<1>2. \A l \in Loop : /\ pc[l] = "waiting" => ~(now >= schedule.startAt)
                      /\ pc[l] = "sleeping" => ~(now >= timer[l])
                      /\ timer[l] \in Nat
  BY DEF IInv, TypeOK, Tick, Urgent
<1>3. TypeOK'
  BY <1>1 DEF IInv, TypeOK
<1>4. WaitsInTime'
  BY <1>1, <1>2 DEF WaitsInTime
<1>5. ChecksMade'
  BY <1>1, <1>2 DEF IInv, ChecksMade, Closed
<1>6. Resolved' /\ WindowUsed'
  BY <1>1 DEF IInv, Resolved, WindowUsed
<1> QED
  BY <1>3, <1>4, <1>5, <1>6 DEF IInv

\* Every step keeps the invariant.
LEMMA NextInv == IInv /\ [Next]_vars => IInv'
<1> SUFFICES ASSUME IInv, [Next]_vars PROVE IInv'
  OBVIOUS
<1>1. CASE StartLoops
  <2>1. TypeOK'
    BY <1>1 DEF IInv, TypeOK, StartLoops
  <2>2. /\ \A l \in Loop : pc'[l] = "waiting"
        /\ proc' = "up" /\ proc # "down" /\ readyAt' = now /\ now' = now
        /\ UNCHANGED <<env, loadedAt, schedule>>
    BY <1>1 DEF StartLoops
  <2>3. Resolved' /\ WaitsInTime' /\ ChecksMade' /\ WindowUsed'
    BY <2>2 DEF IInv, Resolved, WaitsInTime, ChecksMade, WindowUsed
  <2> QED
    BY <2>1, <2>3 DEF IInv
<1>2. CASE Exit
  <2>1. TypeOK'
    BY <1>2 DEF IInv, TypeOK, Exit
  <2>2. /\ \A l \in Loop : pc'[l] = "ended" /\ pc[l] = "ended"
        /\ proc' = "down" /\ UNCHANGED <<schedule, polled, readyAt>>
    BY <1>2 DEF Exit
  <2>3. Resolved' /\ WaitsInTime' /\ ChecksMade' /\ WindowUsed'
    BY <2>2 DEF IInv, Resolved, WaitsInTime, ChecksMade, WindowUsed
  <2> QED
    BY <2>1, <2>3 DEF IInv
<1>3. CASE Crash
  <2>1. TypeOK'
    BY <1>3 DEF IInv, TypeOK, Crash
  <2>2. proc' = "down" /\ \A l \in Loop : pc'[l] = "off"
    BY <1>3 DEF Crash
  <2>3. Resolved' /\ WaitsInTime' /\ ChecksMade' /\ WindowUsed'
    BY <2>2 DEF Resolved, WaitsInTime, ChecksMade, WindowUsed
  <2> QED
    BY <2>1, <2>3 DEF IInv
<1>4. CASE UNCHANGED vars
  BY <1>4 DEF vars, IInv, TypeOK, Resolved, WaitsInTime, ChecksMade, WindowUsed, Closed
<1> QED
  BY <1>1, <1>2, <1>3, <1>4, LoadConfigInv, LoopStepInv, TickInv DEF Next

\* The inductive invariant of the schedule.
LEMMA Invariance == Spec => []IInv
  BY InitInv, NextInv, PTL DEF Spec

-----------------------------------------------------------------------------
\* The schedule's state keeps its types, for any environments and cadences.
THEOREM TypeCorrect == Spec => []TypeOK
<1>1. IInv => TypeOK
  BY DEF IInv
<1> QED
  BY <1>1, Invariance, PTL

\* A loop ends by itself only in a bounded window, and not before it has polled
\* at least once, unless the window was empty or had passed during start-up
\* (scraper.go:47-50, 69-72; tsm_scraper.go:79-81, 111-113).
THEOREM WindowIsUsed == Spec => []WindowUsed
<1>1. IInv => WindowUsed
  BY DEF IInv
<1> QED
  BY <1>1, Invariance, PTL

\* One step: a pass that begins does so within the environment's bounds.
LEMMA BeginsInBounds ==
  ASSUME IInv, [Next]_vars, NEW l \in Loop, Begins(l)
  PROVE  InBounds(l)
<1> DEFINE start == Max({loadedAt + env.pollStart, env.scrapeFrom})
           at == IF pc[l] = "loading" THEN timer[l] ELSE now
<1>1. BeginPoll(l)
  <2>1. pc'[l] # pc[l] /\ pc'[l] = "polling"
    BY DEF Begins
  <2>2. ~UNCHANGED vars /\ ~LoadConfig /\ ~StartLoops /\ ~Exit /\ ~Crash /\ ~Tick
    BY <2>1 DEF vars, LoadConfig, StartLoops, Exit, Crash, Tick
  <2>3. PICK k \in Loop : LoopStep(k)
    BY <2>2 DEF Next
  <2>4. k = l
    BY <2>1, <2>3 DEF IInv, TypeOK, LoopStep, Open, BeginPoll, EndPoll
  <2>5. ~Open(l) /\ ~EndPoll(l)
    BY <2>1 DEF IInv, TypeOK, Open, EndPoll, SleepOrEnd
  <2> QED
    BY <2>3, <2>4, <2>5 DEF LoopStep
<1>2. /\ now \in Nat /\ env \in Envs /\ loadedAt \in Nat /\ timer[l] \in Nat
      /\ schedule.startAt \in Nat /\ schedule.stopAt \in Nat
      /\ env.pollEnd \in Nat /\ env.scrapeUntil \in Nat
  BY EnvTimes DEF IInv, TypeOK
<1>3. proc # "down"
  BY <1>1 DEF IInv, Resolved, BeginPoll
<1>4. schedule = ResolveSchedule(loadedAt, env)
  BY <1>3 DEF IInv, Resolved
<1>5. /\ start \in Nat /\ schedule.startAt = start
      /\ env.scrapeUntil # Zero => schedule.stopAt # Zero /\ schedule.stopAt <= env.scrapeUntil
      /\ env.pollEnd > 0 => schedule.stopAt # Zero /\ schedule.stopAt <= start + env.pollEnd
  BY <1>2, <1>4, ScheduleMeaning
<1>6. now >= schedule.startAt /\ ~Closed(at) /\ at \in Nat
  <2>1. CASE pc[l] = "loading"
    BY <1>2, <2>1 DEF IInv, ChecksMade
  <2>2. CASE pc[l] = "sleeping"
    <3>1. now >= timer[l] /\ now <= timer[l]
      BY <1>1, <2>2 DEF IInv, ChecksMade, BeginPoll
    <3>2. now = timer[l]
      BY <1>2, <3>1
    <3> QED
      BY <1>2, <2>2, <3>2 DEF IInv, ChecksMade
  <2> QED
    BY <1>1, <2>1, <2>2 DEF BeginPoll
<1> HIDE DEF start, at
<1>7. /\ now >= start
      /\ env.scrapeUntil # Zero => at < env.scrapeUntil
      /\ env.pollEnd > 0 => at < start + env.pollEnd
  BY <1>2, <1>5, <1>6 DEF Closed
<1> QED
  BY <1>7 DEF InBounds, start, at

\* Every pass begins within what the environment asks for, whichever of the
\* relative and the absolute bounds is the tighter one; only the first may
\* begin late, by what loading the state takes (config.go, resolveSchedule;
\* scraper.go:47-64, tsm_scraper.go:76-90).
THEOREM PollsWithinBounds == Spec => PollsInBounds
<1>1. IInv /\ [Next]_vars => [\A l \in Loop : Begins(l) => InBounds(l)]_vars
  BY BeginsInBounds
<1> QED
  BY <1>1, Invariance, PTL DEF Spec, PollsInBounds

-----------------------------------------------------------------------------
(* The warnings about stale data *)

\* The types of the region's state.
RegionTypeOK ==
  /\ feed \in Feed
  /\ now \in Nat \ {0}
  /\ published \in Nat
  /\ versions \in Nat
  /\ stored \in Nat
  /\ state \in [have : Nat, since : Nat, warnedAt : Nat]
  /\ regionPc \in {"down", "polling", "sleeping"}
  /\ regionTimer \in Nat
  /\ started \in Nat
  /\ changedAt \in Nat
  /\ faults \in Nat

\* What is aged fits the version that memory knows: it is that version (TSM), or
\* not earlier than the last change if that version is the stored one (Blizzard).
\* Memory is behind what is stored, if anything, and that behind what is published.
AgesTheStored ==
  /\ changedAt <= now /\ stored <= published
  /\ regionPc # "down" =>
       /\ state.have <= stored
       /\ feed = "tsm" => state.since = state.have
       /\ feed = "blizzard" => state.since # Zero /\ (state.have = stored => state.since >= changedAt)

\* A Blizzard warning that is remembered is about the present silence.
SilencesApart ==
  feed = "blizzard" /\ regionPc # "down" =>
    state.warnedAt = Zero \/ state.warnedAt >= state.since + StaleAfter[feed]

\* The check after a poll that ended at e left nothing old without a warning.
Checked(e) ==
  \/ state.since = Zero
  \/ e - state.since < StaleAfter[feed]
  \/ state.warnedAt # Zero /\ e - state.warnedAt < Backoff[feed]

\* The last poll ended at e, and the next one is on time.
OnTime(e) ==
  /\ regionTimer <= e + Interval + FeedJitter[feed]
  /\ regionPc = "sleeping" => now <= regionTimer
  /\ regionPc = "polling" => now <= regionTimer + MaxPoll

\* A TSM loop is in the first poll of its process or has checked after the last.
CheckedInTime ==
  feed = "tsm" /\ regionPc # "down" =>
    \/ regionPc = "polling" /\ regionTimer = started /\ now <= regionTimer + MaxPoll
    \/ \E e \in Nat : e <= now /\ OnTime(e) /\ Checked(e)

RegionInv == RegionTypeOK /\ AgesTheStored /\ SilencesApart /\ CheckedInTime

\* What WarningsTrue says of a warning.
Truthful == StoredAge' >= StaleAfter[feed] \/ (feed = "tsm" /\ state'.have < stored')

-----------------------------------------------------------------------------
\* The thresholds of the feed.
LEMMA ThresholdsTyped ==
  ASSUME RegionTypeOK
  PROVE  /\ StaleAfter[feed] \in Nat \ {0} /\ Backoff[feed] \in Nat \ {0}
         /\ FeedJitter[feed] \in Nat /\ Interval \in Nat \ {0}
         /\ MaxPoll \in Nat /\ MaxTime \in Nat /\ MaxVersions \in Nat /\ MaxFaults \in Nat
         /\ now \in Nat /\ now # 0
  BY StalenessAssumption, ClockAssumption DEF RegionTypeOK

\* warnIfStale changes nothing but when it last warned, and leaves nothing old
\* without a warning.
LEMMA WarnIfStaleMeaning ==
  ASSUME RegionTypeOK, NEW s \in [have : Nat, since : Nat, warnedAt : Nat]
  PROVE  /\ WarnIfStale(s) \in [have : Nat, since : Nat, warnedAt : Nat]
         /\ WarnIfStale(s).since = s.since /\ WarnIfStale(s).have = s.have
         /\ WarnIfStale(s).warnedAt # s.warnedAt =>
              WarnIfStale(s).warnedAt = now /\ s.since # Zero /\ now - s.since >= StaleAfter[feed]
         /\ \/ WarnIfStale(s).since = Zero
            \/ now - WarnIfStale(s).since < StaleAfter[feed]
            \/ WarnIfStale(s).warnedAt # Zero /\ now - WarnIfStale(s).warnedAt < Backoff[feed]
<1>1. /\ StaleAfter[feed] \in Nat \ {0} /\ Backoff[feed] \in Nat \ {0} /\ now \in Nat \ {0}
      /\ s.since \in Nat /\ s.warnedAt \in Nat /\ s.have \in Nat
  BY ThresholdsTyped
<1>2. CASE s.since = Zero \/ Quiet(s)
  <2>1. WarnIfStale(s) = s
    BY <1>2 DEF WarnIfStale
  <2> QED
    BY <1>1, <1>2, <2>1 DEF Quiet
<1>3. CASE ~(s.since = Zero \/ Quiet(s))
  <2>1. WarnIfStale(s) = [s EXCEPT !.warnedAt = now]
    BY <1>3 DEF WarnIfStale
  <2>2. /\ WarnIfStale(s) \in [have : Nat, since : Nat, warnedAt : Nat]
        /\ WarnIfStale(s).since = s.since /\ WarnIfStale(s).have = s.have
        /\ WarnIfStale(s).warnedAt = now
    BY <1>1, <2>1
  <2>3. s.since # Zero /\ now - s.since >= StaleAfter[feed]
    BY <1>1, <1>3 DEF Quiet
  <2> QED
    BY <1>1, <2>2, <2>3 DEF Zero
<1> QED
  BY <1>2, <1>3

\* What follows a poll: the state aged as it is, and checked if the loop does so.
LEMMA AfterPollMeaning ==
  ASSUME RegionTypeOK, NEW s \in [have : Nat, since : Nat, warnedAt : Nat], NEW outcome
  PROVE  /\ AfterPoll(outcome, s) \in [have : Nat, since : Nat, warnedAt : Nat]
         /\ AfterPoll(outcome, s).since = s.since /\ AfterPoll(outcome, s).have = s.have
         /\ AfterPoll(outcome, s).warnedAt # s.warnedAt =>
              /\ feed = "tsm" \/ outcome = "unchanged"
              /\ AfterPoll(outcome, s).warnedAt = now
              /\ s.since # Zero /\ now - s.since >= StaleAfter[feed]
         /\ feed = "tsm" \/ outcome = "unchanged" =>
              \/ AfterPoll(outcome, s).since = Zero
              \/ now - AfterPoll(outcome, s).since < StaleAfter[feed]
              \/ /\ AfterPoll(outcome, s).warnedAt # Zero
                 /\ now - AfterPoll(outcome, s).warnedAt < Backoff[feed]
<1>1. CASE feed = "tsm" \/ outcome = "unchanged"
  <2>1. AfterPoll(outcome, s) = WarnIfStale(s)
    BY <1>1 DEF AfterPoll
  <2> QED
    BY <1>1, <2>1, WarnIfStaleMeaning
<1>2. CASE ~(feed = "tsm" \/ outcome = "unchanged")
  <2>1. AfterPoll(outcome, s) = s
    BY <1>2 DEF AfterPoll
  <2> QED
    BY <1>2, <2>1
<1> QED
  BY <1>1, <1>2

\* A poll ends with the state s and goes to sleep. What is aged fits the version
\* known, and the Blizzard loop checks it only if that is the stored one.
LEMMA PollEnds ==
  ASSUME RegionInv, regionPc = "polling", NEW outcome,
         NEW s \in [have : Nat, since : Nat, warnedAt : Nat],
         state' = AfterPoll(outcome, s), ToSleep,
         UNCHANGED <<feed, now, published, versions, started>>,
         stored' \in Nat, changedAt' \in Nat, faults' \in Nat,
         changedAt' <= now, stored' <= published, s.have <= stored',
         s.warnedAt \in {state.warnedAt, Zero},
         feed = "tsm" => s.since = s.have,
         feed = "blizzard" =>
           /\ s.since # Zero /\ (s.have = stored' => s.since >= changedAt')
           /\ s.warnedAt = Zero \/ s.warnedAt >= s.since + StaleAfter[feed]
           /\ outcome = "unchanged" => s.have = stored'
  PROVE  RegionInv' /\ (Warns => Truthful)
<1>1. /\ state' \in [have : Nat, since : Nat, warnedAt : Nat]
      /\ state'.since = s.since /\ state'.have = s.have
      /\ state'.warnedAt # s.warnedAt =>
           /\ feed = "tsm" \/ outcome = "unchanged"
           /\ state'.warnedAt = now /\ now - s.since >= StaleAfter[feed]
      /\ feed = "tsm" => \/ state'.since = Zero
                         \/ now - state'.since < StaleAfter[feed]
                         \/ state'.warnedAt # Zero /\ now - state'.warnedAt < Backoff[feed]
  BY AfterPollMeaning DEF RegionInv
<1>2. /\ StaleAfter[feed] \in Nat \ {0} /\ Backoff[feed] \in Nat \ {0} /\ now \in Nat
      /\ FeedJitter[feed] \in Nat /\ Interval \in Nat \ {0} /\ MaxPoll \in Nat
  BY ThresholdsTyped DEF RegionInv
<1>3. PICK d \in Interval..(Interval + FeedJitter[feed]) : regionTimer' = now + d
  BY DEF ToSleep
<1>4. regionTimer' \in Nat /\ now <= regionTimer' /\ regionTimer' <= now + Interval + FeedJitter[feed]
  BY <1>2, <1>3
<1>5. RegionTypeOK'
  BY <1>1, <1>4 DEF RegionInv, RegionTypeOK, ToSleep
<1>6. AgesTheStored'
  BY <1>1 DEF AgesTheStored
<1>7. CheckedInTime'
  <2> SUFFICES ASSUME feed = "tsm"
               PROVE  \E e \in Nat : e <= now' /\ OnTime(e)' /\ Checked(e)'
    BY DEF CheckedInTime
  <2>1. now <= now' /\ OnTime(now)'
    BY <1>2, <1>4 DEF OnTime, ToSleep
  <2>2. \/ state'.since = Zero
        \/ now - state'.since < StaleAfter[feed']
        \/ state'.warnedAt # Zero /\ now - state'.warnedAt < Backoff[feed']
    BY <1>1
  <2>3. \A e \in Nat : e = now =>
          (Checked(e)' <=> \/ state'.since = Zero
                           \/ e - state'.since < StaleAfter[feed']
                           \/ state'.warnedAt # Zero /\ e - state'.warnedAt < Backoff[feed'])
    BY DEF Checked
  <2>4. \A e \in Nat : e = now => e <= now' /\ OnTime(e)' /\ Checked(e)'
    BY <1>2, <1>4, <2>2, <2>3 DEF OnTime, ToSleep
  <2> QED
    BY <1>2, <2>4
<1>8. SilencesApart'
  <2> SUFFICES ASSUME feed = "blizzard"
               PROVE  state'.warnedAt = Zero \/ state'.warnedAt >= state'.since + StaleAfter[feed]
    BY DEF SilencesApart
  <2>1. CASE state'.warnedAt = s.warnedAt
    BY <1>1, <2>1
  <2>2. CASE state'.warnedAt # s.warnedAt
    BY <1>1, <1>2, <2>2
  <2> QED
    BY <2>1, <2>2
<1>9. Warns => Truthful
  <2> SUFFICES ASSUME Warns
               PROVE  \/ now - (IF feed = "tsm" THEN stored' ELSE changedAt') >= StaleAfter[feed]
                      \/ feed = "tsm" /\ state'.have < stored'
    BY DEF Truthful, StoredAge
  <2>1. now - s.since >= StaleAfter[feed] /\ (feed = "tsm" \/ outcome = "unchanged")
    BY <1>1 DEF Warns
  <2>2. CASE feed = "tsm"
    BY <1>1, <1>2, <2>1, <2>2
  <2>3. CASE feed = "blizzard"
    BY <1>1, <1>2, <2>1, <2>3
  <2> QED
    BY <2>2, <2>3 DEF RegionInv, RegionTypeOK, Feed
<1> QED
  BY <1>5, <1>6, <1>7, <1>8, <1>9 DEF RegionInv

-----------------------------------------------------------------------------
\* Nothing runs at first.
LEMMA RegionInitInv == RegionInit => RegionInv
  BY DEF RegionInit, RegionInv, RegionTypeOK, AgesTheStored, SilencesApart, CheckedInTime, Zero, Feed

\* What the invariant says of the memory of a running process.
StateFits ==
  /\ state \in [have : Nat, since : Nat, warnedAt : Nat]
  /\ state.have <= stored
  /\ feed = "tsm" => state.since = state.have
  /\ feed = "blizzard" =>
       /\ state.since # Zero /\ (state.have = stored => state.since >= changedAt)
       /\ state.warnedAt = Zero \/ state.warnedAt >= state.since + StaleAfter[feed]

\* What can be stored is what is published, and memory is behind it.
LEMMA CommitsMeaning ==
  ASSUME RegionInv, regionPc # "down", Commits
  PROVE  /\ stored' = published /\ stored' \in Nat /\ changedAt' = now /\ changedAt' \in Nat
         /\ state.have < stored'
  BY DEF RegionInv, RegionTypeOK, Commits, Storable

\* Every step keeps the invariant, and warns only about what is stale.
LEMMA RegionStep ==
  ASSUME RegionInv, RegionNext
  PROVE  RegionInv' /\ (Warns => Truthful)
<1>0. /\ now \in Nat /\ now # 0 /\ FeedJitter[feed] \in Nat /\ Interval \in Nat /\ MaxPoll \in Nat
      /\ state.since \in Nat /\ state.warnedAt \in Nat /\ stored \in Nat /\ changedAt \in Nat
      /\ regionTimer \in Nat /\ published \in Nat /\ faults \in Nat /\ changedAt <= now
      /\ state.have \in Nat /\ stored <= published /\ feed \in {"blizzard", "tsm"}
  BY ThresholdsTyped DEF RegionInv, RegionTypeOK, AgesTheStored, Feed
<1>1. CASE Start
  <2>1. /\ state' = [have |-> stored, since |-> IF feed = "tsm" THEN stored ELSE now,
                     warnedAt |-> Zero]
        /\ regionPc' = "polling" /\ regionTimer' = now /\ started' = now
        /\ UNCHANGED <<feed, now, published, versions, stored, changedAt, faults>>
    BY <1>1 DEF Start
  <2>2. state' \in [have : Nat, since : Nat, warnedAt : Nat] /\ state'.warnedAt = Zero
        /\ state'.have = stored /\ state'.since = IF feed = "tsm" THEN stored ELSE now
    BY <1>0, <2>1 DEF Zero
  <2>3. RegionTypeOK'
    BY <1>0, <2>1, <2>2 DEF RegionInv, RegionTypeOK
  <2>4. AgesTheStored' /\ SilencesApart'
    BY <1>0, <2>1, <2>2 DEF AgesTheStored, SilencesApart, Zero
  <2>5. CheckedInTime'
    BY <1>0, <2>1 DEF CheckedInTime
  <2>6. ~Warns
    BY <2>2 DEF Warns
  <2> QED
    BY <2>3, <2>4, <2>5, <2>6 DEF RegionInv
<1>2. CASE PollChanged
  <2> DEFINE s == [have |-> published, since |-> Since(published), warnedAt |-> LastWarnAt]
  <2>1. /\ s \in [have : Nat, since : Nat, warnedAt : Nat] /\ s.have = published
        /\ feed = "tsm" => s.since = published /\ s.warnedAt = state.warnedAt
        /\ feed = "blizzard" => s.since = now /\ s.warnedAt = Zero
    BY <1>0 DEF Since, LastWarnAt, Zero
  <2>2. /\ regionPc = "polling" /\ Commits /\ state' = AfterPoll("changed", s) /\ ToSleep
        /\ UNCHANGED <<feed, now, published, versions, started, faults>>
    BY <1>2 DEF PollChanged
  <2>3. stored' = published /\ changedAt' = now
    BY <2>2 DEF Commits
  <2> HIDE DEF s
  <2>4. /\ stored' \in Nat /\ changedAt' \in Nat /\ faults' \in Nat
        /\ changedAt' <= now /\ stored' <= published /\ s.have <= stored'
        /\ s.warnedAt \in {state.warnedAt, Zero}
        /\ feed = "tsm" => s.since = s.have
        /\ feed = "blizzard" => s.since # Zero /\ s.since >= changedAt' /\ s.warnedAt = Zero
    BY <1>0, <2>1, <2>2, <2>3 DEF Zero
  <2> QED
    BY <2>1, <2>2, <2>4, PollEnds
<1>3. CASE PollUnchanged
  <2>1. regionPc = "polling" /\ published = state.have
    BY <1>3 DEF PollUnchanged
  <2>2. StateFits /\ state.have = stored
    BY <1>0, <2>1 DEF RegionInv, RegionTypeOK, AgesTheStored, SilencesApart, StateFits
  <2> QED
    BY <1>0, <1>3, <2>2, PollEnds DEF PollUnchanged, StateFits
<1>4. CASE PollFails
  <2>1. /\ regionPc = "polling" /\ faults' \in Nat
        /\ Commits \/ UNCHANGED <<stored, changedAt>>
        /\ state' = AfterPoll("failed", state) /\ ToSleep
        /\ UNCHANGED <<feed, now, published, versions, started>>
    BY <1>0, <1>4 DEF PollFails
  <2>2. StateFits
    BY <2>1 DEF RegionInv, RegionTypeOK, AgesTheStored, SilencesApart, StateFits
  <2>3. CASE Commits
    <3>1. /\ stored' = published /\ stored' \in Nat /\ changedAt' = now /\ changedAt' \in Nat
          /\ state.have < stored'
      BY <2>1, <2>3, CommitsMeaning
    <3> QED
      BY <1>0, <2>1, <2>2, <3>1, PollEnds DEF StateFits
  <2>4. CASE UNCHANGED <<stored, changedAt>>
    BY <1>0, <2>1, <2>2, <2>4, PollEnds DEF StateFits
  <2> QED
    BY <2>1, <2>3, <2>4
<1>9. CASE PollRefused
  <2>1. StateFits
    BY <1>9 DEF RegionInv, RegionTypeOK, AgesTheStored, SilencesApart, StateFits, PollRefused
  <2> QED
    BY <1>0, <1>9, <2>1, PollEnds DEF PollRefused, StateFits
<1>5. CASE Wake
  <2>1. /\ regionPc = "sleeping" /\ now >= regionTimer /\ regionPc' = "polling" /\ regionTimer' = now
        /\ UNCHANGED <<feed, now, published, versions, stored, state, started, changedAt, faults>>
    BY <1>5 DEF Wake
  <2>2. RegionTypeOK' /\ AgesTheStored' /\ SilencesApart' /\ ~Warns
    BY <1>0, <2>1 DEF RegionInv, RegionTypeOK, AgesTheStored, SilencesApart, Warns
  <2>3. CheckedInTime'
    <3> SUFFICES ASSUME feed = "tsm"
                 PROVE  \E e \in Nat : e <= now' /\ OnTime(e)' /\ Checked(e)'
      BY <2>1 DEF CheckedInTime
    <3>1. PICK e \in Nat : e <= now /\ OnTime(e) /\ Checked(e)
      BY <2>1 DEF RegionInv, CheckedInTime
    <3>2. OnTime(e)'
      BY <1>0, <2>1, <3>1 DEF OnTime
    <3>3. Checked(e)'
      BY <2>1, <3>1 DEF Checked
    <3> QED
      BY <2>1, <3>1, <3>2, <3>3
  <2> QED
    BY <2>2, <2>3 DEF RegionInv
<1>6. CASE RegionCrash
  <2>1. /\ regionPc # "down" /\ regionPc' = "down" /\ faults' = faults + 1
        /\ Commits \/ UNCHANGED <<stored, changedAt>>
        /\ UNCHANGED <<feed, now, published, versions, state, regionTimer, started>>
    BY <1>6 DEF RegionCrash
  <2>2. /\ stored' \in Nat /\ changedAt' \in Nat
        /\ changedAt' <= now /\ stored' <= published
    BY <1>0, <2>1, CommitsMeaning
  <2>3. RegionTypeOK'
    BY <1>0, <2>1, <2>2 DEF RegionInv, RegionTypeOK
  <2>4. AgesTheStored' /\ SilencesApart' /\ CheckedInTime' /\ ~Warns
    BY <1>0, <2>1, <2>2 DEF AgesTheStored, SilencesApart, CheckedInTime, Warns
  <2> QED
    BY <2>3, <2>4 DEF RegionInv
<1>7. CASE Publish
  <2>1. published' \in Nat /\ versions' \in Nat /\ stored <= published'
    BY <1>0, <1>7 DEF RegionInv, RegionTypeOK, Publish
  <2>2. RegionTypeOK' /\ ~Warns
    BY <1>7, <2>1 DEF RegionInv, RegionTypeOK, Warns, Publish
  <2>3. AgesTheStored' /\ SilencesApart' /\ CheckedInTime'
    BY <1>7, <2>1 DEF RegionInv, AgesTheStored, SilencesApart, CheckedInTime, OnTime, Checked, Publish
  <2> QED
    BY <2>2, <2>3 DEF RegionInv
<1>8. CASE RegionTick
  <2>1. /\ now' = now + 1
        /\ regionPc = "sleeping" => now < regionTimer
        /\ regionPc = "polling" => now < regionTimer + MaxPoll
        /\ UNCHANGED <<feed, published, versions, stored, state, regionPc, regionTimer, started, changedAt, faults>>
    BY <1>8 DEF RegionTick
  <2>2. RegionTypeOK' /\ AgesTheStored' /\ SilencesApart' /\ ~Warns
    BY <1>0, <2>1 DEF RegionInv, RegionTypeOK, AgesTheStored, SilencesApart, Warns
  <2>3. CheckedInTime'
    <3> SUFFICES ASSUME feed = "tsm", regionPc # "down",
                        ~(regionPc = "polling" /\ regionTimer = started /\ now + 1 <= regionTimer + MaxPoll)
                 PROVE  \E e \in Nat : e <= now' /\ OnTime(e)' /\ Checked(e)'
      BY <2>1 DEF CheckedInTime
    <3>0. ~(regionPc = "polling" /\ regionTimer = started /\ now <= regionTimer + MaxPoll)
      BY <1>0, <2>1
    <3>1. PICK e \in Nat : e <= now /\ OnTime(e) /\ Checked(e)
      BY <3>0 DEF RegionInv, CheckedInTime
    <3>2. OnTime(e)'
      BY <1>0, <2>1, <3>1 DEF OnTime
    <3>3. Checked(e)'
      BY <2>1, <3>1 DEF Checked
    <3>4. e <= now'
      BY <1>0, <2>1, <3>1
    <3> QED
      BY <3>1, <3>2, <3>3, <3>4
  <2> QED
    BY <2>2, <2>3 DEF RegionInv
<1> QED
  BY <1>1, <1>2, <1>3, <1>4, <1>5, <1>6, <1>7, <1>8, <1>9 DEF RegionNext

\* Every step keeps the invariant.
LEMMA RegionNextInv == RegionInv /\ [RegionNext]_regionVars => RegionInv'
<1>1. RegionInv /\ UNCHANGED regionVars => RegionInv'
  BY DEF regionVars, RegionInv, RegionTypeOK, AgesTheStored, SilencesApart, CheckedInTime, OnTime, Checked
<1>2. RegionInv /\ RegionNext => RegionInv'
  BY RegionStep
<1> QED
  BY <1>1, <1>2

\* The inductive invariant of the warnings.
LEMMA RegionInvariance == RegionSpec => []RegionInv
  BY RegionInitInv, RegionNextInv, PTL DEF RegionSpec

-----------------------------------------------------------------------------
\* The region's state keeps its types, for any thresholds and cadences.
THEOREM RegionTypesCorrect == RegionSpec => []RegionTypeOK
<1>1. RegionInv => RegionTypeOK
  BY DEF RegionInv
<1> QED
  BY <1>1, RegionInvariance, PTL

\* A Blizzard warning is never false: nothing has been stored for StaleAfter,
\* lost answers of commits included (scraper.go:134-140). Nor is a TSM warning,
\* what is stored was published that long ago, whatever was stored in the poll
\* that warns or since the last one, unless the answer to the commit of the
\* newest file was lost: then it speaks of the file before, the last that
\* memory knows (tsm_scraper.go:95-108, 231-233).
THEOREM WarningsAreTrue == RegionSpec => WarningsTrue
<1>1. RegionInv /\ [RegionNext]_regionVars => [Warns => Truthful]_regionVars
  BY RegionStep
<1> QED
  BY <1>1, RegionInvariance, PTL DEF RegionSpec, WarningsTrue, Truthful

\* An unchanged Blizzard poll that finds StaleAfter passed since the last change
\* leaves a warning about this silence that is younger than Backoff: a warning
\* about an earlier silence does not hold it back (scraper.go:135-141, 198-205).
THEOREM SilenceIsWarned == RegionSpec => SilenceWarned
<1>1. ASSUME RegionInv, PollUnchanged, feed = "blizzard", now - state.since >= StaleAfter[feed]
      PROVE  state'.warnedAt >= state.since + StaleAfter[feed] /\ now - state'.warnedAt < Backoff[feed]
  <2>1. /\ StaleAfter[feed] \in Nat \ {0} /\ now \in Nat
        /\ state \in [have : Nat, since : Nat, warnedAt : Nat]
        /\ state.since \in Nat /\ state.since # Zero
        /\ state.warnedAt = Zero \/ state.warnedAt >= state.since + StaleAfter[feed]
    BY <1>1, ThresholdsTyped DEF RegionInv, RegionTypeOK, AgesTheStored, SilencesApart, PollUnchanged
  <2>2. /\ state' \in [have : Nat, since : Nat, warnedAt : Nat] /\ state'.since = state.since
        /\ state'.warnedAt # state.warnedAt => state'.warnedAt = now
        /\ \/ state'.since = Zero
           \/ now - state'.since < StaleAfter[feed]
           \/ state'.warnedAt # Zero /\ now - state'.warnedAt < Backoff[feed]
    BY <1>1, <2>1, AfterPollMeaning DEF RegionInv, PollUnchanged
  <2>3. state'.warnedAt # Zero /\ now - state'.warnedAt < Backoff[feed]
    BY <1>1, <2>1, <2>2
  <2> QED
    BY <1>1, <2>1, <2>2, <2>3
<1>2. RegionInv /\ [RegionNext]_regionVars
        => [PollUnchanged /\ feed = "blizzard" /\ now - state.since >= StaleAfter[feed]
              => /\ state'.warnedAt >= state.since + StaleAfter[feed]
                 /\ now - state'.warnedAt < Backoff[feed]]_regionVars
  BY <1>1
<1> QED
  BY <1>2, RegionInvariance, PTL DEF RegionSpec, SilenceWarned

\* While a process runs, TSM data older than StaleAfter is warned about at
\* least every Backoff, give or take the time between two polls, whatever the
\* polls come to (tsm_scraper.go:95-108).
THEOREM OldDataIsWarned == RegionSpec => []OldDataWarned
<1>1. RegionInv => OldDataWarned
  <2> SUFFICES ASSUME RegionInv, feed = "tsm", regionPc # "down", now - started > Gap,
                      state.since # Zero, now - state.since > StaleAfter[feed] + Gap
               PROVE  state.warnedAt # Zero /\ now - state.warnedAt <= Backoff[feed] + Gap
    BY DEF OldDataWarned
  <2>1. /\ StaleAfter[feed] \in Nat /\ Backoff[feed] \in Nat /\ now \in Nat
        /\ FeedJitter[feed] \in Nat /\ Interval \in Nat /\ MaxPoll \in Nat
        /\ state.since \in Nat /\ state.warnedAt \in Nat /\ regionTimer \in Nat /\ started \in Nat
        /\ regionPc \in {"polling", "sleeping"}
    BY ThresholdsTyped DEF RegionInv, RegionTypeOK
  <2>2. ~(regionPc = "polling" /\ regionTimer = started /\ now <= regionTimer + MaxPoll)
    BY <2>1 DEF Gap
  <2>3. PICK e \in Nat : e <= now /\ OnTime(e) /\ Checked(e)
    BY <2>2 DEF RegionInv, CheckedInTime
  <2>4. now <= e + Gap /\ Gap \in Nat
    BY <2>1, <2>3 DEF OnTime, Gap
  <2>5. ~(e - state.since < StaleAfter[feed])
    BY <2>1, <2>3, <2>4
  <2>6. state.warnedAt # Zero /\ e - state.warnedAt < Backoff[feed]
    BY <2>3, <2>5 DEF Checked
  <2> QED
    BY <2>1, <2>3, <2>4, <2>6
<1> QED
  BY <1>1, RegionInvariance, PTL

=============================================================================
