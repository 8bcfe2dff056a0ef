----------------------------- MODULE PollSchedule -----------------------------
(***************************************************************************)
(* The window in which the loops poll: resolveSchedule (config.go), the    *)
(* checks of Scraper.Run and TSMScraper.runRegion, and the processes that  *)
(* a container starts one after the other with the same environment.       *)
(*                                                                         *)
(* Start-up, loading a region's state and polling take any number of ticks *)
(* up to MaxStart, MaxLoad and MaxPoll.                                    *)
(***************************************************************************)
EXTENDS PollClock, FiniteSets, FiniteSetsExt

CONSTANTS
  Loop,        \* the Blizzard loop and the regions' TSM loops
  PollWindow,  \* [Loop -> the sleep between two passes]
  Jitter,      \* [Loop -> the largest addition to it]
  Envs,        \* the environments the container may be given
  MaxStart, MaxLoad,  \* how long start-up, and loading a region's state, may take
  StartBy,     \* bound: no process is started later
  MaxCrashes   \* bound of the processes that do not end by themselves

ASSUME ScheduleAssumption ==
  /\ PollWindow \in [Loop -> Nat \ {0}]
  /\ Jitter \in [Loop -> Nat]
  /\ \A e \in Envs : {e.pollStart, e.pollEnd, e.scrapeFrom, e.scrapeUntil} \subseteq Nat
  /\ {MaxStart, MaxLoad, StartBy, MaxCrashes} \subseteq Nat

VARIABLES
  env,         \* what the container's env_file says
  proc,        \* "down", "starting" (config read, loops not yet), "up"
  loadedAt,    \* when LoadConfig ran
  schedule,    \* config.Schedule
  pc, timer,   \* per loop: where it is, and since when or until when
  readyAt,     \* history: when start-up was over
  polled,      \* history: the loops that polled in this process
  crashes

vars == <<now, env, proc, loadedAt, schedule, pc, timer, readyAt, polled, crashes>>

Schedule(startAt, stopAt) == [startAt |-> startAt, stopAt |-> stopAt]

ResolveSchedule_RelativeOnly(at, e) ==
  LET startAt == Max({at + e.pollStart, e.scrapeFrom})
      ends == { startAt + d : d \in {e.pollEnd} \ {0} }
  IN  Schedule(startAt, IF ends = {} THEN Zero ELSE Min(ends \cup ({e.scrapeUntil} \ {Zero})))

\* The later of the two starts and the earlier of the two ends; zero when
\* neither end is given.
ResolveSchedule(at, e) ==
  LET startAt == Max({at + e.pollStart, e.scrapeFrom})
      ends == { startAt + d : d \in {e.pollEnd} \ {0} } \cup ({e.scrapeUntil} \ {Zero})
  IN  Schedule(startAt, IF ends = {} THEN Zero ELSE Min(ends))

Valid(e) == Zero \in {e.scrapeFrom, e.scrapeUntil} \/ e.scrapeUntil >= e.scrapeFrom

Closed_Always(t) == schedule.stopAt <= t

\* The window has an end and t is not before it.
Closed(t) == schedule.stopAt # Zero /\ schedule.stopAt <= t

-----------------------------------------------------------------------------
LoadConfig ==
  /\ proc = "down" /\ Valid(env) /\ now <= StartBy
  /\ proc' = "starting" /\ loadedAt' = now
  /\ schedule' = ResolveSchedule(now, env)
  /\ pc' = [l \in Loop |-> "off"] /\ polled' = {}
  /\ UNCHANGED <<now, env, timer, readyAt, crashes>>

\* Database, migrations, seed and pings are done (module ScraperProcess).
StartLoops ==
  /\ proc = "starting"
  /\ proc' = "up" /\ readyAt' = now
  /\ pc' = [l \in Loop |-> "waiting"]
  /\ UNCHANGED <<now, env, loadedAt, schedule, timer, polled, crashes>>

\* The wait for StartAt is over, or there is nothing to wait for.
Open(l) ==
  /\ pc[l] = "waiting" /\ now >= schedule.startAt
  /\ pc' = [pc EXCEPT ![l] = IF Closed(now) THEN "ended" ELSE "loading"]
  /\ timer' = [timer EXCEPT ![l] = now]
  /\ UNCHANGED <<now, env, proc, loadedAt, schedule, readyAt, polled, crashes>>

BeginPoll(l) ==
  /\ pc[l] = "loading" \/ (pc[l] = "sleeping" /\ now >= timer[l])
  /\ pc' = [pc EXCEPT ![l] = "polling"]
  /\ timer' = [timer EXCEPT ![l] = now]
  /\ polled' = polled \cup {l}
  /\ UNCHANGED <<now, env, proc, loadedAt, schedule, readyAt, crashes>>

SleepOrEnd_ChecksNow(l, delay) == IF Closed(now) THEN "ended" ELSE "sleeping"

\* A loop does not go to sleep when it would wake outside the window.
SleepOrEnd(l, delay) == IF Closed(now + delay) THEN "ended" ELSE "sleeping"

EndPoll(l) ==
  /\ pc[l] = "polling"
  /\ \E delay \in PollWindow[l]..(PollWindow[l] + Jitter[l]) :
       /\ pc' = [pc EXCEPT ![l] = SleepOrEnd(l, delay)]
       /\ timer' = [timer EXCEPT ![l] = now + delay]
  /\ UNCHANGED <<now, env, proc, loadedAt, schedule, readyAt, polled, crashes>>

\* group.Wait returns nil: the process exits with status 0.
Exit ==
  /\ proc = "up" /\ \A l \in Loop : pc[l] = "ended"
  /\ proc' = "down"
  /\ UNCHANGED <<now, env, loadedAt, schedule, pc, timer, readyAt, polled, crashes>>

\* The process dies or is told to stop.
Crash ==
  /\ proc # "down" /\ crashes < MaxCrashes
  /\ proc' = "down" /\ pc' = [l \in Loop |-> "off"]
  /\ crashes' = crashes + 1
  /\ UNCHANGED <<now, env, loadedAt, schedule, timer, readyAt, polled>>

\* What must happen before the clock moves on.
Urgent ==
  \/ proc = "starting" /\ now >= loadedAt + MaxStart
  \/ proc = "up" /\ \A l \in Loop : pc[l] = "ended"
  \/ \E l \in Loop :
       \/ pc[l] = "waiting" /\ now >= schedule.startAt
       \/ pc[l] = "loading" /\ now >= timer[l] + MaxLoad
       \/ pc[l] = "polling" /\ now >= timer[l] + MaxPoll
       \/ pc[l] = "sleeping" /\ now >= timer[l]

Tick ==
  /\ now < MaxTime /\ ~Urgent
  /\ now' = now + 1
  /\ UNCHANGED <<env, proc, loadedAt, schedule, pc, timer, readyAt, polled, crashes>>

Init ==
  /\ now = 1 /\ env \in Envs
  /\ proc = "down" /\ loadedAt = Zero /\ schedule = Schedule(Zero, Zero)
  /\ pc = [l \in Loop |-> "off"] /\ timer = [l \in Loop |-> Zero]
  /\ readyAt = Zero /\ polled = {} /\ crashes = 0

LoopStep(l) == Open(l) \/ BeginPoll(l) \/ EndPoll(l)

Next ==
  \/ LoadConfig \/ StartLoops \/ Exit \/ Crash \/ Tick
  \/ \E l \in Loop : LoopStep(l)

Spec == Init /\ [][Next]_vars

\* Time passes and the goroutines run; nothing forces a crash or a restart.
FairSpec ==
  /\ Spec
  /\ WF_vars(Tick) /\ WF_vars(StartLoops) /\ WF_vars(Exit)
  /\ \A l \in Loop : WF_vars(LoopStep(l))

-----------------------------------------------------------------------------
Begins(l) == pc[l] # "polling" /\ pc'[l] = "polling"

\* Every pass begins within what the environment asks for, whichever of the
\* relative and the absolute bounds is the tighter one. Only the first pass may
\* begin late, because Run checks the end before it loads the regions' state
\* (scraper.go:47-64, tsm_scraper.go:76-90): then the check was in time.
InBounds(l) ==
  LET start == Max({loadedAt + env.pollStart, env.scrapeFrom})
      at == IF pc[l] = "loading" THEN timer[l] ELSE now
  IN  /\ now >= start
      /\ env.scrapeUntil # Zero => at < env.scrapeUntil
      /\ env.pollEnd > 0 => at < start + env.pollEnd

PollsInBounds == [][\A l \in Loop : Begins(l) => InBounds(l)]_vars

\* A loop ends by itself only in a bounded window, and not before it has polled
\* at least once, unless the window was empty or had passed during start-up
\* (scraper.go:47-50, 69-72; tsm_scraper.go:79-81, 111-113).
WindowUsed ==
  \A l \in Loop : pc[l] = "ended" =>
    /\ schedule.stopAt # Zero
    /\ l \in polled \/ schedule.stopAt <= readyAt \/ schedule.stopAt <= schedule.startAt

\* In a bounded window every process comes to its end: neither loop sleeps or
\* waits beyond it (main.go:115-118).
WindowCloses ==
  env.pollEnd > 0 \/ env.scrapeUntil # Zero => (proc = "up" ~> proc = "down")

=============================================================================
