---------------------------- MODULE ScraperProcess ----------------------------
(***************************************************************************)
(* cmd/scraper/main.go: the start-up sequence, the errgroup that joins the *)
(* Blizzard loop and the TSM loops under one context, signals, and the     *)
(* container that starts the process again.  The loops appear by where     *)
(* they wait and how they return; their polls are modules BlizzardPoll and *)
(* TSMPoll, their windows module PollSchedule, the seed module SeedStages. *)
(***************************************************************************)
EXTENDS Naturals, FiniteSets

CONSTANTS
  Region,     \* config.Regions, the TSM clients' too
  Blizzard,   \* the name of the Blizzard loop
  Attempts,   \* how often the database is tried (30)
  MaxSignals, \* bound of SIGINT and SIGTERM
  MaxFaults   \* bound of failed calls and crashes

ASSUME ProcessAssumption ==
  /\ Blizzard \notin Region /\ IsFiniteSet(Region)
  /\ Attempts \in Nat \ {0}
  /\ MaxSignals \in Nat /\ MaxFaults \in Nat

Loop == Region \cup {Blizzard}

VARIABLES
  bounded,   \* whether the polling window has an end
  phase,     \* where run is
  attempt,   \* the attempt to reach the database under way
  ctx,       \* whether the signal context is done
  groupCtx,  \* whether groupCtx is done
  loop,      \* where each loop's goroutine is
  pinged,    \* the regions whose endpoints have answered
  status,    \* the exit status: "running", "ok" (0) or "error" (1, or killed)
  failed,    \* history: something run depends on has failed in this process
  late,      \* history: the polls each loop began after groupCtx was done,
             \* counted up to 2
  signals, faults

vars == <<bounded, phase, attempt, ctx, groupCtx, loop, pinged, status, failed, late,
          signals, faults>>
quiet == <<bounded, signals>>   \* what the process itself never changes

-----------------------------------------------------------------------------
\* run returns an error and main exits with status 1.
ExitWithError ==
  /\ phase' = "exited" /\ status' = "error"
  /\ UNCHANGED <<attempt, ctx, groupCtx, loop, pinged, late>>

\* A step of start-up fails; under a context that is done it must.
Fails == /\ failed' = TRUE
         /\ IF ctx THEN UNCHANGED faults ELSE faults < MaxFaults /\ faults' = faults + 1

LastAttempt == attempt = Attempts

Connect ==
  /\ phase = "connect" /\ ~ctx
  /\ phase' = "migrate"
  /\ UNCHANGED <<attempt, ctx, groupCtx, loop, pinged, status, failed, late, faults, quiet>>

\* The pool cannot be opened or pinged: try again after two seconds.
ConnectRetried ==
  /\ phase = "connect" /\ ~LastAttempt /\ ~ctx /\ faults < MaxFaults
  /\ attempt' = attempt + 1 /\ faults' = faults + 1
  /\ UNCHANGED <<phase, ctx, groupCtx, loop, pinged, status, failed, late, quiet>>

ConnectFails ==
  /\ phase = "connect" /\ (ctx \/ LastAttempt)
  /\ Fails /\ ExitWithError /\ UNCHANGED quiet

Migrate ==
  /\ phase = "migrate" /\ ~ctx
  /\ phase' = "seed"
  /\ UNCHANGED <<attempt, ctx, groupCtx, loop, pinged, status, failed, late, faults, quiet>>

Seed ==
  /\ phase = "seed" /\ ~ctx
  /\ phase' = "ping"
  /\ UNCHANGED <<attempt, ctx, groupCtx, loop, pinged, status, failed, late, faults, quiet>>

Ping(r) ==
  /\ phase = "ping" /\ r \notin pinged /\ ~ctx
  /\ pinged' = pinged \cup {r}
  /\ UNCHANGED <<phase, attempt, ctx, groupCtx, loop, status, failed, late, faults, quiet>>

\* Migrate, the seeder or a ping returns an error.
StartUpFails ==
  /\ phase \in {"migrate", "seed", "ping"}
  /\ Fails /\ ExitWithError /\ UNCHANGED quiet

\* errgroup.WithContext, and one goroutine for each of the loops; the TSM loop
\* is one goroutine per region.
StartLoops ==
  /\ phase = "ping" /\ pinged = Region
  /\ phase' = "run" /\ groupCtx' = ctx
  /\ loop' = [l \in Loop |-> "waiting"]
  /\ UNCHANGED <<attempt, ctx, pinged, status, failed, late, faults, quiet>>

-----------------------------------------------------------------------------
LoopGoesTo(l, place) ==
  /\ loop' = [loop EXCEPT ![l] = place]
  /\ UNCHANGED <<phase, attempt, ctx, pinged, status, quiet>>

\* The window opens, is over already, or the wait is cut off.
Open(l) ==
  /\ loop[l] = "waiting"
  /\ \/ LoopGoesTo(l, "loading")
     \/ (bounded \/ groupCtx) /\ LoopGoesTo(l, "returned")
  /\ UNCHANGED <<groupCtx, failed, late, faults>>

Polls(l) ==
  /\ LoopGoesTo(l, "polling")
  /\ late' = [late EXCEPT ![l] = IF groupCtx /\ @ < 2 THEN @ + 1 ELSE @]
  /\ UNCHANGED <<groupCtx, failed, faults>>

Load(l) == loop[l] = "loading" /\ ~groupCtx /\ Polls(l)

FailureOf_Contained(l) ==
  /\ LoopGoesTo(l, "returned")
  /\ failed' = (failed \/ l = Blizzard) /\ UNCHANGED groupCtx

\* Run returns the error, which cancels the group and, through it, the TSM
\* loops; runRegion logs it and returns.
FailureOf(l) ==
  IF l = Blizzard THEN LoopGoesTo(l, "failed") /\ groupCtx' = TRUE /\ failed' = TRUE
                  ELSE LoopGoesTo(l, "returned") /\ UNCHANGED <<groupCtx, failed>>

\* A region's state cannot be read.
LoadFails(l) ==
  /\ loop[l] = "loading"
  /\ FailureOf(l)
  /\ IF groupCtx THEN UNCHANGED faults ELSE faults < MaxFaults /\ faults' = faults + 1
  /\ UNCHANGED late

AfterPoll_Ignored(l) == {"sleeping", "returned"}

\* Where a loop goes when it has polled. The TSM loop looks at the context in
\* some outcomes only, but the wait that follows returns at once on one that is
\* done, for its timer has only just been started.
AfterPoll(l) == IF groupCtx THEN {"returned"}
                ELSE IF bounded THEN {"sleeping", "returned"} ELSE {"sleeping"}

EndPoll(l) ==
  /\ loop[l] = "polling"
  /\ \E place \in AfterPoll(l) : LoopGoesTo(l, place)
  /\ UNCHANGED <<groupCtx, failed, late, faults>>

\* The timer fires. When the context is done as well, select takes either.
Wake(l) == loop[l] = "sleeping" /\ Polls(l)

WakeCancelled(l) ==
  /\ loop[l] = "sleeping" /\ groupCtx
  /\ LoopGoesTo(l, "returned")
  /\ UNCHANGED <<groupCtx, failed, late, faults>>

\* TSMScraper.Run waits for its regions and returns nil; group.Wait then has
\* the first error, if any.
Wait ==
  /\ phase = "run" /\ \A l \in Loop : loop[l] \in {"returned", "failed"}
  /\ phase' = "exited"
  /\ status' = IF loop[Blizzard] = "failed" THEN "error" ELSE "ok"
  /\ UNCHANGED <<attempt, ctx, groupCtx, loop, pinged, failed, late, faults, quiet>>

-----------------------------------------------------------------------------
\* SIGINT or SIGTERM: docker stop.
Signal ==
  /\ phase # "exited" /\ ~ctx /\ signals < MaxSignals
  /\ signals' = signals + 1
  /\ ctx' = TRUE /\ groupCtx' = (phase = "run" \/ groupCtx)
  /\ UNCHANGED <<bounded, phase, attempt, loop, pinged, status, failed, late, faults>>

Crash ==
  /\ phase # "exited" /\ faults < MaxFaults
  /\ faults' = faults + 1 /\ failed' = TRUE
  /\ loop' = [l \in Loop |-> "off"]
  /\ phase' = "exited" /\ status' = "error"
  /\ UNCHANGED <<attempt, ctx, groupCtx, pinged, late, quiet>>

\* restart: unless-stopped, whatever the exit status; after a docker stop
\* somebody may start the container again.
Restart ==
  /\ phase = "exited"
  /\ phase' = "connect" /\ attempt' = 1
  /\ ctx' = FALSE /\ groupCtx' = FALSE
  /\ loop' = [l \in Loop |-> "off"] /\ pinged' = {}
  /\ status' = "running" /\ failed' = FALSE
  /\ late' = [l \in Loop |-> 0]
  /\ UNCHANGED <<faults, quiet>>

Init ==
  /\ bounded \in BOOLEAN
  /\ phase = "connect" /\ attempt = 1
  /\ ctx = FALSE /\ groupCtx = FALSE
  /\ loop = [l \in Loop |-> "off"] /\ pinged = {}
  /\ status = "running" /\ failed = FALSE
  /\ late = [l \in Loop |-> 0] /\ signals = 0 /\ faults = 0

StartUp == \/ Connect \/ ConnectRetried \/ ConnectFails \/ Migrate \/ Seed
           \/ (\E r \in Region : Ping(r)) \/ StartUpFails \/ StartLoops
LoopStep(l) == Open(l) \/ Load(l) \/ LoadFails(l) \/ EndPoll(l) \/ Wake(l) \/ WakeCancelled(l)

Next == \/ StartUp \/ Wait \/ Signal \/ Crash \/ Restart
        \/ \E l \in Loop : LoopStep(l)

Spec == Init /\ [][Next]_vars

\* The process runs, its calls return and timers fire; the container engine
\* restarts what was not stopped.
FairSpec ==
  /\ Spec
  /\ WF_vars(StartUp) /\ WF_vars(Wait)
  /\ \A l \in Loop : WF_vars(LoopStep(l))
  /\ WF_vars(Restart /\ ~ctx)

-----------------------------------------------------------------------------
\* Exit status 0 means that nothing the process depends on has failed: the only
\* loop error reaches group.Wait although the TSM loops return nil, and while
\* they are still running (main.go:115-118).
SuccessIsHonest == status = "ok" => ~failed

\* Once the group's context is done, a loop begins at most one more poll: select
\* may take the timer, but what follows ends the loop (scraper.go:64-80,
\* tsm_scraper.go:96-116).
AtMostOneLatePoll == \A l \in Loop : late[l] <= 1

\* A signal, or the failure of the Blizzard loop alone, ends the whole process,
\* wherever the other goroutines are (main.go:43, 115-118).
EndsWhenTold == ctx \/ groupCtx ~> phase = "exited"

\* Whatever happens to a process that nobody stops, polling begins in the end,
\* if need be in a later process (main.go:46-72, compose.yaml:28); only a
\* polling window that is over prevents it.
PollsInTheEnd ==
  phase = "exited" /\ ~ctx ~> loop[Blizzard] = "polling" \/ ctx \/ bounded
=============================================================================
