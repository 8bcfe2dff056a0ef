------------------------------ MODULE Staleness -------------------------------
(***************************************************************************)
(* The stale-data warnings of one region: warnIfStale (scraper.go), which  *)
(* ages the time at which the process last saw a change and runs only      *)
(* after an unchanged poll, and warnIfTSMStale (tsm_scraper.go), which     *)
(* ages the source timestamp of the stored file and runs after every poll  *)
(* that is not cut off.  Which of the two loops is meant is feed.          *)
(*                                                                         *)
(* What is published is known by its publication time, and so is what the  *)
(* scraper has of it.                                                      *)
(*                                                                         *)
(* A name begins with region where PollSchedule has it without, so that a  *)
(* module may extend both.                                                 *)
(***************************************************************************)
EXTENDS PollClock

CONSTANTS
  StaleAfter,   \* [Feed -> staleWarnAfter, tsmStaleAfter]
  Backoff,      \* [Feed -> staleWarnBackoff, tsmStaleBackoff]
  Interval,     \* the poll window
  FeedJitter,   \* [Feed -> the largest addition to it]
  MaxVersions,  \* bound of what is published after the first version
  MaxFaults     \* bound of failed polls and crashes

Feed == {"blizzard", "tsm"}

ASSUME StalenessAssumption ==
  /\ StaleAfter \in [Feed -> Nat \ {0}] /\ Backoff \in [Feed -> Nat \ {0}]
  /\ FeedJitter \in [Feed -> Nat] /\ Interval \in Nat \ {0}
  /\ {MaxVersions, MaxFaults} \subseteq Nat

VARIABLES
  feed,       \* the loop
  published,  \* when the newest upstream version was published
  versions,   \* how many have been published after the first
  stored,     \* the version the database holds; 0 for none
  state,      \* regionState, tsmState: have is the version known, since what
              \* is aged, warnedAt is lastWarnAt
  regionPc, regionTimer,  \* "down", "polling" since or "sleeping" until
  started,    \* history: when the process started
  changedAt,  \* history: when a version was last stored
  faults

regionVars == <<feed, now, published, versions, stored, state, regionPc, regionTimer, started, changedAt, faults>>

Gap == Interval + FeedJitter[feed] + MaxPoll   \* the longest time between two polls' ends

ToSleep == /\ regionPc' = "sleeping"
           /\ \E d \in Interval..(Interval + FeedJitter[feed]) : regionTimer' = now + d

Quiet(s) == now - s.since < StaleAfter[feed] \/ (s.warnedAt # Zero /\ now - s.warnedAt < Backoff[feed])

\* warnIfStale and warnIfTSMStale: a zero source timestamp never warns, and a
\* zero lastChange does not occur.
WarnIfStale(s) == IF s.since = Zero \/ Quiet(s) THEN s ELSE [s EXCEPT !.warnedAt = now]

AfterPoll_OnlyUnchanged(outcome, s) == IF outcome = "unchanged" THEN WarnIfStale(s) ELSE s

\* Which polls end with the check.
AfterPoll(outcome, s) ==
  IF feed = "tsm" \/ outcome = "unchanged" THEN WarnIfStale(s) ELSE s

Since_KeepsFirst(version) == state.since

\* What is aged once a version has been stored.
Since(version) == IF feed = "tsm" THEN version ELSE now

LastWarnAt_Kept == state.warnedAt

\* A stored change makes the Blizzard loop forget its warnings.
LastWarnAt == IF feed = "blizzard" THEN Zero ELSE state.warnedAt

\* What is fetched can be stored: it is newer than what memory knows, and the
\* primary key of the TSM rows refuses a file that is there already.
Storable == published > state.have /\ (feed = "tsm" => published # stored)

Commits == Storable /\ stored' = published /\ changedAt' = now

-----------------------------------------------------------------------------
\* Start-up loads the region's state and polls at once; warnings are forgotten.
Start ==
  /\ regionPc = "down"
  /\ state' = [have |-> stored, since |-> IF feed = "tsm" THEN stored ELSE now, warnedAt |-> Zero]
  /\ regionPc' = "polling" /\ regionTimer' = now /\ started' = now
  /\ UNCHANGED <<feed, now, published, versions, stored, changedAt, faults>>

PollChanged ==
  /\ regionPc = "polling" /\ Commits
  /\ state' = AfterPoll("changed", [have |-> published, since |-> Since(published), warnedAt |-> LastWarnAt])
  /\ ToSleep
  /\ UNCHANGED <<feed, now, published, versions, started, faults>>

PollUnchanged ==
  /\ regionPc = "polling" /\ published = state.have
  /\ state' = AfterPoll("unchanged", state)
  /\ ToSleep
  /\ UNCHANGED <<feed, now, published, versions, stored, started, changedAt, faults>>

\* A poll fails; the commit may have been applied and only its answer lost.
PollFails ==
  /\ regionPc = "polling" /\ faults < MaxFaults
  /\ faults' = faults + 1
  /\ Commits \/ UNCHANGED <<stored, changedAt>>
  /\ state' = AfterPoll("failed", state)
  /\ ToSleep
  /\ UNCHANGED <<feed, now, published, versions, started>>

\* After a lost answer the same TSM file is fetched again, and refused.
PollRefused ==
  /\ regionPc = "polling" /\ published > state.have /\ ~Storable
  /\ state' = AfterPoll("failed", state)
  /\ ToSleep
  /\ UNCHANGED <<feed, now, published, versions, stored, started, changedAt, faults>>

Wake ==
  /\ regionPc = "sleeping" /\ now >= regionTimer
  /\ regionPc' = "polling" /\ regionTimer' = now
  /\ UNCHANGED <<feed, now, published, versions, stored, state, started, changedAt, faults>>

\* The process dies or is stopped, in a poll perhaps once the commit is applied.
RegionCrash ==
  /\ regionPc # "down" /\ faults < MaxFaults
  /\ regionPc' = "down" /\ faults' = faults + 1
  /\ (regionPc = "polling" /\ Commits) \/ UNCHANGED <<stored, changedAt>>
  /\ UNCHANGED <<feed, now, published, versions, state, regionTimer, started>>

\* Something newer is published, perhaps under a timestamp of some time ago.
Publish ==
  /\ versions < MaxVersions
  /\ versions' = versions + 1
  /\ \E t \in (published + 1)..now : published' = t
  /\ UNCHANGED <<feed, now, stored, state, regionPc, regionTimer, started, changedAt, faults>>

\* Timers fire when they are due, and a poll ends within MaxPoll.
RegionTick ==
  /\ now < MaxTime
  /\ regionPc = "sleeping" => now < regionTimer
  /\ regionPc = "polling" => now < regionTimer + MaxPoll
  /\ now' = now + 1
  /\ UNCHANGED <<feed, published, versions, stored, state, regionPc, regionTimer, started, changedAt, faults>>

RegionInit ==
  /\ feed \in Feed
  /\ now = 1 /\ published = 1 /\ versions = 0 /\ stored = Zero
  /\ state = [have |-> Zero, since |-> Zero, warnedAt |-> Zero]
  /\ regionPc = "down" /\ regionTimer = Zero /\ started = Zero /\ changedAt = Zero /\ faults = 0

RegionNext ==
  \/ Start \/ PollChanged \/ PollUnchanged \/ PollFails \/ PollRefused \/ Wake \/ RegionCrash
  \/ Publish \/ RegionTick

RegionSpec == RegionInit /\ [][RegionNext]_regionVars

-----------------------------------------------------------------------------
Warns == state'.warnedAt # state.warnedAt /\ state'.warnedAt # Zero

StoredAge == now - (IF feed = "tsm" THEN stored ELSE changedAt)

\* A Blizzard warning is never false: nothing has been stored for StaleAfter,
\* lost answers of commits included (scraper.go:134-140). Nor is a TSM warning,
\* what is stored was published that long ago, whatever was stored in the poll
\* that warns or since the last one, unless the answer to the commit of the
\* newest file was lost: then it speaks of the file before, the last that
\* memory knows (tsm_scraper.go:95-108, 231-233).
WarningsTrue ==
  [][Warns => StoredAge' >= StaleAfter[feed] \/ (feed = "tsm" /\ state'.have < stored')]_regionVars

\* An unchanged Blizzard poll that finds StaleAfter passed since the last change
\* leaves a warning about this silence that is younger than Backoff: a warning
\* about an earlier silence does not hold it back (scraper.go:135-141, 198-205).
SilenceWarned ==
  [][PollUnchanged /\ feed = "blizzard" /\ now - state.since >= StaleAfter[feed]
       => state'.warnedAt >= state.since + StaleAfter[feed] /\ now - state'.warnedAt < Backoff[feed]]_regionVars

\* While a process runs, TSM data older than StaleAfter is warned about at
\* least every Backoff, give or take the time between two polls, whatever the
\* polls come to (tsm_scraper.go:95-108).
OldDataWarned ==
  /\ feed = "tsm" /\ regionPc # "down" /\ now - started > Gap
  /\ state.since # Zero /\ now - state.since > StaleAfter[feed] + Gap
  => state.warnedAt # Zero /\ now - state.warnedAt <= Backoff[feed] + Gap

=============================================================================
