------------------------------ MODULE RecipeSeed ------------------------------
(***************************************************************************)
(* The last seed stage of internal/scraper/recipes_seed.go with the part   *)
(* of Seeder.Run around it: a feeder goroutine hands recipe jobs over an   *)
(* unbuffered channel to a pool of workers, the workers put what they      *)
(* fetch, or the error that ends them, into a bounded results channel, and *)
(* the calling goroutine commits the recipes in batches, marks the stage   *)
(* completed, or unwinds and records the error.                            *)
(*                                                                         *)
(* Abstractions.  The listing pass that yields the jobs is one step and    *)
(* lists the same jobs in every run.  A batch is stored by one transaction *)
(* of idempotent upserts, so its rows are the set of its jobs.  A          *)
(* statement on a context that is already done fails without reaching the  *)
(* database: pgxpool refuses the connection.                               *)
(***************************************************************************)
EXTENDS Integers, Sequences, FiniteSets

CONSTANTS
  Worker,     \* the goroutines of the pool
  Jobs,       \* how many recipes the listing yields
  BatchSize,  \* recipeSeedBatchSize: the batch and the results channel
  MaxFaults   \* bound: failures, crashes and cancellations

ASSUME ConstantsAssumption ==
  /\ IsFiniteSet(Worker) /\ Worker # {}
  /\ Jobs \in Nat
  /\ BatchSize \in Nat \ {0}
  /\ MaxFaults \in Nat

Job == 1..Jobs
Error == 0                       \* a recipeFetchResult that carries an error
Names == {"recipes", "reagents"} \* the seeder_status rows of the stage

VARIABLES
  recipes,   \* jobs whose rows are in the database
  status,    \* the stage's seeder_status rows that say completed
  pc,        \* where the calling goroutine is
  batch,     \* the records it has not stored yet
  fetchErr,  \* it has seen an error among the results
  next,      \* the job the feeder offers
  feeding,   \* the feeder runs; when it returns jobsCh is closed
  worker,    \* worker[w]: what worker w does, for which job
  results,   \* the results channel
  closed,    \* results is closed
  gdone,     \* gctx, the context of feeder and workers, is done
  cancelled, \* ctx, the context of the process, is done
  faults     \* how much of the failure bound is used

database == <<recipes, status>>
pool == <<next, feeding, worker>>
caller == <<pc, batch, fetchErr>>
vars == <<database, caller, pool, results, closed, gdone, cancelled, faults>>

Nobody == [w \in Worker |-> [at |-> "returned", job |-> Error]]

MayFail == cancelled \/ faults < MaxFaults

CountFault == faults' = IF cancelled THEN faults ELSE faults + 1

GroupDone == gdone \/ cancelled

\* Mutant: the database is used on a context that cannot be cancelled.
Reachable_Detached == TRUE

Reachable == ~cancelled

\* A write that is not known to have succeeded: applied or not.
Attempt(table, rows) == IF Reachable THEN {table, table \cup rows} ELSE {table}

Become(w, at, job) == worker' = [worker EXCEPT ![w] = [at |-> at, job |-> job]]

-----------------------------------------------------------------------------
(* Feeder and workers *)

\* jobsCh is unbuffered: the feeder's send is a worker's receive.
HandOver(w) ==
  /\ feeding /\ next <= Jobs
  /\ worker[w].at = "receive"
  /\ Become(w, "fetch", next)
  /\ next' = next + 1
  /\ UNCHANGED <<database, caller, feeding, results, closed, gdone, cancelled, faults>>

FeederEnds ==
  /\ feeding /\ next > Jobs
  /\ feeding' = FALSE
  /\ UNCHANGED <<database, caller, next, worker, results, closed, gdone, cancelled, faults>>

\* Mutant: a feeder that only ever sends.
FeederStops_Never == FALSE

FeederStops ==
  /\ feeding /\ GroupDone
  /\ feeding' = FALSE
  /\ UNCHANGED <<database, caller, next, worker, results, closed, gdone, cancelled, faults>>

WorkerEnds(w) ==
  /\ worker[w].at = "receive" /\ ~feeding
  /\ Become(w, "returned", Error)
  /\ UNCHANGED <<database, caller, next, feeding, results, closed, gdone, cancelled, faults>>

Fetch(w) ==
  /\ worker[w].at = "fetch"
  /\ Become(w, "put", worker[w].job)
  /\ UNCHANGED <<database, caller, next, feeding, results, closed, gdone, cancelled, faults>>

FetchFails(w) ==
  /\ worker[w].at = "fetch"
  /\ GroupDone \/ faults < MaxFaults
  /\ faults' = IF GroupDone THEN faults ELSE faults + 1
  /\ Become(w, "put", Error)
  /\ UNCHANGED <<database, caller, next, feeding, results, closed, gdone, cancelled>>

Room == Len(results) < BatchSize

\* The send, which waits for room in the channel.
Put(w) ==
  /\ worker[w].at = "put"
  /\ Room
  /\ results' = Append(results, worker[w].job)
  /\ IF worker[w].job = Error THEN Become(w, "return", Error) ELSE Become(w, "receive", Error)
  /\ UNCHANGED <<database, caller, next, feeding, closed, gdone, cancelled, faults>>

\* Mutant: a send that does not wait.
Abandons_NoRoom == TRUE

\* When the select around a send may take its other case.
Abandons == GroupDone

\* A record or an error is dropped.
PutAbandoned(w) ==
  /\ worker[w].at = "put" /\ Abandons
  /\ Become(w, "return", Error)
  /\ UNCHANGED <<database, caller, next, feeding, results, closed, gdone, cancelled, faults>>

\* An error returned to the errgroup cancels gctx.
ReturnError(w) ==
  /\ worker[w].at = "return"
  /\ Become(w, "returned", Error)
  /\ gdone' = TRUE
  /\ UNCHANGED <<database, caller, next, feeding, results, closed, cancelled, faults>>

\* The goroutine that waits for the group.
CloseResults ==
  /\ ~closed /\ ~feeding
  /\ \A w \in Worker : worker[w].at = "returned"
  /\ closed' = TRUE
  /\ UNCHANGED <<database, caller, pool, results, gdone, cancelled, faults>>

-----------------------------------------------------------------------------
(* The calling goroutine *)

\* Every error return of the stage: its deferred cancel, then recordError.
Unwind ==
  /\ pc' = "record"
  /\ gdone' = TRUE

\* Seeder.allCompleted; a completed stage is skipped.
CheckStatus ==
  /\ pc = "check" /\ ~cancelled
  /\ pc' = IF status = Names THEN "polling" ELSE "list"
  /\ UNCHANGED <<database, batch, fetchErr, pool, results, closed, gdone, cancelled, faults>>

\* Listing, hierarchy and the start of the goroutines.
StartPool ==
  /\ pc = "list" /\ ~cancelled
  /\ pc' = "range"
  /\ next' = 1
  /\ feeding' = TRUE
  /\ worker' = [w \in Worker |-> [at |-> "receive", job |-> Error]]
  /\ closed' = FALSE
  /\ gdone' = FALSE
  /\ UNCHANGED <<database, batch, fetchErr, results, cancelled, faults>>

TakeResult ==
  /\ pc = "range" /\ results # <<>>
  /\ results' = Tail(results)
  /\ LET result == Head(results) IN
       IF result = Error \/ fetchErr
       THEN fetchErr' = TRUE /\ UNCHANGED <<pc, batch>>
       ELSE /\ batch' = batch \cup {result}
            /\ pc' = IF Cardinality(batch') = BatchSize THEN "flush" ELSE "range"
            /\ UNCHANGED fetchErr
  /\ UNCHANGED <<database, pool, closed, gdone, cancelled, faults>>

RangeEnds ==
  /\ pc = "range" /\ results = <<>> /\ closed
  /\ IF fetchErr THEN Unwind
     ELSE /\ pc' = IF batch = {} THEN "markRecipes" ELSE "lastFlush"
          /\ UNCHANGED gdone
  /\ UNCHANGED <<database, batch, fetchErr, pool, results, closed, cancelled, faults>>

\* flush: storeRecipeBatch in one transaction.
Flush ==
  /\ pc \in {"flush", "lastFlush"} /\ Reachable
  /\ recipes' = recipes \cup batch
  /\ batch' = {}
  /\ pc' = IF pc = "flush" THEN "range" ELSE "markRecipes"
  /\ UNCHANGED <<status, fetchErr, pool, results, closed, gdone, cancelled, faults>>

\* Mutant: a failed flush is logged and the next batch begun.
FlushFails_Continues ==
  /\ pc \in {"flush", "lastFlush"}
  /\ MayFail
  /\ CountFault
  /\ batch' = {}
  /\ pc' = IF pc = "flush" THEN "range" ELSE "markRecipes"
  /\ UNCHANGED <<database, fetchErr, pool, results, closed, gdone, cancelled>>

\* Unless the context was done before it began, the transaction may have been
\* applied all the same.
FlushFails ==
  /\ pc \in {"flush", "lastFlush"}
  /\ MayFail
  /\ CountFault
  /\ recipes' \in Attempt(recipes, batch)
  /\ Unwind
  /\ UNCHANGED <<status, batch, fetchErr, pool, results, closed, cancelled>>

Marking == CASE pc = "markRecipes" -> "recipes" [] pc = "markReagents" -> "reagents"

MarkCompleted ==
  /\ pc \in {"markRecipes", "markReagents"} /\ Reachable
  /\ status' = status \cup {Marking}
  /\ pc' = IF pc = "markRecipes" THEN "markReagents" ELSE "polling"
  /\ UNCHANGED <<recipes, batch, fetchErr, pool, results, closed, gdone, cancelled, faults>>

MarkFails ==
  /\ pc \in {"markRecipes", "markReagents"}
  /\ MayFail
  /\ CountFault
  /\ status' \in Attempt(status, {Marking})
  /\ Unwind
  /\ UNCHANGED <<recipes, batch, fetchErr, pool, results, closed, cancelled>>

\* The status check or the listing pass fails.
ListFails ==
  /\ pc \in {"check", "list"}
  /\ MayFail
  /\ CountFault
  /\ IF pc = "check" THEN pc' = "exit" /\ UNCHANGED gdone ELSE Unwind
  /\ UNCHANGED <<database, batch, fetchErr, pool, results, closed, cancelled>>

\* recordError for each name; a failure of its own is only logged.
RecordErrors ==
  /\ pc = "record"
  /\ \E recorded \in SUBSET Names :
       /\ IF cancelled THEN recorded = {} ELSE recorded = Names \/ faults < MaxFaults
       /\ faults' = IF recorded = Names \/ cancelled THEN faults ELSE faults + 1
       /\ status' = status \ recorded
  /\ pc' = "exit"
  /\ UNCHANGED <<recipes, batch, fetchErr, pool, results, closed, gdone, cancelled>>

-----------------------------------------------------------------------------
(* The process *)

Cancel ==
  /\ pc \notin {"exit", "polling"}
  /\ ~cancelled /\ faults < MaxFaults
  /\ cancelled' = TRUE
  /\ faults' = faults + 1
  /\ UNCHANGED <<database, caller, pool, results, closed, gdone>>

Crash ==
  /\ pc \notin {"exit", "polling"}
  /\ faults < MaxFaults
  /\ faults' = faults + 1
  /\ pc' = "exit"
  /\ recipes' \in Attempt(recipes, IF pc \in {"flush", "lastFlush"} THEN batch ELSE {})
  /\ status' \in Attempt(status, IF pc \in {"markRecipes", "markReagents"} THEN {Marking} ELSE {})
  /\ UNCHANGED <<batch, fetchErr, pool, results, closed, gdone, cancelled>>

\* The process is gone with all its goroutines; a new one seeds again.
Restart ==
  /\ pc \in {"exit", "polling"}
  /\ pc' = "check"
  /\ batch' = {}
  /\ fetchErr' = FALSE
  /\ next' = 1
  /\ feeding' = FALSE
  /\ worker' = Nobody
  /\ results' = <<>>
  /\ closed' = FALSE
  /\ gdone' = FALSE
  /\ cancelled' = FALSE
  /\ UNCHANGED <<database, faults>>

-----------------------------------------------------------------------------

Init ==
  /\ recipes = {}
  /\ status = {}
  /\ pc = "check"
  /\ batch = {}
  /\ fetchErr = FALSE
  /\ next = 1
  /\ feeding = FALSE
  /\ worker = Nobody
  /\ results = <<>>
  /\ closed = FALSE
  /\ gdone = FALSE
  /\ cancelled = FALSE
  /\ faults = 0

\* After "exit" the goroutines die with the process.
Pool ==
  /\ pc # "exit"
  /\ \/ FeederEnds \/ FeederStops \/ CloseResults
     \/ \E w \in Worker : \/ HandOver(w) \/ WorkerEnds(w) \/ Fetch(w) \/ FetchFails(w)
                          \/ Put(w) \/ PutAbandoned(w) \/ ReturnError(w)

Caller ==
  \/ CheckStatus \/ StartPool \/ ListFails
  \/ TakeResult \/ RangeEnds \/ Flush \/ FlushFails
  \/ MarkCompleted \/ MarkFails \/ RecordErrors

Next == Pool \/ Caller \/ Cancel \/ Crash \/ Restart

Spec == Init /\ [][Next]_vars

\* Goroutines are scheduled, every call returns, and the container restarts
\* a process that failed, but not one that was told to stop.
Fairness ==
  /\ WF_vars(Caller)
  /\ WF_vars(Pool)
  /\ WF_vars(~cancelled /\ pc = "exit" /\ Restart)

FairSpec == Spec /\ Fairness

-----------------------------------------------------------------------------
(* Properties *)

InWorkers == {worker[w].job : w \in Worker} \ {Error}
InResults == {results[k] : k \in DOMAIN results} \ {Error}

\* A stage that says completed has every listed recipe in the database: no
\* failure, cancellation or dropped result lets a seed with a gap pass for a
\* finished one, which would never run again.
CompletedMeansStored == status # {} => recipes = Job

\* As long as nothing went wrong, a job the feeder handed out is with a worker,
\* in the channel, in the batch or in the database.
NoJobLost ==
  pc \in {"range", "flush", "lastFlush", "markRecipes"} /\ ~GroupDone =>
    fetchErr \/ Error \in {results[k] : k \in DOMAIN results}
             \/ (\E w \in Worker : worker[w].at = "put" /\ worker[w].job = Error)
             \/ 1..(next - 1) \subseteq InWorkers \cup InResults \cup batch \cup recipes

\* Once the group is cancelled by one of its own, the error that did it is on
\* its way to the caller or there: results dropped later are only repeats
\* ("later ones are duplicates of the same unwind").
ErrorNotLost ==
  (pc \in {"range", "flush", "lastFlush"} /\ gdone /\ ~cancelled) =>
    fetchErr \/ Error \in {results[k] : k \in DOMAIN results}

\* The stage completes once failures cease, over any number of runs, unless
\* the process is told to stop: no failure leaves feeder, workers and caller
\* waiting for each other.
Seeded == <>(pc = "polling" \/ cancelled)

=============================================================================
