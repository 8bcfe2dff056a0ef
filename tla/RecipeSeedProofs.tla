-------------------------- MODULE RecipeSeedProofs --------------------------
(***************************************************************************)
(* Proofs about the recipe stage, for any number of workers, jobs and      *)
(* failures and any batch size.                                            *)
(***************************************************************************)
EXTENDS RecipeSeed, SequenceTheorems, TLAPS

-----------------------------------------------------------------------------
(* Type correctness *)

Places == {"check", "list", "range", "flush", "lastFlush", "markRecipes", "markReagents",
           "record", "exit", "polling"}

WorkerState == [at : {"receive", "fetch", "put", "return", "returned"}, job : 0..Jobs]

\* The types of the stage's state.
TypeOK ==
  /\ recipes \subseteq Job
  /\ status \subseteq Names
  /\ pc \in Places
  /\ batch \subseteq Job
  /\ fetchErr \in BOOLEAN
  /\ next \in 1..(Jobs + 1)
  /\ feeding \in BOOLEAN
  /\ worker \in [Worker -> WorkerState]
  /\ results \in Seq(0..Jobs)
  /\ closed \in BOOLEAN
  /\ gdone \in BOOLEAN
  /\ cancelled \in BOOLEAN
  /\ faults \in 0..MaxFaults

\* Counting a failure stays within the bound.
LEMMA FaultsTyped == TypeOK /\ MayFail /\ CountFault => faults' \in 0..MaxFaults
  BY ConstantsAssumption DEF TypeOK, MayFail, CountFault

\* A pool before and after its work.
LEMMA PoolsTyped ==
  /\ Nobody \in [Worker -> WorkerState]
  /\ [w \in Worker |-> [at |-> "receive", job |-> Error]] \in [Worker -> WorkerState]
  BY ConstantsAssumption DEF Nobody, WorkerState, Error

\* What a worker becomes is typed, and the others stay what they are.
LEMMA WorkerTyped ==
  ASSUME TypeOK, NEW w \in Worker, NEW job \in 0..Jobs,
         NEW at \in {"receive", "fetch", "put", "return", "returned"}, Become(w, at, job)
  PROVE  /\ worker' \in [Worker -> WorkerState]
         /\ worker'[w].at = at /\ worker'[w].job = job
         /\ \A v \in Worker \ {w} : worker'[v] = worker[v]
  BY DEF TypeOK, Become, WorkerState

\* A write that may have been applied leaves a table within its type.
LEMMA AttemptTyped ==
  ASSUME NEW S, NEW table \in SUBSET S, NEW rows \in SUBSET S, NEW new \in Attempt(table, rows)
  PROVE  table \subseteq new /\ new \subseteq S /\ (new # table => Reachable)
  BY DEF Attempt

\* What is being marked is a row of the stage.
LEMMA MarkingTyped == pc \in {"markRecipes", "markReagents"} => Marking \in Names
  BY DEF Marking, Names

\* The pool's steps keep the types.
LEMMA PoolTyped == TypeOK /\ Pool => TypeOK'
<1> SUFFICES ASSUME TypeOK, Pool PROVE TypeOK'
  OBVIOUS
<1> USE DEF database, caller, pool
<1>0. Jobs \in Nat /\ Error \in 0..Jobs /\ MaxFaults \in Nat
  BY ConstantsAssumption DEF Error
<1>1. CASE FeederEnds \/ FeederStops \/ CloseResults
  BY <1>1 DEF TypeOK, FeederEnds, FeederStops, CloseResults
<1>2. ASSUME NEW w \in Worker, HandOver(w) PROVE TypeOK'
  <2>1. next \in 0..Jobs /\ next + 1 \in 1..(Jobs + 1) /\ Become(w, "fetch", next)
    BY <1>0, <1>2 DEF TypeOK, HandOver
  <2>2. worker' \in [Worker -> WorkerState]
    BY <2>1, WorkerTyped
  <2> QED
    BY <1>2, <2>1, <2>2 DEF TypeOK, HandOver
<1>3. ASSUME NEW w \in Worker, WorkerEnds(w) \/ PutAbandoned(w) \/ ReturnError(w)
      PROVE  TypeOK'
  <2>1. Become(w, "returned", Error) \/ Become(w, "return", Error)
    BY <1>3 DEF WorkerEnds, PutAbandoned, ReturnError
  <2>2. worker' \in [Worker -> WorkerState]
    BY <1>0, <2>1, WorkerTyped
  <2> QED
    BY <1>3, <2>2 DEF TypeOK, WorkerEnds, PutAbandoned, ReturnError
<1>4. ASSUME NEW w \in Worker, Fetch(w) \/ FetchFails(w)
      PROVE  TypeOK'
  <2>1. worker[w].job \in 0..Jobs
    BY DEF TypeOK, WorkerState
  <2>2. Become(w, "put", worker[w].job) \/ Become(w, "put", Error)
    BY <1>4 DEF Fetch, FetchFails
  <2>3. worker' \in [Worker -> WorkerState]
    BY <1>0, <2>1, <2>2, WorkerTyped
  <2>4. faults' \in 0..MaxFaults
    BY <1>0, <1>4 DEF TypeOK, Fetch, FetchFails
  <2> QED
    BY <1>4, <2>3, <2>4 DEF TypeOK, Fetch, FetchFails
<1>5. ASSUME NEW w \in Worker, Put(w)
      PROVE  TypeOK'
  <2>1. worker[w].job \in 0..Jobs
    BY DEF TypeOK, WorkerState
  <2>2. results' \in Seq(0..Jobs)
    BY <1>5, <2>1 DEF TypeOK, Put
  <2>3. Become(w, "return", Error) \/ Become(w, "receive", Error)
    BY <1>5 DEF Put
  <2>4. worker' \in [Worker -> WorkerState]
    BY <1>0, <2>3, WorkerTyped
  <2> QED
    BY <1>5, <2>2, <2>4 DEF TypeOK, Put
<1> QED
  BY <1>1, <1>2, <1>3, <1>4, <1>5, Zenon DEF Pool

\* The calling goroutine's steps and the process's keep the types.
LEMMA NextTyped == TypeOK /\ [Next]_vars => TypeOK'
<1> SUFFICES ASSUME TypeOK, [Next]_vars PROVE TypeOK'
  OBVIOUS
<1> USE DEF database, caller, pool
<1>0. Jobs \in Nat /\ Error \in 0..Jobs /\ MaxFaults \in Nat
  BY ConstantsAssumption DEF Error
<1>1. CASE CheckStatus \/ RangeEnds
  BY <1>1 DEF TypeOK, CheckStatus, RangeEnds, Unwind, Places
<1>2. CASE StartPool
  <2>1. next' \in 1..(Jobs + 1) /\ worker' \in [Worker -> WorkerState]
    BY <1>0, <1>2, PoolsTyped DEF StartPool
  <2> QED
    BY <1>2, <2>1 DEF TypeOK, StartPool, Places
<1>3. CASE ListFails
  <2>1. faults' \in 0..MaxFaults
    BY <1>3, FaultsTyped DEF ListFails
  <2> QED
    BY <1>3, <2>1 DEF TypeOK, ListFails, Unwind, Places
<1>4. CASE TakeResult
  <2>1. Head(results) \in 0..Jobs /\ Tail(results) \in Seq(0..Jobs)
    BY <1>4, HeadTailProperties DEF TypeOK, TakeResult
  <2>2. CASE Head(results) = Error \/ fetchErr
    BY <1>4, <2>1, <2>2 DEF TypeOK, TakeResult
  <2>3. CASE Head(results) # Error /\ ~fetchErr
    <3>1. Head(results) \in Job
      BY <2>1, <2>3 DEF Job, Error
    <3>2. batch' = batch \cup {Head(results)} /\ pc' \in Places /\ fetchErr' = fetchErr
      BY <1>4, <2>3 DEF TakeResult, Places
    <3> QED
      BY <1>4, <2>1, <3>1, <3>2 DEF TypeOK, TakeResult
  <2> QED
    BY <2>2, <2>3
<1>5. CASE Flush
  BY <1>5 DEF TypeOK, Flush, Places
<1>6. CASE FlushFails
  <2>1. faults' \in 0..MaxFaults
    BY <1>6, FaultsTyped DEF FlushFails
  <2>2. recipes' \subseteq Job
    BY <1>6, AttemptTyped DEF FlushFails, TypeOK
  <2> QED
    BY <1>6, <2>1, <2>2 DEF TypeOK, FlushFails, Unwind, Places
<1>7. CASE MarkCompleted
  BY <1>7, MarkingTyped DEF TypeOK, MarkCompleted, Places
<1>8. CASE MarkFails
  <2>1. faults' \in 0..MaxFaults
    BY <1>8, FaultsTyped DEF MarkFails
  <2>2. status' \subseteq Names
    BY <1>8, AttemptTyped, MarkingTyped DEF MarkFails, TypeOK
  <2> QED
    BY <1>8, <2>1, <2>2 DEF TypeOK, MarkFails, Unwind, Places
<1>9. CASE RecordErrors
  <2>1. PICK recorded \in SUBSET Names :
          /\ IF cancelled THEN recorded = {} ELSE recorded = Names \/ faults < MaxFaults
          /\ faults' = IF recorded = Names \/ cancelled THEN faults ELSE faults + 1
          /\ status' = status \ recorded
    BY <1>9 DEF RecordErrors
  <2>2. faults' \in 0..MaxFaults /\ status' \subseteq Names
    BY <1>0, <2>1 DEF TypeOK
  <2> QED
    BY <1>9, <2>2 DEF TypeOK, RecordErrors, Places
<1>10. CASE Cancel
  BY <1>0, <1>10 DEF TypeOK, Cancel
<1>11. CASE Crash
  <2>1. recipes' \subseteq Job /\ status' \subseteq Names
    <3>1. (IF pc \in {"flush", "lastFlush"} THEN batch ELSE {}) \subseteq Job
      BY DEF TypeOK
    <3>2. (IF pc \in {"markRecipes", "markReagents"} THEN {Marking} ELSE {}) \subseteq Names
      BY MarkingTyped
    <3> QED
      BY <1>11, <3>1, <3>2, AttemptTyped DEF Crash, TypeOK
  <2>2. faults' \in 0..MaxFaults
    BY <1>0, <1>11 DEF Crash, TypeOK
  <2> QED
    BY <1>11, <2>1, <2>2 DEF TypeOK, Crash, Places
<1>12. CASE Restart
  <2>1. next' \in 1..(Jobs + 1) /\ worker' \in [Worker -> WorkerState] /\ results' \in Seq(0..Jobs)
    BY <1>0, <1>12, PoolsTyped DEF Restart
  <2> QED
    BY <1>12, <2>1 DEF TypeOK, Restart, Places
<1>13. CASE UNCHANGED vars
  BY <1>13 DEF TypeOK, vars
<1> QED
  BY <1>1, <1>2, <1>3, <1>4, <1>5, <1>6, <1>7, <1>8, <1>9, <1>10, <1>11, <1>12, <1>13, PoolTyped, Zenon
  DEF Next, Caller

\* The stage's state and tables keep their types, for any workers, jobs, batch
\* size and failures.
THEOREM TypeCorrect == Spec => []TypeOK
<1>1. Init => TypeOK
  <2> SUFFICES ASSUME Init PROVE TypeOK
    OBVIOUS
  <2>1. next \in 1..(Jobs + 1) /\ worker \in [Worker -> WorkerState] /\ results \in Seq(0..Jobs)
    BY ConstantsAssumption, PoolsTyped DEF Init
  <2>2. faults \in 0..MaxFaults
    BY ConstantsAssumption DEF Init
  <2> QED
    BY <2>1, <2>2 DEF Init, TypeOK, Places
<1> QED
  BY <1>1, NextTyped, PTL DEF Spec

-----------------------------------------------------------------------------
(* Where every job is *)

\* The contents of the results channel.
Sent == {results[k] : k \in DOMAIN results}

\* The caller knows of an error, or will when it has taken what was sent.
ErrorKnown == fetchErr \/ Error \in Sent

\* A worker holds an error it has not sent yet.
ErrorMade == \E w \in Worker : worker[w].at = "put" /\ worker[w].job = Error

\* Every job handed out is with a worker, in the channel, in the batch or
\* in the database.
Placed == 1..(next - 1) \subseteq InWorkers \cup Sent \cup batch \cup recipes

\* A worker without a job has none.
WorkersIdle ==
  \A w \in Worker : worker[w].at \in {"receive", "return", "returned"} => worker[w].job = Error

\* The channel is closed when nobody is left to send.
PoolEnded == closed => ~feeding /\ \A w \in Worker : worker[w].at = "returned"

\* While the caller collects: no job is lost without an error that the caller
\* knows or is about to be sent, and a group that is done, or about to be, has
\* told it.
Pipeline ==
  pc \in {"range", "flush", "lastFlush"} /\ ~cancelled =>
    /\ gdone => ErrorKnown
    /\ \A w \in Worker : worker[w].at = "return" => ErrorKnown
    /\ ErrorKnown \/ ErrorMade \/ Placed
    /\ ~feeding => next > Jobs \/ ErrorKnown

\* Once everything is collected it is everything, and so it stays.
AllStored ==
  /\ pc = "lastFlush" /\ ~cancelled => recipes \cup batch = Job
  /\ pc = "markRecipes" /\ ~cancelled => recipes = Job
  /\ pc = "markReagents" => recipes = Job
  /\ status # {} => recipes = Job

IInv == WorkersIdle /\ PoolEnded /\ Pipeline /\ AllStored

\* What a send adds to the channel.
LEMMA Sends ==
  ASSUME NEW job \in 0..Jobs, results \in Seq(0..Jobs), results' = Append(results, job)
  PROVE  Sent' = Sent \cup {job}
<1>1. /\ Len(results) \in Nat /\ Len(results') = Len(results) + 1
      /\ DOMAIN results = 1..Len(results) /\ DOMAIN results' = 1..Len(results')
      /\ \A k \in 1..Len(results) : results'[k] = results[k]
      /\ results'[Len(results) + 1] = job
  BY AppendProperties
<1>2. 1..Len(results') = (1..Len(results)) \cup {Len(results) + 1}
  BY <1>1
<1> QED
  BY <1>1, <1>2 DEF Sent

\* What a receive takes from it.
LEMMA Receives ==
  ASSUME results \in Seq(0..Jobs), results # <<>>, results' = Tail(results)
  PROVE  Sent = Sent' \cup {Head(results)}
<1>1. /\ Len(results) \in Nat /\ Len(results') = Len(results) - 1
      /\ DOMAIN results = 1..Len(results) /\ DOMAIN results' = 1..Len(results')
      /\ \A k \in 1..Len(results') : results'[k] = results[k + 1]
      /\ Head(results) = results[1] /\ Len(results) # 0
  BY HeadTailProperties
<1>2. ASSUME NEW k \in 1..Len(results) PROVE results[k] \in Sent' \cup {Head(results)}
  <2>1. CASE k # 1
    <3>1. k - 1 \in 1..Len(results') /\ (k - 1) + 1 = k
      BY <1>1, <2>1
    <3>2. results'[k - 1] = results[k]
      BY <1>1, <3>1
    <3> QED
      BY <1>1, <3>1, <3>2 DEF Sent
  <2> QED
    BY <1>1, <2>1
<1>3. ASSUME NEW k \in 1..Len(results') PROVE results'[k] \in Sent
  BY <1>1 DEF Sent
<1>4. Head(results) \in Sent
  BY <1>1 DEF Sent
<1> QED
  BY <1>1, <1>2, <1>3, <1>4 DEF Sent

\* The job a worker takes on is with the workers; what another holds stays.
LEMMA Holders ==
  ASSUME TypeOK, NEW w \in Worker, NEW job \in 0..Jobs,
         NEW at \in {"receive", "fetch", "put", "return", "returned"}, Become(w, at, job)
  PROVE  /\ InWorkers \subseteq InWorkers' \cup {worker[w].job}
         /\ job # Error => job \in InWorkers'
<1>1. /\ worker'[w].job = job
      /\ \A v \in Worker \ {w} : worker'[v] = worker[v]
  BY WorkerTyped
<1> QED
  BY <1>1 DEF InWorkers

\* The pool's steps.
LEMMA PoolStep == TypeOK /\ IInv /\ Pool => IInv'
<1> SUFFICES ASSUME TypeOK, IInv, Pool PROVE IInv'
  OBVIOUS
<1> USE DEF database, caller, pool
<1>0. /\ Jobs \in Nat /\ Error \in 0..Jobs /\ next \in 1..(Jobs + 1)
      /\ \A w \in Worker : worker[w].job \in 0..Jobs
  BY ConstantsAssumption DEF Error, TypeOK, WorkerState
<1>1. UNCHANGED <<recipes, status, pc, batch, fetchErr, cancelled>> /\ AllStored'
  BY DEF Pool, HandOver, FeederEnds, FeederStops, WorkerEnds, Fetch, FetchFails, Put, PutAbandoned,
         ReturnError, CloseResults, IInv, AllStored
<1>2. CASE FeederEnds
  BY <1>0, <1>1, <1>2
  DEF FeederEnds, IInv, WorkersIdle, PoolEnded, Pipeline, ErrorKnown, ErrorMade, Placed, InWorkers, Sent
<1>3. CASE FeederStops
  BY <1>0, <1>1, <1>3
  DEF FeederStops, GroupDone, IInv, WorkersIdle, PoolEnded, Pipeline, ErrorKnown, ErrorMade, Placed,
      InWorkers, Sent
<1>4. CASE CloseResults
  BY <1>0, <1>1, <1>4
  DEF CloseResults, IInv, WorkersIdle, PoolEnded, Pipeline, ErrorKnown, ErrorMade, Placed, InWorkers, Sent
<1>5. ASSUME NEW w \in Worker, NEW job \in 0..Jobs,
             NEW at \in {"receive", "fetch", "put", "return", "returned"}, Become(w, at, job),
             worker[w].at # "returned",
             at \in {"receive", "return", "returned"} => job = Error
      PROVE  WorkersIdle' /\ ~closed
  <2>1. worker'[w].at = at /\ worker'[w].job = job /\ \A v \in Worker \ {w} : worker'[v] = worker[v]
    BY <1>5, WorkerTyped
  <2> QED
    BY <1>5, <2>1 DEF IInv, WorkersIdle, PoolEnded
<1>6. ASSUME NEW w \in Worker, HandOver(w) PROVE IInv'
  <2>1. next \in 0..Jobs /\ next # Error /\ Become(w, "fetch", next) /\ worker[w].at = "receive"
    BY <1>0, <1>6 DEF HandOver, Error
  <2>2. WorkersIdle' /\ ~closed /\ PoolEnded'
    BY <1>5, <1>6, <2>1 DEF HandOver, PoolEnded
  <2>3. worker[w].job = Error /\ InWorkers \subseteq InWorkers' /\ next \in InWorkers'
    <3>1. worker[w].job = Error
      BY <2>1 DEF IInv, WorkersIdle
    <3> QED
      BY <2>1, <3>1, Holders DEF InWorkers
  <2>4. worker'[w].at = "fetch" /\ \A v \in Worker \ {w} : worker'[v] = worker[v]
    BY <2>1, WorkerTyped
  <2>5. Placed => Placed'
    <3>1. next' = next + 1 /\ 1..(next' - 1) = (1..(next - 1)) \cup {next} /\ Sent' = Sent
      BY <1>0, <1>6 DEF HandOver, Sent
    <3> QED
      BY <1>1, <2>3, <3>1 DEF Placed
  <2>6. (ErrorKnown' <=> ErrorKnown) /\ (ErrorMade => ErrorMade')
    BY <1>1, <1>6, <2>1, <2>4 DEF HandOver, ErrorKnown, ErrorMade, Sent
  <2>7. Pipeline'
    BY <1>1, <1>6, <2>4, <2>5, <2>6 DEF HandOver, IInv, Pipeline
  <2> QED
    BY <1>1, <2>2, <2>7 DEF IInv
<1>7. ASSUME NEW w \in Worker, WorkerEnds(w) \/ PutAbandoned(w) \/ ReturnError(w)
      PROVE  IInv'
  <2>1. /\ worker[w].at \in {"receive", "put", "return"}
        /\ Become(w, "returned", Error) \/ Become(w, "return", Error)
        /\ UNCHANGED <<next, feeding, results, closed>>
    BY <1>7 DEF WorkerEnds, PutAbandoned, ReturnError
  <2>2. WorkersIdle' /\ PoolEnded'
    BY <1>0, <1>5, <2>1 DEF PoolEnded
  <2>3. ErrorKnown' <=> ErrorKnown
    BY <1>1, <2>1 DEF ErrorKnown, Sent
  <2>4. CASE WorkerEnds(w)
    <3>1. worker[w].job = Error /\ worker[w].at = "receive" /\ Become(w, "returned", Error) /\ gdone' = gdone
      BY <2>4 DEF WorkerEnds, IInv, WorkersIdle
    <3>2. worker'[w].at = "returned" /\ \A v \in Worker \ {w} : worker'[v] = worker[v]
      BY <1>0, <3>1, WorkerTyped
    <3>3. InWorkers \subseteq InWorkers'
      BY <1>0, <3>1, Holders DEF InWorkers
    <3>4. (ErrorMade => ErrorMade') /\ (Placed => Placed')
      BY <1>1, <2>1, <3>1, <3>2, <3>3 DEF ErrorMade, Placed, Sent
    <3>5. Pipeline'
      BY <1>1, <2>1, <2>3, <3>1, <3>2, <3>4 DEF IInv, Pipeline
    <3> QED
      BY <1>1, <2>2, <3>5 DEF IInv
  <2>5. CASE PutAbandoned(w) \/ ReturnError(w)
    <3>1. pc \in {"range", "flush", "lastFlush"} /\ ~cancelled => ErrorKnown
      BY <2>5 DEF PutAbandoned, Abandons, GroupDone, ReturnError, IInv, Pipeline
    <3>2. Pipeline'
      BY <1>1, <2>3, <3>1 DEF Pipeline
    <3> QED
      BY <1>1, <2>2, <3>2 DEF IInv
  <2> QED
    BY <1>7, <2>4, <2>5
<1>8. ASSUME NEW w \in Worker, Fetch(w) \/ FetchFails(w)
      PROVE  IInv'
  <2>1. /\ worker[w].at = "fetch"
        /\ Become(w, "put", worker[w].job) \/ Become(w, "put", Error)
        /\ UNCHANGED <<next, feeding, results, closed, gdone>>
    BY <1>8 DEF Fetch, FetchFails
  <2>2. WorkersIdle' /\ PoolEnded'
    BY <1>0, <1>5, <2>1 DEF PoolEnded
  <2>3. (ErrorKnown' <=> ErrorKnown) /\ Sent' = Sent
    BY <1>1, <2>1 DEF ErrorKnown, Sent
  <2>4. /\ worker'[w].at = "put" /\ worker'[w].job \in {worker[w].job, Error}
        /\ \A v \in Worker \ {w} : worker'[v] = worker[v]
    BY <1>0, <2>1, WorkerTyped
  <2>5. ErrorMade => ErrorMade'
    BY <2>1, <2>4 DEF ErrorMade
  <2>6. Placed => Placed' \/ ErrorMade'
    <3>1. CASE worker'[w].job = Error
      BY <2>4, <3>1 DEF ErrorMade
    <3>2. CASE worker'[w].job = worker[w].job
      <4>1. InWorkers' = InWorkers
        BY <2>4, <3>2 DEF InWorkers
      <4> QED
        BY <1>1, <2>1, <2>3, <4>1 DEF Placed
    <3> QED
      BY <2>4, <3>1, <3>2
  <2>7. Pipeline'
    BY <1>1, <2>1, <2>3, <2>4, <2>5, <2>6 DEF IInv, Pipeline
  <2> QED
    BY <1>1, <2>2, <2>7 DEF IInv
<1>9. ASSUME NEW w \in Worker, Put(w) PROVE IInv'
  <2>1. /\ worker[w].at = "put"
        /\ IF worker[w].job = Error THEN Become(w, "return", Error) ELSE Become(w, "receive", Error)
        /\ results' = Append(results, worker[w].job)
        /\ UNCHANGED <<next, feeding, closed, gdone>>
    BY <1>9 DEF Put
  <2>2. WorkersIdle' /\ PoolEnded'
    BY <1>0, <1>5, <2>1 DEF PoolEnded
  <2>3. Sent' = Sent \cup {worker[w].job}
    BY <1>0, <2>1, Sends DEF TypeOK
  <2>4. ErrorKnown => ErrorKnown'
    BY <1>1, <2>3 DEF ErrorKnown
  <2>5. CASE worker[w].job = Error
    <3>1. ErrorKnown'
      BY <2>3, <2>5 DEF ErrorKnown
    <3> QED
      BY <1>1, <2>2, <3>1 DEF IInv, Pipeline
  <2>6. CASE worker[w].job # Error
    <3>1. worker'[w].at = "receive" /\ \A v \in Worker \ {w} : worker'[v] = worker[v]
      BY <1>0, <2>1, <2>6, WorkerTyped
    <3>2. ErrorMade => ErrorMade'
      BY <2>6, <3>1 DEF ErrorMade
    <3>3. Placed => Placed'
      <4>1. InWorkers \subseteq InWorkers' \cup {worker[w].job}
        BY <1>0, <2>1, <2>6, Holders
      <4> QED
        BY <1>1, <2>1, <2>3, <4>1 DEF Placed
    <3>4. Pipeline'
      BY <1>1, <2>1, <2>4, <3>1, <3>2, <3>3 DEF IInv, Pipeline
    <3> QED
      BY <1>1, <2>2, <3>4 DEF IInv
  <2> QED
    BY <2>5, <2>6
<1> QED
  BY <1>2, <1>3, <1>4, <1>6, <1>7, <1>8, <1>9, Zenon DEF Pool

\* An empty channel holds nothing.
LEMMA NothingSent == results = <<>> => Sent = {}
  BY DEF Sent

\* The caller has collected everything when the channel is closed and empty,
\* unless it was told of an error or to stop.
LEMMA AllCollected ==
  ASSUME TypeOK, IInv, pc = "range", results = <<>>, closed, ~fetchErr, ~cancelled
  PROVE  recipes \cup batch = Job
<1>1. ~ErrorKnown /\ Sent = {}
  BY NothingSent DEF ErrorKnown
<1>2. ~feeding /\ \A w \in Worker : worker[w].at = "returned" /\ worker[w].job = Error
  BY DEF IInv, PoolEnded, WorkersIdle
<1>3. ~ErrorMade /\ InWorkers = {}
  BY <1>2 DEF ErrorMade, InWorkers
<1>4. Placed /\ next > Jobs
  BY <1>1, <1>2, <1>3 DEF IInv, Pipeline
<1>5. next - 1 = Jobs
  BY <1>4, ConstantsAssumption DEF TypeOK
<1>6. Job \subseteq batch \cup recipes
  BY <1>1, <1>3, <1>4, <1>5 DEF Placed, Job
<1> QED
  BY <1>6 DEF TypeOK

\* The calling goroutine's steps and the process's.
LEMMA CallerStep == TypeOK /\ IInv /\ [Next]_vars => IInv'
<1> SUFFICES ASSUME TypeOK, IInv, [Next]_vars PROVE IInv'
  OBVIOUS
<1> USE DEF database, caller, pool
<1>0. /\ recipes \subseteq Job /\ batch \subseteq Job
      /\ Jobs \in Nat /\ next \in 1..(Jobs + 1)
  BY ConstantsAssumption DEF TypeOK
<1>1. ASSUME UNCHANGED pool, closed' = closed PROVE WorkersIdle' /\ PoolEnded'
  BY <1>1 DEF IInv, WorkersIdle, PoolEnded
<1>2. ASSUME pc' \notin {"range", "flush", "lastFlush", "markRecipes", "markReagents"},
             status' = {} \/ (status # {} /\ recipes \subseteq recipes' /\ recipes' \subseteq Job)
      PROVE  Pipeline' /\ AllStored'
  BY <1>2 DEF IInv, AllStored, Pipeline
<1>3. CASE CheckStatus \/ ListFails
  <2>1. /\ pc' \in {"polling", "list", "exit", "record"}
        /\ UNCHANGED <<pool, closed, recipes, status>>
    BY <1>3 DEF CheckStatus, ListFails, Unwind
  <2> QED
    BY <1>0, <1>1, <1>2, <2>1 DEF IInv
<1>4. CASE StartPool
  <2>1. /\ pc' = "range" /\ next' = 1 /\ feeding' /\ ~closed' /\ ~gdone'
        /\ UNCHANGED <<recipes, status, cancelled>>
        /\ \A w \in Worker : worker'[w].at = "receive" /\ worker'[w].job = Error
    BY <1>4 DEF StartPool
  <2>2. WorkersIdle' /\ PoolEnded'
    BY <2>1 DEF WorkersIdle, PoolEnded
  <2>3. Placed'
    BY <2>1 DEF Placed
  <2>4. Pipeline'
    BY <2>1, <2>3 DEF Pipeline
  <2>5. AllStored'
    BY <2>1 DEF IInv, AllStored
  <2> QED
    BY <2>2, <2>4, <2>5 DEF IInv
<1>5. CASE TakeResult
  <2> DEFINE result == Head(results)
  <2>1. /\ pc = "range" /\ results # <<>> /\ results' = Tail(results)
        /\ UNCHANGED <<database, pool, closed, gdone, cancelled>>
    BY <1>5 DEF TakeResult
  <2>2. Sent = Sent' \cup {result}
    BY <2>1, Receives DEF TypeOK
  <2>3. WorkersIdle' /\ PoolEnded' /\ (ErrorMade' <=> ErrorMade) /\ InWorkers' = InWorkers
    BY <1>1, <2>1 DEF ErrorMade, InWorkers
  <2>4. CASE result = Error \/ fetchErr
    <3>1. fetchErr' /\ pc' = "range"
      BY <1>5, <2>1, <2>4 DEF TakeResult
    <3> QED
      BY <2>1, <2>3, <3>1 DEF IInv, Pipeline, AllStored, ErrorKnown
  <2>5. CASE result # Error /\ ~fetchErr
    <3>1. batch' = batch \cup {result} /\ fetchErr' = fetchErr /\ pc' \in {"flush", "range"}
      BY <1>5, <2>5 DEF TakeResult
    <3>2. (ErrorKnown' <=> ErrorKnown) /\ (Placed => Placed')
      BY <2>1, <2>2, <2>3, <2>5, <3>1 DEF ErrorKnown, Placed
    <3>3. Pipeline'
      BY <2>1, <2>3, <3>1, <3>2 DEF IInv, Pipeline
    <3>4. AllStored'
      BY <2>1, <3>1 DEF IInv, AllStored
    <3> QED
      BY <2>3, <3>3, <3>4 DEF IInv
  <2> QED
    BY <2>4, <2>5
<1>6. CASE RangeEnds
  <2>1. /\ pc = "range" /\ results = <<>> /\ closed
        /\ UNCHANGED <<database, batch, fetchErr, pool, results, closed, cancelled>>
    BY <1>6 DEF RangeEnds
  <2>2. WorkersIdle' /\ PoolEnded'
    BY <1>1, <2>1
  <2>3. CASE fetchErr
    <3>1. pc' = "record"
      BY <1>6, <2>3 DEF RangeEnds, Unwind
    <3> QED
      BY <1>0, <1>2, <2>1, <2>2, <3>1 DEF IInv
  <2>4. CASE ~fetchErr
    <3>1. /\ pc' = (IF batch = {} THEN "markRecipes" ELSE "lastFlush") /\ gdone' = gdone
      BY <1>6, <2>4 DEF RangeEnds
    <3>2. ~cancelled => recipes \cup batch = Job
      BY <2>1, <2>4, AllCollected
    <3>3. AllStored'
      BY <2>1, <3>1, <3>2 DEF IInv, AllStored
    <3>4. Pipeline'
      BY <2>1, <3>1 DEF IInv, Pipeline, ErrorKnown, ErrorMade, Placed, Sent, InWorkers
    <3> QED
      BY <2>2, <3>3, <3>4 DEF IInv
  <2> QED
    BY <2>3, <2>4
<1>7. CASE Flush
  <2>1. /\ pc \in {"flush", "lastFlush"} /\ ~cancelled
        /\ recipes' = recipes \cup batch /\ batch' = {}
        /\ pc' = (IF pc = "flush" THEN "range" ELSE "markRecipes")
        /\ UNCHANGED <<status, fetchErr, pool, results, closed, gdone, cancelled>>
    BY <1>7 DEF Flush, Reachable
  <2>2. WorkersIdle' /\ PoolEnded'
    BY <1>1, <2>1
  <2>3. AllStored'
    BY <1>0, <2>1 DEF IInv, AllStored
  <2>4. Placed => Placed'
    BY <2>1 DEF Placed, Sent, InWorkers
  <2>5. Pipeline'
    BY <2>1, <2>4 DEF IInv, Pipeline, ErrorKnown, ErrorMade, Sent
  <2> QED
    BY <2>2, <2>3, <2>5 DEF IInv
<1>8. CASE FlushFails
  <2>1. /\ pc' = "record" /\ UNCHANGED <<status, pool, closed>> /\ recipes' \in Attempt(recipes, batch)
    BY <1>8 DEF FlushFails, Unwind
  <2>2. recipes \subseteq recipes' /\ recipes' \subseteq Job
    BY <1>0, <2>1, AttemptTyped
  <2> QED
    BY <1>1, <1>2, <2>1, <2>2 DEF IInv
<1>9. CASE MarkCompleted
  <2>1. /\ pc \in {"markRecipes", "markReagents"} /\ ~cancelled
        /\ pc' = (IF pc = "markRecipes" THEN "markReagents" ELSE "polling")
        /\ UNCHANGED <<recipes, pool, closed>>
    BY <1>9 DEF MarkCompleted, Reachable
  <2>2. recipes' = Job
    BY <2>1 DEF IInv, AllStored
  <2>3. AllStored' /\ Pipeline'
    BY <2>1, <2>2 DEF AllStored, Pipeline
  <2> QED
    BY <1>1, <2>1, <2>3 DEF IInv
<1>10. CASE MarkFails
  <2>1. /\ pc \in {"markRecipes", "markReagents"} /\ pc' = "record"
        /\ UNCHANGED <<recipes, pool, closed>> /\ status' \in Attempt(status, {Marking})
    BY <1>10 DEF MarkFails, Unwind
  <2>2. status' # status => ~cancelled
    BY <2>1 DEF Attempt, Reachable
  <2>3. status' # {} => recipes' = Job
    BY <2>1, <2>2 DEF IInv, AllStored
  <2>4. AllStored' /\ Pipeline'
    BY <2>1, <2>3 DEF AllStored, Pipeline
  <2> QED
    BY <1>1, <2>1, <2>4 DEF IInv
<1>11. CASE RecordErrors
  <2>1. pc' = "exit" /\ UNCHANGED <<recipes, pool, closed>> /\ status' \subseteq status
    BY <1>11 DEF RecordErrors
  <2> QED
    BY <1>0, <1>1, <1>2, <2>1 DEF IInv
<1>12. CASE Cancel
  <2>1. cancelled' /\ UNCHANGED <<database, caller, pool, closed>>
    BY <1>12 DEF Cancel
  <2>2. Pipeline' /\ AllStored'
    BY <2>1 DEF Pipeline, AllStored, IInv
  <2> QED
    BY <1>1, <2>1, <2>2 DEF IInv
<1>13. CASE Crash
  <2>1. /\ pc' = "exit" /\ UNCHANGED <<pool, closed, cancelled>>
        /\ recipes' \in Attempt(recipes, IF pc \in {"flush", "lastFlush"} THEN batch ELSE {})
        /\ status' \in Attempt(status, IF pc \in {"markRecipes", "markReagents"} THEN {Marking} ELSE {})
    BY <1>13 DEF Crash
  <2>2. recipes \subseteq recipes' /\ recipes' \subseteq Job
    BY <1>0, <2>1 DEF Attempt
  <2>3. status' = status \/ (pc \in {"markRecipes", "markReagents"} /\ ~cancelled)
    BY <2>1 DEF Attempt, Reachable
  <2>4. status' # {} => recipes = Job
    BY <2>3 DEF IInv, AllStored
  <2>5. AllStored' /\ Pipeline'
    BY <2>1, <2>2, <2>4 DEF AllStored, Pipeline
  <2> QED
    BY <1>1, <2>1, <2>5 DEF IInv
<1>14. CASE Restart
  <2>1. /\ pc' = "check" /\ UNCHANGED <<recipes, status>> /\ ~closed'
        /\ \A w \in Worker : worker'[w].job = Error
    BY <1>14 DEF Restart, Nobody
  <2>2. WorkersIdle' /\ PoolEnded'
    BY <2>1 DEF WorkersIdle, PoolEnded
  <2> QED
    BY <1>0, <1>2, <2>1, <2>2 DEF IInv
<1>15. CASE UNCHANGED vars
  BY <1>15 DEF vars, IInv, WorkersIdle, PoolEnded, Pipeline, AllStored, ErrorKnown, ErrorMade, Placed, Sent,
               InWorkers
<1> QED
  BY <1>3, <1>4, <1>5, <1>6, <1>7, <1>8, <1>9, <1>10, <1>11, <1>12, <1>13, <1>14, <1>15, PoolStep, Zenon
  DEF Next, Caller

\* The inductive invariant of the stage.
LEMMA Invariance == Spec => [](TypeOK /\ IInv)
<1>1. Init => IInv
  <2> SUFFICES ASSUME Init PROVE IInv
    OBVIOUS
  <2>1. WorkersIdle /\ PoolEnded
    BY DEF Init, Nobody, WorkersIdle, PoolEnded
  <2>2. Pipeline /\ AllStored
    BY DEF Init, Pipeline, AllStored
  <2> QED
    BY <2>1, <2>2 DEF IInv
<1>2. TypeOK /\ IInv /\ [Next]_vars => IInv'
  BY CallerStep
<1> QED
  BY <1>1, <1>2, TypeCorrect, PTL DEF Spec

\* A stage that says completed has every listed recipe in the database, for any
\* pool, batch size, failures, cancellations and crashes (CompletedMeansStored
\* of RecipeSeed).
THEOREM CompletedIsStored == Spec => []CompletedMeansStored
<1>1. IInv => CompletedMeansStored
  BY DEF IInv, AllStored, CompletedMeansStored
<1> QED
  BY <1>1, Invariance, PTL

\* As long as nothing went wrong, a job handed out is with a worker, in the
\* channel, in the batch or in the database (NoJobLost of RecipeSeed).
THEOREM JobsAreKept == Spec => []NoJobLost
<1>1. TypeOK /\ IInv => NoJobLost
  <2> SUFFICES ASSUME TypeOK, IInv, pc \in {"range", "flush", "lastFlush", "markRecipes"}, ~GroupDone
               PROVE  \/ ErrorKnown \/ ErrorMade
                      \/ 1..(next - 1) \subseteq InWorkers \cup InResults \cup batch \cup recipes
    BY DEF NoJobLost, ErrorKnown, ErrorMade, Sent
  <2>1. ~cancelled
    BY DEF GroupDone
  <2>2. 1..(next - 1) \subseteq Job /\ Error \notin Job
    BY ConstantsAssumption DEF TypeOK, Job, Error
  <2>3. Placed => 1..(next - 1) \subseteq InWorkers \cup InResults \cup batch \cup recipes
    BY <2>2 DEF Placed, InResults, Sent
  <2>4. CASE pc = "markRecipes"
    BY <2>1, <2>2, <2>4 DEF IInv, AllStored
  <2>5. CASE pc # "markRecipes"
    BY <2>1, <2>3, <2>5 DEF IInv, Pipeline
  <2> QED
    BY <2>4, <2>5
<1> QED
  BY <1>1, Invariance, PTL

\* Once the group is cancelled by one of its own, the error that did it is on
\* its way to the caller or there (ErrorNotLost of RecipeSeed).
THEOREM ErrorsAreKept == Spec => []ErrorNotLost
<1>1. IInv => ErrorNotLost
  BY DEF IInv, Pipeline, ErrorNotLost, ErrorKnown, Sent
<1> QED
  BY <1>1, Invariance, PTL

=============================================================================
