------------------------------- MODULE TSMPoll -------------------------------
(***************************************************************************)
(* The TradeSkillMaster polling loops of internal/scraper/tsm_scraper.go   *)
(* and tsm_client.go: one goroutine per region, each with a conditional    *)
(* GET of the region's CSV file, a stream of rows checked one by one and   *)
(* copied in batches inside one lazily opened transaction, and a commit    *)
(* that stores the rows, the file's validators and its source timestamp.   *)
(*                                                                         *)
(* Abstractions.  A file is a sequence of rows [item, at]; item 0 is a row *)
(* that does not parse, at is the row's updatedAt.  ETag and Last-Modified *)
(* are one value, the number of the file they came with, None when the     *)
(* server sent neither.  The retries of one request are its outcome.  The  *)
(* polling window, the stale warning and last_successful_poll, which the   *)
(* loops never read, are left out; a missing state row and one that holds  *)
(* NULLs read the same.                                                    *)
(***************************************************************************)
EXTENDS Integers, Sequences

CONSTANTS
  Region,       \* the configured regions
  Files,        \* Files[f]: the rows of the f-th file a region publishes
  BatchSize,    \* tsmCopyBatchSize
  MaxFaults,    \* bound: failures, crashes and cancellations
  MaxLostAcks   \* bound: commits applied but reported as failed

FileRow == [item : Nat, at : Nat \ {0}]

ASSUME FilesAssumption == Files \in Seq(Seq(FileRow)) /\ Len(Files) >= 1

ASSUME BoundsAssumption ==
  /\ BatchSize \in Nat \ {0}
  /\ MaxFaults \in Nat
  /\ MaxLostAcks \in Nat

None == 0
File == 1..Len(Files)

VARIABLES
  feed,        \* feed[r]: the file region r serves
  snapshots,   \* table tsm_region_item_snapshots
  tsmState,    \* table tsm_region_item_state
  state,       \* state[r]: the tsmState in the memory of r's goroutine
  pc,          \* pc[r]: where r's goroutine is
  resp,        \* resp[r]: the response it is reading
  tx,          \* tx[r]: its open transaction
  up,          \* the process runs
  cancelled,   \* the context is done
  faults, lostAcks  \* how much of the two failure bounds is used

tables == <<snapshots, tsmState>>
vars == <<feed, tables, state, pc, resp, tx, up, cancelled, faults, lostAcks>>

NoResp == [file |-> None, read |-> 0, updatedAt |-> None, validators |-> None]
NoTx == [open |-> FALSE, rows |-> {}]
Unknown == [validators |-> None, sourceAt |-> None]

-----------------------------------------------------------------------------
(* Rows *)

RowOf(r, f, k) ==
  [region |-> r, item |-> Files[f][k].item, at |-> Files[f][k].at, file |-> f]

FileRows(r, f) == {RowOf(r, f, k) : k \in 1..Len(Files[f])}

SnapshotAt(r, t) == {row \in snapshots : row.region = r /\ row.at = t}

\* The primary key (region, item_id, source_updated_at).
Conflicts(rows) ==
  \E old \in snapshots, new \in rows :
    old.region = new.region /\ old.item = new.item /\ old.at = new.at

\* Mutant: the last partial batch is forgotten.
Batch_FullOnly(r, n) ==
  IF n % BatchSize # 0 THEN {}
  ELSE {RowOf(r, resp[r].file, k) : k \in n + 1 - BatchSize .. n}

\* The rows of r's batch once n rows of its file are read.
Batch(r, n) ==
  {RowOf(r, resp[r].file, k) : k \in ((n - 1) \div BatchSize) * BatchSize + 1 .. n}

-----------------------------------------------------------------------------
(* Failures *)

Live(r) == up /\ pc[r] # "ended"

MayFail == cancelled \/ faults < MaxFaults

CountFault == faults' = IF cancelled THEN faults ELSE faults + 1

-----------------------------------------------------------------------------
(* runRegion *)

LoadState(r) ==
  /\ up /\ pc[r] = "load"
  /\ ~cancelled
  /\ state' = [state EXCEPT ![r] = tsmState[r]]
  /\ pc' = [pc EXCEPT ![r] = "request"]
  /\ UNCHANGED <<feed, tables, resp, tx, up, cancelled, faults, lostAcks>>

\* The goroutine returns; the other regions and the process go on.
LoadFails(r) ==
  /\ up /\ pc[r] = "load"
  /\ MayFail
  /\ CountFault
  /\ pc' = [pc EXCEPT ![r] = "ended"]
  /\ UNCHANGED <<feed, tables, state, resp, tx, up, cancelled, lostAcks>>

\* The timer of the poll window, or the context, ends the wait.
Wake(r) ==
  /\ up /\ pc[r] = "wait"
  /\ pc' = [pc EXCEPT ![r] = IF cancelled THEN "ended" ELSE "request"]
  /\ UNCHANGED <<feed, tables, state, resp, tx, up, cancelled, faults, lostAcks>>

\* Mutant: the validators of the response are kept whatever became of its rows.
GiveUp_KeepsValidators(r) ==
  /\ tx' = [tx EXCEPT ![r] = NoTx]
  /\ resp' = [resp EXCEPT ![r] = NoResp]
  /\ state' = [state EXCEPT ![r].validators = resp[r].validators]
  /\ pc' = [pc EXCEPT ![r] = IF cancelled THEN "ended" ELSE "wait"]
  /\ UNCHANGED <<feed, tables, up, cancelled, lostAcks>>

\* What runRegion does with an error: nothing is remembered.
GiveUp(r) ==
  /\ tx' = [tx EXCEPT ![r] = NoTx]
  /\ resp' = [resp EXCEPT ![r] = NoResp]
  /\ pc' = [pc EXCEPT ![r] = IF cancelled THEN "ended" ELSE "wait"]
  /\ UNCHANGED <<feed, tables, state, up, cancelled, lostAcks>>

\* No answer, a body cut short, no connection, a failing statement or commit.
PollFails(r) ==
  /\ up /\ pc[r] \in {"request", "read", "touch", "upsert", "commit"}
  /\ MayFail
  /\ CountFault
  /\ GiveUp(r)

-----------------------------------------------------------------------------
(* Fetch and storeSnapshot *)

\* 304: the validators sent are those of the file served.
NotModified(r) ==
  /\ up /\ pc[r] = "request"
  /\ ~cancelled
  /\ state[r].validators = feed[r]
  /\ pc' = [pc EXCEPT ![r] = "touch"]
  /\ UNCHANGED <<feed, tables, state, resp, tx, up, cancelled, faults, lostAcks>>

\* The transaction of an unchanged poll writes last_successful_poll only.
TouchState(r) ==
  /\ up /\ pc[r] = "touch"
  /\ pc' = [pc EXCEPT ![r] = "wait"]
  /\ UNCHANGED <<feed, tables, state, resp, tx, up, cancelled, faults, lostAcks>>

\* 200, which a server may also answer to validators it knows.
Respond(r) ==
  /\ up /\ pc[r] = "request"
  /\ ~cancelled
  /\ \E v \in {None, feed[r]} :
       resp' = [resp EXCEPT ![r] = [NoResp EXCEPT !.file = feed[r], !.validators = v]]
  /\ pc' = [pc EXCEPT ![r] = "read"]
  /\ UNCHANGED <<feed, tables, state, tx, up, cancelled, faults, lostAcks>>

Reading(r) == up /\ pc[r] = "read"

AtEnd(r) == resp[r].read = Len(Files[resp[r].file])

\* Mutant: the check is not made.
Parses_Always(row) == TRUE

Parses(row) == row.item > 0

SameStamp(r, row) == resp[r].updatedAt \in {None, row.at}

\* Newer than what this goroutine stored last.
Newer(r, row) == state[r].sourceAt = None \/ row.at > state[r].sourceAt

Acceptable(r, n) ==
  LET body == Files[resp[r].file] IN
  /\ Parses(body[n])
  /\ SameStamp(r, body[n])
  /\ Newer(r, body[n])
  /\ \A k \in 1..(n - 1) : body[k].item # body[n].item

\* flush: open the transaction if need be and COPY the batch.
Flush(r, n) ==
  /\ ~cancelled
  /\ ~Conflicts(Batch(r, n))
  /\ tx' = [tx EXCEPT ![r] = [open |-> TRUE, rows |-> @.rows \cup Batch(r, n)]]

ReadRow(r) ==
  /\ Reading(r) /\ ~AtEnd(r)
  /\ LET n == resp[r].read + 1 IN
       /\ Acceptable(r, n)
       /\ IF n % BatchSize = 0 THEN Flush(r, n) ELSE UNCHANGED tx
       /\ resp' = [resp EXCEPT ![r].read = n,
                               ![r].updatedAt = Files[resp[r].file][n].at]
  /\ UNCHANGED <<feed, tables, state, pc, up, cancelled, faults, lostAcks>>

RejectRow(r) ==
  /\ Reading(r) /\ ~AtEnd(r)
  /\ LET n == resp[r].read + 1 IN
       \/ ~Acceptable(r, n)
       \/ n % BatchSize = 0 /\ Conflicts(Batch(r, n))
  /\ GiveUp(r)
  /\ UNCHANGED faults

\* Mutant: a file without rows is a file.
HasRows_Always(r) == TRUE

HasRows(r) == resp[r].read > 0

\* EOF after at least one row, and the last partial batch.
EndOfFile(r) ==
  /\ Reading(r) /\ AtEnd(r)
  /\ HasRows(r)
  /\ IF resp[r].read % BatchSize # 0 THEN Flush(r, resp[r].read) ELSE UNCHANGED tx
  /\ pc' = [pc EXCEPT ![r] = "upsert"]
  /\ UNCHANGED <<feed, tables, state, resp, up, cancelled, faults, lostAcks>>

RejectFile(r) ==
  /\ Reading(r) /\ AtEnd(r)
  /\ \/ ~HasRows(r)
     \/ resp[r].read % BatchSize # 0 /\ Conflicts(Batch(r, resp[r].read))
  /\ GiveUp(r)
  /\ UNCHANGED faults

Stored(r) == [validators |-> resp[r].validators, sourceAt |-> resp[r].updatedAt]

\* Mutant: the state row is written outside tx.
UpsertState_OwnTransaction(r) ==
  /\ up /\ pc[r] = "upsert"
  /\ ~cancelled
  /\ tsmState' = [tsmState EXCEPT ![r] = Stored(r)]
  /\ pc' = [pc EXCEPT ![r] = "commit"]
  /\ UNCHANGED <<feed, snapshots, state, resp, tx, up, cancelled, faults, lostAcks>>

\* tx.Exec of the state upsert: it dereferences tx, so tx must be open.
UpsertState(r) ==
  /\ up /\ pc[r] = "upsert"
  /\ ~cancelled
  /\ tx[r].open
  /\ pc' = [pc EXCEPT ![r] = "commit"]
  /\ UNCHANGED <<feed, tables, state, resp, tx, up, cancelled, faults, lostAcks>>

\* What the server does when it commits tx.
ApplySnapshot(r) ==
  /\ snapshots' = snapshots \cup tx[r].rows
  /\ tsmState' = [tsmState EXCEPT ![r] = Stored(r)]

\* Mutant: the source timestamp in memory stays the one that was loaded.
Remember_Validators(r) == [state EXCEPT ![r].validators = resp[r].validators]

Remember(r) == [state EXCEPT ![r] = Stored(r)]

Commit(r) ==
  /\ up /\ pc[r] = "commit"
  /\ ApplySnapshot(r)
  /\ state' = Remember(r)
  /\ tx' = [tx EXCEPT ![r] = NoTx]
  /\ resp' = [resp EXCEPT ![r] = NoResp]
  /\ pc' = [pc EXCEPT ![r] = "wait"]
  /\ UNCHANGED <<feed, up, cancelled, faults, lostAcks>>

\* The commit is applied but the goroutine sees an error.
CommitAckLost(r) ==
  /\ up /\ pc[r] = "commit"
  /\ lostAcks < MaxLostAcks
  /\ lostAcks' = lostAcks + 1
  /\ ApplySnapshot(r)
  /\ tx' = [tx EXCEPT ![r] = NoTx]
  /\ resp' = [resp EXCEPT ![r] = NoResp]
  /\ pc' = [pc EXCEPT ![r] = IF cancelled THEN "ended" ELSE "wait"]
  /\ UNCHANGED <<feed, state, up, cancelled, faults>>

-----------------------------------------------------------------------------
(* TSM, signals, crashes and restarts *)

Publish(r) ==
  /\ feed[r] < Len(Files)
  /\ feed' = [feed EXCEPT ![r] = @ + 1]
  /\ UNCHANGED <<tables, state, pc, resp, tx, up, cancelled, faults, lostAcks>>

\* SIGTERM, or the Blizzard loop returning an error to the errgroup.
Cancel ==
  /\ \E r \in Region : Live(r)
  /\ ~cancelled
  /\ faults < MaxFaults
  /\ cancelled' = TRUE
  /\ faults' = faults + 1
  /\ UNCHANGED <<feed, tables, state, pc, resp, tx, up, lostAcks>>

\* The process dies: open transactions roll back, but a commit on its way to
\* the server may still be applied.
Crash ==
  /\ \E r \in Region : Live(r)
  /\ faults < MaxFaults
  /\ faults' = faults + 1
  /\ up' = FALSE
  /\ UNCHANGED <<feed, tables, state, pc, resp, tx, cancelled, lostAcks>>

CommitLands(r) ==
  /\ ~up /\ pc[r] = "commit" /\ tx[r].open
  /\ ApplySnapshot(r)
  /\ tx' = [tx EXCEPT ![r] = NoTx]
  /\ UNCHANGED <<feed, state, pc, resp, up, cancelled, faults, lostAcks>>

\* A new process, after a crash or once every goroutine has returned.
Start ==
  /\ \A r \in Region : ~Live(r)
  /\ up' = TRUE
  /\ cancelled' = FALSE
  /\ state' = [r \in Region |-> Unknown]
  /\ pc' = [r \in Region |-> "load"]
  /\ resp' = [r \in Region |-> NoResp]
  /\ tx' = [r \in Region |-> NoTx]
  /\ UNCHANGED <<feed, tables, faults, lostAcks>>

-----------------------------------------------------------------------------

Init ==
  /\ feed = [r \in Region |-> 1]
  /\ snapshots = {}
  /\ tsmState = [r \in Region |-> Unknown]
  /\ state = [r \in Region |-> Unknown]
  /\ pc = [r \in Region |-> "load"]
  /\ resp = [r \in Region |-> NoResp]
  /\ tx = [r \in Region |-> NoTx]
  /\ up = TRUE
  /\ cancelled = FALSE
  /\ faults = 0
  /\ lostAcks = 0

\* One step of the goroutine of region r.
RunRegion(r) ==
  \/ LoadState(r) \/ LoadFails(r) \/ Wake(r) \/ PollFails(r)
  \/ NotModified(r) \/ TouchState(r) \/ Respond(r)
  \/ ReadRow(r) \/ RejectRow(r) \/ EndOfFile(r) \/ RejectFile(r)
  \/ UpsertState(r) \/ Commit(r) \/ CommitAckLost(r)

Next ==
  \/ \E r \in Region : RunRegion(r) \/ Publish(r) \/ CommitLands(r)
  \/ Cancel \/ Crash \/ Start

Spec == Init /\ [][Next]_vars

\* Goroutines are scheduled fairly and every call returns; the container
\* restarts a process that died.  A process whose goroutines have all
\* returned need never be started again.
Fairness ==
  /\ \A r \in Region : WF_vars(RunRegion(r))
  /\ WF_vars(~up /\ Start)

FairSpec == Spec /\ Fairness

-----------------------------------------------------------------------------
(* Properties *)

SnapshotRow == [region : Region, item : Nat \ {0}, at : Nat, file : File]

StateRow == [validators : Nat, sourceAt : Nat]

\* Type correctness of the goroutines' state and of the two tables.
TypeOK ==
  /\ feed \in [Region -> File]
  /\ snapshots \subseteq SnapshotRow
  /\ tsmState \in [Region -> StateRow]
  /\ state \in [Region -> StateRow]
  /\ pc \in [Region -> {"load", "request", "touch", "read", "upsert", "commit",
                        "wait", "ended"}]
  /\ resp \in [Region -> [file : Nat, read : Nat, updatedAt : Nat, validators : Nat]]
  /\ tx \in [Region -> [open : BOOLEAN, rows : SUBSET SnapshotRow]]
  /\ up \in BOOLEAN
  /\ cancelled \in BOOLEAN
  /\ faults \in 0..MaxFaults
  /\ lostAcks \in 0..MaxLostAcks

Stamps(f) == {Files[f][k].at : k \in 1..Len(Files[f])}

\* One timestamp, items that parse, none of them twice: a file worth storing.
WellFormed(f) ==
  /\ \E t \in Stamps(f) : Stamps(f) = {t}
  /\ \A k \in 1..Len(Files[f]) : Files[f][k].item > 0
  /\ \A j, k \in 1..Len(Files[f]) : Files[f][j].item = Files[f][k].item => j = k

Holds(r, f) == FileRows(r, f) # {} /\ FileRows(r, f) \subseteq snapshots

\* The rows under one region and source timestamp are one well-formed file,
\* all of it and nothing else, whatever failed on the way and however the
\* batches fell: "a duplicate rejects and rolls back the complete file",
\* "mixed timestamps reject" (docs/data-invariants.md).
WholeFile ==
  \A row \in snapshots :
    WellFormed(row.file) /\ SnapshotAt(row.region, row.at) = FileRows(row.region, row.file)

\* A committed source timestamp has its file in the table and nothing newer
\* beside it: rows and source timestamp "advance atomically".
SourceIsNewest ==
  \A r \in Region :
    /\ tsmState[r].sourceAt # None => SnapshotAt(r, tsmState[r].sourceAt) # {}
    /\ \A row \in snapshots : row.region = r => row.at <= tsmState[r].sourceAt

\* The validators a request may carry, now or after a restart, are those of a
\* file stored completely: a 304 can only withhold what is in the database
\* ("the next conditional GET therefore retries the changed object").
ValidatorsBacked ==
  \A r \in Region :
    /\ tsmState[r].validators # None => Holds(r, tsmState[r].validators)
    /\ state[r].validators # None => Holds(r, state[r].validators)

\* A well-formed file that is newer than all those before it gets stored,
\* once failures cease, unless the region's goroutine has ended or TSM
\* publishes another file first; the other region has no say in it.
FilesArrive ==
  \A r \in Region : \A f \in File :
    (/\ WellFormed(f)
     /\ \A g \in 1..(f - 1) : \A s \in Stamps(g), t \in Stamps(f) : s < t) =>
      (feed[r] = f ~> (Holds(r, f) \/ pc[r] = "ended" \/ feed[r] # f))

\* "Independently poll [each region] once at startup and every
\* TSM_POLL_WINDOW" (internal/scraper/README.md): only the end of the process
\* ends the polling of a region.
RegionKeepsPolling == \A r \in Region : pc[r] = "ended" => cancelled \/ ~up

-----------------------------------------------------------------------------
(* The archive the goroutines implement *)

Archive == INSTANCE SnapshotArchive WITH
  Region <- Region,
  Version <- File,
  Content <- [f \in File |-> {<<Files[f][k].item, f>> : k \in 1..Len(Files[f])}],
  Stamp <- [f \in File |-> IF WellFormed(f) THEN Files[f][1].at ELSE None],
  Time <- UNION {Stamps(f) : f \in File},
  Repeats <- FALSE,
  available <- feed,
  archive <- {[region |-> row.region, entry |-> <<row.item, row.file>>, at |-> row.at] :
                row \in snapshots},
  pointer <- [r \in Region |-> tsmState[r].sourceAt]

\* Seen from the tables, everything the goroutines do is to archive whole
\* well-formed files (no other has a stamp), each newer than the last one.
ArchiveSpec == Archive!Spec

=============================================================================
