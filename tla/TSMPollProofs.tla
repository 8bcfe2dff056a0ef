--------------------------- MODULE TSMPollProofs ---------------------------
(***************************************************************************)
(* Proofs about the TSM polling loops, for any regions, any files, batch   *)
(* size and number of failures.                                            *)
(***************************************************************************)
EXTENDS TSMPoll, TLAPS

-----------------------------------------------------------------------------
(* Type correctness *)

\* The goroutine of r holds a response whose rows it reads or stores.
Polling(r) == pc[r] \in {"read", "upsert", "commit"}

\* The rows read so far are those of one well-formed file.
ReadSound ==
  \A r \in Region : Polling(r) =>
    LET f == resp[r].file  n == resp[r].read IN
    /\ f \in File /\ f <= feed[r]
    /\ n <= Len(Files[f])
    /\ resp[r].validators \in {None, f}
    /\ \A k \in 1..n : Files[f][k].item > 0 /\ Files[f][k].at = resp[r].updatedAt
    /\ \A j, k \in 1..n : Files[f][j].item = Files[f][k].item => j = k

TypeInv == TypeOK /\ ReadSound

\* A row of a file has an item and a positive timestamp.
LEMMA FileRowTyped ==
  ASSUME NEW f \in File, NEW k \in 1..Len(Files[f])
  PROVE  /\ Len(Files[f]) \in Nat
         /\ Files[f][k] \in FileRow
         /\ Files[f][k].item \in Nat
         /\ Files[f][k].at \in Nat \ {0}
<1>1. Files[f] \in Seq(FileRow)
  BY FilesAssumption DEF File
<1>2. Files[f][k] \in FileRow
  BY <1>1
<1> QED
  BY <1>1, <1>2 DEF FileRow

\* A file is a number, and not the absence of one.
LEMMA FileTyped ==
  ASSUME NEW f \in File
  PROVE  f \in Nat \ {0} /\ Len(Files[f]) \in Nat
<1>1. Files[f] \in Seq(FileRow) /\ Len(Files) \in Nat
  BY FilesAssumption DEF File
<1> QED
  BY <1>1 DEF File

\* The empty records belong to their types.
LEMMA EmptyTyped ==
  /\ Unknown \in StateRow
  /\ NoResp \in [file : Nat, read : Nat, updatedAt : Nat, validators : Nat]
  /\ NoTx \in [open : BOOLEAN, rows : SUBSET SnapshotRow]
  BY DEF Unknown, StateRow, NoResp, NoTx, None

\* Counting a failure stays within the bound.
LEMMA FaultsTyped == TypeOK /\ MayFail /\ CountFault => faults' \in 0..MaxFaults
  BY BoundsAssumption DEF TypeOK, MayFail, CountFault

-----------------------------------------------------------------------------
(* Batches *)

\* What \div and % are.
LEMMA Division ==
  ASSUME NEW n \in Nat, NEW b \in Nat \ {0}
  PROVE  n \div b \in Nat /\ n % b \in 0..(b - 1) /\ n = b * (n \div b) + (n % b)
  OBVIOUS

\* A quotient is determined by what it must satisfy.
LEMMA Quotient ==
  ASSUME NEW n \in Nat, NEW b \in Nat \ {0}, NEW q \in Int, NEW m \in 0..(b - 1),
         n = b * q + m
  PROVE  n \div b = q
  OBVIOUS

\* The rows flushed up to and including row n: all of them after a full batch,
\* otherwise those of the batches before.
LEMMA FlushedUpTo ==
  ASSUME NEW n \in Nat \ {0}, NEW b \in Nat \ {0}
  PROVE  /\ n % b # 0 => n \div b = (n - 1) \div b
         /\ n % b = 0 => (n \div b) * b = n
         /\ (n - 1) \div b \in Nat
         /\ 0 <= ((n - 1) \div b) * b /\ ((n - 1) \div b) * b < n
<1> DEFINE q == n \div b
           m == n % b
<1>1. q \in Nat /\ m \in 0..(b - 1) /\ n = b * q + m
  BY Division
<1> HIDE DEF q, m
<1>2. CASE m # 0
  <2>1. n - 1 = b * q + (m - 1) /\ m - 1 \in 0..(b - 1) /\ n - 1 \in Nat
    BY <1>1, <1>2
  <2>2. (n - 1) \div b = q
    BY <1>1, <2>1, Quotient
  <2> QED
    BY <1>1, <1>2, <2>2 DEF q, m
<1>3. CASE m = 0
  <2>1. /\ n - 1 = b * (q - 1) + (b - 1) /\ b - 1 \in 0..(b - 1)
        /\ n - 1 \in Nat /\ q - 1 \in Int
    BY <1>1, <1>3
  <2>2. (n - 1) \div b = q - 1
    BY <1>1, <2>1, Quotient
  <2>3. q # 0
    BY <1>1, <1>3
  <2>4. b * (q - 1) = n - b
    BY <1>1, <1>3
  <2>5. b * (q - 1) >= 0
    BY <1>1, <2>3
  <2> QED
    BY <1>1, <1>3, <2>2, <2>3, <2>4, <2>5 DEF q, m
<1> QED
  BY <1>2, <1>3

\* The first n rows of file f, as rows of region r.
Prefix(r, f, n) == {RowOf(r, f, k) : k \in 1..n}

\* A batch completes the batches before it.
LEMMA BatchExtends ==
  ASSUME NEW r \in Region, NEW n \in Nat \ {0}
  PROVE  Prefix(r, resp[r].file, ((n - 1) \div BatchSize) * BatchSize) \cup Batch(r, n)
           = Prefix(r, resp[r].file, n)
<1> DEFINE b == ((n - 1) \div BatchSize) * BatchSize
<1>1. b \in Nat /\ b < n
  BY FlushedUpTo, BoundsAssumption
<1> HIDE DEF b
<1>2. (1..b) \cup (b + 1 .. n) = 1..n
  BY <1>1
<1>3. {RowOf(r, resp[r].file, k) : k \in 1..b} \cup {RowOf(r, resp[r].file, k) : k \in b + 1 .. n}
        = {RowOf(r, resp[r].file, k) : k \in 1..n}
  BY <1>2
<1> QED
  BY <1>3 DEF Prefix, Batch, b

\* Rows that parse have the table's type.
LEMMA PrefixTyped ==
  ASSUME NEW r \in Region, NEW f \in File, NEW n \in Nat, n <= Len(Files[f]),
         \A k \in 1..n : Files[f][k].item > 0
  PROVE  Prefix(r, f, n) \subseteq SnapshotRow
<1> SUFFICES ASSUME NEW k \in 1..n
             PROVE  RowOf(r, f, k) \in SnapshotRow
  BY DEF Prefix
<1>1. k \in 1..Len(Files[f])
  BY FileTyped
<1> QED
  BY <1>1, FileRowTyped DEF RowOf, SnapshotRow

\* So do those of a batch of a file that is being read.
LEMMA BatchTyped ==
  ASSUME NEW r \in Region, NEW n \in Nat \ {0}, resp[r].file \in File,
         n <= Len(Files[resp[r].file]),
         \A k \in 1..n : Files[resp[r].file][k].item > 0
  PROVE  Batch(r, n) \subseteq SnapshotRow
<1>1. Batch(r, n) \subseteq Prefix(r, resp[r].file, n)
  BY BatchExtends
<1> QED
  BY <1>1, PrefixTyped

-----------------------------------------------------------------------------
(* Types are kept *)

\* A response just begun has its type.
LEMMA ResponseTyped ==
  ASSUME NEW f \in File, NEW v \in {None, f}
  PROVE  LET p == [NoResp EXCEPT !.file = f, !.validators = v] IN
         /\ p \in [file : Nat, read : Nat, updatedAt : Nat, validators : Nat]
         /\ p.file = f /\ p.read = 0 /\ p.updatedAt = None /\ p.validators = v
<1>1. f \in Nat /\ v \in Nat
  BY FileTyped DEF None
<1>2. NoResp \in [file : Nat, read : Nat, updatedAt : Nat, validators : Nat]
  BY EmptyTyped
<1> QED
  BY <1>1, <1>2 DEF NoResp

\* Initially nothing is read or stored.
LEMMA InitTyped == Init => TypeInv
<1> SUFFICES ASSUME Init PROVE TypeInv
  OBVIOUS
<1>1. 1 \in File
  BY FilesAssumption DEF File
<1>2. TypeOK
  <2>1. feed \in [Region -> File] /\ snapshots \subseteq SnapshotRow
    BY <1>1 DEF Init
  <2>2. tsmState \in [Region -> StateRow] /\ state \in [Region -> StateRow]
    BY EmptyTyped DEF Init
  <2>3. /\ resp \in [Region -> [file : Nat, read : Nat, updatedAt : Nat, validators : Nat]]
        /\ tx \in [Region -> [open : BOOLEAN, rows : SUBSET SnapshotRow]]
    BY EmptyTyped DEF Init
  <2>4. faults \in 0..MaxFaults /\ lostAcks \in 0..MaxLostAcks
    BY BoundsAssumption DEF Init
  <2> QED
    BY <2>1, <2>2, <2>3, <2>4 DEF Init, TypeOK
<1>3. ReadSound
  BY DEF Init, ReadSound, Polling
<1> QED
  BY <1>2, <1>3 DEF TypeInv

\* What a region's row n adds to the rows read so far.
LEMMA RowRead ==
  ASSUME TypeInv, NEW r \in Region, ReadRow(r)
  PROVE  LET f == resp[r].file  n == resp[r].read + 1 IN
         /\ f \in File /\ n \in Nat \ {0} /\ n <= Len(Files[f])
         /\ \A k \in 1..n : Files[f][k].item > 0 /\ Files[f][k].at = Files[f][n].at
         /\ \A j, k \in 1..n : Files[f][j].item = Files[f][k].item => j = k
         /\ state[r].sourceAt < Files[f][n].at
         /\ resp' = [resp EXCEPT ![r].read = n, ![r].updatedAt = Files[f][n].at]
         /\ resp'[r].file = f /\ resp'[r].read = n
         /\ resp'[r].updatedAt = Files[f][n].at /\ Files[f][n].at \in Nat \ {0}
         /\ resp'[r].validators = resp[r].validators
         /\ \A s \in Region \ {r} : resp'[s] = resp[s]
<1> DEFINE f == resp[r].file
           n == resp[r].read + 1
           m == resp[r].read
<1>1. /\ pc[r] = "read" /\ resp[r].read # Len(Files[f]) /\ Acceptable(r, n)
      /\ resp' = [resp EXCEPT ![r].read = n, ![r].updatedAt = Files[f][n].at]
  BY DEF ReadRow, Reading, AtEnd
<1>2. resp \in [Region -> [file : Nat, read : Nat, updatedAt : Nat, validators : Nat]]
  BY DEF TypeInv, TypeOK
<1>3. /\ f \in File /\ m \in Nat /\ m <= Len(Files[f])
      /\ \A k \in 1..m : Files[f][k].item > 0 /\ Files[f][k].at = resp[r].updatedAt
      /\ \A j, k \in 1..m : Files[f][j].item = Files[f][k].item => j = k
  BY <1>1, <1>2 DEF TypeInv, ReadSound, Polling
<1>4. n \in Nat \ {0} /\ n <= Len(Files[f]) /\ 1..m = 1..(n - 1) /\ 1..n = (1..m) \cup {n}
  BY <1>1, <1>3, FileTyped
<1>5. /\ Files[f][n].item > 0
      /\ resp[r].updatedAt = None \/ Files[f][n].at = resp[r].updatedAt
      /\ state[r].sourceAt = None \/ Files[f][n].at > state[r].sourceAt
      /\ \A k \in 1..m : Files[f][k].item # Files[f][n].item
  BY <1>1, <1>4 DEF Acceptable, Parses, SameStamp, Newer
<1>6. \A k \in 1..n : Files[f][k].at \in Nat \ {0}
  BY <1>3, <1>4, FileRowTyped, FileTyped
<1>7. \A k \in 1..n : Files[f][k].item > 0 /\ Files[f][k].at = Files[f][n].at
  BY <1>3, <1>4, <1>5, <1>6 DEF None
<1>8. \A j, k \in 1..n : Files[f][j].item = Files[f][k].item => j = k
  BY <1>3, <1>4, <1>5
<1>9. state[r].sourceAt < Files[f][n].at
  BY <1>4, <1>5, <1>6 DEF None
<1>10. Files[f][n].at \in Nat \ {0}
  BY <1>4, <1>6
<1> HIDE DEF n, m
<1>11. /\ resp'[r].file = f /\ resp'[r].read = n /\ resp'[r].updatedAt = Files[f][n].at
       /\ resp'[r].validators = resp[r].validators
       /\ \A s \in Region \ {r} : resp'[s] = resp[s]
  BY <1>1, <1>2
<1> QED
  BY <1>1, <1>3, <1>4, <1>7, <1>8, <1>9, <1>10, <1>11 DEF n

\* What an action of one region leaves alone.
LEMMA OthersUntouched ==
  ASSUME TypeOK, NEW r \in Region, RunRegion(r) \/ Publish(r) \/ CommitLands(r),
         NEW s \in Region, s # r
  PROVE  /\ pc'[s] = pc[s] /\ resp'[s] = resp[s] /\ tx'[s] = tx[s]
         /\ state'[s] = state[s] /\ tsmState'[s] = tsmState[s] /\ feed'[s] = feed[s]
<1> USE DEF tables, TypeOK
<1>1. CASE LoadState(r) \/ LoadFails(r) \/ Wake(r) \/ NotModified(r) \/ TouchState(r) \/ Respond(r)
  BY <1>1 DEF LoadState, LoadFails, Wake, NotModified, TouchState, Respond
<1>2. CASE PollFails(r) \/ RejectRow(r) \/ RejectFile(r)
  BY <1>2 DEF PollFails, RejectRow, RejectFile, GiveUp
<1>3. CASE ReadRow(r) \/ EndOfFile(r) \/ UpsertState(r)
  BY <1>3 DEF ReadRow, EndOfFile, UpsertState, Flush
<1>4. CASE Commit(r) \/ CommitAckLost(r) \/ CommitLands(r)
  BY <1>4 DEF Commit, CommitAckLost, CommitLands, ApplySnapshot, Remember
<1>5. CASE Publish(r)
  BY <1>5 DEF Publish
<1> QED
  BY <1>1, <1>2, <1>3, <1>4, <1>5 DEF RunRegion

\* Opening the transaction, if need be, and copying a batch.
LEMMA FlushTyped ==
  ASSUME TypeInv, NEW r \in Region, NEW n \in Nat \ {0}, resp[r].file \in File,
         n <= Len(Files[resp[r].file]),
         \A k \in 1..n : Files[resp[r].file][k].item > 0,
         Flush(r, n)
  PROVE  /\ tx' \in [Region -> [open : BOOLEAN, rows : SUBSET SnapshotRow]]
         /\ tx'[r] = [open |-> TRUE, rows |-> tx[r].rows \cup Batch(r, n)]
<1>1. Batch(r, n) \subseteq SnapshotRow
  BY BatchTyped
<1>2. tx \in [Region -> [open : BOOLEAN, rows : SUBSET SnapshotRow]]
  BY DEF TypeInv, TypeOK
<1>3. tx' = [tx EXCEPT ![r] = [open |-> TRUE, rows |-> tx[r].rows \cup Batch(r, n)]]
  BY DEF Flush
<1>4. [open |-> TRUE, rows |-> tx[r].rows \cup Batch(r, n)] \in [open : BOOLEAN, rows : SUBSET SnapshotRow]
  BY <1>1, <1>2
<1> QED
  BY <1>2, <1>3, <1>4

\* A commit, acknowledged or not, leaves the tables with their types.
LEMMA ApplySnapshotTyped ==
  ASSUME TypeInv, NEW r \in Region, ApplySnapshot(r)
  PROVE  /\ snapshots' \subseteq SnapshotRow
         /\ Stored(r) \in StateRow
         /\ tsmState' \in [Region -> StateRow]
         /\ tsmState'[r] = Stored(r)
<1>1. /\ resp[r] \in [file : Nat, read : Nat, updatedAt : Nat, validators : Nat]
      /\ tx[r] \in [open : BOOLEAN, rows : SUBSET SnapshotRow]
      /\ tsmState \in [Region -> StateRow] /\ snapshots \subseteq SnapshotRow
  BY DEF TypeInv, TypeOK
<1>2. Stored(r) \in StateRow
  BY <1>1 DEF Stored, StateRow
<1> QED
  BY <1>1, <1>2 DEF ApplySnapshot

\* The end of the file being read, reached after at least one row.
LEMMA FileRead ==
  ASSUME TypeInv, NEW r \in Region, EndOfFile(r)
  PROVE  LET f == resp[r].file  n == resp[r].read IN
         /\ f \in File /\ n \in Nat \ {0} /\ n = Len(Files[f])
         /\ \A k \in 1..n : Files[f][k].item > 0
<1>1. resp[r] \in [file : Nat, read : Nat, updatedAt : Nat, validators : Nat]
  BY DEF TypeInv, TypeOK
<1>2. pc[r] = "read" /\ resp[r].read = Len(Files[resp[r].file]) /\ resp[r].read > 0
  BY DEF EndOfFile, Reading, AtEnd, HasRows
<1> QED
  BY <1>1, <1>2 DEF TypeInv, ReadSound, Polling

\* Every step keeps the types.
LEMMA NextTyped == TypeInv /\ [Next]_vars => TypeOK'
<1> SUFFICES ASSUME TypeInv, [Next]_vars PROVE TypeOK'
  OBVIOUS
<1> USE DEF tables
<1>0. TypeOK
  BY DEF TypeInv
<1>1. ASSUME NEW r \in Region,
             LoadState(r) \/ LoadFails(r) \/ Wake(r) \/ NotModified(r) \/ TouchState(r)
      PROVE  TypeOK'
  BY <1>0, <1>1, FaultsTyped DEF TypeOK, LoadState, LoadFails, Wake, NotModified, TouchState
<1>2. ASSUME NEW r \in Region, PollFails(r) \/ RejectRow(r) \/ RejectFile(r)
      PROVE  TypeOK'
  <2>1. GiveUp(r) /\ faults' \in 0..MaxFaults
    BY <1>0, <1>2, FaultsTyped DEF PollFails, RejectRow, RejectFile, TypeOK
  <2> QED
    BY <1>0, <2>1, EmptyTyped DEF TypeOK, GiveUp
<1>3. ASSUME NEW r \in Region, Respond(r) PROVE TypeOK'
  <2>1. feed[r] \in File
    BY <1>0 DEF TypeOK
  <2>2. resp' \in [Region -> [file : Nat, read : Nat, updatedAt : Nat, validators : Nat]]
    <3>1. PICK v \in {None, feed[r]} :
            resp' = [resp EXCEPT ![r] = [NoResp EXCEPT !.file = feed[r], !.validators = v]]
      BY <1>3 DEF Respond
    <3>2. [NoResp EXCEPT !.file = feed[r], !.validators = v]
             \in [file : Nat, read : Nat, updatedAt : Nat, validators : Nat]
      BY <2>1, ResponseTyped
    <3> QED
      BY <1>0, <3>1, <3>2 DEF TypeOK
  <2> QED
    BY <1>0, <1>3, <2>2 DEF Respond, TypeOK
<1>4. ASSUME NEW r \in Region, ReadRow(r) PROVE TypeOK'
  <2> DEFINE n == resp[r].read + 1
  <2>1. /\ resp[r].file \in File /\ n \in Nat \ {0} /\ n <= Len(Files[resp[r].file])
        /\ \A k \in 1..n : Files[resp[r].file][k].item > 0
        /\ Files[resp[r].file][n].at \in Nat
        /\ resp' = [resp EXCEPT ![r].read = n, ![r].updatedAt = Files[resp[r].file][n].at]
    BY <1>4, RowRead
  <2>2. Flush(r, n) \/ tx' = tx
    BY <1>4 DEF ReadRow
  <2> HIDE DEF n
  <2>3. tx' \in [Region -> [open : BOOLEAN, rows : SUBSET SnapshotRow]]
    BY <1>0, <2>1, <2>2, FlushTyped DEF TypeOK
  <2>4. resp' \in [Region -> [file : Nat, read : Nat, updatedAt : Nat, validators : Nat]]
    <3> DEFINE t == Files[resp[r].file][n].at
               R == [file : Nat, read : Nat, updatedAt : Nat, validators : Nat]
    <3>1. resp \in [Region -> R] /\ n \in Nat /\ t \in Nat
      BY <1>0, <2>1 DEF TypeOK
    <3>2. resp' = [resp EXCEPT ![r].read = n, ![r].updatedAt = t]
      BY <2>1
    <3> HIDE DEF t
    <3> QED
      BY <3>1, <3>2
  <2> QED
    BY <1>0, <1>4, <2>3, <2>4 DEF ReadRow, TypeOK
<1>5. ASSUME NEW r \in Region, EndOfFile(r) PROVE TypeOK'
  <2>1. Flush(r, resp[r].read) \/ tx' = tx
    BY <1>5 DEF EndOfFile
  <2>2. resp[r].read <= resp[r].read
    BY <1>5, FileRead
  <2>3. tx' \in [Region -> [open : BOOLEAN, rows : SUBSET SnapshotRow]]
    BY <1>0, <1>5, <2>1, <2>2, FileRead, FlushTyped DEF TypeOK
  <2> QED
    BY <1>0, <1>5, <2>3 DEF EndOfFile, TypeOK
<1>6. ASSUME NEW r \in Region, UpsertState(r) PROVE TypeOK'
  BY <1>0, <1>6 DEF UpsertState, TypeOK
<1>7. ASSUME NEW r \in Region, Commit(r) \/ CommitAckLost(r) \/ CommitLands(r)
      PROVE  TypeOK'
  <2>1. ApplySnapshot(r)
    BY <1>7 DEF Commit, CommitAckLost, CommitLands
  <2>2. lostAcks' \in 0..MaxLostAcks
    BY <1>0, <1>7, BoundsAssumption DEF TypeOK, Commit, CommitAckLost, CommitLands
  <2>3. state' \in [Region -> StateRow]
    BY <1>0, <1>7, <2>1, ApplySnapshotTyped DEF TypeOK, Commit, CommitAckLost, CommitLands, Remember
  <2>4. /\ snapshots' \subseteq SnapshotRow
        /\ tsmState' \in [Region -> StateRow]
    BY <2>1, ApplySnapshotTyped
  <2>5. CASE Commit(r) \/ CommitAckLost(r)
    <3>1. /\ tx' = [tx EXCEPT ![r] = NoTx] /\ resp' = [resp EXCEPT ![r] = NoResp]
          /\ \/ pc' = [pc EXCEPT ![r] = "wait"]
             \/ pc' = [pc EXCEPT ![r] = IF cancelled THEN "ended" ELSE "wait"]
          /\ UNCHANGED <<feed, up, cancelled, faults>>
      BY <2>5 DEF Commit, CommitAckLost
    <3> QED
      BY <1>0, <2>2, <2>3, <2>4, <3>1, EmptyTyped DEF TypeOK
  <2>6. CASE CommitLands(r)
    <3>1. /\ tx' = [tx EXCEPT ![r] = NoTx]
          /\ UNCHANGED <<feed, pc, resp, up, cancelled, faults>>
      BY <2>6 DEF CommitLands
    <3> QED
      BY <1>0, <2>2, <2>3, <2>4, <3>1, EmptyTyped DEF TypeOK
  <2> QED
    BY <1>7, <2>5, <2>6
<1>8. ASSUME NEW r \in Region, Publish(r) PROVE TypeOK'
  <2>1. feed' \in [Region -> File]
    BY <1>0, <1>8, FilesAssumption DEF TypeOK, Publish, File
  <2> QED
    BY <1>0, <1>8, <2>1 DEF TypeOK, Publish
<1>9. CASE Cancel \/ Crash
  <2>1. /\ faults' \in 0..MaxFaults /\ up' \in BOOLEAN /\ cancelled' \in BOOLEAN
        /\ UNCHANGED <<feed, tables, state, pc, resp, tx, lostAcks>>
    <3>1. CASE Cancel
      BY <1>0, <3>1, BoundsAssumption DEF TypeOK, Cancel
    <3>2. CASE Crash
      <4>1. faults < MaxFaults /\ faults' = faults + 1 /\ up' = FALSE /\ cancelled' = cancelled
            /\ UNCHANGED <<feed, tables, state, pc, resp, tx, lostAcks>>
        BY <3>2 DEF Crash
      <4>2. faults' \in 0..MaxFaults
        BY <1>0, <4>1, BoundsAssumption DEF TypeOK
      <4>3. up' \in BOOLEAN /\ cancelled' \in BOOLEAN
        BY <1>0, <4>1, Zenon DEF TypeOK
      <4> QED
        BY <4>1, <4>2, <4>3
    <3> QED
      BY <1>9, <3>1, <3>2
  <2> QED
    BY <1>0, <2>1 DEF TypeOK
<1>10. CASE Start
  BY <1>0, <1>10, EmptyTyped DEF TypeOK, Start
<1>11. CASE UNCHANGED vars
  BY <1>0, <1>11 DEF TypeOK, vars
<1> QED
  BY <1>1, <1>2, <1>3, <1>4, <1>5, <1>6, <1>7, <1>8, <1>9, <1>10, <1>11 DEF Next, RunRegion

\* Every step keeps what is known of the rows read.
LEMMA NextReadSound == TypeInv /\ [Next]_vars => ReadSound'
<1> SUFFICES ASSUME TypeInv, [Next]_vars, NEW r \in Region, Polling(r)'
             PROVE  LET f == resp'[r].file  n == resp'[r].read IN
                    /\ f \in File /\ f <= feed'[r]
                    /\ n <= Len(Files[f])
                    /\ resp'[r].validators \in {None, f}
                    /\ \A k \in 1..n : Files[f][k].item > 0 /\ Files[f][k].at = resp'[r].updatedAt
                    /\ \A j, k \in 1..n : Files[f][j].item = Files[f][k].item => j = k
  BY DEF ReadSound
<1> USE DEF tables
<1>0. TypeOK /\ ReadSound /\ TypeOK'
  BY NextTyped DEF TypeInv
<1>1. ASSUME Polling(r), resp'[r] = resp[r], feed'[r] >= feed[r]
      PROVE  LET f == resp'[r].file  n == resp'[r].read IN
             /\ f \in File /\ f <= feed'[r]
             /\ n <= Len(Files[f])
             /\ resp'[r].validators \in {None, f}
             /\ \A k \in 1..n : Files[f][k].item > 0 /\ Files[f][k].at = resp'[r].updatedAt
             /\ \A j, k \in 1..n : Files[f][j].item = Files[f][k].item => j = k
  <2>1. feed[r] \in Nat /\ feed'[r] \in Nat /\ resp[r].file \in Nat
    BY <1>0, FileTyped DEF TypeOK
  <2>2. resp[r].file <= feed'[r]
    BY <1>0, <1>1, <2>1 DEF ReadSound
  <2> QED
    BY <1>0, <1>1, <2>2 DEF ReadSound
<1>2. /\ pc \in [Region -> {"load", "request", "touch", "read", "upsert", "commit",
                            "wait", "ended"}]
      /\ feed[r] \in File /\ feed[r] \in Nat
  BY <1>0, FileTyped DEF TypeOK
<1>3. ASSUME NEW s \in Region, s # r, RunRegion(s) \/ Publish(s) \/ CommitLands(s)
      PROVE  Polling(r) /\ resp'[r] = resp[r] /\ feed'[r] >= feed[r]
  <2>1. pc'[r] = pc[r] /\ resp'[r] = resp[r] /\ feed'[r] = feed[r]
    BY <1>0, <1>3, OthersUntouched
  <2> QED
    BY <1>2, <2>1 DEF Polling
<1>4. CASE LoadState(r) \/ LoadFails(r) \/ Wake(r) \/ NotModified(r) \/ TouchState(r)
  BY <1>2, <1>4 DEF LoadState, LoadFails, Wake, NotModified, TouchState, Polling
<1>5. CASE PollFails(r) \/ RejectRow(r) \/ RejectFile(r)
  BY <1>2, <1>5 DEF PollFails, RejectRow, RejectFile, GiveUp, Polling
<1>6. CASE Respond(r)
  <2>1. PICK v \in {None, feed[r]} :
          resp' = [resp EXCEPT ![r] = [NoResp EXCEPT !.file = feed[r], !.validators = v]]
    BY <1>6 DEF Respond
  <2>2. resp'[r].file = feed[r] /\ resp'[r].read = 0 /\ resp'[r].validators = v
    BY <1>0, <1>2, <2>1, ResponseTyped DEF TypeOK
  <2>3. feed' = feed
    BY <1>6 DEF Respond
  <2> QED
    BY <1>2, <2>2, <2>3, FileTyped
<1>7. CASE ReadRow(r)
  <2>1. feed' = feed /\ pc' = pc
    BY <1>7 DEF ReadRow
  <2>2. Polling(r)
    BY <2>1 DEF Polling
  <2>3. resp[r].file <= feed[r] /\ resp[r].validators \in {None, resp[r].file}
    BY <1>0, <2>2 DEF ReadSound
  <2>4. /\ resp'[r].file = resp[r].file /\ resp'[r].validators = resp[r].validators
        /\ resp'[r].file \in File /\ resp'[r].read <= Len(Files[resp'[r].file])
        /\ \A k \in 1..resp'[r].read : /\ Files[resp'[r].file][k].item > 0
                                       /\ Files[resp'[r].file][k].at = resp'[r].updatedAt
        /\ \A j, k \in 1..resp'[r].read :
             Files[resp'[r].file][j].item = Files[resp'[r].file][k].item => j = k
    <3> DEFINE f == resp[r].file  n == resp[r].read + 1
    <3>1. resp'[r].file = f /\ resp'[r].read = n /\ resp'[r].updatedAt = Files[f][n].at
      BY <1>7, RowRead
    <3>2. /\ resp'[r].validators = resp[r].validators
          /\ f \in File /\ n <= Len(Files[f])
          /\ \A k \in 1..n : Files[f][k].item > 0 /\ Files[f][k].at = Files[f][n].at
          /\ \A j, k \in 1..n : Files[f][j].item = Files[f][k].item => j = k
      BY <1>7, RowRead
    <3> HIDE DEF n, f
    <3> QED
      BY <3>1, <3>2 DEF f
  <2> QED
    BY <2>1, <2>3, <2>4
<1>8. CASE EndOfFile(r) \/ UpsertState(r)
  <2>1. Polling(r) /\ resp' = resp /\ feed' = feed
    BY <1>8 DEF EndOfFile, UpsertState, Polling, Reading
  <2> QED
    BY <1>1, <1>2, <2>1
<1>9. CASE Commit(r) \/ CommitAckLost(r)
  BY <1>2, <1>9 DEF Commit, CommitAckLost, Polling
<1>10. CASE Publish(r) \/ CommitLands(r) \/ Cancel \/ Crash \/ UNCHANGED vars
  <2>1. Polling(r) /\ resp' = resp
    BY <1>10 DEF Publish, CommitLands, Cancel, Crash, vars, Polling
  <2>2. feed'[r] >= feed[r]
    BY <1>0, <1>2, <1>10 DEF Publish, CommitLands, Cancel, Crash, vars, TypeOK
  <2> QED
    BY <1>1, <2>1, <2>2
<1>11. CASE Start
  BY <1>11 DEF Start, Polling
<1> QED
  <2>1. CASE \E s \in Region : RunRegion(s) \/ Publish(s) \/ CommitLands(s)
    <3>1. PICK s \in Region : RunRegion(s) \/ Publish(s) \/ CommitLands(s)
      BY <2>1
    <3>2. CASE s # r
      BY <1>1, <1>3, <3>1, <3>2
    <3>3. CASE s = r
      BY <1>4, <1>5, <1>6, <1>7, <1>8, <1>9, <1>10, <3>1, <3>3, Zenon DEF RunRegion
    <3> QED
      BY <3>2, <3>3, Zenon
  <2> QED
    BY <1>10, <1>11, <2>1, Zenon DEF Next

\* The state and the tables keep their types, and what is read is one
\* well-formed file so far.
THEOREM TypeInvariance == Spec => []TypeInv
<1>1. TypeInv /\ [Next]_vars => TypeInv'
  BY NextTyped, NextReadSound DEF TypeInv
<1> QED
  BY <1>1, InitTyped, PTL DEF Spec

\* Type correctness of the goroutines' state and of the two tables, for any
\* files and batch size (TypeOK of TSMPoll).
THEOREM TypeCorrect == Spec => []TypeOK
<1>1. TypeInv => TypeOK
  BY DEF TypeInv
<1> QED
  BY <1>1, TypeInvariance, PTL

-----------------------------------------------------------------------------
(* What the transaction holds *)

\* The transaction of r can still be committed.
Active(r) == up \/ (pc[r] = "commit" /\ tx[r].open)

\* The transaction holds the full batches read, and in the end the file.
TxHoldsPrefix ==
  \A r \in Region :
    LET f == resp[r].file  n == resp[r].read IN
    /\ ~Polling(r) => tx[r].rows = {}
    /\ pc[r] = "read" => tx[r].rows = Prefix(r, f, (n \div BatchSize) * BatchSize)
    /\ pc[r] \in {"upsert", "commit"} =>
         /\ n = Len(Files[f]) /\ n > 0
         /\ Active(r) => tx[r].rows = FileRows(r, f)

\* Nothing is in a transaction before a response.
LEMMA InitTx == Init => TxHoldsPrefix
<1> SUFFICES ASSUME Init, NEW r \in Region
             PROVE  tx[r].rows = {} /\ pc[r] = "load"
  BY DEF TxHoldsPrefix
<1> QED
  BY DEF Init, NoTx

\* Flushing at the end of a batch, and only there, keeps the prefix.
LEMMA ReadTx ==
  ASSUME TypeInv, NEW r \in Region, ReadRow(r),
         tx[r].rows = Prefix(r, resp[r].file, (resp[r].read \div BatchSize) * BatchSize)
  PROVE  tx'[r].rows = Prefix(r, resp[r].file, (resp'[r].read \div BatchSize) * BatchSize)
<1> DEFINE f == resp[r].file
           n == resp[r].read + 1
<1>1. /\ n \in Nat \ {0} /\ f \in File /\ n <= Len(Files[f]) /\ resp'[r].read = n
      /\ \A k \in 1..n : Files[f][k].item > 0
  BY RowRead
<1>2. resp[r].read = n - 1
  BY DEF TypeInv, TypeOK
<1>3. IF n % BatchSize = 0 THEN Flush(r, n) ELSE UNCHANGED tx
  BY DEF ReadRow
<1> HIDE DEF n
<1>4. CASE n % BatchSize = 0
  <2>1. tx'[r] = [open |-> TRUE, rows |-> tx[r].rows \cup Batch(r, n)]
    BY <1>1, <1>3, <1>4, FlushTyped
  <2>2. tx'[r].rows = Prefix(r, f, n)
    BY <1>1, <1>2, <2>1, BatchExtends
  <2>3. (n \div BatchSize) * BatchSize = n
    BY <1>1, <1>4, FlushedUpTo, BoundsAssumption
  <2> QED
    BY <1>1, <2>2, <2>3
<1>5. CASE n % BatchSize # 0
  <2>1. n \div BatchSize = (n - 1) \div BatchSize
    BY <1>1, <1>5, FlushedUpTo, BoundsAssumption
  <2> QED
    BY <1>1, <1>2, <1>3, <1>5, <2>1
<1> QED
  BY <1>4, <1>5

\* The last batch, full or not, completes the file.
LEMMA LastBatch ==
  ASSUME TypeInv, NEW r \in Region, EndOfFile(r),
         tx[r].rows = Prefix(r, resp[r].file, (resp[r].read \div BatchSize) * BatchSize)
  PROVE  tx'[r].rows = FileRows(r, resp[r].file)
<1> DEFINE f == resp[r].file
           n == resp[r].read
<1>1. /\ f \in File /\ n \in Nat \ {0} /\ n = Len(Files[f])
      /\ \A k \in 1..n : Files[f][k].item > 0
  BY FileRead
<1>2. IF n % BatchSize # 0 THEN Flush(r, n) ELSE UNCHANGED tx
  BY DEF EndOfFile
<1>3. FileRows(r, f) = Prefix(r, f, n)
  BY <1>1 DEF FileRows, Prefix
<1> HIDE DEF n
<1>4. CASE n % BatchSize # 0
  <2>1. tx'[r] = [open |-> TRUE, rows |-> tx[r].rows \cup Batch(r, n)]
    <3>1. n <= Len(Files[f])
      BY <1>1
    <3> QED
      BY <1>1, <1>2, <1>4, <3>1, FlushTyped
  <2>2. tx[r].rows = Prefix(r, f, ((n - 1) \div BatchSize) * BatchSize)
    BY <1>1, <1>4, FlushedUpTo, BoundsAssumption DEF n
  <2>3. Prefix(r, f, ((n - 1) \div BatchSize) * BatchSize) \cup Batch(r, n) = Prefix(r, f, n)
    BY <1>1, BatchExtends
  <2> QED
    BY <1>3, <2>1, <2>2, <2>3
<1>5. CASE n % BatchSize = 0
  <2>1. (n \div BatchSize) * BatchSize = n
    BY <1>1, <1>5, FlushedUpTo, BoundsAssumption
  <2>2. tx' = tx
    BY <1>2, <1>5
  <2>3. tx[r].rows = Prefix(r, f, (n \div BatchSize) * BatchSize)
    BY DEF n
  <2> QED
    BY <1>3, <2>1, <2>2, <2>3, Zenon
<1> QED
  BY <1>4, <1>5

\* Every step keeps what the transactions hold.
LEMMA NextTx == TypeInv /\ TxHoldsPrefix /\ [Next]_vars => TxHoldsPrefix'
<1> SUFFICES ASSUME TypeInv, TxHoldsPrefix, [Next]_vars, NEW r \in Region
             PROVE  LET f == resp'[r].file  n == resp'[r].read IN
                    /\ ~Polling(r)' => tx'[r].rows = {}
                    /\ pc'[r] = "read" => tx'[r].rows = Prefix(r, f, (n \div BatchSize) * BatchSize)
                    /\ pc'[r] \in {"upsert", "commit"} =>
                         /\ n = Len(Files[f]) /\ n > 0
                         /\ Active(r)' => tx'[r].rows = FileRows(r, f)
  BY DEF TxHoldsPrefix, Prefix, RowOf, FileRows
<1> USE DEF tables
<1>0. TypeOK /\ TypeOK'
  BY NextTyped DEF TypeInv
<1>1. ASSUME pc'[r] = pc[r], resp'[r] = resp[r], tx'[r].rows = tx[r].rows, Active(r)' => Active(r)
      PROVE  LET f == resp'[r].file  n == resp'[r].read IN
             /\ ~Polling(r)' => tx'[r].rows = {}
             /\ pc'[r] = "read" => tx'[r].rows = Prefix(r, f, (n \div BatchSize) * BatchSize)
             /\ pc'[r] \in {"upsert", "commit"} =>
                  /\ n = Len(Files[f]) /\ n > 0
                  /\ Active(r)' => tx'[r].rows = FileRows(r, f)
  BY <1>1 DEF TxHoldsPrefix, Polling
<1>2. ASSUME pc'[r] \notin {"read", "upsert", "commit"}, tx'[r].rows = {}
      PROVE  LET f == resp'[r].file  n == resp'[r].read IN
             /\ ~Polling(r)' => tx'[r].rows = {}
             /\ pc'[r] = "read" => tx'[r].rows = Prefix(r, f, (n \div BatchSize) * BatchSize)
             /\ pc'[r] \in {"upsert", "commit"} =>
                  /\ n = Len(Files[f]) /\ n > 0
                  /\ Active(r)' => tx'[r].rows = FileRows(r, f)
  BY <1>2
<1>3. /\ pc \in [Region -> {"load", "request", "touch", "read", "upsert", "commit",
                            "wait", "ended"}]
      /\ tx \in [Region -> [open : BOOLEAN, rows : SUBSET SnapshotRow]]
      /\ NoTx.rows = {} /\ NoTx.open = FALSE
  BY <1>0 DEF TypeOK, NoTx
<1>4. ASSUME NEW s \in Region, s # r, RunRegion(s) \/ Publish(s) \/ CommitLands(s)
      PROVE  /\ pc'[r] = pc[r] /\ resp'[r] = resp[r] /\ tx'[r].rows = tx[r].rows
             /\ Active(r)' => Active(r)
  <2>1. pc'[r] = pc[r] /\ resp'[r] = resp[r] /\ tx'[r] = tx[r]
    BY <1>0, <1>4, OthersUntouched
  <2>2. up' = up
    BY <1>4 DEF RunRegion, LoadState, LoadFails, Wake, PollFails, NotModified, TouchState, Respond, ReadRow,
                RejectRow, EndOfFile, RejectFile, GiveUp, UpsertState, Commit, CommitAckLost, Publish, CommitLands
  <2> QED
    BY <2>1, <2>2 DEF Active
<1>5. CASE LoadState(r) \/ LoadFails(r) \/ Wake(r) \/ NotModified(r) \/ TouchState(r)
  <2>1. pc'[r] \notin {"read", "upsert", "commit"} /\ ~Polling(r) /\ tx' = tx
    BY <1>3, <1>5 DEF LoadState, LoadFails, Wake, NotModified, TouchState, Polling
  <2> QED
    BY <1>2, <2>1 DEF TxHoldsPrefix
<1>6. CASE PollFails(r) \/ RejectRow(r) \/ RejectFile(r) \/ Commit(r) \/ CommitAckLost(r)
  <2>1. pc'[r] \notin {"read", "upsert", "commit"} /\ tx'[r].rows = {}
    BY <1>3, <1>6 DEF PollFails, RejectRow, RejectFile, GiveUp, Commit, CommitAckLost
  <2> QED
    BY <1>2, <2>1
<1>7. CASE Respond(r)
  <2>1. pc'[r] = "read" /\ ~Polling(r) /\ tx' = tx
    BY <1>3, <1>7 DEF Respond, Polling
  <2>2. resp'[r].read = 0
    <3>1. PICK v \in {None, feed[r]} :
            resp' = [resp EXCEPT ![r] = [NoResp EXCEPT !.file = feed[r], !.validators = v]]
      BY <1>7 DEF Respond
    <3> QED
      BY <1>0, <3>1, ResponseTyped DEF TypeOK
  <2>3. (0 \div BatchSize) * BatchSize = 0
    <3>1. 0 \div BatchSize = 0
      BY BoundsAssumption
    <3> QED
      BY <3>1, BoundsAssumption
  <2>4. \A f : Prefix(r, f, 0) = {}
    BY DEF Prefix
  <2> QED
    BY <2>1, <2>2, <2>3, <2>4 DEF TxHoldsPrefix, Polling
<1>8. CASE ReadRow(r)
  <2>1. pc[r] = "read" /\ pc'[r] = "read" /\ resp'[r].file = resp[r].file
    BY <1>8, RowRead DEF ReadRow, Reading
  <2>2. tx'[r].rows = Prefix(r, resp[r].file, (resp'[r].read \div BatchSize) * BatchSize)
    BY <1>8, <2>1, ReadTx DEF TxHoldsPrefix
  <2> QED
    BY <2>1, <2>2 DEF Polling
<1>9. CASE EndOfFile(r)
  <2>1. pc[r] = "read" /\ pc'[r] = "upsert" /\ resp' = resp
    BY <1>3, <1>9 DEF EndOfFile, Reading
  <2>2. tx'[r].rows = FileRows(r, resp[r].file)
    BY <1>9, <2>1, LastBatch DEF TxHoldsPrefix
  <2>3. resp[r].read = Len(Files[resp[r].file]) /\ resp[r].read > 0
    BY <1>9 DEF EndOfFile, AtEnd, HasRows
  <2> QED
    BY <2>1, <2>2, <2>3 DEF Polling
<1>10. CASE UpsertState(r)
  <2>1. pc[r] = "upsert" /\ pc'[r] = "commit" /\ resp' = resp /\ tx' = tx /\ up
    BY <1>3, <1>10 DEF UpsertState
  <2> QED
    BY <2>1 DEF TxHoldsPrefix, Polling, Active
<1>11. CASE CommitLands(r)
  <2>1. pc'[r] = "commit" /\ pc[r] = "commit" /\ resp' = resp /\ ~Active(r)'
    BY <1>3, <1>11 DEF CommitLands, Active
  <2> QED
    BY <2>1 DEF TxHoldsPrefix, Polling
<1>12. CASE Publish(r) \/ Cancel \/ UNCHANGED vars
  BY <1>1, <1>12 DEF Publish, Cancel, vars, Active
<1>13. CASE Crash
  <2>1. up
    BY <1>13 DEF Crash, Live
  <2> QED
    BY <1>1, <1>13, <2>1 DEF Crash, Active
<1>14. CASE Start
  BY <1>2, <1>3, <1>14 DEF Start
<1> QED
  <2>1. CASE \E s \in Region : RunRegion(s) \/ Publish(s) \/ CommitLands(s)
    <3>1. PICK s \in Region : RunRegion(s) \/ Publish(s) \/ CommitLands(s)
      BY <2>1
    <3>2. CASE s # r
      BY <1>1, <1>4, <3>1, <3>2
    <3>3. CASE s = r
      BY <1>5, <1>6, <1>7, <1>8, <1>9, <1>10, <1>11, <1>12, <3>1, <3>3, Zenon DEF RunRegion
    <3> QED
      BY <3>2, <3>3, Zenon
  <2> QED
    BY <1>12, <1>13, <1>14, <2>1, Zenon DEF Next

-----------------------------------------------------------------------------
(* What a commit stores *)

\* The transactions hold what was read, and the types are kept.
LEMMA TxInvariance == Spec => [](TypeInv /\ TxHoldsPrefix)
<1>1. TypeInv /\ TxHoldsPrefix /\ [Next]_vars => TxHoldsPrefix'
  BY NextTx
<1> QED
  BY <1>1, TypeInvariance, InitTx, PTL DEF Spec

\* A file read to its end is well-formed.
LEMMA ReadIsWellFormed ==
  ASSUME NEW f \in File, NEW t, Len(Files[f]) > 0,
         \A k \in 1..Len(Files[f]) : Files[f][k].item > 0 /\ Files[f][k].at = t,
         \A j, k \in 1..Len(Files[f]) : Files[f][j].item = Files[f][k].item => j = k
  PROVE  WellFormed(f) /\ Files[f][1].at = t /\ t \in Nat \ {0}
<1>1. Len(Files[f]) \in Nat /\ 1 \in 1..Len(Files[f])
  BY FileTyped
<1>2. Files[f][1].at = t /\ t \in Nat \ {0}
  BY <1>1, FileRowTyped
<1>3. Stamps(f) = {t}
  BY <1>1 DEF Stamps
<1> QED
  BY <1>2, <1>3 DEF WellFormed

\* The rows of a well-formed file carry the timestamp of its first row.
LEMMA OneStamp ==
  ASSUME NEW f \in File, WellFormed(f)
  PROVE  /\ Len(Files[f]) > 0 /\ Len(Files[f]) \in Nat
         /\ \A k \in 1..Len(Files[f]) : Files[f][k].at = Files[f][1].at
         /\ Files[f][1].at \in Nat \ {0}
<1>1. PICK t \in Stamps(f) : Stamps(f) = {t}
  BY DEF WellFormed
<1>2. PICK k \in 1..Len(Files[f]) : Files[f][k].at = t
  BY <1>1 DEF Stamps
<1>3. Len(Files[f]) \in Nat /\ Len(Files[f]) > 0 /\ 1 \in 1..Len(Files[f])
  BY <1>2, FileTyped
<1>4. \A j \in 1..Len(Files[f]) : Files[f][j].at = t
  BY <1>1 DEF Stamps
<1> QED
  BY <1>3, <1>4, FileRowTyped

\* What the server stores when it commits: a whole well-formed file.
LEMMA CommitStores ==
  ASSUME TypeInv, TxHoldsPrefix, NEW r \in Region, pc[r] = "commit", Active(r),
         ApplySnapshot(r)
  PROVE  LET f == resp[r].file  t == resp[r].updatedAt IN
         /\ f \in File /\ f <= feed[r] /\ WellFormed(f)
         /\ Files[f][1].at = t /\ t \in Nat \ {0}
         /\ tx[r].rows = FileRows(r, f) /\ FileRows(r, f) # {}
         /\ snapshots' = snapshots \cup FileRows(r, f)
         /\ \A row \in FileRows(r, f) : row.region = r /\ row.file = f /\ row.at = t
         /\ tsmState'[r] = Stored(r)
         /\ Stored(r).validators \in {None, f} /\ Stored(r).sourceAt = t
         /\ \A q \in Region \ {r} : tsmState'[q] = tsmState[q]
<1> DEFINE f == resp[r].file
           t == resp[r].updatedAt
<1>1. /\ resp[r].read = Len(Files[f]) /\ resp[r].read > 0
      /\ tx[r].rows = FileRows(r, f)
  BY DEF TxHoldsPrefix
<1>2. /\ f \in File /\ f <= feed[r] /\ resp[r].validators \in {None, f}
      /\ \A k \in 1..Len(Files[f]) : Files[f][k].item > 0 /\ Files[f][k].at = t
      /\ \A j, k \in 1..Len(Files[f]) : Files[f][j].item = Files[f][k].item => j = k
  BY <1>1 DEF TypeInv, ReadSound, Polling
<1>3. WellFormed(f) /\ Files[f][1].at = t /\ t \in Nat \ {0}
  BY <1>1, <1>2, ReadIsWellFormed
<1>4. FileRows(r, f) # {}
  <2>1. 1 \in 1..Len(Files[f])
    BY <1>1, <1>2, FileTyped
  <2> QED
    BY <2>1 DEF FileRows
<1>5. \A row \in FileRows(r, f) : row.region = r /\ row.file = f /\ row.at = t
  BY <1>2, FileTyped DEF FileRows, RowOf
<1>6. snapshots' = snapshots \cup FileRows(r, f) /\ tsmState'[r] = Stored(r)
      /\ \A q \in Region \ {r} : tsmState'[q] = tsmState[q]
  BY <1>1 DEF ApplySnapshot, TypeInv, TypeOK
<1>7. Stored(r).validators = resp[r].validators /\ Stored(r).sourceAt = t
  BY DEF Stored
<1> QED
  BY <1>1, <1>2, <1>3, <1>4, <1>5, <1>6, <1>7

\* The steps, as the tables and the goroutines' memory see them.
LEMMA TableSteps ==
  ASSUME TypeInv, [Next]_vars
  PROVE  \/ /\ UNCHANGED tables
            /\ \A q \in Region : /\ feed'[q] >= feed[q]
                                 /\ state'[q] \in {state[q], tsmState[q], Unknown}
         \/ \E r \in Region :
              /\ pc[r] = "commit" /\ Active(r) /\ ApplySnapshot(r) /\ UNCHANGED feed
              /\ \A q \in Region : \/ state'[q] = state[q]
                                   \/ q = r /\ state'[q] = Stored(r)
<1>0. /\ feed \in [Region -> File] /\ state \in [Region -> StateRow]
      /\ \A q \in Region : feed[q] \in Nat
  BY FileTyped DEF TypeInv, TypeOK
<1>1. ASSUME NEW r \in Region, Commit(r) \/ CommitAckLost(r) \/ CommitLands(r)
      PROVE  /\ pc[r] = "commit" /\ Active(r) /\ ApplySnapshot(r) /\ UNCHANGED feed
             /\ \A q \in Region : \/ state'[q] = state[q]
                                  \/ q = r /\ state'[q] = Stored(r)
  BY <1>0, <1>1 DEF Commit, CommitAckLost, CommitLands, Active, Remember
<1>2. ASSUME NEW r \in Region,
             \/ LoadState(r) \/ LoadFails(r) \/ Wake(r) \/ NotModified(r) \/ TouchState(r) \/ Respond(r)
             \/ PollFails(r) \/ RejectRow(r) \/ RejectFile(r) \/ ReadRow(r) \/ EndOfFile(r) \/ UpsertState(r)
      PROVE  /\ UNCHANGED <<tables, feed>>
             /\ \A q \in Region : state'[q] \in {state[q], tsmState[q], Unknown}
  <2>1. UNCHANGED <<tables, feed>>
    BY <1>2 DEF LoadState, LoadFails, Wake, NotModified, TouchState, Respond, PollFails, RejectRow, RejectFile,
                GiveUp, ReadRow, EndOfFile, UpsertState, tables
  <2>2. state' = state \/ state' = [state EXCEPT ![r] = tsmState[r]]
    BY <1>2 DEF LoadState, LoadFails, Wake, NotModified, TouchState, Respond, PollFails, RejectRow, RejectFile,
                GiveUp, ReadRow, EndOfFile, UpsertState
  <2> QED
    BY <1>0, <2>1, <2>2
<1>3. ASSUME NEW r \in Region, Publish(r)
      PROVE  /\ UNCHANGED <<tables, state>>
             /\ \A q \in Region : feed'[q] >= feed[q]
  BY <1>0, <1>3 DEF Publish, tables
<1>4. CASE Cancel \/ Crash \/ Start \/ UNCHANGED vars
  <2>1. UNCHANGED <<tables, feed>>
    BY <1>4 DEF Cancel, Crash, Start, vars, tables
  <2>2. state' = state \/ state' = [q \in Region |-> Unknown]
    BY <1>4 DEF Cancel, Crash, Start, vars
  <2> QED
    BY <1>0, <2>1, <2>2
<1> QED
  <2>1. CASE \E r \in Region : RunRegion(r) \/ Publish(r) \/ CommitLands(r)
    <3>1. PICK r \in Region : RunRegion(r) \/ Publish(r) \/ CommitLands(r)
      BY <2>1
    <3>2. CASE Commit(r) \/ CommitAckLost(r) \/ CommitLands(r)
      BY <1>1, <3>2
    <3>3. CASE Publish(r)
      BY <1>0, <1>3, <3>3
    <3>4. CASE RunRegion(r) /\ ~Commit(r) /\ ~CommitAckLost(r)
      <4>1. /\ UNCHANGED <<tables, feed>>
            /\ \A q \in Region : state'[q] \in {state[q], tsmState[q], Unknown}
        BY <1>2, <3>4, Zenon DEF RunRegion
      <4> QED
        BY <1>0, <4>1
    <3> QED
      BY <3>1, <3>2, <3>3, <3>4, Zenon
  <2> QED
    BY <1>4, <2>1, Zenon DEF Next

-----------------------------------------------------------------------------
(* Validators *)

\* The table only grows, and what it holds it keeps.
LEMMA HoldsKept ==
  ASSUME snapshots \subseteq snapshots', NEW r \in Region, NEW f, Holds(r, f)
  PROVE  Holds(r, f)'
  BY DEF Holds, FileRows, RowOf

\* The validators a request may carry, now or after a restart, are those of a
\* file stored completely, for any files, batch size and failures
\* (ValidatorsBacked of TSMPoll).
THEOREM BackedValidators == Spec => []ValidatorsBacked
<1>1. Init => ValidatorsBacked
  <2> SUFFICES ASSUME Init, NEW r \in Region
               PROVE  tsmState[r].validators = None /\ state[r].validators = None
    BY DEF ValidatorsBacked
  <2> QED
    BY DEF Init, Unknown
<1>2. TypeInv /\ TxHoldsPrefix /\ ValidatorsBacked /\ [Next]_vars => ValidatorsBacked'
  <2> SUFFICES ASSUME TypeInv, TxHoldsPrefix, ValidatorsBacked, [Next]_vars, NEW q \in Region
               PROVE  /\ tsmState'[q].validators # None => Holds(q, tsmState[q].validators)'
                      /\ state'[q].validators # None => Holds(q, state[q].validators)'
    BY DEF ValidatorsBacked
  <2>0. Unknown.validators = None
    BY DEF Unknown
  <2>1. CASE UNCHANGED tables /\ state'[q] \in {state[q], tsmState[q], Unknown}
    BY <2>0, <2>1 DEF ValidatorsBacked, Holds, FileRows, RowOf, tables
  <2>2. ASSUME NEW r \in Region, pc[r] = "commit", Active(r), ApplySnapshot(r),
               state'[q] = state[q] \/ (q = r /\ state'[q] = Stored(r))
        PROVE  /\ tsmState'[q].validators # None => Holds(q, tsmState[q].validators)'
               /\ state'[q].validators # None => Holds(q, state[q].validators)'
    <3> DEFINE f == resp[r].file
    <3>1. /\ snapshots' = snapshots \cup FileRows(r, f) /\ FileRows(r, f) # {}
          /\ tsmState'[r] = Stored(r) /\ Stored(r).validators \in {None, f}
          /\ \A s \in Region \ {r} : tsmState'[s] = tsmState[s]
      BY <2>2, CommitStores
    <3>2. \A g : Holds(q, g) => FileRows(q, g) # {} /\ FileRows(q, g) \subseteq snapshots'
      BY <3>1 DEF Holds
    <3>3. \A v \in {tsmState'[q].validators, state'[q].validators} :
            v # None => FileRows(q, v) # {} /\ FileRows(q, v) \subseteq snapshots'
      <4>1. CASE q = r
        BY <2>2, <3>1, <3>2, <4>1 DEF ValidatorsBacked
      <4>2. CASE q # r
        BY <2>2, <3>1, <3>2, <4>2 DEF ValidatorsBacked
      <4> QED
        BY <4>1, <4>2
    <3> QED
      BY <3>3 DEF Holds, FileRows, RowOf
  <2> QED
    BY <2>1, <2>2, TableSteps
<1> QED
  BY <1>1, <1>2, TxInvariance, PTL DEF Spec

-----------------------------------------------------------------------------
(* Rows *)

\* Every row is one of a well-formed file that was published.
RowsSound ==
  \A row \in snapshots :
    /\ WellFormed(row.file)
    /\ row \in FileRows(row.region, row.file)
    /\ row.file <= feed[row.region]

\* The rows of well-formed files are all the table ever gets.
LEMMA NextRows == TypeInv /\ TxHoldsPrefix /\ RowsSound /\ [Next]_vars => RowsSound'
<1> SUFFICES ASSUME TypeInv, TxHoldsPrefix, RowsSound, [Next]_vars, NEW row \in snapshots'
             PROVE  /\ WellFormed(row.file)
                    /\ row \in FileRows(row.region, row.file)
                    /\ row.file <= feed'[row.region]
  BY DEF RowsSound, WellFormed, Stamps, FileRows, RowOf
<1>0. /\ snapshots \subseteq SnapshotRow /\ feed \in [Region -> File]
      /\ feed' \in [Region -> File] /\ \A f \in File : f \in Nat
  BY NextTyped, FileTyped DEF TypeInv, TypeOK
<1>1. CASE UNCHANGED tables /\ \A q \in Region : feed'[q] >= feed[q]
  <2>1. row \in snapshots /\ row.region \in Region /\ row.file \in Nat
    BY <1>0, <1>1 DEF tables, SnapshotRow
  <2> QED
    BY <1>0, <1>1, <2>1 DEF RowsSound
<1>2. ASSUME NEW r \in Region, pc[r] = "commit", Active(r), ApplySnapshot(r), UNCHANGED feed
      PROVE  /\ WellFormed(row.file)
             /\ row \in FileRows(row.region, row.file)
             /\ row.file <= feed'[row.region]
  <2> DEFINE f == resp[r].file
  <2>1. /\ WellFormed(f) /\ f <= feed[r]
        /\ snapshots' = snapshots \cup FileRows(r, f)
        /\ \A w \in FileRows(r, f) : w.region = r /\ w.file = f
    BY <1>2, CommitStores
  <2>2. CASE row \in snapshots
    BY <1>2, <2>2 DEF RowsSound
  <2>3. CASE row \in FileRows(r, f)
    BY <1>2, <2>1, <2>3
  <2> QED
    BY <2>1, <2>2, <2>3
<1> QED
  BY <1>1, <1>2, TableSteps

-----------------------------------------------------------------------------
(* What a goroutine remembers *)

\* Until an acknowledgement is lost, the memory of a goroutine that has loaded
\* it is the stored state; the file it reads is newer than both.
MemoryKnown ==
  \A r \in Region :
    /\ Polling(r) /\ resp[r].read > 0 => state[r].sourceAt < resp[r].updatedAt
    /\ Active(r) /\ pc[r] \notin {"load", "ended"} /\ lostAcks = 0 =>
         state[r].sourceAt = tsmState[r].sourceAt

\* A file is read against a memory that stays what it is.
LEMMA NextMemory == TypeInv /\ MemoryKnown /\ [Next]_vars => MemoryKnown'
<1> SUFFICES ASSUME TypeInv, MemoryKnown, [Next]_vars, NEW r \in Region
             PROVE  /\ Polling(r)' /\ resp'[r].read > 0 => state'[r].sourceAt < resp'[r].updatedAt
                    /\ Active(r)' /\ pc'[r] \notin {"load", "ended"} /\ lostAcks' = 0 =>
                         state'[r].sourceAt = tsmState'[r].sourceAt
  BY DEF MemoryKnown
<1> USE DEF tables
<1>0. TypeOK /\ lostAcks \in Nat
  BY BoundsAssumption DEF TypeInv, TypeOK
<1>1. ASSUME pc'[r] = pc[r], resp'[r] = resp[r], state'[r] = state[r], tsmState'[r] = tsmState[r],
             Active(r)' => Active(r) /\ (lostAcks' = 0 => lostAcks = 0)
      PROVE  /\ Polling(r)' /\ resp'[r].read > 0 => state'[r].sourceAt < resp'[r].updatedAt
             /\ Active(r)' /\ pc'[r] \notin {"load", "ended"} /\ lostAcks' = 0 =>
                  state'[r].sourceAt = tsmState'[r].sourceAt
  BY <1>1 DEF MemoryKnown, Polling
<1>2. ASSUME ~Polling(r)', up, pc[r] \notin {"load", "ended"} \/ pc'[r] \in {"load", "ended"},
             state'[r] = state[r], tsmState'[r] = tsmState[r], lostAcks' = lostAcks
      PROVE  /\ Polling(r)' /\ resp'[r].read > 0 => state'[r].sourceAt < resp'[r].updatedAt
             /\ Active(r)' /\ pc'[r] \notin {"load", "ended"} /\ lostAcks' = 0 =>
                  state'[r].sourceAt = tsmState'[r].sourceAt
  BY <1>2 DEF MemoryKnown, Active
<1>3. /\ pc \in [Region -> {"load", "request", "touch", "read", "upsert", "commit",
                            "wait", "ended"}]
      /\ tx \in [Region -> [open : BOOLEAN, rows : SUBSET SnapshotRow]]
      /\ state \in [Region -> StateRow] /\ tsmState \in [Region -> StateRow]
  BY <1>0 DEF TypeOK
<1>4. ASSUME NEW s \in Region, s # r, RunRegion(s) \/ Publish(s) \/ CommitLands(s)
      PROVE  /\ pc'[r] = pc[r] /\ resp'[r] = resp[r] /\ state'[r] = state[r]
             /\ tsmState'[r] = tsmState[r]
             /\ Active(r)' => Active(r) /\ (lostAcks' = 0 => lostAcks = 0)
  <2>1. /\ pc'[r] = pc[r] /\ resp'[r] = resp[r] /\ tx'[r] = tx[r] /\ state'[r] = state[r]
        /\ tsmState'[r] = tsmState[r]
    BY <1>0, <1>4, OthersUntouched
  <2>2. up' = up /\ lostAcks' \in {lostAcks, lostAcks + 1}
    BY <1>4 DEF RunRegion, LoadState, LoadFails, Wake, PollFails, NotModified, TouchState, Respond, ReadRow,
                RejectRow, EndOfFile, RejectFile, GiveUp, UpsertState, Commit, CommitAckLost, Publish, CommitLands
  <2> QED
    BY <1>0, <2>1, <2>2 DEF Active
<1>5. CASE LoadFails(r) \/ Wake(r) \/ NotModified(r) \/ TouchState(r)
  BY <1>2, <1>3, <1>5 DEF LoadFails, Wake, NotModified, TouchState, Polling
<1>6. CASE LoadState(r)
  <2>1. ~Polling(r)' /\ state'[r] = tsmState[r] /\ tsmState' = tsmState
    BY <1>3, <1>6 DEF LoadState, Polling
  <2> QED
    BY <2>1
<1>7. CASE PollFails(r) \/ RejectRow(r) \/ RejectFile(r)
  <2>1. /\ ~Polling(r)' /\ up /\ pc[r] \notin {"load", "ended"}
        /\ state' = state /\ tsmState' = tsmState /\ lostAcks' = lostAcks
    BY <1>3, <1>7 DEF PollFails, RejectRow, RejectFile, GiveUp, Reading, Polling
  <2> QED
    BY <1>2, <2>1
<1>8. CASE Respond(r)
  <2>1. /\ pc[r] = "request" /\ up /\ state' = state /\ tsmState' = tsmState /\ lostAcks' = lostAcks
    BY <1>3, <1>8 DEF Respond
  <2>2. resp'[r].read = 0
    <3>1. PICK v \in {None, feed[r]} :
            resp' = [resp EXCEPT ![r] = [NoResp EXCEPT !.file = feed[r], !.validators = v]]
      BY <1>8 DEF Respond
    <3> QED
      BY <1>0, <3>1, ResponseTyped DEF TypeOK
  <2> QED
    BY <2>1, <2>2 DEF MemoryKnown, Active
<1>9. CASE ReadRow(r)
  <2>1. /\ pc[r] = "read" /\ up /\ state' = state /\ tsmState' = tsmState /\ lostAcks' = lostAcks
    BY <1>9 DEF ReadRow, Reading
  <2>2. state[r].sourceAt < resp'[r].updatedAt
    BY <1>9, RowRead
  <2> QED
    BY <2>1, <2>2 DEF MemoryKnown, Active
<1>10. CASE EndOfFile(r) \/ UpsertState(r)
  <2>1. /\ pc[r] \in {"read", "upsert"} /\ up /\ state' = state /\ tsmState' = tsmState
        /\ lostAcks' = lostAcks /\ resp' = resp
    BY <1>10 DEF EndOfFile, Reading, UpsertState
  <2> QED
    BY <2>1 DEF MemoryKnown, Active, Polling
<1>11. CASE Commit(r)
  <2>1. ~Polling(r)' /\ state'[r] = Stored(r) /\ tsmState'[r] = Stored(r)
    BY <1>3, <1>11 DEF Commit, Polling, ApplySnapshot, Remember
  <2> QED
    BY <2>1
<1>12. CASE CommitAckLost(r)
  <2>1. ~Polling(r)' /\ lostAcks' # 0
    BY <1>0, <1>3, <1>12 DEF CommitAckLost, Polling
  <2> QED
    BY <2>1
<1>13. CASE CommitLands(r)
  <2>1. pc' = pc /\ pc[r] = "commit" /\ resp' = resp /\ state' = state /\ ~Active(r)'
    BY <1>3, <1>13 DEF CommitLands, Active, NoTx
  <2> QED
    BY <2>1 DEF MemoryKnown, Polling
<1>14. CASE Publish(r) \/ Cancel \/ UNCHANGED vars
  BY <1>1, <1>14 DEF Publish, Cancel, vars, Active
<1>15. CASE Crash
  <2>1. up
    BY <1>15 DEF Crash, Live
  <2> QED
    BY <1>1, <1>15, <2>1 DEF Crash, Active
<1>16. CASE Start
  <2>1. pc'[r] = "load"
    BY <1>16 DEF Start
  <2> QED
    BY <2>1 DEF Polling
<1> QED
  <2>1. CASE \E s \in Region : RunRegion(s) \/ Publish(s) \/ CommitLands(s)
    <3>1. PICK s \in Region : RunRegion(s) \/ Publish(s) \/ CommitLands(s)
      BY <2>1
    <3>2. CASE s # r
      <4>1. /\ pc'[r] = pc[r] /\ resp'[r] = resp[r] /\ state'[r] = state[r]
            /\ tsmState'[r] = tsmState[r]
            /\ Active(r)' => Active(r) /\ (lostAcks' = 0 => lostAcks = 0)
        BY <1>4, <3>1, <3>2
      <4> QED
        BY <1>1, <4>1 DEF Active
    <3>3. CASE s = r
      BY <1>5, <1>6, <1>7, <1>8, <1>9, <1>10, <1>11, <1>12, <1>13, <1>14, <3>1, <3>3, Zenon DEF RunRegion
    <3> QED
      BY <3>2, <3>3, Zenon
  <2> QED
    BY <1>14, <1>15, <1>16, <2>1, Zenon DEF Next

-----------------------------------------------------------------------------
(* What the tables cannot already hold *)

\* The rows copied so far meet none of the table, which holds no file
\* published after the one being read.
NoCollision ==
  \A r \in Region : Polling(r) /\ Active(r) =>
    /\ ~Conflicts(tx[r].rows)
    /\ \A row \in snapshots : row.region = r => row.file <= resp[r].file

\* What a batch adds to a transaction that meets nothing of the table does
\* not either.
LEMMA FlushNoCollision ==
  ASSUME TypeInv, NEW r \in Region, NEW n, Flush(r, n), ~Conflicts(tx[r].rows)
  PROVE  ~Conflicts(tx'[r].rows)
<1>1. tx'[r].rows = tx[r].rows \cup Batch(r, n)
  BY DEF Flush, TypeInv, TypeOK
<1>2. ~Conflicts(Batch(r, n))
  BY DEF Flush
<1> QED
  BY <1>1, <1>2 DEF Conflicts

\* Every step keeps the two apart.
LEMMA NextNoCollision ==
  TypeInv /\ TxHoldsPrefix /\ RowsSound /\ NoCollision /\ [Next]_vars => NoCollision'
<1> SUFFICES ASSUME TypeInv, TxHoldsPrefix, RowsSound, NoCollision, [Next]_vars, NEW r \in Region,
                    Polling(r)', Active(r)'
             PROVE  /\ ~Conflicts(tx[r].rows)'
                    /\ \A row \in snapshots' : row.region = r => row.file <= resp'[r].file
  BY DEF NoCollision
<1> USE DEF tables
<1>0. TypeOK
  BY DEF TypeInv
<1>1. ASSUME Polling(r), Active(r), resp'[r].file = resp[r].file, snapshots' = snapshots,
             tx'[r].rows = tx[r].rows
      PROVE  /\ ~Conflicts(tx[r].rows)'
             /\ \A row \in snapshots' : row.region = r => row.file <= resp'[r].file
  BY <1>1 DEF NoCollision, Conflicts
<1>3. /\ pc \in [Region -> {"load", "request", "touch", "read", "upsert", "commit",
                            "wait", "ended"}]
      /\ tx \in [Region -> [open : BOOLEAN, rows : SUBSET SnapshotRow]]
      /\ NoTx.open = FALSE
  BY <1>0 DEF TypeOK, NoTx
<1>4. ASSUME NEW s \in Region, s # r, RunRegion(s) \/ Publish(s) \/ CommitLands(s)
      PROVE  /\ ~Conflicts(tx[r].rows)'
             /\ \A row \in snapshots' : row.region = r => row.file <= resp'[r].file
  <2>1. pc'[r] = pc[r] /\ resp'[r] = resp[r] /\ tx'[r] = tx[r]
    BY <1>0, <1>4, OthersUntouched
  <2>2. up' = up
    BY <1>4 DEF RunRegion, LoadState, LoadFails, Wake, PollFails, NotModified, TouchState, Respond, ReadRow,
                RejectRow, EndOfFile, RejectFile, GiveUp, UpsertState, Commit, CommitAckLost, Publish, CommitLands
  <2>3. Polling(r) /\ Active(r)
    BY <2>1, <2>2 DEF Polling, Active
  <2>4. CASE snapshots' = snapshots
    BY <1>1, <2>1, <2>3, <2>4
  <2>5. CASE Commit(s) \/ CommitAckLost(s) \/ CommitLands(s)
    <3>1. pc[s] = "commit" /\ Active(s) /\ ApplySnapshot(s)
      BY <2>5 DEF Commit, CommitAckLost, CommitLands, Active
    <3>2. /\ snapshots' = snapshots \cup FileRows(s, resp[s].file)
          /\ \A row \in FileRows(s, resp[s].file) : row.region = s
      BY <3>1, CommitStores
    <3>3. \A row \in tx[r].rows : row.region = r
      <4>1. \/ tx[r].rows = FileRows(r, resp[r].file)
            \/ tx[r].rows = Prefix(r, resp[r].file, (resp[r].read \div BatchSize) * BatchSize)
        BY <2>3 DEF TxHoldsPrefix, Polling
      <4> QED
        BY <4>1 DEF FileRows, Prefix, RowOf
    <3>4. ~Conflicts(tx[r].rows)
          /\ \A row \in snapshots : row.region = r => row.file <= resp[r].file
      BY <2>3 DEF NoCollision
    <3>5. ~Conflicts(tx[r].rows)'
      BY <1>4, <2>1, <3>2, <3>3, <3>4 DEF Conflicts
    <3> QED
      BY <1>4, <2>1, <3>2, <3>4, <3>5
  <2>6. snapshots' = snapshots \/ Commit(s) \/ CommitAckLost(s) \/ CommitLands(s)
    BY <1>4 DEF RunRegion, LoadState, LoadFails, Wake, PollFails, NotModified, TouchState, Respond, ReadRow,
                RejectRow, EndOfFile, RejectFile, GiveUp, UpsertState, Publish
  <2> QED
    BY <2>4, <2>5, <2>6
<1>5. CASE LoadState(r) \/ LoadFails(r) \/ Wake(r) \/ NotModified(r) \/ TouchState(r)
  BY <1>3, <1>5 DEF LoadState, LoadFails, Wake, NotModified, TouchState, Polling
<1>6. CASE PollFails(r) \/ RejectRow(r) \/ RejectFile(r) \/ Commit(r) \/ CommitAckLost(r)
  BY <1>3, <1>6 DEF PollFails, RejectRow, RejectFile, GiveUp, Commit, CommitAckLost, Polling
<1>7. CASE Respond(r)
  <2>1. ~Polling(r) /\ tx' = tx /\ snapshots' = snapshots
    BY <1>3, <1>7 DEF Respond, Polling
  <2>2. resp'[r].file = feed[r]
    <3>1. PICK v \in {None, feed[r]} :
            resp' = [resp EXCEPT ![r] = [NoResp EXCEPT !.file = feed[r], !.validators = v]]
      BY <1>7 DEF Respond
    <3> QED
      BY <1>0, <3>1, ResponseTyped DEF TypeOK
  <2>3. tx[r].rows = {}
    BY <2>1 DEF TxHoldsPrefix
  <2> QED
    BY <2>1, <2>2, <2>3 DEF Conflicts, RowsSound
<1>8. CASE ReadRow(r)
  <2>1. pc[r] = "read" /\ up /\ snapshots' = snapshots /\ resp'[r].file = resp[r].file
    BY <1>8, RowRead DEF ReadRow, Reading
  <2>2. Polling(r) /\ Active(r)
    BY <2>1 DEF Polling, Active
  <2>3. tx' = tx \/ \E n : Flush(r, n)
    BY <1>8 DEF ReadRow
  <2>4. ~Conflicts(tx'[r].rows)
    BY <2>2, <2>3, FlushNoCollision DEF NoCollision
  <2> QED
    BY <2>1, <2>2, <2>4 DEF NoCollision, Conflicts
<1>9. CASE EndOfFile(r)
  <2>1. pc[r] = "read" /\ up /\ snapshots' = snapshots /\ resp' = resp
    BY <1>9 DEF EndOfFile, Reading
  <2>2. Polling(r) /\ Active(r)
    BY <2>1 DEF Polling, Active
  <2>3. tx' = tx \/ \E n : Flush(r, n)
    BY <1>9 DEF EndOfFile
  <2>4. ~Conflicts(tx'[r].rows)
    BY <2>2, <2>3, FlushNoCollision DEF NoCollision
  <2> QED
    BY <2>1, <2>2, <2>4 DEF NoCollision, Conflicts
<1>10. CASE UpsertState(r)
  BY <1>1, <1>10 DEF UpsertState, Polling, Active
<1>11. CASE CommitLands(r)
  BY <1>3, <1>11 DEF CommitLands, Active
<1>12. CASE Publish(r) \/ Cancel \/ UNCHANGED vars
  BY <1>1, <1>12 DEF Publish, Cancel, vars, Polling, Active
<1>13. CASE Crash
  <2>1. up
    BY <1>13 DEF Crash, Live
  <2> QED
    BY <1>1, <1>13, <2>1 DEF Crash, Polling, Active
<1>14. CASE Start
  BY <1>14 DEF Start, Polling
<1> QED
  <2>1. CASE \E s \in Region : RunRegion(s) \/ Publish(s) \/ CommitLands(s)
    <3>1. PICK s \in Region : RunRegion(s) \/ Publish(s) \/ CommitLands(s)
      BY <2>1
    <3>2. CASE s # r
      BY <1>4, <3>1, <3>2
    <3>3. CASE s = r
      BY <1>5, <1>6, <1>7, <1>8, <1>9, <1>10, <1>11, <1>12, <3>1, <3>3, Zenon DEF RunRegion
    <3> QED
      BY <3>2, <3>3, Zenon
  <2> QED
    BY <1>12, <1>13, <1>14, <2>1, Zenon DEF Next

\* What every reachable state satisfies, whatever files are published.
IInv == TxHoldsPrefix /\ RowsSound /\ MemoryKnown /\ NoCollision

\* The inductive invariant of the loops.
LEMMA Invariance == Spec => [](TypeInv /\ IInv)
<1>1. Init => RowsSound /\ MemoryKnown /\ NoCollision
  <2>1. Init => RowsSound
    BY DEF Init, RowsSound
  <2>2. Init => \A r \in Region : pc[r] = "load"
    BY DEF Init
  <2>3. Init => MemoryKnown /\ NoCollision
    BY <2>2 DEF MemoryKnown, NoCollision, Polling
  <2> QED
    BY <2>1, <2>3
<1>2. TypeInv /\ IInv /\ [Next]_vars => IInv'
  BY NextTx, NextRows, NextMemory, NextNoCollision DEF IInv
<1> QED
  BY <1>1, <1>2, InitTx, TypeInvariance, PTL DEF Spec, IInv

-----------------------------------------------------------------------------
(* Source timestamps *)

\* TSM publishes well-formed files in the order of their timestamps.
Ordered ==
  \A f, g \in File :
    WellFormed(f) /\ WellFormed(g) /\ f < g => Files[f][1].at <= Files[g][1].at

\* Two well-formed files of one timestamp have an item in common.
Distinct ==
  \A f, g \in File :
    WellFormed(f) /\ WellFormed(g) /\ f # g /\ Files[f][1].at = Files[g][1].at =>
      \E j \in 1..Len(Files[f]), k \in 1..Len(Files[g]) : Files[f][j].item = Files[g][k].item

\* A row of the table carries the timestamp of its file.
LEMMA RowsStamped ==
  ASSUME TypeInv, RowsSound, NEW row \in snapshots
  PROVE  /\ row.region \in Region /\ row.file \in File /\ WellFormed(row.file)
         /\ row.at = Files[row.file][1].at /\ row.at \in Nat \ {0}
         /\ row \in FileRows(row.region, row.file)
<1>1. row \in SnapshotRow
  BY DEF TypeInv, TypeOK
<1>2. row.region \in Region /\ row.file \in File
  BY <1>1 DEF SnapshotRow
<1>3. WellFormed(row.file) /\ row \in FileRows(row.region, row.file)
  BY DEF RowsSound
<1>4. PICK k \in 1..Len(Files[row.file]) : row = RowOf(row.region, row.file, k)
  BY <1>3 DEF FileRows
<1>5. row.at = Files[row.file][k].at
  BY <1>4 DEF RowOf
<1> QED
  BY <1>2, <1>3, <1>5, OneStamp

\* As long as no acknowledgement is lost, what is about to be committed is
\* newer than the stored source timestamp.
LEMMA NewerWithoutLoss ==
  ASSUME TypeInv, IInv, MaxLostAcks = 0, NEW r \in Region, pc[r] = "commit", Active(r)
  PROVE  tsmState[r].sourceAt < resp[r].updatedAt
<1>1. lostAcks = 0
  BY DEF TypeInv, TypeOK
<1>2. Polling(r) /\ resp[r].read > 0
  BY DEF Polling, IInv, TxHoldsPrefix
<1> QED
  BY <1>1, <1>2 DEF IInv, MemoryKnown

\* A commit leaves nothing newer than what it stores.
LEMMA CommitIsNewest ==
  ASSUME TypeInv, IInv, SourceIsNewest, MaxLostAcks = 0 \/ Ordered,
         NEW r \in Region, pc[r] = "commit", Active(r), ApplySnapshot(r)
  PROVE  \A row \in snapshots : row.region = r => row.at <= resp[r].updatedAt
<1> DEFINE f == resp[r].file
           t == resp[r].updatedAt
<1> SUFFICES ASSUME NEW row \in snapshots, row.region = r
             PROVE  row.at <= t
  OBVIOUS
<1>1. f \in File /\ WellFormed(f) /\ Files[f][1].at = t /\ t \in Nat
  BY CommitStores DEF IInv
<1>2. /\ row.file \in File /\ WellFormed(row.file)
      /\ row.at = Files[row.file][1].at /\ row.at \in Nat
  BY RowsStamped DEF IInv
<1>3. CASE MaxLostAcks = 0
  <2>1. tsmState[r].sourceAt < t /\ row.at <= tsmState[r].sourceAt /\ tsmState[r].sourceAt \in Nat
    BY <1>3, NewerWithoutLoss DEF SourceIsNewest, TypeInv, TypeOK, StateRow
  <2> QED
    BY <1>1, <1>2, <2>1
<1>4. CASE Ordered
  <2>1. row.file <= f
    BY DEF IInv, NoCollision, Polling
  <2>2. row.file \in Nat /\ f \in Nat
    BY <1>1, <1>2, FileTyped
  <2>3. CASE row.file = f
    BY <1>1, <1>2, <2>3
  <2>4. CASE row.file < f
    BY <1>1, <1>2, <1>4, <2>4 DEF Ordered
  <2> QED
    BY <2>1, <2>2, <2>3, <2>4
<1> QED
  BY <1>3, <1>4

\* A step keeps the stored source timestamp the newest.
LEMMA NextNewest ==
  ASSUME MaxLostAcks = 0 \/ Ordered
  PROVE  TypeInv /\ IInv /\ SourceIsNewest /\ [Next]_vars => SourceIsNewest'
<1> SUFFICES ASSUME TypeInv, IInv, SourceIsNewest, [Next]_vars, NEW q \in Region
             PROVE  /\ tsmState'[q].sourceAt # None =>
                         \E row \in snapshots' : row.region = q /\ row.at = tsmState'[q].sourceAt
                    /\ \A row \in snapshots' : row.region = q => row.at <= tsmState'[q].sourceAt
  BY DEF SourceIsNewest, SnapshotAt
<1>1. CASE UNCHANGED tables
  BY <1>1 DEF SourceIsNewest, SnapshotAt, tables
<1>2. ASSUME NEW r \in Region, pc[r] = "commit", Active(r), ApplySnapshot(r)
      PROVE  /\ tsmState'[q].sourceAt # None =>
                  \E row \in snapshots' : row.region = q /\ row.at = tsmState'[q].sourceAt
             /\ \A row \in snapshots' : row.region = q => row.at <= tsmState'[q].sourceAt
  <2> DEFINE f == resp[r].file
             t == resp[r].updatedAt
  <2>1. /\ t \in Nat /\ FileRows(r, f) # {}
        /\ snapshots' = snapshots \cup FileRows(r, f)
        /\ \A row \in FileRows(r, f) : row.region = r /\ row.at = t
        /\ tsmState'[r].sourceAt = t
        /\ \A s \in Region \ {r} : tsmState'[s] = tsmState[s]
    BY <1>2, CommitStores DEF IInv
  <2>2. \A row \in snapshots : row.region = r => row.at <= t
    BY <1>2, CommitIsNewest
  <2>3. CASE q = r
    BY <2>1, <2>2, <2>3
  <2>4. CASE q # r
    BY <2>1, <2>4 DEF SourceIsNewest, SnapshotAt
  <2> QED
    BY <2>3, <2>4
<1> QED
  BY <1>1, <1>2, TableSteps

\* Initially nothing is stored.
LEMMA InitNewest == Init => SourceIsNewest /\ WholeFile
<1>1. Init => WholeFile
  BY DEF Init, WholeFile
<1>2. Init => SourceIsNewest
  <2> SUFFICES ASSUME Init, NEW r \in Region
               PROVE  tsmState[r].sourceAt = None /\ snapshots = {}
    BY DEF SourceIsNewest
  <2> QED
    BY DEF Init, Unknown
<1> QED
  BY <1>1, <1>2

\* A committed source timestamp has its file in the table and nothing newer
\* beside it, for any files, batch size, failures and crashes; when commits may
\* be applied without the goroutine learning it, for files published in the
\* order of their timestamps (SourceIsNewest of TSMPoll).
THEOREM NewestSource ==
  ASSUME MaxLostAcks = 0 \/ Ordered
  PROVE  Spec => []SourceIsNewest
<1>1. TypeInv /\ IInv /\ SourceIsNewest /\ [Next]_vars => SourceIsNewest'
  BY NextNewest
<1> QED
  BY <1>1, InitNewest, Invariance, PTL DEF Spec

-----------------------------------------------------------------------------
(* Whole files *)

\* A timestamp about to be committed has no rows yet.
LEMMA FreshStamp ==
  ASSUME TypeInv, IInv, WholeFile, MaxLostAcks = 0 => SourceIsNewest,
         MaxLostAcks = 0 \/ Distinct,
         NEW r \in Region, pc[r] = "commit", Active(r), ApplySnapshot(r)
  PROVE  SnapshotAt(r, resp[r].updatedAt) = {}
<1> DEFINE f == resp[r].file
           t == resp[r].updatedAt
<1> SUFFICES ASSUME NEW row \in snapshots, row.region = r, row.at = t
             PROVE  FALSE
  BY DEF SnapshotAt
<1>1. /\ f \in File /\ WellFormed(f) /\ Files[f][1].at = t /\ t \in Nat
      /\ tx[r].rows = FileRows(r, f)
      /\ \A new \in FileRows(r, f) : new.region = r /\ new.at = t
  BY CommitStores DEF IInv
<1> DEFINE g == row.file
<1>2. /\ g \in File /\ WellFormed(g) /\ row.at = Files[g][1].at /\ row \in FileRows(r, g)
  BY RowsStamped DEF IInv
<1>3. CASE MaxLostAcks = 0
  <2>1. tsmState[r].sourceAt < t /\ row.at <= tsmState[r].sourceAt /\ tsmState[r].sourceAt \in Nat
    BY <1>3, NewerWithoutLoss DEF SourceIsNewest, TypeInv, TypeOK, StateRow
  <2> QED
    BY <1>1, <2>1
<1>4. CASE Distinct
  <2>1. FileRows(r, g) \subseteq snapshots
    BY DEF WholeFile, SnapshotAt
  <2>2. \A old \in FileRows(r, g) : old.region = r /\ old.at = t
    BY DEF WholeFile, SnapshotAt
  <2>3. ~Conflicts(FileRows(r, f))
    BY <1>1 DEF IInv, NoCollision, Polling
  <2>4. \A old \in FileRows(r, g), new \in FileRows(r, f) : old.item # new.item
    BY <1>1, <2>1, <2>2, <2>3 DEF Conflicts
  <2>5. f # g
    BY <1>2, <2>4
  <2>6. PICK j \in 1..Len(Files[f]), k \in 1..Len(Files[g]) : Files[f][j].item = Files[g][k].item
    BY <1>1, <1>2, <1>4, <2>5 DEF Distinct
  <2>7. RowOf(r, f, j) \in FileRows(r, f) /\ RowOf(r, g, k) \in FileRows(r, g)
    BY DEF FileRows
  <2> QED
    BY <2>4, <2>6, <2>7 DEF RowOf
<1> QED
  BY <1>3, <1>4

\* A step keeps every stored file whole and alone under its timestamp.
LEMMA NextWhole ==
  ASSUME MaxLostAcks = 0 \/ Distinct
  PROVE  TypeInv /\ IInv /\ (MaxLostAcks = 0 => SourceIsNewest) /\ WholeFile /\ [Next]_vars
           => WholeFile'
<1> SUFFICES ASSUME TypeInv, IInv, MaxLostAcks = 0 => SourceIsNewest, WholeFile, [Next]_vars,
                    NEW row \in snapshots'
             PROVE  /\ WellFormed(row.file)
                    /\ {w \in snapshots' : w.region = row.region /\ w.at = row.at}
                         = FileRows(row.region, row.file)
  BY DEF WholeFile, SnapshotAt, WellFormed, Stamps, FileRows, RowOf
<1>1. CASE UNCHANGED tables
  BY <1>1 DEF WholeFile, SnapshotAt, tables
<1>2. ASSUME NEW r \in Region, pc[r] = "commit", Active(r), ApplySnapshot(r)
      PROVE  /\ WellFormed(row.file)
             /\ {w \in snapshots' : w.region = row.region /\ w.at = row.at}
                  = FileRows(row.region, row.file)
  <2> DEFINE f == resp[r].file
             t == resp[r].updatedAt
  <2>1. /\ WellFormed(f)
        /\ snapshots' = snapshots \cup FileRows(r, f)
        /\ \A w \in FileRows(r, f) : w.region = r /\ w.file = f /\ w.at = t
    BY <1>2, CommitStores DEF IInv
  <2>2. \A w \in snapshots : ~(w.region = r /\ w.at = t)
    BY <1>2, FreshStamp DEF SnapshotAt
  <2>3. CASE row \in snapshots
    <3>1. /\ WellFormed(row.file)
          /\ {w \in snapshots : w.region = row.region /\ w.at = row.at}
               = FileRows(row.region, row.file)
      BY <2>3 DEF WholeFile, SnapshotAt
    <3>2. \A w \in FileRows(r, f) : ~(w.region = row.region /\ w.at = row.at)
      BY <2>1, <2>2, <2>3
    <3> QED
      BY <2>1, <3>1, <3>2
  <2>4. CASE row \in FileRows(r, f)
    <3>1. row.region = r /\ row.file = f /\ row.at = t
      BY <2>1, <2>4
    <3> QED
      BY <2>1, <2>2, <3>1
  <2> QED
    BY <2>1, <2>3, <2>4
<1> QED
  BY <1>1, <1>2, TableSteps

\* The rows under one region and source timestamp are one well-formed file, all
\* of it and nothing else, for any files, batch size, failures and crashes; when
\* commits may be applied without the goroutine learning it, for files that
\* share an item when they share a timestamp (WholeFile of TSMPoll).
THEOREM WholeFiles ==
  ASSUME MaxLostAcks = 0 \/ Distinct
  PROVE  Spec => []WholeFile
<1>1. MaxLostAcks = 0 => (Spec => []SourceIsNewest)
  BY NewestSource
<1>2. Spec => [](MaxLostAcks = 0 => SourceIsNewest)
  <2>1. CASE MaxLostAcks = 0
    <3>1. SourceIsNewest => (MaxLostAcks = 0 => SourceIsNewest)
      OBVIOUS
    <3> QED
      BY <1>1, <2>1, <3>1, PTL
  <2>2. CASE MaxLostAcks # 0
    <3>1. MaxLostAcks = 0 => SourceIsNewest
      BY <2>2
    <3> QED
      BY <3>1, PTL
  <2> QED
    BY <2>1, <2>2
<1>3. TypeInv /\ IInv /\ (MaxLostAcks = 0 => SourceIsNewest) /\ WholeFile /\ [Next]_vars
        => WholeFile'
  BY NextWhole
<1> QED
  BY <1>2, <1>3, InitNewest, Invariance, PTL DEF Spec

-----------------------------------------------------------------------------
(* The refinement of SnapshotArchive *)

\* A row of the table as an entry of the archive: the substitution in Archive.
Entry(row) == [region |-> row.region, entry |-> <<row.item, row.file>>, at |-> row.at]

\* The archive.
archived == {Entry(row) : row \in snapshots}

\* Its pointers.
pointers == [r \in Region |-> tsmState[r].sourceAt]

\* What a file lists.
Content == [f \in File |-> {<<Files[f][k].item, f>> : k \in 1..Len(Files[f])}]

\* The rows of a file are the entries the archive calls its content.
LEMMA FileIsContent ==
  ASSUME NEW r, NEW f \in File, NEW t,
         \A k \in 1..Len(Files[f]) : Files[f][k].at = t
  PROVE  {Entry(row) : row \in FileRows(r, f)} =
           {[region |-> r, entry |-> e, at |-> t] : e \in Content[f]}
<1> DEFINE E(k) == [region |-> r, entry |-> <<Files[f][k].item, f>>, at |-> t]
<1>1. \A k \in 1..Len(Files[f]) : Entry(RowOf(r, f, k)) = E(k)
  BY DEF Entry, RowOf
<1>2. {Entry(row) : row \in FileRows(r, f)} = {E(k) : k \in 1..Len(Files[f])}
  BY <1>1 DEF FileRows
<1>3. {[region |-> r, entry |-> e, at |-> t] : e \in Content[f]} = {E(k) : k \in 1..Len(Files[f])}
  BY DEF Content
<1> QED
  BY <1>2, <1>3

\* A commit archives a file newer than the one the pointer names.
LEMMA NewerThanPointer ==
  ASSUME TypeInv, IInv, SourceIsNewest, WholeFile,
         MaxLostAcks = 0 \/ (Ordered /\ Distinct),
         NEW r \in Region, pc[r] = "commit", Active(r), ApplySnapshot(r)
  PROVE  tsmState[r].sourceAt < resp[r].updatedAt
<1> DEFINE t == resp[r].updatedAt
           s == tsmState[r].sourceAt
<1>1. s \in Nat /\ t \in Nat \ {0}
  BY CommitStores DEF IInv, TypeInv, TypeOK, StateRow
<1>2. CASE s = None
  BY <1>1, <1>2 DEF None
<1>3. CASE s # None
  <2>1. PICK row \in snapshots : row.region = r /\ row.at = s
    BY <1>3 DEF SourceIsNewest, SnapshotAt
  <2>2. s <= t
    BY <2>1, CommitIsNewest
  <2>3. s # t
    BY <2>1, FreshStamp DEF SnapshotAt
  <2> QED
    BY <1>1, <2>2, <2>3
<1> QED
  BY <1>2, <1>3

\* Seen from the tables, a commit takes over one whole file.
LEMMA IngestStep ==
  ASSUME TypeInv, IInv, SourceIsNewest, WholeFile,
         MaxLostAcks = 0 \/ (Ordered /\ Distinct), NEW r \in Region,
         pc[r] = "commit", Active(r), ApplySnapshot(r), UNCHANGED feed
  PROVE  Archive!Ingest(r)
<1> DEFINE f == resp[r].file
           t == resp[r].updatedAt
<1>1. /\ f \in File /\ WellFormed(f) /\ Files[f][1].at = t
      /\ snapshots' = snapshots \cup FileRows(r, f)
      /\ tsmState'[r].sourceAt = t
      /\ \A q \in Region \ {r} : tsmState'[q] = tsmState[q]
  BY CommitStores DEF IInv
<1>2. t \in UNION {Stamps(g) : g \in File}
  <2>1. 1 \in 1..Len(Files[f])
    BY <1>1, OneStamp
  <2> QED
    BY <1>1, <2>1 DEF Stamps
<1>3. [g \in File |-> IF WellFormed(g) THEN Files[g][1].at ELSE None][f] = t
  BY <1>1
<1>4. pointers[r] < t /\ pointers' = [pointers EXCEPT ![r] = t]
  BY <1>1, NewerThanPointer DEF pointers
<1>5. {a \in archived : a.region = r /\ a.at = t} = {}
  BY FreshStamp DEF SnapshotAt, archived, Entry
<1>6. archived' = archived \cup {[region |-> r, entry |-> e, at |-> t] : e \in Content[f]}
  <2>1. archived' = archived \cup {Entry(row) : row \in FileRows(r, f)}
    BY <1>1 DEF archived, Entry
  <2>2. \A k \in 1..Len(Files[f]) : Files[f][k].at = t
    BY <1>1, OneStamp
  <2>3. f \in File
    BY <1>1
  <2> HIDE DEF f, t
  <2>4. {Entry(row) : row \in FileRows(r, f)} = {[region |-> r, entry |-> e, at |-> t] : e \in Content[f]}
    BY <2>2, <2>3, FileIsContent
  <2> QED
    BY <2>1, <2>4
<1> HIDE DEF f, t
<1>7. Archive!FiledUnder(r, t) = {}
  BY <1>5 DEF Archive!FiledUnder, archived, Entry
<1>8. archived' = archived \cup Archive!Entries(r, f, t)
  BY <1>6 DEF Archive!Entries, Content
<1>9. t \in Nat /\ pointers[r] \in Nat
  BY CommitStores DEF IInv, TypeInv, TypeOK, StateRow, pointers, t
<1> QED
  BY <1>1, <1>2, <1>3, <1>4, <1>7, <1>8, <1>9 DEF Archive!Ingest, archived, Entry, pointers

\* The goroutines implement the archive: each of their steps is a publication,
\* an ingestion or invisible in the tables (ArchiveSpec of TSMPoll).
THEOREM ImplementsArchive ==
  ASSUME MaxLostAcks = 0 \/ (Ordered /\ Distinct)
  PROVE  Spec => ArchiveSpec
<1>1. Init => Archive!Init
  <2> SUFFICES ASSUME Init PROVE Archive!Init
    OBVIOUS
  <2>1. feed \in [Region -> File]
    BY FilesAssumption DEF Init, File
  <2>2. archived = {} /\ pointers = [r \in Region |-> 0]
    BY DEF Init, archived, pointers, Unknown, None
  <2> QED
    BY <2>1, <2>2 DEF Archive!Init, archived, Entry, pointers
<1>2. TypeInv /\ IInv /\ SourceIsNewest /\ WholeFile /\ [Next]_vars
        => [Archive!Next]_(Archive!vars)
  <2> SUFFICES ASSUME TypeInv, IInv, SourceIsNewest, WholeFile, [Next]_vars
               PROVE  Archive!Next \/ UNCHANGED <<feed, archived, pointers>>
    BY DEF Archive!vars, archived, Entry, pointers
  <2>1. ASSUME NEW r \in Region, pc[r] = "commit", Active(r), ApplySnapshot(r), UNCHANGED feed
        PROVE  Archive!Next
    <3>1. Archive!Ingest(r)
      BY <2>1, IngestStep
    <3> QED
      BY <3>1 DEF Archive!Next
  <2>2. CASE UNCHANGED <<feed, tables>>
    BY <2>2 DEF tables, archived, pointers
  <2>3. ASSUME NEW r \in Region, Publish(r) PROVE Archive!Next
    <3>1. feed[r] + 1 \in File /\ feed' = [feed EXCEPT ![r] = feed[r] + 1]
      BY <2>3, FilesAssumption DEF Publish, TypeInv, TypeOK, File
    <3>2. UNCHANGED <<archived, pointers>>
      BY <2>3 DEF Publish, tables, archived, pointers
    <3>3. Archive!Publish(r)
      BY <3>1, <3>2 DEF Archive!Publish, archived, Entry, pointers
    <3> QED
      BY <3>3 DEF Archive!Next
  <2>4. CASE UNCHANGED tables /\ ~UNCHANGED feed
    <3>1. \E r \in Region : Publish(r)
      BY <2>4
      DEF Next, RunRegion, LoadState, LoadFails, Wake, PollFails, NotModified, TouchState, Respond, ReadRow,
          RejectRow, EndOfFile, RejectFile, GiveUp, UpsertState, Commit, CommitAckLost, CommitLands,
          Cancel, Crash, Start, vars
    <3> QED
      BY <2>3, <3>1
  <2> QED
    BY <2>1, <2>2, <2>4, TableSteps
<1>3. Spec => []SourceIsNewest
  BY NewestSource
<1>4. Spec => []WholeFile
  BY WholeFiles
<1> QED
  BY <1>1, <1>2, <1>3, <1>4, Invariance, PTL DEF Spec, ArchiveSpec, Archive!Spec

=============================================================================
