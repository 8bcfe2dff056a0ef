-------------------------- MODULE BlizzardPollProofs --------------------------
(***************************************************************************)
(* Proofs about the Blizzard polling loop, for any regions, any order of   *)
(* the clients, any listings, batch size and number of failures.           *)
(***************************************************************************)
EXTENDS BlizzardPoll, FiniteSetTheorems, TLAPS

-----------------------------------------------------------------------------
(* Type correctness *)

\* The response being consumed names what it is a response with.
PollNamed ==
  /\ pc \in {"stream", "upsert", "commit"} => poll.version \in 1..MaxVersion
  /\ pc = "storeToken" => poll.token \in 1..MaxToken

TypeInv == TypeOK /\ PollNamed

\* The region being polled is a configured one.
LEMMA RegionTyped == TypeOK => region \in Region
  BY ClientsAssumption DEF TypeOK, region

\* Rows of a version belong to the table's type.
LEMMA RowsTyped ==
  ASSUME NEW r \in Region, NEW v \in 1..MaxVersion, NEW n1 \in Nat, NEW n2 \in Nat,
         NEW t \in Nat
  PROVE  Rows(r, v, n1, n2, t) \subseteq SnapshotRow
  BY BoundsAssumption DEF Rows, Row, SnapshotRow

\* The empty records belong to their types.
LEMMA EmptyTyped ==
  NoRow \in StateRow /\ Blank \in RegionState /\ NoPoll \in Poll /\ NoTx \in Tx
<1>1. NoRow \in StateRow /\ Blank \in RegionState
  BY BoundsAssumption DEF NoRow, StateRow, Blank, RegionState, None
<1>2. NoPoll \in Poll
  BY BoundsAssumption DEF NoPoll, Poll, None
<1>3. NoTx \in Tx
  BY DEF NoTx, Tx
<1> QED
  BY <1>1, <1>2, <1>3

\* Counting a failure stays within the bound.
LEMMA FaultsTyped == TypeOK /\ MayFail /\ CountFault => faults' \in 0..MaxFaults
  BY BoundsAssumption DEF TypeOK, MayFail, CountFault

\* The loop goes to a client it has, or stops for this pass.
LEMMA NextClientTyped ==
  TypeOK /\ NextClient =>
    cur' \in 1..Len(Clients) /\ pc' \in {"fetch", "sleep", "stopped"}
  BY ClientsAssumption DEF TypeOK, NextClient

\* A COPY adds rows of the version being consumed.
LEMMA FlushTyped ==
  ASSUME TypeOK, poll.version \in 1..MaxVersion, NEW n \in Nat
  PROVE  Flushed(n) \in Tx
<1>1. region \in Region /\ clock \in Nat /\ poll.copied + 1 \in Nat
  <2>1. region \in Region
    BY RegionTyped
  <2>2. clock \in Nat
    BY BoundsAssumption DEF TypeOK
  <2>3. poll \in Poll
    BY DEF TypeOK
  <2>4. poll.copied \in Nat
    BY <2>3 DEF Poll
  <2> QED
    BY <2>1, <2>2, <2>4
<1>2. Rows(region, poll.version, poll.copied + 1, n, clock) \subseteq SnapshotRow
  BY <1>1, RowsTyped
<1> QED
  BY <1>2 DEF Flushed, Tx, TypeOK

\* A committed snapshot leaves the tables with their types.
LEMMA ApplySnapshotTyped ==
  ASSUME TypeOK, ApplySnapshot
  PROVE  /\ auctionSnapshots' \subseteq SnapshotRow
         /\ wowTokens' \subseteq TokenRow
         /\ scraperState' \in [Region -> StateRow]
         /\ clock' \in 1..MaxClock
<1>1. region \in Region /\ clock \in Nat
  BY RegionTyped, BoundsAssumption DEF TypeOK
<1>2. scraperState' \in [Region -> StateRow]
  BY <1>1 DEF ApplySnapshot, UpsertedRow, TypeOK, StateRow, Poll
<1>3. clock' \in 1..MaxClock
  BY BoundsAssumption DEF ApplySnapshot, TypeOK
<1> QED
  BY <1>2, <1>3 DEF ApplySnapshot, TypeOK, Tx

\* So does a committed token price.
LEMMA ApplyTokenTyped ==
  ASSUME TypeInv, pc = "storeToken", ApplyToken
  PROVE  /\ auctionSnapshots' \subseteq SnapshotRow
         /\ wowTokens' \subseteq TokenRow
         /\ scraperState' \in [Region -> StateRow]
         /\ clock' \in 1..MaxClock
<1>1. region \in Region /\ clock \in Nat
  BY RegionTyped, BoundsAssumption DEF TypeInv, TypeOK
<1>2. scraperState' \in [Region -> StateRow]
  BY <1>1 DEF ApplyToken, TypeInv, TypeOK, StateRow, Poll
<1>3. [region |-> region, updated |-> poll.token, snapshotTime |-> clock] \in TokenRow
  BY <1>1 DEF TypeInv, PollNamed, TokenRow
<1>4. clock' \in 1..MaxClock
  BY BoundsAssumption DEF ApplyToken, TypeInv, TypeOK
<1> QED
  BY <1>2, <1>3, <1>4 DEF ApplyToken, TypeInv, TypeOK

\* A response just begun belongs to the type of poll.
LEMMA ResponseTyped ==
  ASSUME NEW v \in 1..MaxVersion
  PROVE  /\ [NoPoll EXCEPT !.version = v] \in Poll
         /\ [NoPoll EXCEPT !.version = v, !.modified = v] \in Poll
         /\ [NoPoll EXCEPT !.version = v].version = v
         /\ [NoPoll EXCEPT !.version = v, !.modified = v].version = v
<1>1. v \in 0..MaxVersion
  BY BoundsAssumption
<1>2. NoPoll \in Poll
  BY EmptyTyped
<1>3. \A p \in Poll : /\ [p EXCEPT !.version = v] \in Poll
                     /\ [p EXCEPT !.version = v].version = v
  BY <1>1 DEF Poll
<1>4. \A p \in Poll : [p EXCEPT !.version = v, !.modified = v] \in Poll
  BY <1>1 DEF Poll
<1>5. \A p \in Poll : [p EXCEPT !.version = v, !.modified = v].version = v
  BY <1>1 DEF Poll
<1> QED
  BY <1>2, <1>3, <1>4, <1>5

\* So does a token update that waits to be stored.
LEMMA TokenPollTyped ==
  ASSUME NEW u \in 1..MaxToken
  PROVE  /\ [NoPoll EXCEPT !.token = u] \in Poll
         /\ [NoPoll EXCEPT !.token = u].token = u
<1>1. u \in 0..MaxToken
  BY BoundsAssumption
<1>2. NoPoll \in Poll
  BY EmptyTyped
<1>3. \A p \in Poll : /\ [p EXCEPT !.token = u] \in Poll
                     /\ [p EXCEPT !.token = u].token = u
  BY <1>1 DEF Poll
<1> QED
  BY <1>2, <1>3

\* A response starts with nothing consumed and nothing copied.
LEMMA ResponseShape ==
  ASSUME NEW v
  PROVE  /\ [NoPoll EXCEPT !.version = v].version = v
         /\ [NoPoll EXCEPT !.version = v].modified = None
         /\ [NoPoll EXCEPT !.version = v].consumed = 0
         /\ [NoPoll EXCEPT !.version = v].copied = 0
         /\ [NoPoll EXCEPT !.version = v, !.modified = v].version = v
         /\ [NoPoll EXCEPT !.version = v, !.modified = v].modified = v
         /\ [NoPoll EXCEPT !.version = v, !.modified = v].consumed = 0
         /\ [NoPoll EXCEPT !.version = v, !.modified = v].copied = 0
  BY DEF NoPoll

\* The start satisfies the strengthened type invariant.
LEMMA InitTyped == Init => TypeInv
<1> SUFFICES ASSUME Init PROVE TypeInv
  OBVIOUS
<1>1. 1 \in 1..Len(Clients)
  BY ClientsAssumption
<1>2. 1 \in 1..MaxVersion /\ 1 \in 1..MaxToken /\ 1 \in 1..MaxClock
  BY BoundsAssumption
<1>3. 0 \in 0..MaxFaults /\ 0 \in 0..MaxLostAcks
  BY BoundsAssumption
<1>4. TypeOK
  BY <1>1, <1>2, <1>3, EmptyTyped DEF Init, TypeOK, Steps
<1>5. PollNamed
  BY DEF Init, PollNamed
<1> QED
  BY <1>4, <1>5 DEF TypeInv

\* Every step keeps it; one case per action.
LEMMA NextTyped == TypeInv /\ [Next]_vars => TypeInv'
<1> SUFFICES ASSUME TypeInv, [Next]_vars PROVE TypeInv'
  OBVIOUS
<1> USE DEF TypeInv, TypeOK, Steps
<1>0. region \in Region
  BY RegionTyped
<1>1. CASE LoadState
  <2>1. rg' \in [Region -> RegionState]
    BY <1>1 DEF LoadState, StateRow, RegionState
  <2>2. 1 \in 1..Len(Clients)
    BY ClientsAssumption
  <2> QED
    BY <1>1, <2>1, <2>2 DEF LoadState, PollNamed, upstream, tables
<1>2. CASE LoadFails
  <2>1. faults' \in 0..MaxFaults
    BY <1>2, FaultsTyped DEF LoadFails
  <2> QED
    BY <1>2, <2>1 DEF LoadFails, PollNamed, upstream, tables
<1>3. CASE NotModified
  BY <1>3, EmptyTyped DEF NotModified, AbandonSnapshot, AfterSnapshot, PollNamed, upstream, tables
<1>4. CASE Respond
  <2>0. feed[region] \in 1..MaxVersion
    BY <1>0
  <2>1. poll' \in Poll /\ poll'.version \in 1..MaxVersion
    BY <1>4, <2>0, ResponseTyped DEF Respond
  <2>2. faults' \in 0..MaxFaults
    BY <1>4, BoundsAssumption DEF Respond
  <2> QED
    BY <1>4, <2>1, <2>2 DEF Respond, PollNamed, upstream, tables
<1>5. CASE SnapshotFails
  <2>1. faults' \in 0..MaxFaults
    BY <1>5, FaultsTyped DEF SnapshotFails
  <2> QED
    BY <1>5, <2>1, EmptyTyped DEF SnapshotFails, AbandonSnapshot, AfterSnapshot, PollNamed, upstream, tables
<1>6. CASE StreamAuction
  <2> DEFINE n == poll.consumed + 1
  <2>0. n \in Nat
    BY DEF Poll
  <2>1. CASE n - poll.copied = BatchSize
    <3>1. poll' = [poll EXCEPT !.consumed = n, !.copied = n] /\ tx' = Flushed(n)
      BY <1>6, <2>1 DEF StreamAuction
    <3>2. poll' \in Poll /\ poll'.version = poll.version
      BY <3>1, <2>0 DEF Poll
    <3>3. tx' \in Tx
      BY <1>6, <3>1, <2>0, FlushTyped DEF StreamAuction, PollNamed
    <3> QED
      BY <1>6, <3>2, <3>3 DEF StreamAuction, PollNamed, upstream, tables
  <2>2. CASE n - poll.copied # BatchSize
    <3>1. poll' = [poll EXCEPT !.consumed = n] /\ tx' = tx
      BY <1>6, <2>2 DEF StreamAuction
    <3>2. poll' \in Poll /\ poll'.version = poll.version
      BY <3>1, <2>0 DEF Poll
    <3> QED
      BY <1>6, <3>1, <3>2 DEF StreamAuction, PollNamed, upstream, tables
  <2> QED
    BY <2>1, <2>2
<1>7. CASE DiscardBody
  BY <1>7, EmptyTyped DEF DiscardBody, StreamedToEnd, AbandonSnapshot, AfterSnapshot, PollNamed, upstream, tables
<1>8. CASE FinishBody
  <2>1. poll' \in Poll /\ poll'.version = poll.version
    BY <1>8 DEF FinishBody, Poll
  <2>2. tx' \in Tx
    BY <1>8, <1>0, FlushTyped DEF FinishBody, StreamedToEnd, PollNamed, Poll
  <2> QED
    BY <1>8, <2>1, <2>2 DEF FinishBody, StreamedToEnd, PollNamed, upstream, tables
<1>9. CASE UpsertState
  BY <1>9 DEF UpsertState, PollNamed, upstream, tables
<1>10. CASE CommitSnapshot
  <2>1. rg' \in [Region -> RegionState]
    BY <1>10, <1>0 DEF CommitSnapshot, RegionState, Poll
  <2> QED
    BY <1>10, <2>1, ApplySnapshotTyped, EmptyTyped DEF CommitSnapshot, AfterSnapshot, PollNamed, upstream
<1>11. CASE CommitAckLost
  <2>1. lostAcks' \in 0..MaxLostAcks
    BY <1>11, BoundsAssumption DEF CommitAckLost
  <2> QED
    BY <1>11, <2>1, ApplySnapshotTyped, EmptyTyped DEF CommitAckLost, AfterSnapshot, PollNamed, upstream
<1>12. CASE PollToken
  <2>1. CASE TokenUnchanged
    BY <1>12, <2>1, NextClientTyped DEF PollToken, PollNamed, upstream, tables
  <2>2. CASE ~TokenUnchanged
    <3>1. tokenFeed[region] \in 1..MaxToken
      BY <1>0
    <3>2. poll' = [NoPoll EXCEPT !.token = tokenFeed[region]]
      BY <1>12, <2>2 DEF PollToken
    <3>3. poll' \in Poll /\ poll'.token \in 1..MaxToken
      BY <3>1, <3>2, TokenPollTyped
    <3> QED
      BY <1>12, <2>2, <3>3 DEF PollToken, PollNamed, upstream, tables
  <2> QED
    BY <2>1, <2>2
<1>13. CASE StoreToken
  <2>1. rg' \in [Region -> RegionState]
    BY <1>13, <1>0 DEF StoreToken, RegionState, Poll
  <2> QED
    BY <1>13, <2>1, ApplyTokenTyped, NextClientTyped, EmptyTyped DEF StoreToken, PollNamed, upstream
<1>14. CASE TokenAckLost
  <2>1. lostAcks' \in 0..MaxLostAcks
    BY <1>14, BoundsAssumption DEF TokenAckLost
  <2> QED
    BY <1>14, <2>1, ApplyTokenTyped, NextClientTyped, EmptyTyped DEF TokenAckLost, PollNamed, upstream
<1>15. CASE TokenFails
  <2>1. faults' \in 0..MaxFaults
    BY <1>15, FaultsTyped DEF TokenFails
  <2> QED
    BY <1>15, <2>1, NextClientTyped, EmptyTyped DEF TokenFails, PollNamed, upstream, tables
<1>16. CASE Wake
  <2>1. 1 \in 1..Len(Clients)
    BY ClientsAssumption
  <2> QED
    BY <1>16, <2>1 DEF Wake, PollNamed, upstream, tables
<1>17. CASE \E r \in Region : Publish(r) \/ PublishToken(r)
  <2>1. ASSUME NEW r \in Region, Publish(r) PROVE TypeInv'
    <3>1. feed[r] + 1 \in 1..MaxVersion
      BY <2>1, BoundsAssumption DEF Publish
    <3>2. feed' \in [Region -> 1..MaxVersion]
      BY <2>1, <3>1 DEF Publish
    <3> QED
      BY <2>1, <3>2 DEF Publish, PollNamed, tables
  <2>2. ASSUME NEW r \in Region, PublishToken(r) PROVE TypeInv'
    <3>1. tokenFeed[r] + 1 \in 1..MaxToken
      BY <2>2, BoundsAssumption DEF PublishToken
    <3>2. tokenFeed' \in [Region -> 1..MaxToken]
      BY <2>2, <3>1 DEF PublishToken
    <3> QED
      BY <2>2, <3>2 DEF PublishToken, PollNamed, tables
  <2> QED
    BY <1>17, <2>1, <2>2
<1>18. CASE Cancel
  <2>1. faults' \in 0..MaxFaults
    BY <1>18, BoundsAssumption DEF Cancel
  <2> QED
    BY <1>18, <2>1 DEF Cancel, PollNamed, upstream, tables
<1>19. CASE Crash
  <2>1. faults' \in 0..MaxFaults
    BY <1>19, BoundsAssumption DEF Crash
  <2>2. /\ auctionSnapshots' \subseteq SnapshotRow
        /\ wowTokens' \subseteq TokenRow
        /\ scraperState' \in [Region -> StateRow]
        /\ clock' \in 1..MaxClock
    BY <1>19, ApplySnapshotTyped, ApplyTokenTyped DEF Crash, tables
  <2> QED
    BY <1>19, <2>1, <2>2, EmptyTyped DEF Crash, PollNamed, upstream
<1>20. CASE Start
  <2>1. 1 \in 1..Len(Clients)
    BY ClientsAssumption
  <2> QED
    BY <1>20, <2>1, EmptyTyped DEF Start, PollNamed, upstream, tables
<1>21. CASE UNCHANGED vars
  BY <1>21 DEF vars, PollNamed, upstream, tables
<1> QED
  BY <1>1, <1>2, <1>3, <1>4, <1>5, <1>6, <1>7, <1>8, <1>9, <1>10, <1>11, <1>12, <1>13, <1>14,
     <1>15, <1>16, <1>17, <1>18, <1>19, <1>20, <1>21 DEF Next, Loop, Environment

\* The loop's state and the three tables keep their types whatever happens.
THEOREM TypeCorrect == Spec => []TypeOK
<1>1. TypeInv => TypeOK
  BY DEF TypeInv
<1> QED
  BY <1>1, InitTyped, NextTyped, PTL DEF Spec

-----------------------------------------------------------------------------
(* Whole snapshots and honest pointers *)

\* What the open transaction holds is what it will have to be: while the
\* stream runs the copied prefix of the listing, after it all of the listing,
\* and outside of storeStreamedSnapshot there is no transaction.
TxHoldsPrefix ==
  /\ pc = "stream" =>
       tx.rows = Rows(region, poll.version, 1, poll.copied, clock)
  /\ pc \in {"upsert", "commit"} =>
       /\ tx.rows = Rows(region, poll.version, 1, Auctions[poll.version], clock)
       /\ poll.modified = poll.version
  /\ pc = "stream" =>
       /\ poll.modified \in {None, poll.version}
       /\ poll.copied <= poll.consumed
       /\ poll.consumed <= Auctions[poll.version]
  /\ pc \notin {"stream", "upsert", "commit"} => tx.rows = {}

\* No snapshot is filed under the present or a later instant, so that of the
\* open transaction is new.
FiledInPast ==
  /\ \A row \in auctionSnapshots : row.snapshotTime < clock
  /\ \A r \in Region : scraperState[r].lastSnapshotTime < clock

Stored == FiledInPast /\ SnapshotsWhole /\ PointerHonest

\* A copied prefix and the next rows make a longer prefix.
LEMMA RowsSplit ==
  ASSUME NEW r, NEW v, NEW t, NEW a \in Nat, NEW b \in Nat, a <= b
  PROVE  Rows(r, v, 1, a, t) \cup Rows(r, v, a + 1, b, t) = Rows(r, v, 1, b, t)
<1>1. 1..a \cup (a + 1)..b = 1..b
  OBVIOUS
<1> QED
  BY <1>1 DEF Rows

\* The empty prefix of a listing has no rows.
LEMMA RowsNone ==
  ASSUME NEW r, NEW v, NEW t
  PROVE  Rows(r, v, 1, 0, t) = {}
  BY DEF Rows

\* The stored parts of the invariant are about three variables only.
LEMMA StoredQuiet ==
  ASSUME Stored, UNCHANGED <<auctionSnapshots, scraperState, clock>>
  PROVE  Stored'
  BY DEF Stored, FiledInPast, SnapshotsWhole, WholeListing, PointerHonest, SnapshotAt

\* A token price leaves snapshots and snapshot pointers alone.
LEMMA StoredByToken ==
  ASSUME TypeInv, Stored, ApplyToken
  PROVE  Stored'
<1>1. region \in Region /\ clock \in Nat
  BY RegionTyped, BoundsAssumption DEF TypeInv, TypeOK
<1>2. \A r \in Region :
        /\ scraperState'[r].lastModified = scraperState[r].lastModified
        /\ scraperState'[r].lastSnapshotTime = scraperState[r].lastSnapshotTime
  BY <1>1 DEF ApplyToken, TypeInv, TypeOK, StateRow
<1>3. auctionSnapshots' = auctionSnapshots /\ clock' = clock + 1
  BY DEF ApplyToken
<1>4. FiledInPast'
  <2>1. \A row \in auctionSnapshots : row.snapshotTime \in Nat
    BY DEF TypeInv, TypeOK, SnapshotRow
  <2>2. \A r \in Region : scraperState[r].lastSnapshotTime \in Nat
    BY DEF TypeInv, TypeOK, StateRow
  <2> QED
    BY <1>1, <1>2, <1>3, <2>1, <2>2 DEF Stored, FiledInPast
<1>5. SnapshotsWhole'
  BY <1>3 DEF Stored, SnapshotsWhole, WholeListing, SnapshotAt
<1>6. PointerHonest'
  BY <1>2, <1>3 DEF Stored, PointerHonest, SnapshotAt
<1> QED
  BY <1>4, <1>5, <1>6 DEF Stored

\* A commit files the complete listing under an instant of its own and moves
\* the pointer to it.
LEMMA StoredBySnapshot ==
  ASSUME TypeInv, Stored, TxHoldsPrefix, pc = "commit", ApplySnapshot
  PROVE  Stored'
<1> DEFINE new == Rows(region, poll.version, 1, Auctions[poll.version], clock)
<1>1. region \in Region /\ clock \in Nat /\ poll.version \in 1..MaxVersion
  BY RegionTyped, BoundsAssumption DEF TypeInv, TypeOK, PollNamed
<1>2. auctionSnapshots' = auctionSnapshots \cup new /\ clock' = clock + 1
  BY DEF ApplySnapshot, TxHoldsPrefix
<1>3. \A row \in new : row.region = region /\ row.snapshotTime = clock
  BY DEF Rows, Row
<1>4. \A row \in auctionSnapshots : row.snapshotTime \in Nat /\ row.region \in Region
  BY DEF TypeInv, TypeOK, SnapshotRow
<1>5. \A r \in Region : scraperState[r].lastSnapshotTime \in Nat
  BY DEF TypeInv, TypeOK, StateRow
<1>6. /\ scraperState'[region].lastModified = poll.version
      /\ scraperState'[region].lastSnapshotTime = clock
      /\ \A r \in Region \ {region} : scraperState'[r] = scraperState[r]
  BY <1>1 DEF ApplySnapshot, UpsertedRow, TxHoldsPrefix, TypeInv, TypeOK, StateRow
<1>7. \A r \in Region, t \in Nat : r = region /\ t = clock => SnapshotAt(r, t)' = new
  <2> SUFFICES ASSUME NEW r \in Region, NEW t \in Nat, r = region, t = clock
               PROVE  SnapshotAt(r, t)' = new
    OBVIOUS
  <2>1. \A row \in auctionSnapshots : row.snapshotTime # t
    BY <1>1, <1>4 DEF Stored, FiledInPast
  <2>2. \A row \in new : row.region = r /\ row.snapshotTime = t
    BY <1>3
  <2>3. SnapshotAt(r, t)' = {row \in auctionSnapshots \cup new :
                               row.region = r /\ row.snapshotTime = t}
    BY <1>2 DEF SnapshotAt
  <2> QED
    BY <2>1, <2>2, <2>3
<1>8. \A r \in Region, t \in Nat : t < clock => SnapshotAt(r, t)' = SnapshotAt(r, t)
  <2> SUFFICES ASSUME NEW r \in Region, NEW t \in Nat, t < clock
               PROVE  SnapshotAt(r, t)' = SnapshotAt(r, t)
    OBVIOUS
  <2>1. \A row \in new : row.snapshotTime # t
    BY <1>1, <1>3
  <2> QED
    BY <1>2, <2>1 DEF SnapshotAt
<1>9. FiledInPast'
  <2>1. \A row \in auctionSnapshots' : row.snapshotTime < clock'
    BY <1>1, <1>2, <1>3, <1>4 DEF Stored, FiledInPast
  <2>2. \A r \in Region : scraperState'[r].lastSnapshotTime < clock'
    BY <1>1, <1>2, <1>5, <1>6 DEF Stored, FiledInPast
  <2> QED
    BY <2>1, <2>2 DEF FiledInPast
<1>10. SnapshotsWhole'
  <2> SUFFICES ASSUME NEW row \in auctionSnapshots'
               PROVE  WholeListing(row.region, row.snapshotTime)'
    BY DEF SnapshotsWhole
  <2>1. CASE row \in new
    <3>1. row.region = region /\ row.snapshotTime = clock
      BY <1>3, <2>1
    <3>2. SnapshotAt(row.region, row.snapshotTime)' = new
      BY <1>1, <1>7, <3>1
    <3>3. new = Rows(row.region, poll.version, 1, Auctions[poll.version], row.snapshotTime)
      BY <3>1
    <3> QED
      BY <1>1, <3>2, <3>3 DEF WholeListing
  <2>2. CASE row \in auctionSnapshots
    <3>1. SnapshotAt(row.region, row.snapshotTime)' = SnapshotAt(row.region, row.snapshotTime)
      BY <1>4, <1>8, <2>2 DEF Stored, FiledInPast
    <3>2. WholeListing(row.region, row.snapshotTime)
      BY <2>2 DEF Stored, SnapshotsWhole
    <3> QED
      BY <3>1, <3>2 DEF WholeListing
  <2> QED
    BY <1>2, <2>1, <2>2
<1>11. PointerHonest'
  <2> SUFFICES ASSUME NEW r \in Region
               PROVE  /\ scraperState'[r].lastModified # None =>
                           SnapshotAt(r, scraperState[r].lastSnapshotTime)' =
                             Rows(r, scraperState'[r].lastModified, 1,
                                  Auctions[scraperState'[r].lastModified],
                                  scraperState'[r].lastSnapshotTime)
                      /\ \A row \in auctionSnapshots' :
                           row.region = r => row.snapshotTime <= scraperState'[r].lastSnapshotTime
    BY DEF PointerHonest
  <2>1. CASE r = region
    <3>1. \A row \in auctionSnapshots' : row.snapshotTime <= clock
      BY <1>1, <1>2, <1>3, <1>4 DEF Stored, FiledInPast
    <3>2. \A t \in Nat : t = clock => SnapshotAt(r, t)' = new
      BY <1>7, <2>1
    <3>3. SnapshotAt(r, scraperState[r].lastSnapshotTime)' = new
      BY <1>1, <1>6, <2>1, <3>2 DEF SnapshotAt
    <3> QED
      BY <1>6, <2>1, <3>1, <3>3
  <2>2. CASE r # region
    <3>1. scraperState'[r] = scraperState[r]
      BY <1>6, <2>2
    <3>2. SnapshotAt(r, scraperState[r].lastSnapshotTime)' =
            SnapshotAt(r, scraperState[r].lastSnapshotTime)
      <4>1. scraperState[r].lastSnapshotTime < clock
        BY DEF Stored, FiledInPast
      <4>2. \A row \in new : row.region # r
        BY <1>3, <2>2
      <4> QED
        BY <1>2, <3>1, <4>2 DEF SnapshotAt
    <3>3. \A row \in auctionSnapshots' : row.region = r => row \in auctionSnapshots
      BY <1>2, <1>3, <2>2
    <3> QED
      BY <3>1, <3>2, <3>3 DEF Stored, PointerHonest
  <2> QED
    BY <2>1, <2>2
<1> QED
  BY <1>9, <1>10, <1>11 DEF Stored

IInv == TxHoldsPrefix /\ Stored

\* The start satisfies the inductive invariant.
LEMMA InitKeeps == Init => IInv
<1> SUFFICES ASSUME Init PROVE IInv
  OBVIOUS
<1>1. TxHoldsPrefix
  BY DEF Init, TxHoldsPrefix, NoTx
<1>2. Stored
  BY DEF Init, Stored, FiledInPast, SnapshotsWhole, PointerHonest, NoRow, None
<1> QED
  BY <1>1, <1>2 DEF IInv

\* Every step keeps the invariant: the steps of the stream the first part, the
\* three that commit the second.
LEMMA NextKeeps == TypeInv /\ IInv /\ [Next]_vars => IInv'
<1> SUFFICES ASSUME TypeInv, IInv, [Next]_vars PROVE IInv'
  OBVIOUS
<1> USE DEF IInv
<1>0. /\ region \in Region /\ clock \in Nat
      /\ poll \in Poll
      /\ pc \in {"stream", "upsert", "commit"} =>
           /\ poll.version \in 1..MaxVersion
           /\ Auctions[poll.version] \in Nat
  BY RegionTyped, BoundsAssumption DEF TypeInv, TypeOK, PollNamed
<1>1. CASE LoadState \/ LoadFails \/ PollToken \/ TokenFails \/ Wake \/ Start
  <2>1. TxHoldsPrefix'
    BY <1>1 DEF LoadState, LoadFails, PollToken, TokenFails, Wake, Start, NextClient,
                Running, TxHoldsPrefix
  <2>2. UNCHANGED <<auctionSnapshots, scraperState, clock>>
    BY <1>1 DEF LoadState, LoadFails, PollToken, TokenFails, Wake, Start, tables
  <2> QED
    BY <2>1, <2>2, StoredQuiet
<1>2. CASE NotModified \/ SnapshotFails \/ DiscardBody
  <2>1. TxHoldsPrefix'
    BY <1>2 DEF NotModified, SnapshotFails, DiscardBody, AbandonSnapshot, AfterSnapshot, TxHoldsPrefix, NoTx
  <2>2. UNCHANGED <<auctionSnapshots, scraperState, clock>>
    BY <1>2 DEF NotModified, SnapshotFails, DiscardBody, AbandonSnapshot, AfterSnapshot, tables
  <2> QED
    BY <2>1, <2>2, StoredQuiet
<1>3. CASE Respond
  <2>1. /\ pc' = "stream"
        /\ tx'.rows = {}
        /\ poll'.copied = 0 /\ poll'.consumed = 0
        /\ poll'.modified \in {None, poll'.version}
        /\ poll'.version \in 1..MaxVersion
    <3>1. feed[region] \in 1..MaxVersion
      BY <1>0 DEF TypeInv, TypeOK
    <3>2. pc = "fetch" /\ pc' = "stream" /\ tx' = tx
      BY <1>3 DEF Respond
    <3>3. tx.rows = {}
      BY <3>2 DEF TxHoldsPrefix
    <3>4. \/ poll' = [NoPoll EXCEPT !.version = feed[region], !.modified = feed[region]]
          \/ poll' = [NoPoll EXCEPT !.version = feed[region]]
      BY <1>3 DEF Respond
    <3>5. /\ poll'.copied = 0 /\ poll'.consumed = 0 /\ poll'.version = feed[region]
          /\ poll'.modified \in {None, feed[region]}
      <4> DEFINE v == feed[region]
      <4>1. CASE poll' = [NoPoll EXCEPT !.version = v, !.modified = v]
        BY <4>1, ResponseShape
      <4>2. CASE poll' = [NoPoll EXCEPT !.version = v]
        BY <4>2, ResponseShape
      <4> QED
        BY <3>4, <4>1, <4>2
    <3> QED
      BY <3>1, <3>2, <3>3, <3>5
  <2>2. Auctions[poll'.version] \in Nat
    BY <2>1, BoundsAssumption
  <2>3. TxHoldsPrefix'
    BY <2>1, <2>2, RowsNone DEF TxHoldsPrefix
  <2> QED
    BY <1>3, <2>3, StoredQuiet DEF Respond, tables
<1>4. CASE StreamAuction
  <2> DEFINE n == poll.consumed + 1
  <2>1. pc = "stream" /\ pc' = "stream" /\ n \in Nat /\ n <= Auctions[poll.version]
    BY <1>0, <1>4 DEF StreamAuction, Poll
  <2>2. /\ clock' = clock /\ region' = region
        /\ UNCHANGED <<auctionSnapshots, scraperState, clock>>
    BY <1>4 DEF StreamAuction, tables, region
  <2>3. CASE n - poll.copied = BatchSize
    <3>1. poll' = [poll EXCEPT !.consumed = n, !.copied = n] /\ tx' = Flushed(n)
      BY <1>4, <2>3 DEF StreamAuction
    <3>2. /\ poll'.version = poll.version /\ poll'.modified = poll.modified
          /\ poll'.consumed = n /\ poll'.copied = n
      BY <1>0, <3>1 DEF Poll
    <3>3. tx'.rows = Rows(region, poll.version, 1, n, clock)
      <4>1. poll.copied \in Nat /\ poll.copied <= n
        BY <1>0, <2>1 DEF Poll, TxHoldsPrefix
      <4> QED
        BY <2>1, <3>1, <4>1, RowsSplit DEF Flushed, TxHoldsPrefix
    <3>4. TxHoldsPrefix'
      BY <2>1, <2>2, <3>2, <3>3 DEF TxHoldsPrefix
    <3> QED
      BY <2>2, <3>4, StoredQuiet
  <2>4. CASE n - poll.copied # BatchSize
    <3>1. poll' = [poll EXCEPT !.consumed = n] /\ tx' = tx
      BY <1>4, <2>4 DEF StreamAuction
    <3>2. /\ poll'.version = poll.version /\ poll'.modified = poll.modified
          /\ poll'.consumed = n /\ poll'.copied = poll.copied
          /\ poll.copied \in Nat /\ poll.consumed \in Nat
      BY <1>0, <3>1 DEF Poll
    <3>3. TxHoldsPrefix'
      BY <2>1, <2>2, <3>1, <3>2 DEF TxHoldsPrefix
    <3> QED
      BY <2>2, <3>3, StoredQuiet
  <2> QED
    BY <2>3, <2>4
<1>5. CASE FinishBody
  <2>1. /\ pc = "stream" /\ pc' = "upsert"
        /\ poll.consumed = Auctions[poll.version]
        /\ poll.modified # None
        /\ tx' = Flushed(poll.consumed)
        /\ poll' = [poll EXCEPT !.copied = poll.consumed]
    BY <1>5 DEF FinishBody, StreamedToEnd, Storable
  <2>2. poll'.version = poll.version /\ poll'.modified = poll.modified
    BY <1>0, <2>1 DEF Poll
  <2>3. tx'.rows = Rows(region, poll.version, 1, Auctions[poll.version], clock)
    <3>1. poll.copied \in Nat /\ poll.consumed \in Nat /\ poll.copied <= poll.consumed
      BY <1>0, <2>1 DEF Poll, TxHoldsPrefix
    <3> QED
      BY <2>1, <3>1, RowsSplit DEF Flushed, TxHoldsPrefix
  <2>4. clock' = clock /\ region' = region
    BY <1>5 DEF FinishBody, tables, region
  <2>5. TxHoldsPrefix'
    BY <2>1, <2>2, <2>3, <2>4 DEF TxHoldsPrefix
  <2> QED
    BY <1>5, <2>5, StoredQuiet DEF FinishBody, tables
<1>6. CASE UpsertState
  <2>1. clock' = clock /\ region' = region
    BY <1>6 DEF UpsertState, tables, region
  <2>2. TxHoldsPrefix'
    BY <1>6, <2>1 DEF UpsertState, TxHoldsPrefix
  <2> QED
    BY <1>6, <2>2, StoredQuiet DEF UpsertState, tables
<1>7. CASE CommitSnapshot \/ CommitAckLost
  <2>1. pc = "commit" /\ ApplySnapshot /\ pc' = "token" /\ tx' = NoTx
    BY <1>7 DEF CommitSnapshot, CommitAckLost, AfterSnapshot
  <2>2. TxHoldsPrefix'
    BY <2>1 DEF TxHoldsPrefix, NoTx
  <2> QED
    BY <2>1, <2>2, StoredBySnapshot
<1>8. CASE StoreToken \/ TokenAckLost
  <2>1. pc = "storeToken" /\ ApplyToken /\ tx' = tx /\ NextClient
    BY <1>8 DEF StoreToken, TokenAckLost
  <2>2. TxHoldsPrefix'
    BY <2>1 DEF TxHoldsPrefix, NextClient
  <2> QED
    BY <2>1, <2>2, StoredByToken
<1>9. CASE Crash
  <2>1. pc' = "down" /\ tx' = NoTx
    BY <1>9 DEF Crash
  <2>2. TxHoldsPrefix'
    BY <2>1 DEF TxHoldsPrefix, NoTx
  <2>3. \/ UNCHANGED <<auctionSnapshots, scraperState, clock>>
        \/ pc = "commit" /\ ApplySnapshot
        \/ ApplyToken
    BY <1>9 DEF Crash, tables
  <2> QED
    BY <2>2, <2>3, StoredQuiet, StoredBySnapshot, StoredByToken
<1>10. CASE (\E r \in Region : Publish(r) \/ PublishToken(r)) \/ Cancel \/ UNCHANGED vars
  <2>1. UNCHANGED <<auctionSnapshots, scraperState, clock, pc, poll, tx, cur>>
    BY <1>10 DEF Publish, PublishToken, Cancel, vars, tables
  <2>2. region' = region
    BY <2>1 DEF region
  <2>3. TxHoldsPrefix'
    BY <2>1, <2>2 DEF TxHoldsPrefix
  <2> QED
    BY <2>1, <2>3, StoredQuiet
<1> QED
  BY <1>1, <1>2, <1>3, <1>4, <1>5, <1>6, <1>7, <1>8, <1>9, <1>10 DEF Next, Loop, Environment

\* The inductive invariant holds throughout, on top of the types.
LEMMA Invariance == Spec => []IInv
<1>1. TypeInv /\ TypeInv' /\ IInv /\ [Next]_vars => IInv'
  BY NextKeeps
<1> QED
  BY <1>1, InitTyped, NextTyped, InitKeeps, PTL DEF Spec

\* Whatever fails, whenever the process dies and however the listings fall
\* into batches, the table holds complete listings only (SnapshotsWhole of
\* BlizzardPoll, storeStreamedSnapshot's one transaction per snapshot).
THEOREM WholeSnapshots == Spec => []SnapshotsWhole
<1>1. IInv => SnapshotsWhole
  BY DEF IInv, Stored
<1> QED
  BY <1>1, Invariance, PTL

\* The committed pointer of a region names its newest snapshot and the version
\* that this snapshot holds completely (PointerHonest of BlizzardPoll).
THEOREM HonestPointer == Spec => []PointerHonest
<1>1. IInv => PointerHonest
  BY DEF IInv, Stored
<1> QED
  BY <1>1, Invariance, PTL

-----------------------------------------------------------------------------
(* What the loop knows, what is stored and what is served *)

\* The loop has read its state since the process started, and still runs.
Loaded == pc \notin {"load", "stopped", "down"}

\* Nothing is stored that is not served, or was.
FeedLeads ==
  \A r \in Region : /\ scraperState[r].lastModified <= feed[r]
                    /\ scraperState[r].tokenUpdated <= tokenFeed[r]

\* Memory is never ahead of the committed version.
MemoryBehind == \A r \in Region : rg[r].lastModified <= scraperState[r].lastModified

\* What is being polled is at least as new as what is committed; once it is
\* going to be stored, it is newer than what the loop remembers.
PollFresh ==
  /\ pc \in {"stream", "upsert", "commit"} =>
       /\ scraperState[region].lastModified <= poll.version
       /\ poll.version <= feed[region]
  /\ pc \in {"upsert", "commit"} => rg[region].lastModified < poll.version
  /\ pc = "storeToken" =>
       /\ scraperState[region].tokenUpdated <= poll.token
       /\ poll.token <= tokenFeed[region]
       /\ rg[region].tokenUpdated < poll.token

\* Until an acknowledgement is lost, the loop knows what is committed.
MemoryCurrent ==
  Loaded /\ lostAcks = 0 =>
    \A r \in Region : /\ scraperState[r].lastModified <= rg[r].lastModified
                      /\ scraperState[r].tokenUpdated <= rg[r].tokenUpdated

\* The order of feed, tables, memory and poll.
Fresh == FeedLeads /\ MemoryBehind /\ PollFresh /\ MemoryCurrent

\* All that is compared below is a natural number.
LEMMA Numbers ==
  ASSUME TypeInv
  PROVE  /\ region \in Region
         /\ \A r \in Region :
              /\ feed[r] \in Nat \ {0} /\ tokenFeed[r] \in Nat \ {0}
              /\ scraperState[r].lastModified \in Nat /\ scraperState[r].tokenUpdated \in Nat
              /\ rg[r].lastModified \in Nat /\ rg[r].tokenUpdated \in Nat
         /\ poll.version \in Nat /\ poll.token \in Nat /\ poll.modified \in Nat
         /\ lostAcks \in Nat
<1>1. region \in Region
  BY RegionTyped DEF TypeInv
<1>2. \A r \in Region : feed[r] \in Nat \ {0} /\ tokenFeed[r] \in Nat \ {0}
  BY BoundsAssumption DEF TypeInv, TypeOK
<1>3. \A r \in Region :
        scraperState[r].lastModified \in Nat /\ scraperState[r].tokenUpdated \in Nat
  BY BoundsAssumption DEF TypeInv, TypeOK, StateRow
<1>4. \A r \in Region : rg[r].lastModified \in Nat /\ rg[r].tokenUpdated \in Nat
  BY BoundsAssumption DEF TypeInv, TypeOK, RegionState
<1>5. poll.version \in Nat /\ poll.token \in Nat /\ poll.modified \in Nat
  BY BoundsAssumption DEF TypeInv, TypeOK, Poll
<1>6. lostAcks \in Nat
  BY BoundsAssumption DEF TypeInv, TypeOK
<1> QED
  BY <1>1, <1>2, <1>3, <1>4, <1>5, <1>6

\* What a committed snapshot does to the columns compared.
LEMMA SnapshotColumns ==
  ASSUME TypeInv, TxHoldsPrefix, pc = "commit", ApplySnapshot
  PROVE  /\ scraperState'[region].lastModified = poll.version
         /\ scraperState'[region].tokenUpdated = scraperState[region].tokenUpdated
         /\ \A r \in Region \ {region} : scraperState'[r] = scraperState[r]
         /\ wowTokens' = wowTokens
<1>1. region \in Region
  BY Numbers
<1>2. poll.modified = poll.version
  BY DEF TxHoldsPrefix
<1> QED
  BY <1>1, <1>2 DEF ApplySnapshot, UpsertedRow, TypeInv, TypeOK, StateRow

\* And a committed token price; a region without a row does not get one.
LEMMA TokenColumns ==
  ASSUME TypeInv, ApplyToken
  PROVE  /\ scraperState'[region].lastModified = scraperState[region].lastModified
         /\ scraperState'[region].tokenUpdated \in {scraperState[region].tokenUpdated, poll.token}
         /\ \A r \in Region \ {region} : scraperState'[r] = scraperState[r]
<1>1. region \in Region
  BY Numbers
<1> QED
  BY <1>1 DEF ApplyToken, TypeInv, TypeOK, StateRow

\* What the loop remembers of a region once a commit of it is acknowledged.
LEMMA Remembered ==
  ASSUME TypeInv
  PROVE  /\ rg' = [rg EXCEPT ![region].lastModified = poll.modified] =>
              /\ rg'[region].lastModified = poll.modified
              /\ rg'[region].tokenUpdated = rg[region].tokenUpdated
              /\ \A r \in Region \ {region} : rg'[r] = rg[r]
         /\ rg' = [rg EXCEPT ![region].tokenUpdated = poll.token] =>
              /\ rg'[region].lastModified = rg[region].lastModified
              /\ rg'[region].tokenUpdated = poll.token
              /\ \A r \in Region \ {region} : rg'[r] = rg[r]
<1>1. region \in Region
  BY Numbers
<1> QED
  BY <1>1 DEF TypeInv, TypeOK, RegionState

\* Nothing is stored or remembered at the start.
LEMMA InitFresh == Init => Fresh
  BY BoundsAssumption
  DEF Init, Fresh, FeedLeads, MemoryBehind, PollFresh, MemoryCurrent, Loaded, NoRow, Blank, None

\* Every step keeps it.
LEMMA NextFresh == TypeInv /\ TxHoldsPrefix /\ Fresh /\ [Next]_vars => Fresh'
<1> SUFFICES ASSUME TypeInv, TxHoldsPrefix, Fresh, [Next]_vars PROVE Fresh'
  OBVIOUS
<1>0. /\ region \in Region
      /\ \A r \in Region :
           /\ feed[r] \in Nat \ {0} /\ tokenFeed[r] \in Nat \ {0}
           /\ scraperState[r].lastModified \in Nat /\ scraperState[r].tokenUpdated \in Nat
           /\ rg[r].lastModified \in Nat /\ rg[r].tokenUpdated \in Nat
      /\ poll.version \in Nat /\ poll.token \in Nat /\ poll.modified \in Nat
      /\ lostAcks \in Nat
  BY Numbers
<1> USE DEF Fresh, FeedLeads, MemoryBehind, PollFresh, MemoryCurrent, Loaded
<1>1. CASE LoadFails \/ NotModified \/ SnapshotFails \/ DiscardBody \/ TokenFails \/ Wake
  <2>1. /\ UNCHANGED <<feed, tokenFeed, scraperState, rg, lostAcks>>
        /\ pc' \in {"fetch", "token", "sleep", "stopped", "down"}
        /\ Loaded' => Loaded
    BY <1>1 DEF LoadFails, NotModified, SnapshotFails, DiscardBody, AbandonSnapshot, AfterSnapshot,
                StreamedToEnd, TokenFails, Wake, NextClient, upstream, tables
  <2> QED
    BY <2>1
<1>2. CASE LoadState
  <2>1. /\ UNCHANGED <<feed, tokenFeed, scraperState, lostAcks>>
        /\ pc' = "fetch"
        /\ \A r \in Region : /\ rg'[r].lastModified = scraperState[r].lastModified
                             /\ rg'[r].tokenUpdated = scraperState[r].tokenUpdated
    BY <1>2 DEF LoadState, upstream, tables
  <2> QED
    BY <1>0, <2>1
<1>3. CASE Start
  <2>1. /\ UNCHANGED <<feed, tokenFeed, scraperState, lostAcks>>
        /\ pc' = "load"
        /\ \A r \in Region : rg'[r].lastModified = 0
    BY <1>3 DEF Start, Blank, None, upstream, tables
  <2> QED
    BY <1>0, <2>1
<1>4. CASE Respond
  <2>1. /\ UNCHANGED <<feed, tokenFeed, scraperState, rg, lostAcks, cur>>
        /\ pc = "fetch" /\ pc' = "stream"
        /\ region' = region
    BY <1>4 DEF Respond, upstream, tables, region
  <2>2. poll'.version = feed[region]
    <3> DEFINE v == feed[region]
    <3>1. CASE poll' = [NoPoll EXCEPT !.version = v, !.modified = v]
      BY <3>1, ResponseShape
    <3>2. CASE poll' = [NoPoll EXCEPT !.version = v]
      BY <3>2, ResponseShape
    <3> QED
      BY <1>4, <3>1, <3>2 DEF Respond
  <2> QED
    BY <1>0, <2>1, <2>2
<1>5. CASE StreamAuction
  <2>1. /\ UNCHANGED <<feed, tokenFeed, scraperState, rg, lostAcks, pc>>
        /\ pc = "stream"
        /\ region' = region
    BY <1>5 DEF StreamAuction, upstream, tables, region
  <2>2. poll'.version = poll.version
    BY <1>5 DEF StreamAuction, TypeInv, TypeOK, Poll
  <2> QED
    BY <2>1, <2>2
<1>6. CASE FinishBody
  <2>1. /\ UNCHANGED <<feed, tokenFeed, scraperState, rg, lostAcks>>
        /\ pc = "stream" /\ pc' = "upsert"
        /\ region' = region
    BY <1>6 DEF FinishBody, StreamedToEnd, upstream, tables, region
  <2>2. poll'.version = poll.version
    BY <1>6 DEF FinishBody, TypeInv, TypeOK, Poll
  <2>3. poll.modified = poll.version /\ poll.version # 0 /\ rg[region].lastModified # poll.version
    BY <1>6, <2>1 DEF FinishBody, Storable, SameAsSent, TxHoldsPrefix, None
  <2>4. rg[region].lastModified < poll.version
    BY <1>0, <2>1, <2>3
  <2> QED
    BY <2>1, <2>2, <2>4
<1>7. CASE UpsertState
  <2>1. /\ UNCHANGED <<feed, tokenFeed, scraperState, rg, lostAcks, poll>>
        /\ pc = "upsert" /\ pc' = "commit"
        /\ region' = region
    BY <1>7 DEF UpsertState, upstream, tables, region
  <2> QED
    BY <2>1
<1>8. ASSUME pc = "commit", ApplySnapshot, UNCHANGED <<feed, tokenFeed>>,
             \/ /\ rg' = [rg EXCEPT ![region].lastModified = poll.modified]
                /\ pc' = "token" /\ lostAcks' = lostAcks
             \/ rg' = rg /\ pc' = "token" /\ lostAcks' = lostAcks + 1
             \/ rg' = rg /\ pc' = "down" /\ lostAcks' = lostAcks
      PROVE  Fresh'
  <2>1. /\ scraperState'[region].lastModified = poll.version
        /\ scraperState'[region].tokenUpdated = scraperState[region].tokenUpdated
        /\ \A r \in Region \ {region} : scraperState'[r] = scraperState[r]
    BY <1>8, SnapshotColumns
  <2>2. poll.modified = poll.version
    BY <1>8 DEF TxHoldsPrefix
  <2>3. CASE rg' = [rg EXCEPT ![region].lastModified = poll.modified] /\ lostAcks' = lostAcks /\ pc' = "token"
    <3>1. /\ rg'[region].lastModified = poll.version
          /\ rg'[region].tokenUpdated = rg[region].tokenUpdated
          /\ \A r \in Region \ {region} : rg'[r] = rg[r]
      BY <2>2, <2>3, Remembered
    <3> QED
      BY <1>0, <1>8, <2>1, <2>3, <3>1
  <2>4. CASE rg' = rg /\ pc' = "token" /\ lostAcks' = lostAcks + 1
    BY <1>0, <1>8, <2>1, <2>4
  <2>5. CASE rg' = rg /\ pc' = "down"
    BY <1>0, <1>8, <2>1, <2>5
  <2> QED
    BY <1>8, <2>3, <2>4, <2>5, Zenon
<1>9. ASSUME pc = "storeToken", ApplyToken, UNCHANGED <<feed, tokenFeed>>,
             \/ /\ rg' = [rg EXCEPT ![region].tokenUpdated = poll.token]
                /\ lostAcks' = lostAcks
             \/ rg' = rg /\ lostAcks' = lostAcks + 1
             \/ rg' = rg /\ lostAcks' = lostAcks /\ pc' = "down",
             pc' \in {"fetch", "sleep", "stopped", "down"}
      PROVE  Fresh'
  <2>1. /\ scraperState'[region].lastModified = scraperState[region].lastModified
        /\ scraperState'[region].tokenUpdated \in {scraperState[region].tokenUpdated, poll.token}
        /\ \A r \in Region \ {region} : scraperState'[r] = scraperState[r]
    BY <1>9, TokenColumns
  <2>2. CASE rg' = [rg EXCEPT ![region].tokenUpdated = poll.token] /\ lostAcks' = lostAcks
    <3>1. /\ rg'[region].lastModified = rg[region].lastModified
          /\ rg'[region].tokenUpdated = poll.token
          /\ \A r \in Region \ {region} : rg'[r] = rg[r]
      BY <2>2, Remembered
    <3> QED
      BY <1>0, <1>9, <2>1, <2>2, <3>1
  <2>3. CASE rg' = rg /\ (pc' = "down" \/ lostAcks' = lostAcks + 1)
    BY <1>0, <1>9, <2>1, <2>3
  <2> QED
    BY <1>9, <2>2, <2>3
<1>10. CASE CommitSnapshot \/ CommitAckLost
  BY <1>8, <1>10 DEF CommitSnapshot, CommitAckLost, AfterSnapshot, upstream
<1>11. CASE StoreToken \/ TokenAckLost
  BY <1>9, <1>11 DEF StoreToken, TokenAckLost, NextClient, upstream
<1>12. CASE Crash
  <2>1. CASE UNCHANGED tables
    BY <1>12, <2>1 DEF Crash, tables, upstream
  <2>2. CASE pc = "commit" /\ ApplySnapshot
    BY <1>8, <1>12, <2>2 DEF Crash, upstream
  <2>3. CASE pc = "storeToken" /\ ApplyToken
    BY <1>9, <1>12, <2>3 DEF Crash, upstream
  <2> QED
    BY <1>12, <2>1, <2>2, <2>3 DEF Crash
<1>13. CASE PollToken
  <2>1. /\ UNCHANGED <<feed, tokenFeed, scraperState, rg, lostAcks>>
        /\ pc = "token"
    BY <1>13 DEF PollToken, upstream, tables
  <2>2. CASE TokenUnchanged
    BY <1>13, <2>1, <2>2 DEF PollToken, NextClient
  <2>3. CASE ~TokenUnchanged
    <3>1. pc' = "storeToken" /\ cur' = cur /\ poll' = [NoPoll EXCEPT !.token = tokenFeed[region]]
      BY <1>13, <2>3 DEF PollToken
    <3>2. poll'.token = tokenFeed[region]
      BY <3>1 DEF NoPoll
    <3>3. rg[region].tokenUpdated < tokenFeed[region]
      BY <1>0, <2>3 DEF TokenUnchanged, None
    <3>4. region' = region
      BY <3>1 DEF region
    <3> QED
      BY <1>0, <2>1, <3>1, <3>2, <3>3, <3>4
  <2> QED
    BY <2>2, <2>3
<1>14. CASE (\E r \in Region : Publish(r) \/ PublishToken(r))
  <2>1. /\ UNCHANGED <<scraperState, rg, lostAcks, pc, poll>>
        /\ region' = region
    BY <1>14 DEF Publish, PublishToken, tables, region
  <2>2. \A r \in Region : /\ feed'[r] \in Nat /\ feed[r] <= feed'[r]
                          /\ tokenFeed'[r] \in Nat /\ tokenFeed[r] <= tokenFeed'[r]
    <3>1. ASSUME NEW q \in Region, Publish(q)
          PROVE  \A r \in Region : /\ feed'[r] \in Nat /\ feed[r] <= feed'[r]
                                   /\ tokenFeed'[r] = tokenFeed[r]
      BY <1>0, <3>1 DEF Publish, TypeInv, TypeOK
    <3>2. ASSUME NEW q \in Region, PublishToken(q)
          PROVE  \A r \in Region : /\ tokenFeed'[r] \in Nat /\ tokenFeed[r] <= tokenFeed'[r]
                                   /\ feed'[r] = feed[r]
      <4>1. tokenFeed' = [tokenFeed EXCEPT ![q] = @ + 1] /\ feed' = feed
        BY <3>2 DEF PublishToken
      <4>2. DOMAIN tokenFeed = Region
        BY DEF TypeInv, TypeOK
      <4> QED
        BY <1>0, <4>1, <4>2
    <3> QED
      BY <1>0, <1>14, <3>1, <3>2
  <2> QED
    BY <1>0, <2>1, <2>2
<1>15. CASE Cancel \/ UNCHANGED vars
  <2>1. /\ UNCHANGED <<feed, tokenFeed, scraperState, rg, lostAcks, pc, poll>>
        /\ region' = region
    BY <1>15 DEF Cancel, vars, upstream, tables, region
  <2> QED
    BY <2>1
<1> QED
  BY <1>1, <1>2, <1>3, <1>4, <1>5, <1>6, <1>7, <1>10, <1>11, <1>12, <1>13, <1>14, <1>15
     DEF Next, Loop, Environment

\* The order of memory, tables and feed holds throughout.
LEMMA FreshInvariance == Spec => [](IInv /\ Fresh)
<1>1. TypeInv /\ IInv /\ Fresh /\ [Next]_vars => Fresh'
  BY NextFresh DEF IInv
<1> QED
  BY <1>1, Invariance, InitTyped, NextTyped, InitFresh, PTL DEF Spec

\* So do the types.
LEMMA TypeInvariance == Spec => []TypeInv
  BY InitTyped, NextTyped, PTL DEF Spec

-----------------------------------------------------------------------------
(* Memory is backed *)

\* The price of update u of region r is in the table.
TokenStored(r, u) == \E row \in wowTokens : row.region = r /\ row.updated = u

\* A token update that the row of a region or the memory names has its price.
TokensBacked ==
  \A r \in Region :
    /\ scraperState[r].tokenUpdated # None => TokenStored(r, scraperState[r].tokenUpdated)
    /\ rg[r].tokenUpdated # None => TokenStored(r, rg[r].tokenUpdated)

\* At the start nothing is named.
LEMMA InitBacked == Init => TokensBacked
  BY DEF Init, TokensBacked, NoRow, Blank, None

\* A token update is named in the step that stores its price, or copied.
LEMMA NextBacked == TypeInv /\ TxHoldsPrefix /\ TokensBacked /\ [Next]_vars => TokensBacked'
<1> SUFFICES ASSUME TypeInv, TxHoldsPrefix, TokensBacked, [Next]_vars PROVE TokensBacked'
  OBVIOUS
<1>0. region \in Region
  BY Numbers
<1>1. CASE UNCHANGED <<wowTokens, scraperState, rg>>
  BY <1>1 DEF TokensBacked, TokenStored
<1>2. CASE LoadState \/ Start
  BY <1>2 DEF LoadState, Start, Blank, None, tables, TokensBacked, TokenStored
<1>3. ASSUME pc = "commit", ApplySnapshot,
             rg' = rg \/ rg' = [rg EXCEPT ![region].lastModified = poll.modified]
      PROVE  TokensBacked'
  <2>1. /\ wowTokens' = wowTokens
        /\ \A r \in Region : /\ scraperState'[r].tokenUpdated = scraperState[r].tokenUpdated
                             /\ rg'[r].tokenUpdated = rg[r].tokenUpdated
    BY <1>0, <1>3, SnapshotColumns, Remembered
  <2> QED
    BY <2>1 DEF TokensBacked, TokenStored
<1>4. ASSUME pc = "storeToken", ApplyToken,
             rg' = rg \/ rg' = [rg EXCEPT ![region].tokenUpdated = poll.token]
      PROVE  TokensBacked'
  <2>1. \A r \in Region :
          /\ scraperState'[r].tokenUpdated \in {scraperState[r].tokenUpdated, poll.token}
          /\ rg'[r].tokenUpdated \in {rg[r].tokenUpdated, poll.token}
          /\ r # region => /\ scraperState'[r].tokenUpdated = scraperState[r].tokenUpdated
                           /\ rg'[r].tokenUpdated = rg[r].tokenUpdated
    BY <1>0, <1>4, TokenColumns, Remembered
  <2>2. /\ wowTokens \subseteq wowTokens'
        /\ \E row \in wowTokens' : row.region = region /\ row.updated = poll.token
    <3> DEFINE price == [region |-> region, updated |-> poll.token, snapshotTime |-> clock]
    <3>1. wowTokens' = wowTokens \cup {price}
      BY <1>4 DEF ApplyToken
    <3>2. price.region = region /\ price.updated = poll.token
      OBVIOUS
    <3> HIDE DEF price
    <3> QED
      BY <3>1, <3>2
  <2> QED
    BY <1>0, <2>1, <2>2 DEF TokensBacked, TokenStored
<1> QED
  BY <1>1, <1>2, <1>3, <1>4
  DEF Next, Loop, Environment, LoadFails, NotModified, Respond, SnapshotFails, StreamAuction, DiscardBody,
      FinishBody, AbandonSnapshot, UpsertState, CommitSnapshot, CommitAckLost, PollToken, StoreToken,
      TokenAckLost, TokenFails, Wake, Publish, PublishToken, Cancel, Crash, tables, vars

\* Memory is never ahead of the database, whatever is lost, cancelled or
\* crashed: no conditional GET can withhold what is not stored (MemoryBacked of
\* BlizzardPoll; pollPass assigns LastModified after the commit only).
THEOREM MemoryIsBacked == Spec => []MemoryBacked
<1>1. TypeInv /\ IInv /\ TokensBacked /\ [Next]_vars => TokensBacked'
  BY NextBacked DEF IInv
<1>2. Fresh /\ TokensBacked => MemoryBacked
  BY DEF Fresh, MemoryBehind, TokensBacked, TokenStored, MemoryBacked
<1> QED
  BY <1>1, <1>2, TypeInvariance, FreshInvariance, InitBacked, PTL DEF Spec

-----------------------------------------------------------------------------
(* Tokens *)

\* What every step that stores a token price has to satisfy.
OnlyNewTokens ==
  \A row \in wowTokens' \ wowTokens :
    LET committed == scraperState[row.region].tokenUpdated IN
    row.updated > committed \/ (lostAcks > 0 /\ row.updated = committed)

\* No token update at or before the committed timestamp gets another row, but
\* for the update of that very timestamp after a lost acknowledgement
\* (TokenNotRepeated of BlizzardPoll; pollToken, storeToken).
THEOREM TokensNotRepeated == Spec => TokenNotRepeated
<1>1. TypeInv /\ Fresh /\ [Next]_vars => [OnlyNewTokens]_wowTokens
  <2> SUFFICES ASSUME TypeInv, Fresh, Next, wowTokens' # wowTokens PROVE OnlyNewTokens
    BY DEF vars, tables
  <2>1. pc = "storeToken" /\ ApplyToken
    BY DEF Next, Loop, Environment, LoadState, LoadFails, NotModified, Respond, SnapshotFails,
           StreamAuction, DiscardBody, FinishBody, AbandonSnapshot, UpsertState, CommitSnapshot,
           CommitAckLost, ApplySnapshot, PollToken, StoreToken, TokenAckLost, TokenFails, Wake,
           Publish, PublishToken, Cancel, Crash, Start, tables
  <2>2. \A row \in wowTokens' \ wowTokens : row.region = region /\ row.updated = poll.token
    BY <2>1 DEF ApplyToken
  <2>3. /\ scraperState[region].tokenUpdated \in Nat /\ rg[region].tokenUpdated \in Nat
        /\ poll.token \in Nat /\ lostAcks \in Nat /\ region \in Region
    BY Numbers
  <2>4. /\ scraperState[region].tokenUpdated <= poll.token
        /\ rg[region].tokenUpdated < poll.token
        /\ lostAcks = 0 => scraperState[region].tokenUpdated <= rg[region].tokenUpdated
    BY <2>1, <2>3 DEF Fresh, PollFresh, MemoryCurrent, Loaded
  <2> QED
    BY <2>2, <2>3, <2>4 DEF OnlyNewTokens
<1> QED
  BY <1>1, TypeInvariance, FreshInvariance, PTL DEF Spec, TokenNotRepeated, OnlyNewTokens

-----------------------------------------------------------------------------
(* Copies *)

\* The instants under which version v of region r is stored.
StoredTimes(r, v) ==
  {row.snapshotTime : row \in {row \in auctionSnapshots :
                                 row.region = r /\ row.auction[1] = v}}

\* At most one copy, and one more for every lost acknowledgement; while the
\* loop does not know that it has stored a version, the latter have to account
\* for all of them.
CopiesCounted ==
  \A r \in Region, v \in 1..MaxVersion :
    /\ IsFiniteSet(StoredTimes(r, v))
    /\ v > scraperState[r].lastModified => StoredTimes(r, v) = {}
    /\ Loaded /\ v > rg[r].lastModified => Cardinality(StoredTimes(r, v)) <= lostAcks
    /\ Cardinality(StoredTimes(r, v)) <= 1 + lostAcks

\* A commit stores one version of one region under one more instant.
LEMMA OneMoreTime ==
  ASSUME TypeInv, TxHoldsPrefix, pc = "commit", ApplySnapshot,
         NEW r \in Region, NEW v \in 1..MaxVersion
  PROVE  /\ StoredTimes(r, v)' \subseteq StoredTimes(r, v) \cup {clock}
         /\ r # region \/ v # poll.version => StoredTimes(r, v)' = StoredTimes(r, v)
<1> DEFINE new == Rows(region, poll.version, 1, Auctions[poll.version], clock)
<1>1. auctionSnapshots' = auctionSnapshots \cup new
  BY DEF ApplySnapshot, TxHoldsPrefix
<1>2. \A row \in new : row.region = region /\ row.snapshotTime = clock /\ row.auction[1] = poll.version
  BY DEF Rows, Row
<1> QED
  BY <1>1, <1>2 DEF StoredTimes

\* At the start nothing is stored.
LEMMA InitCounted == Init => CopiesCounted
<1> SUFFICES ASSUME Init PROVE CopiesCounted
  OBVIOUS
<1>1. \A r, v : StoredTimes(r, v) = {}
  BY DEF Init, StoredTimes
<1> QED
  BY <1>1, FS_EmptySet DEF Init, CopiesCounted, Loaded

\* A commit adds a copy the loop learns of, or counts a lost acknowledgement, or
\* ends the process, and a new one knows what is committed.
LEMMA NextCounted == TypeInv /\ TxHoldsPrefix /\ Fresh /\ CopiesCounted /\ [Next]_vars => CopiesCounted'
<1> SUFFICES ASSUME TypeInv, TxHoldsPrefix, Fresh, CopiesCounted, [Next]_vars PROVE CopiesCounted'
  OBVIOUS
<1>0. /\ region \in Region
      /\ \A r \in Region : scraperState[r].lastModified \in Nat /\ rg[r].lastModified \in Nat
      /\ poll.version \in Nat
      /\ lostAcks \in Nat
  BY Numbers
<1>1. \A r \in Region, v \in 1..MaxVersion :
        IsFiniteSet(StoredTimes(r, v)) /\ Cardinality(StoredTimes(r, v)) \in Nat
  BY FS_CardinalityType DEF CopiesCounted
<1>2. ASSUME auctionSnapshots' = auctionSnapshots,
             lostAcks' \in {lostAcks, lostAcks + 1},
             \A r \in Region : scraperState'[r].lastModified = scraperState[r].lastModified,
             \/ ~Loaded'
             \/ \A r \in Region : rg'[r].lastModified = scraperState[r].lastModified
             \/ (Loaded' => Loaded) /\ \A r \in Region : rg'[r].lastModified = rg[r].lastModified
      PROVE  CopiesCounted'
  <2> SUFFICES ASSUME NEW r \in Region, NEW v \in 1..MaxVersion
               PROVE  /\ IsFiniteSet(StoredTimes(r, v))
                      /\ v > scraperState'[r].lastModified => StoredTimes(r, v) = {}
                      /\ Loaded' /\ v > rg'[r].lastModified => Cardinality(StoredTimes(r, v)) <= lostAcks'
                      /\ Cardinality(StoredTimes(r, v)) <= 1 + lostAcks'
    BY <1>2 DEF CopiesCounted, StoredTimes
  <2>1. StoredTimes(r, v) = {} => Cardinality(StoredTimes(r, v)) = 0
    BY FS_EmptySet
  <2> QED
    BY <1>0, <1>1, <1>2, <2>1 DEF CopiesCounted
<1>3. ASSUME pc = "commit", ApplySnapshot,
             \/ /\ rg' = [rg EXCEPT ![region].lastModified = poll.modified]
                /\ lostAcks' = lostAcks
             \/ rg' = rg /\ lostAcks' = lostAcks + 1
             \/ rg' = rg /\ ~Loaded' /\ lostAcks' = lostAcks
      PROVE  CopiesCounted'
  <2> SUFFICES ASSUME NEW r \in Region, NEW v \in 1..MaxVersion
               PROVE  /\ IsFiniteSet(StoredTimes(r, v)')
                      /\ v > scraperState'[r].lastModified => StoredTimes(r, v)' = {}
                      /\ Loaded' /\ v > rg'[r].lastModified => Cardinality(StoredTimes(r, v)') <= lostAcks'
                      /\ Cardinality(StoredTimes(r, v)') <= 1 + lostAcks'
    BY DEF CopiesCounted
  <2> DEFINE times == StoredTimes(r, v)
             n == Cardinality(times)
  <2>1. /\ IsFiniteSet(times) /\ n \in Nat
        /\ v > scraperState[r].lastModified => times = {}
        /\ v > rg[r].lastModified => n <= lostAcks
        /\ n <= 1 + lostAcks
    BY <1>1, <1>3 DEF CopiesCounted, Loaded
  <2>2. /\ times' \subseteq times \cup {clock}
        /\ r # region \/ v # poll.version => times' = times
    BY <1>3, OneMoreTime
  <2>3. IsFiniteSet(times') /\ Cardinality(times') \in Nat /\ Cardinality(times') <= n + 1
    <3>1. IsFiniteSet(times \cup {clock}) /\ Cardinality(times \cup {clock}) \in {n, n + 1}
      BY <2>1, FS_AddElement
    <3>2. IsFiniteSet(times') /\ Cardinality(times') <= Cardinality(times \cup {clock})
      BY <2>2, <3>1, FS_Subset
    <3>3. Cardinality(times') \in Nat
      BY <3>2, FS_CardinalityType
    <3> QED
      BY <2>1, <3>1, <3>2, <3>3
  <2>4. /\ scraperState'[region].lastModified = poll.version
        /\ \A q \in Region \ {region} : scraperState'[q] = scraperState[q]
        /\ scraperState[region].lastModified <= poll.version
        /\ rg[region].lastModified < poll.version
    BY <1>3, SnapshotColumns DEF Fresh, PollFresh
  <2>5. rg'[region].lastModified \in {rg[region].lastModified, poll.version}
        /\ \A q \in Region \ {region} : rg'[q] = rg[q]
    BY <1>3, Remembered DEF TxHoldsPrefix
  <2>6. \/ lostAcks' = lostAcks + 1
        \/ rg'[region].lastModified = poll.version
        \/ ~Loaded'
    BY <1>3, Remembered DEF TxHoldsPrefix
  <2>7. CASE r = region /\ v = poll.version
    <3>1. n <= lostAcks
      BY <2>1, <2>4, <2>7
    <3>2. ~(v > scraperState'[r].lastModified)
      BY <1>0, <2>4, <2>7
    <3>3. Cardinality(times') <= 1 + lostAcks'
      BY <1>0, <1>3, <2>1, <2>3, <3>1
    <3>4. Loaded' /\ v > rg'[r].lastModified => Cardinality(times') <= lostAcks'
      BY <1>0, <1>3, <2>1, <2>3, <2>6, <2>7, <3>1
    <3> QED
      BY <2>3, <3>2, <3>3, <3>4
  <2>8. CASE r # region \/ v # poll.version
    <3>1. times' = times
      BY <2>2, <2>8
    <3>2. /\ rg[r].lastModified <= rg'[r].lastModified
          /\ scraperState[r].lastModified <= scraperState'[r].lastModified
      BY <1>0, <2>4, <2>5
    <3> QED
      BY <1>0, <1>3, <2>1, <2>4, <2>5, <3>1, <3>2
  <2> QED
    BY <2>7, <2>8
<1>4. CASE CommitSnapshot \/ CommitAckLost
  BY <1>3, <1>4 DEF CommitSnapshot, CommitAckLost
<1>5. CASE StoreToken \/ TokenAckLost
  <2>1. /\ auctionSnapshots' = auctionSnapshots
        /\ \A r \in Region : scraperState'[r].lastModified = scraperState[r].lastModified
    BY <1>0, <1>5, TokenColumns DEF StoreToken, TokenAckLost, ApplyToken
  <2>2. /\ \A r \in Region : rg'[r].lastModified = rg[r].lastModified
        /\ Loaded' => Loaded
    BY <1>0, <1>5, Remembered DEF StoreToken, TokenAckLost, Loaded
  <2>3. lostAcks' = lostAcks \/ lostAcks' = lostAcks + 1
    BY <1>5 DEF StoreToken, TokenAckLost
  <2> QED
    BY <1>2, <2>1, <2>2, <2>3
<1>6. CASE Crash
  <2>1. /\ lostAcks' = lostAcks /\ rg' = rg /\ ~Loaded'
        /\ \/ UNCHANGED tables
           \/ pc = "commit" /\ ApplySnapshot
           \/ pc = "storeToken" /\ ApplyToken
    BY <1>6 DEF Crash, Loaded
  <2>2. CASE UNCHANGED tables
    BY <1>2, <2>1, <2>2 DEF tables
  <2>3. CASE pc = "commit" /\ ApplySnapshot
    BY <1>3, <2>1, <2>3
  <2>4. CASE pc = "storeToken" /\ ApplyToken
    <3>1. /\ auctionSnapshots' = auctionSnapshots
          /\ \A r \in Region : scraperState'[r].lastModified = scraperState[r].lastModified
      BY <1>0, <2>4, TokenColumns DEF ApplyToken
    <3> QED
      BY <1>2, <2>1, <3>1
  <2> QED
    BY <2>1, <2>2, <2>3, <2>4
<1>7. CASE LoadState
  <2>1. /\ UNCHANGED <<auctionSnapshots, lostAcks, scraperState>>
        /\ \A r \in Region : rg'[r].lastModified = scraperState[r].lastModified
    BY <1>7 DEF LoadState, tables
  <2> QED
    BY <1>2, <2>1
<1>8. CASE Start
  <2>1. UNCHANGED <<auctionSnapshots, lostAcks, scraperState>> /\ ~Loaded'
    BY <1>8 DEF Start, tables, Loaded
  <2> QED
    BY <1>2, <2>1
<1>9. ASSUME UNCHANGED <<auctionSnapshots, lostAcks, scraperState, rg>>, Loaded' => Loaded
      PROVE  CopiesCounted'
  BY <1>2, <1>9
<1>10. CASE LoadFails \/ NotModified \/ SnapshotFails \/ DiscardBody \/ Respond \/ StreamAuction
            \/ FinishBody \/ UpsertState
  <2>1. UNCHANGED <<auctionSnapshots, lostAcks, scraperState, rg>> /\ (Loaded' => Loaded)
    BY <1>10 DEF LoadFails, NotModified, SnapshotFails, DiscardBody, StreamedToEnd, Respond,
                 StreamAuction, FinishBody, UpsertState, AbandonSnapshot, AfterSnapshot, tables, Loaded
  <2> QED
    BY <1>9, <2>1
<1>11. CASE PollToken \/ TokenFails \/ Wake \/ (\E r \in Region : Publish(r) \/ PublishToken(r))
            \/ Cancel \/ UNCHANGED vars
  <2>1. UNCHANGED <<auctionSnapshots, lostAcks, scraperState, rg>> /\ (Loaded' => Loaded)
    BY <1>11 DEF PollToken, TokenFails, Wake, Publish, PublishToken, Cancel, tables, vars, Loaded
  <2> QED
    BY <1>9, <2>1
<1> QED
  BY <1>4, <1>5, <1>6, <1>7, <1>8, <1>10, <1>11 DEF Next, Loop, Environment

\* A version is stored once per region and once more for every acknowledgement
\* that was lost, over any number of restarts (StoredOnce of BlizzardPoll).
THEOREM VersionsStoredOnce == Spec => []StoredOnce
<1>1. TypeInv /\ IInv /\ Fresh /\ CopiesCounted /\ [Next]_vars => CopiesCounted'
  BY NextCounted DEF IInv
<1>2. CopiesCounted => StoredOnce
  BY DEF CopiesCounted, StoredTimes, StoredOnce
<1> QED
  BY <1>1, <1>2, TypeInvariance, FreshInvariance, InitCounted, PTL DEF Spec

-----------------------------------------------------------------------------
(* The refinement of SnapshotArchive *)

\* A row of the table as an entry of the archive: the substitution in Archive.
Entry(row) == [region |-> row.region, entry |-> row.auction, at |-> row.snapshotTime]

\* The archive.
archived == {Entry(row) : row \in auctionSnapshots}

\* Its pointers.
pointers == [r \in Region |-> scraperState[r].lastModified]

\* What a version lists.
Content == [v \in 1..MaxVersion |-> {<<v, n>> : n \in 1..Auctions[v]}]

\* The rows of a listing are the entries the archive calls its content.
LEMMA ListingIsContent ==
  ASSUME NEW r, NEW v \in 1..MaxVersion, NEW t
  PROVE  {Entry(row) : row \in Rows(r, v, 1, Auctions[v], t)} =
           {[region |-> r, entry |-> e, at |-> t] : e \in Content[v]}
<1> DEFINE E(n) == [region |-> r, entry |-> <<v, n>>, at |-> t]
<1>1. \A n : Entry(Row(r, v, n, t)) = E(n)
  BY DEF Entry, Row
<1>2. {Entry(row) : row \in Rows(r, v, 1, Auctions[v], t)} = {E(n) : n \in 1..Auctions[v]}
  BY <1>1 DEF Rows
<1>3. {[region |-> r, entry |-> e, at |-> t] : e \in Content[v]} = {E(n) : n \in 1..Auctions[v]}
  BY DEF Content
<1> QED
  BY <1>2, <1>3

\* Seen from the tables, a commit takes over one whole version, newer than the
\* last one or, after a lost acknowledgement, the same.
LEMMA IngestStep ==
  ASSUME TypeInv, IInv, Fresh, pc = "commit", ApplySnapshot, UNCHANGED feed
  PROVE  \E r \in Region : Archive!Ingest(r)
<1> DEFINE v == poll.version
<1>1. region \in Region /\ v \in 1..MaxVersion /\ clock \in 1..MaxClock
  BY Numbers DEF TypeInv, TypeOK, PollNamed
<1>2. v > scraperState[region].lastModified
         \/ (MaxLostAcks > 0 /\ v = scraperState[region].lastModified)
  <2>1. /\ scraperState[region].lastModified <= v /\ rg[region].lastModified < v
        /\ lostAcks = 0 => scraperState[region].lastModified <= rg[region].lastModified
    BY Numbers DEF Fresh, PollFresh, MemoryCurrent, Loaded
  <2>2. lostAcks > 0 => MaxLostAcks > 0
    BY BoundsAssumption DEF TypeInv, TypeOK
  <2> QED
    BY <2>1, <2>2, Numbers
<1>3. \A row \in auctionSnapshots : row.snapshotTime # clock
  BY BoundsAssumption DEF IInv, Stored, FiledInPast, TypeInv, TypeOK, SnapshotRow
<1>4. {a \in archived : a.region = region /\ a.at = clock} = {}
  BY <1>3 DEF archived, Entry
<1>5. archived' = archived \cup {[region |-> region, entry |-> e, at |-> clock] : e \in Content[v]}
  <2>1. auctionSnapshots' = auctionSnapshots \cup Rows(region, v, 1, Auctions[v], clock)
    BY DEF ApplySnapshot, IInv, TxHoldsPrefix
  <2>2. archived' = archived \cup {Entry(row) : row \in Rows(region, v, 1, Auctions[v], clock)}
    BY <2>1 DEF archived, Entry
  <2> QED
    BY <1>1, <2>2, ListingIsContent
<1>6. pointers' = [pointers EXCEPT ![region] = v]
  BY <1>1, SnapshotColumns DEF IInv, pointers
<1>7. ASSUME NEW r \in Region, r = region PROVE Archive!Ingest(r)
  <2>1. [w \in 1..MaxVersion |-> w][v] = v /\ pointers[r] = scraperState[region].lastModified
    BY <1>1, <1>7 DEF pointers
  <2>2. Archive!FiledUnder(r, clock) = {}
    BY <1>4, <1>7 DEF Archive!FiledUnder, archived, Entry
  <2>3. archived' = archived \cup Archive!Entries(r, v, clock)
    BY <1>5, <1>7 DEF Archive!Entries, Content
  <2> QED
    BY <1>1, <1>2, <1>6, <1>7, <2>1, <2>2, <2>3 DEF Archive!Ingest, archived, Entry, pointers
<1>8. \E r \in Region : r = region
  BY <1>1
<1> QED
  BY <1>7, <1>8

\* The loop implements the archive: each of its steps is a publication, an
\* ingestion or invisible in the tables (ArchiveSpec of BlizzardPoll).
THEOREM ImplementsArchive == Spec => ArchiveSpec
<1>1. Init => Archive!Init
  <2> SUFFICES ASSUME Init PROVE Archive!Init
    OBVIOUS
  <2>1. feed \in [Region -> 1..MaxVersion]
    BY BoundsAssumption DEF Init
  <2>2. archived = {} /\ pointers = [r \in Region |-> 0]
    BY DEF Init, archived, pointers, NoRow, None
  <2> QED
    BY <2>1, <2>2 DEF Archive!Init, archived, Entry, pointers
<1>2. TypeInv /\ IInv /\ Fresh /\ [Next]_vars => [Archive!Next]_(Archive!vars)
  <2> SUFFICES ASSUME TypeInv, IInv, Fresh, [Next]_vars
               PROVE  Archive!Next \/ UNCHANGED <<feed, archived, pointers>>
    BY DEF Archive!vars, archived, Entry, pointers
  <2>0. region \in Region
    BY Numbers
  <2>1. ASSUME UNCHANGED <<feed, auctionSnapshots, scraperState>>
        PROVE  UNCHANGED <<feed, archived, pointers>>
    BY <2>1 DEF archived, pointers
  <2>2. CASE pc = "commit" /\ ApplySnapshot /\ UNCHANGED feed
    BY <2>2, IngestStep DEF Archive!Next
  <2>3. CASE ApplyToken /\ UNCHANGED feed
    <3>1. auctionSnapshots' = auctionSnapshots
      BY <2>3 DEF ApplyToken
    <3>2. \A r \in Region : scraperState'[r].lastModified = scraperState[r].lastModified
      BY <2>0, <2>3, TokenColumns
    <3> QED
      BY <2>3, <3>1, <3>2 DEF archived, pointers
  <2>4. ASSUME NEW r \in Region, Publish(r) PROVE Archive!Next
    <3>1. feed[r] + 1 \in 1..MaxVersion /\ feed' = [feed EXCEPT ![r] = feed[r] + 1]
      BY <2>4, BoundsAssumption DEF Publish, TypeInv, TypeOK
    <3>2. UNCHANGED <<archived, pointers>>
      BY <2>4 DEF Publish, tables, archived, pointers
    <3>3. Archive!Publish(r)
      BY <3>1, <3>2 DEF Archive!Publish, archived, Entry, pointers
    <3> QED
      BY <3>3 DEF Archive!Next
  <2> QED
    BY <2>1, <2>2, <2>3, <2>4
    DEF Next, Loop, Environment, LoadState, LoadFails, NotModified, Respond, SnapshotFails, StreamAuction,
        DiscardBody, FinishBody, AbandonSnapshot, UpsertState, CommitSnapshot, CommitAckLost, PollToken,
        StoreToken, TokenAckLost, TokenFails, Wake, PublishToken, Cancel, Crash, Start,
        upstream, tables, vars
<1> QED
  BY <1>1, <1>2, TypeInvariance, FreshInvariance, PTL DEF Spec, ArchiveSpec, Archive!Spec

=============================================================================
