----------------------------- MODULE BlizzardPoll -----------------------------
(***************************************************************************)
(* The Blizzard polling loop of internal/scraper/scraper.go.               *)
(*                                                                         *)
(* One goroutine polls the regional clients in order.  For each region it  *)
(* streams the commodity listing into batches copied inside one lazily     *)
(* opened transaction, commits them together with the region's row of      *)
(* scraper_state, and then polls the WoW Token price of the same region.   *)
(* What it knows of a region lives in memory (regionState) and is read     *)
(* from scraper_state only when the process starts.                        *)
(*                                                                         *)
(* Around the loop: feeds that publish at any time, requests and           *)
(* statements that fail, a commit whose acknowledgement is lost, a         *)
(* cancelled context, a process that dies anywhere and is started again.   *)
(*                                                                         *)
(* Abstractions.  A Last-Modified value and a token timestamp are numbers  *)
(* in publication order, 0 standing for "", the zero time and SQL NULL.    *)
(* An auction is a pair <<v, n>>: the n-th auction that version v lists.   *)
(* The request itself (OAuth, rate limit, retries) is its outcome here.    *)
(* The polling window and the stale warning, which depend on the clock     *)
(* and touch nothing stored, are left out.                                 *)
(***************************************************************************)
EXTENDS Integers, Sequences, FiniteSets

CONSTANTS
  Region,       \* the configured regions
  Clients,      \* s.clients: the regions in the order they are polled
  Unreliable,   \* regions whose commodity endpoint may fail for ever
  MaxVersion,   \* bound: commodity versions a region publishes
  MaxToken,     \* bound: token price updates a region publishes
  Auctions,     \* Auctions[v]: how many auctions version v lists
  BatchSize,    \* snapshotCopyBatchSize
  MaxFaults,    \* bound: failures, crashes and cancellations
  MaxLostAcks,  \* bound: commits applied but reported as failed
  MaxClock      \* bound: instants at which a transaction commits

ASSUME ClientsAssumption ==
  /\ Clients \in Seq(Region)
  /\ Len(Clients) >= 1
  /\ Unreliable \subseteq Region

ASSUME BoundsAssumption ==
  /\ MaxVersion \in Nat \ {0}
  /\ MaxToken \in Nat \ {0}
  /\ Auctions \in [1..MaxVersion -> Nat]
  /\ BatchSize \in Nat \ {0}
  /\ MaxFaults \in Nat
  /\ MaxLostAcks \in Nat
  /\ MaxClock \in Nat \ {0}

None == 0

VARIABLES
  feed,              \* feed[r]: commodity version Blizzard serves
  tokenFeed,         \* tokenFeed[r]: token update Blizzard serves
  auctionSnapshots,  \* table auction_snapshots
  wowTokens,         \* table wow_tokens
  scraperState,      \* table scraper_state, a row (or NoRow) per region
  rg,                \* the loop's regionState of each region
  pc,                \* where the loop is
  cur,               \* index in Clients of the region being polled
  poll,              \* the response being consumed for that region
  tx,                \* the open transaction of storeStreamedSnapshot
  clock,             \* wall clock, one instant per committed transaction
  cancelled,         \* the context is done
  faults, lostAcks   \* how much of the two failure bounds is used

upstream == <<feed, tokenFeed>>
tables == <<auctionSnapshots, wowTokens, scraperState, clock>>
vars == <<upstream, tables, rg, pc, cur, poll, tx, cancelled, faults, lostAcks>>

-----------------------------------------------------------------------------
(* Tables, responses and transactions *)

Row(r, v, n, t) == [region |-> r, auction |-> <<v, n>>, snapshotTime |-> t]

Rows(r, v, n1, n2, t) == {Row(r, v, n, t) : n \in n1..n2}

SnapshotAt(r, t) ==
  {row \in auctionSnapshots : row.region = r /\ row.snapshotTime = t}

\* A missing row reads like one whose nullable columns are NULL.
NoRow == [present |-> FALSE, lastModified |-> None,
          lastSnapshotTime |-> None, tokenUpdated |-> None]

Blank == [lastModified |-> None, tokenUpdated |-> None]

NoPoll == [version |-> None, modified |-> None, consumed |-> 0, copied |-> 0,
           token |-> None]

NoTx == [open |-> FALSE, rows |-> {}]

region == Clients[cur]

-----------------------------------------------------------------------------
(* Failures *)

CommodityStep == pc \in {"fetch", "stream"}

\* Every call takes the context and fails once it is done; before that a
\* failure uses up the bound, unless the endpoint is one that never works.
MayFail ==
  \/ cancelled
  \/ faults < MaxFaults
  \/ CommodityStep /\ region \in Unreliable

CountFault ==
  faults' = IF cancelled \/ (CommodityStep /\ region \in Unreliable)
            THEN faults ELSE faults + 1

Running == pc \notin {"down", "stopped"}

-----------------------------------------------------------------------------
(* Blizzard *)

Publish(r) ==
  /\ feed[r] < MaxVersion
  /\ feed' = [feed EXCEPT ![r] = @ + 1]
  /\ UNCHANGED <<tokenFeed, tables, rg, pc, cur, poll, tx, cancelled, faults, lostAcks>>

PublishToken(r) ==
  /\ tokenFeed[r] < MaxToken
  /\ tokenFeed' = [tokenFeed EXCEPT ![r] = @ + 1]
  /\ UNCHANGED <<feed, tables, rg, pc, cur, poll, tx, cancelled, faults, lostAcks>>

-----------------------------------------------------------------------------
(* Start-up *)

\* loadRegionState for every client, once, before the first pass.
LoadState ==
  /\ pc = "load"
  /\ ~cancelled
  /\ rg' = [r \in Region |-> [lastModified |-> scraperState[r].lastModified,
                              tokenUpdated |-> scraperState[r].tokenUpdated]]
  /\ pc' = "fetch"
  /\ cur' = 1
  /\ UNCHANGED <<upstream, tables, poll, tx, cancelled, faults, lostAcks>>

\* Run returns the error and the process exits.
LoadFails ==
  /\ pc = "load"
  /\ MayFail
  /\ CountFault
  /\ pc' = IF cancelled THEN "stopped" ELSE "down"
  /\ UNCHANGED <<upstream, tables, rg, cur, poll, tx, cancelled, lostAcks>>

-----------------------------------------------------------------------------
(* storeStreamedSnapshot *)

\* Mutant: a poll of the commodities ends the pass.
AfterSnapshot_EndsPass == "sleep"

\* The token price of the same region comes next, whatever became of the poll.
AfterSnapshot == "token"

\* Mutant: memory takes over the version although its transaction is gone.
AbandonSnapshot_KeepsModified ==
  /\ tx' = NoTx
  /\ poll' = NoPoll
  /\ pc' = AfterSnapshot
  /\ rg' = IF poll.modified = None THEN rg
           ELSE [rg EXCEPT ![region].lastModified = poll.modified]
  /\ UNCHANGED <<upstream, tables, cur, cancelled, lostAcks>>

\* What every return before a successful commit does: the deferred rollback,
\* nothing in memory, and on to the token price of the same region.
AbandonSnapshot ==
  /\ tx' = NoTx
  /\ poll' = NoPoll
  /\ pc' = AfterSnapshot
  /\ UNCHANGED <<upstream, tables, rg, cur, cancelled, lostAcks>>

\* 304: the server's version is not newer than If-Modified-Since.
NotModified ==
  /\ pc = "fetch"
  /\ ~cancelled
  /\ rg[region].lastModified # None
  /\ feed[region] <= rg[region].lastModified
  /\ AbandonSnapshot
  /\ UNCHANGED faults

\* 200: the body of the version served now starts to arrive.  The server may
\* ignore If-Modified-Since; leaving out Last-Modified is a failure of its own.
Respond ==
  /\ pc = "fetch"
  /\ ~cancelled
  /\ \/ poll' = [NoPoll EXCEPT !.version = feed[region], !.modified = feed[region]]
        /\ UNCHANGED faults
     \/ poll' = [NoPoll EXCEPT !.version = feed[region]]
        /\ faults < MaxFaults
        /\ faults' = faults + 1
  /\ pc' = "stream"
  /\ UNCHANGED <<upstream, tables, rg, cur, tx, cancelled, lostAcks>>

\* No response, a body that does not decode, no connection, a failing COPY.
SnapshotFails ==
  /\ pc \in {"fetch", "stream", "upsert", "commit"}
  /\ MayFail
  /\ CountFault
  /\ AbandonSnapshot

\* Mutant: batches are copied when they are full, and only then.
Flushed_FullOnly(upTo) ==
  [open |-> TRUE,
   rows |-> IF upTo - poll.copied < BatchSize THEN tx.rows
            ELSE tx.rows \cup Rows(region, poll.version, poll.copied + 1, upTo, clock)]

\* tx after ensureTx and a COPY of the auctions consumed but not yet copied.
Flushed(upTo) ==
  [open |-> TRUE,
   rows |-> tx.rows \cup Rows(region, poll.version, poll.copied + 1, upTo, clock)]

StreamAuction ==
  /\ pc = "stream"
  /\ poll.consumed < Auctions[poll.version]
  /\ LET n == poll.consumed + 1 IN
       IF n - poll.copied = BatchSize
       THEN /\ ~cancelled
            /\ tx' = Flushed(n)
            /\ poll' = [poll EXCEPT !.consumed = n, !.copied = n]
       ELSE /\ poll' = [poll EXCEPT !.consumed = n]
            /\ UNCHANGED tx
  /\ UNCHANGED <<upstream, tables, rg, pc, cur, cancelled, faults, lostAcks>>

StreamedToEnd ==
  /\ pc = "stream"
  /\ poll.consumed = Auctions[poll.version]

\* Mutant: a 200 is always news.
SameAsSent_Never == FALSE

SameAsSent ==
  /\ rg[region].lastModified # None
  /\ poll.modified = rg[region].lastModified

\* Mutant: no Last-Modified is as good as a new one.
Storable_AnyModified == ~SameAsSent

\* A 200 is stored unless it carries the Last-Modified we sent, or none.
Storable == ~SameAsSent /\ poll.modified # None

DiscardBody ==
  /\ StreamedToEnd
  /\ ~Storable
  /\ AbandonSnapshot
  /\ UNCHANGED faults

\* The last partial batch; a listing without auctions still opens tx.
FinishBody ==
  /\ StreamedToEnd
  /\ Storable
  /\ ~cancelled
  /\ tx' = Flushed(poll.consumed)
  /\ poll' = [poll EXCEPT !.copied = poll.consumed]
  /\ pc' = "upsert"
  /\ UNCHANGED <<upstream, tables, rg, cur, cancelled, faults, lostAcks>>

\* sqlUpsertRegionState, still inside tx.
UpsertState ==
  /\ pc = "upsert"
  /\ ~cancelled
  /\ pc' = "commit"
  /\ UNCHANGED <<upstream, tables, rg, cur, poll, tx, cancelled, faults, lostAcks>>

\* Mutant: the ON CONFLICT clause misses last_snapshot_time.
UpsertedRow_KeepsTime ==
  [scraperState[region] EXCEPT !.present = TRUE, !.lastModified = poll.modified]

\* The region's row after sqlUpsertRegionState.
UpsertedRow ==
  [scraperState[region] EXCEPT !.present = TRUE, !.lastModified = poll.modified,
                               !.lastSnapshotTime = clock]

\* What the server does when it commits tx: rows and pointer together.
ApplySnapshot ==
  /\ clock < MaxClock
  /\ auctionSnapshots' = auctionSnapshots \cup tx.rows
  /\ scraperState' = [scraperState EXCEPT ![region] = UpsertedRow]
  /\ clock' = clock + 1
  /\ UNCHANGED wowTokens

CommitSnapshot ==
  /\ pc = "commit"
  /\ ApplySnapshot
  /\ rg' = [rg EXCEPT ![region].lastModified = poll.modified]
  /\ tx' = NoTx
  /\ poll' = NoPoll
  /\ pc' = AfterSnapshot
  /\ UNCHANGED <<upstream, cur, cancelled, faults, lostAcks>>

\* The commit is applied but the loop sees an error.
CommitAckLost ==
  /\ pc = "commit"
  /\ lostAcks < MaxLostAcks
  /\ lostAcks' = lostAcks + 1
  /\ ApplySnapshot
  /\ tx' = NoTx
  /\ poll' = NoPoll
  /\ pc' = AfterSnapshot
  /\ UNCHANGED <<upstream, rg, cur, cancelled, faults>>

-----------------------------------------------------------------------------
(* pollToken, storeToken and the pass over the regions *)

\* Mutants: one client too many; only ever the first.
NextClient_PastEnd == pc' = "fetch" /\ cur' = cur + 1

NextClient_FirstOnly == pc' = "sleep" /\ UNCHANGED cur

\* The next client; after the last one Run waits, or returns when cancelled.
NextClient ==
  IF cur < Len(Clients)
  THEN pc' = "fetch" /\ cur' = cur + 1
  ELSE /\ pc' = IF cancelled THEN "stopped" ELSE "sleep"
       /\ UNCHANGED cur

\* Mutant: the comparison without its equal case.
TokenUnchanged_Strict ==
  /\ rg[region].tokenUpdated # None
  /\ tokenFeed[region] < rg[region].tokenUpdated

TokenUnchanged ==
  /\ rg[region].tokenUpdated # None
  /\ tokenFeed[region] <= rg[region].tokenUpdated

PollToken ==
  /\ pc = "token"
  /\ ~cancelled
  /\ IF TokenUnchanged
     THEN NextClient /\ UNCHANGED poll
     ELSE /\ poll' = [NoPoll EXCEPT !.token = tokenFeed[region]]
          /\ pc' = "storeToken"
          /\ UNCHANGED cur
  /\ UNCHANGED <<upstream, tables, rg, tx, cancelled, faults, lostAcks>>

\* One transaction: insert the price, UPDATE the region's row if it has one.
ApplyToken ==
  /\ clock < MaxClock
  /\ wowTokens' = wowTokens \cup
       {[region |-> region, updated |-> poll.token, snapshotTime |-> clock]}
  /\ scraperState' = IF scraperState[region].present
                     THEN [scraperState EXCEPT ![region].tokenUpdated = poll.token]
                     ELSE scraperState
  /\ clock' = clock + 1
  /\ UNCHANGED auctionSnapshots

StoreToken ==
  /\ pc = "storeToken"
  /\ ApplyToken
  /\ rg' = [rg EXCEPT ![region].tokenUpdated = poll.token]
  /\ poll' = NoPoll
  /\ NextClient
  /\ UNCHANGED <<upstream, tx, cancelled, faults, lostAcks>>

TokenAckLost ==
  /\ pc = "storeToken"
  /\ lostAcks < MaxLostAcks
  /\ lostAcks' = lostAcks + 1
  /\ ApplyToken
  /\ poll' = NoPoll
  /\ NextClient
  /\ UNCHANGED <<upstream, rg, tx, cancelled, faults>>

TokenFails ==
  /\ pc \in {"token", "storeToken"}
  /\ MayFail
  /\ CountFault
  /\ poll' = NoPoll
  /\ NextClient
  /\ UNCHANGED <<upstream, tables, rg, tx, cancelled, lostAcks>>

\* The timer of one poll window, or the context, ends the wait.
Wake ==
  /\ pc = "sleep"
  /\ IF cancelled
     THEN pc' = "stopped" /\ UNCHANGED cur
     ELSE pc' = "fetch" /\ cur' = 1
  /\ UNCHANGED <<upstream, tables, rg, poll, tx, cancelled, faults, lostAcks>>

-----------------------------------------------------------------------------
(* Signals, crashes and restarts *)

Cancel ==
  /\ Running
  /\ ~cancelled
  /\ faults < MaxFaults
  /\ cancelled' = TRUE
  /\ faults' = faults + 1
  /\ UNCHANGED <<upstream, tables, rg, pc, cur, poll, tx, lostAcks>>

\* The process dies.  The server rolls an open transaction back; a commit on
\* its way is applied or not.
Crash ==
  /\ Running
  /\ faults < MaxFaults
  /\ faults' = faults + 1
  /\ \/ UNCHANGED tables
     \/ pc = "commit" /\ ApplySnapshot
     \/ pc = "storeToken" /\ ApplyToken
  /\ pc' = "down"
  /\ tx' = NoTx
  /\ poll' = NoPoll
  /\ UNCHANGED <<upstream, rg, cur, cancelled, lostAcks>>

\* The container's restart policy after a crash, or an operator after a stop.
Start ==
  /\ ~Running
  /\ pc' = "load"
  /\ cancelled' = FALSE
  /\ rg' = [r \in Region |-> Blank]
  /\ cur' = 1
  /\ UNCHANGED <<upstream, tables, poll, tx, faults, lostAcks>>

-----------------------------------------------------------------------------

Init ==
  /\ feed = [r \in Region |-> 1]
  /\ tokenFeed = [r \in Region |-> 1]
  /\ auctionSnapshots = {}
  /\ wowTokens = {}
  /\ scraperState = [r \in Region |-> NoRow]
  /\ rg = [r \in Region |-> Blank]
  /\ pc = "load"
  /\ cur = 1
  /\ poll = NoPoll
  /\ tx = NoTx
  /\ clock = 1
  /\ cancelled = FALSE
  /\ faults = 0
  /\ lostAcks = 0

Loop ==
  \/ LoadState \/ LoadFails
  \/ NotModified \/ Respond \/ SnapshotFails
  \/ StreamAuction \/ DiscardBody \/ FinishBody
  \/ UpsertState \/ CommitSnapshot \/ CommitAckLost
  \/ PollToken \/ StoreToken \/ TokenAckLost \/ TokenFails
  \/ Wake

Environment ==
  \/ \E r \in Region : Publish(r) \/ PublishToken(r)
  \/ Cancel \/ Crash

Next == Loop \/ Environment \/ Start

Spec == Init /\ [][Next]_vars

\* The goroutine runs, every call returns (HTTP timeout, database answer) and
\* the container restarts a process that died.  Nothing restarts a process
\* that was told to stop, and nothing makes Blizzard publish.
Fairness ==
  /\ WF_vars(Loop)
  /\ WF_vars(pc = "down" /\ Start)

FairSpec == Spec /\ Fairness

-----------------------------------------------------------------------------
(* Properties *)

SnapshotRow ==
  [region : Region, auction : (1..MaxVersion) \X Nat, snapshotTime : Nat]

TokenRow == [region : Region, updated : 1..MaxToken, snapshotTime : Nat]

StateRow == [present : BOOLEAN, lastModified : 0..MaxVersion,
             lastSnapshotTime : Nat, tokenUpdated : 0..MaxToken]

RegionState == [lastModified : 0..MaxVersion, tokenUpdated : 0..MaxToken]

Poll == [version : 0..MaxVersion, modified : 0..MaxVersion,
         consumed : Nat, copied : Nat, token : 0..MaxToken]

Tx == [open : BOOLEAN, rows : SUBSET SnapshotRow]

Steps == {"load", "fetch", "stream", "upsert", "commit", "token", "storeToken",
          "sleep", "stopped", "down"}

\* Type correctness of the loop's state and of the three tables.
TypeOK ==
  /\ feed \in [Region -> 1..MaxVersion]
  /\ tokenFeed \in [Region -> 1..MaxToken]
  /\ auctionSnapshots \subseteq SnapshotRow
  /\ wowTokens \subseteq TokenRow
  /\ scraperState \in [Region -> StateRow]
  /\ rg \in [Region -> RegionState]
  /\ pc \in Steps
  /\ cur \in 1..Len(Clients)
  /\ poll \in Poll
  /\ tx \in Tx
  /\ clock \in 1..MaxClock
  /\ cancelled \in BOOLEAN
  /\ faults \in 0..MaxFaults
  /\ lostAcks \in 0..MaxLostAcks

WholeListing(r, t) ==
  \E v \in 1..MaxVersion : SnapshotAt(r, t) = Rows(r, v, 1, Auctions[v], t)

\* Whatever fails and wherever the process dies, the rows filed under one
\* region and snapshot_time are the complete listing of one version, never a
\* part of it and never a mix ("a crash mid-snapshot leaves no half-written
\* rows", storeStreamedSnapshot).
SnapshotsWhole ==
  \A row \in auctionSnapshots : WholeListing(row.region, row.snapshotTime)

\* A region's row of scraper_state names the newest snapshot of the region and
\* the version it holds completely ("the state pointer never advertises data
\* that failed to commit", storeStreamedSnapshot).
PointerHonest ==
  \A r \in Region :
    LET s == scraperState[r] IN
    /\ s.lastModified # None =>
         SnapshotAt(r, s.lastSnapshotTime) =
           Rows(r, s.lastModified, 1, Auctions[s.lastModified], s.lastSnapshotTime)
    /\ \A row \in auctionSnapshots :
         row.region = r => row.snapshotTime <= s.lastSnapshotTime

\* What the loop believes it has stored of a region is stored: its
\* Last-Modified is never ahead of the committed one, so the If-Modified-Since
\* it sends can never make Blizzard withhold a version that is not in the
\* database; and a token update it holds for stored has its row.
MemoryBacked ==
  \A r \in Region :
    /\ rg[r].lastModified <= scraperState[r].lastModified
    /\ rg[r].tokenUpdated # None =>
         \E row \in wowTokens : row.region = r /\ row.updated = rg[r].tokenUpdated

\* A version is stored once per region, across restarts too, and once more for
\* every commit that is applied but reported as failed ("storing rows only on
\* change").
StoredOnce ==
  \A r \in Region, v \in 1..MaxVersion :
    Cardinality({row.snapshotTime : row \in {row \in auctionSnapshots :
                   row.region = r /\ row.auction[1] = v}}) <= 1 + lostAcks

\* A token update at or before the committed dedup timestamp never gets
\* another row, across restarts too; only a lost acknowledgement lets the
\* update of that very timestamp in again (pollToken's comparison against the
\* reloaded timestamp).
TokenNotRepeated ==
  [][\A row \in wowTokens' \ wowTokens :
       LET committed == scraperState[row.region].tokenUpdated IN
       row.updated > committed \/ (lostAcks > 0 /\ row.updated = committed)]_wowTokens

\* Once failures cease, the version a region serves, or a later one, gets into
\* the database unless the scraper is told to stop, even when another
\* region's endpoint fails for ever.
CommoditiesArrive ==
  \A r \in Region \ Unreliable : \A v \in 1..MaxVersion :
    feed[r] = v ~> (scraperState[r].lastModified >= v \/ pc = "stopped")

\* Likewise the token price of every region, even when the commodity endpoint
\* of that same region fails for ever.
TokensArrive ==
  \A r \in Region : \A u \in 1..MaxToken :
    tokenFeed[r] = u ~>
      (pc = "stopped" \/ \E row \in wowTokens : row.region = r /\ row.updated >= u)

-----------------------------------------------------------------------------
(* The archive the loop implements *)

Archive == INSTANCE SnapshotArchive WITH
  Region <- Region,
  Version <- 1..MaxVersion,
  Content <- [v \in 1..MaxVersion |-> {<<v, n>> : n \in 1..Auctions[v]}],
  Stamp <- [v \in 1..MaxVersion |-> v],
  Time <- 1..MaxClock,
  Repeats <- MaxLostAcks > 0,
  available <- feed,
  archive <- {[region |-> row.region, entry |-> row.auction,
               at |-> row.snapshotTime] : row \in auctionSnapshots},
  pointer <- [r \in Region |-> scraperState[r].lastModified]

\* Seen from the tables, everything the loop does is to archive whole
\* versions, newer than the last one, together with their pointer.
ArchiveSpec == Archive!Spec

=============================================================================
