---------------------------- MODULE RequestsProofs -----------------------------
(***************************************************************************)
(* Proofs about how requests are made, for any callers, lifetimes,         *)
(* timeouts, hints and numbers of attempts, calls and failures.            *)
(***************************************************************************)
EXTENDS Requests, FiniteSetTheorems, TLAPS

CallRecord ==
  [what : {"none", "lock", "oauth", "api", "tsm"},
   step : {"none", "send", "flight", "pause", "told"},
   attempt : 0..LastAttempt, at : Nat, retryAt : Nat, hinted : Nat, token : Nat]

\* The types of the client's state.
TypeOK ==
  /\ now \in Nat
  /\ issued \in Seq(Nat)
  /\ cache \in [token : Nat, until : Nat]
  /\ holder \in Caller \cup {Nobody}
  /\ call \in [All -> CallRecord]
  /\ done \subseteq All
  /\ calls \in Nat
  /\ faults \in Nat

\* A call that waits for the lock or is over makes no requests, and each client
\* makes its own.
Placed(g, r) ==
  /\ r.what \in {"none", "lock"} <=> r.step = "none"
  /\ r.what \in {"lock", "oauth", "api"} => g \in Caller

\* Nothing is under way earlier than the server asked for, and no request
\* outlasts its timeout.
Timely(r) ==
  /\ r.step \in {"pause", "told", "flight"} => r.at >= r.hinted
  /\ r.step = "send" => now >= r.hinted
  /\ r.step = "flight" => r.at <= now /\ now <= r.at + Timeout

CallsInOrder == \A g \in All : Placed(g, call[g]) /\ Timely(call[g])

\* The lock is held for as long as a token is fetched, and a token is fetched
\* only while the cached one will not do.
LockedWhileFetching ==
  \A g \in All : /\ call[g].what = "oauth" <=> holder = g
                 /\ call[g].what = "oauth" => ~Fresh

\* What the cache takes to be the end of its token is too late by at most the
\* latency of the answer that brought it.
CacheBacked ==
  cache.token # None =>
    cache.token \in 1..Len(issued) /\ issued[cache.token] >= cache.until - Timeout

IInv == TypeOK /\ CallsInOrder /\ LockedWhileFetching /\ CacheBacked

-----------------------------------------------------------------------------
(* Times *)

\* The durations and bounds are natural numbers; the two kinds of callers are
\* apart, and neither has Nobody among them.
LEMMA Bounds ==
  /\ Lifetime \in Nat /\ Margin \in Nat /\ Timeout \in Nat /\ LastAttempt \in Nat
  /\ StartBy \in Nat /\ MaxCalls \in Nat /\ MaxTime \in Nat /\ MaxFaults \in Nat
  /\ Lifetime > Margin /\ Hints \subseteq Nat
  /\ Nobody \notin Caller /\ Caller \subseteq All /\ TSMCaller \subseteq All /\ Nobody \notin All
  /\ Caller \cap TSMCaller = {}
  BY RequestsAssumption DEF All

\* A power of two counts the subsets of a set.
LEMMA BackoffIsTime == \A n \in Nat : Backoff(n + 1) \in Nat
<1> SUFFICES ASSUME NEW n \in Nat PROVE 2 ^ n \in Nat
  BY DEF Backoff
<1>1. IsFiniteSet(1..n) /\ Cardinality(1..n) = n
  BY FS_Interval
<1>2. IsFiniteSet(SUBSET (1..n)) /\ Cardinality(SUBSET (1..n)) = 2 ^ n
  BY <1>1, FS_SUBSET
<1> QED
  BY <1>2, FS_CardinalityType

\* The later of two times.
LEMMA MaxOfTwo ==
  ASSUME NEW a \in Nat, NEW b \in Nat
  PROVE  Max({a, b}) \in Nat /\ Max({a, b}) >= a /\ Max({a, b}) >= b
<1>1. \E x \in {a, b} : \A y \in {a, b} : x >= y
  <2>1. CASE a >= b
    BY <2>1
  <2>2. CASE b >= a
    BY <2>2
  <2> QED
    BY <2>1, <2>2
<1> QED
  BY <1>1 DEF Max

\* The next attempt is due neither before the server's hint nor in the past.
LEMMA DelayIsLater ==
  ASSUME IInv, NEW g \in All, NEW retryAt \in Nat
  PROVE  Delay(g, retryAt) \in Nat /\ Delay(g, retryAt) >= now /\ Delay(g, retryAt) >= retryAt
<1>1. now \in Nat /\ call[g].attempt \in Nat
  BY Bounds DEF IInv, TypeOK, CallRecord
<1>2. Backoff(call[g].attempt + 1) \in Nat
  BY <1>1, BackoffIsTime
<1> DEFINE due == now + Backoff(call[g].attempt + 1)
<1>3. due \in Nat /\ due >= now
  BY <1>1, <1>2
<1>4. Delay(g, retryAt) = Max({due, retryAt})
  BY DEF Delay
<1> HIDE DEF due
<1> QED
  BY <1>1, <1>3, <1>4, MaxOfTwo

-----------------------------------------------------------------------------
(* The calls *)

\* Facts about one call.
LEMMA CallFacts ==
  ASSUME IInv, NEW g \in All
  PROVE  /\ call[g] \in CallRecord /\ call[g].at \in Nat /\ call[g].retryAt \in Nat
         /\ call[g].hinted \in Nat /\ call[g].token \in Nat /\ now \in Nat
         /\ call[g].attempt \in 0..LastAttempt
         /\ Placed(g, call[g]) /\ Timely(call[g])
         /\ call[g].what = "oauth" <=> holder = g
         /\ call[g].what = "oauth" => ~Fresh
  BY DEF IInv, TypeOK, CallRecord, CallsInOrder, LockedWhileFetching

\* A step that gives one call the record r, and passes the lock on as r needs
\* it, keeps the invariant if r is in order.
LEMMA CallChanges ==
  ASSUME IInv, NEW g \in All, NEW r \in CallRecord, Set(g, r),
         Placed(g, r), Timely(r),
         r.what = "oauth" => ~Fresh /\ cache' = cache /\ holder \in {Nobody, g},
         holder' = IF r.what = "oauth" THEN g ELSE Unlocked(g),
         cache' # cache => holder = g,
         issued' \in Seq(Nat), cache' \in [token : Nat, until : Nat], CacheBacked',
         UNCHANGED <<now, done>>, calls' \in Nat, faults' \in Nat
  PROVE  IInv'
<1>1. /\ call' = [call EXCEPT ![g] = r] /\ call' \in [All -> CallRecord]
      /\ call'[g] = r /\ \A k \in All \ {g} : call'[k] = call[k]
  BY DEF IInv, TypeOK, Set
<1>2. holder \in Caller \cup {Nobody} /\ holder' \in Caller \cup {Nobody}
  BY DEF IInv, TypeOK, Placed, Unlocked
<1>3. TypeOK'
  BY <1>1, <1>2 DEF IInv, TypeOK
<1>4. CallsInOrder'
  <2> SUFFICES ASSUME NEW k \in All PROVE Placed(k, call'[k]) /\ Timely(call[k])'
    BY DEF CallsInOrder, Placed
  <2>1. CASE k = g
    BY <1>1, <2>1 DEF Timely
  <2>2. CASE k # g
    BY <1>1, <2>2 DEF IInv, CallsInOrder, Timely
  <2> QED
    BY <2>1, <2>2
<1>5. LockedWhileFetching'
  <2> SUFFICES ASSUME NEW k \in All
               PROVE  /\ call'[k].what = "oauth" <=> holder' = k
                      /\ call'[k].what = "oauth" => ~Fresh'
    BY DEF LockedWhileFetching
  <2>1. CASE k = g
    <3>1. CASE r.what = "oauth"
      BY <1>1, <2>1, <3>1 DEF Fresh
    <3>2. CASE r.what # "oauth"
      <4>1. holder' # g
        BY <3>2, Bounds DEF Unlocked
      <4> QED
        BY <1>1, <2>1, <3>2, <4>1
    <3> QED
      BY <3>1, <3>2
  <2>2. CASE k # g
    <3>1. call'[k] = call[k] /\ (call[k].what = "oauth" <=> holder = k)
      BY <1>1, <2>2 DEF IInv, LockedWhileFetching
    <3>2. holder' = k <=> holder = k
      BY <2>2, Bounds DEF Unlocked
    <3>3. call'[k].what = "oauth" => ~Fresh'
      BY <2>2, <3>1 DEF IInv, LockedWhileFetching, Fresh
    <3> QED
      BY <3>1, <3>2, <3>3
  <2> QED
    BY <2>1, <2>2
<1> QED
  BY <1>3, <1>4, <1>5 DEF IInv

\* The same for a step that leaves the tokens and the lock alone, or gives the
\* lock up with the call's request for a token.
LEMMA CallGoesOn ==
  ASSUME IInv, NEW g \in All, NEW r \in CallRecord, Set(g, r),
         Placed(g, r), Timely(r),
         r.what = "oauth" => call[g].what = "oauth",
         \/ r.what = "oauth" /\ holder' = holder
         \/ call[g].what # "oauth" /\ holder' = holder
         \/ r.what # "oauth" /\ holder' = Unlocked(g),
         UNCHANGED <<now, done, issued, cache>>, calls' \in Nat, faults' \in Nat
  PROVE  IInv'
<1>1. (call[g].what = "oauth" <=> holder = g) /\ (call[g].what = "oauth" => ~Fresh)
  BY CallFacts
<1>2. holder' = IF r.what = "oauth" THEN g ELSE Unlocked(g)
  BY <1>1 DEF Unlocked
<1>3. CacheBacked' /\ issued' \in Seq(Nat) /\ cache' \in [token : Nat, until : Nat]
  BY DEF IInv, TypeOK, CacheBacked
<1> QED
  BY <1>1, <1>2, <1>3, CallChanges

\* A call that is not made, and one that begins.
LEMMA NewCalls ==
  /\ Idle \in CallRecord /\ Idle.what = "none" /\ Idle.step = "none"
  /\ \A what \in {"oauth", "api", "tsm"}, token \in Nat :
       /\ Begin(what, token) \in CallRecord
       /\ Begin(what, token).what = what /\ Begin(what, token).step = "send"
       /\ Begin(what, token).hinted = 0 /\ Begin(what, token).token = token
<1>1. 0 \in 0..LastAttempt
  BY Bounds
<1>2. /\ Idle \in CallRecord /\ Idle.what = "none" /\ Idle.step = "none" /\ Idle.hinted = 0
  BY <1>1 DEF CallRecord, Idle, None
<1>3. ASSUME NEW what \in {"oauth", "api", "tsm"}, NEW token \in Nat
      PROVE  /\ Begin(what, token) \in CallRecord
             /\ Begin(what, token).what = what /\ Begin(what, token).step = "send"
             /\ Begin(what, token).hinted = 0 /\ Begin(what, token).token = token
  BY <1>1 DEF CallRecord, Begin, Idle, None
<1> QED
  BY <1>2, <1>3

\* A call that ends gives the lock back.
LEMMA OverInv ==
  ASSUME IInv, NEW g \in All, Over(g),
         UNCHANGED <<now, done, issued, cache>>, calls' \in Nat, faults' \in Nat
  PROVE  IInv'
<1>1. Placed(g, Idle) /\ Timely(Idle) /\ Idle \in CallRecord /\ Idle.what # "oauth"
  BY NewCalls DEF Placed, Timely
<1> QED
  BY <1>1, CallGoesOn DEF Over

\* A retry, for which the hint is in the past or the delay is long enough.
LEMMA RetryInv ==
  ASSUME IInv, NEW g \in All, NEW retryAt \in Nat, NEW hinted \in Nat,
         call[g].step # "none", Retry(g, retryAt, hinted), hinted <= now \/ hinted <= retryAt,
         UNCHANGED <<now, done, issued, cache>>, calls' \in Nat, faults' \in Nat
  PROVE  IInv'
<1>1. CASE Exhausted(g)
  BY <1>1, OverInv DEF Retry
<1>2. CASE ~Exhausted(g)
  <2> DEFINE r == [call[g] EXCEPT !.step = "pause", !.attempt = @ + 1, !.at = Delay(g, retryAt),
                                  !.retryAt = retryAt, !.hinted = hinted]
  <2>0. /\ call[g] \in CallRecord /\ now \in Nat /\ call[g].attempt \in 0..LastAttempt
        /\ Placed(g, call[g])
    BY CallFacts
  <2>1. Delay(g, retryAt) \in Nat /\ Delay(g, retryAt) >= hinted
    BY <2>0, DelayIsLater
  <2>2. call[g].attempt + 1 \in 0..LastAttempt
    BY <1>2, <2>0, Bounds DEF Exhausted
  <2>3. /\ r \in CallRecord /\ r.what = call[g].what /\ r.step = "pause"
        /\ r.at = Delay(g, retryAt) /\ r.hinted = hinted
    BY <2>0, <2>1, <2>2 DEF CallRecord
  <2>4. Set(g, r) /\ holder' = holder
    BY <1>2 DEF Retry
  <2> HIDE DEF r
  <2>5. Placed(g, r) /\ Timely(r)
    BY <2>0, <2>1, <2>3 DEF Placed, Timely
  <2> QED
    BY <2>3, <2>4, <2>5, CallGoesOn
<1> QED
  BY <1>1, <1>2

-----------------------------------------------------------------------------
(* The steps *)

\* A call begins: with the lock, or with its TSM request.
LEMMA StartInv ==
  ASSUME IInv, NEW c \in All, Start(c)
  PROVE  IInv'
<1>1. /\ call[c].what = "none" /\ UNCHANGED <<now, issued, cache, holder, done, faults>>
      /\ now \in Nat /\ calls' \in Nat /\ faults' \in Nat
  BY DEF IInv, TypeOK, Start
<1>2. CASE c \in Caller
  <2> DEFINE r == [Idle EXCEPT !.what = "lock"]
  <2>1. r \in CallRecord /\ r.what = "lock" /\ r.step = "none"
    BY NewCalls DEF CallRecord, Idle
  <2>2. Set(c, r)
    BY <1>2 DEF Start
  <2> HIDE DEF r
  <2>3. Placed(c, r) /\ Timely(r)
    BY <1>2, <2>1 DEF Placed, Timely
  <2> QED
    BY <1>1, <2>1, <2>2, <2>3, CallGoesOn
<1>3. CASE c \notin Caller
  <2> DEFINE r == Begin("tsm", None)
  <2>1. r \in CallRecord /\ r.what = "tsm" /\ r.step = "send" /\ r.hinted = 0
    BY NewCalls DEF None
  <2>2. Set(c, r)
    BY <1>3 DEF Start
  <2> HIDE DEF r
  <2>3. Placed(c, r) /\ Timely(r)
    BY <1>1, <2>1 DEF Placed, Timely
  <2> QED
    BY <1>1, <2>1, <2>2, <2>3, CallGoesOn
<1> QED
  BY <1>2, <1>3

\* The cached token is taken while it is fresh; otherwise the lock is kept.
LEMMA AcquireInv ==
  ASSUME IInv, NEW c \in All, Acquire(c)
  PROVE  /\ IInv'
         /\ call'[c].what = "api" => issued'[call'[c].token] > now + Margin - Timeout
<1>1. /\ call[c].what = "lock" /\ holder = Nobody
      /\ UNCHANGED <<now, issued, cache, done, calls, faults>>
      /\ now \in Nat /\ calls' \in Nat /\ faults' \in Nat
      /\ cache.token \in Nat /\ cache.until \in Nat /\ issued \in Seq(Nat)
  BY DEF IInv, TypeOK, Acquire
<1>2. c \in Caller /\ Nobody # c
  BY <1>1, CallFacts, Bounds DEF Placed
<1>3. CASE Fresh
  <2> DEFINE r == Begin("api", cache.token)
  <2>1. r \in CallRecord /\ r.what = "api" /\ r.step = "send" /\ r.hinted = 0 /\ r.token = cache.token
    BY <1>1, NewCalls
  <2>2. Set(c, r) /\ holder' = holder
    BY <1>3 DEF Acquire
  <2> HIDE DEF r
  <2>3. Placed(c, r) /\ Timely(r)
    BY <1>1, <1>2, <2>1 DEF Placed, Timely
  <2>4. IInv'
    BY <1>1, <2>1, <2>2, <2>3, CallGoesOn
  <2>5. call'[c] = r
    BY <2>2 DEF Set, IInv, TypeOK
  <2>6. issued[cache.token] \in Nat /\ issued[cache.token] >= cache.until - Timeout
    BY <1>1, <1>3 DEF IInv, CacheBacked, Fresh
  <2>7. issued[cache.token] > now + Margin - Timeout
    BY <1>1, <1>3, <2>6, Bounds DEF Fresh
  <2> QED
    BY <1>1, <2>1, <2>4, <2>5, <2>7
<1>4. CASE ~Fresh
  <2> DEFINE r == Begin("oauth", None)
  <2>1. r \in CallRecord /\ r.what = "oauth" /\ r.step = "send" /\ r.hinted = 0
    BY NewCalls DEF None
  <2>2. Set(c, r) /\ holder' = c
    BY <1>4 DEF Acquire
  <2> HIDE DEF r
  <2>3. Placed(c, r) /\ Timely(r)
    BY <1>1, <1>2, <2>1 DEF Placed, Timely
  <2>4. CacheBacked' /\ issued' \in Seq(Nat) /\ cache' \in [token : Nat, until : Nat]
    BY <1>1 DEF IInv, TypeOK, CacheBacked
  <2>5. IInv'
    BY <1>1, <1>4, <2>1, <2>2, <2>3, <2>4, CallChanges
  <2>6. call'[c].what = "oauth"
    BY <2>1, <2>2 DEF Set, IInv, TypeOK
  <2> QED
    BY <2>5, <2>6
<1> QED
  BY <1>3, <1>4

\* The answer with a token was on its way for at most the timeout.
LEMMA TokenIssuedInv ==
  ASSUME IInv, NEW c \in All, TokenIssued(c)
  PROVE  /\ IInv'
         /\ call'[c].what = "api" => issued'[call'[c].token] > now + Margin - Timeout
         /\ cache.token = None \/ cache.until - now <= Margin
<1>1. /\ call[c].what = "oauth" /\ call[c].step = "flight"
      /\ cache' = [token |-> Len(issued) + 1, until |-> now + Lifetime]
      /\ holder' = Nobody /\ Set(c, Begin("api", Len(issued) + 1))
      /\ UNCHANGED <<now, done, calls, faults>>
      /\ now \in Nat /\ calls' \in Nat /\ faults' \in Nat /\ issued \in Seq(Nat)
      /\ cache \in [token : Nat, until : Nat]
  BY DEF IInv, TypeOK, TokenIssued
<1>2. PICK since \in call[c].at..now : issued' = Append(issued, since + Lifetime)
  BY DEF TokenIssued
<1>3. /\ holder = c /\ ~Fresh /\ c \in Caller
      /\ call[c].at \in Nat /\ call[c].at <= now /\ now <= call[c].at + Timeout
  BY <1>1, CallFacts DEF Placed, Timely
<1> DEFINE expires == since + Lifetime
           n == Len(issued) + 1
<1>4. since \in Nat /\ since >= now - Timeout /\ expires \in Nat
  <2> DEFINE at == call[c].at
  <2>1. since \in at..now /\ at \in Nat /\ now \in Nat /\ now <= at + Timeout
    BY <1>1, <1>2, <1>3
  <2>2. Timeout \in Nat /\ Lifetime \in Nat
    BY Bounds
  <2> HIDE DEF at
  <2>3. since \in Nat /\ since >= now - Timeout
    BY <2>1, <2>2
  <2> QED
    BY <2>2, <2>3
<1>5. n \in Nat \ {0} /\ Len(issued) \in Nat
  BY <1>1
<1>6. issued' \in Seq(Nat) /\ Len(issued') = n /\ issued'[n] = expires
  BY <1>1, <1>2, <1>4
<1>7. /\ cache' \in [token : Nat, until : Nat] /\ cache'.token = n
      /\ cache'.until = now + Lifetime
  BY <1>1, <1>5, Bounds
<1>8. expires >= now + Lifetime - Timeout /\ expires > now + Margin - Timeout
  BY <1>1, <1>4, Bounds
<1> HIDE DEF expires
<1>9. CacheBacked'
  <2>1. n \in 1..Len(issued')
    BY <1>5, <1>6
  <2> HIDE DEF n
  <2>2. cache'.token \in 1..Len(issued') /\ issued'[cache'.token] = expires
    BY <1>6, <1>7, <2>1
  <2>3. \A until \in Nat : until = now + Lifetime => expires >= until - Timeout
    BY <1>1, <1>4, <1>8, Bounds
  <2>4. issued'[cache'.token] >= cache'.until - Timeout
    BY <1>1, <1>7, <2>2, <2>3
  <2> QED
    BY <2>2, <2>4 DEF CacheBacked
<1> DEFINE r == Begin("api", n)
<1>10. r \in CallRecord /\ r.what = "api" /\ r.step = "send" /\ r.hinted = 0 /\ r.token = n
  BY <1>5, NewCalls
<1>11. Set(c, r)
  BY <1>1
<1> HIDE DEF r, n
<1>12. Placed(c, r) /\ Timely(r)
  BY <1>1, <1>3, <1>10 DEF Placed, Timely
<1>13. holder' = Unlocked(c)
  BY <1>1, <1>3 DEF Unlocked
<1>14. IInv'
  BY <1>1, <1>3, <1>6, <1>7, <1>9, <1>10, <1>11, <1>12, <1>13, CallChanges
<1>15. call'[c] = r
  BY <1>11 DEF Set, IInv, TypeOK
<1>16. cache.token = None \/ cache.until - now <= Margin
  BY <1>1, <1>3, Bounds DEF Fresh
<1> QED
  BY <1>6, <1>8, <1>10, <1>14, <1>15, <1>16

\* Everything else that a call does once it makes requests.
LEMMA RequestInv ==
  ASSUME IInv, NEW g \in All, Runs(g), ~Acquire(g), ~TokenIssued(g)
  PROVE  IInv'
<1>0. /\ call[g] \in CallRecord /\ call[g].at \in Nat /\ call[g].retryAt \in Nat
      /\ call[g].hinted \in Nat /\ now \in Nat /\ Placed(g, call[g]) /\ Timely(call[g])
      /\ calls \in Nat /\ faults \in Nat /\ faults + 1 \in Nat /\ None \in Nat
  BY CallFacts DEF IInv, TypeOK, None
<1>1. CASE Send(g)
  <2> DEFINE r == [call[g] EXCEPT !.step = "flight", !.at = now]
  <2>1. /\ r \in CallRecord /\ r.what = call[g].what /\ r.step = "flight" /\ r.at = now
        /\ r.hinted = call[g].hinted
    BY <1>0 DEF CallRecord
  <2>2. /\ Set(g, r) /\ call[g].step = "send"
        /\ UNCHANGED <<now, issued, cache, holder, done, calls, faults>>
    BY <1>1 DEF Send
  <2> HIDE DEF r
  <2>3. Placed(g, r)
    BY <1>0, <2>1, <2>2 DEF Placed
  <2>4. Timely(r)
    BY <1>0, <2>1, <2>2, Bounds DEF Timely
  <2> QED
    BY <1>0, <2>1, <2>2, <2>3, <2>4, CallGoesOn
<1>2. CASE Answered(g) \/ TokenRefused(g)
  BY <1>0, <1>2, OverInv DEF Answered, TokenRefused
<1>3. CASE Rejected(g)
  BY <1>0, <1>3, OverInv DEF Rejected, Fault
<1>4. CASE NetworkError(g)
  <2>1. call[g].step = "flight" /\ call[g].hinted <= now
    BY <1>0, <1>4 DEF NetworkError, Timely
  <2> QED
    BY <1>0, <1>4, <2>1, RetryInv DEF NetworkError, Fault
<1>5. CASE Throttled(g)
  <2>1. call[g].step = "flight" /\ call[g].hinted <= now
    BY <1>0, <1>5 DEF Throttled, Timely
  <2> QED
    BY <1>0, <1>5, <2>1, RetryInv DEF Throttled, Fault
<1>6. ASSUME NEW hint \in Hints, ThrottledWithHint(g, hint)
      PROVE  IInv'
  <2>1. now + hint \in Nat /\ now + hint <= now + hint
    BY <1>0, Bounds
  <2>2. /\ call[g].step = "flight" /\ Retry(g, now + hint, now + hint) /\ faults' = faults + 1
        /\ UNCHANGED <<now, issued, cache, done, calls>>
    BY <1>6 DEF ThrottledWithHint, Fault
  <2> QED
    BY <1>0, <2>1, <2>2, RetryInv
<1>7. ASSUME NEW hint \in Hints, TSMThrottledWithHint(g, hint)
      PROVE  IInv'
  <2> DEFINE r == [call[g] EXCEPT !.step = "told", !.at = now + hint, !.hinted = now + hint]
  <2>1. now + hint \in Nat /\ now + hint >= now + hint
    BY <1>0, Bounds
  <2>2. /\ r \in CallRecord /\ r.what = call[g].what /\ r.step = "told" /\ r.at = now + hint
        /\ r.hinted = now + hint
    BY <1>0, <2>1 DEF CallRecord
  <2>3. /\ Set(g, r) /\ call[g].step = "flight" /\ call[g].what = "tsm" /\ faults' = faults + 1
        /\ UNCHANGED <<now, issued, cache, holder, done, calls>>
    BY <1>7 DEF TSMThrottledWithHint, Fault
  <2> HIDE DEF r
  <2>4. Placed(g, r) /\ Timely(r)
    BY <1>0, <2>1, <2>2, <2>3 DEF Placed, Timely
  <2> QED
    BY <1>0, <2>2, <2>3, <2>4, CallGoesOn
<1>8. CASE ToldTimeOver(g)
  <2>1. call[g].step = "told" /\ call[g].hinted <= now
    BY <1>0, <1>8 DEF ToldTimeOver, Timely
  <2> QED
    BY <1>0, <1>8, <2>1, RetryInv DEF ToldTimeOver
<1>9. CASE PauseOver(g)
  <2> DEFINE r == [call[g] EXCEPT !.step = "send"]
  <2>1. /\ r \in CallRecord /\ r.what = call[g].what /\ r.step = "send"
        /\ r.hinted = call[g].hinted
    BY <1>0 DEF CallRecord
  <2>2. /\ Set(g, r) /\ call[g].step = "pause" /\ now >= call[g].at
        /\ UNCHANGED <<now, issued, cache, holder, done, calls, faults>>
    BY <1>9 DEF PauseOver
  <2> HIDE DEF r
  <2>3. Placed(g, r) /\ Timely(r)
    BY <1>0, <2>1, <2>2 DEF Placed, Timely
  <2> QED
    BY <1>0, <2>1, <2>2, <2>3, CallGoesOn
<1>10. CASE GiveUp(g)
  <2>1. CASE call[g].step = "flight" /\ call[g].what # "tsm"
    <3>1. Retry(g, call[g].retryAt, call[g].hinted) /\ call[g].hinted <= now
          /\ UNCHANGED <<now, issued, cache, done, calls, faults>>
      BY <1>0, <1>10, <2>1 DEF GiveUp, Timely
    <3> QED
      BY <1>0, <2>1, <3>1, RetryInv
  <2>2. CASE ~(call[g].step = "flight" /\ call[g].what # "tsm")
    <3>1. Over(g) /\ UNCHANGED <<now, issued, cache, done, calls, faults>>
      BY <1>10, <2>2 DEF GiveUp
    <3> QED
      BY <1>0, <3>1, OverInv
  <2> QED
    BY <2>1, <2>2
<1> QED
  BY <1>1, <1>2, <1>3, <1>4, <1>5, <1>6, <1>7, <1>8, <1>9, <1>10 DEF Runs

\* Time passes only while nobody can go on, and no request outlasts its timeout.
LEMMA TickInv == IInv /\ Tick => IInv'
<1> SUFFICES ASSUME IInv, Tick PROVE IInv'
  OBVIOUS
<1>1. /\ now \in Nat /\ now' = now + 1 /\ cache.until \in Nat
      /\ UNCHANGED <<issued, cache, holder, call, done, calls, faults>>
  BY DEF IInv, TypeOK, Tick
<1>2. TypeOK'
  BY <1>1 DEF IInv, TypeOK
<1>3. CallsInOrder'
  <2> SUFFICES ASSUME NEW g \in All PROVE Placed(g, call[g]) /\ Timely(call[g])'
    BY <1>1 DEF CallsInOrder, Placed
  <2>1. /\ call[g].at \in Nat /\ call[g].hinted \in Nat /\ Placed(g, call[g]) /\ Timely(call[g])
        /\ call[g].step = "flight" => now < call[g].at + Timeout
    BY CallFacts DEF Tick
  <2>2. Timely(call[g])'
    BY <1>1, <2>1, Bounds DEF Timely
  <2> QED
    BY <2>1, <2>2
<1>4. LockedWhileFetching'
  <2>1. Fresh' => Fresh
    BY <1>1, Bounds DEF Fresh
  <2> QED
    BY <1>1, <2>1 DEF IInv, LockedWhileFetching
<1>5. CacheBacked'
  BY <1>1 DEF IInv, CacheBacked
<1> QED
  BY <1>2, <1>3, <1>4, <1>5 DEF IInv

\* A context that is done changes nothing until the call looks at it.
LEMMA CancelInv ==
  ASSUME IInv, NEW g \in All, Cancel(g)
  PROVE  IInv'
<1>1. /\ done' = done \cup {g} /\ faults' = faults + 1
      /\ UNCHANGED <<now, issued, cache, holder, call, calls>>
  BY DEF Cancel, Fault
<1>2. TypeOK'
  BY <1>1 DEF IInv, TypeOK
<1>3. CallsInOrder' /\ LockedWhileFetching' /\ CacheBacked'
  BY <1>1 DEF IInv, CallsInOrder, Placed, Timely, LockedWhileFetching, Fresh, CacheBacked
<1> QED
  BY <1>2, <1>3 DEF IInv

\* Nobody has called at first.
LEMMA InitInv == Init => IInv
<1> SUFFICES ASSUME Init PROVE IInv
  OBVIOUS
<1>1. /\ now = 1 /\ issued = <<>> /\ holder = Nobody /\ done = {} /\ calls = 0 /\ faults = 0
      /\ cache.token = None /\ cache \in [token : Nat, until : Nat]
  BY DEF Init, None
<1>2. call \in [All -> CallRecord] /\ \A g \in All : call[g] = Idle
  BY NewCalls DEF Init
<1>3. TypeOK
  BY <1>1, <1>2 DEF TypeOK
<1>4. CallsInOrder
  BY <1>2, NewCalls DEF CallsInOrder, Placed, Timely
<1>5. LockedWhileFetching
  BY <1>1, <1>2, NewCalls, Bounds DEF LockedWhileFetching
<1>6. CacheBacked
  BY <1>1 DEF CacheBacked
<1> QED
  BY <1>3, <1>4, <1>5, <1>6 DEF IInv

\* Every step keeps the invariant.
LEMMA NextInv == IInv /\ [Next]_vars => IInv'
<1> SUFFICES ASSUME IInv, [Next]_vars PROVE IInv'
  OBVIOUS
<1>1. CASE UNCHANGED vars
  BY <1>1 DEF vars, IInv, TypeOK, CallsInOrder, Placed, Timely, LockedWhileFetching, Fresh,
              CacheBacked
<1>2. ASSUME NEW g \in All, Runs(g)
      PROVE  IInv'
  BY <1>2, AcquireInv, TokenIssuedInv, RequestInv
<1> QED
  BY <1>1, <1>2, TickInv, StartInv, CancelInv DEF Next

\* The inductive invariant of the requests.
LEMMA Invariance == Spec => []IInv
  BY InitInv, NextInv, PTL DEF Spec

-----------------------------------------------------------------------------
(* The theorems *)

\* The client's state keeps its types, for any callers and bounds.
THEOREM TypeCorrect == Spec => []TypeOK
<1>1. IInv => TypeOK
  BY DEF IInv
<1> QED
  BY <1>1, Invariance, PTL

\* Within one call no request is sent before the time the server asked for in
\* any earlier answer (blizzard_api_client.go, do; tsm_client.go, getWithRetry).
THEOREM HintsAreHonoured == Spec => []RetryAfterHonoured
<1>1. IInv => RetryAfterHonoured
  BY DEF IInv, CallsInOrder, Timely, RetryAfterHonoured
<1> QED
  BY <1>1, Invariance, PTL

\* A step that changes the cache is the answer with a token.
LEMMA CacheChanges ==
  ASSUME [Next]_vars, cache' # cache
  PROVE  \E c \in All : TokenIssued(c)
<1>1. ~UNCHANGED vars /\ ~Tick
  BY DEF vars, Tick
<1>2. PICK g \in All : Start(g) \/ Cancel(g) \/ Runs(g)
  BY <1>1 DEF Next
<1>3. ~Start(g) /\ ~Cancel(g)
  BY DEF Start, Cancel
<1>4. TokenIssued(g)
  BY <1>2, <1>3 DEF Runs, Acquire, Send, Answered, TokenRefused, NetworkError, Rejected, Throttled,
                    ThrottledWithHint, TSMThrottledWithHint, ToldTimeOver, PauseOver, GiveUp
<1> QED
  BY <1>4

\* A token is only ever fetched when there is none or the cached one is about
\* to expire: of callers that queued up behind a refresh, none repeats it
\* (blizzard_api_client.go, tokenFor).
THEOREM RefreshesAreDue == Spec => RefreshedOnlyWhenDue
<1>1. IInv /\ [Next]_vars
        => [cache' # cache => cache.token = None \/ cache.until - now <= Margin]_vars
  BY CacheChanges, TokenIssuedInv
<1> QED
  BY <1>1, Invariance, PTL DEF Spec, RefreshedOnlyWhenDue

\* A call gets its token by taking the cached one or with the answer to its
\* request for one; what else it does leaves it with the kind of call it has.
LEMMA TokenTaken ==
  ASSUME IInv, [Next]_vars, NEW c \in Caller, call[c].what # "api", call'[c].what = "api"
  PROVE  Acquire(c) \/ TokenIssued(c)
<1>0. c \in All /\ call \in [All -> CallRecord] /\ Idle.what # "api"
  BY Bounds, NewCalls DEF IInv, TypeOK
<1>1. call' # call
  OBVIOUS
<1>2. ~UNCHANGED vars /\ ~Tick
  BY <1>1 DEF vars, Tick
<1>3. PICK g \in All : Start(g) \/ Cancel(g) \/ Runs(g)
  BY <1>2 DEF Next
<1>4. ~Cancel(g)
  BY <1>1 DEF Cancel
<1>5. \E r : Set(g, r)
  BY <1>3, <1>4 DEF Runs, Start, Acquire, TokenIssued, Send, Answered, TokenRefused, NetworkError,
                    Rejected, Throttled, ThrottledWithHint, TSMThrottledWithHint, ToldTimeOver,
                    PauseOver, GiveUp, Over, Retry
<1>6. g = c
  BY <1>0, <1>5 DEF Set
<1>7. \A r : Set(c, r) => call'[c] = r
  BY <1>0 DEF Set
<1>8. ~Start(c)
  BY <1>0, <1>7, NewCalls DEF Start, Idle
<1>9. ~Over(c) /\ \A retryAt, hinted : ~Retry(c, retryAt, hinted)
  <2>1. ~Over(c)
    BY <1>0, <1>7 DEF Over
  <2>2. ASSUME NEW retryAt, NEW hinted, Retry(c, retryAt, hinted), ~Exhausted(c)
        PROVE  FALSE
    <3> DEFINE r == [call[c] EXCEPT !.step = "pause", !.attempt = @ + 1,
                                    !.at = Delay(c, retryAt), !.retryAt = retryAt,
                                    !.hinted = hinted]
    <3>1. r.what = call[c].what
      BY <1>0 DEF CallRecord
    <3>2. Set(c, r)
      BY <2>2 DEF Retry
    <3> HIDE DEF r
    <3> QED
      BY <1>7, <3>1, <3>2
  <2> QED
    BY <2>1, <2>2 DEF Retry
<1>10. ~Send(c) /\ ~PauseOver(c)
  BY <1>0, <1>7 DEF Send, PauseOver, CallRecord
<1>11. \A hint : ~TSMThrottledWithHint(c, hint)
  BY <1>0, <1>7 DEF TSMThrottledWithHint, CallRecord
<1> QED
  BY <1>3, <1>4, <1>6, <1>8, <1>9, <1>10, <1>11
     DEF Runs, Answered, TokenRefused, NetworkError, Rejected, Throttled, ThrottledWithHint,
         ToldTimeOver, GiveUp

\* When a call gets its token, the token is accepted for the margin, less what
\* the client cannot know: how long the answer with the token took
\* (blizzard_api_client.go, tokenFor).
THEOREM TokensAreAlive == Spec => TokenGivenAlive
<1>1. IInv /\ [Next]_vars
        => [\A c \in Caller :
              call[c].what # "api" /\ call'[c].what = "api"
                => issued'[call'[c].token] > now + Margin - Timeout]_vars
  <2> SUFFICES ASSUME IInv, [Next]_vars, NEW c \in Caller, call[c].what # "api",
                      call'[c].what = "api"
               PROVE  issued'[call'[c].token] > now + Margin - Timeout
    OBVIOUS
  <2>1. c \in All
    BY Bounds
  <2> QED
    BY <2>1, TokenTaken, AcquireInv, TokenIssuedInv
<1> QED
  BY <1>1, Invariance, PTL DEF Spec, TokenGivenAlive

=============================================================================
