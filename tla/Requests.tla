------------------------------- MODULE Requests -------------------------------
(***************************************************************************)
(* How requests are made: the OAuth token cache and the retry loop of      *)
(* internal/scraper/blizzard_api_client.go (apiRequest, tokenFor, do), for *)
(* goroutines that share one client, and getWithRetry of                   *)
(* internal/scraper/tsm_client.go beside it.                               *)
(*                                                                         *)
(* Abstractions.  Time is in seconds.  The wait for a slot of the limiter  *)
(* (module RateLimiter) takes none.  A token is its number in issued.  The *)
(* server decides about a request at some instant while it is in flight,   *)
(* so its clock and the client's may differ by the latency.                *)
(***************************************************************************)
EXTENDS Integers, Sequences, FiniteSetsExt

CONSTANTS
  Caller,     \* goroutines that use the Blizzard client
  TSMCaller,  \* goroutines of the TSM loop, each with a client of its own
  Nobody,     \* stands for no goroutine
  Lifetime,   \* expires_in of a token
  Margin,     \* how early it is refreshed: one minute
  Timeout,    \* RequestTimeout of the HTTP client
  LastAttempt,  \* the number of the last attempt, counted from 0: 3
  Hints,      \* Retry-After values in seconds; a date in the past is 0
  StartBy,    \* bound: no call begins later
  MaxCalls,   \* bound: calls that begin
  MaxTime,    \* bound: the clock stops here
  MaxFaults   \* bound: failed requests and cancellations

ASSUME RequestsAssumption ==
  /\ Caller \cap TSMCaller = {} /\ Nobody \notin Caller \cup TSMCaller
  /\ {Lifetime, Margin, Timeout, LastAttempt, StartBy, MaxCalls, MaxTime, MaxFaults} \subseteq Nat
  /\ Hints \subseteq Nat
  /\ Lifetime > Margin

All == Caller \cup TSMCaller
None == 0        \* no token; the zero time

VARIABLES
  now,     \* the clock
  issued,  \* issued[k]: when the server ceases to accept token k
  cache,   \* c.token and c.tokenExpires
  holder,  \* who holds c.mu
  call,    \* call[g]: the call goroutine g is in
  done,    \* goroutines whose context is done
  calls, faults  \* how much of the two bounds is used

vars == <<now, issued, cache, holder, call, done, calls, faults>>

Idle == [what |-> "none", step |-> "none", attempt |-> 0, at |-> 0,
         retryAt |-> None, hinted |-> 0, token |-> None]

\* A do that begins; at is when a pause ends or when a request was sent.
Begin(what, token) == [Idle EXCEPT !.what = what, !.step = "send", !.token = token]

Set(g, record) == call' = [call EXCEPT ![g] = record]

Fault == faults < MaxFaults /\ faults' = faults + 1

\* The delay before attempt n.
Backoff(n) == 2 ^ (n - 1)

-----------------------------------------------------------------------------
(* tokenFor *)

Start(c) ==
  /\ call[c].what = "none" /\ now <= StartBy /\ calls < MaxCalls
  /\ calls' = calls + 1
  /\ IF c \in Caller THEN Set(c, [Idle EXCEPT !.what = "lock"])
                     ELSE Set(c, Begin("tsm", None))
  /\ UNCHANGED <<now, issued, cache, holder, done, faults>>

Fresh == cache.token # None /\ cache.until - now > Margin

\* Mutant: the cache is not looked at again once the lock is held.
Acquire_NoRecheck(c) ==
  /\ call[c].what = "lock" /\ holder = Nobody
  /\ Set(c, Begin("oauth", None)) /\ holder' = c
  /\ UNCHANGED <<now, issued, cache, done, calls, faults>>

\* The lock is free: a cached token is taken, or fetched with the lock held.
Acquire(c) ==
  /\ call[c].what = "lock" /\ holder = Nobody
  /\ IF Fresh
     THEN Set(c, Begin("api", cache.token)) /\ UNCHANGED holder
     ELSE Set(c, Begin("oauth", None)) /\ holder' = c
  /\ UNCHANGED <<now, issued, cache, done, calls, faults>>

TokenIssued(c) ==
  /\ call[c].what = "oauth" /\ call[c].step = "flight"
  /\ \E since \in call[c].at..now : issued' = Append(issued, since + Lifetime)
  /\ cache' = [token |-> Len(issued) + 1, until |-> now + Lifetime]
  /\ holder' = Nobody
  /\ Set(c, Begin("api", Len(issued) + 1))
  /\ UNCHANGED <<now, done, calls, faults>>

\* Mutant: an error return that forgets the lock.
Unlocked_OnSuccessOnly(g) == holder

\* The deferred unlock.
Unlocked(g) == IF holder = g THEN Nobody ELSE holder

\* The call of g ends: with an error, or with the answer to its API request.
Over(g) == Set(g, Idle) /\ holder' = Unlocked(g)

-----------------------------------------------------------------------------
(* do and getWithRetry *)

\* The HTTP client sends nothing on a context that is done.
Send(g) ==
  /\ call[g].step = "send" /\ g \notin done
  /\ Set(g, [call[g] EXCEPT !.step = "flight", !.at = now])
  /\ UNCHANGED <<now, issued, cache, holder, done, calls, faults>>

\* 2xx or 304; the API accepts a token while it lives.
Answered(g) ==
  /\ call[g].step = "flight" /\ call[g].what \in {"api", "tsm"}
  /\ call[g].what = "api" => issued[call[g].token] > call[g].at
  /\ Over(g)
  /\ UNCHANGED <<now, issued, cache, done, calls, faults>>

Exhausted(g) == call[g].attempt = LastAttempt

\* Mutant: the backoff alone.
Delay_Backoff(g, retryAt) == now + Backoff(call[g].attempt + 1)

\* When the next attempt is due.
Delay(g, retryAt) == Max({now + Backoff(call[g].attempt + 1), retryAt})

\* Both loops: the next attempt after its delay, if there is one.
Retry(g, retryAt, hinted) ==
  IF Exhausted(g) THEN Over(g)
  ELSE /\ Set(g, [call[g] EXCEPT !.step = "pause", !.attempt = @ + 1, !.at = Delay(g, retryAt),
                                 !.retryAt = retryAt, !.hinted = hinted])
       /\ UNCHANGED holder

\* No answer, at the latest when the HTTP client's timeout ends the request.
\* do keeps the Retry-After of an earlier answer.
NetworkError(g) ==
  /\ call[g].step = "flight" /\ Fault
  /\ Retry(g, call[g].retryAt, call[g].hinted)
  /\ UNCHANGED <<now, issued, cache, done, calls>>

\* 401, which is not retried; the cache is left alone.
TokenRefused(g) ==
  /\ call[g].step = "flight" /\ call[g].what = "api"
  /\ issued[call[g].token] <= now
  /\ Over(g)
  /\ UNCHANGED <<now, issued, cache, done, calls, faults>>

\* Any other answer that is not retried, and a token body that does not decode.
Rejected(g) ==
  /\ call[g].step = "flight" /\ Fault
  /\ Over(g)
  /\ UNCHANGED <<now, issued, cache, done, calls>>

\* 429 or 5xx without a Retry-After that parses.
Throttled(g) ==
  /\ call[g].step = "flight" /\ Fault
  /\ Retry(g, None, call[g].hinted)
  /\ UNCHANGED <<now, issued, cache, done, calls>>

\* 429 or 5xx with Retry-After.
ThrottledWithHint(g, hint) ==
  /\ call[g].step = "flight" /\ call[g].what # "tsm" /\ Fault
  /\ Retry(g, now + hint, now + hint)
  /\ UNCHANGED <<now, issued, cache, done, calls>>

\* getWithRetry waits for Retry-After first, even after its last attempt.
TSMThrottledWithHint(g, hint) ==
  /\ call[g].step = "flight" /\ call[g].what = "tsm" /\ Fault
  /\ Set(g, [call[g] EXCEPT !.step = "told", !.at = now + hint, !.hinted = now + hint])
  /\ UNCHANGED <<now, issued, cache, holder, done, calls>>

ToldTimeOver(g) ==
  /\ call[g].step = "told" /\ now >= call[g].at /\ g \notin done
  /\ Retry(g, None, call[g].hinted)
  /\ UNCHANGED <<now, issued, cache, done, calls, faults>>

PauseOver(g) ==
  /\ call[g].step = "pause" /\ now >= call[g].at /\ g \notin done
  /\ Set(g, [call[g] EXCEPT !.step = "send"])
  /\ UNCHANGED <<now, issued, cache, holder, done, calls, faults>>

-----------------------------------------------------------------------------
(* Contexts and time *)

Cancel(g) ==
  /\ g \notin done /\ Fault
  /\ done' = done \cup {g}
  /\ UNCHANGED <<now, issued, cache, holder, call, calls>>

\* A timer's select, the limiter or the HTTP client sees that the context is
\* done.  The wait for the lock does not; nor, in do, does a failed request.
GiveUp(g) ==
  /\ g \in done /\ call[g].step \in {"pause", "told", "send", "flight"}
  /\ IF call[g].step = "flight" /\ call[g].what # "tsm"
     THEN Retry(g, call[g].retryAt, call[g].hinted)
     ELSE Over(g)
  /\ UNCHANGED <<now, issued, cache, done, calls, faults>>

\* Neither a timer nor the lock holds g back.
Runnable(g) ==
  \/ call[g].step = "send"
  \/ call[g].step \in {"pause", "told"} /\ now >= call[g].at
  \/ call[g].what = "lock" /\ holder = Nobody

\* Nobody is kept waiting for nothing, and a request does not outlast its
\* timeout.
Tick ==
  /\ now < MaxTime
  /\ \A g \in All : ~Runnable(g) /\ (call[g].step = "flight" => now < call[g].at + Timeout)
  /\ now' = now + 1
  /\ UNCHANGED <<issued, cache, holder, call, done, calls, faults>>

-----------------------------------------------------------------------------

Init ==
  /\ now = 1
  /\ issued = <<>>
  /\ cache = [token |-> None, until |-> None]
  /\ holder = Nobody
  /\ call = [g \in All |-> Idle]
  /\ done = {}
  /\ calls = 0 /\ faults = 0

Runs(g) ==
  \/ Acquire(g) \/ TokenIssued(g) \/ Send(g)
  \/ Answered(g) \/ TokenRefused(g) \/ NetworkError(g) \/ Rejected(g) \/ Throttled(g)
  \/ \E hint \in Hints : ThrottledWithHint(g, hint) \/ TSMThrottledWithHint(g, hint)
  \/ ToldTimeOver(g) \/ PauseOver(g) \/ GiveUp(g)

Next == Tick \/ \E g \in All : Start(g) \/ Cancel(g) \/ Runs(g)

Spec == Init /\ [][Next]_vars

\* Time passes, timers fire, requests end by their timeout, and a lock that is
\* free is taken.
FairSpec ==
  /\ Spec /\ WF_vars(Tick)
  /\ \A g \in All : WF_vars(Runs(g))

-----------------------------------------------------------------------------
(* Properties *)

\* A token is only ever fetched when there is none or the cached one is about
\* to expire: of callers that queued up behind a refresh, none repeats it.
RefreshedOnlyWhenDue ==
  [][cache' # cache => cache.token = None \/ cache.until - now <= Margin]_vars

\* Within one call no request is sent before the time the server asked for in
\* any earlier answer, through all the network errors in between.
RetryAfterHonoured ==
  \A g \in All : call[g].step = "flight" => call[g].at >= call[g].hinted

\* When a call gets its token, the token is accepted for the margin, less what
\* the client cannot know: how long the answer with the token took.
TokenGivenAlive ==
  [][\A c \in Caller :
       call[c].what # "api" /\ call'[c].what = "api"
         => issued'[call'[c].token] > now + Margin - Timeout]_vars

\* Every call ends, whatever fails and whoever is cancelled: the lock held over
\* a token request with its retries is always given back.
CallsEnd == \A g \in All : call[g].what # "none" ~> call[g].what = "none"

=============================================================================
