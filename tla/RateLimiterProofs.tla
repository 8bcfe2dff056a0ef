-------------------------- MODULE RateLimiterProofs --------------------------
(***************************************************************************)
(* Proofs about the rate limiter, for any callers, interval and bounds.    *)
(***************************************************************************)
EXTENDS RateLimiter, FiniteSetTheorems, TLAPS

-----------------------------------------------------------------------------
(* Type correctness *)

\* The slots a caller may get are times.
LEMMA ReadyAtTyped ==
  TypeOK => ReadyAt \in Nat /\ ReadyAt >= now /\ ReadyAt >= next
  BY LimiterAssumption DEF TypeOK, ReadyAt

\* A critical section keeps the types.
LEMMA ReserveTyped ==
  ASSUME TypeOK, NEW c \in Caller, Reserve(c)
  PROVE  TypeOK'
<1>1. /\ ReadyAt \in 0..MaxTime
      /\ Len(handed) \in Nat /\ Len(handed) < MaxSlots
  BY ReadyAtTyped, LimiterAssumption DEF Reserve, TypeOK
<1>2. next' \in 0..(MaxTime + Interval)
  BY <1>1, LimiterAssumption DEF Reserve, FollowingSlot
<1>3. handed' \in Seq(0..MaxTime) /\ Len(handed') = Len(handed) + 1
  BY <1>1 DEF Reserve, TypeOK
<1>4. released' \subseteq 1..Len(handed')
  BY <1>1, <1>3 DEF Reserve, TypeOK
<1>5. caller' \in [Caller -> [at : {"outside", "reserved", "asleep"}, slot : 0..Len(handed')]]
  <2>1. [Caller -> [at : {"outside", "reserved", "asleep"}, slot : 0..Len(handed)]]
          \subseteq [Caller -> [at : {"outside", "reserved", "asleep"}, slot : 0..Len(handed')]]
    BY <1>1, <1>3
  <2>2. Ticket \in 0..Len(handed')
    BY <1>1, <1>3 DEF Ticket
  <2> QED
    BY <2>1, <2>2 DEF Reserve, Become, TypeOK
<1>6. \A d \in Caller : caller'[d].at # "outside" => caller'[d].slot > 0
  BY <1>1 DEF Reserve, Become, Ticket, TypeOK
<1> QED
  BY <1>1, <1>2, <1>3, <1>4, <1>5, <1>6, LimiterAssumption DEF Reserve, TypeOK

\* Every step keeps the types.
LEMMA TypeStep == TypeOK /\ [Next]_vars => TypeOK'
<1> SUFFICES ASSUME TypeOK, [Next]_vars PROVE TypeOK'
  OBVIOUS
<1> USE LimiterAssumption
<1>1. CASE Tick
  BY <1>1 DEF Tick, TypeOK
<1>2. ASSUME NEW c \in Caller, Reserve(c) PROVE TypeOK'
  BY <1>2, ReserveTyped
<1>3. ASSUME NEW c \in Caller, Sleep(c) PROVE TypeOK'
  BY <1>3 DEF Sleep, Become, TypeOK
<1>4. ASSUME NEW c \in Caller, Return(c) PROVE TypeOK'
  <2>1. /\ caller[c] \in [at : {"outside", "reserved", "asleep"}, slot : 0..Len(handed)]
        /\ caller[c].at # "outside" /\ Len(handed) \in Nat
    BY <1>4 DEF Return, TypeOK
  <2>2. caller[c].slot \in 1..Len(handed)
    BY <2>1 DEF TypeOK
  <2>3. caller' \in [Caller -> [at : {"outside", "reserved", "asleep"}, slot : 0..Len(handed)]]
    BY <1>4, <2>1 DEF Return, Outside, TypeOK
  <2>4. \A d \in Caller : caller'[d].at # "outside" => caller'[d].slot > 0
    BY <1>4 DEF Return, Outside, TypeOK
  <2> QED
    BY <1>4, <2>2, <2>3, <2>4 DEF Return, TypeOK
<1>5. ASSUME NEW c \in Caller, Abandon(c) PROVE TypeOK'
  BY <1>5 DEF Abandon, Outside, TypeOK
<1>6. ASSUME NEW c \in Caller, Cancel(c) PROVE TypeOK'
  BY <1>6 DEF Cancel, TypeOK
<1>7. CASE UNCHANGED vars
  BY <1>7 DEF vars, TypeOK
<1> QED
  BY <1>1, <1>2, <1>3, <1>4, <1>5, <1>6, <1>7 DEF Next

\* The limiter's state keeps its types, and a caller inside Wait has a slot.
THEOREM TypeCorrect == Spec => []TypeOK
<1>1. Init => TypeOK
  BY LimiterAssumption DEF Init, TypeOK, Outside
<1> QED
  BY <1>1, TypeStep, PTL DEF Spec

-----------------------------------------------------------------------------
(* The slots *)

\* The next slot is one interval behind the last one, and a limiter that was
\* never used has none pending.
NextFollows ==
  /\ handed = <<>> => next = 0
  /\ handed # <<>> => next = handed[Len(handed)] + Interval

\* No slot is in the future without the one before it: the first one is due,
\* and slots that are not due follow each other without a gap.
Gapless ==
  /\ handed # <<>> => handed[1] <= now
  /\ \A i, k \in DOMAIN handed :
       i < k /\ handed[i + 1] > now => handed[k] = handed[i] + (k - i) * Interval

\* A request is only sent once its slot is due.
ReleasedDue == \A k \in released : handed[k] <= now

SlotsInv == NextFollows /\ SlotsPaced /\ Gapless /\ ReleasedDue

\* What the slots are, in terms of sequences.
LEMMA SlotsTyped ==
  TypeOK => /\ Len(handed) \in Nat /\ DOMAIN handed = 1..Len(handed)
            /\ \A k \in DOMAIN handed : handed[k] \in Nat
            /\ now \in Nat /\ next \in Nat /\ Interval \in Nat \ {0}
            /\ handed # <<>> => Len(handed) \in DOMAIN handed /\ 1 \in DOMAIN handed
  BY LimiterAssumption DEF TypeOK

\* The length of k intervals; hidden in the proofs, which only need the lemma.
Span(k) == k * Interval

\* What the proofs need of it: one interval more for one slot more.
LEMMA Spans ==
  /\ Interval \in Nat \ {0}
  /\ \A k \in Int : Span(k) \in Int /\ Span(k + 1) = Span(k) + Interval
  /\ \A k \in Nat : Span(k) \in Int /\ Span(k) >= 0
  /\ Span(0) = 0 /\ Span(1) = Interval
  BY LimiterAssumption DEF Span

\* Slots in terms of spans.
Paced == \A i, j \in 1..Len(handed) : i < j => handed[j] - handed[i] >= Span(j - i)

Chained ==
  \A i, k \in 1..Len(handed) :
    i < k /\ handed[i + 1] > now => handed[k] = handed[i] + Span(k - i)

\* The invariants say the same in spans.
LEMMA InSpans ==
  TypeOK => /\ SlotsPaced <=> Paced
            /\ Gapless <=> (handed # <<>> => handed[1] <= now) /\ Chained
<1> SUFFICES ASSUME TypeOK
             PROVE  /\ SlotsPaced <=> Paced
                    /\ Gapless <=> (handed # <<>> => handed[1] <= now) /\ Chained
  OBVIOUS
<1>1. DOMAIN handed = 1..Len(handed)
  BY SlotsTyped
<1>2. SlotsPaced <=> Paced
  BY ONLY <1>1 DEF SlotsPaced, Paced, Span
<1>3. Gapless <=> (handed # <<>> => handed[1] <= now) /\ Chained
  BY ONLY <1>1 DEF Gapless, Chained, Span
<1> QED
  BY <1>2, <1>3

\* A reservation appends one slot to those there are.
LEMMA Appended ==
  ASSUME TypeOK, NEW c \in Caller, Reserve(c)
  PROVE  /\ Len(handed') = Len(handed) + 1 /\ DOMAIN handed' = 1..(Len(handed) + 1)
         /\ \A k \in DOMAIN handed : k \in DOMAIN handed' /\ handed'[k] = handed[k]
         /\ handed'[Len(handed) + 1] = ReadyAt
         /\ handed' # <<>>
<1>1. handed \in Seq(Nat) /\ handed' = Append(handed, ReadyAt) /\ ReadyAt \in Nat
  BY ReadyAtTyped, LimiterAssumption DEF TypeOK, Reserve
<1> QED
  BY <1>1

\* A reservation keeps the slots paced.
LEMMA PacedReserved ==
  ASSUME TypeOK, NextFollows, Paced, NEW c \in Caller, Reserve(c)
  PROVE  Paced'
<1> DEFINE n == Len(handed)
<1>1. /\ n \in Nat /\ next \in Nat
      /\ \A k \in 1..n : handed[k] \in Nat
      /\ n > 0 => next = handed[n] + Interval
  BY SlotsTyped DEF NextFollows
<1>2. /\ Len(handed') = n + 1
      /\ \A k \in 1..n : handed'[k] = handed[k]
      /\ handed'[n + 1] = ReadyAt
  BY Appended, SlotsTyped
<1>3. ReadyAt \in Nat /\ ReadyAt >= next
  BY ReadyAtTyped
<1>4. \A i, j \in 1..n : i < j => handed[j] - handed[i] >= Span(j - i)
  BY DEF Paced
<1> HIDE DEF n
<1> SUFFICES ASSUME NEW i \in 1..(n + 1), NEW j \in 1..(n + 1), i < j
             PROVE  handed'[j] - handed'[i] >= Span(j - i)
  BY <1>2 DEF Paced
<1>5. CASE j <= n
  BY <1>1, <1>2, <1>4, <1>5
<1>6. CASE j = n + 1
  <2>1. /\ n \in 1..n /\ i \in 1..n /\ n - i \in Nat
        /\ handed'[i] = handed[i] /\ handed'[j] = ReadyAt
        /\ ReadyAt >= handed[n] + Interval
        /\ handed[n] \in Nat /\ handed[i] \in Nat
    BY <1>1, <1>2, <1>3, <1>6
  <2>2. handed[n] - handed[i] >= Span(n - i)
    <3>1. CASE i = n
      BY <2>1, <3>1, Spans
    <3>2. CASE i # n
      BY <1>1, <1>4, <2>1, <3>2
    <3> QED
      BY <3>1, <3>2
  <2>3. j - i = (n - i) + 1
    BY <1>1, <1>6
  <2>4. Span(j - i) = Span(n - i) + Interval /\ Span(n - i) \in Int /\ Interval \in Nat
    BY <2>1, <2>3, Spans
  <2>5. ReadyAt \in Nat
    BY <1>3
  <2> QED
    BY <2>1, <2>2, <2>4, <2>5
<1> QED
  BY <1>1, <1>5, <1>6

\* A reservation leaves no gap before a slot that is not due.
LEMMA ChainedReserved ==
  ASSUME TypeOK, NextFollows, Paced, Chained, NEW c \in Caller, Reserve(c)
  PROVE  Chained'
<1> DEFINE n == Len(handed)
<1>1. /\ n \in Nat /\ next \in Nat /\ now \in Nat /\ now' = now
      /\ \A k \in 1..n : handed[k] \in Nat
      /\ n > 0 => next = handed[n] + Interval
  BY SlotsTyped DEF NextFollows, Reserve
<1>2. /\ Len(handed') = n + 1
      /\ \A k \in 1..n : handed'[k] = handed[k]
      /\ handed'[n + 1] = ReadyAt
  BY Appended, SlotsTyped
<1>3. ReadyAt \in Nat /\ (ReadyAt > now => ReadyAt = next) /\ (next > now => ReadyAt > now)
  BY ReadyAtTyped, <1>1 DEF ReadyAt
<1>4. \A i, j \in 1..n : i < j => handed[j] - handed[i] >= Span(j - i)
  BY DEF Paced
<1>5. \A i, k \in 1..n :
        i < k /\ handed[i + 1] > now => handed[k] = handed[i] + Span(k - i)
  BY DEF Chained
<1> HIDE DEF n
<1> SUFFICES ASSUME NEW i \in 1..(n + 1), NEW k \in 1..(n + 1), i < k, handed'[i + 1] > now
             PROVE  handed'[k] = handed'[i] + Span(k - i)
  BY <1>1, <1>2 DEF Chained
<1>6. CASE k <= n
  <2>1. i \in 1..n /\ k \in 1..n /\ i + 1 \in 1..n
    BY <1>1, <1>6
  <2> QED
    BY <1>2, <1>5, <2>1
<1>7. CASE k = n + 1
  <2>1. /\ n \in 1..n /\ i \in 1..n /\ n - i \in Nat
        /\ handed'[i] = handed[i] /\ handed'[k] = ReadyAt
        /\ handed[n] \in Nat /\ handed[i] \in Nat
    BY <1>1, <1>2, <1>7
  <2>2. /\ ReadyAt > now
        /\ handed[n] = handed[i] + Span(n - i)
    <3>1. CASE i = n
      <4>1. n - i = 0 /\ Span(n - i) = 0 /\ handed[n] = handed[n] + 0
        BY <2>1, <3>1, Spans
      <4> QED
        BY <1>2, <2>1, <3>1, <4>1
    <3>2. CASE i # n
      <4>1. i + 1 \in 1..n /\ handed[i + 1] > now /\ handed[i + 1] \in Nat /\ i < n
        BY <1>1, <1>2, <2>1, <3>2
      <4>2. handed[n] >= handed[i + 1]
        <5>1. CASE i + 1 = n
          BY <2>1, <5>1
        <5>2. CASE i + 1 # n
          <6>1. i + 1 < n /\ n - (i + 1) \in Nat
            BY <1>1, <4>1, <5>2
          <6>2. handed[n] - handed[i + 1] >= Span(n - (i + 1))
            BY <1>4, <2>1, <4>1, <6>1
          <6>3. Span(n - (i + 1)) \in Int /\ Span(n - (i + 1)) >= 0
            BY <6>1, Spans
          <6> QED
            BY <2>1, <4>1, <6>2, <6>3
        <5> QED
          BY <5>1, <5>2
      <4>3. next > now
        BY <1>1, <2>1, <4>1, <4>2, Spans
      <4> QED
        BY <1>3, <1>5, <2>1, <4>1, <4>3
    <3> QED
      BY <3>1, <3>2
  <2>3. ReadyAt = handed[n] + Interval
    BY <1>1, <1>3, <2>1, <2>2
  <2>4. k - i = (n - i) + 1
    BY <1>1, <1>7
  <2>5. Span(k - i) = Span(n - i) + Interval /\ Span(n - i) \in Int
    BY <2>1, <2>4, Spans
  <2> QED
    BY <2>1, <2>2, <2>3, <2>5, Spans
<1> QED
  BY <1>1, <1>6, <1>7

\* A reservation keeps what is known of the slots.
LEMMA SlotsReserved ==
  ASSUME TypeOK, SlotsInv, NEW c \in Caller, Reserve(c)
  PROVE  SlotsInv'
<1>1. TypeOK'
  BY ReserveTyped
<1>2. /\ Len(handed) \in Nat /\ now \in Nat /\ now' = now
      /\ DOMAIN handed = 1..Len(handed)
      /\ \A k \in 1..Len(handed) : handed'[k] = handed[k]
      /\ Len(handed') = Len(handed) + 1 /\ handed' # <<>>
      /\ handed'[Len(handed) + 1] = ReadyAt
  BY Appended, SlotsTyped DEF Reserve
<1>3. NextFollows'
  BY <1>2 DEF NextFollows, Reserve, FollowingSlot
<1>4. SlotsPaced'
  <2>1. Paced'
    BY PacedReserved, InSpans DEF SlotsInv
  <2> QED
    BY <1>1, <2>1, InSpans, PTL
<1>5. Gapless'
  <2>1. Chained'
    BY ChainedReserved, InSpans DEF SlotsInv
  <2>2. (handed # <<>> => handed[1] <= now)'
    <3>1. CASE handed = <<>>
      <4>1. Len(handed) = 0 /\ next = 0
        BY <3>1 DEF SlotsInv, NextFollows
      <4>2. ReadyAt = now
        BY <1>2, <4>1 DEF ReadyAt
      <4> QED
        BY <1>2, <4>1, <4>2
    <3>2. CASE handed # <<>>
      <4>1. 1 \in 1..Len(handed) /\ handed[1] <= now
        BY <1>2, <3>2, SlotsTyped DEF SlotsInv, Gapless
      <4> QED
        BY <1>2, <4>1
    <3> QED
      BY <3>1, <3>2
  <2> QED
    BY <1>1, <2>1, <2>2, InSpans, PTL
<1>6. ReleasedDue'
  BY <1>2 DEF SlotsInv, ReleasedDue, Reserve, TypeOK
<1> QED
  BY <1>3, <1>4, <1>5, <1>6 DEF SlotsInv

\* Every step does.
LEMMA SlotsStep == TypeOK /\ SlotsInv /\ [Next]_vars => SlotsInv'
<1> SUFFICES ASSUME TypeOK, SlotsInv, [Next]_vars PROVE SlotsInv'
  OBVIOUS
<1>1. ASSUME NEW c \in Caller, Reserve(c) PROVE SlotsInv'
  BY <1>1, SlotsReserved
<1>2. CASE Tick
  <2>1. /\ now \in Nat /\ now' = now + 1 /\ handed' = handed /\ next' = next /\ released' = released
        /\ DOMAIN handed = 1..Len(handed) /\ Len(handed) \in Nat
        /\ \A k \in DOMAIN handed : handed[k] \in Nat
    BY <1>2, SlotsTyped DEF Tick
  <2>2. NextFollows' /\ SlotsPaced'
    BY <2>1 DEF SlotsInv, NextFollows, SlotsPaced
  <2>3. Gapless'
    BY <2>1, SlotsTyped DEF SlotsInv, Gapless
  <2>4. ReleasedDue'
    BY <2>1 DEF SlotsInv, ReleasedDue, TypeOK
  <2> QED
    BY <2>2, <2>3, <2>4 DEF SlotsInv
<1>3. ASSUME NEW c \in Caller, Return(c) PROVE SlotsInv'
  <2>1. now' = now /\ handed' = handed /\ next' = next
    BY <1>3 DEF Return
  <2>2. NextFollows' /\ SlotsPaced' /\ Gapless'
    BY <2>1 DEF SlotsInv, NextFollows, SlotsPaced, Gapless
  <2>3. /\ released' = released \cup {caller[c].slot} /\ handed[caller[c].slot] <= now
    BY <1>3, SlotsTyped DEF Return, MayReturn, TypeOK
  <2> QED
    BY <2>1, <2>2, <2>3 DEF SlotsInv, ReleasedDue
<1>4. ASSUME NEW c \in Caller, Sleep(c) \/ Abandon(c) \/ Cancel(c) PROVE SlotsInv'
  BY <1>4 DEF Sleep, Abandon, Cancel, SlotsInv, NextFollows, SlotsPaced, Gapless, ReleasedDue
<1>5. CASE UNCHANGED vars
  BY <1>5 DEF vars, SlotsInv, NextFollows, SlotsPaced, Gapless, ReleasedDue
<1> QED
  BY <1>1, <1>2, <1>3, <1>4, <1>5 DEF Next

\* What is known of the slots holds always.
LEMMA SlotsAlways == Spec => [](TypeOK /\ SlotsInv)
<1>1. Init => SlotsInv
  BY DEF Init, SlotsInv, NextFollows, SlotsPaced, Gapless, ReleasedDue
<1> QED
  BY <1>1, TypeCorrect, SlotsStep, PTL DEF Spec

\* Slots are an interval apart in the order of Wait's critical sections, whoever
\* asks for them and when: k slots take k intervals.
THEOREM PacedSlots == Spec => []SlotsPaced
  BY SlotsAlways, PTL DEF SlotsInv

-----------------------------------------------------------------------------
(* What the API sees *)

\* Of n different numbers from 1 on, one is at least n.
LEMMA HighNumber ==
  ASSUME NEW S, IsFiniteSet(S), S \subseteq Nat \ {0}, S # {}
  PROVE  \E k \in S : k >= Cardinality(S)
<1> DEFINE n == Cardinality(S)
<1>1. n \in Nat /\ n # 0
  BY FS_CardinalityType, FS_EmptySet
<1>2. IsFiniteSet(1..(n - 1)) /\ Cardinality(1..(n - 1)) = n - 1
  <2> HIDE DEF n
  <2>1. n - 1 \in Int /\ 1 \in Int
    BY <1>1
  <2>2. /\ IsFiniteSet(1..(n - 1))
        /\ Cardinality(1..(n - 1)) = IF 1 > n - 1 THEN 0 ELSE (n - 1) - 1 + 1
    BY <2>1, FS_Interval
  <2> QED
    BY <1>1, <2>2
<1> SUFFICES ASSUME \A k \in S : ~(k >= n) PROVE FALSE
  OBVIOUS
<1>3. S \in SUBSET (1..(n - 1))
  <2> HIDE DEF n
  <2> QED
    BY <1>1
<1>4. n <= n - 1
  <2>1. Cardinality(S) <= Cardinality(1..(n - 1))
    BY <1>2, <1>3, FS_Subset
  <2> QED
    BY <1>2, <2>1
<1> HIDE DEF n
<1> QED
  BY <1>1, <1>4

\* A slot comes no earlier than the slots before it take.
LEMMA SlotNotEarly ==
  ASSUME TypeOK, SlotsPaced, NEW k \in DOMAIN handed
  PROVE  Span(k - 1) <= handed[k]
<1>1. /\ DOMAIN handed = 1..Len(handed) /\ Len(handed) \in Nat
      /\ k \in Nat /\ k >= 1 /\ 1 \in 1..Len(handed)
      /\ handed[k] \in Nat /\ handed[1] \in Nat
  BY SlotsTyped
<1>2. CASE k = 1
  BY <1>1, <1>2, Spans
<1>3. CASE k # 1
  <2>1. handed[k] - handed[1] >= Span(k - 1)
    BY <1>1, <1>3, InSpans DEF Paced
  <2>2. Span(k - 1) \in Int
    BY <1>1, Spans
  <2> QED
    BY <1>1, <2>1, <2>2
<1> QED
  BY <1>2, <1>3

\* More intervals are longer.
LEMMA SpanMonotonic ==
  ASSUME NEW m \in Nat, NEW n \in Nat, m <= n
  PROVE  Span(m) <= Span(n)
  BY LimiterAssumption DEF Span

\* When a new request is released, the ones before it took their time.
LEMMA ReleaseInBudget ==
  ASSUME TypeOK, SlotsInv, NEW c \in Caller, Return(c)
  PROVE  Budget!Send \/ UNCHANGED <<now, Cardinality(released)>>
<1> DEFINE k == caller[c].slot
<1>1. /\ k \in DOMAIN handed /\ handed[k] <= now
      /\ released' = released \cup {k} /\ now' = now
  BY SlotsTyped DEF Return, MayReturn, TypeOK
<1>2. IsFiniteSet(released) /\ Cardinality(released) \in Nat
  <2>1. IsFiniteSet(1..Len(handed)) /\ released \in SUBSET (1..Len(handed))
    BY SlotsTyped, FS_Interval DEF TypeOK
  <2>2. IsFiniteSet(released)
    BY <2>1, FS_Subset
  <2> QED
    BY <2>2, FS_CardinalityType
<1>3. CASE k \in released
  BY <1>1, <1>3
<1>4. CASE k \notin released
  <2>1. /\ IsFiniteSet(released')
        /\ Cardinality(released') = Cardinality(released) + 1
    BY <1>1, <1>2, <1>4, FS_AddElement
  <2>2. PICK m \in released' : m >= Cardinality(released')
    <3>1. released' \subseteq Nat \ {0} /\ released' # {}
      <4>1. released \subseteq 1..Len(handed) /\ k \in 1..Len(handed) /\ Len(handed) \in Nat
        BY <1>1, SlotsTyped DEF TypeOK
      <4>2. 1..Len(handed) \subseteq Nat \ {0}
        BY <4>1
      <4> HIDE DEF k
      <4> QED
        BY <1>1, <4>1, <4>2
    <3> QED
      BY <2>1, <3>1, HighNumber
  <2>3. m \in DOMAIN handed /\ handed[m] <= now /\ m \in Nat
    BY <1>1, SlotsTyped DEF SlotsInv, ReleasedDue, TypeOK
  <2>4. Span(m - 1) <= handed[m]
    BY <2>3, SlotNotEarly DEF SlotsInv
  <2>5. m - 1 \in Nat /\ Cardinality(released) <= m - 1
    BY <1>2, <2>1, <2>2, <2>3
  <2>6. Span(Cardinality(released)) <= Span(m - 1)
    BY <1>2, <2>5, SpanMonotonic
  <2>7. Span(Cardinality(released)) <= now
    <3>1. Span(Cardinality(released)) \in Int /\ Span(m - 1) \in Int
      BY <1>2, <2>5, Spans
    <3>2. handed[m] \in Nat /\ now \in Nat
      BY <2>3, SlotsTyped
    <3> QED
      BY <2>3, <2>4, <2>6, <3>1, <3>2
  <2> QED
    BY <1>1, <2>1, <2>7 DEF Budget!Send, Span
<1> QED
  BY <1>3, <1>4

\* The requests sent never exceed the budget, however many callers share the
\* limiter, whenever they come and whichever of them give up.
THEOREM BudgetKept == Spec => RequestsInBudget
<1>1. Init => Budget!Init
  BY LimiterAssumption, FS_EmptySet DEF Init, Budget!Init
<1>2. TypeOK /\ SlotsInv /\ [Next]_vars => [Budget!Next]_<<now, Cardinality(released)>>
  <2> SUFFICES ASSUME TypeOK, SlotsInv, [Next]_vars
               PROVE  Budget!Next \/ UNCHANGED <<now, Cardinality(released)>>
    OBVIOUS
  <2>1. CASE Tick
    BY <2>1 DEF Tick, Budget!Next, Budget!Tick
  <2>2. ASSUME NEW c \in Caller, Return(c)
        PROVE  Budget!Next \/ UNCHANGED <<now, Cardinality(released)>>
    BY <2>2, ReleaseInBudget DEF Budget!Next
  <2>3. ASSUME NEW c \in Caller, Reserve(c) \/ Sleep(c) \/ Abandon(c) \/ Cancel(c)
        PROVE  UNCHANGED <<now, Cardinality(released)>>
    BY <2>3 DEF Reserve, Sleep, Abandon, Cancel
  <2>4. CASE UNCHANGED vars
    BY <2>4 DEF vars
  <2> QED
    BY <2>1, <2>2, <2>3, <2>4 DEF Next
<1> QED
  BY <1>1, <1>2, SlotsAlways, PTL DEF Spec, RequestsInBudget, Budget!Spec

-----------------------------------------------------------------------------
(* How long a caller waits *)

\* The slots before k that last beyond this instant.
Pending(k) == {i \in 1..(k - 1) : handed[i] + Interval > now}

\* A set of numbers up to k that is closed upwards begins somewhere.
LEMMA FirstOfTail ==
  ASSUME NEW k \in Nat, NEW F \in SUBSET (1..k), k \in F, 1 \notin F,
         \A i, j \in 1..k : i < j /\ i \in F => j \in F
  PROVE  \E f \in 2..k : f \in F /\ f - 1 \notin F
<1> DEFINE m == Cardinality(F)
           f == k - m + 1
<1>1. /\ IsFiniteSet(F) /\ m \in Nat /\ m <= k /\ m # 0
  <2>1. IsFiniteSet(1..k) /\ Cardinality(1..k) = k
    <3>1. 1 \in Int /\ k \in Int /\ k >= 1
      OBVIOUS
    <3>2. IsFiniteSet(1..k) /\ Cardinality(1..k) = IF 1 > k THEN 0 ELSE k - 1 + 1
      BY <3>1, FS_Interval
    <3> QED
      BY <3>1, <3>2
  <2>2. IsFiniteSet(F) /\ m <= k
    BY <2>1, FS_Subset
  <2>3. F # {}
    OBVIOUS
  <2> QED
    BY <2>2, <2>3, FS_CardinalityType, FS_EmptySet
<1>2. f \in 1..k
  <2> HIDE DEF m
  <2> QED
    BY <1>1
<1>3. f \in F
  <2> SUFFICES ASSUME f \notin F PROVE FALSE
    OBVIOUS
  <2>1. F \in SUBSET ((f + 1)..k)
    <3> HIDE DEF m
    <3> SUFFICES ASSUME NEW i \in F, ~(i >= f + 1) PROVE FALSE
      BY <1>1, <1>2
    <3>1. i \in 1..k /\ i # f /\ i < f
      BY <1>1, <1>2
    <3> QED
      BY <1>2, <3>1
  <2>2. IsFiniteSet((f + 1)..k) /\ Cardinality((f + 1)..k) = m - 1
    <3> HIDE DEF m
    <3>1. f + 1 \in Int /\ k \in Int
      BY <1>2
    <3>2. /\ IsFiniteSet((f + 1)..k)
          /\ Cardinality((f + 1)..k) = IF f + 1 > k THEN 0 ELSE k - (f + 1) + 1
      BY <3>1, FS_Interval
    <3> QED
      BY <1>1, <1>2, <3>2
  <2>3. m <= Cardinality((f + 1)..k)
    BY <2>1, <2>2, FS_Subset
  <2> HIDE DEF m
  <2> QED
    BY <1>1, <2>2, <2>3
<1>4. f - 1 \notin F
  <2> SUFFICES ASSUME f - 1 \in F PROVE FALSE
    OBVIOUS
  <2>1. (f - 1)..k \in SUBSET F
    <3> HIDE DEF m
    <3>1. f - 1 \in 1..k
      OBVIOUS
    <3> SUFFICES ASSUME NEW i \in (f - 1)..k PROVE i \in F
      OBVIOUS
    <3>2. i \in 1..k
      BY <1>1, <3>1
    <3> QED
      BY <1>1, <3>1, <3>2
  <2>2. Cardinality((f - 1)..k) = m + 1
    <3> HIDE DEF m
    <3>1. f - 1 \in Int /\ k \in Int
      BY <1>2
    <3>2. Cardinality((f - 1)..k) = IF f - 1 > k THEN 0 ELSE k - (f - 1) + 1
      BY <3>1, FS_Interval
    <3> QED
      BY <1>1, <1>2, <3>2
  <2>3. Cardinality((f - 1)..k) <= m
    BY <1>1, <2>1, FS_Subset
  <2> HIDE DEF m
  <2> QED
    BY <1>1, <2>2, <2>3
<1>5. f \in 2..k
  <2> HIDE DEF m
  <2> QED
    BY <1>1, <1>2, <1>3
<1> HIDE DEF f
<1> QED
  BY <1>3, <1>4, <1>5

\* The slots from the last one that is due up to the one before k last beyond
\* this instant, and k comes right behind them.
LEMMA WaitOfSlot ==
  ASSUME TypeOK, SlotsInv, NEW k \in DOMAIN handed
  PROVE  handed[k] - now <= Span(Cardinality(Pending(k)))
<1>1. /\ DOMAIN handed = 1..Len(handed) /\ Len(handed) \in Nat /\ now \in Nat
      /\ k \in 1..Len(handed) /\ k \in Nat /\ k >= 1 /\ 1 \in 1..Len(handed)
      /\ Interval \in Nat \ {0}
      /\ \A i \in 1..Len(handed) : handed[i] \in Nat
  BY SlotsTyped
<1>2. IsFiniteSet(Pending(k)) /\ Cardinality(Pending(k)) \in Nat
  <2>1. k - 1 \in Int /\ 1 \in Int
    BY <1>1
  <2>2. IsFiniteSet(1..(k - 1)) /\ Pending(k) \in SUBSET (1..(k - 1))
    BY <2>1, FS_Interval DEF Pending
  <2>3. IsFiniteSet(Pending(k))
    BY <2>2, FS_Subset
  <2> QED
    BY <2>3, FS_CardinalityType
<1>3. /\ Span(Cardinality(Pending(k))) \in Int
      /\ Span(Cardinality(Pending(k))) >= 0
  BY <1>2, Spans
<1>4. CASE handed[k] <= now
  BY <1>1, <1>3, <1>4
<1>5. CASE handed[k] > now
  <2>1. \A i, j \in 1..Len(handed) : i < j /\ handed[i] > now => handed[j] > now
    <3> SUFFICES ASSUME NEW i \in 1..Len(handed), NEW j \in 1..Len(handed),
                        i < j, handed[i] > now
                 PROVE  handed[j] > now
      OBVIOUS
    <3>1. handed[j] - handed[i] >= Span(j - i)
      BY InSpans DEF SlotsInv, Paced
    <3>2. Span(j - i) \in Int /\ Span(j - i) >= 0
      <4>1. j - i \in Nat
        BY <1>1
      <4> QED
        BY <4>1, Spans
    <3> QED
      BY <1>1, <3>1, <3>2
  <2>2. PICK f \in 2..k : handed[f] > now /\ ~(handed[f - 1] > now)
    <3> DEFINE F == {i \in 1..k : handed[i] > now}
    <3>1. handed[1] <= now
      BY <1>1, SlotsTyped DEF SlotsInv, Gapless
    <3>2. F \in SUBSET (1..k) /\ k \in F /\ 1 \notin F
      BY <1>1, <1>5, <3>1
    <3>3. \A i, j \in 1..k : i < j /\ i \in F => j \in F
      BY <1>1, <2>1
    <3>4. \E f \in 2..k : f \in F /\ f - 1 \notin F
      <4> HIDE DEF F
      <4> QED
        BY <1>1, <3>2, <3>3, FirstOfTail
    <3> QED
      BY <1>1, <3>4
  <2>3. /\ f \in 1..Len(handed) /\ f - 1 \in 1..Len(handed) /\ f - 1 < k /\ (f - 1) + 1 = f
        /\ f <= k /\ f \in Nat /\ k - (f - 1) \in Nat /\ k - 1 \in Int
    BY <1>1
  <2>4. handed[k] = handed[f - 1] + Span(k - (f - 1))
    BY <1>1, <2>2, <2>3, InSpans DEF SlotsInv, Chained
  <2>5. handed[f] = handed[f - 1] + Interval
    <3>1. f - 1 < f /\ f - (f - 1) = 1
      BY <2>3
    <3>2. handed[f] = handed[f - 1] + Span(f - (f - 1))
      BY <2>2, <2>3, <3>1, InSpans DEF SlotsInv, Chained
    <3> QED
      BY <3>1, <3>2, Spans
  <2>6. (f - 1)..(k - 1) \in SUBSET Pending(k)
    <3> SUFFICES ASSUME NEW i \in (f - 1)..(k - 1)
                 PROVE  i \in 1..(k - 1) /\ handed[i] + Interval > now
      BY DEF Pending
    <3>1. i \in 1..(k - 1) /\ i \in 1..Len(handed)
      BY <1>1, <2>3
    <3>2. CASE i = f - 1
      BY <2>2, <2>5, <3>1, <3>2
    <3>3. CASE i # f - 1
      <4>1. i = f \/ f < i
        BY <2>3, <3>1, <3>3
      <4>2. handed[i] > now
        BY <2>1, <2>2, <2>3, <3>1, <4>1
      <4> QED
        BY <1>1, <3>1, <4>2
    <3> QED
      BY <3>2, <3>3
  <2>7. Cardinality((f - 1)..(k - 1)) = k - (f - 1)
    <3>1. f - 1 \in Int /\ k - 1 \in Int
      BY <2>3
    <3>2. Cardinality((f - 1)..(k - 1)) =
            IF f - 1 > k - 1 THEN 0 ELSE (k - 1) - (f - 1) + 1
      BY <3>1, FS_Interval
    <3> QED
      BY <1>1, <2>3, <3>2
  <2>8. k - (f - 1) <= Cardinality(Pending(k))
    BY <1>2, <2>6, <2>7, FS_Subset
  <2>9. Span(k - (f - 1)) <= Span(Cardinality(Pending(k)))
    BY <1>2, <2>3, <2>8, SpanMonotonic
  <2>10. Span(k - (f - 1)) \in Int /\ handed[f - 1] \in Nat
    BY <1>1, <2>3, Spans
  <2> QED
    BY <1>1, <1>3, <2>2, <2>4, <2>9, <2>10
<1> QED
  BY <1>1, <1>4, <1>5

\* A caller of Wait never waits longer than the slots before its own that are
\* not over yet: a pause or a wait that was given up costs nothing else.
THEOREM WaitsBounded == Spec => []WaitBounded
<1>1. TypeOK /\ SlotsInv => WaitBounded
  <2> SUFFICES ASSUME TypeOK, SlotsInv, NEW c \in Caller, caller[c].at # "outside"
               PROVE  handed[caller[c].slot] - now
                        <= Cardinality(Pending(caller[c].slot)) * Interval
    BY DEF WaitBounded, Pending
  <2>1. caller[c].slot \in DOMAIN handed
    BY SlotsTyped DEF TypeOK
  <2> QED
    BY <2>1, WaitOfSlot DEF Span
<1> QED
  BY <1>1, SlotsAlways, PTL

=============================================================================
