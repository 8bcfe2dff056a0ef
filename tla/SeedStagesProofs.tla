--------------------------- MODULE SeedStagesProofs ---------------------------
(***************************************************************************)
(* Proofs about the seeder, for any catalogues, page and batch sizes and   *)
(* any number of failures.                                                 *)
(*                                                                         *)
(* The first half is about data: what the folds over lists of any length   *)
(* compute.  Induction is taken from the well-foundedness of the naturals, *)
(* stated for sets of numbers; a recursive function is shown to exist, so  *)
(* that the one the fold chooses satisfies its equation.                   *)
(***************************************************************************)
EXTENDS SeedStages, FiniteSetTheorems, SequenceTheorems, WellFoundedInduction, TLAPS

-----------------------------------------------------------------------------
(* Numbers and finite sets *)

\* A set of natural numbers that is not empty has a least one.
LEMMA LeastNumber ==
  ASSUME NEW S \in SUBSET Nat, S # {}
  PROVE  \E m \in S : \A k \in S : m <= k
<1>1. PICK x \in S : \A y \in S : ~(<<y, x>> \in OpToRel(<, Nat))
  BY NatLessThanWellFounded, WFMin, Zenon
<1>2. \A y \in S : ~(y < x)
  BY <1>1 DEF OpToRel
<1> QED
  BY <1>2

\* Induction, for a set of numbers.
LEMMA Induction ==
  ASSUME NEW S, 0 \in S, \A n \in Nat : n \in S => n + 1 \in S
  PROVE  Nat \subseteq S
<1> DEFINE T == {n \in Nat : n \notin S}
<1> SUFFICES ASSUME T # {} PROVE FALSE
  OBVIOUS
<1>1. PICK m \in T : \A k \in T : m <= k
  BY LeastNumber
<1>2. m - 1 \in Nat /\ m - 1 \notin T
  BY <1>1
<1> QED
  BY <1>1, <1>2

\* Max finds the largest element of a finite set of numbers.
LEMMA MaxOfFinite ==
  ASSUME NEW S \in SUBSET Nat, IsFiniteSet(S), S # {}
  PROVE  Max(S) \in S /\ \A x \in S : x <= Max(S)
<1> DEFINE HasMax(f, n) == n = 0 \/ \E i \in 1..n : \A j \in 1..n : f[j] <= f[i]
           Bounded == {n \in Nat : \A f \in [1..n -> Nat] : HasMax(f, n)}
<1>1. 0 \in Bounded
  OBVIOUS
<1>2. ASSUME NEW n \in Nat, n \in Bounded PROVE n + 1 \in Bounded
  <2>1. ASSUME NEW f \in [1..(n + 1) -> Nat]
        PROVE  HasMax(f, n + 1)
    <3>0. /\ n + 1 \in 1..(n + 1) /\ \A j \in 1..(n + 1) : f[j] \in Nat
          /\ \A j \in 1..n : j \in 1..(n + 1)
          /\ \A j \in 1..(n + 1) : j \in 1..n \/ j = n + 1
      OBVIOUS
    <3>1. CASE n = 0
      BY <3>0, <3>1
    <3>2. CASE n # 0
      <4> DEFINE g == [i \in 1..n |-> f[i]]
      <4>1. g \in [1..n -> Nat]
        BY <3>0
      <4>2. PICK i \in 1..n : \A j \in 1..n : g[j] <= g[i]
        BY <1>2, <3>2, <4>1
      <4>3. \A j \in 1..n : f[j] <= f[i]
        BY <4>2
      <4>4. CASE f[n + 1] <= f[i]
        <5>1. \A j \in 1..(n + 1) : f[j] <= f[i]
          BY <3>0, <4>3, <4>4
        <5> QED
          BY <3>0, <5>1
      <4>5. CASE ~(f[n + 1] <= f[i])
        <5>1. \A j \in 1..(n + 1) : f[j] <= f[n + 1]
          <6>1. f[i] \in Nat /\ f[n + 1] \in Nat /\ f[i] <= f[n + 1]
            BY <3>0, <4>5
          <6> QED
            BY <3>0, <4>3, <6>1
        <5> QED
          BY <3>0, <5>1
      <4> QED
        BY <4>4, <4>5
    <3> QED
      BY <3>1, <3>2
  <2> HIDE DEF HasMax
  <2> QED
    BY <2>1
<1> HIDE DEF Bounded
<1>3. Nat \subseteq Bounded
  BY <1>1, <1>2, Induction
<1>4. PICK n \in Nat : ExistsBijection(1..n, S)
  BY FS_CardinalityType
<1>5. PICK f \in [1..n -> S] : \A x \in S : \E i \in 1..n : f[i] = x
  BY <1>4 DEF ExistsBijection, Bijection, Surjection, Injection
<1>6. n # 0 /\ f \in [1..n -> Nat]
  <2>1. PICK x \in S : TRUE
    OBVIOUS
  <2>2. PICK i \in 1..n : f[i] = x
    BY <1>5, <2>1
  <2>3. n # 0
    BY <2>2
  <2>4. f \in [1..n -> Nat]
    OBVIOUS
  <2> QED
    BY <2>3, <2>4
<1>7. PICK i \in 1..n : \A j \in 1..n : f[j] <= f[i]
  BY <1>3, <1>6 DEF Bounded
<1>8. f[i] \in S /\ \A x \in S : f[i] >= x
  BY <1>5, <1>6, <1>7
<1>9. Max(S) \in S /\ \A x \in S : Max(S) >= x
  BY <1>8 DEF Max
<1>10. Max(S) \in Nat
  BY <1>9
<1> QED
  BY <1>9, <1>10

\* A finite set as a sequence: each element once.
LEMMA SetToSeqMeaning ==
  ASSUME NEW S, IsFiniteSet(S)
  PROVE  /\ Cardinality(S) \in Nat
         /\ SetToSeq(S) \in [1..Cardinality(S) -> S]
         /\ SetToSeq(S) \in Seq(S)
         /\ Range(SetToSeq(S)) = S
<1> DEFINE n == Cardinality(S)
<1>1. n \in Nat /\ ExistsBijection(1..n, S)
  BY FS_CardinalityType
<1>2. \E f \in [1..n -> S] : IsInjective(f)
  BY <1>1 DEF ExistsBijection, Bijection, Injection, IsInjective
<1>3. SetToSeq(S) \in [1..n -> S] /\ IsInjective(SetToSeq(S))
  BY <1>2 DEF SetToSeq
<1>4. SetToSeq(S) \in Surjection(1..n, S)
  <2>1. SetToSeq(S) \in Injection(1..n, S)
    BY <1>3 DEF Injection, IsInjective
  <2>2. Cardinality(1..n) = n
    BY <1>1, FS_Interval
  <2> QED
    BY <1>1, <2>1, <2>2, FS_Injection
<1>5. Range(SetToSeq(S)) = S
  BY <1>3, <1>4 DEF Range, Surjection
<1>6. SetToSeq(S) \in Seq(S)
  BY <1>1, <1>3, SeqDef
<1> QED
  BY <1>1, <1>3, <1>5, <1>6

-----------------------------------------------------------------------------
(* Folds *)

\* The operators that are folded, by name.
Step(name, r, x) ==
  CASE name = "exec" -> ExecLoad(r, x)
    [] name = "first" -> KeepFirst(r, x)
    [] name = "required" -> AddRequired(r, x)
    [] name = "optional" -> AddOptional(r, x)

\* What the recursive function of a fold over n elements has to be.
IsFold(name, g, base, seq, n) ==
  g = [s \in SUBSET (1..n) |->
         IF s = {} THEN base ELSE Step(name, g[s \ {Max(s)}], seq[Max(s)])]

LEMMA MaxOfPrefix ==
  ASSUME NEW n \in Nat
  PROVE  /\ \A s \in SUBSET (1..(n + 1)) : n + 1 \in s => Max(s) = n + 1
         /\ n # 0 => Max(1..n) = n
<1>1. ASSUME NEW s \in SUBSET (1..(n + 1)), n + 1 \in s PROVE Max(s) = n + 1
  <2>0. 1 \in Int /\ n + 1 \in Int
    OBVIOUS
  <2>1. IsFiniteSet(1..(n + 1))
    BY <2>0, FS_Interval, Zenon
  <2>2. IsFiniteSet(s)
    BY <2>1, FS_Subset
  <2>3. s \in SUBSET Nat /\ s # {}
    BY <1>1
  <2>4. Max(s) \in s /\ \A x \in s : x <= Max(s)
    BY <2>2, <2>3, MaxOfFinite
  <2>5. Max(s) \in 1..(n + 1)
    BY <2>4
  <2>6. n + 1 <= Max(s)
    BY <1>1, <2>4
  <2> QED
    BY <2>5, <2>6
<1>2. ASSUME n # 0 PROVE Max(1..n) = n
  <2>1. IsFiniteSet(1..n) /\ 1..n \in SUBSET Nat /\ n \in 1..n
    BY <1>2, FS_Interval
  <2>2. Max(1..n) \in 1..n /\ \A x \in 1..n : x <= Max(1..n)
    BY <2>1, MaxOfFinite
  <2> QED
    BY <2>1, <2>2
<1> QED
  BY <1>1, <1>2

\* There is one, whatever is folded.
LEMMA FoldExists ==
  ASSUME NEW name, NEW base, NEW seq, NEW n \in Nat
  PROVE  \E g : IsFold(name, g, base, seq, n)
<1> DEFINE A == {k \in Nat : \E g : IsFold(name, g, base, seq, k)}
<1>1. 0 \in A
  <2> DEFINE g == [s \in {{}} |-> base]
  <2>1. SUBSET (1..0) = {{}}
    OBVIOUS
  <2>2. IsFold(name, g, base, seq, 0)
    BY <2>1 DEF IsFold
  <2> QED
    BY <2>2
<1>2. ASSUME NEW k \in Nat, k \in A PROVE k + 1 \in A
  <2>1. PICK g : IsFold(name, g, base, seq, k)
    BY <1>2
  <2> DEFINE h == [s \in SUBSET (1..(k + 1)) |->
                     IF k + 1 \in s THEN Step(name, g[s \ {k + 1}], seq[k + 1]) ELSE g[s]]
  <2>2. ASSUME NEW s \in SUBSET (1..(k + 1))
        PROVE  h[s] = IF s = {} THEN base ELSE Step(name, h[s \ {Max(s)}], seq[Max(s)])
    <3>1. CASE k + 1 \in s
      <4>1. s \ {k + 1} \in SUBSET (1..k) /\ s \ {k + 1} \in SUBSET (1..(k + 1))
        BY <3>1
      <4>2. h[s \ {k + 1}] = g[s \ {k + 1}]
        BY <4>1
      <4> QED
        BY <3>1, <4>2, MaxOfPrefix
    <3>2. CASE k + 1 \notin s
      <4>1. s \in SUBSET (1..k)
        BY <3>2
      <4>2. g[s] = IF s = {} THEN base ELSE Step(name, g[s \ {Max(s)}], seq[Max(s)])
        BY <4>1, <2>1 DEF IsFold
      <4>3. s \ {Max(s)} \in SUBSET (1..(k + 1)) /\ k + 1 \notin s \ {Max(s)}
        BY <3>2
      <4> QED
        BY <3>2, <4>2, <4>3
    <3> QED
      BY <3>1, <3>2
  <2> HIDE DEF h
  <2>3. h = [s \in SUBSET (1..(k + 1)) |-> h[s]]
    BY DEF h
  <2>4. IsFold(name, h, base, seq, k + 1)
    BY <2>2, <2>3 DEF IsFold
  <2> QED
    BY <2>4
<1> HIDE DEF A
<1>3. Nat \subseteq A
  BY <1>1, <1>2, Induction
<1> QED
  BY <1>3 DEF A

\* A run of a fold: the results after every element, from the base to r.
IsRun(name, h, base, seq, n, r) ==
  /\ h[0] = base
  /\ \A k \in 1..n : h[k] = Step(name, h[k - 1], seq[k])
  /\ h[n] = r

LEMMA FoldRun ==
  ASSUME NEW name, NEW base, NEW seq, NEW n \in Nat, NEW g, IsFold(name, g, base, seq, n)
  PROVE  \E h : IsRun(name, h, base, seq, n, g[1..n])
<1> DEFINE h == [k \in 0..n |-> g[1..k]]
<1>1. h[0] = base
  BY DEF IsFold
<1>2. ASSUME NEW k \in 1..n PROVE h[k] = Step(name, h[k - 1], seq[k])
  <2>1. k \in Nat /\ k # 0 /\ k - 1 \in 0..n /\ k \in 0..n
    OBVIOUS
  <2>2. Max(1..k) = k
    BY <2>1, MaxOfPrefix
  <2>3. 1..k \in SUBSET (1..n) /\ 1..k # {} /\ (1..k) \ {k} = 1..(k - 1)
    BY <2>1
  <2>4. g[1..k] = Step(name, g[(1..k) \ {Max(1..k)}], seq[Max(1..k)])
    BY <2>3 DEF IsFold
  <2>5. g[1..k] = Step(name, g[1..(k - 1)], seq[k])
    BY <2>2, <2>3, <2>4
  <2> QED
    BY <2>1, <2>5
<1>3. h[n] = g[1..n]
  OBVIOUS
<1> HIDE DEF h
<1> QED
  BY <1>1, <1>2, <1>3 DEF IsRun

\* The folds of the model are such runs.
LEMMA ExecRun ==
  ASSUME NEW database, NEW loads, NEW n \in Nat, DOMAIN loads = 1..n
  PROVE  \E h : IsRun("exec", h, [ok |-> TRUE, db |-> database], loads, n,
                      ExecStagedLoads(database, loads))
<1> DEFINE base == [ok |-> TRUE, db |-> database]
           Rec(g) == g = [s \in SUBSET (1..n) |->
                            IF s = {} THEN base ELSE ExecLoad(g[s \ {Max(s)}], loads[Max(s)])]
           f == CHOOSE g : Rec(g)
<1>1. \A g : Rec(g) <=> IsFold("exec", g, base, loads, n)
  BY DEF IsFold, Step
<1>2. IsFold("exec", f, base, loads, n)
  BY <1>1, FoldExists
<1>3. ExecStagedLoads(database, loads) = f[1..n]
  BY DEF ExecStagedLoads, FoldLeft, MapThenFoldSet
<1> HIDE DEF f, base
<1> QED
  BY <1>2, <1>3, FoldRun DEF base

-----------------------------------------------------------------------------
(* Transactions *)

\* Among the rows, row is one of this key.
Holds(rows, key, row) == \E e \in Range(rows) : e.key = key /\ e.row = row

\* One of the loads has this row for t.
Staged(loads, t, key, row) ==
  \E k \in DOMAIN loads : loads[k].table = t /\ Holds(loads[k].rows, key, row)

\* One of the loads of t may replace a row by this one.
Updates(loads, t, key, row) ==
  \E k \in DOMAIN loads : /\ loads[k].table = t /\ loads[k].onConflict = "update"
                         /\ Holds(loads[k].rows, key, row)

\* What a transaction may have made of the tables: no key is lost, and what a
\* key holds is what it held before, or comes from a load that may put it there.
Written(before, loads, after) ==
  /\ DOMAIN after = Tables
  /\ \A t \in Tables : DOMAIN before[t] \subseteq DOMAIN after[t]
  /\ \A t \in Tables : \A key \in DOMAIN after[t] :
       \/ key \in DOMAIN before[t] /\ after[t][key] = before[t][key]
       \/ key \notin DOMAIN before[t] /\ Staged(loads, t, key, after[t][key])
       \/ Updates(loads, t, key, after[t][key])

\* All the keys of the first n loads are there.
Inserted(loads, n, after) ==
  \A k \in 1..n : Keys(loads[k].rows) \subseteq DOMAIN after[loads[k].table]

\* What an upsert makes of one table.
LEMMA UpsertedMeaning ==
  ASSUME NEW table, NEW load, NEW up, up = Upserted(table, load)
  PROVE  /\ DOMAIN up = DOMAIN table \cup Keys(load.rows)
         /\ \A key \in DOMAIN up :
              \/ /\ key \in DOMAIN table /\ up[key] = table[key]
                 /\ key \in Keys(load.rows) => load.onConflict # "update"
              \/ /\ key \notin DOMAIN table \/ load.onConflict = "update"
                 /\ Holds(load.rows, key, up[key])
<1> DEFINE new == AsTable(load.rows)
<1>1. DOMAIN new = Keys(load.rows)
  BY DEF AsTable
<1>2. ASSUME NEW key \in Keys(load.rows)
      PROVE  Holds(load.rows, key, new[key])
  <2>1. PICK e \in Range(load.rows) : e.key = key
    BY <1>2 DEF Keys
  <2> DEFINE c == CHOOSE d \in Range(load.rows) : d.key = key
  <2>2. c \in Range(load.rows) /\ c.key = key
    BY <2>1
  <2>3. new[key] = c.row
    BY <1>2 DEF AsTable
  <2> QED
    BY <2>2, <2>3 DEF Holds
<1> HIDE DEF new
<1>3. CASE load.onConflict = "update"
  <2>1. up = Over(new, table)
    BY <1>3 DEF Upserted, new
  <2>2. /\ DOMAIN Over(new, table) = DOMAIN new \cup DOMAIN table
        /\ \A key \in DOMAIN new \cup DOMAIN table :
             Over(new, table)[key] = IF key \in DOMAIN new THEN new[key] ELSE table[key]
    BY DEF Over
  <2> QED
    BY <1>1, <1>2, <1>3, <2>1, <2>2
<1>4. CASE load.onConflict # "update"
  <2>1. up = Over(table, new)
    BY <1>4 DEF Upserted, new
  <2>2. /\ DOMAIN Over(table, new) = DOMAIN table \cup DOMAIN new
        /\ \A key \in DOMAIN table \cup DOMAIN new :
             Over(table, new)[key] = IF key \in DOMAIN table THEN table[key] ELSE new[key]
    BY DEF Over
  <2> QED
    BY <1>1, <1>2, <1>4, <2>1, <2>2
<1> QED
  BY <1>3, <1>4

\* What one load makes of the tables, and that a load that is not refused puts
\* all its keys there.
LEMMA ExecLoadMeaning ==
  ASSUME NEW result, NEW load, DOMAIN result.db = Tables, load.table \in Tables
  PROVE  /\ Written(result.db, <<load>>, ExecLoad(result, load).db)
         /\ ExecLoad(result, load).ok =>
              /\ result.ok
              /\ Keys(load.rows) \subseteq DOMAIN ExecLoad(result, load).db[load.table]
              /\ \A t \in Tables \ {load.table} : ExecLoad(result, load).db[t] = result.db[t]
              /\ ExecLoad(result, load).db[load.table] = Upserted(result.db[load.table], load)
<1> DEFINE after == ExecLoad(result, load)
           up == Upserted(result.db[load.table], load)
<1>1. CASE ~result.ok \/ Refused(result.db, load)
  <2>1. after.ok = FALSE /\ after.db = result.db
    BY <1>1 DEF ExecLoad
  <2> QED
    BY <2>1 DEF Written
<1>2. CASE ~(~result.ok \/ Refused(result.db, load))
  <2>1. after = [ok |-> TRUE, db |-> [result.db EXCEPT ![load.table] = up]]
    BY <1>2 DEF ExecLoad
  <2>2. /\ DOMAIN after.db = Tables
        /\ after.db[load.table] = up
        /\ \A t \in Tables \ {load.table} : after.db[t] = result.db[t]
    BY <2>1
  <2> HIDE DEF up
  <2>3. /\ DOMAIN up = DOMAIN result.db[load.table] \cup Keys(load.rows)
        /\ \A key \in DOMAIN up :
             \/ /\ key \in DOMAIN result.db[load.table] /\ up[key] = result.db[load.table][key]
                /\ key \in Keys(load.rows) => load.onConflict # "update"
             \/ /\ key \notin DOMAIN result.db[load.table] \/ load.onConflict = "update"
                /\ Holds(load.rows, key, up[key])
    BY UpsertedMeaning DEF up
  <2>4. ASSUME NEW key \in DOMAIN up
        PROVE  \/ key \in DOMAIN result.db[load.table] /\ up[key] = result.db[load.table][key]
               \/ /\ key \notin DOMAIN result.db[load.table]
                  /\ Staged(<<load>>, load.table, key, up[key])
               \/ Updates(<<load>>, load.table, key, up[key])
    BY <2>3 DEF Staged, Updates
  <2> HIDE DEF after, up
  <2>5. Written(result.db, <<load>>, after.db)
    BY <2>2, <2>3, <2>4 DEF Written
  <2> QED
    BY <1>2, <2>2, <2>3, <2>5 DEF after, up
<1> QED
  BY <1>1, <1>2

\* What a load made is what the transaction made.
LEMMA WrittenOnce ==
  ASSUME NEW a, NEW b, NEW c, NEW loads, NEW k \in DOMAIN loads,
         Written(a, loads, b), Written(b, <<loads[k]>>, c)
  PROVE  Written(a, loads, c)
<1>1. \A t, key, row : Staged(<<loads[k]>>, t, key, row) => Staged(loads, t, key, row)
  BY DEF Staged
<1>2. \A t, key, row : Updates(<<loads[k]>>, t, key, row) => Updates(loads, t, key, row)
  BY DEF Updates
<1>3. \A t \in Tables : DOMAIN a[t] \subseteq DOMAIN b[t] /\ DOMAIN b[t] \subseteq DOMAIN c[t]
  BY DEF Written
<1>4. ASSUME NEW t \in Tables, NEW key \in DOMAIN c[t]
      PROVE  \/ key \in DOMAIN a[t] /\ c[t][key] = a[t][key]
             \/ key \notin DOMAIN a[t] /\ Staged(loads, t, key, c[t][key])
             \/ Updates(loads, t, key, c[t][key])
  <2>1. CASE key \in DOMAIN b[t] /\ c[t][key] = b[t][key]
    BY <2>1 DEF Written
  <2>2. CASE key \notin DOMAIN b[t] /\ Staged(<<loads[k]>>, t, key, c[t][key])
    BY <1>1, <1>3, <2>2
  <2>3. CASE Updates(<<loads[k]>>, t, key, c[t][key])
    BY <1>2, <2>3
  <2> QED
    BY <2>1, <2>2, <2>3 DEF Written
<1> QED
  BY <1>3, <1>4 DEF Written

\* A transaction writes what its loads hold, and inserts all of it unless a load
\* fails, whatever the loads are and however many.
LEMMA ExecMeaning ==
  ASSUME NEW database, DOMAIN database = Tables,
         NEW loads, NEW n \in Nat, DOMAIN loads = 1..n, \A k \in 1..n : loads[k].table \in Tables
  PROVE  /\ Written(database, loads, ExecStagedLoads(database, loads).db)
         /\ ExecStagedLoads(database, loads).ok =>
              Inserted(loads, n, ExecStagedLoads(database, loads).db)
<1>1. PICK h : IsRun("exec", h, [ok |-> TRUE, db |-> database], loads, n,
                     ExecStagedLoads(database, loads))
  BY ExecRun
<1>2. /\ h[0] = [ok |-> TRUE, db |-> database]
      /\ h[n] = ExecStagedLoads(database, loads)
      /\ \A k \in 1..n : h[k] = ExecLoad(h[k - 1], loads[k])
  BY <1>1 DEF IsRun, Step
<1> DEFINE A == {k \in Nat : k <= n => /\ Written(database, loads, h[k].db)
                                       /\ h[k].ok => Inserted(loads, k, h[k].db)}
<1>3. 0 \in A
  <2>1. h[0].db = database
    BY <1>2
  <2>2. Written(database, loads, h[0].db)
    BY <2>1 DEF Written
  <2> QED
    BY <2>2 DEF Inserted
<1>4. ASSUME NEW k \in Nat, k \in A PROVE k + 1 \in A
  <2> SUFFICES ASSUME k + 1 <= n
               PROVE  /\ Written(database, loads, h[k + 1].db)
                      /\ h[k + 1].ok => Inserted(loads, k + 1, h[k + 1].db)
    OBVIOUS
  <2>1. k + 1 \in 1..n /\ (k + 1) - 1 = k /\ k <= n
    OBVIOUS
  <2>2. /\ Written(database, loads, h[k].db)
        /\ h[k].ok => Inserted(loads, k, h[k].db)
    BY <1>4, <2>1
  <2>3. h[k + 1] = ExecLoad(h[k], loads[k + 1])
    BY <1>2, <2>1
  <2>4. DOMAIN h[k].db = Tables /\ loads[k + 1].table \in Tables
    BY <2>1, <2>2 DEF Written
  <2>5. /\ Written(h[k].db, <<loads[k + 1]>>, h[k + 1].db)
        /\ h[k + 1].ok => /\ h[k].ok
                          /\ Keys(loads[k + 1].rows) \subseteq DOMAIN h[k + 1].db[loads[k + 1].table]
    BY <2>3, <2>4, ExecLoadMeaning
  <2>6. Written(database, loads, h[k + 1].db)
    BY <2>1, <2>2, <2>5, WrittenOnce
  <2>7. ASSUME h[k + 1].ok, NEW j \in 1..(k + 1)
        PROVE  Keys(loads[j].rows) \subseteq DOMAIN h[k + 1].db[loads[j].table]
    <3>1. CASE j = k + 1
      BY <2>5, <2>7, <3>1
    <3>2. CASE j # k + 1
      <4>1. j \in 1..k /\ loads[j].table \in Tables
        BY <2>1, <3>2
      <4>2. Keys(loads[j].rows) \subseteq DOMAIN h[k].db[loads[j].table]
        BY <2>2, <2>5, <2>7, <4>1 DEF Inserted
      <4> QED
        BY <2>5, <4>1, <4>2 DEF Written
    <3> QED
      BY <3>1, <3>2
  <2> QED
    BY <2>6, <2>7 DEF Inserted
<1> HIDE DEF A
<1>5. n \in A
  BY <1>3, <1>4, Induction
<1> QED
  BY <1>2, <1>5 DEF A

\* A transaction of one load that updates: its rows are what their keys hold.
LEMMA OneUpdate ==
  ASSUME NEW database, DOMAIN database = Tables, NEW load, load.table \in Tables,
         load.onConflict = "update", ExecStagedLoads(database, <<load>>).ok
  PROVE  \A key \in Keys(load.rows) :
           /\ key \in DOMAIN ExecStagedLoads(database, <<load>>).db[load.table]
           /\ Holds(load.rows, key, ExecStagedLoads(database, <<load>>).db[load.table][key])
<1> DEFINE base == [ok |-> TRUE, db |-> database]
           after == ExecStagedLoads(database, <<load>>)
           up == after.db[load.table]
<1>1. after = ExecLoad(base, load)
  <2> DEFINE loads == <<load>>
  <2>1. DOMAIN loads = 1..1 /\ loads[1] = load
    OBVIOUS
  <2> HIDE DEF loads
  <2>2. PICK h : IsRun("exec", h, base, loads, 1, ExecStagedLoads(database, loads))
    BY <2>1, ExecRun
  <2>3. h[0] = base /\ h[1] = ExecStagedLoads(database, loads)
    BY <2>2 DEF IsRun
  <2>4. h[1] = ExecLoad(h[0], loads[1])
    BY <2>2 DEF IsRun, Step
  <2> QED
    BY <2>1, <2>3, <2>4 DEF loads
<1>2. base.db = database
  OBVIOUS
<1> HIDE DEF base, after
<1>3. up = Upserted(database[load.table], load)
  BY <1>1, <1>2, ExecLoadMeaning DEF after
<1> HIDE DEF up
<1>4. /\ DOMAIN up = DOMAIN database[load.table] \cup Keys(load.rows)
      /\ \A key \in DOMAIN up :
           \/ key \notin Keys(load.rows)
           \/ Holds(load.rows, key, up[key])
  BY <1>3, UpsertedMeaning
<1> QED
  BY <1>4 DEF after, up

-----------------------------------------------------------------------------
(* Types and the stages of the loop *)

\* The values of a function over a finite set are finite.
LEMMA FiniteRange ==
  ASSUME NEW f, IsFiniteSet(DOMAIN f)
  PROVE  IsFiniteSet(Range(f))
<1> DEFINE g == [x \in DOMAIN f |-> f[x]]
<1>1. g \in [DOMAIN f -> Range(f)]
  BY DEF Range
<1>2. \A y \in Range(f) : \E x \in DOMAIN f : g[x] = y
  BY DEF Range
<1>3. g \in Surjection(DOMAIN f, Range(f))
  BY <1>1, <1>2 DEF Surjection
<1> QED
  BY <1>3, FS_Surjection

\* The elements of a sequence.
LEMMA SeqRange ==
  ASSUME NEW S, NEW seq \in Seq(S)
  PROVE  /\ Range(seq) \subseteq S /\ IsFiniteSet(Range(seq))
         /\ \A k \in 1..Len(seq) : seq[k] \in Range(seq)
         /\ \A x \in Range(seq) : \E k \in 1..Len(seq) : seq[k] = x
<1>1. Len(seq) \in Nat /\ DOMAIN seq = 1..Len(seq) /\ \A k \in 1..Len(seq) : seq[k] \in S
  BY LenProperties, ElementOfSeq
<1>2. IsFiniteSet(1..Len(seq))
  BY <1>1, FS_Interval
<1>3. IsFiniteSet(Range(seq))
  BY <1>1, <1>2, FiniteRange
<1> QED
  BY <1>1, <1>3 DEF Range

\* The elements of two sequences in a row.
LEMMA ConcatRange ==
  ASSUME NEW S, NEW s \in Seq(S), NEW t \in Seq(S)
  PROVE  s \o t \in Seq(S) /\ Range(s \o t) = Range(s) \cup Range(t)
<1>1. /\ s \o t \in Seq(S) /\ Len(s \o t) = Len(s) + Len(t)
      /\ Len(s) \in Nat /\ Len(t) \in Nat
      /\ \A i \in 1..(Len(s) + Len(t)) :
           (s \o t)[i] = IF i <= Len(s) THEN s[i] ELSE t[i - Len(s)]
  BY ConcatProperties, LenProperties
<1>2. ASSUME NEW x \in Range(s \o t) PROVE x \in Range(s) \cup Range(t)
  <2>1. PICK i \in 1..(Len(s) + Len(t)) : (s \o t)[i] = x
    BY <1>1, SeqRange
  <2>2. CASE i <= Len(s)
    <3>1. i \in 1..Len(s) /\ s[i] = x
      BY <1>1, <2>1, <2>2
    <3> QED
      BY <3>1, SeqRange
  <2>3. CASE ~(i <= Len(s))
    <3>1. i - Len(s) \in 1..Len(t) /\ t[i - Len(s)] = x
      BY <1>1, <2>1, <2>3
    <3> QED
      BY <3>1, SeqRange
  <2> QED
    BY <2>2, <2>3
<1>3. ASSUME NEW x \in Range(s) PROVE x \in Range(s \o t)
  <2>1. PICK i \in 1..Len(s) : s[i] = x
    BY SeqRange
  <2>2. i \in 1..(Len(s) + Len(t)) /\ (s \o t)[i] = x
    BY <1>1, <2>1
  <2> QED
    BY <1>1, <2>2, SeqRange
<1>4. ASSUME NEW x \in Range(t) PROVE x \in Range(s \o t)
  <2>1. PICK i \in 1..Len(t) : t[i] = x
    BY SeqRange
  <2>2. i + Len(s) \in 1..(Len(s) + Len(t)) /\ (s \o t)[i + Len(s)] = x
    BY <1>1, <2>1
  <2> QED
    BY <1>1, <2>2, SeqRange
<1> QED
  BY <1>1, <1>2, <1>3, <1>4

\* The rows of an item scan.
ItemRow == [key : Nat, row : {"full"}]

ItemSteps == {"search", "flush", "lastFlush"}
ProfessionSteps == {"professions", "storeProfessions"}
RecipeSteps == {"list", "hierarchy", "batches", "storeBatch", "markSecond"}
Between == {"check", "failed", "exit", "polling"}
Committing == {"flush", "lastFlush", "storeProfessions", "hierarchy", "storeBatch"}

\* Some loads of the static tables, in order.
Loads(loads) == \E n \in Nat : DOMAIN loads = 1..n /\ \A k \in 1..n : loads[k].table \in Tables

\* Loads that may replace an item hold its metadata.
FullUpdates(loads) ==
  \A k \in DOMAIN loads : loads[k].table = "items" /\ loads[k].onConflict = "update" =>
    \A e \in Range(loads[k].rows) : e.row = "full"

\* The types of the seeder's state; the step of a stage is one of its own.
TypeOK ==
  /\ history \in Histories /\ edition \in DOMAIN history
  /\ DOMAIN db = Tables
  /\ status \subseteq Names
  /\ pc \in ItemSteps \cup ProfessionSteps \cup RecipeSteps \cup Between \cup {"mark"}
  /\ stage \in 1..3
  /\ pc \in ItemSteps => stage = 1
  /\ pc \in ProfessionSteps => stage = 2
  /\ pc \in RecipeSteps => stage = 3
  /\ scan \in [startingID : Nat, lastID : Nat, rows : Seq(ItemRow)]
  /\ scan.startingID = scan.lastID + 1
  /\ Loads(staged)
  /\ FullUpdates(staged)
  /\ pc \notin Committing \cup {"failed", "exit"} => staged = <<>>
  /\ known \subseteq Nat
  /\ faults \in Nat

\* The API answers from a catalogue.
LEMMA ApiTyped ==
  ASSUME TypeOK
  PROVE  /\ history \in Seq(Catalogues) /\ Len(history) \in Nat /\ DOMAIN history = 1..Len(history)
         /\ \A e \in DOMAIN history : history[e] \in Catalogues
         /\ Api \in Catalogues
<1>1. history \in Seq(Catalogues)
  BY SeedAssumption DEF TypeOK
<1> QED
  BY <1>1, LenProperties, ElementOfSeq DEF TypeOK, Api

\* The three stages.
LEMMA StagesMeaning ==
  /\ Names = {"items", "professions", "recipes", "reagents"}
  /\ DOMAIN Stages = 1..3
  /\ Stages[1] = {"items"} /\ Stages[2] = {"professions"} /\ Stages[3] = {"recipes", "reagents"}
<1>1. /\ DOMAIN Stages = 1..3
      /\ Stages[1] = {"items"} /\ Stages[2] = {"professions"} /\ Stages[3] = {"recipes", "reagents"}
  BY DEF Stages
<1>2. Range(Stages) = {Stages[1], Stages[2], Stages[3]}
  <2>1. 1..3 = {1, 2, 3}
    OBVIOUS
  <2> QED
    BY <1>1, <2>1 DEF Range
<1>3. Names = Stages[1] \cup Stages[2] \cup Stages[3]
  BY <1>2 DEF Names
<1> QED
  BY <1>1, <1>3

\* The loop goes to the first stage that is not completed.
LEMMA NextStageMeaning ==
  ASSUME NextStage
  PROVE  \/ pc' = "polling" /\ UNCHANGED <<stage, known>>
         \/ stage' = 1 /\ pc' = "search" /\ known' = Api.items /\ "items" \notin status
         \/ stage' = 2 /\ pc' = "professions" /\ known' = known /\ "items" \in status
         \/ stage' = 3 /\ pc' = "list" /\ known' = known /\ "items" \in status
<1> DEFINE First(k) == k \in DOMAIN Stages /\ ~Completed(k) /\ \A j \in 1..(k - 1) : Completed(j)
           k0 == CHOOSE k \in DOMAIN Stages : ~Completed(k) /\ \A j \in 1..(k - 1) : Completed(j)
<1>1. CASE \A k \in DOMAIN Stages : Completed(k)
  BY <1>1 DEF NextStage
<1>2. CASE ~ \A k \in DOMAIN Stages : Completed(k)
  <2>1. \E k \in DOMAIN Stages : ~Completed(k) /\ \A j \in 1..(k - 1) : Completed(j)
    <3>0. 1..3 = {1, 2, 3}
      OBVIOUS
    <3>1. \/ ~Completed(1)
          \/ Completed(1) /\ ~Completed(2)
          \/ Completed(1) /\ Completed(2) /\ ~Completed(3)
      BY <1>2, <3>0, StagesMeaning
    <3>2. 1..(1 - 1) = {} /\ 1..(2 - 1) = {1} /\ 1..(3 - 1) = {1, 2} /\ 1..3 = {1, 2, 3}
      OBVIOUS
    <3> QED
      BY <3>1, <3>2, StagesMeaning
  <2>2. k0 \in 1..3 /\ ~Completed(k0) /\ \A j \in 1..(k0 - 1) : Completed(j)
    BY <2>1, StagesMeaning
  <2>3. /\ stage' = k0
        /\ pc' = << "search", "professions", "list" >>[k0]
        /\ known' = IF k0 = 1 THEN Api.items ELSE known
    BY <1>2 DEF NextStage
  <2> HIDE DEF k0
  <2>4. k0 # 1 => Completed(1)
    BY <2>2
  <2>5. Completed(1) <=> "items" \in status
    BY StagesMeaning DEF Completed
  <2>6. k0 = 1 \/ k0 = 2 \/ k0 = 3
    BY <2>2
  <2> QED
    BY <2>2, <2>3, <2>4, <2>5, <2>6
<1> QED
  BY <1>1, <1>2

\* What a mark adds is of its stage.
LEMMA MarkedMeaning ==
  ASSUME stage \in 1..3
  PROVE  /\ Marked \subseteq Names
         /\ pc \notin {"mark", "markSecond"} => Marked = {}
         /\ "items" \in Marked <=> pc = "mark" /\ stage = 1
         /\ pc = "mark" /\ stage = 1 => Marked = {"items"}
         /\ pc = "mark" /\ stage = 2 => Marked = {"professions"}
         /\ pc = "mark" /\ stage = 3 => Marked = {"recipes"}
         /\ pc = "markSecond" => Marked = {"reagents"}
<1>1. stage = 1 \/ stage = 2 \/ stage = 3
  OBVIOUS
<1> QED
  BY <1>1, StagesMeaning DEF Marked

-----------------------------------------------------------------------------
(* Commits *)

\* Writing nothing.
LEMMA NothingWritten ==
  ASSUME DOMAIN db = Tables, NEW loads, db' = db
  PROVE  Written(db, loads, db')
  BY DEF Written

\* A transaction stores all of its loads, or nothing.
LEMMA CommitMeaning ==
  ASSUME TypeOK, NEW at, NEW goto, Commit(at, goto)
  PROVE  /\ pc = at /\ staged' = <<>>
         /\ UNCHANGED <<upstream, status, stage, jobs, known, faults>>
         /\ Written(db, staged, db')
         /\ \/ pc' = "failed" /\ db' = db
            \/ /\ pc' = goto
               /\ ExecStagedLoads(db, staged).ok
               /\ db' = ExecStagedLoads(db, staged).db
               /\ \A k \in DOMAIN staged : Keys(staged[k].rows) \subseteq DOMAIN db'[staged[k].table]
<1>1. PICK n \in Nat : DOMAIN staged = 1..n /\ \A k \in 1..n : staged[k].table \in Tables
  BY DEF TypeOK, Loads
<1>2. /\ Written(db, staged, ExecStagedLoads(db, staged).db)
      /\ ExecStagedLoads(db, staged).ok => Inserted(staged, n, ExecStagedLoads(db, staged).db)
  BY <1>1, ExecMeaning DEF TypeOK
<1>3. CASE ExecStagedLoads(db, staged).ok
  BY <1>1, <1>2, <1>3 DEF Commit, Inserted
<1>4. CASE ~ExecStagedLoads(db, staged).ok
  BY <1>4, NothingWritten DEF Commit, TypeOK
<1> QED
  BY <1>3, <1>4 DEF Commit

\* A failure may come after the transaction was applied.
LEMMA FailsMeaning ==
  ASSUME TypeOK, Fails
  PROVE  /\ Written(db, staged, db')
         /\ pc' \in {"failed", "exit"} /\ faults' \in Nat
         /\ db' = db \/ db' = ExecStagedLoads(db, staged).db
         /\ UNCHANGED <<upstream, stage, scan, jobs, staged, known>>
<1>1. PICK n \in Nat : DOMAIN staged = 1..n /\ \A k \in 1..n : staged[k].table \in Tables
  BY DEF TypeOK, Loads
<1>2. Written(db, staged, ExecStagedLoads(db, staged).db)
  BY <1>1, ExecMeaning DEF TypeOK
<1> QED
  BY <1>2, NothingWritten DEF Fails, TypeOK

\* No step loses a key of any table, or changes a row but through the loads of
\* its transaction.
LEMMA EveryStepWrites ==
  ASSUME TypeOK, [Next]_vars
  PROVE  Written(db, staged, db')
<1>1. CASE UNCHANGED db
  BY <1>1, NothingWritten DEF TypeOK
<1>2. CASE Fails
  BY <1>2, FailsMeaning
<1>3. CASE FlushItems
  BY <1>3, CommitMeaning DEF FlushItems
<1>4. CASE StoreProfessions
  BY <1>4, CommitMeaning DEF StoreProfessions
<1>5. CASE StoreHierarchy
  BY <1>5, CommitMeaning DEF StoreHierarchy
<1>6. CASE StoreBatch
  BY <1>6, CommitMeaning DEF StoreBatch
<1> QED
  BY <1>1, <1>2, <1>3, <1>4, <1>5, <1>6
     DEF Next, Seed, vars, NextStage, Mark, RecordError, SearchItems, ListProfessions,
         ListRecipes, TakeBatch, AllBatchesStored, Restart, Publish

\* An item that has its metadata keeps it.
LEMMA FullStaysFull ==
  ASSUME TypeOK, Written(db, staged, db')
  PROVE  \A i \in FullItems : i \in DOMAIN db'.items /\ db'.items[i] = "full"
<1> SUFFICES ASSUME NEW i \in FullItems
             PROVE  i \in DOMAIN db'["items"] /\ db'["items"][i] = "full"
  OBVIOUS
<1>1. "items" \in Tables
  BY DEF Tables
<1>2. i \in DOMAIN db["items"] /\ db["items"][i] = "full"
  BY DEF FullItems
<1>3. i \in DOMAIN db'["items"]
  BY <1>1, <1>2 DEF Written
<1>4. ASSUME Updates(staged, "items", i, db'["items"][i]) PROVE db'["items"][i] = "full"
  BY <1>4 DEF Updates, Holds, TypeOK, FullUpdates
<1> QED
  BY <1>1, <1>2, <1>3, <1>4 DEF Written

-----------------------------------------------------------------------------
(* The loads and the rows of an item scan *)

\* Loads by their number.
LEMMA LoadsOf ==
  ASSUME NEW a, NEW b, NEW c, NEW d,
         a.table \in Tables, b.table \in Tables, c.table \in Tables, d.table \in Tables
  PROVE  /\ Loads(<<>>) /\ Loads(<<a>>) /\ Loads(<<a, b>>) /\ Loads(<<a, b, c, d>>)
         /\ FullUpdates(<<>>)
<1>1. Loads(<<>>) /\ FullUpdates(<<>>)
  BY DEF Loads, FullUpdates
<1>2. Loads(<<a>>)
  <2>1. DOMAIN <<a>> = 1..1 /\ \A k \in 1..1 : <<a>>[k] = a
    OBVIOUS
  <2> QED
    BY <2>1 DEF Loads
<1>3. Loads(<<a, b>>)
  <2>1. DOMAIN <<a, b>> = 1..2 /\ \A k \in 1..2 : <<a, b>>[k] \in {a, b}
    OBVIOUS
  <2> QED
    BY <2>1 DEF Loads
<1>4. Loads(<<a, b, c, d>>)
  <2>1. DOMAIN <<a, b, c, d>> = 1..4 /\ \A k \in 1..4 : <<a, b, c, d>>[k] \in {a, b, c, d}
    OBVIOUS
  <2> QED
    BY <2>1 DEF Loads
<1> QED
  BY <1>1, <1>2, <1>3, <1>4

\* The loads of the stages name tables, and replace no item but by metadata.
LEMMA ItemLoadsTyped ==
  ASSUME NEW rows \in Seq(ItemRow)
  PROVE  Loads(ItemLoads(rows)) /\ FullUpdates(ItemLoads(rows))
<1>1. "items" \in Tables
  BY DEF Tables
<1>2. \A e \in Range(rows) : e.row = "full"
  <2>1. Range(rows) \subseteq ItemRow
    BY SeqRange
  <2> QED
    BY <2>1 DEF ItemRow
<1>3. FullUpdates(ItemLoads(rows))
  BY <1>2 DEF FullUpdates, ItemLoads, Load
<1>4. Loads(ItemLoads(rows))
  <2> DEFINE a == Load("items", rows, "update")
  <2>1. a.table \in Tables
    BY <1>1 DEF Load
  <2>2. Loads(<<a>>)
    BY <2>1, LoadsOf
  <2> QED
    BY <2>2 DEF ItemLoads
<1> QED
  BY <1>3, <1>4

LEMMA OtherLoadsTyped ==
  ASSUME NEW a, NEW b, NEW c, NEW d
  PROVE  /\ Loads(<<Load("professions", a, "update"), Load("tiers", b, "update")>>)
         /\ FullUpdates(<<Load("professions", a, "update"), Load("tiers", b, "update")>>)
         /\ Loads(HierarchyLoads(a, b)) /\ FullUpdates(HierarchyLoads(a, b))
         /\ Loads(<<Load("items", a, "nothing"), Load("recipes", b, "update"),
                    Load("reagents", c, "update"), Load("slots", d, "update")>>)
         /\ FullUpdates(<<Load("items", a, "nothing"), Load("recipes", b, "update"),
                          Load("reagents", c, "update"), Load("slots", d, "update")>>)
<1>1. \A rows, does : /\ Load("professions", rows, does).table \in Tables
                      /\ Load("tiers", rows, does).table \in Tables
                      /\ Load("categories", rows, does).table \in Tables
                      /\ Load("items", rows, does).table \in Tables
                      /\ Load("recipes", rows, does).table \in Tables
                      /\ Load("reagents", rows, does).table \in Tables
                      /\ Load("slots", rows, does).table \in Tables
  BY DEF Load, Tables
<1>2. FullUpdates(<<Load("professions", a, "update"), Load("tiers", b, "update")>>)
  BY DEF FullUpdates, Load
<1>3. FullUpdates(HierarchyLoads(a, b))
  BY DEF FullUpdates, Load, HierarchyLoads
<1>4. FullUpdates(<<Load("items", a, "nothing"), Load("recipes", b, "update"),
                    Load("reagents", c, "update"), Load("slots", d, "update")>>)
  BY DEF FullUpdates, Load
<1> QED
  BY <1>1, <1>2, <1>3, <1>4, LoadsOf DEF HierarchyLoads

\* A page of a search: items the API lists, from the id asked for on; none only
\* if there are none; and if the API sorts, nothing before its last is left out.
LEMMA PagesMeaning ==
  ASSUME TypeOK, NEW page \in Pages(scan.startingID)
  PROVE  /\ page \subseteq Api.items /\ page \subseteq Nat /\ IsFiniteSet(page)
         /\ \A i \in page : i >= scan.startingID
         /\ page = {} => \A i \in Api.items : i < scan.startingID
         /\ Api.sorted => \A i \in Api.items : \A j \in page :
                            i >= scan.startingID /\ i <= j => i \in page
<1> DEFINE Found == {i \in Api.items : i >= scan.startingID}
           Size == Min({PageSize, Cardinality(Found)})
<1>1. /\ Api.items \subseteq Nat /\ IsFiniteSet(Api.items) /\ Api.sorted \in BOOLEAN
      /\ scan.startingID \in Nat
  BY ApiTyped DEF Catalogues, TypeOK
<1>2. IsFiniteSet(Found) /\ Cardinality(Found) \in Nat
  BY <1>1, FS_Subset, FS_CardinalityType
<1>3. page \subseteq Found
  BY DEF Pages
<1>4. /\ IsFiniteSet(page) /\ Cardinality(page) \in Nat
  BY <1>2, <1>3, FS_Subset, FS_CardinalityType
<1>5. PageSize \in Nat \ {0}
  BY SeedAssumption
<1>6. Found # {} => Cardinality(page) # 0
  <2> SUFFICES ASSUME Found # {} PROVE Cardinality(page) # 0
    OBVIOUS
  <2>1. Cardinality(Found) \in Nat \ {0}
    BY <1>2, FS_EmptySet
  <2> DEFINE n == Cardinality(Found)
  <2>2. Size \in Nat \ {0}
    <3>1. \E m \in {PageSize, n} : \A x \in {PageSize, n} : m <= x
      BY <1>5, <2>1
    <3>2. Size \in {PageSize, n}
      BY <3>1 DEF Min
    <3> QED
      BY <1>5, <2>1, <3>2
  <2>3. Min({1, Size}) \in Nat \ {0}
    <3>1. \E m \in {1, Size} : \A x \in {1, Size} : m <= x
      BY <2>2
    <3>2. Min({1, Size}) \in {1, Size}
      BY <3>1 DEF Min
    <3> QED
      BY <2>2, <3>2
  <2>4. Cardinality(page) = Size \/ Cardinality(page) \in Min({1, Size})..Size
    BY DEF Pages
  <2> HIDE DEF Size
  <2> QED
    BY <1>4, <2>2, <2>3, <2>4
<1>7. page = {} => Found = {}
  BY <1>6, FS_EmptySet
<1>8. Api.sorted => \A i \in page, j \in Found \ page : i < j
  BY DEF Pages
<1>9. ASSUME Api.sorted, NEW i \in Api.items, NEW j \in page, i >= scan.startingID, i <= j
      PROVE  i \in page
  <2>1. i \in Nat /\ j \in Nat /\ i \in Found
    BY <1>1, <1>3, <1>9
  <2>2. i \notin page => j < i
    BY <1>8, <1>9, <2>1
  <2> QED
    BY <1>9, <2>1, <2>2
<1>10. page = {} => \A i \in Api.items : i < scan.startingID
  BY <1>1, <1>7
<1> QED
  BY <1>1, <1>3, <1>4, <1>9, <1>10

\* The rows of a page, as a sequence.
LEMMA PageRows ==
  ASSUME NEW page, page \subseteq Nat, IsFiniteSet(page), NEW rows \in Seq(ItemRow)
  PROVE  /\ rows \o SetToSeq({Entry(i, "full") : i \in page}) \in Seq(ItemRow)
         /\ Keys(rows \o SetToSeq({Entry(i, "full") : i \in page})) = Keys(rows) \cup page
<1> DEFINE entries == {Entry(i, "full") : i \in page}
           f == [i \in page |-> Entry(i, "full")]
<1>1. DOMAIN f = page /\ Range(f) = entries
  BY DEF Range
<1>2. IsFiniteSet(entries)
  BY <1>1, FiniteRange
<1>3. entries \subseteq ItemRow
  <2>1. \A i \in page : Entry(i, "full") \in ItemRow
    BY DEF Entry, ItemRow
  <2> QED
    BY <2>1
<1>4. ASSUME NEW i \in page PROVE \E e \in entries : e.key = i
  <2>1. Entry(i, "full") \in entries /\ Entry(i, "full").key = i
    BY DEF Entry
  <2> QED
    BY <2>1
<1>5. \A e \in entries : e.key \in page
  BY DEF Entry
<1> HIDE DEF entries, f
<1>6. SetToSeq(entries) \in Seq(entries) /\ Range(SetToSeq(entries)) = entries
  BY <1>2, SetToSeqMeaning
<1>7. SetToSeq(entries) \in Seq(ItemRow)
  BY <1>3, <1>6, SeqMonotonic
<1>8. /\ rows \o SetToSeq(entries) \in Seq(ItemRow)
      /\ Range(rows \o SetToSeq(entries)) = Range(rows) \cup entries
  BY <1>6, <1>7, ConcatRange
<1>9. Keys(rows \o SetToSeq(entries)) = Keys(rows) \cup page
  BY <1>4, <1>5, <1>8 DEF Keys
<1> QED
  BY <1>8, <1>9 DEF entries

\* What a search does with the page it gets.
LEMMA SearchMeaning ==
  ASSUME TypeOK, SearchItems
  PROVE  /\ pc = "search" /\ UNCHANGED <<upstream, db, status, stage, jobs, known, faults>>
         /\ \E page \in Pages(scan.startingID) :
              \/ /\ page = {} /\ pc' = "lastFlush"
                 /\ staged' = ItemLoads(scan.rows) /\ scan' = scan
              \/ /\ page # {}
                 /\ scan' \in [startingID : Nat, lastID : Nat, rows : Seq(ItemRow)]
                 /\ scan'.startingID = scan'.lastID + 1
                 /\ scan'.lastID \in page /\ \A i \in page : i <= scan'.lastID
                 /\ Keys(scan'.rows) = Keys(scan.rows) \cup page
                 /\ \/ pc' = "flush" /\ staged' = ItemLoads(scan'.rows)
                    \/ pc' = "search" /\ staged' = staged
<1>1. PICK page \in Pages(scan.startingID) :
        LET rows == scan.rows \o SetToSeq({Entry(i, "full") : i \in page})
            lastID == Max(page \cup {scan.lastID})
        IN IF page = {}
           THEN /\ staged' = ItemLoads(scan.rows)
                /\ pc' = "lastFlush"
                /\ UNCHANGED scan
           ELSE /\ scan' = [startingID |-> StartAfter(lastID), lastID |-> lastID, rows |-> rows]
                /\ IF Len(rows) >= ItemBatch
                   THEN pc' = "flush" /\ staged' = ItemLoads(rows)
                   ELSE UNCHANGED <<pc, staged>>
  BY DEF SearchItems
<1> DEFINE rows == scan.rows \o SetToSeq({Entry(i, "full") : i \in page})
           last == Max(page \cup {scan.lastID})
<1>2. pc = "search" /\ UNCHANGED <<upstream, db, status, stage, jobs, known, faults>>
  BY DEF SearchItems
<1>3. /\ page \subseteq Nat /\ IsFiniteSet(page) /\ \A i \in page : i >= scan.startingID
      /\ scan.lastID \in Nat /\ scan.startingID = scan.lastID + 1 /\ scan.rows \in Seq(ItemRow)
  BY PagesMeaning DEF TypeOK
<1>4. CASE page = {}
  BY <1>1, <1>2, <1>4
<1>5. CASE page # {}
  <2>1. rows \in Seq(ItemRow) /\ Keys(rows) = Keys(scan.rows) \cup page
    BY <1>3, PageRows
  <2>2. last \in page \cup {scan.lastID} /\ \A i \in page \cup {scan.lastID} : i <= last
    <3>1. IsFiniteSet(page \cup {scan.lastID}) /\ page \cup {scan.lastID} \in SUBSET Nat
      BY <1>3, FS_AddElement
    <3>2. page \cup {scan.lastID} # {}
      OBVIOUS
    <3> QED
      BY <3>1, <3>2, MaxOfFinite
  <2> HIDE DEF rows, last
  <2>3. scan' = [startingID |-> last + 1, lastID |-> last, rows |-> rows]
    BY <1>1, <1>5 DEF StartAfter, rows, last
  <2>4. \/ pc' = "flush" /\ staged' = ItemLoads(rows)
        \/ pc' = "search" /\ staged' = staged
    BY <1>1, <1>2, <1>5 DEF rows
  <2>5. last \in page
    <3>1. PICK i \in page : i >= scan.lastID + 1
      BY <1>3, <1>5
    <3>2. i <= last
      BY <2>2
    <3>3. last # scan.lastID
      BY <1>3, <3>1, <3>2
    <3> QED
      BY <2>2, <3>3
  <2>6. last \in Nat
    BY <1>3, <2>5
  <2>7. scan'.startingID = last + 1 /\ scan'.lastID = last /\ scan'.rows = rows
    BY <2>3
  <2>8. scan' \in [startingID : Nat, lastID : Nat, rows : Seq(ItemRow)]
    BY <2>1, <2>3, <2>6
  <2> QED
    BY <1>2, <1>5, <2>1, <2>2, <2>4, <2>5, <2>7, <2>8
<1> QED
  BY <1>4, <1>5

\* The recipes and reagents rows of a batch.
RecipesOf(batch, recipes) == UNION {VariantRows(job, recipes[job.recipe]) : job \in batch}
ReagentsOf(batch, recipes) ==
  UNION {KeyedRows(job, recipes[job.recipe], Reagents(recipes[job.recipe])) : job \in batch}

LEMMA BatchLoadsAre ==
  ASSUME NEW batch, NEW recipes
  PROVE  \E a, d : BatchLoads(batch, recipes)
                     = <<Load("items", a, "nothing"),
                         Load("recipes", SetToSeq(RecipesOf(batch, recipes)), "update"),
                         Load("reagents", SetToSeq(ReagentsOf(batch, recipes)), "update"),
                         Load("slots", d, "update")>>
<1> DEFINE a == SetToSeq({Entry(i, "stub") :
                            i \in UNION {ItemReferences(recipes[job.recipe]) : job \in batch}})
           d == SetToSeq(UNION {KeyedRows(job, recipes[job.recipe], Slots(recipes[job.recipe])) :
                                  job \in batch})
<1>1. BatchLoads(batch, recipes)
        = <<Load("items", a, "nothing"),
            Load("recipes", SetToSeq(RecipesOf(batch, recipes)), "update"),
            Load("reagents", SetToSeq(ReagentsOf(batch, recipes)), "update"),
            Load("slots", d, "update")>>
  BY DEF BatchLoads, RecipesOf, ReagentsOf
<1> HIDE DEF a, d
<1> QED
  BY <1>1

-----------------------------------------------------------------------------
(* Type correctness *)

\* At first nothing is stored and the loop looks at the stages.
LEMMA InitTyped == Init => TypeOK
<1> SUFFICES ASSUME Init PROVE TypeOK
  OBVIOUS
<1>1. history \in Histories /\ edition \in DOMAIN history
  <2>1. history \in Seq(Catalogues) /\ history # <<>>
    BY SeedAssumption DEF Init
  <2>2. Len(history) \in Nat \ {0} /\ DOMAIN history = 1..Len(history)
    BY <2>1, EmptySeq, LenProperties
  <2> QED
    BY <2>2 DEF Init
<1>2. scan \in [startingID : Nat, lastID : Nat, rows : Seq(ItemRow)] /\ scan.startingID = scan.lastID + 1
  BY EmptySeq DEF Init, NoScan
<1>3. Loads(staged) /\ FullUpdates(staged)
  BY DEF Init, Loads, FullUpdates
<1>4. DOMAIN db = Tables
  BY DEF Init, EmptyDatabase
<1>5. status \subseteq Names /\ known \subseteq Nat /\ faults \in Nat /\ stage \in 1..3
  BY DEF Init
<1>6. pc = "check" /\ staged = <<>>
  BY DEF Init
<1> QED
  BY <1>1, <1>2, <1>3, <1>4, <1>5, <1>6
     DEF TypeOK, ItemSteps, ProfessionSteps, RecipeSteps, Between

\* A step keeps the types.
LEMMA NextTyped ==
  ASSUME TypeOK, [Next]_vars
  PROVE  TypeOK'
<1>0. DOMAIN db' = Tables
  BY EveryStepWrites DEF Written
<1>1. CASE UNCHANGED vars
  BY <1>1 DEF TypeOK, vars
<1>2. CASE NextStage
  <2>1. /\ pc = "check" /\ UNCHANGED <<upstream, db, status, scan, jobs, staged, faults>>
    BY <1>2 DEF NextStage
  <2>2. known' \subseteq Nat
    BY <1>2, NextStageMeaning, ApiTyped DEF Catalogues, TypeOK
  <2>3. \/ pc' = "polling" /\ stage' = stage
        \/ stage' = 1 /\ pc' = "search"
        \/ stage' = 2 /\ pc' = "professions"
        \/ stage' = 3 /\ pc' = "list"
    BY <1>2, NextStageMeaning
  <2> QED
    BY <1>0, <2>1, <2>2, <2>3
       DEF TypeOK, upstream, ItemSteps, ProfessionSteps, RecipeSteps, Between, Committing
<1>3. CASE Mark
  <2>1. status' \subseteq Names
    BY <1>3, MarkedMeaning DEF Mark, TypeOK
  <2> QED
    BY <1>0, <1>3, <2>1
       DEF Mark, TypeOK, upstream, ItemSteps, ProfessionSteps, RecipeSteps, Between, Committing
<1>4. CASE RecordError
  BY <1>0, <1>4
     DEF RecordError, TypeOK, upstream, ItemSteps, ProfessionSteps, RecipeSteps, Between, Committing
<1>5. CASE SearchItems
  <2>1. /\ pc = "search" /\ UNCHANGED <<upstream, db, status, stage, jobs, known, faults>>
        /\ scan' \in [startingID : Nat, lastID : Nat, rows : Seq(ItemRow)]
        /\ scan'.startingID = scan'.lastID + 1
        /\ \/ pc' = "lastFlush" /\ staged' = ItemLoads(scan'.rows)
           \/ pc' = "flush" /\ staged' = ItemLoads(scan'.rows)
           \/ pc' = "search" /\ staged' = staged
    BY <1>5, SearchMeaning DEF TypeOK
  <2>2. scan'.rows \in Seq(ItemRow)
    BY <2>1
  <2>3. Loads(staged') /\ FullUpdates(staged')
    BY <2>1, <2>2, ItemLoadsTyped DEF TypeOK
  <2> QED
    BY <1>0, <2>1, <2>3
       DEF TypeOK, upstream, ItemSteps, ProfessionSteps, RecipeSteps, Between, Committing
<1>6. ASSUME NEW at \in Committing, NEW goto \in {"search", "mark", "batches"}, Commit(at, goto),
             scan' = scan \/ scan' = [scan EXCEPT !.rows = <<>>],
             at \in ItemSteps => goto \in {"search", "mark"},
             at \in ProfessionSteps => goto = "mark",
             at \in RecipeSteps => goto = "batches"
      PROVE  TypeOK'
  <2>1. /\ pc = at /\ pc' \in {goto, "failed"} /\ staged' = <<>>
        /\ UNCHANGED <<upstream, status, stage, jobs, known, faults>>
    BY <1>6, CommitMeaning
  <2>2. /\ scan' \in [startingID : Nat, lastID : Nat, rows : Seq(ItemRow)]
        /\ scan'.startingID = scan'.lastID + 1
    BY <1>6, EmptySeq DEF TypeOK
  <2>3. Loads(<<>>) /\ FullUpdates(<<>>)
    BY DEF Loads, FullUpdates
  <2> QED
    BY <1>0, <1>6, <2>1, <2>2, <2>3
       DEF TypeOK, upstream, ItemSteps, ProfessionSteps, RecipeSteps, Between, Committing
<1>7. CASE FlushItems
  BY <1>6, <1>7 DEF FlushItems, Committing, ItemSteps, ProfessionSteps, RecipeSteps
<1>8. CASE StoreProfessions
  BY <1>6, <1>8 DEF StoreProfessions, Committing, ItemSteps, ProfessionSteps, RecipeSteps
<1>9. CASE StoreHierarchy
  BY <1>6, <1>9 DEF StoreHierarchy, Committing, ItemSteps, ProfessionSteps, RecipeSteps
<1>10. CASE StoreBatch
  BY <1>6, <1>10 DEF StoreBatch, Committing, ItemSteps, ProfessionSteps, RecipeSteps
<1>11. CASE ListProfessions
  <2>1. Loads(staged') /\ FullUpdates(staged')
    BY <1>11, OtherLoadsTyped DEF ListProfessions
  <2> QED
    BY <1>0, <1>11, <2>1
       DEF ListProfessions, TypeOK, upstream, ItemSteps, ProfessionSteps, RecipeSteps, Between, Committing
<1>12. CASE ListRecipes
  <2>1. Loads(staged') /\ FullUpdates(staged')
    BY <1>12, OtherLoadsTyped DEF ListRecipes
  <2> QED
    BY <1>0, <1>12, <2>1
       DEF ListRecipes, TypeOK, upstream, ItemSteps, ProfessionSteps, RecipeSteps, Between, Committing
<1>13. CASE TakeBatch
  <2>1. /\ pc = "batches" /\ UNCHANGED <<upstream, db, status, stage, scan, known, faults>>
        /\ \/ pc' = "failed" /\ staged' = staged
           \/ pc' = "storeBatch" /\ \E batch : staged' = BatchLoads(batch, Api.recipes)
    BY <1>13 DEF TakeBatch
  <2>2. Loads(staged') /\ FullUpdates(staged')
    <3>1. ASSUME NEW batch
          PROVE  /\ Loads(BatchLoads(batch, Api.recipes))
                 /\ FullUpdates(BatchLoads(batch, Api.recipes))
      BY BatchLoadsAre, OtherLoadsTyped
    <3> QED
      BY <2>1, <3>1 DEF TypeOK
  <2> QED
    BY <1>0, <2>1, <2>2
       DEF TypeOK, upstream, ItemSteps, ProfessionSteps, RecipeSteps, Between, Committing
<1>14. CASE AllBatchesStored
  BY <1>0, <1>14
     DEF AllBatchesStored, TypeOK, upstream, ItemSteps, ProfessionSteps, RecipeSteps, Between, Committing
<1>15. CASE Fails
  <2>1. status' \subseteq Names
    BY <1>15, MarkedMeaning DEF Fails, TypeOK
  <2> QED
    BY <1>0, <1>15, <2>1, FailsMeaning
       DEF TypeOK, upstream, ItemSteps, ProfessionSteps, RecipeSteps, Between, Committing
<1>16. CASE Restart
  <2>1. /\ scan' \in [startingID : Nat, lastID : Nat, rows : Seq(ItemRow)]
        /\ scan'.startingID = scan'.lastID + 1
    BY <1>16, EmptySeq DEF Restart, NoScan
  <2>2. Loads(<<>>) /\ FullUpdates(<<>>)
    BY DEF Loads, FullUpdates
  <2> QED
    BY <1>0, <1>16, <2>1, <2>2
       DEF Restart, TypeOK, upstream, ItemSteps, ProfessionSteps, RecipeSteps, Between, Committing
<1>17. CASE Publish
  <2>1. edition' \in DOMAIN history
    BY <1>17, ApiTyped DEF Publish, TypeOK
  <2> QED
    BY <1>0, <1>17, <2>1 DEF Publish, TypeOK
<1> QED
  BY <1>1, <1>2, <1>3, <1>4, <1>5, <1>7, <1>8, <1>9, <1>10, <1>11, <1>12, <1>13, <1>14, <1>15,
     <1>16, <1>17 DEF Next, Seed

LEMMA TypeInvariance == Spec => []TypeOK
  BY InitTyped, NextTyped, PTL DEF Spec

\* The seeder's state keeps its types, and the transaction under way is one of
\* the step it is at, for any catalogues, sizes, failures and crashes.
THEOREM TypeCorrect == Spec => []TypeOK
  BY TypeInvariance

\* No stub and no later scan replaces an item's metadata (MetadataKept of
\* SeedStages; the upserts of seeding_sql.go), for any catalogues, page and
\* batch sizes, failures and crashes.
THEOREM MetadataIsKept == Spec => MetadataKept
<1>1. TypeOK /\ [Next]_vars
        => [\A i \in FullItems : i \in DOMAIN db'.items /\ db'.items[i] = "full"]_vars
  BY EveryStepWrites, FullStaysFull
<1> QED
  BY <1>1, TypeInvariance, PTL DEF Spec, MetadataKept

-----------------------------------------------------------------------------
(* Complete items *)

\* A later stage runs only after the items are marked; the loop looks at the
\* stages with no scan under way.
ItemsFirst ==
  /\ stage # 1 /\ pc \notin Between => "items" \in status
  /\ pc = "check" => scan = NoScan \/ "items" \in status

\* The transaction of a scan stores the rows of the scan.
ScanStaged == pc \in {"flush", "lastFlush"} => staged = ItemLoads(scan.rows)

Sorted == \A e \in DOMAIN history : history[e].sorted

\* Whatever the scan has passed is in its rows or stored.
Covered ==
  Sorted =>
    /\ pc \in ItemSteps => known \subseteq Api.items
    /\ pc \in {"search", "flush"} =>
         \A i \in known : i < scan.startingID => i \in Keys(scan.rows) \cup FullItems
    /\ pc = "lastFlush" => known \subseteq Keys(scan.rows) \cup FullItems
    /\ pc = "mark" /\ stage = 1 => known \subseteq FullItems
    /\ "items" \in status => known \subseteq FullItems

ItemsInv == ItemsFirst /\ ScanStaged /\ Covered

\* At first nothing is known and nothing is marked.
LEMMA InitItems == Init => ItemsInv
  BY DEF Init, ItemsInv, ItemsFirst, ScanStaged, Covered, ItemSteps, Between

\* A step keeps the order of the stages and the transaction of a scan.
LEMMA NextItemsFirst ==
  ASSUME TypeOK, ItemsFirst, ScanStaged, [Next]_vars
  PROVE  ItemsFirst' /\ ScanStaged'
<1> USE DEF ItemsFirst, ScanStaged, Between
<1>1. CASE UNCHANGED vars
  BY <1>1 DEF vars
<1>2. CASE NextStage
  <2>1. pc = "check" /\ UNCHANGED <<status, scan, staged>>
    BY <1>2 DEF NextStage
  <2> QED
    BY <1>2, <2>1, NextStageMeaning
<1>3. CASE Mark
  <2>1. /\ status' = status \cup Marked /\ pc' \in {"check", "markSecond"}
        /\ UNCHANGED <<scan, staged, stage>> /\ pc \in {"mark", "markSecond"}
    BY <1>3 DEF Mark
  <2>2. "items" \in status'
    <3>1. pc = "mark" /\ stage = 1 => "items" \in Marked
      BY MarkedMeaning DEF TypeOK
    <3>2. pc = "markSecond" => stage = 3
      BY DEF TypeOK, RecipeSteps
    <3> QED
      BY <2>1, <3>1, <3>2
  <2> QED
    BY <2>1, <2>2
<1>4. CASE RecordError
  BY <1>4 DEF RecordError
<1>5. CASE SearchItems
  <2>1. /\ UNCHANGED <<status, stage>> /\ pc = "search" /\ pc' \in ItemSteps
        /\ pc' \in {"flush", "lastFlush"} => staged' = ItemLoads(scan'.rows)
    BY <1>5, SearchMeaning DEF ItemSteps
  <2>2. stage = 1
    BY <2>1 DEF TypeOK, ItemSteps
  <2> QED
    BY <2>1, <2>2 DEF ItemSteps
<1>6. ASSUME NEW at \in Committing, NEW goto \in {"search", "mark", "batches"}, Commit(at, goto)
      PROVE  ItemsFirst' /\ ScanStaged'
  <2>1. pc = at /\ pc' \in {goto, "failed"} /\ UNCHANGED <<status, stage>>
    BY <1>6, CommitMeaning
  <2> QED
    BY <2>1 DEF Committing
<1>7. CASE FlushItems
  BY <1>6, <1>7 DEF FlushItems, Committing
<1>8. CASE StoreProfessions
  BY <1>6, <1>8 DEF StoreProfessions, Committing
<1>9. CASE StoreHierarchy
  BY <1>6, <1>9 DEF StoreHierarchy, Committing
<1>10. CASE StoreBatch
  BY <1>6, <1>10 DEF StoreBatch, Committing
<1>11. CASE ListProfessions
  BY <1>11 DEF ListProfessions
<1>12. CASE ListRecipes
  BY <1>12 DEF ListRecipes
<1>13. CASE TakeBatch
  <2>1. pc = "batches" /\ pc' \in {"failed", "storeBatch"} /\ UNCHANGED <<status, stage>>
    BY <1>13 DEF TakeBatch
  <2> QED
    BY <2>1
<1>14. CASE AllBatchesStored
  BY <1>14 DEF AllBatchesStored
<1>15. CASE Fails
  BY <1>15, FailsMeaning
<1>16. CASE Restart
  BY <1>16 DEF Restart
<1>17. CASE Publish
  BY <1>17 DEF Publish
<1> QED
  BY <1>1, <1>2, <1>3, <1>4, <1>5, <1>7, <1>8, <1>9, <1>10, <1>11, <1>12, <1>13, <1>14, <1>15,
     <1>16, <1>17 DEF Next, Seed

\* A commit of a scan's rows makes their items full.
LEMMA FlushStores ==
  ASSUME TypeOK, staged = ItemLoads(scan.rows),
         ExecStagedLoads(db, staged).ok, db' = ExecStagedLoads(db, staged).db
  PROVE  Keys(scan.rows) \subseteq FullItems'
<1> DEFINE load == Load("items", scan.rows, "update")
<1>1. load.table = "items" /\ load.rows = scan.rows /\ load.onConflict = "update"
  BY DEF Load
<1>2. staged = <<load>> /\ "items" \in Tables
  BY DEF ItemLoads, Tables
<1> HIDE DEF load
<1>3. \A key \in Keys(scan.rows) :
        key \in DOMAIN db'["items"] /\ Holds(scan.rows, key, db'["items"][key])
  BY <1>1, <1>2, OneUpdate DEF TypeOK
<1>4. \A e \in Range(scan.rows) : e.row = "full"
  <2>1. scan.rows \in Seq(ItemRow)
    BY DEF TypeOK
  <2>2. Range(scan.rows) \subseteq ItemRow
    BY <2>1, SeqRange
  <2> QED
    BY <2>2 DEF ItemRow
<1>5. \A key \in Keys(scan.rows) : db'["items"][key] = "full"
  BY <1>3, <1>4 DEF Holds
<1> QED
  BY <1>3, <1>5 DEF FullItems

\* A step keeps what is covered.
LEMMA NextCovered ==
  ASSUME ItemsGrow, TypeOK, ItemsInv, [Next]_vars
  PROVE  Covered'
<1>1. FullItems \subseteq FullItems'
  BY EveryStepWrites, FullStaysFull DEF FullItems
<1>2. Sorted' => Sorted
  <2>1. history' = history
    BY CommitMeaning, FailsMeaning, SearchMeaning
       DEF Next, Seed, vars, upstream, NextStage, Mark, RecordError, FlushItems, ListProfessions,
           StoreProfessions, ListRecipes, StoreHierarchy, TakeBatch, StoreBatch, AllBatchesStored,
           Restart, Publish
  <2> QED
    BY <2>1 DEF Sorted
<1> SUFFICES ASSUME Sorted'
             PROVE  /\ pc' \in ItemSteps => known' \subseteq Api'.items
                    /\ pc' \in {"search", "flush"} =>
                         \A i \in known' : i < scan'.startingID => i \in Keys(scan'.rows) \cup FullItems'
                    /\ pc' = "lastFlush" => known' \subseteq Keys(scan'.rows) \cup FullItems'
                    /\ pc' = "mark" /\ stage' = 1 => known' \subseteq FullItems'
                    /\ "items" \in status' => known' \subseteq FullItems'
  BY DEF Covered
<1>3. /\ pc \in ItemSteps => known \subseteq Api.items
      /\ pc \in {"search", "flush"} =>
           \A i \in known : i < scan.startingID => i \in Keys(scan.rows) \cup FullItems
      /\ pc = "lastFlush" => known \subseteq Keys(scan.rows) \cup FullItems
      /\ pc = "mark" /\ stage = 1 => known \subseteq FullItems
      /\ "items" \in status => known \subseteq FullItems
  BY <1>2 DEF ItemsInv, Covered
\* The steps that lead out of a scan or pass it by.
<1>4. ASSUME known' = known, pc' \notin ItemSteps,
             pc' = "mark" => stage' # 1,
             "items" \in status' => "items" \in status \/ (pc = "mark" /\ stage = 1)
      PROVE  /\ pc' \in ItemSteps => known' \subseteq Api'.items
             /\ pc' \in {"search", "flush"} =>
                  \A i \in known' : i < scan'.startingID => i \in Keys(scan'.rows) \cup FullItems'
             /\ pc' = "lastFlush" => known' \subseteq Keys(scan'.rows) \cup FullItems'
             /\ pc' = "mark" /\ stage' = 1 => known' \subseteq FullItems'
             /\ "items" \in status' => known' \subseteq FullItems'
  <2>1. pc' \notin {"search", "flush", "lastFlush"}
    BY <1>4 DEF ItemSteps
  <2>2. "items" \in status' => known' \subseteq FullItems'
    <3>1. "items" \in status' => known \subseteq FullItems
      BY <1>3, <1>4
    <3> QED
      BY <1>1, <1>4, <3>1
  <2> QED
    BY <1>4, <2>1, <2>2
<1>5. CASE UNCHANGED vars
  <2>1. /\ Api' = Api /\ db' = db
        /\ UNCHANGED <<pc, known, scan, stage, status>>
    BY <1>5 DEF vars, Api
  <2> QED
    BY <1>1, <1>3, <2>1
<1>6. CASE NextStage
  <2>1. pc = "check" /\ UNCHANGED <<upstream, db, status, scan>>
    BY <1>6 DEF NextStage
  <2>2. CASE stage' = 1 /\ pc' = "search" /\ known' = Api.items /\ "items" \notin status
    <3>1. scan = NoScan
      BY <2>1, <2>2 DEF ItemsInv, ItemsFirst
    <3>2. Api.items \subseteq Nat \ {0}
      BY ApiTyped DEF Catalogues
    <3>3. Api' = Api
      BY <2>1 DEF Api, upstream
    <3>4. \A i \in known' : ~(i < scan'.startingID)
      BY <2>1, <2>2, <3>1, <3>2 DEF NoScan
    <3> QED
      BY <2>1, <2>2, <3>3, <3>4 DEF ItemSteps
  <2>3. CASE known' = known /\ pc' \in {"polling", "professions", "list"}
    <3>1. pc' \notin ItemSteps /\ pc' # "mark"
      BY <2>3 DEF ItemSteps
    <3> QED
      BY <1>4, <2>1, <2>3, <3>1
  <2> QED
    BY <1>6, <2>2, <2>3, NextStageMeaning
<1>7. CASE Mark
  <2>1. /\ status' = status \cup Marked /\ pc' \in {"check", "markSecond"}
        /\ known' = known
    BY <1>7 DEF Mark
  <2>2. "items" \in Marked => pc = "mark" /\ stage = 1
    BY MarkedMeaning DEF TypeOK
  <2>3. pc' \notin ItemSteps /\ pc' # "mark"
    BY <2>1 DEF ItemSteps
  <2>4. "items" \in status' => "items" \in status \/ (pc = "mark" /\ stage = 1)
    BY <2>1, <2>2
  <2> QED
    BY <1>4, <2>1, <2>3, <2>4
<1>8. CASE RecordError
  <2>1. pc' = "exit" /\ known' = known /\ ("items" \in status' => "items" \in status)
    BY <1>8 DEF RecordError
  <2>2. pc' \notin ItemSteps /\ pc' # "mark"
    BY <2>1 DEF ItemSteps
  <2> QED
    BY <1>4, <2>1, <2>2
<1>9. CASE SearchItems
  <2>1. /\ pc = "search" /\ UNCHANGED <<upstream, db, status, stage, known>>
    BY <1>9, SearchMeaning
  <2>2. /\ Api' = Api /\ known \subseteq Api.items /\ known \subseteq Nat
        /\ scan.startingID \in Nat
    BY <1>3, <2>1 DEF Api, upstream, ItemSteps, TypeOK
  <2>3. Api.sorted
    BY <1>2 DEF Sorted, Api, TypeOK
  <2>4. PICK page \in Pages(scan.startingID) :
          \/ page = {} /\ pc' = "lastFlush" /\ scan' = scan
          \/ /\ page # {} /\ pc' \in {"flush", "search"}
             /\ scan' \in [startingID : Nat, lastID : Nat, rows : Seq(ItemRow)]
             /\ scan'.startingID = scan'.lastID + 1
             /\ scan'.lastID \in page /\ \A i \in page : i <= scan'.lastID
             /\ Keys(scan'.rows) = Keys(scan.rows) \cup page
    BY <1>9, SearchMeaning
  <2>5. /\ page = {} => \A i \in Api.items : i < scan.startingID
        /\ \A i \in Api.items : \A j \in page : i >= scan.startingID /\ i <= j => i \in page
    BY <2>3, PagesMeaning
  <2>6. CASE page = {}
    <3>1. known \subseteq Keys(scan.rows) \cup FullItems
      BY <1>3, <2>1, <2>2, <2>5, <2>6
    <3> QED
      BY <1>1, <1>3, <2>1, <2>2, <2>4, <2>6, <3>1
  <2>7. CASE page # {}
    <3>1. ASSUME NEW i \in known, i < scan'.startingID
          PROVE  i \in Keys(scan'.rows) \cup FullItems
      <4>1. i \in Nat /\ i \in Api.items
        BY <2>2
      <4>2. CASE i < scan.startingID
        BY <1>3, <2>1, <2>4, <2>7, <4>2
      <4>3. CASE ~(i < scan.startingID)
        <5>1. i >= scan.startingID /\ scan'.lastID \in Nat /\ i <= scan'.lastID
          BY <2>2, <2>4, <2>7, <3>1, <4>1, <4>3
        <5>2. i \in page
          BY <2>4, <2>5, <2>7, <4>1, <5>1
        <5> QED
          BY <2>4, <2>7, <5>2
      <4> QED
        BY <4>2, <4>3
    <3> QED
      BY <1>1, <1>3, <2>1, <2>2, <2>4, <2>7, <3>1
  <2> QED
    BY <2>6, <2>7
<1>10. CASE FlushItems
  <2>1. /\ \/ pc = "flush" /\ pc' \in {"search", "failed"}
           \/ pc = "lastFlush" /\ pc' \in {"mark", "failed"}
        /\ UNCHANGED <<upstream, status, stage, known>>
        /\ pc' # "failed" => /\ ExecStagedLoads(db, staged).ok
                             /\ db' = ExecStagedLoads(db, staged).db
    BY <1>10, CommitMeaning DEF FlushItems
  <2>2. pc' # "failed" => Keys(scan.rows) \subseteq FullItems'
    BY <2>1, FlushStores DEF ItemsInv, ScanStaged
  <2>3. scan'.startingID = scan.startingID
    BY <1>10 DEF FlushItems, TypeOK
  <2>4. Api' = Api /\ known \subseteq Api.items
    BY <1>3, <2>1 DEF Api, upstream, ItemSteps
  <2>5. pc' = "search" => \A i \in known : i < scan.startingID => i \in FullItems'
    BY <1>1, <1>3, <2>1, <2>2
  <2>6. pc' = "mark" => known \subseteq FullItems'
    BY <1>1, <1>3, <2>1, <2>2
  <2> QED
    BY <1>1, <1>3, <2>1, <2>3, <2>4, <2>5, <2>6 DEF ItemSteps
<1>11. CASE StoreProfessions
  <2>1. /\ pc = "storeProfessions" /\ pc' \in {"mark", "failed"}
        /\ UNCHANGED <<known, status, stage>>
    BY <1>11, CommitMeaning DEF StoreProfessions
  <2>2. stage' # 1 /\ pc' \notin ItemSteps
    BY <2>1 DEF TypeOK, ProfessionSteps, ItemSteps
  <2> QED
    BY <1>4, <2>1, <2>2
<1>12. CASE StoreHierarchy
  <2>1. pc' \in {"batches", "failed"} /\ UNCHANGED <<known, status>>
    BY <1>12, CommitMeaning DEF StoreHierarchy
  <2>2. pc' \notin ItemSteps /\ pc' # "mark"
    BY <2>1 DEF ItemSteps
  <2> QED
    BY <1>4, <2>1, <2>2
<1>13. CASE StoreBatch
  <2>1. pc' \in {"batches", "failed"} /\ UNCHANGED <<known, status>>
    BY <1>13, CommitMeaning DEF StoreBatch
  <2>2. pc' \notin ItemSteps /\ pc' # "mark"
    BY <2>1 DEF ItemSteps
  <2> QED
    BY <1>4, <2>1, <2>2
<1>14. CASE ListProfessions
  <2>1. pc' \in {"storeProfessions", "hierarchy"} /\ UNCHANGED <<known, status>>
    BY <1>14 DEF ListProfessions
  <2>2. pc' \notin ItemSteps /\ pc' # "mark"
    BY <2>1 DEF ItemSteps
  <2> QED
    BY <1>4, <2>1, <2>2
<1>15. CASE ListRecipes
  <2>1. pc' \in {"storeProfessions", "hierarchy"} /\ UNCHANGED <<known, status>>
    BY <1>15 DEF ListRecipes
  <2>2. pc' \notin ItemSteps /\ pc' # "mark"
    BY <2>1 DEF ItemSteps
  <2> QED
    BY <1>4, <2>1, <2>2
<1>16. CASE TakeBatch
  <2>1. pc' \in {"failed", "storeBatch"} /\ UNCHANGED <<known, status>>
    BY <1>16 DEF TakeBatch
  <2>2. pc' \notin ItemSteps /\ pc' # "mark"
    BY <2>1 DEF ItemSteps
  <2> QED
    BY <1>4, <2>1, <2>2
<1>17. CASE AllBatchesStored
  <2>1. pc = "batches" /\ pc' = "mark" /\ UNCHANGED <<known, status, stage>>
    BY <1>17 DEF AllBatchesStored
  <2>2. stage' # 1 /\ pc' \notin ItemSteps
    BY <2>1 DEF TypeOK, RecipeSteps, ItemSteps
  <2> QED
    BY <1>4, <2>1, <2>2
<1>18. CASE Fails
  <2>1. status' \in {status, status \cup Marked}
    BY <1>18 DEF Fails
  <2>2. "items" \in Marked => pc = "mark" /\ stage = 1
    BY MarkedMeaning DEF TypeOK
  <2>3. pc' \in {"failed", "exit"} /\ known' = known
    BY <1>18, FailsMeaning
  <2>4. pc' \notin ItemSteps /\ pc' # "mark"
    BY <2>3 DEF ItemSteps
  <2>5. "items" \in status' => "items" \in status \/ (pc = "mark" /\ stage = 1)
    BY <2>1, <2>2
  <2> QED
    BY <1>4, <2>3, <2>4, <2>5
<1>19. CASE Restart
  <2>1. pc' = "check" /\ UNCHANGED <<status, known>>
    BY <1>19 DEF Restart
  <2>2. pc' \notin ItemSteps /\ pc' # "mark"
    BY <2>1 DEF ItemSteps
  <2> QED
    BY <1>4, <2>1, <2>2
<1>20. CASE Publish
  <2>1. /\ edition' = edition + 1 /\ history' = history
        /\ UNCHANGED <<db, status, pc, stage, scan, known>>
    BY <1>20 DEF Publish
  <2>2. edition \in DOMAIN history /\ edition + 1 \in DOMAIN history /\ edition <= edition + 1
    BY <1>20, ApiTyped DEF Publish, TypeOK
  <2>3. Api.items \subseteq Api'.items
    BY <2>1, <2>2 DEF ItemsGrow, Api, TypeOK
  <2> QED
    BY <1>1, <1>3, <2>1, <2>3
<1> QED
  BY <1>5, <1>6, <1>7, <1>8, <1>9, <1>10, <1>11, <1>12, <1>13, <1>14, <1>15, <1>16, <1>17,
     <1>18, <1>19, <1>20 DEF Next, Seed

\* A completed items stage holds the metadata of every item that the API listed
\* when the scan began (ItemsComplete of SeedStages; seedItems of seeder.go),
\* whatever the pages and the batches, the failures and restarts, and the items
\* that are added meanwhile; an API that answers in id order and takes no item
\* back is needed.
THEOREM ItemsAreComplete ==
  ASSUME ItemsGrow
  PROVE  Spec => []ItemsComplete
<1>1. TypeOK /\ ItemsInv /\ [Next]_vars => ItemsInv'
  BY NextItemsFirst, NextCovered DEF ItemsInv
<1>2. ItemsInv => ItemsComplete
  BY DEF ItemsInv, Covered, Sorted, ItemsComplete
<1> QED
  BY <1>1, <1>2, InitItems, TypeInvariance, PTL DEF Spec

-----------------------------------------------------------------------------
(* The listing *)

\* What the recursive function that joins k sequences has to be.
IsFlat(f, seqs, k) == f = [i \in 1..k |-> IF i = 1 THEN seqs[i] ELSE f[i - 1] \o seqs[i]]

\* Sequences in a row are a sequence.
LEMMA FlattenTyped ==
  ASSUME NEW S, NEW n \in Nat, NEW seqs \in [1..n -> Seq(S)]
  PROVE  FlattenSeq(seqs) \in Seq(S)
<1> DEFINE flat == CHOOSE f : f = [i \in 1..Len(seqs) |->
                                     IF i = 1 THEN seqs[i] ELSE f[i - 1] \o seqs[i]]
           A == {k \in Nat : k <= n => \E f : IsFlat(f, seqs, k)}
<1>0. seqs \in Seq(Seq(S)) /\ Len(seqs) = n
  BY SeqDef, LenProperties
<1>1. 0 \in A
  <2> DEFINE f == [i \in {} |-> <<>>]
  <2>1. 1..0 = {}
    OBVIOUS
  <2>2. IsFlat(f, seqs, 0)
    BY <2>1 DEF IsFlat
  <2> QED
    BY <2>2
<1>2. ASSUME NEW k \in Nat, k \in A PROVE k + 1 \in A
  <2> SUFFICES ASSUME k + 1 <= n PROVE \E f : IsFlat(f, seqs, k + 1)
    OBVIOUS
  <2>1. PICK f : IsFlat(f, seqs, k)
    BY <1>2
  <2> DEFINE g == [i \in 1..(k + 1) |->
                     IF i = k + 1 THEN IF k = 0 THEN seqs[1] ELSE f[k] \o seqs[k + 1] ELSE f[i]]
  <2>2. ASSUME NEW i \in 1..(k + 1)
        PROVE  g[i] = IF i = 1 THEN seqs[i] ELSE g[i - 1] \o seqs[i]
    <3>1. CASE i = k + 1
      <4>1. CASE k = 0
        BY <3>1, <4>1
      <4>2. CASE k # 0
        <5>1. i # 1 /\ i - 1 = k /\ k \in 1..(k + 1) /\ k # k + 1
          BY <3>1, <4>2
        <5>2. g[k] = f[k]
          BY <5>1
        <5> QED
          BY <3>1, <4>2, <5>1, <5>2
      <4> QED
        BY <4>1, <4>2
    <3>2. CASE i # k + 1
      <4>1. i \in 1..k /\ g[i] = f[i]
        BY <3>2
      <4>2. f[i] = IF i = 1 THEN seqs[i] ELSE f[i - 1] \o seqs[i]
        BY <2>1, <4>1 DEF IsFlat
      <4>3. i # 1 => g[i - 1] = f[i - 1]
        BY <4>1
      <4> QED
        BY <4>1, <4>2, <4>3
    <3> QED
      BY <3>1, <3>2
  <2> HIDE DEF g
  <2>3. g = [i \in 1..(k + 1) |-> g[i]]
    BY DEF g
  <2>4. IsFlat(g, seqs, k + 1)
    BY <2>2, <2>3 DEF IsFlat
  <2> QED
    BY <2>4
<1> HIDE DEF A
<1>3. n \in A
  BY <1>1, <1>2, Induction
<1>4. flat = [i \in 1..n |-> IF i = 1 THEN seqs[i] ELSE flat[i - 1] \o seqs[i]]
  <2>1. \E f : IsFlat(f, seqs, n)
    BY <1>3 DEF A
  <2> QED
    BY <1>0, <2>1 DEF IsFlat
<1> HIDE DEF flat
<1> DEFINE B == {k \in Nat : k + 1 <= n => flat[k + 1] \in Seq(S)}
<1>5. 0 \in B
  <2> SUFFICES ASSUME 1 <= n PROVE flat[1] \in Seq(S)
    OBVIOUS
  <2>1. 1 \in 1..n
    OBVIOUS
  <2>2. flat[1] = seqs[1]
    BY <1>4, <2>1
  <2> QED
    BY <2>1, <2>2
<1>6. ASSUME NEW k \in Nat, k \in B PROVE k + 1 \in B
  <2> SUFFICES ASSUME k + 1 + 1 <= n PROVE flat[k + 1 + 1] \in Seq(S)
    OBVIOUS
  <2>1. k + 1 + 1 \in 1..n /\ k + 1 + 1 # 1 /\ (k + 1 + 1) - 1 = k + 1 /\ k + 1 <= n
    OBVIOUS
  <2>2. flat[k + 1 + 1] = flat[k + 1] \o seqs[k + 1 + 1]
    BY <1>4, <2>1
  <2>3. flat[k + 1] \in Seq(S) /\ seqs[k + 1 + 1] \in Seq(S)
    BY <1>6, <2>1
  <2> QED
    BY <2>2, <2>3, ConcatProperties
<1> HIDE DEF B
<1>7. Nat \subseteq B
  BY <1>5, <1>6, Induction
<1>8. CASE n = 0
  <2>1. seqs = <<>>
    BY <1>0, <1>8, EmptySeq
  <2>2. FlattenSeq(seqs) = seqs
    BY <1>0, <1>8 DEF FlattenSeq
  <2> QED
    BY <2>1, <2>2, EmptySeq
<1>9. CASE n # 0
  <2>1. FlattenSeq(seqs) = flat[n]
    BY <1>0, <1>9 DEF FlattenSeq, flat
  <2>2. n - 1 \in Nat /\ (n - 1) + 1 = n
    BY <1>9
  <2>3. n - 1 \in B
    BY <1>7, <2>2
  <2> QED
    BY <2>1, <2>2, <2>3 DEF B
<1> QED
  BY <1>8, <1>9

\* A recipe to be stored, with its place.
Job == [recipe : Nat, place : Nat \X Nat \X STRING]

\* The listing of any professions is a sequence of jobs.
LEMMA ListingTyped ==
  ASSUME NEW ps \in Seq([id : Nat, tiers : Seq(SkillTiers)])
  PROVE  Listing(ps) \in Seq(Job)
<1> DEFINE OfCategory(p, t, c) == [k \in DOMAIN c.recipes |->
                                     [recipe |-> c.recipes[k], place |-> <<p, t, c.name>>]]
           OfTier(p, t) == FlattenSeq([k \in DOMAIN t.categories |->
                                         OfCategory(p, t.id, t.categories[k])])
           OfProfession(p) == FlattenSeq([k \in DOMAIN p.tiers |-> OfTier(p.id, p.tiers[k])])
<1>1. Listing(ps) = FlattenSeq([k \in DOMAIN ps |-> OfProfession(ps[k])])
  BY DEF Listing, Collect
<1>2. ASSUME NEW p \in Nat, NEW t \in Nat, NEW c \in [name : STRING, recipes : Seq(Nat)]
      PROVE  OfCategory(p, t, c) \in Seq(Job)
  <2>1. Len(c.recipes) \in Nat /\ DOMAIN c.recipes = 1..Len(c.recipes)
        /\ \A k \in 1..Len(c.recipes) : c.recipes[k] \in Nat
    BY LenProperties, ElementOfSeq
  <2>2. OfCategory(p, t, c) \in [1..Len(c.recipes) -> Job]
    BY <2>1 DEF Job
  <2> QED
    BY <2>1, <2>2, SeqDef
<1> HIDE DEF OfCategory
<1>3. ASSUME NEW p \in Nat, NEW t \in SkillTiers
      PROVE  OfTier(p, t) \in Seq(Job)
  <2>1. t.id \in Nat /\ t.categories \in Seq([name : STRING, recipes : Seq(Nat)])
    BY DEF SkillTiers
  <2>2. Len(t.categories) \in Nat /\ DOMAIN t.categories = 1..Len(t.categories)
        /\ \A k \in 1..Len(t.categories) : t.categories[k] \in [name : STRING, recipes : Seq(Nat)]
    BY <2>1, LenProperties, ElementOfSeq
  <2>3. [k \in DOMAIN t.categories |-> OfCategory(p, t.id, t.categories[k])]
          \in [1..Len(t.categories) -> Seq(Job)]
    BY <1>2, <2>1, <2>2
  <2> QED
    BY <2>2, <2>3, FlattenTyped
<1> HIDE DEF OfTier
<1>4. ASSUME NEW p \in [id : Nat, tiers : Seq(SkillTiers)]
      PROVE  OfProfession(p) \in Seq(Job)
  <2>1. p.id \in Nat /\ p.tiers \in Seq(SkillTiers)
    OBVIOUS
  <2>2. Len(p.tiers) \in Nat /\ DOMAIN p.tiers = 1..Len(p.tiers)
        /\ \A k \in 1..Len(p.tiers) : p.tiers[k] \in SkillTiers
    BY <2>1, LenProperties, ElementOfSeq
  <2>3. [k \in DOMAIN p.tiers |-> OfTier(p.id, p.tiers[k])] \in [1..Len(p.tiers) -> Seq(Job)]
    BY <1>3, <2>1, <2>2
  <2> QED
    BY <2>2, <2>3, FlattenTyped
<1> HIDE DEF OfProfession
<1>5. Len(ps) \in Nat /\ DOMAIN ps = 1..Len(ps)
      /\ \A k \in 1..Len(ps) : ps[k] \in [id : Nat, tiers : Seq(SkillTiers)]
  BY LenProperties, ElementOfSeq
<1>6. [k \in DOMAIN ps |-> OfProfession(ps[k])] \in [1..Len(ps) -> Seq(Job)]
  BY <1>4, <1>5
<1> QED
  BY <1>1, <1>5, <1>6, FlattenTyped

\* The skipping of recipes that are listed again is a run, too.
LEMMA FirstRun ==
  ASSUME NEW list, NEW n \in Nat, DOMAIN list = 1..n
  PROVE  \E h : IsRun("first", h, <<>>, list, n, FoldLeft(KeepFirst, <<>>, list))
<1> DEFINE Rec(g) == g = [s \in SUBSET (1..n) |->
                            IF s = {} THEN <<>> ELSE KeepFirst(g[s \ {Max(s)}], list[Max(s)])]
           f == CHOOSE g : Rec(g)
<1>1. \A g : Rec(g) <=> IsFold("first", g, <<>>, list, n)
  BY DEF IsFold, Step
<1>2. IsFold("first", f, <<>>, list, n)
  BY <1>1, FoldExists
<1>3. FoldLeft(KeepFirst, <<>>, list) = f[1..n]
  BY DEF FoldLeft, MapThenFoldSet
<1> HIDE DEF f
<1> QED
  BY <1>2, <1>3, FoldRun

\* The kept jobs are listed ones, one for each recipe that is listed.
OnePerRecipe(kept, list, n) ==
  /\ kept \in Seq(Job)
  /\ \A k \in 1..Len(kept) : \E j \in 1..n : kept[k] = list[j]
  /\ \A j \in 1..n : \E k \in 1..Len(kept) : kept[k].recipe = list[j].recipe
  /\ \A k, l \in 1..Len(kept) : kept[k].recipe = kept[l].recipe => k = l

LEMMA OnePerRecipeOf ==
  ASSUME NEW n, NEW list, NEW kept, NEW other, OnePerRecipe(kept, list, n),
         \A j \in 1..n : other[j] = list[j]
  PROVE  OnePerRecipe(kept, other, n)
<1>1. \A k \in 1..Len(kept) : \E j \in 1..n : kept[k] = other[j]
  BY DEF OnePerRecipe
<1>2. ASSUME NEW j \in 1..n PROVE \E k \in 1..Len(kept) : kept[k].recipe = other[j].recipe
  BY DEF OnePerRecipe
<1> QED
  BY <1>1, <1>2 DEF OnePerRecipe

LEMMA KeepFirstMeaning ==
  ASSUME NEW n \in Nat, NEW list \in [1..(n + 1) -> Job], NEW kept, OnePerRecipe(kept, list, n)
  PROVE  OnePerRecipe(KeepFirst(kept, list[n + 1]), list, n + 1)
<1> DEFINE job == list[n + 1]
           after == KeepFirst(kept, job)
<1>1. /\ kept \in Seq(Job) /\ Len(kept) \in Nat /\ DOMAIN kept = 1..Len(kept) /\ job \in Job
      /\ n + 1 \in 1..(n + 1) /\ \A j \in 1..n : j \in 1..(n + 1)
  BY LenProperties DEF OnePerRecipe
<1>2. CASE \E k \in DOMAIN kept : kept[k].recipe = job.recipe
  <2>1. after = kept
    BY <1>2 DEF KeepFirst
  <2>2. ASSUME NEW j \in 1..(n + 1)
        PROVE  \E k \in 1..Len(kept) : kept[k].recipe = list[j].recipe
    <3>1. CASE j = n + 1
      BY <1>1, <1>2, <3>1
    <3>2. CASE j # n + 1
      <4>1. j \in 1..n
        BY <3>2
      <4> QED
        BY <4>1 DEF OnePerRecipe
    <3> QED
      BY <3>1, <3>2
  <2> QED
    BY <1>1, <2>1, <2>2 DEF OnePerRecipe
<1>3. CASE ~ \E k \in DOMAIN kept : kept[k].recipe = job.recipe
  <2>1. after = Append(kept, job)
    BY <1>3 DEF KeepFirst
  <2>2. /\ after \in Seq(Job) /\ Len(after) = Len(kept) + 1
        /\ \A k \in 1..Len(kept) : after[k] = kept[k]
        /\ after[Len(kept) + 1] = job
    BY <1>1, <2>1, AppendProperties
  <2> HIDE DEF after, job
  <2>3. \A k \in 1..Len(after) : k \in 1..Len(kept) \/ k = Len(kept) + 1
    BY <1>1, <2>2
  <2>4. Len(kept) + 1 \in 1..Len(after) /\ \A k \in 1..Len(kept) : k \in 1..Len(after)
    BY <1>1, <2>2
  <2>5. ASSUME NEW k \in 1..Len(after) PROVE \E j \in 1..(n + 1) : after[k] = list[j]
    <3>1. CASE k \in 1..Len(kept)
      BY <1>1, <2>2, <3>1 DEF OnePerRecipe
    <3>2. CASE k = Len(kept) + 1
      BY <1>1, <2>2, <3>2 DEF job
    <3> QED
      BY <2>3, <3>1, <3>2
  <2>6. ASSUME NEW j \in 1..(n + 1) PROVE \E k \in 1..Len(after) : after[k].recipe = list[j].recipe
    <3>1. CASE j = n + 1
      BY <2>2, <2>4, <3>1 DEF job
    <3>2. CASE j # n + 1
      <4>1. j \in 1..n
        BY <3>2
      <4>2. PICK k \in 1..Len(kept) : kept[k].recipe = list[j].recipe
        BY <4>1 DEF OnePerRecipe
      <4> QED
        BY <2>2, <2>4, <4>2
    <3> QED
      BY <3>1, <3>2
  <2>7. \A k \in 1..Len(kept) : kept[k].recipe # job.recipe
    BY <1>1, <1>3 DEF job
  <2>8. \A k, l \in 1..Len(after) : after[k].recipe = after[l].recipe => k = l
    BY <2>2, <2>3, <2>7 DEF OnePerRecipe
  <2> QED
    BY <2>2, <2>5, <2>6, <2>8 DEF OnePerRecipe, after, job
<1> QED
  BY <1>2, <1>3

\* The jobs of a seeding: some of what is listed, finitely many, one for each
\* recipe that is listed anywhere.
LEMMA RecipeJobsMeaning ==
  ASSUME NEW ps \in Seq([id : Nat, tiers : Seq(SkillTiers)])
  PROVE  /\ IsFiniteSet(Range(RecipeJobs(ps))) /\ Range(RecipeJobs(ps)) \subseteq Job
         /\ {job.recipe : job \in Range(RecipeJobs(ps))} = {job.recipe : job \in Range(Listing(ps))}
         /\ \A a, b \in Range(RecipeJobs(ps)) : a.recipe = b.recipe => a = b
<1> DEFINE list == Listing(ps)
           n == Len(list)
<1>1. list \in Seq(Job) /\ n \in Nat /\ DOMAIN list = 1..n /\ list \in [1..n -> Job]
  BY ListingTyped, LenProperties
<1> HIDE DEF list, n
<1>2. PICK h : IsRun("first", h, <<>>, list, n, RecipeJobs(ps))
  BY <1>1, FirstRun DEF RecipeJobs, list
<1> DEFINE A == {k \in Nat : k <= n => OnePerRecipe(h[k], list, k)}
<1>3. 0 \in A
  <2>1. h[0] = <<>>
    BY <1>2 DEF IsRun
  <2>2. <<>> \in Seq(Job) /\ Len(<<>>) = 0 /\ 1..0 = {}
    BY EmptySeq
  <2>3. OnePerRecipe(<<>>, list, 0)
    BY <2>2 DEF OnePerRecipe
  <2> QED
    BY <2>1, <2>3
<1>4. ASSUME NEW k \in Nat, k \in A PROVE k + 1 \in A
  <2> SUFFICES ASSUME k + 1 <= n PROVE OnePerRecipe(h[k + 1], list, k + 1)
    OBVIOUS
  <2>1. k + 1 \in 1..n /\ (k + 1) - 1 = k /\ k <= n /\ \A j \in 1..(k + 1) : j \in 1..n
    BY <1>1
  <2>2. h[k + 1] = KeepFirst(h[k], list[k + 1])
    BY <1>2, <2>1 DEF IsRun, Step
  <2>3. OnePerRecipe(h[k], list, k)
    BY <1>4, <2>1
  <2> DEFINE part == [j \in 1..(k + 1) |-> list[j]]
  <2>4. part \in [1..(k + 1) -> Job] /\ \A j \in 1..(k + 1) : part[j] = list[j]
    BY <1>1, <2>1
  <2> HIDE DEF part
  <2>5. OnePerRecipe(h[k], part, k)
    <3>1. \A j \in 1..k : part[j] = list[j]
      BY <2>1, <2>4
    <3> QED
      BY <2>3, <3>1, OnePerRecipeOf
  <2>6. OnePerRecipe(KeepFirst(h[k], part[k + 1]), part, k + 1)
    BY <2>4, <2>5, KeepFirstMeaning
  <2>7. OnePerRecipe(h[k + 1], part, k + 1)
    BY <2>2, <2>4, <2>6
  <2> QED
    BY <2>4, <2>7, OnePerRecipeOf
<1> HIDE DEF A
<1>5. n \in A
  BY <1>1, <1>3, <1>4, Induction
<1> DEFINE kept == RecipeJobs(ps)
<1>6. OnePerRecipe(kept, list, n)
  BY <1>1, <1>2, <1>5 DEF A, IsRun
<1> HIDE DEF kept
<1>7. kept \in Seq(Job)
  BY <1>6 DEF OnePerRecipe
<1>8. /\ Range(kept) \subseteq Job /\ IsFiniteSet(Range(kept))
      /\ \A k \in 1..Len(kept) : kept[k] \in Range(kept)
      /\ \A x \in Range(kept) : \E k \in 1..Len(kept) : kept[k] = x
  BY <1>7, SeqRange
<1>9. /\ \A k \in 1..n : list[k] \in Range(list)
      /\ \A x \in Range(list) : \E k \in 1..n : list[k] = x
  BY <1>1 DEF Range
<1>10. ASSUME NEW x \in Range(kept) PROVE x \in Range(list)
  <2>1. PICK k \in 1..Len(kept) : kept[k] = x
    BY <1>8
  <2>2. PICK j \in 1..n : kept[k] = list[j]
    BY <1>6 DEF OnePerRecipe
  <2> QED
    BY <1>9, <2>1, <2>2
<1>11. ASSUME NEW x \in Range(list) PROVE \E y \in Range(kept) : y.recipe = x.recipe
  <2>1. PICK j \in 1..n : list[j] = x
    BY <1>9
  <2>2. PICK k \in 1..Len(kept) : kept[k].recipe = list[j].recipe
    BY <1>6 DEF OnePerRecipe
  <2> QED
    BY <1>8, <2>1, <2>2
<1>12. ASSUME NEW a \in Range(kept), NEW b \in Range(kept), a.recipe = b.recipe PROVE a = b
  <2>1. PICK k \in 1..Len(kept) : kept[k] = a
    BY <1>8
  <2>2. PICK l \in 1..Len(kept) : kept[l] = b
    BY <1>8
  <2>3. k = l
    BY <1>6, <1>12, <2>1, <2>2 DEF OnePerRecipe
  <2> QED
    BY <2>1, <2>2, <2>3
<1>13. {job.recipe : job \in Range(kept)} = {job.recipe : job \in Range(list)}
  BY <1>10, <1>11
<1> QED
  BY <1>8, <1>12, <1>13 DEF kept, list

-----------------------------------------------------------------------------
(* The ledger of the recipes stage *)

RecipeIds == {job.recipe : job \in Range(Listing(Api.professions))}
StoredRecipes == {key[1] : key \in DOMAIN db.recipes}
JobIds == {job.recipe : job \in jobs}

\* The recipes that loads would store.
Pending(loads) ==
  {key[1] : key \in UNION {Keys(loads[k].rows) : k \in {l \in DOMAIN loads : loads[l].table = "recipes"}}}

\* While the recipes are stored, every listed one is stored, staged or still a
\* job, and nothing else is.
RecipeWork == {"hierarchy", "batches", "storeBatch", "mark", "markSecond"}
LedgerInv ==
  /\ IsFiniteSet(jobs)
  /\ StoredRecipes \subseteq RecipeIds
  /\ Pending(staged) \subseteq RecipeIds
  /\ JobIds \subseteq RecipeIds
  /\ stage = 3 /\ pc \in RecipeWork => RecipeIds \subseteq StoredRecipes \cup JobIds \cup Pending(staged)
  /\ stage = 3 /\ pc \in {"mark", "markSecond"} => jobs = {}

\* Loads of other tables store no recipe.
LEMMA NothingPending ==
  ASSUME NEW loads, \A k \in DOMAIN loads : loads[k].table # "recipes"
  PROVE  Pending(loads) = {}
  BY DEF Pending

LEMMA OtherLoadsPending ==
  ASSUME NEW a, NEW b
  PROVE  /\ Pending(<<>>) = {} /\ Pending(ItemLoads(a)) = {} /\ Pending(HierarchyLoads(a, b)) = {}
         /\ Pending(<<Load("professions", a, "update"), Load("tiers", b, "update")>>) = {}
<1>1. Pending(<<>>) = {}
  BY NothingPending
<1>2. Pending(ItemLoads(a)) = {}
  <2>1. \A k \in DOMAIN ItemLoads(a) : ItemLoads(a)[k].table # "recipes"
    BY DEF ItemLoads, Load
  <2> QED
    BY <2>1, NothingPending
<1>3. Pending(HierarchyLoads(a, b)) = {}
  <2>1. \A k \in DOMAIN HierarchyLoads(a, b) : HierarchyLoads(a, b)[k].table # "recipes"
    BY DEF HierarchyLoads, Load
  <2> QED
    BY <2>1, NothingPending
<1>4. Pending(<<Load("professions", a, "update"), Load("tiers", b, "update")>>) = {}
  <2> DEFINE loads == <<Load("professions", a, "update"), Load("tiers", b, "update")>>
  <2>1. \A k \in DOMAIN loads : loads[k].table # "recipes"
    BY DEF Load
  <2> HIDE DEF loads
  <2>2. Pending(loads) = {}
    BY <2>1, NothingPending
  <2> QED
    BY <2>2 DEF loads
<1> QED
  BY <1>1, <1>2, <1>3, <1>4

\* A recipe has one or two variants.
LEMMA VariantsMeaning ==
  ASSUME NEW r
  PROVE  IsFiniteSet(Variants(r)) /\ Variants(r) # {}
<1>1. \A a, b : IsFiniteSet({a, b})
  <2> SUFFICES ASSUME NEW a, NEW b PROVE IsFiniteSet({a, b})
    OBVIOUS
  <2>1. IsFiniteSet({a} \cup {b})
    BY FS_Singleton, FS_Union
  <2>2. {a} \cup {b} = {a, b}
    OBVIOUS
  <2> QED
    BY <2>1, <2>2
<1>2. CASE r.alliance # None \/ r.horde # None
  BY <1>1, <1>2 DEF Variants
<1>3. CASE ~(r.alliance # None \/ r.horde # None)
  BY <1>3, FS_Singleton DEF Variants
<1> QED
  BY <1>2, <1>3

\* A batch stores the recipes of its jobs.
LEMMA BatchPending ==
  ASSUME NEW batch, IsFiniteSet(batch), NEW recipes
  PROVE  /\ IsFiniteSet(RecipesOf(batch, recipes))
         /\ Pending(BatchLoads(batch, recipes)) = {job.recipe : job \in batch}
<1> DEFINE rows == RecipesOf(batch, recipes)
           each == [job \in batch |-> VariantRows(job, recipes[job.recipe])]
<1>1. rows = UNION Range(each)
  BY DEF RecipesOf, Range
<1>2. ASSUME NEW job \in batch PROVE IsFiniteSet(each[job])
  <2> DEFINE r == recipes[job.recipe]
             f == [v \in Variants(r) |->
                     Entry(<<job.recipe, v.faction>>, [place |-> job.place, item |-> v.item])]
  <2>1. each[job] = Range(f)
    BY DEF VariantRows, Range
  <2>2. IsFiniteSet(DOMAIN f)
    BY VariantsMeaning
  <2> HIDE DEF f, each
  <2>3. IsFiniteSet(Range(f))
    BY <2>2, FiniteRange
  <2> QED
    BY <2>1, <2>3
<1>3. DOMAIN each = batch
  OBVIOUS
<1>4. IsFiniteSet(rows)
  <2> HIDE DEF each
  <2>1. IsFiniteSet(Range(each))
    BY <1>3, FiniteRange
  <2>2. \A T \in Range(each) : IsFiniteSet(T)
    BY <1>2, <1>3 DEF Range
  <2> HIDE DEF rows
  <2> QED
    BY <1>1, <2>1, <2>2, FS_UNION
<1> HIDE DEF rows, each
<1>5. Range(SetToSeq(rows)) = rows
  BY <1>4, SetToSeqMeaning
<1>6. PICK a, d : BatchLoads(batch, recipes)
                    = <<Load("items", a, "nothing"), Load("recipes", SetToSeq(rows), "update"),
                        Load("reagents", SetToSeq(ReagentsOf(batch, recipes)), "update"),
                        Load("slots", d, "update")>>
  BY BatchLoadsAre DEF rows
<1> DEFINE loads == BatchLoads(batch, recipes)
<1>7. /\ DOMAIN loads = 1..4
      /\ loads[1].table = "items" /\ loads[2].table = "recipes"
      /\ loads[3].table = "reagents" /\ loads[4].table = "slots"
      /\ loads[2].rows = SetToSeq(rows)
  BY <1>6 DEF Load
<1> HIDE DEF loads
<1>8. {l \in DOMAIN loads : loads[l].table = "recipes"} = {2}
  <2>1. \A l \in 1..4 : l = 1 \/ l = 2 \/ l = 3 \/ l = 4
    OBVIOUS
  <2> QED
    BY <1>7, <2>1
<1>9. Pending(loads) = {key[1] : key \in Keys(SetToSeq(rows))}
  BY <1>7, <1>8 DEF Pending
<1>10. ASSUME NEW key \in Keys(SetToSeq(rows)) PROVE \E job \in batch : key[1] = job.recipe
  <2>1. PICK e \in rows : e.key = key
    BY <1>5 DEF Keys
  <2>2. PICK job \in batch : e \in VariantRows(job, recipes[job.recipe])
    BY <2>1 DEF rows, RecipesOf
  <2> QED
    BY <2>1, <2>2 DEF VariantRows, Entry
<1>11. ASSUME NEW job \in batch PROVE \E key \in Keys(SetToSeq(rows)) : key[1] = job.recipe
  <2> DEFINE r == recipes[job.recipe]
  <2>1. PICK v \in Variants(r) : TRUE
    BY VariantsMeaning
  <2> DEFINE e == Entry(<<job.recipe, v.faction>>, [place |-> job.place, item |-> v.item])
  <2>2. e \in VariantRows(job, r)
    BY DEF VariantRows
  <2>3. e \in rows
    BY <2>2 DEF rows, RecipesOf
  <2>4. e.key \in Keys(SetToSeq(rows)) /\ e.key[1] = job.recipe
    BY <1>5, <2>3 DEF Keys, Entry
  <2> QED
    BY <2>4
<1> QED
  BY <1>4, <1>9, <1>10, <1>11 DEF rows, loads

\* A transaction stores recipes of its loads, and nothing else.
LEMMA StoredGrows ==
  ASSUME Written(db, staged, db')
  PROVE  /\ StoredRecipes \subseteq StoredRecipes'
         /\ StoredRecipes' \subseteq StoredRecipes \cup Pending(staged)
<1>1. "recipes" \in Tables
  BY DEF Tables
<1>2. DOMAIN db["recipes"] \subseteq DOMAIN db'["recipes"]
  BY <1>1 DEF Written
<1>3. ASSUME NEW key \in DOMAIN db'["recipes"], key \notin DOMAIN db["recipes"]
      PROVE  key[1] \in Pending(staged)
  <2>1. \/ Staged(staged, "recipes", key, db'["recipes"][key])
        \/ Updates(staged, "recipes", key, db'["recipes"][key])
    BY <1>1, <1>3 DEF Written
  <2>2. PICK k \in DOMAIN staged : staged[k].table = "recipes"
                                   /\ Holds(staged[k].rows, key, db'["recipes"][key])
    BY <2>1 DEF Staged, Updates
  <2>3. key \in Keys(staged[k].rows)
    BY <2>2 DEF Holds, Keys
  <2> QED
    BY <2>2, <2>3 DEF Pending
<1> QED
  BY <1>2, <1>3 DEF StoredRecipes

\* A transaction that stores all of its loads.
LEMMA StoredByCommit ==
  ASSUME \A k \in DOMAIN staged : Keys(staged[k].rows) \subseteq DOMAIN db'[staged[k].table]
  PROVE  Pending(staged) \subseteq StoredRecipes'
  BY DEF Pending, StoredRecipes

\* Only the API's own step changes what it answers with.
LEMMA ApiMoves ==
  ASSUME TypeOK, [Next]_vars
  PROVE  /\ history' = history
         /\ edition' = edition \/ Publish
  BY CommitMeaning, FailsMeaning, SearchMeaning
     DEF Next, Seed, vars, upstream, NextStage, Mark, RecordError, FlushItems, ListProfessions,
         StoreProfessions, ListRecipes, StoreHierarchy, TakeBatch, StoreBatch, AllBatchesStored,
         Restart, Publish

LEMMA InitLedger == Init => LedgerInv
<1> SUFFICES ASSUME Init PROVE LedgerInv
  OBVIOUS
<1>1. jobs = {} /\ staged = <<>> /\ pc = "check" /\ db["recipes"] = <<>>
  BY DEF Init, EmptyDatabase, Tables
<1>2. StoredRecipes = {} /\ JobIds = {}
  BY <1>1 DEF StoredRecipes, JobIds
<1>3. Pending(staged) = {} /\ IsFiniteSet(jobs)
  BY <1>1, OtherLoadsPending, FS_EmptySet
<1> QED
  BY <1>1, <1>2, <1>3 DEF LedgerInv, RecipeWork

\* A step changes neither the recipes to store, nor loses one of them.
LEMMA NextLedger ==
  ASSUME RecipesSame, TypeOK, LedgerInv, [Next]_vars
  PROVE  LedgerInv' /\ RecipeIds' = RecipeIds
<1>1. RecipeIds' = RecipeIds
  <2>1. history' = history /\ (edition' = edition \/ Publish)
    BY ApiMoves
  <2>2. CASE edition' = edition
    BY <2>1, <2>2 DEF RecipeIds, Api
  <2>3. CASE Publish
    <3>1. history \in Histories /\ edition \in DOMAIN history /\ edition' \in DOMAIN history
      BY <2>3, ApiTyped DEF Publish, TypeOK
    <3>2. {job.recipe : job \in Range(Listing(history[edition'].professions))}
            = {job.recipe : job \in Range(Listing(history[edition].professions))}
      BY <3>1 DEF RecipesSame
    <3> QED
      BY <2>1, <3>2 DEF RecipeIds, Api
  <2> QED
    BY <2>1, <2>2, <2>3
<1> SUFFICES LedgerInv'
  BY <1>1
<1>2. /\ StoredRecipes \subseteq StoredRecipes'
      /\ StoredRecipes' \subseteq StoredRecipes \cup Pending(staged)
  BY EveryStepWrites, StoredGrows
<1>3. /\ IsFiniteSet(jobs) /\ StoredRecipes' \subseteq RecipeIds'
      /\ Pending(staged) \subseteq RecipeIds /\ JobIds \subseteq RecipeIds
      /\ stage = 3 /\ pc \in RecipeWork => RecipeIds \subseteq StoredRecipes' \cup JobIds \cup Pending(staged)
      /\ stage = 3 /\ pc \in {"mark", "markSecond"} => jobs = {}
  BY <1>1, <1>2 DEF LedgerInv
\* The steps that leave the recipe work, or pass it by.
<1>4. ASSUME IsFiniteSet(jobs'), JobIds' \subseteq RecipeIds, Pending(staged') \subseteq RecipeIds,
             ~(stage' = 3 /\ pc' \in RecipeWork)
      PROVE  LedgerInv'
  <2>1. ~(stage' = 3 /\ pc' \in {"mark", "markSecond"})
    BY <1>4 DEF RecipeWork
  <2> QED
    BY <1>1, <1>3, <1>4, <2>1 DEF LedgerInv
\* The steps of the recipe work.
<1>5. ASSUME stage = 3, pc \in RecipeWork, IsFiniteSet(jobs'), JobIds' \subseteq RecipeIds,
             Pending(staged') \subseteq RecipeIds,
             JobIds \cup Pending(staged) \subseteq StoredRecipes' \cup JobIds' \cup Pending(staged'),
             pc' \in {"mark", "markSecond"} => jobs' = {}
      PROVE  LedgerInv'
  <2>1. RecipeIds' \subseteq StoredRecipes' \cup JobIds' \cup Pending(staged')
    BY <1>1, <1>3, <1>5
  <2> QED
    BY <1>1, <1>3, <1>5, <2>1 DEF LedgerInv
<1>6. Pending(<<>>) = {}
  BY OtherLoadsPending
<1>7. CASE UNCHANGED vars
  BY <1>1, <1>3, <1>7 DEF vars, LedgerInv, JobIds
<1>8. CASE NextStage
  <2>1. UNCHANGED <<jobs, staged>> /\ pc' \in {"polling", "search", "professions", "list"}
    BY <1>8, NextStageMeaning DEF NextStage
  <2> QED
    BY <1>3, <1>4, <2>1 DEF RecipeWork, JobIds
<1>9. CASE Mark
  <2>1. /\ UNCHANGED <<jobs, staged, stage>>
        /\ pc' = IF stage = 3 /\ pc = "mark" THEN "markSecond" ELSE "check"
    BY <1>9 DEF Mark
  <2>2. CASE stage = 3 /\ pc = "mark"
    BY <1>3, <1>5, <2>1, <2>2 DEF RecipeWork, JobIds
  <2>3. CASE ~(stage = 3 /\ pc = "mark")
    BY <1>3, <1>4, <2>1, <2>3 DEF RecipeWork, JobIds
  <2> QED
    BY <2>2, <2>3
<1>10. CASE RecordError
  <2>1. UNCHANGED <<jobs, staged>> /\ pc' = "exit"
    BY <1>10 DEF RecordError
  <2> QED
    BY <1>3, <1>4, <2>1 DEF RecipeWork, JobIds
<1>11. CASE SearchItems
  <2>1. /\ jobs' = jobs /\ pc' \in ItemSteps
        /\ \/ staged' = staged
           \/ \E rows : staged' = ItemLoads(rows)
    BY <1>11, SearchMeaning DEF ItemSteps
  <2>2. Pending(staged') \subseteq RecipeIds
    BY <1>3, <2>1, OtherLoadsPending
  <2> QED
    BY <1>3, <1>4, <2>1, <2>2 DEF RecipeWork, JobIds, ItemSteps
\* A commit.
<1>12. ASSUME NEW at, NEW goto, Commit(at, goto)
       PROVE  /\ UNCHANGED <<jobs, stage>> /\ pc = at /\ pc' \in {goto, "failed"}
              /\ Pending(staged') = {}
              /\ pc' = "failed" \/ Pending(staged) \subseteq StoredRecipes'
  BY <1>6, <1>12, CommitMeaning, StoredByCommit
<1>13. CASE FlushItems
  <2>1. pc \in {"flush", "lastFlush"}
    BY <1>13, <1>12 DEF FlushItems
  <2>2. stage = 1
    BY <2>1 DEF TypeOK, ItemSteps
  <2>3. UNCHANGED <<jobs, stage>> /\ Pending(staged') = {}
    BY <1>13, <1>12 DEF FlushItems
  <2> QED
    BY <1>3, <1>4, <2>2, <2>3 DEF JobIds
<1>14. CASE StoreProfessions
  <2>1. pc = "storeProfessions" /\ UNCHANGED <<jobs, stage>> /\ Pending(staged') = {}
    BY <1>14, <1>12 DEF StoreProfessions
  <2>2. stage = 2
    BY <2>1 DEF TypeOK, ProfessionSteps
  <2> QED
    BY <1>3, <1>4, <2>1, <2>2 DEF JobIds
<1>15. ASSUME NEW at \in {"hierarchy", "storeBatch"}, Commit(at, "batches")
       PROVE  LedgerInv'
  <2>1. /\ pc = at /\ UNCHANGED <<jobs, stage>> /\ Pending(staged') = {}
        /\ pc' \in {"batches", "failed"}
        /\ pc' = "failed" \/ Pending(staged) \subseteq StoredRecipes'
    BY <1>12, <1>15
  <2>2. stage = 3 /\ pc \in RecipeWork
    BY <1>15, <2>1 DEF TypeOK, RecipeSteps, RecipeWork
  <2>3. JobIds' = JobIds
    BY <2>1 DEF JobIds
  <2>4. CASE pc' = "failed"
    BY <1>3, <1>4, <2>1, <2>3, <2>4 DEF RecipeWork
  <2>5. CASE pc' # "failed"
    BY <1>3, <1>5, <2>1, <2>2, <2>3, <2>5
  <2> QED
    BY <2>4, <2>5
<1>16. CASE StoreHierarchy
  BY <1>15, <1>16 DEF StoreHierarchy
<1>17. CASE StoreBatch
  BY <1>15, <1>17 DEF StoreBatch
<1>18. CASE ListProfessions
  <2>1. jobs' = jobs /\ pc' = "storeProfessions"
    BY <1>18 DEF ListProfessions
  <2>2. Pending(staged') = {}
    BY <1>18, OtherLoadsPending DEF ListProfessions
  <2> QED
    BY <1>3, <1>4, <2>1, <2>2 DEF RecipeWork, JobIds
<1>19. CASE ListRecipes
  <2>1. Api.professions \in Seq([id : Nat, tiers : Seq(SkillTiers)])
    BY ApiTyped DEF Catalogues
  <2>2. /\ jobs' = Range(RecipeJobs(Api.professions)) /\ pc' = "hierarchy" /\ stage' = stage
        /\ pc = "list"
    BY <1>19 DEF ListRecipes
  <2>3. Pending(staged') = {}
    BY <1>19, OtherLoadsPending DEF ListRecipes
  <2>4. IsFiniteSet(jobs') /\ JobIds' = RecipeIds
    BY <2>1, <2>2, RecipeJobsMeaning DEF JobIds, RecipeIds
  <2> QED
    BY <1>1, <1>3, <2>2, <2>3, <2>4 DEF LedgerInv
<1>20. CASE TakeBatch
  <2>1. PICK batch \in SUBSET jobs :
          /\ jobs' = jobs \ batch
          /\ \/ staged' = BatchLoads(batch, Api.recipes) /\ pc' = "storeBatch"
             \/ pc' = "failed" /\ staged' = staged
    BY <1>20 DEF TakeBatch
  <2>2. pc = "batches" /\ stage' = stage
    BY <1>20 DEF TakeBatch
  <2>3. IsFiniteSet(jobs') /\ IsFiniteSet(batch) /\ JobIds' \subseteq JobIds
    BY <1>3, <2>1, FS_Subset DEF JobIds
  <2>4. stage = 3 /\ pc \in RecipeWork /\ Pending(staged) = {}
    BY <1>6, <2>2 DEF TypeOK, RecipeSteps, RecipeWork, Committing
  <2>5. CASE pc' = "failed" /\ staged' = staged
    BY <1>3, <1>4, <2>3, <2>5 DEF RecipeWork
  <2>6. CASE staged' = BatchLoads(batch, Api.recipes) /\ pc' = "storeBatch"
    <3>1. Pending(staged') = {job.recipe : job \in batch}
      BY <2>3, <2>6, BatchPending
    <3>2. Pending(staged') \subseteq RecipeIds
      BY <1>3, <3>1 DEF JobIds
    <3>3. JobIds \subseteq JobIds' \cup Pending(staged')
      BY <2>1, <3>1 DEF JobIds
    <3> QED
      BY <1>3, <1>5, <2>3, <2>4, <2>6, <3>2, <3>3
  <2> QED
    BY <2>1, <2>5, <2>6
<1>21. CASE AllBatchesStored
  <2>1. pc = "batches" /\ jobs = {} /\ pc' = "mark" /\ UNCHANGED <<jobs, staged, stage>>
    BY <1>21 DEF AllBatchesStored
  <2>2. stage = 3 /\ pc \in RecipeWork
    BY <2>1 DEF TypeOK, RecipeSteps, RecipeWork
  <2>3. JobIds' = JobIds
    BY <2>1 DEF JobIds
  <2> QED
    BY <1>3, <1>5, <2>1, <2>2, <2>3
<1>22. CASE Fails
  <2>1. UNCHANGED <<jobs, staged>> /\ pc' \in {"failed", "exit"}
    BY <1>22, FailsMeaning
  <2> QED
    BY <1>3, <1>4, <2>1 DEF RecipeWork, JobIds
<1>23. CASE Restart
  <2>1. jobs' = {} /\ staged' = <<>> /\ pc' = "check"
    BY <1>23 DEF Restart
  <2>2. IsFiniteSet(jobs') /\ JobIds' = {}
    BY <2>1, FS_EmptySet DEF JobIds
  <2> QED
    BY <1>4, <1>6, <2>1, <2>2 DEF RecipeWork
<1>24. CASE Publish
  <2>1. UNCHANGED <<jobs, staged, stage, pc>>
    BY <1>24 DEF Publish
  <2> QED
    BY <1>1, <1>3, <2>1 DEF LedgerInv, JobIds
<1> QED
  BY <1>1, <1>7, <1>8, <1>9, <1>10, <1>11, <1>13, <1>14, <1>16, <1>17, <1>18, <1>19, <1>20, <1>21,
     <1>22, <1>23, <1>24 DEF Next, Seed

\* The marks of the recipes are set only when all of them are stored.
LEMMA MarkedStage ==
  ASSUME TypeOK, Marked \cap Stages[3] # {}
  PROVE  stage = 3 /\ pc \in {"mark", "markSecond"}
<1>1. pc = "mark" \/ pc = "markSecond"
  BY MarkedMeaning DEF TypeOK
<1>2. pc = "markSecond" => stage = 3
  BY DEF TypeOK, RecipeSteps
<1>3. pc = "mark" /\ stage = 1 => Marked \cap Stages[3] = {}
  BY MarkedMeaning, StagesMeaning DEF TypeOK
<1>4. pc = "mark" /\ stage = 2 => Marked \cap Stages[3] = {}
  BY MarkedMeaning, StagesMeaning DEF TypeOK
<1>5. stage = 1 \/ stage = 2 \/ stage = 3
  BY DEF TypeOK
<1> QED
  BY <1>1, <1>2, <1>3, <1>4, <1>5

LEMMA MarksOfRecipes ==
  ASSUME TypeOK, LedgerInv, Marked \cap Stages[3] # {}
  PROVE  staged = <<>> /\ StoredRecipes = RecipeIds
<1>1. stage = 3 /\ pc \in {"mark", "markSecond"}
  BY MarkedStage
<1>2. staged = <<>>
  BY <1>1 DEF TypeOK, Committing
<1>3. Pending(staged) = {} /\ JobIds = {}
  BY <1>1, <1>2, OtherLoadsPending DEF LedgerInv, JobIds
<1>4. pc \in RecipeWork
  BY <1>1 DEF RecipeWork
<1> QED
  BY <1>1, <1>2, <1>3, <1>4 DEF LedgerInv

\* Which steps move the marks.
LEMMA StatusMoves ==
  ASSUME TypeOK, [Next]_vars
  PROVE  \/ status' = status
         \/ status' = status \cup Marked
         \/ RecordError
  BY CommitMeaning, SearchMeaning
     DEF Next, Seed, vars, NextStage, Mark, FlushItems, ListProfessions, StoreProfessions,
         ListRecipes, StoreHierarchy, TakeBatch, StoreBatch, AllBatchesStored, Fails, Restart,
         Publish

\* The recipes stage implements the ledger (RecipeStageSpec of SeedStages;
\* seedRecipesAndReagents): whatever the batches, the failures and the restarts,
\* nothing stored is lost, nothing that is not listed is stored, and the marks
\* are set only when every listed recipe is stored.  The API must list the same
\* recipes from the start; it may move them and change their details.
THEOREM ImplementsLedger ==
  ASSUME RecipesSame
  PROVE  Spec => RecipeStageSpec
<1> DEFINE marked == Stages[3] \subseteq status
<1>1. Init => RecipeStage!Init
  <2> SUFFICES ASSUME Init PROVE StoredRecipes = {} /\ marked = FALSE
    BY DEF RecipeStage!Init, StoredRecipes
  <2>1. db["recipes"] = <<>> /\ status = {}
    BY DEF Init, EmptyDatabase, Tables
  <2> QED
    BY <2>1, StagesMeaning DEF StoredRecipes
<1>2. TypeOK /\ LedgerInv /\ LedgerInv' /\ RecipeIds' = RecipeIds /\ [Next]_vars
        => [RecipeStage!Next]_<<RecipeIds, StoredRecipes, marked>>
  <2> SUFFICES ASSUME TypeOK, LedgerInv, LedgerInv', RecipeIds' = RecipeIds, [Next]_vars
               PROVE  RecipeStage!Next \/ UNCHANGED <<RecipeIds, StoredRecipes, marked>>
    OBVIOUS
  <2>0. /\ RecipeStage!Store <=> /\ StoredRecipes' \in SUBSET RecipeIds
                                 /\ StoredRecipes \subseteq StoredRecipes'
                                 /\ RecipeIds' = RecipeIds /\ marked' = marked
        /\ RecipeStage!Complete <=> /\ StoredRecipes = RecipeIds /\ marked' = TRUE
                                    /\ RecipeIds' = RecipeIds /\ StoredRecipes' = StoredRecipes
        /\ RecipeStage!Reopen <=> /\ marked' = FALSE
                                  /\ RecipeIds' = RecipeIds /\ StoredRecipes' = StoredRecipes
    BY DEF RecipeStage!Store, RecipeStage!Complete, RecipeStage!Reopen, RecipeIds, StoredRecipes
  <2>1. /\ StoredRecipes \subseteq StoredRecipes' /\ StoredRecipes' \subseteq RecipeIds
        /\ StoredRecipes' \subseteq StoredRecipes \cup Pending(staged)
    BY EveryStepWrites, StoredGrows DEF LedgerInv
  <2>2. CASE status' = status
    <3>1. marked' = marked
      BY <2>2
    <3> QED
      BY <2>0, <2>1, <3>1 DEF RecipeStage!Next
  <2>3. CASE status' = status \cup Marked /\ Marked \cap Stages[3] = {}
    <3>1. marked' = marked
      BY <2>3
    <3> QED
      BY <2>0, <2>1, <3>1 DEF RecipeStage!Next
  <2>4. CASE status' = status \cup Marked /\ Marked \cap Stages[3] # {}
    <3>1. staged = <<>> /\ StoredRecipes = RecipeIds
      BY <2>4, MarksOfRecipes
    <3>2. StoredRecipes' = StoredRecipes
      BY <2>1, <3>1, OtherLoadsPending
    <3> QED
      BY <2>0, <3>1, <3>2 DEF RecipeStage!Next
  <2>5. CASE RecordError
    <3>1. StoredRecipes' = StoredRecipes /\ status' \subseteq status
      BY <2>5 DEF RecordError, StoredRecipes
    <3>2. marked' => marked
      BY <3>1
    <3> QED
      BY <2>0, <3>1, <3>2 DEF RecipeStage!Next
  <2>6. \/ status' = status
        \/ status' = status \cup Marked
        \/ RecordError
    BY StatusMoves
  <2> QED
    BY <2>2, <2>3, <2>4, <2>5, <2>6
<1>3. TypeOK /\ LedgerInv /\ [Next]_vars => LedgerInv' /\ RecipeIds' = RecipeIds
  BY NextLedger
<1>4. RecipeStageSpec <=> RecipeStage!Init /\ [][RecipeStage!Next]_<<RecipeIds, StoredRecipes, marked>>
  BY DEF RecipeStageSpec, RecipeStage!Spec, RecipeIds, StoredRecipes
<1> QED
  BY <1>1, <1>2, <1>3, <1>4, InitLedger, TypeInvariance, PTL DEF Spec

-----------------------------------------------------------------------------
(* The reagents of a recipe *)

\* The map of the reagents is filled by runs, too.
LEMMA RequiredRun ==
  ASSUME NEW base, NEW list, NEW n \in Nat, DOMAIN list = 1..n
  PROVE  \E h : IsRun("required", h, base, list, n, FoldLeft(AddRequired, base, list))
<1> DEFINE Rec(g) == g = [s \in SUBSET (1..n) |->
                            IF s = {} THEN base ELSE AddRequired(g[s \ {Max(s)}], list[Max(s)])]
           f == CHOOSE g : Rec(g)
<1>1. \A g : Rec(g) <=> IsFold("required", g, base, list, n)
  BY DEF IsFold, Step
<1>2. IsFold("required", f, base, list, n)
  BY <1>1, FoldExists
<1>3. FoldLeft(AddRequired, base, list) = f[1..n]
  BY DEF FoldLeft, MapThenFoldSet
<1> HIDE DEF f
<1> QED
  BY <1>2, <1>3, FoldRun

LEMMA OptionalRun ==
  ASSUME NEW base, NEW list, NEW n \in Nat, DOMAIN list = 1..n
  PROVE  \E h : IsRun("optional", h, base, list, n, FoldLeft(AddOptional, base, list))
<1> DEFINE Rec(g) == g = [s \in SUBSET (1..n) |->
                            IF s = {} THEN base ELSE AddOptional(g[s \ {Max(s)}], list[Max(s)])]
           f == CHOOSE g : Rec(g)
<1>1. \A g : Rec(g) <=> IsFold("optional", g, base, list, n)
  BY DEF IsFold, Step
<1>2. IsFold("optional", f, base, list, n)
  BY <1>1, FoldExists
<1>3. FoldLeft(AddOptional, base, list) = f[1..n]
  BY DEF FoldLeft, MapThenFoldSet
<1> HIDE DEF f
<1> QED
  BY <1>2, <1>3, FoldRun

\* The items of the first n reagents of a list.
ItemsOf(list, n) == {list[j].item : j \in 1..n}

LEMMA ItemsOfMeaning ==
  ASSUME NEW list, NEW n \in Nat
  PROVE  /\ ItemsOf(list, 0) = {}
         /\ ItemsOf(list, n + 1) = ItemsOf(list, n) \cup {list[n + 1].item}
<1>1. 1..0 = {} /\ \A j : j \in 1..(n + 1) <=> j \in 1..n \/ j = n + 1
  OBVIOUS
<1>2. ItemsOf(list, 0) = {}
  BY <1>1 DEF ItemsOf
<1>3. ItemsOf(list, n + 1) = ItemsOf(list, n) \cup {list[n + 1].item}
  BY <1>1 DEF ItemsOf
<1> QED
  BY <1>2, <1>3

\* The map holds these items; the ones that are not required are optional.
Flags(rows, items, required) ==
  /\ DOMAIN rows = items
  /\ \A i \in items : rows[i].optional = (i \notin required)

\* One more reagent in the map.
LEMMA OverMeaning ==
  ASSUME NEW a, NEW b
  PROVE  /\ DOMAIN Over(a, b) = DOMAIN a \cup DOMAIN b
         /\ \A i \in DOMAIN a : Over(a, b)[i] = a[i]
         /\ \A i \in DOMAIN b : i \notin DOMAIN a => Over(a, b)[i] = b[i]
  BY DEF Over

LEMMA AddRequiredMeaning ==
  ASSUME NEW rows, NEW g, NEW items, Flags(rows, items, items)
  PROVE  Flags(AddRequired(rows, g), items \cup {g.item}, items \cup {g.item})
<1> DEFINE one == Reagent(g, FALSE)
           after == Over(one, rows)
<1>1. DOMAIN one = {g.item} /\ one[g.item].optional = FALSE
  BY DEF Reagent
<1> HIDE DEF one
<1>2. /\ DOMAIN after = DOMAIN one \cup DOMAIN rows
      /\ \A i \in DOMAIN one : after[i] = one[i]
      /\ \A i \in DOMAIN rows : i \notin DOMAIN one => after[i] = rows[i]
  BY OverMeaning
<1> HIDE DEF after
<1>3. DOMAIN rows = items /\ \A i \in items : rows[i].optional = FALSE
  BY DEF Flags
<1>4. ASSUME NEW i \in items \cup {g.item} PROVE after[i].optional = FALSE
  <2>1. CASE i = g.item
    BY <1>1, <1>2, <2>1
  <2>2. CASE i # g.item
    BY <1>1, <1>2, <1>3, <2>2
  <2> QED
    BY <2>1, <2>2
<1>5. DOMAIN after = items \cup {g.item}
  BY <1>1, <1>2, <1>3
<1>6. AddRequired(rows, g) = after
  BY DEF AddRequired, after, one
<1> QED
  BY <1>4, <1>5, <1>6 DEF Flags

LEMMA AddOptionalMeaning ==
  ASSUME NEW rows, NEW g, NEW items, NEW required, required \subseteq items,
         Flags(rows, items, required)
  PROVE  Flags(AddOptional(rows, g), items \cup {g.item}, required)
<1> DEFINE one == Reagent(g, TRUE)
           after == Over(rows, one)
<1>1. DOMAIN one = {g.item} /\ one[g.item].optional = TRUE
  BY DEF Reagent
<1> HIDE DEF one
<1>2. /\ DOMAIN after = DOMAIN rows \cup DOMAIN one
      /\ \A i \in DOMAIN rows : after[i] = rows[i]
      /\ \A i \in DOMAIN one : i \notin DOMAIN rows => after[i] = one[i]
  BY OverMeaning
<1> HIDE DEF after
<1>3. DOMAIN rows = items /\ \A i \in items : rows[i].optional = (i \notin required)
  BY DEF Flags
<1>4. ASSUME NEW i \in items \cup {g.item} PROVE after[i].optional = (i \notin required)
  <2>1. CASE i \in items
    BY <1>2, <1>3, <2>1
  <2>2. CASE i \notin items
    <3>1. i = g.item /\ i \notin required
      BY <2>2
    <3> QED
      BY <1>1, <1>2, <1>3, <2>2, <3>1
  <2> QED
    BY <2>1, <2>2
<1>5. DOMAIN after = items \cup {g.item}
  BY <1>1, <1>2, <1>3
<1>6. AddOptional(rows, g) = after
  BY DEF AddOptional, after, one
<1> QED
  BY <1>4, <1>5, <1>6 DEF Flags

\* After the required reagents: their items, none of them optional.
LEMMA RequiredMeaning ==
  ASSUME NEW list, NEW n \in Nat, DOMAIN list = 1..n
  PROVE  Flags(FoldLeft(AddRequired, <<>>, list), ItemsOf(list, n), ItemsOf(list, n))
<1> DEFINE rows == FoldLeft(AddRequired, <<>>, list)
<1>1. \E h : IsRun("required", h, <<>>, list, n, rows)
  BY RequiredRun
<1> HIDE DEF rows
<1>2. PICK h : IsRun("required", h, <<>>, list, n, rows)
  BY <1>1
<1> DEFINE A == {k \in Nat : k <= n => Flags(h[k], ItemsOf(list, k), ItemsOf(list, k))}
<1>3. 0 \in A
  <2>1. h[0] = <<>> /\ ItemsOf(list, 0) = {}
    BY <1>2, ItemsOfMeaning DEF IsRun
  <2>2. Flags(<<>>, {}, {})
    BY DEF Flags
  <2> QED
    BY <2>1, <2>2
<1>4. ASSUME NEW k \in Nat, k \in A PROVE k + 1 \in A
  <2> SUFFICES ASSUME k + 1 <= n
               PROVE  Flags(h[k + 1], ItemsOf(list, k + 1), ItemsOf(list, k + 1))
    OBVIOUS
  <2>1. k + 1 \in 1..n /\ (k + 1) - 1 = k /\ k <= n
    OBVIOUS
  <2>2. h[k + 1] = AddRequired(h[k], list[k + 1])
    BY <1>2, <2>1 DEF IsRun, Step
  <2>3. Flags(h[k], ItemsOf(list, k), ItemsOf(list, k))
    BY <1>4, <2>1
  <2>4. ItemsOf(list, k + 1) = ItemsOf(list, k) \cup {list[k + 1].item}
    BY ItemsOfMeaning
  <2> QED
    BY <2>2, <2>3, <2>4, AddRequiredMeaning
<1> HIDE DEF A
<1>5. n \in A
  BY <1>3, <1>4, Induction
<1>6. h[n] = rows
  BY <1>2 DEF IsRun
<1> QED
  BY <1>5, <1>6 DEF A, rows

\* After the optional ones: their items as well.
LEMMA OptionalMeaning ==
  ASSUME NEW base, NEW required, Flags(base, required, required),
         NEW list, NEW n \in Nat, DOMAIN list = 1..n
  PROVE  Flags(FoldLeft(AddOptional, base, list), required \cup ItemsOf(list, n), required)
<1> DEFINE rows == FoldLeft(AddOptional, base, list)
<1>1. \E h : IsRun("optional", h, base, list, n, rows)
  BY OptionalRun
<1> HIDE DEF rows
<1>2. PICK h : IsRun("optional", h, base, list, n, rows)
  BY <1>1
<1> DEFINE A == {k \in Nat : k <= n => Flags(h[k], required \cup ItemsOf(list, k), required)}
<1>3. 0 \in A
  <2>1. h[0] = base /\ ItemsOf(list, 0) = {}
    BY <1>2, ItemsOfMeaning DEF IsRun
  <2>2. required \cup ItemsOf(list, 0) = required
    BY <2>1
  <2> QED
    BY <2>1, <2>2
<1>4. ASSUME NEW k \in Nat, k \in A PROVE k + 1 \in A
  <2> SUFFICES ASSUME k + 1 <= n
               PROVE  Flags(h[k + 1], required \cup ItemsOf(list, k + 1), required)
    OBVIOUS
  <2>1. k + 1 \in 1..n /\ (k + 1) - 1 = k /\ k <= n
    OBVIOUS
  <2>2. h[k + 1] = AddOptional(h[k], list[k + 1])
    BY <1>2, <2>1 DEF IsRun, Step
  <2>3. Flags(h[k], required \cup ItemsOf(list, k), required)
    BY <1>4, <2>1
  <2>4. required \cup ItemsOf(list, k + 1) = (required \cup ItemsOf(list, k)) \cup {list[k + 1].item}
    BY ItemsOfMeaning
  <2>5. required \subseteq required \cup ItemsOf(list, k)
    OBVIOUS
  <2> QED
    BY <2>2, <2>3, <2>4, <2>5, AddOptionalMeaning
<1> HIDE DEF A
<1>5. n \in A
  BY <1>3, <1>4, Induction
<1>6. h[n] = rows
  BY <1>2 DEF IsRun
<1> QED
  BY <1>5, <1>6 DEF A, rows

\* The reagents of a recipe: each item of both lists once, optional only if it
\* is not required as well, whatever the lists repeat.
LEMMA ReagentsMeaning ==
  ASSUME NEW r \in RecipeDetails
  PROVE  /\ Flags(Reagents(r), NeededItems(r), RequiredItems(r))
         /\ IsFiniteSet(NeededItems(r))
<1> DEFINE base == FoldLeft(AddRequired, <<>>, r.reagents)
<1>1. /\ Len(r.reagents) \in Nat /\ DOMAIN r.reagents = 1..Len(r.reagents)
      /\ Len(r.optional) \in Nat /\ DOMAIN r.optional = 1..Len(r.optional)
  BY LenProperties DEF RecipeDetails, ReagentLists
<1>2. Reagents(r) = FoldLeft(AddOptional, base, r.optional)
  BY DEF Reagents
<1>3. ASSUME NEW list, NEW n \in Nat, DOMAIN list = 1..n
      PROVE  ItemsOf(list, n) = {g.item : g \in Range(list)} /\ IsFiniteSet(ItemsOf(list, n))
  <2> DEFINE f == [j \in 1..n |-> list[j].item]
  <2>1. IsFiniteSet(DOMAIN f)
    BY FS_Interval
  <2>2. Range(f) = ItemsOf(list, n)
    BY DEF Range, ItemsOf
  <2> HIDE DEF f
  <2>3. IsFiniteSet(ItemsOf(list, n))
    BY <2>1, <2>2, FiniteRange
  <2>4. ItemsOf(list, n) = {g.item : g \in Range(list)}
    BY <1>3 DEF Range, ItemsOf
  <2> QED
    BY <2>3, <2>4
<1>4. /\ RequiredItems(r) = ItemsOf(r.reagents, Len(r.reagents))
      /\ IsFiniteSet(RequiredItems(r))
  BY <1>1, <1>3 DEF RequiredItems
<1>5. /\ NeededItems(r) = RequiredItems(r) \cup ItemsOf(r.optional, Len(r.optional))
      /\ IsFiniteSet(ItemsOf(r.optional, Len(r.optional)))
  BY <1>1, <1>3 DEF NeededItems
<1>6. IsFiniteSet(NeededItems(r))
  BY <1>4, <1>5, FS_Union
<1>7. Flags(base, RequiredItems(r), RequiredItems(r))
  BY <1>1, <1>4, RequiredMeaning
<1> HIDE DEF base
<1>8. Flags(Reagents(r), NeededItems(r), RequiredItems(r))
  BY <1>1, <1>2, <1>5, <1>7, OptionalMeaning
<1> QED
  BY <1>6, <1>8

-----------------------------------------------------------------------------
(* The rows of the recipes stage *)

RowTables == {"recipes", "reagents"}

\* The rows of a batch in one of these tables.
RowsOf(t, batch, recipes) ==
  IF t = "recipes" THEN RecipesOf(batch, recipes) ELSE ReagentsOf(batch, recipes)

\* What is listed, what of it can be stored, and the rows it makes.
Jobs == Range(RecipeJobs(Api.professions))
UsableJobs == {job \in Jobs : Usable(job)}
Due(t) == RowsOf(t, UsableJobs, Api.recipes)

\* The tables hold nothing but such rows; nor do these loads.
StoredDue == \A t \in RowTables : \A key \in DOMAIN db[t] : Entry(key, db[t][key]) \in Due(t)
LoadsDue(loads) ==
  \A t \in RowTables : \A k \in DOMAIN loads : loads[k].table = t => Range(loads[k].rows) \subseteq Due(t)

\* All rows of a job are stored; all of them are in these loads.
Whole(job) ==
  /\ Usable(job)
  /\ \A t \in RowTables : \A e \in RowsOf(t, {job}, Api.recipes) : e.key \in DOMAIN db[t]
InLoads(loads, job) ==
  /\ Usable(job)
  /\ \A t \in RowTables : \E k \in DOMAIN loads :
       loads[k].table = t /\ RowsOf(t, {job}, Api.recipes) \subseteq Range(loads[k].rows)

\* While the recipes are stored, each job is whole, staged or still to be done.
RowsInv ==
  /\ StoredDue
  /\ LoadsDue(staged)
  /\ jobs \subseteq Jobs
  /\ stage = 3 /\ pc \in RecipeWork =>
       \A job \in Jobs : job \in jobs \/ Whole(job) \/ InLoads(staged, job)
  /\ "recipes" \in status => \A job \in Jobs : Whole(job)

\* Rows are keys with rows; a larger batch has more of them.
LEMMA RowsOfMeaning ==
  ASSUME NEW recipes, NEW t \in RowTables, NEW batch
  PROVE  /\ \A e \in RowsOf(t, batch, recipes) : e = Entry(e.key, e.row)
         /\ \A more : batch \subseteq more => RowsOf(t, batch, recipes) \subseteq RowsOf(t, more, recipes)
<1>1. CASE t = "recipes"
  <2>1. RowsOf(t, batch, recipes) = RecipesOf(batch, recipes)
        /\ \A more : RowsOf(t, more, recipes) = RecipesOf(more, recipes)
    BY <1>1 DEF RowsOf
  <2>2. ASSUME NEW e \in RecipesOf(batch, recipes) PROVE e = Entry(e.key, e.row)
    <3>1. PICK job \in batch : e \in VariantRows(job, recipes[job.recipe])
      BY DEF RecipesOf
    <3> QED
      BY <3>1 DEF VariantRows, Entry
  <2>3. \A more : batch \subseteq more => RecipesOf(batch, recipes) \subseteq RecipesOf(more, recipes)
    BY DEF RecipesOf
  <2> QED
    BY <2>1, <2>2, <2>3
<1>2. CASE t # "recipes"
  <2>1. RowsOf(t, batch, recipes) = ReagentsOf(batch, recipes)
        /\ \A more : RowsOf(t, more, recipes) = ReagentsOf(more, recipes)
    BY <1>2 DEF RowsOf
  <2>2. ASSUME NEW e \in ReagentsOf(batch, recipes) PROVE e = Entry(e.key, e.row)
    <3>1. PICK job \in batch :
            e \in KeyedRows(job, recipes[job.recipe], Reagents(recipes[job.recipe]))
      BY DEF ReagentsOf
    <3> QED
      BY <3>1 DEF KeyedRows, Entry
  <2>3. \A more : batch \subseteq more => ReagentsOf(batch, recipes) \subseteq ReagentsOf(more, recipes)
    BY DEF ReagentsOf
  <2> QED
    BY <2>1, <2>2, <2>3
<1> QED
  BY <1>1, <1>2

\* The reagents rows of a batch are finitely many.
LEMMA ReagentsOfFinite ==
  ASSUME NEW batch, IsFiniteSet(batch), NEW recipes,
         \A job \in batch : recipes[job.recipe] \in RecipeDetails
  PROVE  IsFiniteSet(ReagentsOf(batch, recipes))
<1> DEFINE each == [job \in batch |->
                      KeyedRows(job, recipes[job.recipe], Reagents(recipes[job.recipe]))]
<1>1. ReagentsOf(batch, recipes) = UNION Range(each)
  BY DEF ReagentsOf, Range
<1>2. ASSUME NEW job \in batch PROVE IsFiniteSet(each[job])
  <2> DEFINE r == recipes[job.recipe]
             rows == Reagents(r)
             f == [p \in Variants(r) \X DOMAIN rows |->
                     Entry(<<job.recipe, p[1].faction, p[2]>>, rows[p[2]])]
  <2>1. each[job] = KeyedRows(job, r, rows)
    OBVIOUS
  <2>2. IsFiniteSet(DOMAIN rows)
    BY ReagentsMeaning DEF Flags
  <2>3. IsFiniteSet(Variants(r) \X DOMAIN rows)
    BY <2>2, VariantsMeaning, FS_Product
  <2> HIDE DEF rows, r
  <2>4. KeyedRows(job, r, rows) = Range(f)
    <3>1. ASSUME NEW v \in Variants(r), NEW k \in DOMAIN rows
          PROVE  Entry(<<job.recipe, v.faction, k>>, rows[k]) \in Range(f)
      <4>1. <<v, k>> \in DOMAIN f /\ f[<<v, k>>] = Entry(<<job.recipe, v.faction, k>>, rows[k])
        <5> DEFINE q == <<v, k>>
        <5>1. q \in Variants(r) \X DOMAIN rows /\ q[1] = v /\ q[2] = k
          OBVIOUS
        <5> HIDE DEF q
        <5>2. q \in DOMAIN f /\ f[q] = Entry(<<job.recipe, v.faction, k>>, rows[k])
          BY <5>1
        <5> QED
          BY <5>2 DEF q
      <4> QED
        BY <4>1 DEF Range
    <3>2. ASSUME NEW p \in Variants(r) \X DOMAIN rows PROVE f[p] \in KeyedRows(job, r, rows)
      BY DEF KeyedRows
    <3>3. DOMAIN f = Variants(r) \X DOMAIN rows
      OBVIOUS
    <3> HIDE DEF f
    <3>4. Range(f) \subseteq KeyedRows(job, r, rows)
      BY <3>2, <3>3 DEF Range
    <3>5. KeyedRows(job, r, rows) \subseteq Range(f)
      <4> SUFFICES ASSUME NEW e \in KeyedRows(job, r, rows) PROVE e \in Range(f)
        OBVIOUS
      <4>1. PICK v \in Variants(r), k \in DOMAIN rows :
              e = Entry(<<job.recipe, v.faction, k>>, rows[k])
        BY DEF KeyedRows
      <4> QED
        BY <3>1, <4>1
    <3> QED
      BY <3>4, <3>5
  <2>5. DOMAIN f = Variants(r) \X DOMAIN rows
    OBVIOUS
  <2> HIDE DEF f
  <2>6. IsFiniteSet(Range(f))
    BY <2>3, <2>5, FiniteRange
  <2> QED
    BY <2>1, <2>4, <2>6
<1>3. DOMAIN each = batch
  OBVIOUS
<1> HIDE DEF each
<1>4. IsFiniteSet(Range(each))
  BY <1>3, FiniteRange
<1>5. \A T \in Range(each) : IsFiniteSet(T)
  BY <1>2, <1>3 DEF Range
<1> QED
  BY <1>1, <1>4, <1>5, FS_UNION

\* A batch of usable jobs stages rows that are due, and all rows of its jobs.
LEMMA BatchRows ==
  ASSUME TypeOK, NEW batch, IsFiniteSet(batch), batch \subseteq UsableJobs
  PROVE  /\ LoadsDue(BatchLoads(batch, Api.recipes))
         /\ \A job \in batch : InLoads(BatchLoads(batch, Api.recipes), job)
<1> DEFINE recipes == Api.recipes
           loads == BatchLoads(batch, recipes)
<1>1. \A job \in batch : recipes[job.recipe] \in RecipeDetails
  <2>1. recipes \in Seq(RecipeDetails)
    BY ApiTyped DEF Catalogues
  <2>2. \A k \in DOMAIN recipes : recipes[k] \in RecipeDetails
    BY <2>1, ElementOfSeq, LenProperties
  <2> QED
    BY <2>2 DEF UsableJobs, Usable
<1>2. IsFiniteSet(RecipesOf(batch, recipes)) /\ IsFiniteSet(ReagentsOf(batch, recipes))
  BY <1>1, BatchPending, ReagentsOfFinite
<1>3. /\ Range(SetToSeq(RecipesOf(batch, recipes))) = RecipesOf(batch, recipes)
      /\ Range(SetToSeq(ReagentsOf(batch, recipes))) = ReagentsOf(batch, recipes)
  BY <1>2, SetToSeqMeaning
<1>4. PICK a, d : loads = <<Load("items", a, "nothing"),
                            Load("recipes", SetToSeq(RecipesOf(batch, recipes)), "update"),
                            Load("reagents", SetToSeq(ReagentsOf(batch, recipes)), "update"),
                            Load("slots", d, "update")>>
  BY BatchLoadsAre
<1> HIDE DEF loads
<1>5. /\ DOMAIN loads = 1..4
      /\ loads[1].table = "items" /\ loads[2].table = "recipes"
      /\ loads[3].table = "reagents" /\ loads[4].table = "slots"
      /\ loads[2].rows = SetToSeq(RecipesOf(batch, recipes))
      /\ loads[3].rows = SetToSeq(ReagentsOf(batch, recipes))
  BY <1>4 DEF Load
<1>6. ASSUME NEW t \in RowTables
      PROVE  \E k \in DOMAIN loads : /\ loads[k].table = t
                                     /\ Range(loads[k].rows) = RowsOf(t, batch, recipes)
  <2>1. CASE t = "recipes"
    BY <1>3, <1>5, <2>1 DEF RowsOf
  <2>2. CASE t = "reagents"
    BY <1>3, <1>5, <2>2 DEF RowsOf
  <2> QED
    BY <2>1, <2>2 DEF RowTables
<1>7. ASSUME NEW t \in RowTables, NEW k \in DOMAIN loads, loads[k].table = t
      PROVE  Range(loads[k].rows) = RowsOf(t, batch, recipes)
  <2>1. k = 1 \/ k = 2 \/ k = 3 \/ k = 4
    BY <1>5
  <2>2. t = "recipes" \/ t = "reagents"
    BY DEF RowTables
  <2>3. (k = 2 /\ t = "recipes") \/ (k = 3 /\ t = "reagents")
    BY <1>5, <1>7, <2>1, <2>2
  <2> QED
    BY <1>3, <1>5, <2>3 DEF RowsOf
<1>8. LoadsDue(loads)
  <2>1. \A t \in RowTables : RowsOf(t, batch, recipes) \subseteq Due(t)
    BY RowsOfMeaning DEF Due
  <2> QED
    BY <1>7, <2>1 DEF LoadsDue
<1>9. ASSUME NEW job \in batch PROVE InLoads(loads, job)
  <2>1. Usable(job)
    BY DEF UsableJobs
  <2>2. ASSUME NEW t \in RowTables
        PROVE  RowsOf(t, {job}, recipes) \subseteq RowsOf(t, batch, recipes)
    BY RowsOfMeaning
  <2> QED
    BY <1>6, <2>1, <2>2 DEF InLoads
<1> QED
  BY <1>8, <1>9 DEF loads

\* A transaction of such loads puts nothing else into the tables.
LEMMA DueIsWritten ==
  ASSUME Written(db, staged, db'), StoredDue, LoadsDue(staged)
  PROVE  /\ \A t \in RowTables : \A key \in DOMAIN db'[t] : Entry(key, db'[t][key]) \in Due(t)
         /\ \A t \in RowTables : DOMAIN db[t] \subseteq DOMAIN db'[t]
<1>1. RowTables \subseteq Tables
  BY DEF RowTables, Tables
<1>2. ASSUME NEW t \in RowTables, NEW key, NEW row, NEW k \in DOMAIN staged, staged[k].table = t,
             Holds(staged[k].rows, key, row)
      PROVE  Entry(key, row) \in Due(t)
  <2>1. PICK e \in Range(staged[k].rows) : e.key = key /\ e.row = row
    BY <1>2 DEF Holds
  <2>2. e \in Due(t)
    BY <1>2, <2>1 DEF LoadsDue
  <2>3. e = Entry(e.key, e.row)
    BY <2>2, RowsOfMeaning DEF Due
  <2>4. e = Entry(key, row)
    BY <2>1, <2>3
  <2> QED
    BY <2>2, <2>4
<1>3. ASSUME NEW t \in RowTables, NEW key \in DOMAIN db'[t]
      PROVE  Entry(key, db'[t][key]) \in Due(t)
  <2>1. CASE key \in DOMAIN db[t] /\ db'[t][key] = db[t][key]
    BY <2>1 DEF StoredDue
  <2>2. CASE Staged(staged, t, key, db'[t][key]) \/ Updates(staged, t, key, db'[t][key])
    BY <1>2, <2>2 DEF Staged, Updates
  <2> QED
    BY <1>1, <2>1, <2>2 DEF Written
<1> QED
  BY <1>1, <1>3 DEF Written

\* If what the stage reads stays, so do the recipes.
LEMMA SteadyIsSame == RecipesSteady => RecipesSame
<1> SUFFICES ASSUME RecipesSteady, NEW h \in Histories, NEW e \in DOMAIN h, NEW f \in DOMAIN h
             PROVE  {job.recipe : job \in Range(Listing(h[e].professions))}
                      = {job.recipe : job \in Range(Listing(h[f].professions))}
  BY DEF RecipesSame
<1>1. h \in Seq(Catalogues)
  BY SeedAssumption
<1>2. h[e] \in Catalogues /\ h[f] \in Catalogues
  BY <1>1, LenProperties, ElementOfSeq
<1>3. /\ h[e].professions \in Seq([id : Nat, tiers : Seq(SkillTiers)])
      /\ h[f].professions \in Seq([id : Nat, tiers : Seq(SkillTiers)])
  BY <1>2 DEF Catalogues
<1>4. Range(RecipeJobs(h[e].professions)) = Range(RecipeJobs(h[f].professions))
  BY DEF RecipesSteady
<1> QED
  BY <1>3, <1>4, RecipeJobsMeaning

LEMMA InitRows == Init => RowsInv
<1> SUFFICES ASSUME Init PROVE RowsInv
  OBVIOUS
<1>1. /\ jobs = {} /\ staged = <<>> /\ pc = "check" /\ status = {}
      /\ \A t \in RowTables : DOMAIN db[t] = {}
  BY DEF Init, EmptyDatabase, Tables, RowTables
<1>2. StoredDue /\ LoadsDue(staged)
  BY <1>1 DEF StoredDue, LoadsDue
<1> QED
  BY <1>1, <1>2 DEF RowsInv, RecipeWork

\* A commit makes the staged jobs whole.
LEMMA WholeByCommit ==
  ASSUME \A k \in DOMAIN staged : Keys(staged[k].rows) \subseteq DOMAIN db'[staged[k].table],
         NEW job, InLoads(staged, job)
  PROVE  \A t \in RowTables : \A e \in RowsOf(t, {job}, Api.recipes) : e.key \in DOMAIN db'[t]
<1> SUFFICES ASSUME NEW t \in RowTables, NEW e \in RowsOf(t, {job}, Api.recipes)
             PROVE  e.key \in DOMAIN db'[t]
  OBVIOUS
<1>1. PICK k \in DOMAIN staged :
        staged[k].table = t /\ RowsOf(t, {job}, Api.recipes) \subseteq Range(staged[k].rows)
  BY DEF InLoads
<1>2. e.key \in Keys(staged[k].rows)
  BY <1>1 DEF Keys
<1> QED
  BY <1>1, <1>2

\* A step keeps the rows due, and no job is forgotten.
LEMMA NextRows ==
  ASSUME RecipesSteady, TypeOK, LedgerInv, RowsInv, [Next]_vars
  PROVE  RowsInv'
<1>1. Api'.recipes = Api.recipes /\ Jobs' = Jobs
  <2>1. history' = history /\ (edition' = edition \/ Publish)
    BY ApiMoves
  <2>2. CASE edition' = edition
    BY <2>1, <2>2 DEF Jobs, Api
  <2>3. CASE Publish
    <3>1. history \in Histories /\ edition \in DOMAIN history /\ edition' \in DOMAIN history
      BY <2>3, ApiTyped DEF Publish, TypeOK
    <3>2. /\ history[edition'].recipes = history[edition].recipes
          /\ Range(RecipeJobs(history[edition'].professions))
               = Range(RecipeJobs(history[edition].professions))
      BY <3>1 DEF RecipesSteady
    <3> QED
      BY <2>1, <3>2 DEF Jobs, Api
  <2> QED
    BY <2>1, <2>2, <2>3
<1>2. \A job : Usable(job)' <=> Usable(job)
  BY <1>1 DEF Usable
<1>3. \A t : Due(t)' = Due(t)
  <2>1. UsableJobs' = UsableJobs
    BY <1>1, <1>2 DEF UsableJobs
  <2> QED
    BY <1>1, <2>1 DEF Due
<1>4. /\ \A t \in RowTables : \A key \in DOMAIN db'[t] : Entry(key, db'[t][key]) \in Due(t)
      /\ \A t \in RowTables : DOMAIN db[t] \subseteq DOMAIN db'[t]
  BY EveryStepWrites, DueIsWritten DEF RowsInv
<1>5. StoredDue'
  BY <1>3, <1>4 DEF StoredDue
<1>6. ASSUME NEW job PROVE Whole(job) => Whole(job)'
  BY <1>1, <1>2, <1>4 DEF Whole
<1>7. \A job, loads : InLoads(loads, job) => Usable(job)
  BY DEF InLoads
\* The loads of a step, whatever is read of the API later.
<1>8. /\ \A loads : LoadsDue(loads) /\ staged' = loads => LoadsDue(staged)'
      /\ \A loads, job : InLoads(loads, job) /\ staged' = loads => InLoads(staged, job)'
  BY <1>1, <1>2, <1>3 DEF LoadsDue, InLoads
<1>9. LoadsDue(<<>>) /\ \A job : ~InLoads(<<>>, job)
  BY DEF LoadsDue, InLoads, RowTables
<1>10. "recipes" \in status' => \A job \in Jobs : Whole(job)'
  <2> SUFFICES ASSUME "recipes" \in status', NEW job \in Jobs PROVE Whole(job)
    BY <1>6
  <2>1. CASE "recipes" \in status
    BY <2>1 DEF RowsInv
  <2>2. CASE "recipes" \notin status
    <3>1. status' \subseteq status \/ status' = status \cup Marked
      BY StatusMoves DEF RecordError
    <3>2. "recipes" \in Marked
      BY <2>2, <3>1
    <3>3. Marked \cap Stages[3] # {}
      BY <3>2, StagesMeaning
    <3>4. stage = 3 /\ pc \in {"mark", "markSecond"} /\ staged = <<>>
      BY <3>3, MarksOfRecipes, MarkedStage
    <3>5. jobs = {} /\ pc \in RecipeWork
      BY <3>4 DEF LedgerInv, RecipeWork
    <3> QED
      BY <1>9, <3>4, <3>5 DEF RowsInv
  <2> QED
    BY <2>1, <2>2
<1>11. /\ LoadsDue(staged) /\ jobs \subseteq Jobs
       /\ stage = 3 /\ pc \in RecipeWork =>
            \A job \in Jobs : job \in jobs \/ Whole(job)' \/ InLoads(staged, job)
  BY <1>6 DEF RowsInv
\* The steps that leave the recipe work, or pass it by.
<1>12. ASSUME NEW loads, staged' = loads, LoadsDue(loads), jobs' \subseteq Jobs,
              ~(stage' = 3 /\ pc' \in RecipeWork)
       PROVE  RowsInv'
  BY <1>1, <1>5, <1>8, <1>10, <1>12 DEF RowsInv
\* The steps of the recipe work.
<1>13. ASSUME NEW loads, staged' = loads, LoadsDue(loads), jobs' \subseteq Jobs,
              stage = 3, pc \in RecipeWork,
              \A job \in Jobs : job \in jobs \/ InLoads(staged, job) =>
                job \in jobs' \/ Whole(job)' \/ InLoads(loads, job)
       PROVE  RowsInv'
  <2>1. \A job \in Jobs : job \in jobs' \/ Whole(job)' \/ InLoads(staged, job)'
    BY <1>8, <1>11, <1>13
  <2> QED
    BY <1>1, <1>5, <1>8, <1>10, <1>13, <2>1 DEF RowsInv
<1>14. ASSUME UNCHANGED <<staged, jobs, stage, pc>> PROVE RowsInv'
  <2>1. CASE stage = 3 /\ pc \in RecipeWork
    BY <1>11, <1>13, <1>14, <2>1
  <2>2. CASE ~(stage = 3 /\ pc \in RecipeWork)
    BY <1>11, <1>12, <1>14, <2>2
  <2> QED
    BY <2>1, <2>2
<1>15. CASE UNCHANGED vars
  BY <1>14, <1>15 DEF vars
<1>16. CASE NextStage
  <2>1. UNCHANGED <<jobs, staged>> /\ pc' \in {"polling", "search", "professions", "list"}
    BY <1>16, NextStageMeaning DEF NextStage
  <2>2. pc' \notin RecipeWork
    BY <2>1 DEF RecipeWork
  <2> QED
    BY <1>11, <1>12, <2>1, <2>2
<1>17. CASE Mark
  <2>1. /\ UNCHANGED <<jobs, staged, stage>>
        /\ pc' = IF stage = 3 /\ pc = "mark" THEN "markSecond" ELSE "check"
    BY <1>17 DEF Mark
  <2>2. CASE stage = 3 /\ pc = "mark"
    <3>1. pc \in RecipeWork
      BY <2>2 DEF RecipeWork
    <3> QED
      BY <1>11, <1>13, <2>1, <2>2, <3>1
  <2>3. CASE ~(stage = 3 /\ pc = "mark")
    <3>1. pc' \notin RecipeWork
      BY <2>1, <2>3 DEF RecipeWork
    <3> QED
      BY <1>11, <1>12, <2>1, <3>1
  <2> QED
    BY <2>2, <2>3
<1>18. CASE RecordError
  <2>1. UNCHANGED <<jobs, staged>> /\ pc' = "exit"
    BY <1>18 DEF RecordError
  <2>2. pc' \notin RecipeWork
    BY <2>1 DEF RecipeWork
  <2> QED
    BY <1>11, <1>12, <2>1, <2>2
<1>19. ASSUME NEW loads, staged' = loads, \A k \in DOMAIN loads : loads[k].table \notin RowTables,
              jobs' = jobs, stage' # 3 \/ pc' \notin RecipeWork
       PROVE  RowsInv'
  <2>1. LoadsDue(loads)
    BY <1>19 DEF LoadsDue
  <2> QED
    BY <1>11, <1>12, <1>19, <2>1
<1>20. CASE SearchItems
  <2>1. /\ jobs' = jobs /\ pc' \in ItemSteps
        /\ \/ staged' = staged
           \/ \E rows : staged' = ItemLoads(rows)
    BY <1>20, SearchMeaning DEF ItemSteps
  <2>2. pc' \notin RecipeWork
    BY <2>1 DEF RecipeWork, ItemSteps
  <2>3. ASSUME NEW rows, staged' = ItemLoads(rows) PROVE RowsInv'
    <3>1. \A k \in DOMAIN ItemLoads(rows) : ItemLoads(rows)[k].table \notin RowTables
      BY DEF ItemLoads, Load, RowTables
    <3> QED
      BY <1>19, <2>1, <2>2, <2>3, <3>1
  <2>4. CASE staged' = staged
    BY <1>11, <1>12, <2>1, <2>2, <2>4
  <2> QED
    BY <2>1, <2>3, <2>4
\* A commit.
<1>21. ASSUME NEW at, NEW goto, Commit(at, goto)
       PROVE  /\ UNCHANGED <<jobs, stage>> /\ pc = at /\ pc' \in {goto, "failed"} /\ staged' = <<>>
              /\ pc' = "failed" \/ \A job : InLoads(staged, job) => Whole(job)'
  <2>1. /\ UNCHANGED <<jobs, stage>> /\ pc = at /\ pc' \in {goto, "failed"} /\ staged' = <<>>
        /\ \/ pc' = "failed"
           \/ \A k \in DOMAIN staged : Keys(staged[k].rows) \subseteq DOMAIN db'[staged[k].table]
    BY <1>21, CommitMeaning
  <2>2. ASSUME \A k \in DOMAIN staged : Keys(staged[k].rows) \subseteq DOMAIN db'[staged[k].table],
               NEW job, InLoads(staged, job)
        PROVE  Whole(job)'
    <3>1. \A t \in RowTables : \A e \in RowsOf(t, {job}, Api.recipes) : e.key \in DOMAIN db'[t]
      BY <2>2, WholeByCommit
    <3> QED
      BY <1>1, <1>2, <1>7, <2>2, <3>1 DEF Whole
  <2> QED
    BY <2>1, <2>2
<1>22. CASE FlushItems
  <2>1. pc \in {"flush", "lastFlush"} /\ UNCHANGED <<jobs, stage>> /\ staged' = <<>>
    BY <1>22, <1>21 DEF FlushItems
  <2>2. stage = 1
    BY <2>1 DEF TypeOK, ItemSteps
  <2> QED
    BY <1>9, <1>11, <1>12, <2>1, <2>2
<1>23. CASE StoreProfessions
  <2>1. pc = "storeProfessions" /\ UNCHANGED <<jobs, stage>> /\ staged' = <<>>
    BY <1>23, <1>21 DEF StoreProfessions
  <2>2. stage = 2
    BY <2>1 DEF TypeOK, ProfessionSteps
  <2> QED
    BY <1>9, <1>11, <1>12, <2>1, <2>2
<1>24. ASSUME NEW at \in {"hierarchy", "storeBatch"}, Commit(at, "batches")
       PROVE  RowsInv'
  <2>1. /\ pc = at /\ UNCHANGED <<jobs, stage>> /\ staged' = <<>>
        /\ pc' \in {"batches", "failed"}
        /\ pc' = "failed" \/ \A job : InLoads(staged, job) => Whole(job)'
    BY <1>21, <1>24
  <2>2. stage = 3 /\ pc \in RecipeWork
    BY <1>24, <2>1 DEF TypeOK, RecipeSteps, RecipeWork
  <2>3. CASE pc' = "failed"
    <3>1. pc' \notin RecipeWork
      BY <2>3 DEF RecipeWork
    <3> QED
      BY <1>9, <1>11, <1>12, <2>1, <3>1
  <2>4. CASE pc' # "failed"
    BY <1>9, <1>11, <1>13, <2>1, <2>2, <2>4
  <2> QED
    BY <2>3, <2>4
<1>25. CASE StoreHierarchy
  BY <1>24, <1>25 DEF StoreHierarchy
<1>26. CASE StoreBatch
  BY <1>24, <1>26 DEF StoreBatch
<1>27. CASE ListProfessions
  <2> DEFINE a == [k \in DOMAIN Api.professions |-> Entry(Api.professions[k].id, None)]
             b == TierRows(Api.professions)
             loads == <<Load("professions", a, "update"), Load("tiers", b, "update")>>
  <2>1. jobs' = jobs /\ pc' = "storeProfessions" /\ staged' = loads
    BY <1>27 DEF ListProfessions
  <2>2. pc' \notin RecipeWork
    BY <2>1 DEF RecipeWork
  <2> HIDE DEF a, b
  <2>3. \A k \in DOMAIN loads : loads[k].table \notin RowTables
    BY DEF Load, RowTables
  <2> HIDE DEF loads
  <2> QED
    BY <1>19, <2>1, <2>2, <2>3
<1>28. CASE ListRecipes
  <2> DEFINE loads == HierarchyLoads(TierRows(Api.professions), CategoryRows(Api.professions))
  <2>1. /\ jobs' = Jobs /\ pc' = "hierarchy" /\ stage' = stage /\ pc = "list"
        /\ staged' = loads
    BY <1>28 DEF ListRecipes, Jobs
  <2>2. \A k \in DOMAIN loads : loads[k].table \notin RowTables
    BY DEF HierarchyLoads, Load, RowTables
  <2> HIDE DEF loads
  <2>3. LoadsDue(loads)
    BY <2>2 DEF LoadsDue
  <2>4. LoadsDue(staged)' /\ jobs' = Jobs'
    BY <1>1, <1>8, <2>1, <2>3
  <2> QED
    BY <1>5, <1>10, <1>1, <2>4 DEF RowsInv
<1>29. CASE TakeBatch
  <2>1. PICK batch \in SUBSET jobs :
          /\ jobs' = jobs \ batch
          /\ \/ /\ staged' = BatchLoads(batch, Api.recipes) /\ pc' = "storeBatch"
                /\ \A job \in batch : Usable(job)
             \/ pc' = "failed" /\ staged' = staged
    BY <1>29 DEF TakeBatch
  <2>2. pc = "batches" /\ stage' = stage
    BY <1>29 DEF TakeBatch
  <2>3. stage = 3 /\ pc \in RecipeWork /\ staged = <<>>
    BY <2>2 DEF TypeOK, RecipeSteps, RecipeWork, Committing
  <2>4. IsFiniteSet(batch) /\ jobs' \subseteq Jobs /\ batch \subseteq Jobs
    BY <1>11, <2>1, FS_Subset DEF LedgerInv
  <2>5. CASE pc' = "failed" /\ staged' = staged
    <3>1. pc' \notin RecipeWork
      BY <2>5 DEF RecipeWork
    <3> QED
      BY <1>11, <1>12, <2>4, <2>5, <3>1
  <2>6. CASE /\ staged' = BatchLoads(batch, Api.recipes) /\ pc' = "storeBatch"
             /\ \A job \in batch : Usable(job)
    <3> DEFINE loads == BatchLoads(batch, Api.recipes)
    <3>1. batch \subseteq UsableJobs
      BY <2>4, <2>6 DEF UsableJobs
    <3>2. LoadsDue(loads) /\ \A job \in batch : InLoads(loads, job)
      BY <2>4, <3>1, BatchRows
    <3>3. staged' = loads
      BY <2>6
    <3> HIDE DEF loads
    <3>4. \A job \in Jobs : job \in jobs \/ InLoads(staged, job) => job \in jobs' \/ InLoads(loads, job)
      BY <1>9, <2>1, <2>3, <3>2
    <3> QED
      BY <1>13, <2>3, <2>4, <3>2, <3>3, <3>4
  <2> QED
    BY <2>1, <2>5, <2>6
<1>30. CASE AllBatchesStored
  <2>1. pc = "batches" /\ UNCHANGED <<jobs, staged, stage>>
    BY <1>30 DEF AllBatchesStored
  <2>2. stage = 3 /\ pc \in RecipeWork
    BY <2>1 DEF TypeOK, RecipeSteps, RecipeWork
  <2> QED
    BY <1>11, <1>13, <2>1, <2>2
<1>31. CASE Fails
  <2>1. UNCHANGED <<jobs, staged>> /\ pc' \in {"failed", "exit"}
    BY <1>31, FailsMeaning
  <2>2. pc' \notin RecipeWork
    BY <2>1 DEF RecipeWork
  <2> QED
    BY <1>11, <1>12, <2>1, <2>2
<1>32. CASE Restart
  <2>1. jobs' = {} /\ staged' = <<>> /\ pc' = "check"
    BY <1>32 DEF Restart
  <2>2. pc' \notin RecipeWork /\ jobs' \subseteq Jobs
    BY <2>1 DEF RecipeWork
  <2> QED
    BY <1>9, <1>12, <2>1, <2>2
<1>33. CASE Publish
  BY <1>14, <1>33 DEF Publish
<1> QED
  BY <1>15, <1>16, <1>17, <1>18, <1>20, <1>22, <1>23, <1>25, <1>26, <1>27, <1>28, <1>29, <1>30,
     <1>31, <1>32, <1>33 DEF Next, Seed

\* The variants of a recipe of a valid shape are what the API says is crafted;
\* a faction has one of them.
LEMMA VariantsAreOutputs ==
  ASSUME NEW r, ValidShape(r)
  PROVE  /\ {<<v.faction, v.item>> : v \in Variants(r)} = Outputs(r)
         /\ \A v, w \in Variants(r) : v.faction = w.faction => v = w
<1> DEFINE Made == {<<"Neutral", r.crafted>>, <<"Alliance", r.alliance>>, <<"Horde", r.horde>>}
           Given == {o \in Made : o[2] # None}
           A == [faction |-> "Alliance", item |-> r.alliance]
           H == [faction |-> "Horde", item |-> r.horde]
           N == [faction |-> "Neutral", item |-> r.crafted]
<1>0. Outputs(r) = IF Given = {} THEN {<<"Neutral", None>>} ELSE Given
  BY DEF Outputs
<1>1. CASE r.alliance # None
  <2>1. r.horde # None /\ r.crafted = None
    BY <1>1 DEF ValidShape
  <2>2. Variants(r) = {A, H}
    BY <1>1 DEF Variants
  <2>3. {<<v.faction, v.item>> : v \in Variants(r)} = {<<"Alliance", r.alliance>>, <<"Horde", r.horde>>}
    BY <2>2
  <2>4. Given = {<<"Alliance", r.alliance>>, <<"Horde", r.horde>>}
    BY <1>1, <2>1
  <2>5. \A v, w \in Variants(r) : v.faction = w.faction => v = w
    BY <2>2
  <2> QED
    BY <1>0, <2>3, <2>4, <2>5
<1>2. CASE r.alliance = None
  <2>1. r.horde = None
    BY <1>2 DEF ValidShape
  <2>2. Variants(r) = {N}
    BY <1>2, <2>1 DEF Variants
  <2>3. {<<v.faction, v.item>> : v \in Variants(r)} = {<<"Neutral", r.crafted>>}
    BY <2>2
  <2>4. \A v, w \in Variants(r) : v.faction = w.faction => v = w
    BY <2>2
  <2>5. CASE r.crafted = None
    <3>1. Given = {}
      BY <1>2, <2>1, <2>5
    <3> QED
      BY <1>0, <2>3, <2>4, <2>5, <3>1
  <2>6. CASE r.crafted # None
    <3>1. Given = {<<"Neutral", r.crafted>>}
      BY <1>2, <2>1, <2>6
    <3> QED
      BY <1>0, <2>3, <2>4, <3>1
  <2> QED
    BY <2>5, <2>6
<1> QED
  BY <1>1, <1>2

\* One job for a recipe.
LEMMA JobOfRecipe ==
  ASSUME TypeOK
  PROVE  \A a, b \in Jobs : a.recipe = b.recipe => a = b
<1>1. Api.professions \in Seq([id : Nat, tiers : Seq(SkillTiers)])
  BY ApiTyped DEF Catalogues
<1> QED
  BY <1>1, RecipeJobsMeaning DEF Jobs

\* The recipes rows of a whole job.
LEMMA RecipeAsListed ==
  ASSUME TypeOK, StoredDue, NEW job \in Jobs, Whole(job),
         NEW r, r = Api.recipes[job.recipe],
         NEW Stored, Stored = {key \in DOMAIN db.recipes : key[1] = job.recipe}
  PROVE  /\ {<<key[2], db.recipes[key].item>> : key \in Stored} = Outputs(r)
         /\ \A key \in Stored : db.recipes[key].place = job.place
<1>0. ValidShape(r) /\ "recipes" \in RowTables
  BY DEF Whole, Usable, RowTables
<1>1. ASSUME NEW key \in Stored
      PROVE  \E v \in Variants(r) : /\ key = <<job.recipe, v.faction>>
                                    /\ db["recipes"][key] = [place |-> job.place, item |-> v.item]
  <2>1. Entry(key, db["recipes"][key]) \in RecipesOf(UsableJobs, Api.recipes)
    BY <1>0 DEF StoredDue, Due, RowsOf
  <2>2. PICK j \in UsableJobs :
          Entry(key, db["recipes"][key]) \in VariantRows(j, Api.recipes[j.recipe])
    BY <2>1 DEF RecipesOf
  <2>3. PICK v \in Variants(Api.recipes[j.recipe]) :
          Entry(key, db["recipes"][key])
            = Entry(<<j.recipe, v.faction>>, [place |-> j.place, item |-> v.item])
    BY <2>2 DEF VariantRows
  <2>4. /\ key = <<j.recipe, v.faction>>
        /\ db["recipes"][key] = [place |-> j.place, item |-> v.item]
    BY <2>3 DEF Entry
  <2>5. key[1] = j.recipe /\ j \in Jobs
    BY <2>4 DEF UsableJobs
  <2>6. j = job
    BY <2>5, JobOfRecipe
  <2> QED
    BY <2>4, <2>6
<1>2. ASSUME NEW v \in Variants(r)
      PROVE  \E key \in Stored : key[2] = v.faction /\ db["recipes"][key].item = v.item
  <2> DEFINE key == <<job.recipe, v.faction>>
             e == Entry(key, [place |-> job.place, item |-> v.item])
  <2>1. e \in VariantRows(job, r)
    BY DEF VariantRows
  <2>2. e \in RowsOf("recipes", {job}, Api.recipes)
    BY <2>1 DEF RowsOf, RecipesOf
  <2>3. e.key = key /\ key[1] = job.recipe /\ key[2] = v.faction
    BY DEF Entry
  <2> HIDE DEF key, e
  <2>4. key \in DOMAIN db["recipes"]
    BY <1>0, <2>2, <2>3 DEF Whole
  <2>5. key \in Stored
    BY <2>3, <2>4
  <2>6. PICK w \in Variants(r) : /\ key = <<job.recipe, w.faction>>
                                 /\ db["recipes"][key] = [place |-> job.place, item |-> w.item]
    BY <1>1, <2>5
  <2>7. key[2] = w.faction /\ db["recipes"][key].item = w.item
    BY <2>6
  <2>8. w = v
    <3>1. \A a, b \in Variants(r) : a.faction = b.faction => a = b
      BY <1>0, VariantsAreOutputs
    <3>2. w.faction = v.faction
      BY <2>3, <2>7
    <3> QED
      BY <3>1, <3>2
  <2> QED
    BY <2>5, <2>7, <2>8
<1>3. ASSUME NEW key \in Stored
      PROVE  /\ db["recipes"][key].place = job.place
             /\ \E v \in Variants(r) : key[2] = v.faction /\ db["recipes"][key].item = v.item
  <2>1. PICK v \in Variants(r) : /\ key = <<job.recipe, v.faction>>
                                 /\ db["recipes"][key] = [place |-> job.place, item |-> v.item]
    BY <1>1
  <2> QED
    BY <2>1
<1>4. {<<key[2], db["recipes"][key].item>> : key \in Stored}
        = {<<v.faction, v.item>> : v \in Variants(r)}
  <2>1. ASSUME NEW key \in Stored
        PROVE  <<key[2], db["recipes"][key].item>> \in {<<v.faction, v.item>> : v \in Variants(r)}
    BY <1>3
  <2>2. ASSUME NEW v \in Variants(r)
        PROVE  <<v.faction, v.item>> \in {<<key[2], db["recipes"][key].item>> : key \in Stored}
    BY <1>2
  <2> QED
    BY <2>1, <2>2
<1> QED
  BY <1>0, <1>3, <1>4, VariantsAreOutputs

\* The reagents rows of a whole job.
UsedAsListed(r, Used) ==
  /\ {<<key[2], key[3]>> : key \in Used} = {<<o[1], i>> : o \in Outputs(r), i \in NeededItems(r)}
  /\ \A key \in Used : db.reagents[key].optional = (key[3] \notin RequiredItems(r))

LEMMA ReagentsAsListed ==
  ASSUME TypeOK, StoredDue, NEW job \in Jobs, Whole(job),
         NEW r, r = Api.recipes[job.recipe],
         NEW Used, Used = {key \in DOMAIN db.reagents : key[1] = job.recipe}
  PROVE  UsedAsListed(r, Used)
<1>0. ValidShape(r) /\ "reagents" \in RowTables /\ "reagents" # "recipes" /\ r \in RecipeDetails
  <2>1. Api.recipes \in Seq(RecipeDetails)
    BY ApiTyped DEF Catalogues
  <2>2. \A k \in DOMAIN Api.recipes : Api.recipes[k] \in RecipeDetails
    BY <2>1, ElementOfSeq, LenProperties
  <2> QED
    BY <2>2 DEF Whole, Usable, RowTables
<1> DEFINE rows == Reagents(r)
<1>1. Flags(rows, NeededItems(r), RequiredItems(r))
  BY <1>0, ReagentsMeaning
<1> HIDE DEF rows
<1>2. DOMAIN rows = NeededItems(r)
  BY <1>1 DEF Flags
<1>3. ASSUME NEW key \in Used
      PROVE  \E v \in Variants(r), i \in NeededItems(r) :
               key = <<job.recipe, v.faction, i>> /\ db["reagents"][key] = rows[i]
  <2>1. Entry(key, db["reagents"][key]) \in ReagentsOf(UsableJobs, Api.recipes)
    BY <1>0 DEF StoredDue, Due, RowsOf
  <2>2. PICK j \in UsableJobs :
          Entry(key, db["reagents"][key])
            \in KeyedRows(j, Api.recipes[j.recipe], Reagents(Api.recipes[j.recipe]))
    BY <2>1 DEF ReagentsOf
  <2>3. PICK v \in Variants(Api.recipes[j.recipe]), i \in DOMAIN Reagents(Api.recipes[j.recipe]) :
          Entry(key, db["reagents"][key])
            = Entry(<<j.recipe, v.faction, i>>, Reagents(Api.recipes[j.recipe])[i])
    BY <2>2 DEF KeyedRows
  <2>4. /\ key = <<j.recipe, v.faction, i>>
        /\ db["reagents"][key] = Reagents(Api.recipes[j.recipe])[i]
    BY <2>3 DEF Entry
  <2>5. key[1] = j.recipe /\ j \in Jobs
    BY <2>4 DEF UsableJobs
  <2>6. j = job
    BY <2>5, JobOfRecipe
  <2> QED
    BY <1>2, <2>3, <2>4, <2>6 DEF rows
<1>4. ASSUME NEW v \in Variants(r), NEW i \in NeededItems(r)
      PROVE  \E key \in Used : key[2] = v.faction /\ key[3] = i
  <2> DEFINE key == <<job.recipe, v.faction, i>>
             e == Entry(key, rows[i])
  <2>1. e \in KeyedRows(job, r, rows)
    BY <1>2 DEF KeyedRows
  <2>2. e \in RowsOf("reagents", {job}, Api.recipes)
    BY <1>0, <2>1 DEF RowsOf, ReagentsOf, rows
  <2>3. e.key = key /\ key[1] = job.recipe /\ key[2] = v.faction /\ key[3] = i
    BY DEF Entry
  <2> HIDE DEF key, e
  <2>4. key \in DOMAIN db["reagents"]
    BY <1>0, <2>2, <2>3 DEF Whole
  <2> QED
    BY <2>3, <2>4
<1>5. ASSUME NEW key \in Used
      PROVE  /\ db["reagents"][key].optional = (key[3] \notin RequiredItems(r))
             /\ \E v \in Variants(r), i \in NeededItems(r) : key[2] = v.faction /\ key[3] = i
  <2>1. PICK v \in Variants(r), i \in NeededItems(r) :
          key = <<job.recipe, v.faction, i>> /\ db["reagents"][key] = rows[i]
    BY <1>3
  <2>2. key[2] = v.faction /\ key[3] = i
    BY <2>1
  <2>3. rows[i].optional = (i \notin RequiredItems(r))
    BY <1>1 DEF Flags
  <2> QED
    BY <2>1, <2>2, <2>3
<1>6. {<<key[2], key[3]>> : key \in Used} = {<<v.faction, i>> : v \in Variants(r), i \in NeededItems(r)}
  <2>1. ASSUME NEW key \in Used
        PROVE  <<key[2], key[3]>> \in {<<v.faction, i>> : v \in Variants(r), i \in NeededItems(r)}
    BY <1>5
  <2>2. ASSUME NEW v \in Variants(r), NEW i \in NeededItems(r)
        PROVE  <<v.faction, i>> \in {<<key[2], key[3]>> : key \in Used}
    BY <1>4
  <2>3. ASSUME NEW x \in {<<key[2], key[3]>> : key \in Used}
        PROVE  x \in {<<v.faction, i>> : v \in Variants(r), i \in NeededItems(r)}
    BY <2>1
  <2>4. ASSUME NEW x \in {<<v.faction, i>> : v \in Variants(r), i \in NeededItems(r)}
        PROVE  x \in {<<key[2], key[3]>> : key \in Used}
    <3>1. PICK v \in Variants(r), i \in NeededItems(r) : x = <<v.faction, i>>
      OBVIOUS
    <3> QED
      BY <2>2, <3>1
  <2> QED
    BY <2>3, <2>4
<1>7. {<<v.faction, i>> : v \in Variants(r), i \in NeededItems(r)}
        = {<<o[1], i>> : o \in Outputs(r), i \in NeededItems(r)}
  <2>1. {<<v.faction, v.item>> : v \in Variants(r)} = Outputs(r)
    BY <1>0, VariantsAreOutputs
  <2>2. ASSUME NEW v \in Variants(r) PROVE \E o \in Outputs(r) : o[1] = v.faction
    <3>1. <<v.faction, v.item>> \in Outputs(r)
      BY <2>1
    <3> QED
      BY <3>1
  <2>3. ASSUME NEW o \in Outputs(r) PROVE \E v \in Variants(r) : o[1] = v.faction
    BY <2>1
  <2>4. ASSUME NEW v \in Variants(r), NEW i \in NeededItems(r)
        PROVE  <<v.faction, i>> \in {<<o[1], j>> : o \in Outputs(r), j \in NeededItems(r)}
    BY <2>2
  <2>5. ASSUME NEW o \in Outputs(r), NEW i \in NeededItems(r)
        PROVE  <<o[1], i>> \in {<<v.faction, j>> : v \in Variants(r), j \in NeededItems(r)}
    BY <2>3
  <2>6. ASSUME NEW x \in {<<v.faction, i>> : v \in Variants(r), i \in NeededItems(r)}
        PROVE  x \in {<<o[1], i>> : o \in Outputs(r), i \in NeededItems(r)}
    <3>1. PICK v \in Variants(r), i \in NeededItems(r) : x = <<v.faction, i>>
      OBVIOUS
    <3> QED
      BY <2>4, <3>1
  <2>7. ASSUME NEW x \in {<<o[1], i>> : o \in Outputs(r), i \in NeededItems(r)}
        PROVE  x \in {<<v.faction, i>> : v \in Variants(r), i \in NeededItems(r)}
    <3>1. PICK o \in Outputs(r), i \in NeededItems(r) : x = <<o[1], i>>
      OBVIOUS
    <3> QED
      BY <2>5, <3>1
  <2> QED
    BY <2>6, <2>7
<1> QED
  BY <1>5, <1>6, <1>7 DEF UsedAsListed

\* A completed recipes stage holds every listed recipe under its first place,
\* with its crafted items under their factions and every reagent once per
\* faction, optional only if it is not required as well (RecipesAsListed of
\* SeedStages; recipeVariants and storeRecipeBatch of recipes_seed.go), for any
\* catalogues, batches, failures and restarts, as long as nothing that the stage
\* reads of the API becomes another thing.
THEOREM RecipesAreAsListed ==
  ASSUME RecipesSteady
  PROVE  Spec => []RecipesAsListed
<1>1. TypeOK /\ LedgerInv /\ [Next]_vars => LedgerInv'
  BY SteadyIsSame, NextLedger
<1>2. TypeOK /\ LedgerInv /\ RowsInv /\ [Next]_vars => RowsInv'
  BY NextRows
<1>3. TypeOK /\ RowsInv => RecipesAsListed
  <2> SUFFICES ASSUME TypeOK, RowsInv, "recipes" \in status,
                      NEW job \in Range(RecipeJobs(Api.professions))
               PROVE  LET r == Api.recipes[job.recipe]
                          Stored == {key \in DOMAIN db.recipes : key[1] = job.recipe}
                          Used == {key \in DOMAIN db.reagents : key[1] = job.recipe}
                      IN /\ {<<key[2], db.recipes[key].item>> : key \in Stored} = Outputs(r)
                         /\ \A key \in Stored : db.recipes[key].place = job.place
                         /\ {<<key[2], key[3]>> : key \in Used}
                              = {<<o[1], i>> : o \in Outputs(r), i \in NeededItems(r)}
                         /\ \A key \in Used : db.reagents[key].optional = (key[3] \notin RequiredItems(r))
    BY DEF RecipesAsListed
  <2>1. StoredDue /\ job \in Jobs /\ Whole(job)
    BY DEF RowsInv, Jobs
  <2> DEFINE r == Api.recipes[job.recipe]
             Stored == {key \in DOMAIN db.recipes : key[1] = job.recipe}
             Used == {key \in DOMAIN db.reagents : key[1] = job.recipe}
  <2>0. /\ r = Api.recipes[job.recipe]
        /\ Stored = {key \in DOMAIN db.recipes : key[1] = job.recipe}
        /\ Used = {key \in DOMAIN db.reagents : key[1] = job.recipe}
    OBVIOUS
  <2> HIDE DEF r, Stored, Used
  <2>2. /\ {<<key[2], db.recipes[key].item>> : key \in Stored} = Outputs(r)
        /\ \A key \in Stored : db.recipes[key].place = job.place
    BY <2>0, <2>1, RecipeAsListed
  <2>3. UsedAsListed(r, Used)
    BY <2>0, <2>1, ReagentsAsListed
  <2> QED
    BY <2>2, <2>3 DEF r, Stored, Used, UsedAsListed
<1> QED
  BY <1>1, <1>2, <1>3, InitLedger, InitRows, TypeInvariance, PTL DEF Spec

=============================================================================
