---------------------------- MODULE Logs_proofs ----------------------------
(***************************************************************************)
(* The log store is sound: the rollup of a closed hour is exact, a page    *)
(* counts each row once, an old row is stripped, and a purge takes the     *)
(* excess only.  The invariants relate the rows to the fill under way, to  *)
(* the page under way, and to the cursor of each purge.  The reads of      *)
(* several statements give what they should: theirs relate the rows seen   *)
(* to the rank of the next row.  An answer of the cache is the one asked   *)
(* for, and recent.                                                        *)
(***************************************************************************)
EXTENDS Logs, FiniteSetTheorems, TLAPS

----------------------------------------------------------------------------
(* Least elements: what is chosen by Max, Min, First and Last. *)

Smaller(y, x) == y \subseteq x /\ y # x

\* A non-empty family of finite sets has a minimal one.
LEMMA FiniteMin ==
  ASSUME NEW T, T # {}, \A x \in T : IsFiniteSet(x)
  PROVE  \E x \in T : \A y \in T : ~Smaller(y, x)
<1> DEFINE S == UNION T
           R == StrictSubsetOrdering(S)
<1>1. IsWellFoundedOn(R, FiniteSubsetsOf(S))
  BY FS_StrictSubsetOrderingWellFounded
<1>2. T \subseteq FiniteSubsetsOf(S)
  BY DEF FiniteSubsetsOf
<1> HIDE DEF R
<1>3. PICK x \in T : \A y \in T : ~(<<y, x>> \in R)
  BY <1>1, <1>2, WFMin
<1>4. \A y \in T : Smaller(y, x) => <<y, x>> \in R
  BY DEF R, StrictSubsetOrdering, Smaller
<1> QED
  BY <1>3, <1>4, Zenon

\* A non-empty set of natural numbers has a least one.
LEMMA LeastNat ==
  ASSUME NEW N \in SUBSET Nat, N # {}
  PROVE  \E m \in N : \A n \in N : m <= n
<1> DEFINE T == {1 .. n : n \in N}
<1>1. \A x \in T : IsFiniteSet(x)
  BY FS_Interval
<1>2. T # {}
  OBVIOUS
<1>3. (\A x \in T : \E n \in N : x = 1 .. n) /\ \A n \in N : 1 .. n \in T
  OBVIOUS
<1> HIDE DEF T
<1>4. PICK x \in T : \A y \in T : ~Smaller(y, x)
  BY <1>1, <1>2, FiniteMin
<1>5. PICK m \in N : x = 1 .. m
  BY <1>3
<1>6. ASSUME NEW n \in N, n < m PROVE FALSE
  <2>1. 1 .. n \subseteq 1 .. m /\ m \in 1 .. m /\ m \notin 1 .. n
    BY <1>6
  <2>2. Smaller(1 .. n, 1 .. m)
    BY <2>1 DEF Smaller
  <2> QED
    BY <1>3, <1>4, <1>5, <2>2, Zenon
<1> QED
  BY <1>6

\* Min of a non-empty set of natural numbers.
LEMMA MinIsLeast ==
  ASSUME NEW N \in SUBSET Nat, N # {}
  PROVE  Min(N) \in N /\ \A n \in N : Min(N) <= n
BY LeastNat DEF Min

\* Max of a non-empty set of hours.
LEMMA MaxIsGreatest ==
  ASSUME NEW N \in SUBSET Hours, N # {}
  PROVE  Max(N) \in N /\ \A n \in N : n <= Max(N)
<1> DEFINE M == {MaxTime - n : n \in N}
<1>1. \A n \in N : n \in Nat /\ MaxTime - n \in Nat /\ MaxTime - n \in M
  BY LogAssumption DEF Hours
<1>2. M \in SUBSET Nat /\ M # {}
  BY <1>1
<1>3. PICK m \in M : \A k \in M : m <= k
  BY <1>2, LeastNat
<1>4. PICK g \in N : m = MaxTime - g
  OBVIOUS
<1> HIDE DEF M
<1>5. \A n \in N : n <= g
  BY <1>1, <1>3, <1>4, LogAssumption
<1> QED
  BY <1>1, <1>5 DEF Max

\* Of two numbers.
LEMMA MaxOfTwo ==
  ASSUME NEW a \in Int, NEW b \in Int
  PROVE  Max({a, b}) \in {a, b} /\ a <= Max({a, b}) /\ b <= Max({a, b})
<1>1. \E x \in {a, b} : \A y \in {a, b} : x >= y
  <2>1. CASE a >= b
    BY <2>1
  <2>2. CASE ~(a >= b)
    BY <2>2
  <2> QED
    BY <2>1, <2>2
<1> QED
  BY <1>1 DEF Max

\* The lesser of two numbers.
LEMMA MinOfTwo ==
  ASSUME NEW a \in Int, NEW b \in Int
  PROVE  Min({a, b}) \in {a, b} /\ Min({a, b}) <= a /\ Min({a, b}) <= b
<1>1. \E x \in {a, b} : \A y \in {a, b} : x <= y
  <2>1. CASE a <= b
    BY <2>1
  <2>2. CASE ~(a <= b)
    BY <2>2
  <2> QED
    BY <2>1, <2>2
<1> QED
  BY <1>1 DEF Min

----------------------------------------------------------------------------
(* ORDER BY timestamp, id LIMIT n *)

\* A row is known by its id.
Keyed(S) == \A r, s \in S : r.id = s.id => r = s
Table(S) == S \subseteq Entry /\ IsFiniteSet(S) /\ Keyed(S)

\* The rows of a table are in a total order.
LEMMA Order ==
  ASSUME NEW S, Table(S)
  PROVE  /\ \A r \in S : ~Before(r, r)
         /\ \A r, s \in S : r = s \/ Before(r, s) \/ Before(s, r)
         /\ \A r, s \in S : Before(r, s) => ~Before(s, r)
         /\ \A r, s, t \in S : Before(r, s) /\ Before(s, t) => Before(r, t)
BY LogAssumption DEF Table, Keyed, Before, Entry, Hours

\* A table that has rows has a first one.
LEMMA HasFirst ==
  ASSUME NEW S, Table(S), S # {}
  PROVE  \E r \in S : \A s \in S : s = r \/ Before(r, s)
<1> DEFINE P(r) == {t \in S : Before(t, r)}
           T    == {P(r) : r \in S}
<1>1. \A x \in T : IsFiniteSet(x)
  BY FS_Subset DEF Table
<1>2. T # {} /\ (\A x \in T : \E r \in S : x = P(r)) /\ \A r \in S : P(r) \in T
  OBVIOUS
<1> HIDE DEF T
<1>3. PICK x \in T : \A y \in T : ~Smaller(y, x)
  BY <1>1, <1>2, FiniteMin
<1>4. PICK r \in S : x = P(r)
  BY <1>2
<1>5. ASSUME NEW t \in S, Before(t, r) PROVE FALSE
  <2>1. P(t) \subseteq P(r) /\ t \in P(r) /\ t \notin P(t)
    BY <1>5, Order
  <2>2. Smaller(P(t), P(r))
    BY <2>1 DEF Smaller
  <2> QED
    BY <1>2, <1>3, <1>4, <2>2
<1> QED
  BY <1>5, Order

\* A table that has rows has a last one.
LEMMA HasLast ==
  ASSUME NEW S, Table(S), S # {}
  PROVE  Last(S) \in S /\ \A s \in S : s = Last(S) \/ Before(s, Last(S))
<1> DEFINE P(r) == {t \in S : Before(r, t)}
           T    == {P(r) : r \in S}
<1>1. \A x \in T : IsFiniteSet(x)
  BY FS_Subset DEF Table
<1>2. T # {} /\ (\A x \in T : \E r \in S : x = P(r)) /\ \A r \in S : P(r) \in T
  OBVIOUS
<1> HIDE DEF T
<1>3. PICK x \in T : \A y \in T : ~Smaller(y, x)
  BY <1>1, <1>2, FiniteMin
<1>4. PICK r \in S : x = P(r)
  BY <1>2
<1>5. ASSUME NEW t \in S, Before(r, t) PROVE FALSE
  <2>1. P(t) \subseteq P(r) /\ t \in P(r) /\ t \notin P(t)
    BY <1>5, Order
  <2>2. Smaller(P(t), P(r))
    BY <2>1 DEF Smaller
  <2> QED
    BY <1>2, <1>3, <1>4, <2>2
<1>6. \A s \in S : s = r \/ Before(s, r)
  BY <1>5, Order
<1> QED
  BY <1>6 DEF Last

\* Some of the rows of a table are a table.
LEMMA SubTable ==
  ASSUME NEW S, Table(S), NEW U \in SUBSET S
  PROVE  Table(U) /\ Cardinality(U) \in Nat /\ Cardinality(U) <= Cardinality(S)
<1>1. IsFiniteSet(U) /\ Cardinality(U) <= Cardinality(S)
  BY FS_Subset DEF Table
<1> QED
  BY <1>1, FS_CardinalityType DEF Table, Keyed

\* The first n rows: no more than n, with every row before one of them, and all
\* the rows when they are fewer than n.
LEMMA FirstRows ==
  ASSUME NEW S, Table(S), NEW n \in Nat
  PROVE  /\ First(S, n) \subseteq S
         /\ \A r \in First(S, n), s \in S : Before(s, r) => s \in First(S, n)
         /\ Cardinality(First(S, n)) \in Nat /\ Cardinality(First(S, n)) <= n
         /\ Cardinality(First(S, n)) < n => First(S, n) = S
         /\ First(S, n) = {} /\ n > 0 => S = {}
<1> DEFINE P(r) == {s \in S : Before(s, r)}
           F == First(S, n)
<1>1. F = {r \in S : Cardinality(P(r)) < n}
  BY DEF First
<1>2. \A r \in S : Table(P(r)) /\ Cardinality(P(r)) \in Nat
  <2> TAKE r \in S
  <2> P(r) \in SUBSET S
    OBVIOUS
  <2> HIDE DEF P
  <2> QED
    BY SubTable
<1> HIDE DEF F
<1>3. Table(F) /\ Cardinality(F) \in Nat
  BY <1>1, SubTable
<1>4. ASSUME NEW r \in F, NEW s \in S, Before(s, r) PROVE s \in F
  <2>1. P(s) \in SUBSET P(r)
    BY <1>1, <1>4, Order
  <2>2. Cardinality(P(s)) <= Cardinality(P(r))
    BY <1>1, <1>2, <2>1, SubTable
  <2>3. /\ Cardinality(P(s)) \in Nat /\ Cardinality(P(r)) \in Nat
        /\ Cardinality(P(r)) < n
    BY <1>1, <1>2
  <2>4. Cardinality(P(s)) < n
    BY <2>2, <2>3
  <2> QED
    BY <1>1, <2>4
<1>5. Cardinality(F) <= n
  <2>1. CASE F = {}
    BY <2>1, FS_EmptySet
  <2>2. CASE F # {}
    <3> DEFINE l == Last(F)
    <3>1. l \in F /\ \A s \in F : s = l \/ Before(s, l)
      BY <1>3, <2>2, HasLast
    <3> HIDE DEF l
    <3>2. F \subseteq P(l) \cup {l}
      BY <1>1, <3>1
    <3>3. IsFiniteSet(P(l)) /\ Cardinality(P(l)) \in Nat /\ Cardinality(P(l)) < n
      BY <1>1, <1>2, <3>1 DEF Table
    <3> HIDE DEF P
    <3>4. /\ IsFiniteSet(P(l) \cup {l})
          /\ Cardinality(P(l) \cup {l}) <= Cardinality(P(l)) + 1
      BY <3>3, FS_AddElement
    <3>5. Cardinality(P(l) \cup {l}) \in Nat
      BY <3>4, FS_CardinalityType
    <3>6. Cardinality(F) <= Cardinality(P(l) \cup {l})
      BY <3>2, <3>4, FS_Subset
    <3> QED
      BY <1>3, <3>3, <3>4, <3>5, <3>6
  <2> QED
    BY <2>1, <2>2
<1>6. ASSUME Cardinality(F) < n PROVE F = S
  <2> SUFFICES ASSUME F # S PROVE FALSE
    OBVIOUS
  <2> DEFINE U == S \ F
  <2>1. U # {} /\ U \in SUBSET S
    BY <1>1
  <2>2. PICK u \in U : \A s \in U : s = u \/ Before(u, s)
    BY <2>1, SubTable, HasFirst
  <2>3. P(u) \subseteq F
    BY <2>2, Order
  <2>4. Cardinality(P(u)) <= Cardinality(F)
    BY <1>3, <2>3, FS_Subset DEF Table
  <2>5. Cardinality(P(u)) < n
    BY <1>2, <1>3, <1>6, <2>4
  <2> QED
    BY <1>1, <2>5
<1>7. F = {} /\ n > 0 => S = {}
  BY <1>6, FS_EmptySet
<1> QED
  BY <1>1, <1>3, <1>4, <1>5, <1>6, <1>7 DEF F

----------------------------------------------------------------------------
(* Counting rows. *)

RowsAt(R, h)     == {r \in R : r.ts = h}
Between(R, a, b) == {r \in R : a <= r.ts /\ r.ts <= b}
Stripped(r)      == [r EXCEPT !.raw = FALSE]
StripOf(R, S)    == (R \ S) \cup {Stripped(r) : r \in S}

\* The rows of an hour, and those of a window, are tables.
LEMMA Parts ==
  ASSUME NEW R, Table(R), NEW a, NEW b
  PROVE  /\ Table(RowsAt(R, a)) /\ Cardinality(RowsAt(R, a)) \in Nat
         /\ Table(Between(R, a, b)) /\ Cardinality(Between(R, a, b)) \in Nat
<1>1. RowsAt(R, a) \in SUBSET R /\ Between(R, a, b) \in SUBSET R
  BY DEF RowsAt, Between
<1> QED
  BY <1>1, SubTable

\* More rows make an hour and a window no smaller.
LEMMA PartsGrow ==
  ASSUME NEW R, Table(R), NEW Q, Table(Q), Q \subseteq R, NEW a, NEW b
  PROVE  /\ Cardinality(RowsAt(Q, a)) <= Cardinality(RowsAt(R, a))
         /\ Cardinality(Between(Q, a, b)) <= Cardinality(Between(R, a, b))
         /\ Cardinality(Q) <= Cardinality(R)
<1>1. RowsAt(Q, a) \in SUBSET RowsAt(R, a) /\ Between(Q, a, b) \in SUBSET Between(R, a, b)
  BY DEF RowsAt, Between
<1> QED
  BY <1>1, Parts, SubTable

\* What a DELETE of S leaves.
LEMMA Deleted ==
  ASSUME NEW R, Table(R), NEW S \in SUBSET R
  PROVE  Table(R \ S) /\ Cardinality(R \ S) = Cardinality(R) - Cardinality(S)
<1>1. Table(R \ S)
  <2>1. R \ S \in SUBSET R
    OBVIOUS
  <2> QED
    BY <2>1, SubTable
<1>2. R \cap S = S
  OBVIOUS
<1> QED
  BY <1>1, <1>2, FS_Difference DEF Table

\* A stripped row is the row without its raw JSON.
LEMMA StripRow ==
  ASSUME NEW r \in Entry
  PROVE  /\ Stripped(r) \in Entry /\ Stripped(r).id = r.id /\ Stripped(r).ts = r.ts
         /\ ~Stripped(r).raw
BY DEF Stripped, Entry

\* Stripping the rows of S leaves every row its id and its timestamp.
LEMMA StripKeeps ==
  ASSUME NEW R, Table(R), NEW S \in SUBSET R
  PROVE  /\ Table(StripOf(R, S))
         /\ \A h : Cardinality(RowsAt(StripOf(R, S), h)) = Cardinality(RowsAt(R, h))
         /\ \A t \in StripOf(R, S) : \E r \in R :
              /\ t.id = r.id /\ t.ts = r.ts /\ (t.raw => r.raw) /\ (r \in S => ~t.raw)
         /\ \A r \in R : \E t \in StripOf(R, S) : t.id = r.id
<1> DEFINE N == StripOf(R, S)
           f(h) == [r \in RowsAt(R, h) |-> IF r \in S THEN Stripped(r) ELSE r]
<1>1. \A r \in R : r \in Entry
  BY DEF Table
<1>2. \A t \in N : \/ t \in R /\ t \notin S
                   \/ \E r \in S : t = Stripped(r)
  BY DEF StripOf
<1>3. /\ \A r \in S : Stripped(r) \in N
      /\ \A r \in R : r \notin S => r \in N
  BY DEF StripOf
<1> HIDE DEF N
<1>4. \A t \in N : t \in Entry /\ \E r \in R :
        /\ t = (IF r \in S THEN Stripped(r) ELSE r)
        /\ t.id = r.id /\ t.ts = r.ts /\ (t.raw => r.raw) /\ (r \in S => ~t.raw)
  <2> TAKE t \in N
  <2>1. CASE t \in R /\ t \notin S
    BY <1>1, <2>1
  <2>2. CASE \E r \in S : t = Stripped(r)
    BY <1>1, <2>2, StripRow
  <2> QED
    BY <1>2, <2>1, <2>2
<1>5. Keyed(N)
  <2> SUFFICES ASSUME NEW t \in N, NEW u \in N, t.id = u.id PROVE t = u
    BY DEF Keyed
  <2>1. PICK r \in R : t = (IF r \in S THEN Stripped(r) ELSE r) /\ t.id = r.id
    BY <1>4
  <2>2. PICK q \in R : u = (IF q \in S THEN Stripped(q) ELSE q) /\ u.id = q.id
    BY <1>4
  <2>3. r = q
    BY <2>1, <2>2 DEF Table, Keyed
  <2> QED
    BY <2>1, <2>2, <2>3
<1>6. IsFiniteSet(N)
  <2> DEFINE g == [r \in R |-> IF r \in S THEN Stripped(r) ELSE r]
  <2>1. g \in Surjection(R, N)
    <3>1. \A r \in R : g[r] \in N
      BY <1>3
    <3>2. \A t \in N : \E r \in R : g[r] = t
      BY <1>4
    <3> QED
      BY <3>1, <3>2 DEF Surjection
  <2> QED
    BY <2>1, FS_Surjection DEF Table
<1>7. ASSUME NEW h PROVE Cardinality(RowsAt(N, h)) = Cardinality(RowsAt(R, h))
  <2>1. \A r \in RowsAt(R, h) : r \in R /\ r.ts = h
    BY DEF RowsAt
  <2>2. \A r \in RowsAt(R, h) : f(h)[r] \in RowsAt(N, h) /\ f(h)[r].id = r.id
    <3> TAKE r \in RowsAt(R, h)
    <3>1. f(h)[r] = (IF r \in S THEN Stripped(r) ELSE r)
      OBVIOUS
    <3>2. f(h)[r] \in N
      BY <1>3, <2>1, <3>1
    <3>3. f(h)[r].id = r.id /\ f(h)[r].ts = h
      BY <1>1, <2>1, <3>1, StripRow
    <3> QED
      BY <3>2, <3>3 DEF RowsAt
  <2>3. \A t \in RowsAt(N, h) : \E r \in RowsAt(R, h) : f(h)[r] = t
    <3> TAKE t \in RowsAt(N, h)
    <3>1. t \in N /\ t.ts = h
      BY DEF RowsAt
    <3>2. PICK r \in R : t = (IF r \in S THEN Stripped(r) ELSE r) /\ t.ts = r.ts
      BY <1>4, <3>1
    <3>3. r \in RowsAt(R, h)
      BY <3>1, <3>2 DEF RowsAt
    <3> QED
      BY <3>2, <3>3
  <2>4. f(h) \in [RowsAt(R, h) -> RowsAt(N, h)]
    BY <2>2
  <2> DEFINE b == f(h)
  <2>5. \A r, q \in RowsAt(R, h) : b[r] = b[q] => r = q
    BY <2>1, <2>2 DEF Table, Keyed
  <2> HIDE DEF b
  <2>6. b \in Bijection(RowsAt(R, h), RowsAt(N, h))
    BY <2>3, <2>4, <2>5 DEF Bijection, Injection, Surjection, IsInjective, b
  <2>7. ExistsBijection(RowsAt(R, h), RowsAt(N, h))
    BY <2>6 DEF ExistsBijection
  <2> QED
    BY <2>7, Parts, FS_Bijection DEF Table
<1>8. \A r \in R : \E t \in N : t.id = r.id
  <2> TAKE r \in R
  <2>1. CASE r \in S
    BY <1>1, <1>3, <2>1, StripRow
  <2>2. CASE r \notin S
    BY <1>3, <2>2
  <2> QED
    BY <2>1, <2>2
<1> QED
  BY <1>4, <1>5, <1>6, <1>7, <1>8 DEF Table, N

\* Two sets that share nothing.
LEMMA DisjointUnion ==
  ASSUME NEW A, IsFiniteSet(A), NEW B, IsFiniteSet(B), A \cap B = {}
  PROVE  IsFiniteSet(A \cup B) /\ Cardinality(A \cup B) = Cardinality(A) + Cardinality(B)
<1>1. Cardinality(A \cap B) = 0
  BY FS_EmptySet
<1>2. /\ IsFiniteSet(A \cup B)
      /\ Cardinality(A \cup B) = Cardinality(A) + Cardinality(B) - Cardinality(A \cap B)
  BY FS_Union
<1>3. Cardinality(A) \in Nat /\ Cardinality(B) \in Nat
  BY FS_CardinalityType
<1> QED
  BY <1>1, <1>2, <1>3

\* A window is what is before its middle, its middle, and what is after it.
LEMMA WindowSplits ==
  ASSUME NEW R, Table(R), NEW a \in Int, NEW b \in Int, NEW c \in Int, NEW d \in Int,
         a <= c, c <= d, d <= b
  PROVE  Cardinality(Between(R, a, b)) = Cardinality(Between(R, c, d - 1))
            + Cardinality(Between(R, a, c - 1)) + Cardinality(Between(R, d, b))
<1> DEFINE A == Between(R, a, c - 1)
           M == Between(R, c, d - 1)
           B == Between(R, d, b)
<1>1. \A r \in R : r.ts \in Int
  BY LogAssumption DEF Table, Entry, Hours
<1>2. A \cap M = {} /\ (A \cup M) \cap B = {} /\ Between(R, a, b) = (A \cup M) \cup B
  BY <1>1 DEF Between
<1>3. IsFiniteSet(A) /\ IsFiniteSet(M) /\ IsFiniteSet(B)
  BY Parts DEF Table
<1>4. Cardinality(A) \in Nat /\ Cardinality(M) \in Nat /\ Cardinality(B) \in Nat
  BY Parts
<1> HIDE DEF A, M, B
<1>5. IsFiniteSet(A \cup M) /\ Cardinality(A \cup M) = Cardinality(A) + Cardinality(M)
  BY <1>2, <1>3, DisjointUnion
<1>6. Cardinality((A \cup M) \cup B) = Cardinality(A \cup M) + Cardinality(B)
  BY <1>2, <1>3, <1>5, DisjointUnion
<1> QED
  BY <1>2, <1>4, <1>5, <1>6 DEF A, M, B

\* When the rollup has the number of rows of each hour, the requests of a span of
\* hours are as many as its rows.
LEMMA SpanCounted ==
  ASSUME NEW R, Table(R), NEW f, NEW a \in Nat, NEW b \in Nat,
         \A h \in a .. b - 1 : f[h] = Cardinality(RowsAt(R, h))
  PROVE  Cardinality(UNION {{h} \X (1 .. f[h]) : h \in a .. b - 1})
            = Cardinality(Between(R, a, b - 1))
<1> DEFINE Q == UNION {{h} \X (1 .. f[h]) : h \in a .. b - 1}
           W == Between(R, a, b - 1)
           B(h) == Bijection(1 .. f[h], RowsAt(R, h))
           k == [h \in a .. b - 1 |-> CHOOSE g \in B(h) : TRUE]
           F == [x \in Q |-> k[x[1]][x[2]]]
<1>1. \A r \in R : r.ts \in Int
  BY LogAssumption DEF Table, Entry, Hours
<1>2. ASSUME NEW h \in a .. b - 1 PROVE k[h] \in B(h)
  <2>1. IsFiniteSet(RowsAt(R, h))
    BY Parts DEF Table
  <2>2. ExistsBijection(1 .. f[h], RowsAt(R, h))
    BY <2>1, FS_CardinalityType
  <2> QED
    BY <2>2 DEF ExistsBijection
<1>3. \A x \in Q : x[1] \in a .. b - 1 /\ x[2] \in 1 .. f[x[1]] /\ x = <<x[1], x[2]>>
  <2> TAKE x \in Q
  <2>1. PICK h \in a .. b - 1 : x \in {h} \X (1 .. f[h])
    OBVIOUS
  <2>2. x[1] = h /\ x[2] \in 1 .. f[h] /\ x = <<x[1], x[2]>>
    BY <2>1
  <2> QED
    BY <2>2
<1>4. \A h \in a .. b - 1 : \A i \in 1 .. f[h] : <<h, i>> \in Q
  <2> TAKE h \in a .. b - 1
  <2> TAKE i \in 1 .. f[h]
  <2>1. <<h, i>> \in {h} \X (1 .. f[h])
    OBVIOUS
  <2> QED
    BY <2>1
<1> HIDE DEF Q, k
<1>5. \A h \in a .. b - 1 : \A i \in 1 .. f[h] : k[h][i] \in RowsAt(R, h)
  BY <1>2 DEF Bijection, Injection
<1>6. \A x \in Q : F[x] \in W /\ F[x].ts = x[1]
  BY <1>1, <1>3, <1>5 DEF RowsAt, Between
<1>7. ASSUME NEW x \in Q, NEW y \in Q, F[x] = F[y] PROVE x = y
  <2>1. x[1] = y[1]
    BY <1>6, <1>7
  <2>2. k[x[1]] \in B(x[1]) /\ x[2] \in 1 .. f[x[1]] /\ y[2] \in 1 .. f[x[1]]
    BY <1>2, <1>3, <2>1
  <2>3. k[x[1]][x[2]] = k[x[1]][y[2]]
    BY <1>7, <2>1
  <2>4. x[2] = y[2]
    BY <2>2, <2>3 DEF Bijection, Injection, IsInjective
  <2> QED
    BY <1>3, <2>1, <2>4
<1>8. ASSUME NEW r \in W PROVE \E x \in Q : F[x] = r
  <2>1. r.ts \in a .. b - 1 /\ r \in RowsAt(R, r.ts)
    BY <1>1 DEF Between, RowsAt
  <2>2. PICK i \in 1 .. f[r.ts] : k[r.ts][i] = r
    BY <1>2, <2>1 DEF Bijection, Surjection
  <2>3. <<r.ts, i>> \in Q /\ F[<<r.ts, i>>] = r
    BY <1>4, <2>1, <2>2
  <2> QED
    BY <2>3
<1>9. F \in Injection(Q, W) /\ F \in Surjection(Q, W)
  BY <1>6, <1>7, <1>8 DEF Injection, Surjection, IsInjective
<1>10. IsFiniteSet(W)
  BY Parts DEF Table
<1> HIDE DEF F, W
<1>11. Cardinality(Q) = Cardinality(W)
  BY <1>9, <1>10, FS_Injection
<1> QED
  BY <1>11 DEF Q, W

----------------------------------------------------------------------------
(* The inductive invariant.  Its parts speak of a process by its record. *)

ProcType == [pc: Steps, then: {"idle", "start", "expire"}, at: Int, from: Int, want: Int,
             ts: Int, id: Int, full: BOOLEAN, hour: Int, until: Int]
ReadType == [pc: {"idle", "closed", "edges", "done"}, from: Nat, to: Nat, cf: Nat, ct: Nat,
             total: Nat, low: Nat]
DataInv ==
    /\ now \in Hours /\ channel \in Seq(Hours) /\ Len(channel) <= Capacity
    /\ rows \subseteq Entry /\ lastId \in Nat /\ \A r \in rows : r.id \in 1 .. lastId
    /\ hourly \in [Hours -> Nat] /\ watermark \in Int
    /\ proc \in [Purgers -> ProcType] /\ reader \in ReadType
    /\ up \in BOOLEAN /\ overlap \in BOOLEAN
    /\ missed \subseteq Hours /\ purged \subseteq Hours
    /\ faults \in Nat

\* What waits in the channel is of this hour or the last.
TableInv == Table(rows) /\ \A i \in 1 .. Len(channel) : channel[i] >= now - 1

\* What is before the watermark is stripped, and what comes is not before it.
Clean(R, limit) == \A r \in R : r.ts < limit => ~r.raw
MarkInv ==
    /\ watermark <= 0 \/ watermark <= now - 1
    /\ Clean(rows, watermark)

\* The same of the rows that the cursor of a purge has passed.
Purges(g) == g.pc \in {"age", "cap", "over", "strip", "mark", "seal"}
Edge(g)   == g.at - RawAfter
InReach(g, r) == /\ g.from <= r.ts /\ r.ts < Edge(g)
                 /\ g.ts < r.ts \/ (g.ts = r.ts /\ g.id < r.id)
StripOk(g, R) ==
    Purges(g) =>
        /\ \A r \in R : r.ts < Edge(g) /\ ~InReach(g, r) => ~r.raw
        /\ g.pc = "mark" => g.ts < Edge(g) /\ (~g.full => \A r \in R : ~InReach(g, r))
        /\ g.pc = "seal" => \A r \in R : ~InReach(g, r)
CursorInv ==
    \A p \in Purgers : StripOk(proc[p], rows) /\ (Purges(proc[p]) => proc[p].at <= now)

\* The rollup counts what it has passed, and never more than the rows of an hour;
\* a fill ends before the hour it began in.
PassedBy(f, j, h) == (\E k \in Hours : f[k] > 0 /\ h < k) \/ (j.pc = "fill" /\ h < j.hour)
RollupInv ==
    /\ J.pc = "fill" => J.hour \in Hours /\ J.hour < J.until /\ J.until <= now
    /\ \A h \in Hours \ (missed \cup purged) :
         PassedBy(hourly, J, h) => hourly[h] = Cardinality(RowsAt(rows, h))
    /\ \A h \in Hours \ purged : hourly[h] <= Cardinality(RowsAt(rows, h))

\* A page that is followed meets no purge; its closed hours are in the rollup as
\* they are in the rows, and what it has added up are the rows of these hours.
PageInv ==
    reader.pc # "idle" =>
        /\ \A p \in Purgers : ~Purges(proc[p])
        /\ reader.from <= reader.cf /\ reader.cf <= reader.ct /\ reader.ct <= reader.to
        /\ reader.to <= now
        /\ reader.low <= Cardinality(Between(rows, reader.from, reader.to))
        /\ reader.pc = "closed" =>
             \A h \in reader.cf .. reader.ct - 1 : hourly[h] = Cardinality(RowsAt(rows, h))
        /\ reader.pc = "edges" =>
             reader.total = Cardinality(Between(rows, reader.cf, reader.ct - 1))
        /\ reader.pc = "done" =>
             /\ reader.low <= reader.total
             /\ reader.total <= Cardinality(Between(rows, reader.from, reader.to))

\* While one purge runs at a time, the rows it has yet to take are over the cap.
CapInv ==
    ~overlap =>
        /\ \A p, q \in Purgers : Purges(proc[p]) /\ Purges(proc[q]) => p = q
        /\ \A p \in Purgers : proc[p].pc = "over" =>
              proc[p].want > 0 /\ Cardinality(rows) >= MaxEntries + proc[p].want

IInv == DataInv /\ TableInv /\ MarkInv /\ CursorInv /\ RollupInv /\ PageInv /\ CapInv

----------------------------------------------------------------------------
(* What a step leaves alone *)

\* The retention goroutine is one of those that purge.
LEMMA JanitorIsOne == Janitor \in Purgers
BY DEF Purgers

\* No row comes or goes, and the hour stays.
LEMMA TableStays ==
  ASSUME TableInv, UNCHANGED <<rows, channel, now>>
  PROVE  TableInv'
BY DEF TableInv

\* The watermark and the rows stay; the hour may turn.
LEMMA MarkStays ==
  ASSUME DataInv, MarkInv, UNCHANGED <<rows, watermark>>, now' \in Hours, now' >= now
  PROVE  MarkInv'
<1>1. watermark \in Int /\ now \in Int /\ now' \in Int
  BY LogAssumption DEF DataInv, Hours
<1>2. watermark' = watermark /\ (watermark <= 0 \/ watermark <= now - 1)
  BY DEF MarkInv
<1>3. \A w, n, m \in Int : w <= n - 1 /\ m >= n => w <= m - 1
  OBVIOUS
<1>4. watermark' <= 0 \/ watermark' <= now' - 1
  BY <1>1, <1>2, <1>3
<1>5. Clean(rows, watermark)'
  BY DEF MarkInv, Clean
<1> QED
  BY <1>4, <1>5 DEF MarkInv

\* The rows stay; a process stays, or takes a record that is in order.
LEMMA CursorStays ==
  ASSUME DataInv, CursorInv, UNCHANGED rows, now' \in Hours, now' >= now,
         \A p \in Purgers : \/ proc'[p] = proc[p]
                            \/ /\ StripOk(proc'[p], rows)
                               /\ Purges(proc'[p]) => proc'[p].at <= now
                               /\ proc'[p] \in ProcType
  PROVE  CursorInv'
<1> SUFFICES ASSUME NEW p \in Purgers
             PROVE  /\ StripOk(proc'[p], rows)
                    /\ Purges(proc'[p]) => proc'[p].at <= now'
  BY DEF CursorInv
<1>1. proc[p] \in ProcType /\ now \in Int /\ now' \in Int
  BY LogAssumption DEF DataInv, Hours
<1> QED
  BY <1>1 DEF CursorInv, ProcType

\* The rollup and the rows stay; the fill under way stays or ends.
LEMMA RollupStays ==
  ASSUME DataInv, RollupInv, UNCHANGED <<hourly, rows, missed, purged>>,
         now' \in Hours, now' >= now, J' = J \/ J'.pc # "fill"
  PROVE  RollupInv'
<1>1. J \in ProcType /\ now \in Int /\ now' \in Int
  BY LogAssumption, JanitorIsOne DEF DataInv, J, Hours
<1> QED
  BY <1>1 DEF RollupInv, PassedBy, ProcType

\* The page, its rows and the rollup stay, and no purge begins.
LEMMA PageStays ==
  ASSUME DataInv, PageInv, UNCHANGED <<hourly, rows, reader>>, now' \in Hours, now' >= now,
         reader.pc # "idle" => \A p \in Purgers : Purges(proc'[p]) => Purges(proc[p])
  PROVE  PageInv'
<1>1. reader.to \in Int /\ now \in Int /\ now' \in Int
  BY LogAssumption DEF DataInv, Hours, ReadType
<1> QED
  BY <1>1 DEF PageInv

\* A page that is not followed asks for nothing.
LEMMA PageEnds ==
  ASSUME reader' = NoRead
  PROVE  PageInv'
BY DEF PageInv, NoRead

\* The rows stay; no purge begins, and none is about to delete.
LEMMA CapStays ==
  ASSUME CapInv, UNCHANGED <<rows, overlap>>,
         \A p \in Purgers : \/ proc'[p] = proc[p]
                            \/ /\ Purges(proc'[p]) => Purges(proc[p])
                               /\ proc'[p].pc # "over"
  PROVE  CapInv'
BY DEF CapInv

\* The process that moves, and the others.
LEMMA OneMoves ==
  ASSUME DataInv, NEW p \in Purgers, NEW g \in ProcType, proc' = [proc EXCEPT ![p] = g]
  PROVE  /\ proc' \in [Purgers -> ProcType]
         /\ proc'[p] = g
         /\ \A q \in Purgers : q # p => proc'[q] = proc[q]
         /\ p = Janitor => J' = g
         /\ p # Janitor => J' = J
BY JanitorIsOne DEF DataInv, J

----------------------------------------------------------------------------
(* The lines *)

\* A line that waits is of this hour or the last.
LEMMA ArriveKeeps ==
  ASSUME IInv, NEW d \in {now - 1, now} \cap Hours, Arrive(d)
  PROVE  IInv'
<1> USE DEF IInv, Arrive, ingestFrame
<1>1. channel' = Append(channel, d) /\ channel \in Seq(Hours) /\ d \in Hours
  BY DEF DataInv
<1>2. channel' \in Seq(Hours) /\ Len(channel') = Len(channel) + 1 /\ Len(channel) \in Nat
  BY <1>1
<1>3. Len(channel') <= Capacity
  BY <1>2, LogAssumption
<1>4. DataInv'
  BY <1>2, <1>3 DEF DataInv
<1>5. TableInv'
  <2>1. \A i \in 1 .. Len(channel') : channel'[i] = IF i = Len(channel') THEN d ELSE channel[i]
    BY <1>1, <1>2
  <2>2. \A i \in 1 .. Len(channel') : channel'[i] >= now - 1
    BY <1>2, <2>1, LogAssumption DEF TableInv, DataInv, Hours
  <2> QED
    BY <2>2 DEF TableInv
<1>6. now \in Hours /\ now >= now
  BY LogAssumption DEF DataInv, Hours
<1> QED
  BY <1>4, <1>5, <1>6, MarkStays, CursorStays, RollupStays, PageStays, CapStays DEF J

\* New rows are of this hour or the last, which no purge has in its reach; an hour
\* that the fill has passed is missed.
LEMMA FlushKeeps ==
  ASSUME IInv, Flush
  PROVE  IInv'
<1> USE DEF IInv
<1> DEFINE n == Len(channel)
           New(i) == [id |-> lastId + i, ts |-> channel[i], raw |-> TRUE]
           N == {New(i) : i \in 1 .. n}
<1>1. /\ rows' = rows \cup N /\ lastId' = lastId + n /\ channel' = <<>>
      /\ UNCHANGED <<now, hourly, watermark, proc, up, purged, overlap, faults>>
  BY DEF Flush, ingestFrame, N, New
<1>2. /\ n \in Nat /\ lastId \in Nat /\ now \in Nat
      /\ \A i \in 1 .. n : channel[i] \in Hours /\ channel[i] \in Nat /\ channel[i] >= now - 1
  BY LogAssumption DEF DataInv, TableInv, Hours
<1>3. (\A r \in N : \E i \in 1 .. n : r = New(i)) /\ \A i \in 1 .. n : New(i) \in N
  OBVIOUS
<1>4. \A i \in 1 .. n : /\ New(i) \in Entry /\ New(i).id = lastId + i
                          /\ New(i).ts = channel[i]
  BY <1>2 DEF Entry
<1> HIDE DEF N, New
<1>5. \A r \in N : /\ r \in Entry /\ r.id \in Nat /\ r.id > lastId /\ r.id <= lastId + n
                   /\ r.ts \in Nat /\ r.ts >= now - 1
                   /\ \E i \in 1 .. n : r.ts = channel[i]
  <2> TAKE r \in N
  <2>1. PICK i \in 1 .. n : r = New(i)
    BY <1>3
  <2>2. r.id = lastId + i /\ r.ts = channel[i] /\ r \in Entry
    BY <1>4, <2>1
  <2> QED
    BY <1>2, <2>1, <2>2
<1>6. Table(rows')
  <2>1. IsFiniteSet(N)
    <3> DEFINE f == [i \in 1 .. n |-> New(i)]
    <3>1. f \in Surjection(1 .. n, N)
      BY <1>3 DEF Surjection
    <3>2. IsFiniteSet(1 .. n)
      BY <1>2, FS_Interval
    <3> QED
      BY <3>1, <3>2, FS_Surjection
  <2>2. IsFiniteSet(rows')
    BY <1>1, <2>1, FS_Union DEF TableInv, Table
  <2>3. \A r \in rows : r.id \in Nat /\ r.id <= lastId
    BY <1>2 DEF DataInv
  <2>4. \A r, s \in N : r.id = s.id => r = s
    <3> TAKE r, s \in N
    <3>1. PICK i \in 1 .. n : r = New(i)
      BY <1>3
    <3>2. PICK j \in 1 .. n : s = New(j)
      BY <1>3
    <3>3. r.id = lastId + i /\ s.id = lastId + j
      BY <1>4, <3>1, <3>2
    <3> QED
      BY <1>2, <3>1, <3>2, <3>3
  <2>5. Keyed(rows')
    BY <1>1, <1>2, <1>5, <2>3, <2>4 DEF TableInv, Table, Keyed
  <2> QED
    BY <1>1, <1>5, <2>2, <2>5 DEF TableInv, Table
<1>7. DataInv'
  <2>1. lastId' \in Nat /\ channel' \in Seq(Hours) /\ Len(channel') <= Capacity
    BY <1>1, <1>2, LogAssumption
  <2>2. \A r \in rows' : r.id \in 1 .. lastId'
    <3>1. \A r \in rows : r.id \in 1 .. lastId
      BY DEF DataInv
    <3> QED
      BY <1>1, <1>2, <1>5, <3>1
  <2>3. missed' \subseteq Hours /\ reader' \in ReadType
    BY DEF Flush, DataInv, Disturbed, NoRead, ReadType
  <2> QED
    BY <1>1, <1>6, <2>1, <2>2, <2>3 DEF DataInv, Table
<1>8. TableInv'
  BY <1>1, <1>6 DEF TableInv
<1>9. MarkInv'
  BY <1>1, <1>2, <1>5 DEF MarkInv, Clean, DataInv
<1>10. CursorInv'
  <2> SUFFICES ASSUME NEW p \in Purgers
               PROVE  /\ StripOk(proc[p], rows')
                      /\ Purges(proc[p]) => proc[p].at <= now
    BY <1>1 DEF CursorInv
  <2>1. proc[p].at \in Int /\ RawAfter \in Nat /\ RawAfter >= 1
    BY LogAssumption DEF DataInv, ProcType
  <2>2. Purges(proc[p]) => Edge(proc[p]) \in Int /\ Edge(proc[p]) <= now - 1
    BY <1>2, <2>1 DEF CursorInv, Edge
  <2>3. Purges(proc[p]) => \A r \in N : ~(r.ts < Edge(proc[p]))
    BY <1>2, <1>5, <2>2
  <2> QED
    BY <1>1, <2>3 DEF CursorInv, StripOk, InReach
<1>11. RollupInv'
  <2>1. \A h \in Hours : Cardinality(RowsAt(rows, h)) <= Cardinality(RowsAt(rows', h))
    BY <1>1, <1>6, PartsGrow DEF TableInv
  <2>2. ASSUME NEW h \in Hours \ missed', PassedBy(hourly, J, h)
        PROVE  RowsAt(rows', h) = RowsAt(rows, h)
    <3>1. Passed(h)
      <4>1. ASSUME NEW k \in Hours, hourly[k] > 0, h < k PROVE Filled # {} /\ h < Newest
        <5>1. k \in Filled /\ Filled \in SUBSET Hours
          BY <4>1 DEF Filled
        <5>2. Newest \in Hours /\ k <= Newest
          BY <5>1, MaxIsGreatest DEF Newest
        <5> QED
          BY <4>1, <5>1, <5>2, LogAssumption DEF Hours
      <4> QED
        BY <2>2, <4>1 DEF PassedBy, Passed, J
    <3>2. \A i \in 1 .. n : channel[i] # h
      BY <2>2, <3>1 DEF Flush
    <3>3. \A r \in N : r.ts # h
      BY <1>5, <3>2
    <3> QED
      BY <1>1, <3>3 DEF RowsAt
  <2>3. missed \subseteq missed'
    BY DEF Flush
  <2>4. \A h \in Hours : hourly[h] \in Nat
    BY DEF DataInv
  <2>5. \A h \in Hours : /\ Cardinality(RowsAt(rows, h)) \in Nat
                         /\ Cardinality(RowsAt(rows', h)) \in Nat
    BY <1>6, Parts DEF TableInv
  <2>6. \A h \in Hours \ (missed' \cup purged) :
          PassedBy(hourly, J, h) => hourly[h] = Cardinality(RowsAt(rows', h))
    BY <2>2, <2>3 DEF RollupInv
  <2>7. \A h \in Hours \ purged : hourly[h] <= Cardinality(RowsAt(rows', h))
    BY <2>1, <2>4, <2>5 DEF RollupInv
  <2>8. J' = J
    BY <1>1 DEF J
  <2> QED
    BY <1>1, <2>6, <2>7, <2>8 DEF RollupInv
<1>12. PageInv'
  <2>1. CASE reader' = NoRead
    BY <2>1, PageEnds
  <2>2. CASE reader' # NoRead
    <3>1. reader' = reader /\ \A i \in 1 .. n : ~(channel[i] < now)
      BY <2>2 DEF Flush, Disturbed
    <3>2. \A r \in N : r.ts >= now
      BY <1>2, <1>5, <3>1
    <3> SUFFICES ASSUME reader.pc # "idle" PROVE PageInv'
      BY <3>1 DEF PageInv
    <3>3. reader \in ReadType
      BY DEF DataInv
    <3>4. reader.ct <= now /\ reader.to <= now
      BY <1>2, <3>3 DEF PageInv, ReadType
    <3>5. \A h \in reader.cf .. reader.ct - 1 : RowsAt(rows', h) = RowsAt(rows, h)
      BY <1>1, <1>2, <1>5, <3>2, <3>3, <3>4 DEF RowsAt, ReadType
    <3>6. Between(rows', reader.cf, reader.ct - 1) = Between(rows, reader.cf, reader.ct - 1)
      BY <1>1, <1>2, <1>5, <3>2, <3>3, <3>4 DEF Between, ReadType
    <3>7. /\ Cardinality(Between(rows, reader.from, reader.to))
               <= Cardinality(Between(rows', reader.from, reader.to))
          /\ Cardinality(Between(rows, reader.from, reader.to)) \in Nat
          /\ Cardinality(Between(rows', reader.from, reader.to)) \in Nat
      BY <1>1, <1>6, Parts, PartsGrow DEF TableInv
    <3>8. reader.low \in Nat /\ reader.total \in Nat
      BY <3>3 DEF ReadType
    <3>9. /\ reader.low <= Cardinality(Between(rows', reader.from, reader.to))
          /\ reader.pc = "done" =>
               reader.total <= Cardinality(Between(rows', reader.from, reader.to))
      BY <3>7, <3>8 DEF PageInv
    <3>10. reader.pc = "closed" =>
             \A h \in reader.cf .. reader.ct - 1 : hourly[h] = Cardinality(RowsAt(rows', h))
      BY <3>5 DEF PageInv
    <3>11. reader.pc = "edges" =>
             reader.total = Cardinality(Between(rows', reader.cf, reader.ct - 1))
      BY <3>6 DEF PageInv
    <3> QED
      BY <1>1, <3>1, <3>9, <3>10, <3>11 DEF PageInv
  <2> QED
    BY <2>1, <2>2
<1>13. CapInv'
  <2>1. Cardinality(rows) <= Cardinality(rows')
    BY <1>1, <1>6, PartsGrow DEF TableInv
  <2>2. Cardinality(rows) \in Nat /\ Cardinality(rows') \in Nat
    BY <1>6, FS_CardinalityType DEF TableInv, Table
  <2>3. \A p \in Purgers : proc[p].want \in Int
    BY DEF DataInv, ProcType
  <2> QED
    BY <1>1, <2>1, <2>2, <2>3, LogAssumption DEF CapInv
<1> QED
  BY <1>7, <1>8, <1>9, <1>10, <1>11, <1>12, <1>13

\* A batch that is not stored leaves the table as it is.
LEMMA FlushFailsKeeps ==
  ASSUME IInv, FlushFails
  PROVE  IInv'
<1> USE DEF IInv
<1>1. /\ channel' = <<>> /\ faults' = faults + 1
      /\ UNCHANGED <<now, hourly, watermark, proc, up, purged, overlap, rows, lastId, reader,
                     missed>>
  BY DEF FlushFails, ingestFrame, Fault
<1>2. DataInv'
  BY <1>1, LogAssumption DEF DataInv
<1>3. TableInv'
  BY <1>1 DEF TableInv
<1>4. now \in Hours /\ now >= now
  BY LogAssumption DEF DataInv, Hours
<1> QED
  BY <1>1, <1>2, <1>3, <1>4, MarkStays, CursorStays, RollupStays, PageStays, CapStays DEF J

----------------------------------------------------------------------------
(* A purge begins and ends *)

\* The record of a process at rest.
LEMMA IdleType == Idle \in ProcType
BY DEF Idle, ProcType, Steps

\* A process that comes to rest leaves everything else as it is.
LEMMA Rests ==
  ASSUME IInv, NEW p \in Purgers, NEW g \in ProcType, proc' = [proc EXCEPT ![p] = g],
         ~Purges(g), g.pc # "fill",
         UNCHANGED <<now, rows, channel, hourly, missed, purged, overlap, reader>>
  PROVE  TableInv' /\ CursorInv' /\ RollupInv' /\ PageInv' /\ CapInv'
<1> USE DEF IInv
<1>1. /\ proc'[p] = g
      /\ \A q \in Purgers : q # p => proc'[q] = proc[q]
      /\ J' = J \/ J'.pc # "fill"
  BY OneMoves
<1>2. now' \in Hours /\ now' >= now
  BY LogAssumption DEF DataInv, Hours
<1>3. TableInv'
  BY TableStays
<1>4. CursorInv'
  <2>1. StripOk(g, rows)
    BY DEF StripOk
  <2> QED
    BY <1>1, <1>2, <2>1, CursorStays
<1>5. RollupInv'
  BY <1>1, <1>2, RollupStays
<1>6. PageInv'
  BY <1>1, <1>2, PageStays
<1>7. CapInv'
  <2>1. g.pc # "over"
    BY DEF Purges
  <2> QED
    BY <1>1, <2>1, CapStays
<1> QED
  BY <1>3, <1>4, <1>5, <1>6, <1>7

\* A purge begins at the watermark: it is clean up to there, and ahead of it is
\* every row up to the cutoff.
LEMMA BeginKeeps ==
  ASSUME IInv, NEW p \in Purgers, NEW then \in {"idle", "start", "expire"}, BeginPurge(p, then),
         UNCHANGED <<now, ingestVars, hourly, watermark, up, missed, purged>>, faults' \in Nat,
         ~Purges(proc[p])
  PROVE  IInv'
<1> USE DEF IInv
<1> DEFINE g == [Idle EXCEPT !.pc = "age", !.then = then, !.at = now, !.from = watermark]
<1>1. /\ proc' = [proc EXCEPT ![p] = g] /\ reader' = NoRead
      /\ overlap' = (overlap \/ \E q \in Purgers \ {p} : Purging(q))
      /\ UNCHANGED <<now, channel, rows, lastId, hourly, watermark, up, missed, purged>>
  BY DEF BeginPurge, Disturbed, ingestVars
<1>2. now \in Hours /\ now \in Int /\ now >= now /\ watermark \in Int
  BY LogAssumption DEF DataInv, Hours
<1>3. /\ g \in ProcType /\ g.pc = "age" /\ g.at = now /\ g.from = watermark
      /\ g.ts = 0 /\ g.id = 0
  <2>1. "age" \in Steps /\ Idle \in ProcType
    BY IdleType DEF Steps
  <2>2. g \in ProcType
    BY <1>2, <2>1 DEF ProcType
  <2>3. g.pc = "age" /\ g.at = now /\ g.from = watermark
    BY <2>1 DEF ProcType
  <2>4. g.ts = 0 /\ g.id = 0
    BY DEF Idle
  <2> QED
    BY <2>2, <2>3, <2>4
<1> HIDE DEF g
<1>4. /\ proc' \in [Purgers -> ProcType] /\ proc'[p] = g
      /\ \A q \in Purgers : q # p => proc'[q] = proc[q]
      /\ J' = J \/ J'.pc # "fill"
  BY <1>1, <1>3, OneMoves
<1>5. DataInv'
  <2>1. NoRead \in ReadType
    BY DEF NoRead, ReadType
  <2>2. overlap' \in BOOLEAN
    BY <1>1
  <2> QED
    BY <1>1, <1>4, <2>1, <2>2 DEF DataInv
<1>6. TableInv'
  BY <1>1, TableStays
<1>7. MarkInv'
  BY <1>1, <1>2, MarkStays
<1>8. CursorInv'
  <2>1. \A r \in rows : r.ts \in Nat /\ r.id \in Nat /\ r.id > 0
    BY LogAssumption DEF DataInv, Entry, Hours
  <2>2. \A r \in rows : r.ts < Edge(g) /\ ~InReach(g, r) => r.ts < watermark
    BY <1>2, <1>3, <2>1 DEF InReach
  <2>3. StripOk(g, rows)
    BY <1>3, <2>2 DEF StripOk, MarkInv, Clean
  <2>4. g.at <= now
    BY <1>2, <1>3
  <2> QED
    BY <1>1, <1>2, <1>3, <1>4, <2>3, <2>4, CursorStays
<1>9. RollupInv'
  BY <1>1, <1>2, <1>4, RollupStays
<1>10. PageInv'
  BY <1>1, PageEnds
<1>11. CapInv'
  <2> SUFFICES ASSUME ~overlap' PROVE CapInv'
    BY DEF CapInv
  <2>1. \A q \in Purgers : q # p => ~Purges(proc[q])
    BY <1>1 DEF Purging, Purges
  <2>2. \A q \in Purgers : proc'[q].pc # "over"
    BY <1>3, <1>4, <2>1 DEF Purges
  <2>3. \A q \in Purgers : Purges(proc'[q]) => q = p
    BY <1>4, <2>1
  <2> QED
    BY <2>2, <2>3 DEF CapInv
<1> QED
  BY <1>5, <1>6, <1>7, <1>8, <1>9, <1>10, <1>11

\* An operator's purge begins.
LEMMA OperatorPurgesKeeps ==
  ASSUME IInv, NEW p \in Purgers, OperatorPurges(p)
  PROVE  IInv'
<1>1. faults' \in Nat
  BY DEF IInv, DataInv, OperatorPurges, Fault
<1>2. ~Purges(proc[p])
  BY DEF OperatorPurges, At, Purges
<1> QED
  BY <1>1, <1>2, BeginKeeps DEF OperatorPurges

\* The retention goroutine's purge begins.
LEMMA JanitorPurgesKeeps ==
  ASSUME IInv, JanitorPurges
  PROVE  IInv'
<1>1. faults' \in Nat
  BY DEF IInv, DataInv, JanitorPurges
<1>2. ~Purges(proc[Janitor])
  BY DEF JanitorPurges, At, Purges
<1> QED
  BY <1>1, <1>2, JanitorIsOne, BeginKeeps DEF JanitorPurges

\* Where a process goes on after its purge it is at rest.
LEMMA AfterRests ==
  ASSUME DataInv, NEW p \in Purgers
  PROVE  /\ After(p) \in ProcType /\ ~Purges(After(p)) /\ After(p).pc # "fill"
<1>1. proc[p].then \in {"idle", "start", "expire"}
  BY DEF DataInv, ProcType
<1>2. proc[p].then \in Steps /\ Idle \in ProcType
  BY <1>1, IdleType DEF Steps
<1>3. After(p) \in ProcType
  BY <1>2 DEF After, ProcType
<1>4. After(p).pc = proc[p].then
  BY <1>2 DEF After, ProcType
<1> QED
  BY <1>1, <1>3, <1>4 DEF Purges

\* A purge that fails comes to rest wherever it is.
LEMMA PurgeFailsKeeps ==
  ASSUME IInv, NEW p \in Purgers, PurgeFails(p)
  PROVE  IInv'
<1> USE DEF IInv
<1>1. /\ proc' = [proc EXCEPT ![p] = After(p)] /\ faults' = faults + 1
      /\ UNCHANGED <<now, channel, rows, lastId, hourly, watermark, reader, up, missed, purged,
                     overlap>>
  BY DEF PurgeFails, EndPurge, Fault, ingestVars, history
<1>2. now' \in Hours /\ now' >= now
  BY <1>1, LogAssumption DEF DataInv, Hours
<1>3. TableInv' /\ CursorInv' /\ RollupInv' /\ PageInv' /\ CapInv'
  BY <1>1, AfterRests, Rests
<1>4. proc' \in [Purgers -> ProcType]
  BY <1>1, AfterRests, OneMoves
<1>5. DataInv'
  BY <1>1, <1>4 DEF DataInv
<1>6. MarkInv'
  BY <1>1, <1>2, MarkStays
<1> QED
  BY <1>3, <1>5, <1>6

----------------------------------------------------------------------------
(* Rows are deleted *)

\* What a process does next with the same cursor.
Same(g, k) == g.at = k.at /\ g.from = k.from /\ g.ts = k.ts /\ g.id = k.id

\* The record of a process that goes on to its next step.
LEMMA GoesOn ==
  ASSUME NEW g \in ProcType, NEW step \in Steps
  PROVE  /\ [g EXCEPT !.pc = step] \in ProcType
         /\ [g EXCEPT !.pc = step].pc = step
         /\ Same([g EXCEPT !.pc = step], g)
<1>1. [g EXCEPT !.pc = step] \in ProcType
  BY DEF ProcType
<1> QED
  BY <1>1 DEF ProcType, Same

\* The record of a process that has fewer rows to delete.
LEMMA TakesFewer ==
  ASSUME NEW g \in ProcType, NEW w \in Int
  PROVE  /\ [g EXCEPT !.want = w] \in ProcType
         /\ [g EXCEPT !.want = w].pc = g.pc
         /\ [g EXCEPT !.want = w].want = w
         /\ Same([g EXCEPT !.want = w], g)
<1>1. [g EXCEPT !.want = w] \in ProcType
  BY DEF ProcType
<1> QED
  BY <1>1 DEF ProcType, Same

\* A purge whose cursor stays has passed the same rows.
LEMMA SameCursor ==
  ASSUME NEW g, NEW k, NEW R, Purges(k), StripOk(k, R), Same(g, k), g.pc \notin {"mark", "seal"}
  PROVE  StripOk(g, R)
BY DEF StripOk, Same, InReach, Edge

\* A purge deletes the rows of S: their hours are no longer followed, and no page is
\* under way.
LEMMA DeletionKeeps ==
  ASSUME IInv, NEW p \in Purgers, NEW S \in SUBSET rows, Purges(proc[p]), DeleteOldest(S),
         proc' \in [Purgers -> ProcType], \A q \in Purgers : q # p => proc'[q] = proc[q],
         Same(proc'[p], proc[p]), proc'[p].pc \in {"age", "cap", "over", "strip"},
         UNCHANGED <<now, channel, lastId, hourly, reader, up, missed, faults, watermark, overlap>>
  PROVE  DataInv' /\ TableInv' /\ MarkInv' /\ CursorInv' /\ RollupInv' /\ PageInv'
<1> USE DEF IInv
<1>1. rows' = rows \ S /\ purged' = purged \cup {r.ts : r \in S}
  BY DEF DeleteOldest
<1>2. Table(rows')
  BY <1>1, Deleted DEF TableInv
<1>3. DataInv'
  <2>1. {r.ts : r \in S} \subseteq Hours
    BY DEF DataInv, Entry
  <2> QED
    BY <1>1, <2>1 DEF DataInv
<1>4. TableInv'
  BY <1>2 DEF TableInv
<1>5. MarkInv'
  BY <1>1 DEF MarkInv, Clean
<1>6. CursorInv'
  <2> SUFFICES ASSUME NEW q \in Purgers
               PROVE  /\ StripOk(proc'[q], rows')
                      /\ Purges(proc'[q]) => proc'[q].at <= now
    BY DEF CursorInv
  <2>1. /\ StripOk(proc'[q], rows)
        /\ Purges(proc'[q]) => proc'[q].at <= now
    <3>1. CASE q = p
      <4>1. StripOk(proc'[q], rows)
        BY <3>1, SameCursor DEF CursorInv
      <4> QED
        BY <3>1, <4>1 DEF CursorInv, Same
    <3>2. CASE q # p
      BY <3>2 DEF CursorInv
    <3> QED
      BY <3>1, <3>2
  <2> QED
    BY <1>1, <2>1 DEF StripOk
<1>7. RollupInv'
  <2>1. J' = J \/ J'.pc # "fill"
    BY JanitorIsOne DEF J
  <2>2. \A h \in Hours \ purged' : RowsAt(rows', h) = RowsAt(rows, h)
    BY <1>1 DEF RowsAt
  <2>3. \A h \in Hours : PassedBy(hourly, J', h) => PassedBy(hourly, J, h)
    BY <2>1 DEF PassedBy
  <2>4. purged \subseteq purged'
    BY <1>1
  <2>5. J'.pc = "fill" => J'.hour \in Hours /\ J'.hour < J'.until /\ J'.until <= now
    BY <2>1 DEF RollupInv
  <2> QED
    BY <2>2, <2>3, <2>4, <2>5 DEF RollupInv
<1>8. PageInv'
  BY DEF PageInv
<1> QED
  BY <1>3, <1>4, <1>5, <1>6, <1>7, <1>8

\* Rows past their age are deleted.
LEMMA DeleteAgedKeeps ==
  ASSUME IInv, NEW p \in Purgers, DeleteAged(p)
  PROVE  IInv'
<1> USE DEF IInv
<1> DEFINE S == First({r \in rows : r.ts < proc[p].at - Retention}, PurgeBatch)
           g == [proc[p] EXCEPT !.pc = "cap"]
<1>1. /\ S \in SUBSET rows /\ proc[p].pc = "age" /\ DeleteOldest(S)
      /\ UNCHANGED <<now, channel, lastId, hourly, reader, up, missed, faults, watermark, overlap>>
      /\ proc' = proc \/ proc' = [proc EXCEPT ![p] = g]
  BY DEF DeleteAged, First, At, purgeFrame, Goto
<1> HIDE DEF S
<1>2. proc[p] \in ProcType /\ proc \in [Purgers -> ProcType]
  BY DEF DataInv
<1>3. g \in ProcType /\ g.pc = "cap" /\ Same(g, proc[p])
  BY <1>2 DEF ProcType, Same, Steps
<1> HIDE DEF g
<1>4. /\ proc' \in [Purgers -> ProcType] /\ \A q \in Purgers : q # p => proc'[q] = proc[q]
      /\ proc'[p] \in {proc[p], g}
  BY <1>1, <1>2, <1>3, OneMoves
<1>5. Purges(proc[p]) /\ proc'[p].pc \in {"age", "cap"} /\ Same(proc'[p], proc[p])
  BY <1>1, <1>3, <1>4 DEF Purges, Same
<1>6. DataInv' /\ TableInv' /\ MarkInv' /\ CursorInv' /\ RollupInv' /\ PageInv'
  BY <1>1, <1>4, <1>5, DeletionKeeps
<1>7. CapInv'
  <2> SUFFICES ASSUME ~overlap PROVE CapInv'
    BY <1>1 DEF CapInv
  <2>1. \A q \in Purgers : q # p => ~Purges(proc[q])
    BY <1>5 DEF CapInv
  <2>2. \A q \in Purgers : proc'[q].pc # "over" /\ (Purges(proc'[q]) => q = p)
    BY <1>4, <1>5, <2>1 DEF Purges
  <2> QED
    BY <2>2 DEF CapInv
<1> QED
  BY <1>6, <1>7

\* The rows over the cap are deleted, and as many fewer are wanted.
LEMMA DeleteOverKeeps ==
  ASSUME IInv, NEW p \in Purgers, DeleteOver(p)
  PROVE  IInv'
<1> USE DEF IInv
<1> DEFINE limit == Min({PurgeBatch, proc[p].want})
           S == First(rows, limit)
           g == [proc[p] EXCEPT !.pc = "strip", !.want = 0]
           k == [proc[p] EXCEPT !.want = @ - Cardinality(S)]
<1>1. /\ S \in SUBSET rows /\ proc[p].pc = "over" /\ DeleteOldest(S)
      /\ UNCHANGED <<now, channel, lastId, hourly, reader, up, missed, faults, watermark, overlap>>
      /\ \/ proc' = [proc EXCEPT ![p] = g]
         \/ /\ proc' = [proc EXCEPT ![p] = k]
            /\ ~(Cardinality(S) < limit) /\ limit # proc[p].want
  BY DEF DeleteOver, First, At, purgeFrame
<1>2. proc[p] \in ProcType /\ proc \in [Purgers -> ProcType] /\ proc[p].want \in Int
  BY DEF DataInv, ProcType
<1>3. limit \in {PurgeBatch, proc[p].want} /\ limit <= proc[p].want /\ limit <= PurgeBatch
  BY <1>2, MinOfTwo, LogAssumption
<1>4. Table(S) /\ Cardinality(S) \in Nat
  BY <1>1, SubTable DEF TableInv
<1>5. limit \in Nat => Cardinality(S) <= limit
  BY FirstRows DEF TableInv
<1> HIDE DEF S, limit
<1>6. /\ g \in ProcType /\ g.pc = "strip" /\ Same(g, proc[p])
      /\ k \in ProcType /\ k.pc = "over" /\ Same(k, proc[p]) /\ k.want = proc[p].want - Cardinality(S)
  <2>1. "strip" \in Steps
    BY DEF Steps
  <2>2. g \in ProcType /\ g.pc = "strip" /\ Same(g, proc[p])
    <3> DEFINE m == [proc[p] EXCEPT !.pc = "strip"]
    <3>1. m \in ProcType /\ m.pc = "strip" /\ Same(m, proc[p])
      BY <1>2, <2>1, GoesOn
    <3> HIDE DEF m
    <3>2. /\ [m EXCEPT !.want = 0] \in ProcType /\ [m EXCEPT !.want = 0].pc = m.pc
          /\ Same([m EXCEPT !.want = 0], m)
      BY <3>1, TakesFewer
    <3>3. g = [m EXCEPT !.want = 0]
      BY DEF m
    <3> QED
      BY <3>1, <3>2, <3>3 DEF Same
  <2>3. PICK w \in Int : w = proc[p].want - Cardinality(S)
    BY <1>2, <1>4
  <2>4. k = [proc[p] EXCEPT !.want = w]
    BY <2>3
  <2>5. /\ [proc[p] EXCEPT !.want = w] \in ProcType
        /\ [proc[p] EXCEPT !.want = w].pc = proc[p].pc
        /\ [proc[p] EXCEPT !.want = w].want = w
        /\ Same([proc[p] EXCEPT !.want = w], proc[p])
    BY <1>2, TakesFewer
  <2> HIDE DEF k
  <2> QED
    BY <1>1, <2>2, <2>3, <2>4, <2>5
<1> HIDE DEF g, k
<1>7. /\ proc' \in [Purgers -> ProcType] /\ \A q \in Purgers : q # p => proc'[q] = proc[q]
      /\ \/ proc'[p] = g
         \/ proc'[p] = k /\ ~(Cardinality(S) < limit) /\ limit # proc[p].want
  BY <1>1, <1>6, OneMoves
<1>8. Purges(proc[p]) /\ proc'[p].pc \in {"over", "strip"} /\ Same(proc'[p], proc[p])
  BY <1>1, <1>6, <1>7 DEF Purges
<1>9. DataInv' /\ TableInv' /\ MarkInv' /\ CursorInv' /\ RollupInv' /\ PageInv'
  BY <1>1, <1>7, <1>8, DeletionKeeps
<1>10. CapInv'
  <2> SUFFICES ASSUME ~overlap PROVE CapInv'
    BY <1>1 DEF CapInv
  <2>1. \A q \in Purgers : q # p => ~Purges(proc[q])
    BY <1>8 DEF CapInv
  <2>2. \A q \in Purgers : (Purges(proc'[q]) => q = p) /\ (proc'[q].pc = "over" => q = p)
    BY <1>7, <2>1 DEF Purges
  <2>3. proc[p].want > 0 /\ Cardinality(rows) >= MaxEntries + proc[p].want
    BY <1>1 DEF CapInv
  <2>4. /\ Cardinality(rows') = Cardinality(rows) - Cardinality(S)
        /\ Cardinality(rows) \in Nat /\ MaxEntries \in Nat /\ PurgeBatch \in Nat
    BY <1>1, Deleted, FS_CardinalityType, LogAssumption DEF TableInv, Table, DeleteOldest
  <2>5. limit \in Nat
    BY <1>2, <1>3, <2>3, LogAssumption
  <2>6. proc'[p].pc = "over" =>
          proc'[p].want > 0 /\ Cardinality(rows') >= MaxEntries + proc'[p].want
    <3> SUFFICES ASSUME proc'[p].pc = "over"
                 PROVE  proc'[p].want > 0 /\ Cardinality(rows') >= MaxEntries + proc'[p].want
      OBVIOUS
    <3>1. proc'[p].want = proc[p].want - Cardinality(S) /\ limit # proc[p].want
      BY <1>6, <1>7
    <3>2. limit < proc[p].want /\ Cardinality(S) <= limit
      BY <1>2, <1>3, <1>5, <2>5, <3>1
    <3>3. \A w, s, c, d, m, l \in Int : l < w /\ s <= l /\ c >= m + w /\ d = c - s =>
            w - s > 0 /\ d >= m + (w - s)
      OBVIOUS
    <3>4. /\ proc[p].want \in Int /\ Cardinality(S) \in Int /\ Cardinality(rows) \in Int
          /\ Cardinality(rows') \in Int /\ MaxEntries \in Int /\ limit \in Int
      BY <1>2, <1>4, <2>4, <2>5
    <3> QED
      BY <2>3, <2>4, <3>1, <3>2, <3>3, <3>4
  <2> QED
    BY <2>2, <2>6 DEF CapInv
<1> QED
  BY <1>9, <1>10

----------------------------------------------------------------------------
(* A purge goes on, and strips *)

\* A step of a purge that leaves the rows alone.
LEMMA PurgeGoesOn ==
  ASSUME IInv, NEW p \in Purgers, NEW g \in ProcType, proc' = [proc EXCEPT ![p] = g],
         Purges(proc[p]), Purges(g), StripOk(g, rows), g.at = proc[p].at,
         UNCHANGED <<now, channel, rows, hourly, missed, purged, reader>>
  PROVE  TableInv' /\ CursorInv' /\ RollupInv' /\ PageInv'
<1> USE DEF IInv
<1>1. /\ proc'[p] = g
      /\ \A q \in Purgers : q # p => proc'[q] = proc[q]
      /\ J' = J \/ J'.pc # "fill"
  BY OneMoves DEF Purges
<1>2. now' \in Hours /\ now' >= now
  BY LogAssumption DEF DataInv, Hours
<1>3. TableInv'
  BY TableStays
<1>4. CursorInv'
  <2>1. g.at <= now
    BY DEF CursorInv
  <2> QED
    BY <1>1, <1>2, <2>1, CursorStays
<1>5. RollupInv'
  BY <1>1, <1>2, RollupStays
<1>6. PageInv'
  BY <1>1, <1>2, PageStays
<1> QED
  BY <1>3, <1>4, <1>5, <1>6

\* What is wanted is what is over the cap.
LEMMA CheckCapKeeps ==
  ASSUME IInv, NEW p \in Purgers, CheckCap(p)
  PROVE  IInv'
<1> USE DEF IInv
<1> DEFINE n == Cardinality(rows) - MaxEntries
           m == [proc[p] EXCEPT !.pc = "over"]
           g == [m EXCEPT !.want = n]
           k == [proc[p] EXCEPT !.pc = "strip"]
<1>1. /\ proc[p].pc = "cap"
      /\ UNCHANGED <<now, channel, lastId, hourly, reader, up, missed, faults, rows, watermark,
                     purged, overlap>>
      /\ \/ Cardinality(rows) > MaxEntries /\ proc' = [proc EXCEPT ![p] = g]
         \/ proc' = [proc EXCEPT ![p] = k]
  BY DEF CheckCap, At, purgeFrame, Goto
<1>2. /\ Cardinality(rows) \in Nat /\ n \in Int /\ MaxEntries \in Nat
      /\ proc[p] \in ProcType /\ proc \in [Purgers -> ProcType]
  BY FS_CardinalityType, LogAssumption DEF DataInv, TableInv, Table
<1>3. "over" \in Steps /\ "strip" \in Steps
  BY DEF Steps
<1>4. /\ m \in ProcType /\ m.pc = "over" /\ Same(m, proc[p])
      /\ k \in ProcType /\ k.pc = "strip" /\ Same(k, proc[p])
  BY <1>2, <1>3, GoesOn
<1> HIDE DEF m
<1>5. g \in ProcType /\ g.pc = "over" /\ g.want = n /\ Same(g, proc[p])
  <2>1. g \in ProcType /\ g.pc = m.pc /\ g.want = n /\ Same(g, m)
    BY <1>2, <1>4, TakesFewer
  <2> QED
    BY <1>4, <2>1 DEF Same
<1> HIDE DEF g, k, n
<1>6. PICK x \in {g, k} : proc' = [proc EXCEPT ![p] = x] /\ (x = g => Cardinality(rows) > MaxEntries)
  BY <1>1, <1>4, <1>5
<1>7. x \in ProcType /\ x.pc \in {"over", "strip"} /\ Same(x, proc[p]) /\ Purges(proc[p])
  BY <1>1, <1>4, <1>5, <1>6 DEF Purges
<1>8. /\ proc' \in [Purgers -> ProcType] /\ proc'[p] = x
      /\ \A q \in Purgers : q # p => proc'[q] = proc[q]
  BY <1>6, <1>7, OneMoves
<1>9. DataInv'
  BY <1>1, <1>8 DEF DataInv
<1>10. TableInv' /\ CursorInv' /\ RollupInv' /\ PageInv'
  <2>1. StripOk(proc[p], rows)
    BY DEF CursorInv
  <2>2. StripOk(x, rows)
    BY <1>7, <2>1, SameCursor
  <2>3. Purges(x) /\ x.at = proc[p].at
    BY <1>7 DEF Purges, Same
  <2> QED
    BY <1>1, <1>6, <1>7, <2>2, <2>3, PurgeGoesOn
<1>11. MarkInv'
  BY <1>1, MarkStays, LogAssumption DEF DataInv, Hours
<1>12. CapInv'
  <2> SUFFICES ASSUME ~overlap PROVE CapInv'
    BY <1>1 DEF CapInv
  <2>1. \A q \in Purgers : q # p => ~Purges(proc[q])
    BY <1>7 DEF CapInv
  <2>2. \A q \in Purgers : (Purges(proc'[q]) => q = p) /\ (proc'[q].pc = "over" => q = p)
    BY <1>8, <2>1 DEF Purges
  <2>3. proc'[p].pc = "over" => x = g
    BY <1>4, <1>6, <1>8
  <2>4. proc'[p].pc = "over" =>
          proc'[p].want > 0 /\ Cardinality(rows) >= MaxEntries + proc'[p].want
    BY <1>2, <1>5, <1>6, <1>8, <2>3 DEF n
  <2> QED
    BY <1>1, <2>2, <2>4 DEF CapInv
<1> QED
  BY <1>9, <1>10, <1>11, <1>12

\* A mark is behind the cutoff, and before it all is stripped.
LEMMA MarkProgressKeeps ==
  ASSUME IInv, NEW p \in Purgers, MarkProgress(p)
  PROVE  IInv'
<1> USE DEF IInv
<1> DEFINE step == IF proc[p].full THEN "strip" ELSE "seal"
           g  == [proc[p] EXCEPT !.pc = step]
<1>1. /\ proc[p].pc = "mark" /\ watermark' = proc[p].ts /\ proc' = [proc EXCEPT ![p] = g]
      /\ UNCHANGED <<now, channel, lastId, hourly, reader, up, missed, purged, overlap, faults,
                     rows>>
  BY DEF MarkProgress, At, stripFrame, history, Goto
<1>2. /\ step \in Steps /\ step \in {"strip", "seal"} /\ (step = "seal" => ~proc[p].full)
      /\ proc[p] \in ProcType /\ proc \in [Purgers -> ProcType]
  BY DEF DataInv, Steps
<1> HIDE DEF step
<1>3. g \in ProcType /\ g.pc = step /\ Same(g, proc[p])
  BY <1>2, GoesOn
<1> HIDE DEF g
<1>4. Purges(proc[p]) /\ Purges(g) /\ g.at = proc[p].at
  BY <1>1, <1>2, <1>3 DEF Purges, Same
<1>5. StripOk(proc[p], rows) /\ proc[p].at <= now
  BY <1>4 DEF CursorInv
<1>6. /\ proc' \in [Purgers -> ProcType] /\ proc'[p] = g
      /\ \A q \in Purgers : q # p => proc'[q] = proc[q]
  BY <1>1, <1>3, OneMoves
<1>7. proc[p].ts \in Int /\ proc[p].at \in Int /\ now \in Int
  BY <1>2, LogAssumption DEF ProcType, DataInv, Hours
<1>8. DataInv'
  BY <1>1, <1>6, <1>7 DEF DataInv
<1>9. StripOk(g, rows)
  <2>1. CASE step = "strip"
    BY <1>3, <1>4, <1>5, <2>1, SameCursor
  <2>2. CASE step = "seal"
    BY <1>1, <1>2, <1>3, <1>4, <1>5, <2>2 DEF StripOk, Same, InReach, Edge
  <2> QED
    BY <1>2, <2>1, <2>2
<1>10. TableInv' /\ CursorInv' /\ RollupInv' /\ PageInv'
  BY <1>1, <1>3, <1>4, <1>9, PurgeGoesOn
<1>11. MarkInv'
  <2>1. proc[p].ts < Edge(proc[p]) /\ \A r \in rows : r.ts < Edge(proc[p]) /\ ~InReach(proc[p], r) => ~r.raw
    BY <1>1, <1>4, <1>5 DEF StripOk
  <2>2. proc[p].ts <= now - 1
    BY <1>5, <1>7, <2>1, LogAssumption DEF Edge
  <2>3. Edge(proc[p]) \in Int /\ \A r \in rows : r.ts \in Int
    BY <1>7, LogAssumption DEF Edge, DataInv, Entry, Hours
  <2>4. \A r \in rows : r.ts < proc[p].ts => r.ts < Edge(proc[p]) /\ ~InReach(proc[p], r)
    BY <1>7, <2>1, <2>3 DEF InReach
  <2>5. Clean(rows, proc[p].ts)
    BY <2>1, <2>4 DEF Clean
  <2> QED
    BY <1>1, <2>2, <2>5 DEF MarkInv
<1>12. CapInv'
  <2>1. g.pc # "over"
    BY <1>2, <1>3
  <2> QED
    BY <1>1, <1>4, <1>6, <2>1, CapStays
<1> QED
  BY <1>8, <1>10, <1>11, <1>12

\* When nothing is ahead of the cursor, all before the cutoff is stripped.
LEMMA SealStripKeeps ==
  ASSUME IInv, NEW p \in Purgers, SealStrip(p)
  PROVE  IInv'
<1> USE DEF IInv
<1>1. /\ proc[p].pc = "seal" /\ watermark' = Cutoff(p) /\ proc' = [proc EXCEPT ![p] = After(p)]
      /\ UNCHANGED <<now, channel, lastId, hourly, reader, up, missed, purged, overlap, faults,
                     rows>>
  BY DEF SealStrip, EndPurge, At, stripFrame, history
<1>2. Purges(proc[p]) /\ proc[p].at \in Int /\ now \in Int
  BY <1>1, LogAssumption DEF Purges, DataInv, ProcType, Hours
<1>3. StripOk(proc[p], rows) /\ proc[p].at <= now
  BY <1>2 DEF CursorInv
<1>4. /\ Cutoff(p) = Edge(proc[p]) /\ Cutoff(p) \in Int /\ Cutoff(p) <= now - 1
  BY <1>2, <1>3, LogAssumption DEF Cutoff, Edge
<1>5. DataInv'
  <2>1. proc' \in [Purgers -> ProcType]
    BY <1>1, AfterRests, OneMoves
  <2> QED
    BY <1>1, <1>4, <2>1 DEF DataInv
<1>6. TableInv' /\ CursorInv' /\ RollupInv' /\ PageInv' /\ CapInv'
  BY <1>1, AfterRests, Rests
<1>7. MarkInv'
  <2>1. Clean(rows, Edge(proc[p]))
    BY <1>1, <1>2, <1>3 DEF StripOk, Clean
  <2> QED
    BY <1>1, <1>4, <2>1 DEF MarkInv
<1> QED
  BY <1>5, <1>6, <1>7

\* The cursor moves to the last row of a batch.
Marked(g, t, i, b) == [g EXCEPT !.pc = "mark", !.ts = t, !.id = i, !.full = b]

\* The record of a process whose cursor has moved.
LEMMA MovesTo ==
  ASSUME NEW g \in ProcType, NEW t \in Int, NEW i \in Int, NEW b \in BOOLEAN
  PROVE  /\ Marked(g, t, i, b) \in ProcType /\ Marked(g, t, i, b).pc = "mark"
         /\ Marked(g, t, i, b).ts = t /\ Marked(g, t, i, b).id = i
         /\ Marked(g, t, i, b).full = b
         /\ Marked(g, t, i, b).at = g.at /\ Marked(g, t, i, b).from = g.from
<1> DEFINE m == [g EXCEPT !.pc = "mark"]
           n == [m EXCEPT !.ts = t]
           o == [n EXCEPT !.id = i]
           k == [o EXCEPT !.full = b]
<1>1. "mark" \in Steps
  BY DEF Steps
<1>2. m \in ProcType /\ m.pc = "mark" /\ m.at = g.at /\ m.from = g.from
  BY <1>1 DEF ProcType
<1> HIDE DEF m
<1>3. n \in ProcType /\ n.pc = m.pc /\ n.at = m.at /\ n.from = m.from /\ n.ts = t
  BY <1>2 DEF ProcType
<1> HIDE DEF n
<1>4. o \in ProcType /\ o.pc = n.pc /\ o.at = n.at /\ o.from = n.from /\ o.ts = n.ts /\ o.id = i
  BY <1>3 DEF ProcType
<1> HIDE DEF o
<1>5. k \in ProcType
  BY <1>4 DEF ProcType
<1>6. k.pc = o.pc /\ k.at = o.at /\ k.from = o.from /\ k.ts = o.ts /\ k.id = o.id
  BY <1>4 DEF ProcType
<1>7. k.full = b
  BY <1>4 DEF ProcType
<1>8. Marked(g, t, i, b) = k
  BY DEF k, o, n, m, Marked
<1> HIDE DEF k
<1>9. /\ k \in ProcType /\ k.pc = "mark" /\ k.ts = t /\ k.id = i /\ k.full = b
      /\ k.at = g.at /\ k.from = g.from
  BY <1>2, <1>3, <1>4, <1>5, <1>6, <1>7
<1> QED
  BY <1>8, <1>9

\* Of the rows in its reach the cursor takes the first, in order: it has passed no
\* row that it has not stripped.
LEMMA StripRowsKeeps ==
  ASSUME IInv, NEW p \in Purgers, StripRows(p)
  PROVE  IInv'
<1> USE DEF IInv
<1> DEFINE A == Ahead(p)
           S == First(A, StripBatch)
           l == Last(S)
           b == (Cardinality(S) = StripBatch)
           g == Marked(proc[p], l.ts, l.id, b)
           k == [proc[p] EXCEPT !.pc = "seal"]
<1>1. /\ proc[p].pc = "strip"
      /\ UNCHANGED <<now, channel, lastId, hourly, reader, up, missed, purged, overlap, faults,
                     watermark>>
      /\ \/ UNCHANGED rows /\ proc' = [proc EXCEPT ![p] = After(p)]
         \/ S = {} /\ UNCHANGED rows /\ proc' = [proc EXCEPT ![p] = k]
         \/ S # {} /\ rows' = StripOf(rows, S) /\ proc' = [proc EXCEPT ![p] = g]
  BY DEF StripRows, EndPurge, At, stripFrame, history, Goto, StripOf, Stripped, Marked
<1>2. /\ proc[p] \in ProcType /\ proc \in [Purgers -> ProcType]
      /\ proc[p].ts \in Int /\ proc[p].id \in Int /\ proc[p].at \in Int /\ proc[p].from \in Int
  BY DEF DataInv, ProcType
<1>3. Purges(proc[p]) /\ StripOk(proc[p], rows) /\ proc[p].at <= now
  BY <1>1 DEF Purges, CursorInv
<1>4. A \in SUBSET rows /\ \A r \in rows : r \in A <=> InReach(proc[p], r)
  BY DEF Ahead, InReach, Before, Cutoff, Edge
<1>5. Table(A)
  BY <1>4, SubTable DEF TableInv
<1>6. /\ S \in SUBSET A /\ \A r \in S, s \in A : Before(s, r) => s \in S
      /\ Cardinality(S) < StripBatch => S = A
      /\ Cardinality(S) <= StripBatch /\ Cardinality(S) \in Nat
      /\ S = {} => A = {}
  BY <1>5, FirstRows, LogAssumption
<1>7. Table(S)
  BY <1>5, <1>6, SubTable
<1>8. \A r \in rows : r.ts \in Int /\ r.id \in Int
  BY LogAssumption DEF DataInv, Entry, Hours
<1>9. now' \in Hours /\ now' >= now
  BY <1>1, LogAssumption DEF DataInv, Hours
<1> HIDE DEF A, S
<1>10. MarkInv' /\ CapInv' /\ DataInv' /\ TableInv' /\ CursorInv' /\ RollupInv' /\ PageInv'
  <2>1. CASE UNCHANGED rows /\ proc' = [proc EXCEPT ![p] = After(p)]
    <3>1. proc' \in [Purgers -> ProcType]
      BY <2>1, AfterRests, OneMoves
    <3>2. DataInv'
      BY <1>1, <2>1, <3>1 DEF DataInv
    <3>3. TableInv' /\ CursorInv' /\ RollupInv' /\ PageInv' /\ CapInv'
      BY <1>1, <2>1, AfterRests, Rests
    <3>4. MarkInv'
      BY <1>1, <1>9, <2>1, MarkStays
    <3> QED
      BY <3>2, <3>3, <3>4
  <2>2. CASE S = {} /\ UNCHANGED rows /\ proc' = [proc EXCEPT ![p] = k]
    <3>1. k \in ProcType /\ k.pc = "seal" /\ Same(k, proc[p])
      <4>1. "seal" \in Steps
        BY DEF Steps
      <4> QED
        BY <1>2, <4>1, GoesOn
    <3> HIDE DEF k
    <3>2. \A r \in rows : ~InReach(proc[p], r)
      BY <1>4, <1>6, <2>2
    <3>3. StripOk(k, rows)
      BY <1>3, <3>1, <3>2 DEF StripOk, Same, InReach, Edge
    <3>4. Purges(k) /\ k.at = proc[p].at
      BY <3>1 DEF Purges, Same
    <3>5. /\ proc' \in [Purgers -> ProcType] /\ proc'[p] = k
          /\ \A q \in Purgers : q # p => proc'[q] = proc[q]
      BY <2>2, <3>1, OneMoves
    <3>6. DataInv'
      BY <1>1, <2>2, <3>5 DEF DataInv
    <3>7. TableInv' /\ CursorInv' /\ RollupInv' /\ PageInv'
      BY <1>1, <1>3, <2>2, <3>1, <3>3, <3>4, PurgeGoesOn
    <3>8. MarkInv'
      BY <1>1, <1>9, <2>2, MarkStays
    <3>9. CapInv'
      BY <1>1, <1>3, <2>2, <3>1, <3>5, CapStays
    <3> QED
      BY <3>6, <3>7, <3>8, <3>9
  <2>3. CASE S # {} /\ rows' = StripOf(rows, S) /\ proc' = [proc EXCEPT ![p] = g]
    <3>1. l \in S /\ \A s \in S : s = l \/ Before(s, l)
      BY <1>7, <2>3, HasLast
    <3>2. l \in rows /\ InReach(proc[p], l) /\ l.ts \in Int /\ l.id \in Int
      BY <1>4, <1>6, <1>8, <3>1
    <3> HIDE DEF l
    <3>3. b \in BOOLEAN
      OBVIOUS
    <3> HIDE DEF b
    <3>4. /\ g \in ProcType /\ g.pc = "mark" /\ g.ts = l.ts /\ g.id = l.id /\ g.full = b
          /\ g.at = proc[p].at /\ g.from = proc[p].from
      BY <1>2, <3>2, <3>3, MovesTo
    <3> HIDE DEF g
    <3>5. /\ proc' \in [Purgers -> ProcType] /\ proc'[p] = g
          /\ \A q \in Purgers : q # p => proc'[q] = proc[q]
          /\ J' = J \/ J'.pc # "fill"
      BY <2>3, <3>4, OneMoves
    <3>6. /\ Table(rows')
          /\ \A h : Cardinality(RowsAt(rows', h)) = Cardinality(RowsAt(rows, h))
          /\ \A t \in rows' : \E r \in rows :
               /\ t.id = r.id /\ t.ts = r.ts /\ (t.raw => r.raw) /\ (r \in S => ~t.raw)
      BY <1>4, <1>6, <2>3, StripKeeps DEF TableInv
    <3>7. DataInv'
      BY <1>1, <3>5, <3>6 DEF DataInv, Table
    <3>8. TableInv'
      BY <1>1, <3>6 DEF TableInv
    <3>9. MarkInv'
      BY <1>1, <3>6 DEF MarkInv, Clean
    <3>10. Edge(g) = Edge(proc[p]) /\ g.ts < Edge(g)
      BY <3>2, <3>4 DEF Edge, InReach
    <3>11. \A r \in rows : InReach(proc[p], r) /\ r \notin S => InReach(g, r)
      <4> SUFFICES ASSUME NEW r \in rows, r \in A, r \notin S PROVE InReach(g, r)
        BY <1>4
      <4>1. r # l /\ ~Before(r, l)
        BY <1>6, <3>1
      <4>2. Before(l, r)
        BY <1>5, <1>6, <3>1, <4>1, Order
      <4> QED
        BY <1>4, <3>4, <3>10, <4>2 DEF InReach, Before
    <3>12. ~b => \A r \in rows : ~InReach(g, r)
      <4> SUFFICES ASSUME ~b, NEW r \in rows, InReach(g, r) PROVE FALSE
        OBVIOUS
      <4>1. S = A
        BY <1>6, LogAssumption DEF b
      <4>2. InReach(proc[p], r)
        BY <1>2, <1>8, <3>2, <3>4, <3>10 DEF InReach
      <4>3. r = l \/ Before(r, l)
        BY <1>4, <3>1, <4>1, <4>2
      <4> QED
        BY <1>8, <3>2, <3>4, <4>3 DEF InReach, Before
    <3>13. CursorInv'
      <4> SUFFICES ASSUME NEW q \in Purgers
                   PROVE  /\ StripOk(proc'[q], rows')
                          /\ Purges(proc'[q]) => proc'[q].at <= now
        BY <1>1 DEF CursorInv
      <4>1. CASE q = p
        <5>1. \A t \in rows' : t.ts < Edge(g) /\ ~InReach(g, t) => ~t.raw
          <6> SUFFICES ASSUME NEW t \in rows', t.ts < Edge(g), ~InReach(g, t) PROVE ~t.raw
            OBVIOUS
          <6>1. PICK r \in rows : /\ t.id = r.id /\ t.ts = r.ts
                                  /\ (t.raw => r.raw) /\ (r \in S => ~t.raw)
            BY <3>6
          <6>2. r.ts < Edge(g) /\ ~InReach(g, r)
            BY <6>1 DEF InReach
          <6>3. r \in S \/ ~InReach(proc[p], r)
            BY <3>11, <6>2
          <6> QED
            BY <1>3, <3>10, <6>1, <6>2, <6>3 DEF StripOk
        <5>2. ~b => \A t \in rows' : ~InReach(g, t)
          BY <3>6, <3>12 DEF InReach
        <5> QED
          BY <1>3, <3>4, <3>5, <3>10, <4>1, <5>1, <5>2 DEF StripOk
      <4>2. CASE q # p
        <5>1. /\ StripOk(proc[q], rows) /\ proc'[q] = proc[q]
              /\ Purges(proc[q]) => proc[q].at <= now
          BY <3>5, <4>2 DEF CursorInv
        <5> QED
          BY <3>6, <5>1 DEF StripOk, InReach
      <4> QED
        BY <4>1, <4>2
    <3>14. RollupInv'
      <4>1. \A h \in Hours : PassedBy(hourly, J', h) => PassedBy(hourly, J, h)
        BY <3>5 DEF PassedBy
      <4>2. J'.pc = "fill" => J'.hour \in Hours /\ J'.hour < J'.until /\ J'.until <= now
        BY <3>5 DEF RollupInv
      <4> QED
        BY <1>1, <3>6, <4>1, <4>2 DEF RollupInv
    <3>15. PageInv'
      BY <1>1, <1>3 DEF PageInv
    <3>16. CapInv'
      <4> SUFFICES ASSUME ~overlap PROVE CapInv'
        BY <1>1 DEF CapInv
      <4>1. \A q \in Purgers : q # p => ~Purges(proc[q])
        BY <1>3 DEF CapInv
      <4>2. \A q \in Purgers : (Purges(proc'[q]) => q = p) /\ proc'[q].pc # "over"
        BY <3>4, <3>5, <4>1 DEF Purges
      <4> QED
        BY <4>2 DEF CapInv
    <3> QED
      BY <3>7, <3>8, <3>9, <3>13, <3>14, <3>15, <3>16
  <2> QED
    BY <1>1, <2>1, <2>2, <2>3
<1> QED
  BY <1>10

----------------------------------------------------------------------------
(* The rollup *)

\* The janitor's record when a fill begins at hour h, and when it goes on there.
FillFrom(h, n) == [Idle EXCEPT !.pc = "fill", !.hour = h, !.until = n]

\* The record of the janitor that fills hour h.
LEMMA FillRecord ==
  ASSUME NEW h \in Int, NEW n \in Int
  PROVE  /\ FillFrom(h, n) \in ProcType /\ FillFrom(h, n).pc = "fill"
         /\ FillFrom(h, n).hour = h /\ FillFrom(h, n).until = n
<1> DEFINE m == [Idle EXCEPT !.pc = "fill"]
           o == [m EXCEPT !.hour = h]
           k == [o EXCEPT !.until = n]
<1>1. "fill" \in Steps /\ Idle \in ProcType
  BY IdleType DEF Steps
<1>2. m \in ProcType /\ m.pc = "fill"
  BY <1>1 DEF ProcType
<1> HIDE DEF m
<1>3. o \in ProcType /\ o.pc = "fill" /\ o.hour = h
  BY <1>2 DEF ProcType
<1> HIDE DEF o
<1>4. k \in ProcType /\ k.pc = "fill" /\ k.hour = h /\ k.until = n
  BY <1>3 DEF ProcType
<1>5. FillFrom(h, n) = k
  BY DEF FillFrom, k, o, m
<1> QED
  BY <1>4, <1>5

\* A process at rest neither purges nor fills.
LEMMA IdleRests == Idle \in ProcType /\ ~Purges(Idle) /\ Idle.pc # "fill"
BY IdleType DEF Idle, Purges

\* The janitor takes a record that is neither a purge's nor the old one.
LEMMA JanitorTakes ==
  ASSUME IInv, NEW g \in ProcType, proc' = [proc EXCEPT ![Janitor] = g], ~Purges(g),
         UNCHANGED <<now, channel, rows, lastId, watermark, up, missed, overlap>>
  PROVE  /\ J' = g /\ proc' \in [Purgers -> ProcType]
         /\ \A q \in Purgers : Purges(proc'[q]) => Purges(proc[q])
         /\ TableInv' /\ MarkInv' /\ CursorInv' /\ CapInv'
<1> USE DEF IInv
<1>1. /\ proc' \in [Purgers -> ProcType] /\ proc'[Janitor] = g /\ J' = g
      /\ \A q \in Purgers : q # Janitor => proc'[q] = proc[q]
  BY JanitorIsOne, OneMoves
<1>2. now' \in Hours /\ now' >= now
  BY LogAssumption DEF DataInv, Hours
<1>3. TableInv' /\ MarkInv'
  BY <1>2, TableStays, MarkStays
<1>4. CursorInv'
  <2>1. StripOk(g, rows)
    BY DEF StripOk
  <2> QED
    BY <1>1, <1>2, <2>1, CursorStays
<1>5. CapInv'
  <2>1. g.pc # "over"
    BY DEF Purges
  <2> QED
    BY <1>1, <2>1, CapStays
<1> QED
  BY <1>1, <1>3, <1>4, <1>5

\* A fill begins at the newest hour of the rollup, or at the oldest row: no row is
\* before it that the rollup does not have.
LEMMA StartFillKeeps ==
  ASSUME IInv, StartFill
  PROVE  IInv'
<1> USE DEF IInv
<1> DEFINE start == IF Filled # {} THEN Newest ELSE MinHour
           g == FillFrom(start, now)
<1>1. /\ UNCHANGED <<now, channel, rows, lastId, watermark, up, missed, overlap, hourly, reader,
                     purged, faults>>
      /\ \/ /\ Filled # {} \/ rows # {}
            /\ start < now /\ proc' = [proc EXCEPT ![Janitor] = g]
         \/ proc' = [proc EXCEPT ![Janitor] = Idle]
  BY DEF StartFill, fillFrame, ingestVars, FillFrom
<1>2. now \in Hours /\ now \in Int /\ now' \in Hours /\ now' >= now
  BY <1>1, LogAssumption DEF DataInv, Hours
<1>3. CASE proc' = [proc EXCEPT ![Janitor] = Idle]
  <2>1. TableInv' /\ CursorInv' /\ RollupInv' /\ PageInv' /\ CapInv'
    BY <1>1, <1>3, IdleRests, JanitorIsOne, Rests
  <2>2. proc' \in [Purgers -> ProcType]
    BY <1>3, IdleRests, JanitorIsOne, OneMoves
  <2>3. DataInv'
    BY <1>1, <2>2 DEF DataInv
  <2>4. MarkInv'
    BY <1>1, <1>2, MarkStays
  <2> QED
    BY <2>1, <2>3, <2>4
<1>4. CASE /\ Filled # {} \/ rows # {}
           /\ start < now /\ proc' = [proc EXCEPT ![Janitor] = g]
  <2>1. /\ start \in Hours
        /\ \A h \in Hours : h < start =>
             (\E k \in Hours : hourly[k] > 0 /\ h < k) \/ (hourly[h] = 0 /\ RowsAt(rows, h) = {})
    <3>1. CASE Filled # {}
      <4>1. Filled \in SUBSET Hours /\ \A k \in Filled : hourly[k] > 0
        BY DEF Filled
      <4>2. start \in Filled
        BY <3>1, <4>1, MaxIsGreatest DEF Newest
      <4> QED
        BY <4>1, <4>2
    <3>2. CASE Filled = {}
      <4> DEFINE N == {r.ts : r \in rows}
      <4>1. N \in SUBSET Nat /\ N # {} /\ N \in SUBSET Hours
        BY <1>4, <3>2, LogAssumption DEF DataInv, Entry, Hours
      <4>2. start \in N /\ \A n \in N : start <= n
        BY <3>2, <4>1, MinIsLeast DEF MinHour
      <4>3. \A h \in Hours : hourly[h] = 0
        BY <3>2 DEF Filled, DataInv
      <4>4. \A h \in Hours : h < start => RowsAt(rows, h) = {}
        <5> SUFFICES ASSUME NEW h \in Hours, h < start, NEW r \in rows, r.ts = h PROVE FALSE
          BY DEF RowsAt
        <5>1. h \in N /\ h \in Int /\ start \in Int
          BY <4>1, <4>2, LogAssumption DEF Hours
        <5> QED
          BY <4>2, <5>1
      <4> QED
        BY <4>1, <4>2, <4>3, <4>4
    <3> QED
      BY <3>1, <3>2
  <2> HIDE DEF start
  <2>2. start \in Int
    BY <2>1, LogAssumption DEF Hours
  <2>3. g \in ProcType /\ g.pc = "fill" /\ g.hour = start /\ g.until = now
    BY <1>2, <2>2, FillRecord
  <2> HIDE DEF g
  <2>4. ~Purges(g)
    BY <2>3 DEF Purges
  <2>5. /\ J' = g /\ proc' \in [Purgers -> ProcType]
        /\ \A q \in Purgers : Purges(proc'[q]) => Purges(proc[q])
        /\ TableInv' /\ MarkInv' /\ CursorInv' /\ CapInv'
    BY <1>1, <1>4, <2>3, <2>4, JanitorTakes
  <2>6. DataInv'
    BY <1>1, <2>5 DEF DataInv
  <2>7. PageInv'
    BY <1>1, <1>2, <2>5, PageStays
  <2>8. RollupInv'
    <3>1. \A h \in Hours \ (missed \cup purged) :
            PassedBy(hourly, g, h) => hourly[h] = Cardinality(RowsAt(rows, h))
      <4> SUFFICES ASSUME NEW h \in Hours \ (missed \cup purged), PassedBy(hourly, g, h)
                   PROVE  hourly[h] = Cardinality(RowsAt(rows, h))
        OBVIOUS
      <4>1. CASE \E k \in Hours : hourly[k] > 0 /\ h < k
        BY <4>1 DEF RollupInv, PassedBy
      <4>2. CASE h < start /\ ~\E k \in Hours : hourly[k] > 0 /\ h < k
        BY <2>1, <4>2, FS_EmptySet
      <4> QED
        BY <2>3, <4>1, <4>2 DEF PassedBy
    <3>2. now <= now
      BY <1>2
    <3> QED
      BY <1>1, <1>4, <2>1, <2>3, <2>5, <3>1, <3>2 DEF RollupInv
  <2> QED
    BY <2>5, <2>6, <2>7, <2>8
<1> QED
  BY <1>1, <1>3, <1>4

\* A filled hour has the number of its rows.
LEMMA FillHourKeeps ==
  ASSUME IInv, FillHour
  PROVE  IInv'
<1> USE DEF IInv
<1> DEFINE H == J.hour
           n == Cardinality(RowsAt(rows, H))
           k == [J EXCEPT !.hour = H + 1]
<1>1. /\ J.pc = "fill"
      /\ UNCHANGED <<now, channel, rows, lastId, watermark, up, missed, overlap, reader, purged,
                     faults>>
      /\ hourly' = [hourly EXCEPT ![H] = n]
      /\ \/ H + 1 < J.until /\ proc' = [proc EXCEPT ![Janitor] = k]
         \/ proc' = [proc EXCEPT ![Janitor] = Idle]
  BY DEF FillHour, fillFrame, ingestVars, At, J, Of, RowsAt
<1>2. /\ now \in Int /\ now' \in Hours /\ now' >= now /\ now <= MaxTime /\ MaxTime \in Nat
      /\ J \in ProcType /\ H \in Int /\ J.until \in Int
  <2>1. now \in Int /\ now' \in Hours /\ now' >= now /\ now <= MaxTime /\ MaxTime \in Nat
    BY <1>1, LogAssumption DEF DataInv, Hours
  <2>2. J \in ProcType
    BY JanitorIsOne DEF DataInv, J
  <2>3. J.hour \in Int /\ J.until \in Int
    BY <2>2 DEF ProcType
  <2> QED
    BY <2>1, <2>2, <2>3
<1>3. H \in Hours /\ H < J.until /\ J.until <= now
  BY <1>1 DEF RollupInv
<1>4. n \in Nat
  BY Parts DEF TableInv
<1> HIDE DEF n
<1>5. /\ hourly' \in [Hours -> Nat] /\ hourly'[H] = n
      /\ \A h \in Hours : h # H => hourly'[h] = hourly[h]
  BY <1>1, <1>3, <1>4 DEF DataInv
<1>6. k \in ProcType /\ k.pc = "fill" /\ k.hour = H + 1 /\ k.until = J.until
  <2> PICK w \in Int : w = H + 1
    BY <1>2
  <2>1. k = [J EXCEPT !.hour = w]
    OBVIOUS
  <2> HIDE DEF k
  <2> QED
    BY <1>1, <1>2, <2>1 DEF ProcType
<1> HIDE DEF H, k
<1>7. PICK g \in {k, Idle} : /\ proc' = [proc EXCEPT ![Janitor] = g]
                             /\ g = k => H + 1 < J.until
                             /\ g # k => g = Idle
  BY <1>1, <1>6, IdleRests
<1>8. g \in ProcType /\ ~Purges(g)
  BY <1>6, <1>7, IdleRests DEF Purges
<1>9. g.pc = "fill" => g.hour = H + 1 /\ g.until = J.until /\ H + 1 < J.until
  BY <1>6, <1>7, IdleRests
<1>10. /\ J' = g /\ proc' \in [Purgers -> ProcType]
       /\ \A q \in Purgers : Purges(proc'[q]) => Purges(proc[q])
       /\ TableInv' /\ MarkInv' /\ CursorInv' /\ CapInv'
  BY <1>1, <1>7, <1>8, JanitorTakes
<1>11. DataInv'
  BY <1>1, <1>5, <1>10 DEF DataInv
<1>12. RollupInv'
  <2>1. g.pc = "fill" => g.hour \in Hours /\ g.hour < g.until /\ g.until <= now
    BY <1>2, <1>3, <1>9 DEF Hours
  <2>2. \A h \in Hours \ (missed \cup purged) :
          PassedBy(hourly', g, h) => hourly'[h] = Cardinality(RowsAt(rows, h))
    <3> SUFFICES ASSUME NEW h \in Hours \ (missed \cup purged), PassedBy(hourly', g, h), h # H
                 PROVE  hourly[h] = Cardinality(RowsAt(rows, h))
      BY <1>5 DEF n
    <3>1. h \in Int
      BY LogAssumption DEF Hours
    <3>2. CASE g.pc = "fill" /\ h < g.hour
      <4>1. h < J.hour
        BY <1>2, <1>9, <3>1, <3>2 DEF H
      <4> QED
        BY <1>1, <4>1 DEF RollupInv, PassedBy
    <3>3. CASE \E j \in Hours : hourly'[j] > 0 /\ h < j
      <4>1. PICK j \in Hours : hourly'[j] > 0 /\ h < j
        BY <3>3
      <4>2. CASE j = H
        BY <1>1, <4>1, <4>2 DEF RollupInv, PassedBy, H
      <4>3. CASE j # H
        BY <1>5, <4>1, <4>3 DEF RollupInv, PassedBy
      <4> QED
        BY <4>2, <4>3
    <3> QED
      BY <3>2, <3>3 DEF PassedBy
  <2>3. \A h \in Hours \ purged : hourly'[h] <= Cardinality(RowsAt(rows, h))
    <3> SUFFICES ASSUME NEW h \in Hours \ purged
                 PROVE  hourly'[h] <= Cardinality(RowsAt(rows, h))
      OBVIOUS
    <3>1. CASE h = H
      BY <1>4, <1>5, <3>1 DEF n
    <3>2. CASE h # H
      BY <1>5, <3>2 DEF RollupInv
    <3> QED
      BY <3>1, <3>2
  <2> QED
    BY <1>1, <1>10, <2>1, <2>2, <2>3 DEF RollupInv
<1>13. PageInv'
  <2> SUFFICES ASSUME reader.pc # "idle" PROVE PageInv'
    BY <1>1 DEF PageInv
  <2>1. \A q \in Purgers : ~Purges(proc'[q])
    BY <1>10 DEF PageInv
  <2>2. reader.pc = "closed" =>
          \A h \in reader.cf .. reader.ct - 1 : hourly'[h] = Cardinality(RowsAt(rows, h))
    <3> SUFFICES ASSUME reader.pc = "closed", NEW h \in reader.cf .. reader.ct - 1
                 PROVE  hourly'[h] = Cardinality(RowsAt(rows, h))
      OBVIOUS
    <3>1. CASE h = H
      BY <1>5, <3>1 DEF n
    <3>2. CASE h # H
      <4>1. h \in Hours
        BY <1>2, LogAssumption DEF PageInv, DataInv, ReadType, Hours
      <4> QED
        BY <1>5, <3>2, <4>1 DEF PageInv
    <3> QED
      BY <3>1, <3>2
  <2> QED
    BY <1>1, <2>1, <2>2 DEF PageInv
<1> QED
  BY <1>10, <1>11, <1>12, <1>13

\* A fill that fails comes to rest; what it has filled stays.
LEMMA FillFailsKeeps ==
  ASSUME IInv, FillFails
  PROVE  IInv'
<1> USE DEF IInv
<1>1. /\ proc' = [proc EXCEPT ![Janitor] = Idle] /\ faults' = faults + 1
      /\ UNCHANGED <<now, channel, rows, lastId, watermark, up, missed, overlap, hourly, reader,
                     purged>>
  BY DEF FillFails, fillFrame, ingestVars, Fault
<1>2. now' \in Hours /\ now' >= now
  BY <1>1, LogAssumption DEF DataInv, Hours
<1>3. TableInv' /\ CursorInv' /\ RollupInv' /\ PageInv' /\ CapInv'
  BY <1>1, IdleRests, JanitorIsOne, Rests
<1>4. proc' \in [Purgers -> ProcType]
  BY <1>1, IdleRests, JanitorIsOne, OneMoves
<1>5. DataInv'
  BY <1>1, <1>4 DEF DataInv
<1>6. MarkInv'
  BY <1>1, <1>2, MarkStays
<1> QED
  BY <1>3, <1>5, <1>6

\* Hours past the rollup's own age are no longer followed.
LEMMA ExpireRollupKeeps ==
  ASSUME IInv, ExpireRollup
  PROVE  IInv'
<1> USE DEF IInv
<1> DEFINE old == {h \in Filled : h < now - RollupHours}
<1>1. /\ UNCHANGED <<now, channel, rows, lastId, watermark, up, missed, overlap, faults>>
      /\ proc' = [proc EXCEPT ![Janitor] = Idle]
      /\ hourly' = [h \in Hours |-> IF h \in old THEN 0 ELSE hourly[h]]
      /\ purged' = purged \cup old
      /\ IF old = {} THEN reader' = reader ELSE reader' = NoRead
  BY DEF ExpireRollup, fillFrame, ingestVars, Disturbed
<1>2. old \in SUBSET Hours
  BY DEF Filled
<1> HIDE DEF old
<1>3. now' \in Hours /\ now' >= now
  BY <1>1, LogAssumption DEF DataInv, Hours
<1>4. /\ J' = Idle /\ proc' \in [Purgers -> ProcType]
      /\ \A q \in Purgers : Purges(proc'[q]) => Purges(proc[q])
      /\ TableInv' /\ MarkInv' /\ CursorInv' /\ CapInv'
  BY <1>1, IdleRests, JanitorTakes
<1>5. /\ hourly' \in [Hours -> Nat]
      /\ \A h \in Hours : h \notin old => hourly'[h] = hourly[h]
      /\ \A h \in Hours : hourly'[h] > 0 => hourly[h] > 0
  BY <1>1 DEF DataInv
<1>6. DataInv'
  <2>1. reader' \in ReadType
    BY <1>1 DEF DataInv, NoRead, ReadType
  <2> QED
    BY <1>1, <1>2, <1>4, <1>5, <2>1 DEF DataInv
<1>7. RollupInv'
  <2>1. \A h \in Hours : PassedBy(hourly', Idle, h) => PassedBy(hourly, J, h)
    BY <1>5, IdleRests DEF PassedBy
  <2>2. /\ \A h \in Hours \ (missed \cup purged') :
             PassedBy(hourly', Idle, h) => hourly'[h] = Cardinality(RowsAt(rows, h))
        /\ \A h \in Hours \ purged' : hourly'[h] <= Cardinality(RowsAt(rows, h))
    BY <1>1, <1>5, <2>1 DEF RollupInv
  <2> QED
    BY <1>1, <1>4, <2>2, IdleRests DEF RollupInv
<1>8. PageInv'
  <2>1. CASE old = {}
    <3>1. hourly' = hourly
      BY <1>1, <2>1 DEF DataInv
    <3> QED
      BY <1>1, <1>3, <1>4, <2>1, <3>1, PageStays
  <2>2. CASE old # {}
    BY <1>1, <2>2, PageEnds
  <2> QED
    BY <2>1, <2>2
<1> QED
  BY <1>4, <1>6, <1>7, <1>8

----------------------------------------------------------------------------
(* A log page *)

\* A page changes nothing but itself.
LEMMA ReadStays ==
  ASSUME IInv, UNCHANGED readFrame, reader' \in ReadType
  PROVE  DataInv' /\ TableInv' /\ MarkInv' /\ CursorInv' /\ RollupInv' /\ CapInv'
<1> USE DEF IInv
<1>1. UNCHANGED <<now, channel, rows, lastId, hourly, watermark, proc, up, missed, purged,
                  overlap, faults>>
  BY DEF readFrame, ingestVars, history
<1>2. now' \in Hours /\ now' >= now /\ J' = J
  BY <1>1, LogAssumption DEF DataInv, Hours, J
<1>3. DataInv'
  BY <1>1 DEF DataInv
<1> QED
  BY <1>1, <1>2, <1>3, TableStays, MarkStays, CursorStays, RollupStays, CapStays

\* What of the window the closed span takes is settled, and lies inside the window.
LEMMA ReadSpanForKeeps ==
  ASSUME IInv, ReadSpanFor
  PROVE  IInv'
<1> USE DEF IInv
<1> DEFINE from == Max({0, now - ReadSpan})
<1>1. PICK skip \in {0, 1} :
        /\ Settled(from)
        /\ IF Filled = {} \/ Max({from + skip, Min(Filled)}) >= Min({now, Newest + 1})
           THEN OpenPage(from, from, from)
           ELSE OpenPage(from, Max({from + skip, Min(Filled)}), Min({now, Newest + 1}))
  BY DEF ReadSpanFor
<1>2. UNCHANGED readFrame /\ \A p \in Purgers : ~Purges(proc[p])
  BY DEF ReadSpanFor, Reading, Purging, Purges
<1>3. now \in Nat /\ now \in Hours /\ ReadSpan \in Nat /\ MaxTime \in Nat /\ now <= MaxTime
  BY LogAssumption DEF DataInv, Hours
<1>4. from \in Nat /\ from <= now
  <2>1. PICK w \in Int : w = now - ReadSpan /\ w <= now
    BY <1>3
  <2>2. from = Max({0, w})
    BY <2>1
  <2>3. Max({0, w}) \in {0, w} /\ 0 <= Max({0, w})
    BY MaxOfTwo
  <2> HIDE DEF from
  <2> QED
    BY <1>3, <2>1, <2>2, <2>3
<1> HIDE DEF from
<1>5. PICK cf \in Nat, ct \in Nat :
        /\ OpenPage(from, cf, ct) /\ from <= cf /\ cf <= ct /\ ct <= now
        /\ \A h \in cf .. ct - 1 : Filled # {} /\ h <= Newest
  <2>1. CASE Filled = {} \/ Max({from + skip, Min(Filled)}) >= Min({now, Newest + 1})
    <3>1. OpenPage(from, from, from)
      BY <1>1, <2>1
    <3>2. from .. from - 1 = {}
      BY <1>4
    <3> QED
      BY <1>4, <3>1, <3>2
  <2>2. CASE ~(Filled = {} \/ Max({from + skip, Min(Filled)}) >= Min({now, Newest + 1}))
    <3> DEFINE a == from + skip
               c == Max({a, Min(Filled)})
               d == Min({now, Newest + 1})
    <3>1. Filled \in SUBSET Hours /\ Filled \in SUBSET Nat
      BY LogAssumption DEF Filled, Hours
    <3>2. Min(Filled) \in Nat /\ Newest \in Nat
      BY <2>2, <3>1, MinIsLeast, MaxIsGreatest DEF Newest
    <3>3. a \in Nat /\ from <= a
      BY <1>4
    <3> HIDE DEF a
    <3>4. c \in Nat /\ a <= c
      BY <3>2, <3>3, MaxOfTwo
    <3>5. d \in Nat /\ d <= now /\ d <= Newest + 1
      <4>1. now \in Int /\ Newest + 1 \in Int /\ now \in Nat /\ Newest + 1 \in Nat
        BY <1>3, <3>2
      <4>2. d \in {now, Newest + 1} /\ d <= now /\ d <= Newest + 1
        BY <4>1, MinOfTwo
      <4> QED
        BY <4>1, <4>2
    <3>6. c < d /\ OpenPage(from, c, d)
      BY <1>1, <2>2, <3>4, <3>5 DEF a
    <3> HIDE DEF c, d
    <3>7. from <= c /\ c <= d /\ \A h \in c .. d - 1 : h <= Newest
      BY <1>4, <3>2, <3>3, <3>4, <3>5, <3>6
    <3> QED
      BY <2>2, <3>4, <3>5, <3>6, <3>7
  <2> QED
    BY <2>1, <2>2
<1>6. /\ Cardinality(Between(rows, from, now)) \in Nat
      /\ Window(from, now) = Between(rows, from, now)
  <2>1. Cardinality(Between(rows, from, now)) \in Nat
    BY Parts DEF TableInv
  <2> QED
    BY <2>1 DEF Window, Between
<1>7. /\ reader' \in ReadType /\ reader'.pc = "closed" /\ reader'.from = from /\ reader'.to = now
      /\ reader'.cf = cf /\ reader'.ct = ct
      /\ reader'.low = Cardinality(Between(rows, from, now))
  BY <1>3, <1>4, <1>5, <1>6 DEF OpenPage, ReadType
<1>8. \A h \in cf .. ct - 1 : hourly[h] = Cardinality(RowsAt(rows, h))
  BY <1>1, <1>3, <1>4, <1>5 DEF Settled, Of, RowsAt
<1>9. UNCHANGED <<now, rows, hourly, proc>>
  BY <1>2 DEF readFrame, ingestVars
<1>10. PageInv'
  BY <1>2, <1>3, <1>5, <1>6, <1>7, <1>8, <1>9 DEF PageInv
<1> QED
  BY <1>2, <1>7, <1>10, ReadStays

\* The requests of the closed span are its rows.
LEMMA ReadClosedKeeps ==
  ASSUME IInv, ReadClosed
  PROVE  IInv'
<1> USE DEF IInv
<1> DEFINE n == Cardinality(Requests(reader.cf, reader.ct))
<1>1. /\ UNCHANGED readFrame /\ reader.pc = "closed"
      /\ reader' = [reader EXCEPT !.pc = "edges", !.total = n]
  BY DEF ReadClosed, Reading
<1>2. reader \in ReadType /\ reader.cf \in Nat /\ reader.ct \in Nat
  BY DEF DataInv, ReadType
<1>3. n = Cardinality(Between(rows, reader.cf, reader.ct - 1))
  BY <1>1, <1>2, SpanCounted DEF PageInv, TableInv, Requests
<1>4. n \in Nat
  BY <1>3, Parts DEF TableInv
<1> HIDE DEF n
<1>5. /\ reader' \in ReadType /\ reader'.pc = "edges" /\ reader'.total = n
      /\ reader'.from = reader.from /\ reader'.to = reader.to /\ reader'.cf = reader.cf
      /\ reader'.ct = reader.ct /\ reader'.low = reader.low
  BY <1>1, <1>2, <1>4 DEF ReadType
<1>6. UNCHANGED <<now, rows, hourly, proc>>
  BY <1>1 DEF readFrame, ingestVars
<1>7. PageInv'
  BY <1>1, <1>3, <1>5, <1>6 DEF PageInv
<1> QED
  BY <1>1, <1>5, <1>7, ReadStays

\* The edges and the closed span are the window.
LEMMA ReadEdgesKeeps ==
  ASSUME IInv, ReadEdges
  PROVE  IInv'
<1> USE DEF IInv
<1> DEFINE lo == Cardinality(Between(rows, reader.from, reader.cf - 1))
           hi == Cardinality(Between(rows, reader.ct, reader.to))
           n == reader.total + lo + hi
<1>1. /\ UNCHANGED readFrame /\ reader.pc = "edges"
      /\ reader' = [reader EXCEPT !.pc = "done", !.total = n]
  BY DEF ReadEdges, Reading, Window, Between
<1>2. /\ reader \in ReadType /\ reader.from \in Nat /\ reader.to \in Nat /\ reader.cf \in Nat
      /\ reader.ct \in Nat /\ reader.total \in Nat
  BY DEF DataInv, ReadType
<1>3. /\ reader.from <= reader.cf /\ reader.cf <= reader.ct /\ reader.ct <= reader.to
      /\ reader.total = Cardinality(Between(rows, reader.cf, reader.ct - 1))
      /\ reader.low <= Cardinality(Between(rows, reader.from, reader.to))
  BY <1>1 DEF PageInv
<1>4. Cardinality(Between(rows, reader.from, reader.to)) = n
  BY <1>2, <1>3, WindowSplits DEF TableInv
<1>5. n \in Nat
  BY <1>4, Parts DEF TableInv
<1> HIDE DEF n
<1>6. /\ reader' \in ReadType /\ reader'.pc = "done" /\ reader'.total = n
      /\ reader'.from = reader.from /\ reader'.to = reader.to /\ reader'.cf = reader.cf
      /\ reader'.ct = reader.ct /\ reader'.low = reader.low
  BY <1>1, <1>2, <1>5 DEF ReadType
<1>7. UNCHANGED <<now, rows, hourly, proc>>
  BY <1>1 DEF readFrame, ingestVars
<1>8. n <= n
  BY <1>5
<1>9. PageInv'
  BY <1>1, <1>3, <1>4, <1>6, <1>7, <1>8 DEF PageInv
<1> QED
  BY <1>1, <1>6, <1>9, ReadStays

\* A page ends.
LEMMA ReadEndsKeeps ==
  ASSUME IInv, ReadEnds
  PROVE  IInv'
<1>1. UNCHANGED readFrame /\ reader' = NoRead
  BY DEF ReadEnds
<1>2. NoRead \in ReadType
  BY DEF NoRead, ReadType
<1> QED
  BY <1>1, <1>2, PageEnds, ReadStays DEF IInv

----------------------------------------------------------------------------
(* Surroundings *)

\* What waits when the hour turns is of the hour that ends.
LEMMA TickKeeps ==
  ASSUME IInv, Tick
  PROVE  IInv'
<1> USE DEF IInv
<1>1. /\ now < MaxTime /\ now' = now + 1 /\ \A i \in 1 .. Len(channel) : channel[i] = now
      /\ UNCHANGED <<channel, rows, lastId, hourly, watermark, proc, reader, up, missed, purged,
                     overlap, faults>>
  BY DEF Tick, ingestVars, history
<1>2. now \in Int /\ now' \in Hours /\ now' >= now /\ J' = J
  BY <1>1, LogAssumption DEF DataInv, Hours, J
<1>3. DataInv'
  BY <1>1, <1>2 DEF DataInv
<1>4. TableInv'
  BY <1>1, <1>2 DEF TableInv
<1> QED
  BY <1>1, <1>2, <1>3, <1>4, MarkStays, CursorStays, RollupStays, PageStays, CapStays

\* The panel stops wherever its goroutines are.
LEMMA PanelStopsKeeps ==
  ASSUME IInv, PanelStops
  PROVE  IInv'
<1> USE DEF IInv
<1>1. /\ up' = FALSE /\ channel' = <<>> /\ reader' = NoRead /\ proc' = [p \in Purgers |-> Idle]
      /\ faults' = faults + 1
      /\ UNCHANGED <<now, rows, lastId, hourly, watermark, missed, purged, overlap>>
  BY DEF PanelStops, history, Fault
<1>2. now' \in Hours /\ now' >= now
  BY <1>1, LogAssumption DEF DataInv, Hours
<1>3. \A p \in Purgers : proc'[p] = Idle
  BY <1>1
<1>4. DataInv'
  <2>1. proc' \in [Purgers -> ProcType] /\ NoRead \in ReadType
    BY <1>1, IdleType DEF NoRead, ReadType
  <2>2. channel' \in Seq(Hours) /\ Len(channel') <= Capacity
    BY <1>1, LogAssumption
  <2>3. up' \in BOOLEAN
    BY <1>1
  <2> QED
    BY <1>1, <2>1, <2>2, <2>3 DEF DataInv
<1>5. TableInv'
  BY <1>1 DEF TableInv
<1>6. MarkInv'
  BY <1>1, <1>2, MarkStays
<1>7. StripOk(Idle, rows)
  BY IdleRests DEF StripOk
<1>8. CursorInv'
  BY <1>1, <1>2, <1>3, <1>7, IdleRests, CursorStays
<1>9. RollupInv'
  BY <1>1, <1>2, <1>3, JanitorIsOne, IdleRests, RollupStays DEF J
<1>10. PageInv'
  BY <1>1, PageEnds
<1>11. CapInv'
  <2>1. Idle.pc # "over"
    BY DEF Idle
  <2> QED
    BY <1>1, <1>3, <2>1, IdleRests, CapStays
<1> QED
  BY <1>4, <1>5, <1>6, <1>8, <1>9, <1>10, <1>11

\* The panel starts with the boot's purge to come.
LEMMA PanelStartsKeeps ==
  ASSUME IInv, PanelStarts
  PROVE  IInv'
<1> USE DEF IInv
<1> DEFINE g == [J EXCEPT !.pc = "boot"]
<1>1. /\ up' = TRUE /\ proc' = [proc EXCEPT ![Janitor] = g]
      /\ UNCHANGED <<now, channel, rows, lastId, hourly, watermark, reader, missed, purged,
                     overlap, faults>>
  BY DEF PanelStarts, ingestVars, history, J
<1>2. g \in ProcType /\ g.pc = "boot"
  <2>1. "boot" \in Steps /\ J \in ProcType
    BY JanitorIsOne DEF Steps, DataInv, J
  <2> QED
    BY <2>1, GoesOn
<1> HIDE DEF g
<1>3. ~Purges(g) /\ g.pc # "fill"
  BY <1>2 DEF Purges
<1>4. TableInv' /\ CursorInv' /\ RollupInv' /\ PageInv' /\ CapInv'
  BY <1>1, <1>2, <1>3, JanitorIsOne, Rests
<1>5. proc' \in [Purgers -> ProcType]
  BY <1>1, <1>2, JanitorIsOne, OneMoves
<1>6. DataInv'
  BY <1>1, <1>5 DEF DataInv
<1>7. MarkInv'
  BY <1>1, MarkStays, LogAssumption DEF DataInv, Hours
<1> QED
  BY <1>4, <1>6, <1>7

----------------------------------------------------------------------------
(* The store *)

\* The empty store.
LEMMA InitHolds == Init => IInv
<1> SUFFICES ASSUME Init PROVE IInv
  OBVIOUS
<1> USE DEF Init
<1>1. \A p \in Purgers : proc[p] \in ProcType /\ ~Purges(proc[p]) /\ proc[p].pc \notin {"fill", "over"}
  <2>1. "boot" \in Steps
    BY DEF Steps
  <2>2. /\ [Idle EXCEPT !.pc = "boot"] \in ProcType
        /\ [Idle EXCEPT !.pc = "boot"].pc = "boot"
    BY <2>1, IdleType, GoesOn
  <2>3. Idle \in ProcType /\ Idle.pc = "idle"
    BY IdleType DEF Idle
  <2> QED
    BY <2>2, <2>3 DEF Purges
<1>2. DataInv
  <2>1. now \in Hours /\ hourly \in [Hours -> Nat] /\ watermark \in Int
    BY LogAssumption DEF Hours
  <2>2. channel \in Seq(Hours) /\ Len(channel) <= Capacity
    BY LogAssumption
  <2>3. reader \in ReadType
    BY DEF NoRead, ReadType
  <2>4. proc \in [Purgers -> ProcType]
    BY <1>1
  <2>5. up \in BOOLEAN /\ overlap \in BOOLEAN
    OBVIOUS
  <2>6. rows \subseteq Entry /\ lastId \in Nat /\ faults \in Nat /\ missed \subseteq Hours
        /\ purged \subseteq Hours /\ \A r \in rows : r.id \in 1 .. lastId
    OBVIOUS
  <2> QED
    BY <2>1, <2>2, <2>3, <2>4, <2>5, <2>6 DEF DataInv
<1>3. TableInv
  BY FS_EmptySet DEF TableInv, Table, Keyed
<1>4. MarkInv
  BY DEF MarkInv, Clean
<1>5. CursorInv
  BY <1>1 DEF CursorInv, StripOk
<1>6. RollupInv
  <2>1. \A h \in Hours : RowsAt(rows, h) = {} /\ hourly[h] = 0
    BY DEF RowsAt
  <2>2. J.pc # "fill"
    BY <1>1, JanitorIsOne DEF J
  <2>3. \A h \in Hours : ~PassedBy(hourly, J, h)
    BY <2>1, <2>2 DEF PassedBy
  <2>4. Cardinality({}) = 0
    BY FS_EmptySet
  <2>5. \A h \in Hours : hourly[h] <= Cardinality(RowsAt(rows, h))
    <3> TAKE h \in Hours
    <3>1. Cardinality(RowsAt(rows, h)) = 0
      BY <2>1, <2>4
    <3>2. hourly[h] = 0
      BY <2>1
    <3> QED
      BY <3>1, <3>2
  <2> QED
    BY <2>2, <2>3, <2>5 DEF RollupInv
<1>7. PageInv
  BY DEF PageInv, NoRead
<1>8. CapInv
  BY <1>1 DEF CapInv
<1> QED
  BY <1>2, <1>3, <1>4, <1>5, <1>6, <1>7, <1>8 DEF IInv

\* The steps, whichever process takes them.
LEMMA StepsAre ==
  ASSUME Next
  PROVE  \/ \E d \in {now - 1, now} \cap Hours : Arrive(d)
         \/ Flush \/ FlushFails \/ JanitorPurges \/ StartFill \/ FillHour \/ FillFails
         \/ ExpireRollup
         \/ \E p \in Purgers : \/ OperatorPurges(p) \/ PurgeFails(p) \/ DeleteAged(p)
                               \/ CheckCap(p) \/ DeleteOver(p) \/ StripRows(p)
                               \/ MarkProgress(p) \/ SealStrip(p)
         \/ ReadSpanFor \/ ReadClosed \/ ReadEdges \/ ReadEnds
         \/ Tick \/ PanelStops \/ PanelStarts
<1>1. Janitor \in Purgers /\ Operators \subseteq Purgers
  BY DEF Purgers
<1> QED
  BY <1>1 DEF Next, JanitorStep, PurgeStep, Read

\* The invariant is inductive.
LEMMA StepKeeps == IInv /\ [Next]_vars => IInv'
<1> SUFFICES ASSUME IInv, [Next]_vars PROVE IInv'
  OBVIOUS
<1>1. CASE UNCHANGED vars
  <2>1. UNCHANGED <<now, channel, rows, lastId, hourly, watermark, proc, reader, up, missed,
                    purged, overlap, faults>>
    BY <1>1 DEF vars, ingestVars, history
  <2>2. now' \in Hours /\ now' >= now /\ J' = J
    BY <2>1, LogAssumption DEF IInv, DataInv, Hours, J
  <2>3. DataInv'
    BY <2>1 DEF IInv, DataInv
  <2> QED
    BY <2>1, <2>2, <2>3, TableStays, MarkStays, CursorStays, RollupStays, PageStays, CapStays
       DEF IInv
<1>2. CASE Next
  <2>1. CASE \E d \in {now - 1, now} \cap Hours : Arrive(d)
    BY <2>1, ArriveKeeps
  <2>2. CASE Flush \/ FlushFails
    BY <2>2, FlushKeeps, FlushFailsKeeps
  <2>3. CASE JanitorPurges \/ StartFill \/ FillHour \/ FillFails \/ ExpireRollup
    BY <2>3, JanitorPurgesKeeps, StartFillKeeps, FillHourKeeps, FillFailsKeeps, ExpireRollupKeeps
  <2>4. ASSUME NEW p \in Purgers, OperatorPurges(p) \/ PurgeFails(p) \/ DeleteAged(p) \/ CheckCap(p)
        PROVE  IInv'
    BY <2>4, OperatorPurgesKeeps, PurgeFailsKeeps, DeleteAgedKeeps, CheckCapKeeps
  <2>5. ASSUME NEW p \in Purgers, DeleteOver(p) \/ StripRows(p) \/ MarkProgress(p) \/ SealStrip(p)
        PROVE  IInv'
    BY <2>5, DeleteOverKeeps, StripRowsKeeps, MarkProgressKeeps, SealStripKeeps
  <2>6. CASE ReadSpanFor \/ ReadClosed \/ ReadEdges \/ ReadEnds
    BY <2>6, ReadSpanForKeeps, ReadClosedKeeps, ReadEdgesKeeps, ReadEndsKeeps
  <2>7. CASE Tick \/ PanelStops \/ PanelStarts
    BY <2>7, TickKeeps, PanelStopsKeeps, PanelStartsKeeps
  <2> QED
    BY <1>2, StepsAre, <2>1, <2>2, <2>3, <2>4, <2>5, <2>6, <2>7
<1> QED
  BY <1>1, <1>2

\* What the inductive invariant says of the store.
LEMMA Sound == IInv => StoreIsSound
<1> SUFFICES ASSUME IInv PROVE StoreIsSound
  OBVIOUS
<1> USE DEF IInv
<1>1. TypeOK
  <2>1. ASSUME NEW p \in Purgers
        PROVE  /\ proc[p].pc \in Steps /\ proc[p].then \in Steps /\ proc[p].full \in BOOLEAN
               /\ \A f \in {"at", "from", "want", "ts", "id", "hour", "until"} : proc[p][f] \in Int
    <3>1. proc[p] \in ProcType
      BY DEF DataInv
    <3>2. proc[p].pc \in Steps /\ proc[p].then \in {"idle", "start", "expire"}
      BY <3>1 DEF ProcType
    <3>3. proc[p].full \in BOOLEAN
      BY <3>1 DEF ProcType
    <3>4. /\ proc[p].at \in Int /\ proc[p].from \in Int /\ proc[p].want \in Int
          /\ proc[p].ts \in Int /\ proc[p].id \in Int /\ proc[p].hour \in Int
          /\ proc[p].until \in Int
      BY <3>1 DEF ProcType
    <3>5. proc[p].then \in Steps
      BY <3>2 DEF Steps
    <3>6. \A f \in {"at", "from", "want", "ts", "id", "hour", "until"} : proc[p][f] \in Int
      BY <3>4
    <3> QED
      BY <3>2, <3>3, <3>5, <3>6
  <2>2. /\ reader.pc \in {"idle", "closed", "edges", "done"}
        /\ \A f \in {"from", "to", "cf", "ct", "total", "low"} : reader[f] \in Nat
    BY DEF DataInv, ReadType
  <2> QED
    BY <2>1, <2>2 DEF TypeOK, DataInv
<1>2. ClosedHoursExact
  <2> SUFFICES ASSUME NEW h \in Hours \ (missed \cup purged), Filled # {}, h < Newest
               PROVE  hourly[h] = Cardinality(Of(h))
    BY DEF ClosedHoursExact
  <2>1. Filled \in SUBSET Hours /\ \A k \in Filled : hourly[k] > 0
    BY DEF Filled
  <2>2. Newest \in Filled
    BY <2>1, MaxIsGreatest DEF Newest
  <2> QED
    BY <2>1, <2>2 DEF RollupInv, PassedBy, Of, RowsAt
<1>3. ReadIsExact
  BY DEF PageInv, ReadIsExact, Window, Between
<1>4. StripIsComplete
  BY DEF MarkInv, Clean, StripIsComplete
<1> QED
  BY <1>1, <1>2, <1>3, <1>4 DEF StoreIsSound

\* StoreIsSound, for every retention, cap, batch and window, every number of rows
\* and of operators: whatever stops, fails and comes late, the rollup of a closed hour
\* is what its rows come to, a page counts each row once, and no row that a purge has
\* gone past keeps its raw JSON.
THEOREM StoreIsSoundHolds == Spec => []StoreIsSound
<1>1. Init => IInv
  BY InitHolds
<1>2. IInv /\ [Next]_vars => IInv'
  BY StepKeeps
<1>3. IInv => StoreIsSound
  BY Sound
<1> QED
  BY <1>1, <1>2, <1>3, PTL DEF Spec

----------------------------------------------------------------------------
(* What a step takes *)

Excess ==
    \A r \in rows : r.ts >= now - Retention /\ (\A s \in rows' : s.id # r.id) =>
         overlap \/ Cardinality(rows') >= MaxEntries
Kept ==
    \A h \in Hours : hourly'[h] < hourly[h] => h \in purged \/ h < now - RollupHours

\* Only a deletion or a strip changes a row; only a fill or the rollup's own
\* retention changes a count.
LEMMA MostStepsAdd ==
  ASSUME Next
  PROVE  /\ \/ rows \subseteq rows'
            \/ \E p \in Purgers : DeleteAged(p) \/ DeleteOver(p) \/ StripRows(p)
         /\ hourly' = hourly \/ FillHour \/ ExpireRollup
<1>1. CASE \E d \in {now - 1, now} \cap Hours : Arrive(d)
  BY <1>1 DEF Arrive, ingestFrame
<1>2. CASE Flush \/ FlushFails
  BY <1>2 DEF Flush, FlushFails, ingestFrame
<1>3. CASE JanitorPurges \/ StartFill \/ FillFails
  BY <1>3 DEF JanitorPurges, StartFill, FillFails, fillFrame, ingestVars
<1>4. CASE FillHour \/ ExpireRollup
  BY <1>4 DEF FillHour, ExpireRollup, fillFrame, ingestVars
<1>5. ASSUME NEW p \in Purgers, OperatorPurges(p) \/ PurgeFails(p)
      PROVE  rows' = rows /\ hourly' = hourly
  BY <1>5 DEF OperatorPurges, PurgeFails, ingestVars
<1>6. ASSUME NEW p \in Purgers, CheckCap(p) \/ MarkProgress(p) \/ SealStrip(p)
      PROVE  rows' = rows /\ hourly' = hourly
  BY <1>6 DEF CheckCap, MarkProgress, SealStrip, purgeFrame, stripFrame
<1>7. ASSUME NEW p \in Purgers, DeleteAged(p) \/ DeleteOver(p) \/ StripRows(p)
      PROVE  hourly' = hourly
  BY <1>7 DEF DeleteAged, DeleteOver, StripRows, purgeFrame, stripFrame
<1>8. CASE ReadSpanFor \/ ReadClosed \/ ReadEdges \/ ReadEnds
  BY <1>8 DEF ReadSpanFor, ReadClosed, ReadEdges, ReadEnds, readFrame, ingestVars
<1>9. CASE Tick \/ PanelStops \/ PanelStarts
  BY <1>9 DEF Tick, PanelStops, PanelStarts, ingestVars
<1> QED
  BY StepsAre, <1>1, <1>2, <1>3, <1>4, <1>5, <1>6, <1>7, <1>8, <1>9

\* A deletion takes what is past its age, or what is over the cap.
LEMMA StepTakesExcess ==
  ASSUME IInv, Next
  PROVE  Excess
<1> USE DEF IInv
<1> SUFFICES ASSUME NEW r \in rows, r.ts >= now - Retention, \A s \in rows' : s.id # r.id
             PROVE  overlap \/ Cardinality(rows') >= MaxEntries
  BY DEF Excess
<1>1. r \notin rows'
  OBVIOUS
<1>2. r.ts \in Int /\ now \in Int /\ Retention \in Nat
  BY LogAssumption DEF DataInv, Entry, Hours
<1>3. ASSUME NEW p \in Purgers, DeleteAged(p) PROVE FALSE
  <2> DEFINE O == {x \in rows : x.ts < proc[p].at - Retention}
             S == First(O, PurgeBatch)
  <2>1. rows' = rows \ S
    BY <1>3 DEF DeleteAged, DeleteOldest
  <2>2. S \subseteq O
    BY DEF First
  <2>3. Purges(proc[p]) /\ proc[p].at \in Int
    BY <1>3 DEF DeleteAged, At, Purges, DataInv, ProcType
  <2>4. proc[p].at <= now
    BY <2>3 DEF CursorInv
  <2>5. r \in O
    BY <1>1, <2>1, <2>2
  <2> QED
    BY <1>2, <2>3, <2>4, <2>5
<1>4. ASSUME NEW p \in Purgers, DeleteOver(p), ~overlap
      PROVE  Cardinality(rows') >= MaxEntries
  <2> DEFINE limit == Min({PurgeBatch, proc[p].want})
             S == First(rows, limit)
  <2>1. rows' = rows \ S /\ proc[p].pc = "over" /\ S \in SUBSET rows
    BY <1>4 DEF DeleteOver, DeleteOldest, At, First
  <2>2. proc[p].want > 0 /\ Cardinality(rows) >= MaxEntries + proc[p].want /\ proc[p].want \in Int
    BY <1>4, <2>1 DEF CapInv, DataInv, ProcType
  <2>3. PurgeBatch \in Nat /\ PurgeBatch \in Int /\ MaxEntries \in Nat
    BY LogAssumption
  <2>4. limit \in {PurgeBatch, proc[p].want} /\ limit <= proc[p].want
    BY <2>2, <2>3, MinOfTwo
  <2> HIDE DEF limit
  <2>5. limit \in Nat
    BY <2>2, <2>3, <2>4
  <2>6. Cardinality(S) \in Nat /\ Cardinality(S) <= limit
    BY <2>5, FirstRows DEF TableInv
  <2> HIDE DEF S
  <2>7. Cardinality(rows') = Cardinality(rows) - Cardinality(S) /\ Cardinality(rows) \in Nat
    BY <2>1, Deleted, FS_CardinalityType DEF TableInv, Table
  <2> QED
    BY <2>2, <2>3, <2>4, <2>5, <2>6, <2>7
<1>5. ASSUME NEW p \in Purgers, StripRows(p) PROVE FALSE
  <2> DEFINE S == First(Ahead(p), StripBatch)
  <2>1. rows' = rows \/ rows' = StripOf(rows, S)
    BY <1>5 DEF StripRows, StripOf, Stripped
  <2>2. S \in SUBSET rows
    BY DEF First, Ahead
  <2> HIDE DEF S
  <2>3. \E s \in StripOf(rows, S) : s.id = r.id
    BY <2>2, StripKeeps DEF TableInv
  <2> QED
    BY <1>1, <2>1, <2>3
<1> QED
  BY <1>1, <1>3, <1>4, <1>5, MostStepsAdd

\* A fill counts no fewer than the rollup has; its retention takes what is old.
LEMMA StepKeepsCounts ==
  ASSUME IInv, Next
  PROVE  Kept
<1> USE DEF IInv
<1> SUFFICES ASSUME NEW h \in Hours, hourly'[h] < hourly[h]
             PROVE  h \in purged \/ h < now - RollupHours
  BY DEF Kept
<1>1. hourly[h] \in Nat
  BY DEF DataInv
<1>2. CASE hourly' = hourly
  BY <1>1, <1>2
<1>3. CASE FillHour
  <2>1. /\ hourly' = [hourly EXCEPT ![J.hour] = Cardinality(RowsAt(rows, J.hour))]
        /\ hourly \in [Hours -> Nat]
    BY <1>3 DEF FillHour, Of, RowsAt, DataInv
  <2>2. CASE h = J.hour
    <3>1. hourly'[h] = Cardinality(RowsAt(rows, h)) /\ Cardinality(RowsAt(rows, h)) \in Nat
      BY <2>1, <2>2, Parts DEF TableInv
    <3>2. h \notin purged => hourly[h] <= Cardinality(RowsAt(rows, h))
      BY DEF RollupInv
    <3> QED
      BY <1>1, <3>1, <3>2
  <2>3. CASE h # J.hour
    BY <1>1, <2>1, <2>3
  <2> QED
    BY <2>2, <2>3
<1>4. CASE ExpireRollup
  <2>1. hourly'[h] = IF h \in {k \in Filled : k < now - RollupHours} THEN 0 ELSE hourly[h]
    BY <1>4 DEF ExpireRollup
  <2> QED
    BY <1>1, <2>1
<1> QED
  BY <1>2, <1>3, <1>4, MostStepsAdd

\* PurgesKeep, for every value of the constants: unless two purges have run at the same
\* time, the cap takes a row only while the table stays at its cap; and the rollup loses
\* a count only with the rows of that hour, or by its own age.
THEOREM PurgesKeepHolds == Spec => PurgesKeep
<1>1. Init => IInv
  BY InitHolds
<1>2. IInv /\ [Next]_vars => IInv'
  BY StepKeeps
<1>3. IInv /\ [Next]_vars => [Excess]_vars
  BY StepTakesExcess
<1>4. IInv /\ [Next]_vars => [Kept]_vars
  BY StepKeepsCounts
<1>5. Spec => [][Excess]_vars /\ [][Kept]_vars
  BY <1>1, <1>2, <1>3, <1>4, PTL DEF Spec
<1> QED
  BY <1>5 DEF PurgesKeep, OnlyExcessGoes, RollupKeeps, Excess, Kept

----------------------------------------------------------------------------
(* Pages of rows: what ORDER BY with LIMIT and OFFSET returns.  An order   *)
(* is a set of pairs; a row's rank is how many rows come before it.        *)

Prior(i, S, O) == {j \in S : <<j, i>> \in O}
Rank(i, S, O)  == Cardinality(Prior(i, S, O))

Ordered(S, O) ==
    /\ IsFiniteSet(S) /\ \A i \in S : <<i, i>> \notin O
    /\ \A i, j \in S : i = j \/ <<i, j>> \in O \/ <<j, i>> \in O
    /\ \A i, j, k \in S : <<i, j>> \in O /\ <<j, k>> \in O => <<i, k>> \in O

\* Some of the rows are in the same order.
LEMMA SubOrder ==
  ASSUME NEW S, NEW O, Ordered(S, O), NEW U \in SUBSET S
  PROVE  /\ Ordered(U, O) /\ Cardinality(U) \in Nat /\ Cardinality(U) <= Cardinality(S)
         /\ Cardinality(S) \in Nat
<1>1. IsFiniteSet(S) /\ IsFiniteSet(U) /\ Cardinality(U) <= Cardinality(S)
  BY FS_Subset DEF Ordered
<1>2. Cardinality(U) \in Nat /\ Cardinality(S) \in Nat
  BY <1>1, FS_CardinalityType
<1> QED
  BY <1>1, <1>2 DEF Ordered

\* The count of rows is the number of them.
LEMMA CountIs == \A S : Reads!Cardinality(S) = Cardinality(S)
BY DEF Reads!Cardinality, Cardinality

\* A rank is less than the number of rows, and grows along the order.
LEMMA Ranks ==
  ASSUME NEW S, NEW O, Ordered(S, O)
  PROVE  /\ \A i \in S : Rank(i, S, O) \in Nat /\ Rank(i, S, O) < Cardinality(S)
         /\ \A i, j \in S : <<i, j>> \in O => Rank(i, S, O) < Rank(j, S, O)
<1>1. ASSUME NEW T \in SUBSET S, NEW i \in S, i \in T, NEW U \in SUBSET T, i \notin U
      PROVE  Cardinality(U) \in Nat /\ Cardinality(T) \in Nat /\ Cardinality(U) < Cardinality(T)
  <2>1. IsFiniteSet(T) /\ IsFiniteSet(U) /\ Cardinality(T) \in Nat /\ Cardinality(U) \in Nat
    BY SubOrder DEF Ordered
  <2>2. Cardinality(U) <= Cardinality(T)
    BY <2>1, FS_Subset
  <2>3. Cardinality(U) = Cardinality(T) => U = T
    BY <2>1, FS_Subset
  <2>4. U # T
    BY <1>1
  <2> QED
    BY <2>1, <2>2, <2>3, <2>4
<1>2. ASSUME NEW i \in S
      PROVE  Rank(i, S, O) \in Nat /\ Rank(i, S, O) < Cardinality(S)
  <2>1. Prior(i, S, O) \in SUBSET S /\ i \notin Prior(i, S, O) /\ S \in SUBSET S
    BY DEF Prior, Ordered
  <2> QED
    BY <1>1, <2>1 DEF Rank
<1>3. ASSUME NEW i \in S, NEW j \in S, <<i, j>> \in O
      PROVE  Rank(i, S, O) < Rank(j, S, O)
  <2>1. Prior(i, S, O) \in SUBSET Prior(j, S, O) /\ i \in Prior(j, S, O) /\ i \notin Prior(i, S, O)
    BY <1>3 DEF Prior, Ordered
  <2>2. Prior(j, S, O) \in SUBSET S
    BY DEF Prior
  <2> QED
    BY <1>1, <2>1, <2>2 DEF Rank
<1> QED
  BY <1>2, <1>3

Band(S, O, first, size) == {i \in S : Rank(i, S, O) \in Reads!Window(first, size)}

\* A page has no more rows than its size.
LEMMA PageSize ==
  ASSUME NEW S, NEW O, Ordered(S, O), NEW first \in Nat, NEW size \in Nat
  PROVE  Cardinality(Band(S, O, first, size)) \in Nat /\ Cardinality(Band(S, O, first, size)) <= size
<1> DEFINE B == Band(S, O, first, size)
           W == first .. first + size - 1
           f == [i \in B |-> Rank(i, S, O)]
<1>1. B \in SUBSET S /\ \A i \in B : Rank(i, S, O) \in W
  BY DEF Band, Reads!Window
<1>2. IsFiniteSet(W) /\ Cardinality(W) = size
  BY FS_Interval
<1>3. \A i, j \in B : f[i] = f[j] => i = j
  <2>1. ASSUME NEW i \in B, NEW j \in B, f[i] = f[j], i # j PROVE FALSE
    <3>1. <<i, j>> \in O \/ <<j, i>> \in O
      BY <1>1, <2>1 DEF Ordered
    <3>2. Rank(i, S, O) < Rank(j, S, O) \/ Rank(j, S, O) < Rank(i, S, O)
      BY <1>1, <3>1, Ranks
    <3>3. Rank(i, S, O) = Rank(j, S, O) /\ Rank(i, S, O) \in Nat /\ Rank(j, S, O) \in Nat
      BY <1>1, <2>1, Ranks
    <3> QED
      BY <3>2, <3>3
  <2> QED
    BY <2>1
<1>4. f \in Injection(B, W)
  <2>1. f \in [B -> W]
    BY <1>1
  <2> HIDE DEF B, W, f
  <2> QED
    BY <1>3, <2>1 DEF Injection, IsInjective
<1>5. Cardinality(B) <= Cardinality(W)
  BY <1>2, <1>4, FS_Injection
<1>6. Cardinality(B) \in Nat
  BY <1>1, SubOrder
<1> QED
  BY <1>2, <1>5, <1>6

\* The first rows: with a row of them, every row before it; and all the rows when
\* they are fewer than asked for.
LEMMA FirstPage ==
  ASSUME NEW S, NEW O, Ordered(S, O), NEW size \in Nat
  PROVE  LET F == {i \in S : Rank(i, S, O) < size}
         IN  /\ F \in SUBSET S /\ Cardinality(F) \in Nat /\ Cardinality(F) <= size
             /\ \A i \in F, j \in S : <<j, i>> \in O => j \in F
             /\ Cardinality(F) < size => F = S
<1> DEFINE F == {i \in S : Rank(i, S, O) < size}
<1>1. F = Band(S, O, 0, size)
  <2>1. \A i \in S : Rank(i, S, O) < size <=> Rank(i, S, O) \in 0 .. 0 + size - 1
    BY Ranks
  <2> QED
    BY <2>1 DEF Band, Reads!Window
<1>2. F \in SUBSET S /\ Cardinality(F) \in Nat /\ Cardinality(F) <= size
  BY <1>1, PageSize
<1>3. ASSUME NEW i \in F, NEW j \in S, <<j, i>> \in O PROVE j \in F
  BY <1>3, Ranks
<1>4. ASSUME Cardinality(F) < size, F # S PROVE FALSE
  <2> DEFINE U == S \ F
             T == {Prior(i, S, O) : i \in U}
  <2>1. U # {} /\ U \subseteq S
    BY <1>2, <1>4
  <2>2. \A x \in T : IsFiniteSet(x)
    <3>1. \A i \in U : Prior(i, S, O) \in SUBSET S
      BY DEF Prior
    <3>2. \A X \in SUBSET S : IsFiniteSet(X)
      BY FS_Subset DEF Ordered
    <3> QED
      BY <3>1, <3>2
  <2>3. T # {} /\ (\A x \in T : \E i \in U : x = Prior(i, S, O)) /\ \A i \in U : Prior(i, S, O) \in T
    BY <2>1
  <2> HIDE DEF T
  <2>4. PICK x \in T : \A y \in T : ~Smaller(y, x)
    BY <2>2, <2>3, FiniteMin
  <2>5. PICK u \in U : x = Prior(u, S, O)
    BY <2>3
  <2>6. Prior(u, S, O) \subseteq F
    <3>1. ASSUME NEW j \in Prior(u, S, O), j \notin F PROVE FALSE
      <4>1. j \in U /\ <<j, u>> \in O /\ u \in S /\ j \in S
        BY <2>1, <3>1 DEF Prior
      <4>2. Prior(j, S, O) \subseteq Prior(u, S, O) /\ j \in Prior(u, S, O) /\ j \notin Prior(j, S, O)
        BY <4>1 DEF Prior, Ordered
      <4>3. Smaller(Prior(j, S, O), Prior(u, S, O))
        BY <4>2 DEF Smaller
      <4> QED
        BY <2>3, <2>4, <2>5, <4>1, <4>3
    <3> QED
      BY <3>1
  <2>7. IsFiniteSet(F) /\ Rank(u, S, O) <= Cardinality(F)
    <3>1. IsFiniteSet(F)
      BY <1>2, SubOrder DEF Ordered
    <3> QED
      BY <2>6, <3>1, FS_Subset DEF Rank
  <2>8. Rank(u, S, O) \in Nat /\ u \in S /\ u \notin F
    BY <2>1, Ranks
  <2> HIDE DEF F
  <2>9. Rank(u, S, O) < size
    BY <1>2, <1>4, <2>7, <2>8
  <2> QED
    BY <2>8, <2>9 DEF F
<1> QED
  BY <1>2, <1>3, <1>4

\* Rows that there are have a first one.
LEMMA HasFirstRow ==
  ASSUME NEW S, NEW O, Ordered(S, O), S # {}
  PROVE  \E o \in S : \A i \in S : i = o \/ <<o, i>> \in O
<1> DEFINE F == {i \in S : Rank(i, S, O) < 1}
<1>1. Cardinality(F) < 1 => F = S
  BY FirstPage
<1>2. F # {}
  BY <1>1, FS_EmptySet
<1>3. PICK o \in S : Rank(o, S, O) < 1
  BY <1>2
<1>4. Prior(o, S, O) = {}
  <2>1. Prior(o, S, O) \in SUBSET S
    BY DEF Prior
  <2>2. IsFiniteSet(Prior(o, S, O))
    BY <2>1, SubOrder DEF Ordered
  <2>3. Rank(o, S, O) \in Nat
    BY Ranks
  <2>4. Cardinality(Prior(o, S, O)) = 0
    BY <1>3, <2>3 DEF Rank
  <2> QED
    BY <2>2, <2>4, FS_EmptySet
<1>5. \A i \in S \ {o} : <<i, o>> \notin O
  BY <1>4 DEF Prior
<1> QED
  BY <1>5 DEF Ordered

\* The largest of finitely many numbers.
LEMMA LargestId ==
  ASSUME NEW S \in SUBSET Nat, IsFiniteSet(S), S # {}
  PROVE  Reads!Max(S) \in S /\ \A x \in S : x <= Reads!Max(S)
<1> DEFINE O == {e \in S \X S : e[1] > e[2]}
<1>1. \A i, j \in S : <<i, j>> \in O <=> i > j
  OBVIOUS
<1> HIDE DEF O
<1>2. Ordered(S, O)
  BY <1>1 DEF Ordered
<1>3. \E o \in S : \A i \in S : i = o \/ <<o, i>> \in O
  BY <1>2, HasFirstRow, Zenon
<1>4. PICK o \in S : \A i \in S : i = o \/ <<o, i>> \in O
  BY <1>3
<1>6. ASSUME NEW i \in S PROVE o >= i
  <2>1. CASE i = o
    BY <2>1
  <2>2. CASE i # o
    <3>1. <<o, i>> \in O
      BY <1>4, <2>2
    <3>2. o > i
      BY <1>1, <3>1, Zenon
    <3> QED
      BY <3>2
  <2> QED
    BY <2>1, <2>2
<1>5. Reads!Max(S) \in S /\ \A x \in S : Reads!Max(S) >= x
  BY <1>6 DEF Reads!Max
<1> QED
  BY <1>5

----------------------------------------------------------------------------
(* The reads of several statements.  The inductive invariant says, for     *)
(* each reader, where the rows that were there throughout are: given, or   *)
(* still before it; by (timestamp, id), by the rank in the page's order,   *)
(* by the rank among the larger ids, by id.                                *)

Ids == 1 .. ReadRows

ReadsTypes ==
    /\ last \in Nat /\ last <= ReadRows /\ table \subseteq 1 .. last
    /\ ts \in [Ids -> Nat] /\ ts \in [Ids -> ReadTimes \cup {0}]
    /\ hits \subseteq table /\ held \subseteq hits /\ seen \subseteq 1 .. last
    /\ cursor \in [ts: Nat, id: Nat] /\ total \in Nat /\ arrivals \in Nat
    /\ twice \in BOOLEAN /\ crossed \in BOOLEAN
    /\ kind \in {"export", "list", "asc", "audit", "stream"}
    /\ pc \in {"idle", "rows", "total", "refused", "cut", "done", "open"}
    /\ pc = "idle" => cursor = Reads!Zero /\ seen = {} /\ arrivals = 0 /\ ~twice

\* The export: what is past its cursor has been given, and so has what was there of
\* it; what it has given and what is ahead of it are within the cap.
ExportInv ==
    /\ ~twice /\ \A i \in seen : ~Reads!Before(cursor, Reads!Row(i))
    /\ pc \in {"idle", "rows"} => \A i \in held : i \in seen \/ Reads!Before(cursor, Reads!Row(i))
    /\ pc = "rows" => Cardinality(seen \cup Reads!Ahead) <= CSVRows + arrivals
    /\ Cardinality(seen) <= CSVRows + arrivals
    /\ pc = "done" => held \subseteq seen

\* A logs page under which no purge has moved the rows.
Undisturbed == kind = "list" \/ (kind = "asc" /\ ~crossed)

\* The logs page: what has not been shown is past the offset.
ListInv ==
    /\ pc \in {"idle", "rows"} => \A i \in held \ seen : Reads!ShownBefore(i, Reads!Match) >= cursor.id
    /\ pc = "total" =>
          /\ total <= cursor.id + PageRows
          /\ \A i \in held \ seen : Reads!ShownBefore(i, Reads!Match) >= cursor.id + PageRows
    /\ pc \notin {"idle", "rows", "total"} => held \subseteq seen

\* The audit page: the same by id, which is the order of the timestamps; the count
\* is of all the rows unless some came since.
AuditInv ==
    /\ \A i, j \in table : i < j => ts[i] <= ts[j]
    /\ pc \in {"idle", "rows", "total"} => \A i \in held \ seen : Reads!IdsAbove(i, table) >= cursor.id
    /\ pc = "rows" /\ ~crossed => Cardinality(table) <= total
    /\ pc = "done" /\ ~crossed => held \subseteq seen

\* The stream: what it gave is not past its cursor, and all that came is given up to it.
StreamInv ==
    /\ ~twice /\ cursor.id <= last /\ \A i \in seen : i <= cursor.id
    /\ \A i \in Reads!Match : total < i /\ i <= cursor.id => i \in seen

ReadsInv ==
    /\ ReadsTypes
    /\ kind = "export" => ExportInv
    /\ Undisturbed => ListInv
    /\ kind = "audit" => AuditInv
    /\ kind = "stream" => StreamInv

\* The orders of the readers.
ByAge    == {e \in Ids \X Ids : Reads!Older(e[1], e[2])}
ByNews   == {e \in Ids \X Ids : Reads!Older(e[2], e[1])}
Downward == {e \in Ids \X Ids : e[1] > e[2]}
Upward   == {e \in Ids \X Ids : e[1] < e[2]}
Shown    == IF kind = "asc" THEN ByAge ELSE ByNews

\* A row's place.
LEMMA OlderIs ==
  ASSUME ReadsTypes, NEW i \in Ids, NEW j \in Ids
  PROVE  /\ Reads!Older(i, j) <=> ts[i] < ts[j] \/ (ts[i] = ts[j] /\ i < j)
         /\ ts[i] \in Nat /\ ts[j] \in Nat
BY DEF ReadsTypes, Reads!Older, Reads!Before, Reads!Row

\* Each is an order of the rows, and its ranks are what the statements count.
LEMMA ReadOrders ==
  ASSUME ReadsTypes, NEW S \in SUBSET (1 .. last)
  PROVE  /\ Ordered(S, ByAge) /\ Ordered(S, ByNews) /\ Ordered(S, Downward) /\ Ordered(S, Upward)
         /\ Ordered(S, Shown) /\ \A i \in S : Reads!ShownBefore(i, S) = Rank(i, S, Shown)
         /\ \A i \in S : /\ Reads!OlderThan(i, S) = Rank(i, S, ByAge)
                         /\ Reads!NewerThan(i, S) = Rank(i, S, ByNews)
                         /\ Reads!IdsAbove(i, S) = Rank(i, S, Downward)
                         /\ Reads!IdsBelow(i, S) = Rank(i, S, Upward)
<1>1. S \subseteq Ids /\ Ids \subseteq Nat /\ IsFiniteSet(S)
  <2>1. IsFiniteSet(Ids) /\ S \subseteq Ids
    BY FS_Interval, ReadsAssumption DEF ReadsTypes, Ids
  <2>2. IsFiniteSet(S)
    BY <2>1, FS_Subset, Zenon
  <2> QED
    BY <2>1, <2>2 DEF Ids
<1>2. \A i, j \in S : /\ <<i, j>> \in ByAge <=> Reads!Older(i, j)
                      /\ <<i, j>> \in ByNews <=> Reads!Older(j, i)
                      /\ <<i, j>> \in Downward <=> i > j
                      /\ <<i, j>> \in Upward <=> i < j
  BY <1>1 DEF ByAge, ByNews, Downward, Upward
<1>3. \A i, j \in S : /\ Reads!Older(i, j) <=> ts[i] < ts[j] \/ (ts[i] = ts[j] /\ i < j)
                      /\ ts[i] \in Nat /\ ts[j] \in Nat
  BY <1>1, OlderIs
<1>4. Ordered(S, ByAge)
  BY <1>1, <1>2, <1>3 DEF Ordered
<1>5. Ordered(S, ByNews)
  BY <1>1, <1>2, <1>3 DEF Ordered
<1>6. Ordered(S, Downward) /\ Ordered(S, Upward)
  BY <1>1, <1>2 DEF Ordered
<1>7. ASSUME NEW i \in S
      PROVE  /\ Reads!OlderThan(i, S) = Rank(i, S, ByAge)
             /\ Reads!NewerThan(i, S) = Rank(i, S, ByNews)
             /\ Reads!IdsAbove(i, S) = Rank(i, S, Downward)
             /\ Reads!IdsBelow(i, S) = Rank(i, S, Upward)
  <2>1. /\ {j \in S : Reads!Older(j, i)} = Prior(i, S, ByAge)
        /\ {j \in S : Reads!Older(i, j)} = Prior(i, S, ByNews)
        /\ {j \in S : j > i} = Prior(i, S, Downward)
        /\ {j \in S : j < i} = Prior(i, S, Upward)
    BY <1>2 DEF Prior
  <2> QED
    BY <2>1, CountIs DEF Rank, Reads!OlderThan, Reads!NewerThan, Reads!IdsAbove, Reads!IdsBelow
<1>8. Ordered(S, Shown) /\ \A i \in S : Reads!ShownBefore(i, S) = Rank(i, S, Shown)
  BY <1>4, <1>5, <1>7 DEF Shown, Reads!ShownBefore
<1> QED
  BY <1>4, <1>5, <1>6, <1>7, <1>8

----------------------------------------------------------------------------
(* The table. *)

\* No row, and a reader that has not begun.
LEMMA ReadsInitHolds == Reads!Init => ReadsInv
<1> SUFFICES ASSUME Reads!Init PROVE ReadsInv
  OBVIOUS
<1>1. Reads!Match = {} /\ Reads!Ahead = {}
  BY DEF Reads!Init, Reads!Match, Reads!Ahead
<1>2. ReadsTypes
  <2>1. ts \in [Ids -> Nat] /\ ts \in [Ids -> ReadTimes \cup {0}]
    BY DEF Reads!Init, Ids
  <2>2. cursor \in [ts: Nat, id: Nat] /\ cursor = Reads!Zero
    BY DEF Reads!Init, Reads!Zero
  <2>3. last = 0 /\ last <= ReadRows
    BY ReadsAssumption DEF Reads!Init
  <2>4. /\ table = {} /\ hits = {} /\ held = {} /\ seen = {} /\ pc = "idle" /\ total = 0
        /\ arrivals = 0 /\ twice = FALSE /\ crossed = FALSE
        /\ kind \in {"export", "list", "asc", "audit", "stream"}
    BY DEF Reads!Init
  <2> QED
    BY <2>1, <2>2, <2>3, <2>4 DEF ReadsTypes
<1>3. Cardinality(seen) = 0 /\ seen = {} /\ arrivals = 0 /\ held = {} /\ pc = "idle"
  BY FS_EmptySet DEF Reads!Init
<1> QED
  BY <1>1, <1>2, <1>3, ReadsAssumption
     DEF Reads!Init, Reads!Zero, ReadsInv, ExportInv, ListInv, AuditInv, StreamInv

\* Counts of what a reader was given and of what there is.
LEMMA ReadsFinite ==
  ASSUME ReadsTypes, NEW S \in SUBSET (1 .. last)
  PROVE  /\ IsFiniteSet(S) /\ Cardinality(S) \in Nat
         /\ \A U \in SUBSET S : /\ IsFiniteSet(U) /\ Cardinality(U) \in Nat
                                /\ Cardinality(U) <= Cardinality(S)
<1>1. Ordered(S, Upward)
  BY ReadOrders
<1>2. IsFiniteSet(S)
  BY <1>1 DEF Ordered
<1> QED
  BY <1>1, <1>2, SubOrder, FS_Subset, FS_CardinalityType

\* What a batch's row leaves as it was.
LEMMA RowComes ==
  ASSUME ReadsTypes, NEW t \in ReadTimes, NEW hit \in BOOLEAN, Reads!InsertLogBatch(t, hit)
  PROVE  /\ ReadsTypes' /\ last' = last + 1 /\ last' \in Ids /\ last' \notin table
         /\ table' = table \cup {last'}
         /\ ts'[last'] = t /\ \A j \in 1 .. last : ts'[j] = ts[j]
         /\ hits' = IF hit THEN hits \cup {last'} ELSE hits
         /\ held' = IF pc = "idle" THEN held \cup ({last'} \cap hits') ELSE held
         /\ UNCHANGED <<kind, pc, cursor, total, seen, twice>>
<1>1. last + 1 <= ReadRows /\ last' = last + 1
  BY DEF Reads!InsertLogBatch, Reads!NextId, ReadsTypes
<1>2. last' \in Ids /\ last' \notin table /\ last' \notin hits
  BY <1>1, ReadsAssumption DEF ReadsTypes, Ids
<1>3. table' = table \cup {last'} /\ ts' = [ts EXCEPT ![last'] = t]
  BY <1>1 DEF Reads!InsertLogBatch, Reads!NextId
<1>4. hits' = IF hit THEN hits \cup {last'} ELSE hits
  BY <1>1, <1>2 DEF Reads!InsertLogBatch, Reads!NextId
<1>5. held' = IF pc = "idle" THEN held \cup ({last'} \cap hits') ELSE held
  BY <1>1 DEF Reads!InsertLogBatch, Reads!NextId
<1>6. UNCHANGED <<kind, pc, cursor, total, seen, twice>>
  BY DEF Reads!InsertLogBatch
<1>7. ts'[last'] = t /\ \A j \in 1 .. last : ts'[j] = ts[j]
  BY <1>1, <1>2, <1>3, ReadsAssumption DEF ReadsTypes, Ids
<1>8. ts' \in [Ids -> Nat] /\ ts' \in [Ids -> ReadTimes \cup {0}]
  BY <1>2, <1>3, ReadsAssumption DEF ReadsTypes
<1>9. arrivals' \in Nat /\ crossed' \in BOOLEAN /\ (pc = "idle" => arrivals' = arrivals)
  BY DEF Reads!InsertLogBatch, ReadsTypes
<1>10. 1 .. last \subseteq 1 .. last' /\ last' \in 1 .. last' /\ last' \in Nat /\ last' <= ReadRows
  BY <1>1 DEF ReadsTypes
<1>11. ReadsTypes'
  BY <1>3, <1>4, <1>5, <1>6, <1>8, <1>9, <1>10 DEF ReadsTypes, Reads!Zero
<1> QED
  BY <1>1, <1>2, <1>3, <1>4, <1>5, <1>6, <1>7, <1>11

\* A row that comes is ahead of the export, or not its business.
LEMMA InsertKeepsExport ==
  ASSUME ReadsTypes, ExportInv, kind = "export",
         NEW t \in ReadTimes, NEW hit \in BOOLEAN, Reads!InsertLogBatch(t, hit)
  PROVE  ExportInv'
<1>1. /\ ReadsTypes' /\ last' = last + 1 /\ last' \in Ids /\ last' \notin table
      /\ table' = table \cup {last'}
      /\ ts'[last'] = t /\ \A j \in 1 .. last : ts'[j] = ts[j]
      /\ hits' = IF hit THEN hits \cup {last'} ELSE hits
      /\ held' = IF pc = "idle" THEN held \cup ({last'} \cap hits') ELSE held
      /\ UNCHANGED <<kind, pc, cursor, total, seen, twice>>
  BY RowComes
<1>2. \A j \in 1 .. last : Reads!Row(j)' = Reads!Row(j)
  BY <1>1 DEF Reads!Row
<1>3. seen \subseteq 1 .. last /\ held \subseteq 1 .. last /\ hits \subseteq table /\ table \subseteq 1 .. last
  BY DEF ReadsTypes
<1>4. ~twice' /\ \A i \in seen' : ~Reads!Before(cursor', Reads!Row(i)')
  BY <1>1, <1>2, <1>3 DEF ExportInv
<1>5. pc' \in {"idle", "rows"} => \A i \in held' : i \in seen' \/ Reads!Before(cursor', Reads!Row(i)')
  <2>1. ASSUME pc \in {"idle", "rows"}, NEW i \in held'
        PROVE  i \in seen \/ Reads!Before(cursor, Reads!Row(i)')
    <3>1. CASE i \in held
      BY <1>2, <1>3, <2>1, <3>1 DEF ExportInv
    <3>2. CASE i \notin held
      <4>1. pc = "idle" /\ i = last' /\ cursor = Reads!Zero
        BY <1>1, <2>1, <3>2 DEF ReadsTypes
      <4>2. ts'[i] \in Nat /\ i \in Nat /\ i >= 1
        BY <1>1, <4>1, ReadsAssumption DEF Ids
      <4>3. Reads!Row(i)' = [ts |-> ts'[i], id |-> i]
        BY DEF Reads!Row
      <4>4. Reads!Before(Reads!Zero, [ts |-> ts'[i], id |-> i])
        BY <4>2 DEF Reads!Zero, Reads!Before
      <4>5. Reads!Before(cursor, Reads!Row(i)')
        BY <4>1, <4>3, <4>4
      <4> QED
        BY <4>5
    <3> QED
      BY <3>1, <3>2
  <2> QED
    BY <1>1, <2>1
<1>6. arrivals \in Nat /\ arrivals' \in Nat /\ arrivals <= arrivals'
  BY DEF Reads!InsertLogBatch, ReadsTypes
<1>7. Cardinality(seen') <= CSVRows + arrivals'
  <2>1. Cardinality(seen) \in Nat
    BY <1>3, ReadsFinite
  <2> QED
    BY <1>1, <1>6, <2>1, ReadsAssumption DEF ExportInv
<1>8. pc' = "rows" => Cardinality(seen' \cup Reads!Ahead') <= CSVRows + arrivals'
  <2> SUFFICES ASSUME pc = "rows"
               PROVE  Cardinality(seen \cup Reads!Ahead') <= CSVRows + arrivals'
    BY <1>1
  <2> DEFINE A == seen \cup Reads!Ahead
  <2>1. A \in SUBSET (1 .. last) /\ Cardinality(A) <= CSVRows + arrivals
    BY <1>3 DEF ExportInv, Reads!Ahead, Reads!Match
  <2>2. IsFiniteSet(A) /\ Cardinality(A) \in Nat
    BY <2>1, ReadsFinite
  <2>3. seen \cup Reads!Ahead' \subseteq IF hit THEN A \cup {last'} ELSE A
    BY <1>1, <1>2, <1>3 DEF Reads!Ahead, Reads!Match
  <2>4. arrivals' = IF hit THEN arrivals + 1 ELSE arrivals
    BY DEF Reads!InsertLogBatch
  <2> HIDE DEF A
  <2>5. IsFiniteSet(A \cup {last'}) /\ Cardinality(A \cup {last'}) <= Cardinality(A) + 1
    BY <2>2, FS_AddElement
  <2>6. Cardinality(A \cup {last'}) \in Nat
    BY <2>5, FS_CardinalityType
  <2>7. CASE hit
    <3>1. Cardinality(seen \cup Reads!Ahead') <= Cardinality(A \cup {last'})
      BY <2>3, <2>5, <2>7, FS_Subset
    <3>2. Cardinality(seen \cup Reads!Ahead') \in Nat
      BY <2>3, <2>5, <2>7, FS_Subset, FS_CardinalityType
    <3> QED
      BY <1>6, <2>1, <2>2, <2>4, <2>5, <2>6, <2>7, <3>1, <3>2, ReadsAssumption
  <2>8. CASE ~hit
    <3>1. Cardinality(seen \cup Reads!Ahead') <= Cardinality(A)
      BY <2>2, <2>3, <2>8, FS_Subset
    <3>2. Cardinality(seen \cup Reads!Ahead') \in Nat
      BY <2>2, <2>3, <2>8, FS_Subset, FS_CardinalityType
    <3> QED
      BY <1>6, <2>1, <2>2, <2>4, <2>8, <3>1, <3>2, ReadsAssumption
  <2> QED
    BY <2>7, <2>8
<1>9. pc' = "done" => held' \subseteq seen'
  BY <1>1 DEF ExportInv
<1> QED
  BY <1>4, <1>5, <1>7, <1>8, <1>9 DEF ExportInv


\* More rows before a row are a larger rank.
LEMMA MoreBefore ==
  ASSUME NEW S, IsFiniteSet(S), NEW U, U \subseteq S
  PROVE  /\ Reads!Cardinality(U) \in Nat /\ Reads!Cardinality(S) \in Nat
         /\ Reads!Cardinality(U) <= Reads!Cardinality(S)
<1>1. IsFiniteSet(U) /\ Cardinality(U) <= Cardinality(S)
  BY FS_Subset
<1>2. Cardinality(U) \in Nat /\ Cardinality(S) \in Nat
  BY <1>1, FS_CardinalityType
<1> QED
  BY <1>1, <1>2, CountIs

\* A row that comes puts the rows no nearer to the front of the logs page.
LEMMA InsertKeepsList ==
  ASSUME ReadsTypes, ListInv,
         NEW t \in ReadTimes, NEW hit \in BOOLEAN, Reads!InsertLogBatch(t, hit)
  PROVE  ListInv'
<1>1. /\ ReadsTypes' /\ last' = last + 1 /\ last' \in Ids /\ last' \notin table
      /\ table' = table \cup {last'}
      /\ ts'[last'] = t /\ \A j \in 1 .. last : ts'[j] = ts[j]
      /\ hits' = IF hit THEN hits \cup {last'} ELSE hits
      /\ held' = IF pc = "idle" THEN held \cup ({last'} \cap hits') ELSE held
      /\ UNCHANGED <<kind, pc, cursor, total, seen, twice>>
  BY RowComes
<1>2. \A j \in 1 .. last : Reads!Row(j)' = Reads!Row(j)
  BY <1>1 DEF Reads!Row
<1>3. Reads!Match \subseteq Reads!Match' /\ Reads!Match \subseteq 1 .. last /\ held \subseteq 1 .. last
  BY <1>1 DEF Reads!Match, ReadsTypes
<1>4. Reads!Match' \subseteq 1 .. last' /\ IsFiniteSet(Reads!Match')
  <2>1. Reads!Match' \subseteq 1 .. last' /\ last' \in Int
    BY <1>1 DEF Reads!Match, ReadsTypes
  <2>2. IsFiniteSet(1 .. last')
    BY <2>1, FS_Interval
  <2> QED
    BY <2>1, <2>2, FS_Subset
<1>5. ASSUME NEW i
      PROVE  (Reads!ShownBefore(i, Reads!Match))' \in Nat
  <2>1. /\ {j \in Reads!Match' : Reads!Older(i, j)'} \subseteq Reads!Match'
        /\ {j \in Reads!Match' : Reads!Older(j, i)'} \subseteq Reads!Match'
    OBVIOUS
  <2>2. /\ Reads!Cardinality({j \in Reads!Match' : Reads!Older(i, j)'}) \in Nat
        /\ Reads!Cardinality({j \in Reads!Match' : Reads!Older(j, i)'}) \in Nat
    BY <1>4, <2>1, MoreBefore
  <2> QED
    BY <2>2 DEF Reads!ShownBefore, Reads!NewerThan, Reads!OlderThan
<1>6. ASSUME NEW i \in held
      PROVE  /\ Reads!ShownBefore(i, Reads!Match) \in Nat
             /\ Reads!ShownBefore(i, Reads!Match) <= (Reads!ShownBefore(i, Reads!Match))'
  <2> DEFINE U == {j \in Reads!Match : Reads!Older(i, j)}
             S == {j \in Reads!Match' : Reads!Older(i, j)'}
             V == {j \in Reads!Match : Reads!Older(j, i)}
             T == {j \in Reads!Match' : Reads!Older(j, i)'}
  <2>1. U \subseteq S /\ V \subseteq T
    BY <1>2, <1>3 DEF Reads!Older
  <2>2. IsFiniteSet(S) /\ IsFiniteSet(T)
    BY <1>4, FS_Subset
  <2>3. /\ Reads!Cardinality(U) \in Nat /\ Reads!Cardinality(U) <= Reads!Cardinality(S)
        /\ Reads!Cardinality(V) \in Nat /\ Reads!Cardinality(V) <= Reads!Cardinality(T)
    BY <2>1, <2>2, MoreBefore
  <2> QED
    BY <1>1, <2>3 DEF Reads!ShownBefore, Reads!NewerThan, Reads!OlderThan
<1>7. cursor.id \in Nat /\ cursor.id + PageRows \in Nat
  BY ReadsAssumption DEF ReadsTypes
<1>8. ASSUME pc \in {"idle", "rows"}, NEW i \in held' \ seen
      PROVE  (Reads!ShownBefore(i, Reads!Match))' >= cursor.id
  <2>1. CASE i \in held
    BY <1>5, <1>6, <1>7, <1>8, <2>1 DEF ListInv
  <2>2. CASE i \notin held
    <3>1. cursor.id = 0
      BY <1>1, <1>8, <2>2 DEF ReadsTypes, Reads!Zero
    <3> QED
      BY <1>5, <3>1
  <2> QED
    BY <2>1, <2>2
<1>9. ASSUME pc = "total", NEW i \in held' \ seen
      PROVE  (Reads!ShownBefore(i, Reads!Match))' >= cursor.id + PageRows
  <2>1. i \in held
    BY <1>1, <1>9
  <2> QED
    BY <1>5, <1>6, <1>7, <1>9, <2>1 DEF ListInv
<1>10. pc \notin {"idle", "rows", "total"} => held' \subseteq seen
  BY <1>1 DEF ListInv
<1>11. pc = "total" => total <= cursor.id + PageRows
  BY DEF ListInv
<1> QED
  BY <1>1, <1>8, <1>9, <1>10, <1>11 DEF ListInv

\* An audit line is the newest, and its id the largest.
LEMMA InsertKeepsAudit ==
  ASSUME ReadsTypes, AuditInv, kind = "audit",
         NEW t \in ReadTimes, NEW hit \in BOOLEAN, Reads!InsertLogBatch(t, hit)
  PROVE  AuditInv'
<1>1. /\ ReadsTypes' /\ last' = last + 1 /\ last' \in Ids /\ last' \notin table
      /\ table' = table \cup {last'}
      /\ ts'[last'] = t /\ \A j \in 1 .. last : ts'[j] = ts[j]
      /\ hits' = IF hit THEN hits \cup {last'} ELSE hits
      /\ held' = IF pc = "idle" THEN held \cup ({last'} \cap hits') ELSE held
      /\ UNCHANGED <<kind, pc, cursor, total, seen, twice>>
  BY RowComes
<1>2. table \subseteq 1 .. last /\ held \subseteq 1 .. last /\ last \in Nat
  BY DEF ReadsTypes
<1>3. \A j \in table : ts[j] <= t
  BY DEF Reads!InsertLogBatch
<1>4. ASSUME NEW i \in table', NEW j \in table', i < j
      PROVE  ts'[i] <= ts'[j]
  <2>1. i \in table
    BY <1>1, <1>2, <1>4
  <2>2. CASE j \in table
    BY <1>1, <1>2, <1>4, <2>1, <2>2 DEF AuditInv
  <2>3. CASE j = last'
    BY <1>1, <1>2, <1>3, <2>1, <2>3
  <2> QED
    BY <1>1, <2>2, <2>3
<1>5. IsFiniteSet(table')
  <2>1. table' \subseteq 1 .. last' /\ last' \in Int
    BY <1>1, <1>2
  <2>2. IsFiniteSet(1 .. last')
    BY <2>1, FS_Interval
  <2> QED
    BY <2>1, <2>2, FS_Subset
<1>6. ASSUME NEW i
      PROVE  /\ Reads!IdsAbove(i, table) \in Nat /\ (Reads!IdsAbove(i, table))' \in Nat
             /\ Reads!IdsAbove(i, table) <= (Reads!IdsAbove(i, table))'
  <2> DEFINE U == {j \in table : j > i}
             S == {j \in table' : j > i}
  <2>1. U \subseteq S /\ S \subseteq S
    BY <1>1
  <2>2. IsFiniteSet(S)
    BY <1>5, FS_Subset
  <2>3. /\ Reads!Cardinality(U) \in Nat /\ Reads!Cardinality(S) \in Nat
        /\ Reads!Cardinality(U) <= Reads!Cardinality(S)
    BY <2>1, <2>2, MoreBefore
  <2> QED
    BY <2>3 DEF Reads!IdsAbove
<1>7. cursor.id \in Nat
  BY DEF ReadsTypes
<1>8. ASSUME pc \in {"idle", "rows", "total"}, NEW i \in held' \ seen
      PROVE  (Reads!IdsAbove(i, table))' >= cursor.id
  <2>1. CASE i \in held
    <3>1. Reads!IdsAbove(i, table) >= cursor.id
      BY <1>8, <2>1 DEF AuditInv
    <3> QED
      BY <1>6, <1>7, <3>1
  <2>2. CASE i \notin held
    <3>1. cursor.id = 0
      BY <1>1, <1>8, <2>2 DEF ReadsTypes, Reads!Zero
    <3> QED
      BY <1>6, <3>1
  <2> QED
    BY <2>1, <2>2
<1>9. pc = "rows" => crossed'
  BY DEF Reads!InsertLogBatch
<1>10. crossed' = FALSE => crossed = FALSE
  BY DEF Reads!InsertLogBatch, ReadsTypes
<1>11. pc = "done" /\ ~crossed' => held' \subseteq seen
  BY <1>1, <1>10 DEF AuditInv, ReadsTypes
<1> QED
  BY <1>1, <1>4, <1>8, <1>9, <1>11 DEF AuditInv

\* The stream has yet to reach it.
LEMMA InsertKeepsStream ==
  ASSUME ReadsTypes, StreamInv,
         NEW t \in ReadTimes, NEW hit \in BOOLEAN, Reads!InsertLogBatch(t, hit)
  PROVE  StreamInv'
<1>1. /\ ReadsTypes' /\ last' = last + 1 /\ last' \in Ids /\ last' \notin table
      /\ table' = table \cup {last'}
      /\ hits' = IF hit THEN hits \cup {last'} ELSE hits
      /\ UNCHANGED <<kind, pc, cursor, total, seen, twice>>
  BY RowComes
<1>2. last \in Nat /\ cursor.id \in Nat /\ cursor.id <= last
  BY DEF ReadsTypes, StreamInv
<1>3. Reads!Match' \subseteq Reads!Match \cup {last'}
  BY <1>1 DEF Reads!Match
<1> QED
  BY <1>1, <1>2, <1>3 DEF StreamInv


\* The oldest row.
LEMMA OldestRow ==
  ASSUME ReadsTypes, Reads!DeleteOldest
  PROVE  \E o \in table :
            /\ \A i \in table : i = o \/ Reads!Older(o, i)
            /\ table' = table \ {o} /\ held' = held \ {o} /\ hits' = hits \ {o}
            /\ crossed' = (crossed \/ (kind = "asc" /\ pc \in {"rows", "total"} /\ o \in hits))
            /\ UNCHANGED <<ts, last, kind, pc, cursor, total, seen, twice, arrivals>>
<1> DEFINE Oldest(i) == \A j \in table \ {i} : Reads!Older(i, j)
           o == CHOOSE i \in table : Oldest(i)
<1>1. table \in SUBSET (1 .. last) /\ table # {} /\ table \subseteq Ids
  BY ReadsAssumption DEF ReadsTypes, Reads!DeleteOldest, Ids
<1>2. Ordered(table, ByAge)
  BY <1>1, ReadOrders
<1>3. \E x \in table : \A i \in table : i = x \/ <<x, i>> \in ByAge
  BY <1>1, <1>2, HasFirstRow, Zenon
<1>4. \A x, i \in table : <<x, i>> \in ByAge => Reads!Older(x, i)
  BY DEF ByAge
<1>5. \E x \in table : Oldest(x)
  BY <1>3, <1>4
<1>6. o \in table /\ Oldest(o)
  BY <1>5
<1>7. /\ table' = table \ {o} /\ held' = held \ {o} /\ hits' = hits \ {o}
      /\ crossed' = (crossed \/ (kind = "asc" /\ pc \in {"rows", "total"} /\ o \in hits))
      /\ UNCHANGED <<ts, last, kind, pc, cursor, total, seen, twice, arrivals>>
  BY DEF Reads!DeleteOldest
<1> HIDE DEF o
<1> QED
  BY <1>6, <1>7

\* A purge takes no row before another reader's place, nor the rank of one.
LEMMA DeleteKeeps ==
  ASSUME ReadsInv, Reads!DeleteOldest
  PROVE  ReadsInv'
<1>1. PICK o \in table :
         /\ \A i \in table : i = o \/ Reads!Older(o, i)
         /\ table' = table \ {o} /\ held' = held \ {o} /\ hits' = hits \ {o}
         /\ crossed' = (crossed \/ (kind = "asc" /\ pc \in {"rows", "total"} /\ o \in hits))
         /\ UNCHANGED <<ts, last, kind, pc, cursor, total, seen, twice, arrivals>>
  BY OldestRow DEF ReadsInv
<1>2. ReadsTypes
  BY DEF ReadsInv
<1>3. table \in SUBSET (1 .. last) /\ table \subseteq Ids /\ IsFiniteSet(table)
  BY <1>2, ReadsFinite, ReadsAssumption DEF ReadsTypes, Ids
<1>4. ReadsTypes'
  <2>1. crossed' \in BOOLEAN
    BY <1>1, <1>2, Zenon DEF ReadsTypes
  <2> QED
    BY <1>1, <1>2, <2>1 DEF ReadsTypes, Reads!Zero
<1>5. \A i \in table : i # o => ~Reads!Older(i, o) /\ (o > i => ts[o] < ts[i])
  <2> SUFFICES ASSUME NEW i \in table, i # o
               PROVE  ~Reads!Older(i, o) /\ (o > i => ts[o] < ts[i])
    OBVIOUS
  <2>1. Reads!Older(o, i)
    BY <1>1
  <2>2. i \in Ids /\ o \in Ids
    BY <1>3
  <2>3. /\ Reads!Older(i, o) <=> ts[i] < ts[o] \/ (ts[i] = ts[o] /\ i < o)
        /\ ts[i] \in Nat /\ ts[o] \in Nat
    BY <1>2, <2>2, OlderIs
  <2>4. Reads!Older(o, i) <=> ts[o] < ts[i] \/ (ts[o] = ts[i] /\ o < i)
    BY <1>2, <2>2, OlderIs
  <2> QED
    BY <2>1, <2>2, <2>3, <2>4 DEF Ids
<1>6. kind = "export" => ExportInv'
  <2> SUFFICES ASSUME kind = "export" PROVE ExportInv'
    OBVIOUS
  <2>1. ExportInv
    BY DEF ReadsInv
  <2>2. \A i : Reads!Row(i)' = Reads!Row(i)
    BY <1>1 DEF Reads!Row
  <2>3. pc = "rows" => Cardinality(seen \cup Reads!Ahead') <= CSVRows + arrivals
    <3> SUFFICES ASSUME pc = "rows" PROVE Cardinality(seen \cup Reads!Ahead') <= CSVRows + arrivals
      OBVIOUS
    <3>1. seen \cup Reads!Ahead' \in SUBSET (seen \cup Reads!Ahead)
      BY <1>1, <2>2 DEF Reads!Ahead, Reads!Match
    <3>2. seen \cup Reads!Ahead \in SUBSET (1 .. last)
      BY <1>2 DEF ReadsTypes, Reads!Ahead, Reads!Match
    <3>3. /\ Cardinality(seen \cup Reads!Ahead') \in Nat /\ Cardinality(seen \cup Reads!Ahead) \in Nat
          /\ Cardinality(seen \cup Reads!Ahead') <= Cardinality(seen \cup Reads!Ahead)
      BY <1>2, <3>1, <3>2, ReadsFinite
    <3> QED
      BY <1>2, <2>1, <3>3, ReadsAssumption DEF ExportInv, ReadsTypes
  <2> QED
    BY <1>1, <2>1, <2>2, <2>3 DEF ExportInv
<1>7. Undisturbed' => ListInv'
  <2> SUFFICES ASSUME Undisturbed' PROVE ListInv'
    OBVIOUS
  <2>1. ListInv
    BY <1>1 DEF ReadsInv, Undisturbed
  <2>2. ASSUME kind = "list", NEW i \in held'
        PROVE  (Reads!ShownBefore(i, Reads!Match))' = Reads!ShownBefore(i, Reads!Match)
    <3>1. i \in table /\ i # o
      BY <1>1, <1>2, <2>2 DEF ReadsTypes
    <3>2. {j \in Reads!Match' : Reads!Older(i, j)'} = {j \in Reads!Match : Reads!Older(i, j)}
      BY <1>1, <1>5, <3>1 DEF Reads!Match, Reads!Older, Reads!Before, Reads!Row
    <3> QED
      BY <1>1, <2>2, <3>2 DEF Reads!ShownBefore, Reads!NewerThan
  <2>3. CASE kind = "list"
    BY <1>1, <2>1, <2>2, <2>3 DEF ListInv
  <2>4. CASE kind = "asc" /\ pc \in {"rows", "total"}
    <3>1. Reads!Match' = Reads!Match
      BY <1>1, <1>2, <2>4 DEF Undisturbed, Reads!Match, ReadsTypes
    <3>2. \A i : (Reads!ShownBefore(i, Reads!Match))' = Reads!ShownBefore(i, Reads!Match)
      BY <1>1, <3>1 DEF Reads!ShownBefore, Reads!NewerThan, Reads!OlderThan, Reads!Older, Reads!Row
    <3> QED
      BY <1>1, <2>1, <3>2 DEF ListInv
  <2>5. CASE kind = "asc" /\ pc \notin {"rows", "total"}
    <3>1. pc = "idle" => cursor'.id = 0
      BY <1>1, <1>2 DEF ReadsTypes, Reads!Zero
    <3>2. Reads!Match' \in SUBSET (1 .. last')
      BY <1>4 DEF ReadsTypes, Reads!Match
    <3>3. ASSUME NEW i \in held' PROVE (Reads!ShownBefore(i, Reads!Match))' \in Nat
      <4>1. IsFiniteSet(Reads!Match')
        BY <1>1, <1>2, <3>2, ReadsFinite
      <4>2. /\ {j \in Reads!Match' : Reads!Older(i, j)'} \subseteq Reads!Match'
            /\ {j \in Reads!Match' : Reads!Older(j, i)'} \subseteq Reads!Match'
        OBVIOUS
      <4>3. /\ Reads!Cardinality({j \in Reads!Match' : Reads!Older(i, j)'}) \in Nat
            /\ Reads!Cardinality({j \in Reads!Match' : Reads!Older(j, i)'}) \in Nat
        BY <4>1, <4>2, MoreBefore
      <4> QED
        BY <4>3 DEF Reads!ShownBefore, Reads!NewerThan, Reads!OlderThan
    <3> QED
      BY <1>1, <2>1, <2>5, <3>1, <3>3 DEF ListInv
  <2> QED
    BY <1>1, <2>3, <2>4, <2>5 DEF Undisturbed
<1>8. kind = "audit" => AuditInv'
  <2> SUFFICES ASSUME kind = "audit" PROVE AuditInv'
    OBVIOUS
  <2>1. AuditInv
    BY DEF ReadsInv
  <2>2. ASSUME NEW i \in held'
        PROVE  (Reads!IdsAbove(i, table))' = Reads!IdsAbove(i, table)
    <3>1. i \in table /\ i # o
      BY <1>1, <1>2 DEF ReadsTypes
    <3>2. ~(o > i)
      <4>1. i < o => ts[i] <= ts[o]
        BY <2>1, <3>1 DEF AuditInv
      <4>2. ts[i] \in Nat /\ ts[o] \in Nat /\ i \in Nat /\ o \in Nat
        BY <1>2, <1>3, <3>1 DEF ReadsTypes, Ids
      <4> QED
        BY <1>5, <3>1, <4>1, <4>2
    <3>3. {j \in table' : j > i} = {j \in table : j > i}
      BY <1>1, <3>2
    <3> QED
      BY <3>3 DEF Reads!IdsAbove
  <2>3. Cardinality(table') <= Cardinality(table) /\ Cardinality(table') \in Nat /\ Cardinality(table) \in Nat
    BY <1>1, <1>3, FS_Subset, FS_CardinalityType
  <2>4. pc = "rows" /\ ~crossed => Cardinality(table') <= total
    BY <1>2, <2>1, <2>3 DEF AuditInv, ReadsTypes
  <2> QED
    BY <1>1, <2>1, <2>2, <2>4 DEF AuditInv
<1>9. kind = "stream" => StreamInv'
  <2> SUFFICES ASSUME kind = "stream" PROVE StreamInv'
    OBVIOUS
  <2>1. Reads!Match' \subseteq Reads!Match
    BY <1>1 DEF Reads!Match
  <2> QED
    BY <1>1, <2>1 DEF StreamInv, ReadsInv
<1> QED
  BY <1>1, <1>4, <1>6, <1>7, <1>8, <1>9 DEF ReadsInv

\* A batch, whoever reads.
LEMMA InsertKeeps ==
  ASSUME ReadsInv, NEW t \in ReadTimes, NEW hit \in BOOLEAN, Reads!InsertLogBatch(t, hit)
  PROVE  ReadsInv'
<1>1. ReadsTypes /\ ReadsTypes' /\ kind' = kind
  BY RowComes DEF ReadsInv
<1>2. kind = "export" => ExportInv'
  BY <1>1, InsertKeepsExport DEF ReadsInv
<1>3. Undisturbed' => ListInv'
  <2>1. Undisturbed' => Undisturbed
    BY <1>1 DEF Undisturbed, Reads!InsertLogBatch
  <2> QED
    BY <1>1, <2>1, InsertKeepsList DEF ReadsInv
<1>4. kind = "audit" => AuditInv'
  BY <1>1, InsertKeepsAudit DEF ReadsInv
<1>5. kind = "stream" => StreamInv'
  BY <1>1, InsertKeepsStream DEF ReadsInv
<1> QED
  BY <1>1, <1>2, <1>3, <1>4, <1>5 DEF ReadsInv

----------------------------------------------------------------------------
(* The readers. *)

\* Only rows that come and go change a rank.
LEMMA SameRows ==
  ASSUME UNCHANGED <<table, ts, hits, last, kind>>
  PROVE  /\ Reads!Match' = Reads!Match
         /\ \A i : /\ Reads!Row(i)' = Reads!Row(i)
                   /\ (Reads!ShownBefore(i, Reads!Match))' = Reads!ShownBefore(i, Reads!Match)
                   /\ (Reads!IdsAbove(i, table))' = Reads!IdsAbove(i, table)
BY DEF Reads!Match, Reads!Row, Reads!ShownBefore, Reads!NewerThan, Reads!OlderThan, Reads!IdsAbove, Reads!Older

\* The export begins: what is ahead is what was counted.
LEMMA CountKeeps ==
  ASSUME ReadsInv, Reads!Count
  PROVE  ReadsInv'
<1>1. /\ kind = "export" /\ pc = "idle" /\ pc' \in {"refused", "rows"}
      /\ pc' = "rows" => ~(Reads!Cardinality(Reads!Match) > CSVRows)
      /\ UNCHANGED <<table, ts, hits, last, kind, cursor, total, seen, twice, held, crossed, arrivals>>
  BY DEF Reads!Count, Reads!db, Reads!traced
<1>2. ReadsTypes /\ ExportInv /\ seen = {} /\ arrivals = 0
  BY <1>1 DEF ReadsInv, ReadsTypes
<1>3. ReadsTypes'
  BY <1>1, <1>2 DEF ReadsTypes
<1>4. Reads!Match' = Reads!Match /\ \A i : Reads!Row(i)' = Reads!Row(i)
  BY <1>1, SameRows
<1>5. pc' = "rows" => Cardinality(seen \cup Reads!Ahead') <= CSVRows + arrivals
  <2>1. Reads!Match \in SUBSET (1 .. last) /\ seen \cup Reads!Ahead' \in SUBSET Reads!Match
    BY <1>2, <1>4 DEF ReadsTypes, Reads!Match, Reads!Ahead
  <2>2. /\ Cardinality(Reads!Match) \in Nat /\ Cardinality(seen \cup Reads!Ahead') \in Nat
        /\ Cardinality(seen \cup Reads!Ahead') <= Cardinality(Reads!Match)
    BY <1>2, <2>1, ReadsFinite
  <2>3. Reads!Cardinality(Reads!Match) = Cardinality(Reads!Match)
    BY CountIs
  <2> QED
    BY <1>1, <1>2, <2>2, <2>3, ReadsAssumption
<1>6. ExportInv'
  BY <1>1, <1>2, <1>4, <1>5 DEF ExportInv
<1> QED
  BY <1>1, <1>3, <1>6 DEF ReadsInv, Undisturbed

\* Rows of a page are rows of the table.
LEMMA Given ==
  ASSUME ReadsTypes, NEW page \in SUBSET (1 .. last), Reads!Give(page),
         UNCHANGED <<table, ts, hits, last, kind, held, crossed, arrivals>>,
         cursor' \in [ts: Nat, id: Nat], total' \in Nat,
         pc' \in {"rows", "total", "refused", "cut", "done", "open"}
  PROVE  ReadsTypes'
BY DEF ReadsTypes, Reads!Give

\* A page of the export: the first rows ahead of the cursor, which goes to the last of them.
LEMMA ExportPageKeeps ==
  ASSUME ReadsInv, Reads!ExportPage
  PROVE  ReadsInv'
<1> DEFINE F == Reads!ListLogEntriesAfter
           A == Reads!Ahead
<1>1. /\ kind = "export" /\ pc = "rows" /\ Reads!Give(F)
      /\ cursor' = IF F = {} THEN cursor ELSE Reads!Row(Reads!Latest(F))
      /\ pc' = IF Reads!Cardinality(F) < PageRows THEN "done" ELSE "rows"
      /\ UNCHANGED <<table, ts, hits, last, kind, total, held, crossed, arrivals>>
  BY DEF Reads!ExportPage, Reads!db, Reads!traced
<1>2. ReadsTypes /\ ExportInv
  BY <1>1 DEF ReadsInv
<1>3. A \in SUBSET (1 .. last) /\ A \subseteq Reads!Match /\ A \subseteq Ids
  <2>1. A \subseteq Reads!Match /\ Reads!Match \subseteq table
    BY DEF Reads!Ahead, Reads!Match
  <2>2. table \subseteq 1 .. last /\ 1 .. last \subseteq Ids
    BY <1>2, ReadsAssumption DEF ReadsTypes, Ids
  <2> QED
    BY <2>1, <2>2
<1>4. Ordered(A, ByAge) /\ F = {i \in A : Rank(i, A, ByAge) < PageRows}
  <2>1. Ordered(A, ByAge) /\ \A i \in A : Reads!OlderThan(i, A) = Rank(i, A, ByAge)
    BY <1>2, <1>3, ReadOrders
  <2> QED
    BY <2>1 DEF Reads!ListLogEntriesAfter
<1>5. \A i, j \in A : <<i, j>> \in ByAge <=> Reads!Older(i, j)
  BY <1>3 DEF ByAge
<1>6. /\ F \in SUBSET A /\ Cardinality(F) \in Nat
      /\ \A i \in F, j \in A : <<j, i>> \in ByAge => j \in F
      /\ Cardinality(F) < PageRows => F = A
  BY <1>4, FirstPage, ReadsAssumption
<1>7. Reads!Cardinality(F) = Cardinality(F)
  BY CountIs
<1> HIDE DEF F, A
<1>8. \A i \in A : Reads!Before(cursor, Reads!Row(i))
  BY DEF A, Reads!Ahead
<1>9. F # {} => Reads!Latest(F) \in F /\ \A j \in F : j = Reads!Latest(F) \/ Reads!Older(j, Reads!Latest(F))
  <2> SUFFICES ASSUME F # {}
               PROVE  \E i \in F : \A j \in F : j = i \/ Reads!Older(j, i)
    BY DEF Reads!Latest
  <2> DEFINE O == {e \in Ids \X Ids : Reads!Older(e[2], e[1])}
  <2>1. Ordered(F, ByNews)
    BY <1>2, <1>3, <1>6, ReadOrders
  <2>2. \E i \in F : \A j \in F : j = i \/ <<i, j>> \in ByNews
    BY <2>1, HasFirstRow, Zenon
  <2>3. \A i, j \in F : <<i, j>> \in ByNews => Reads!Older(j, i)
    BY DEF ByNews
  <2> QED
    BY <2>2, <2>3
<1>10. \A i, j \in Ids : /\ Reads!Before(Reads!Row(i), Reads!Row(j)) <=> Reads!Older(i, j)
                         /\ Reads!Older(i, j) => ~Reads!Older(j, i)
                         /\ ~Reads!Older(i, i)
                         /\ i = j \/ Reads!Older(i, j) \/ Reads!Older(j, i)
  <2>1. \A i, j \in Ids : Reads!Before(Reads!Row(i), Reads!Row(j)) <=> Reads!Older(i, j)
    BY DEF Reads!Older
  <2>2. \A i, j \in Ids : /\ Reads!Older(i, j) <=> ts[i] < ts[j] \/ (ts[i] = ts[j] /\ i < j)
                          /\ ts[i] \in Nat /\ ts[j] \in Nat
    BY <1>2, OlderIs
  <2>3. Ids \subseteq Nat
    BY DEF Ids
  <2> QED
    BY <2>1, <2>2, <2>3
<1>11. cursor' \in [ts: Nat, id: Nat] /\ \A i \in Ids : Reads!Row(i) \in [ts: Nat, id: Nat]
  <2>1. \A i \in Ids : Reads!Row(i) \in [ts: Nat, id: Nat]
    BY <1>2 DEF Reads!Row, ReadsTypes, Ids
  <2> QED
    BY <1>1, <1>2, <1>3, <1>6, <1>9, <2>1 DEF ReadsTypes
<1>12. ReadsTypes'
  BY <1>1, <1>2, <1>3, <1>6, <1>11, Given DEF ReadsTypes
<1>13. seen \subseteq Ids /\ held \subseteq Reads!Match /\ Reads!Match \subseteq Ids
  BY <1>2, ReadsAssumption DEF ReadsTypes, Reads!Match, Ids
<1>14. \A i \in Ids : Reads!Before(cursor, Reads!Row(i)) /\ i \in Reads!Match => i \in A
  BY DEF A, Reads!Ahead
<1>15. ~twice' /\ seen' = seen \cup F
  BY <1>1, <1>2, <1>6, <1>8, <1>13 DEF Reads!Give, ExportInv
<1>16. \A i \in seen' : ~Reads!Before(cursor', Reads!Row(i))
  <2>1. CASE F = {}
    BY <1>1, <1>2, <1>15, <2>1 DEF ExportInv
  <2>2. CASE F # {}
    <3> DEFINE l == Reads!Latest(F)
    <3>1. l \in F /\ l \in A /\ l \in Ids /\ cursor' = Reads!Row(l) /\ \A j \in F : j = l \/ Reads!Older(j, l)
      BY <1>1, <1>3, <1>6, <1>9, <2>2
    <3> HIDE DEF l
    <3>2. ASSUME NEW i \in F PROVE ~Reads!Before(cursor', Reads!Row(i))
      BY <1>3, <1>6, <1>10, <3>1
    <3>3. ASSUME NEW i \in seen PROVE ~Reads!Before(cursor', Reads!Row(i))
      <4>1. /\ ~Reads!Before(cursor, Reads!Row(i)) /\ Reads!Before(cursor, Reads!Row(l))
            /\ cursor \in [ts: Nat, id: Nat] /\ Reads!Row(i) \in [ts: Nat, id: Nat]
            /\ Reads!Row(l) \in [ts: Nat, id: Nat]
        BY <1>2, <1>8, <1>11, <1>13, <3>1 DEF ExportInv, ReadsTypes
      <4>2. ~Reads!Before(Reads!Row(l), Reads!Row(i))
        <5> DEFINE r == Reads!Row(i)
                   q == Reads!Row(l)
        <5>1. r.ts \in Nat /\ r.id \in Nat /\ q.ts \in Nat /\ q.id \in Nat /\ cursor.ts \in Nat /\ cursor.id \in Nat
          BY <4>1
        <5>2. ~Reads!Before(cursor, r) /\ Reads!Before(cursor, q)
          BY <4>1
        <5> HIDE DEF r, q
        <5>3. ~Reads!Before(q, r)
          BY <5>1, <5>2 DEF Reads!Before
        <5> QED
          BY <5>3 DEF r, q
      <4> QED
        BY <3>1, <4>2
    <3> QED
      BY <1>15, <3>2, <3>3
  <2> QED
    BY <2>1, <2>2
<1>17. \A i \in held : i \in seen' \/ (pc' = "rows" /\ Reads!Before(cursor', Reads!Row(i)))
  <2> SUFFICES ASSUME NEW i \in held, i \notin seen'
               PROVE  pc' = "rows" /\ Reads!Before(cursor', Reads!Row(i))
    OBVIOUS
  <2>1. i \in A /\ i \notin F /\ i \in Ids
    BY <1>1, <1>2, <1>13, <1>14, <1>15 DEF ExportInv
  <2>2. pc' = "rows" /\ Cardinality(F) >= PageRows
    BY <1>1, <1>6, <1>7, <2>1, ReadsAssumption
  <2>3. F # {}
    BY <2>2, FS_EmptySet, ReadsAssumption
  <2> DEFINE l == Reads!Latest(F)
  <2>4. l \in F /\ l \in A /\ l \in Ids /\ cursor' = Reads!Row(l)
    BY <1>1, <1>3, <1>6, <1>9, <2>3
  <2> HIDE DEF l
  <2>5. ~Reads!Older(i, l) /\ i # l
    BY <1>5, <1>6, <2>1, <2>4
  <2>6. Reads!Before(Reads!Row(l), Reads!Row(i))
    BY <1>10, <2>1, <2>4, <2>5
  <2> QED
    BY <2>2, <2>4, <2>6
<1>18. seen' \cup Reads!Ahead' \in SUBSET (seen \cup A)
  <2>1. ASSUME NEW i \in Reads!Ahead' PROVE i \in A
    <3>1. i \in Reads!Match /\ Reads!Before(cursor', Reads!Row(i)) /\ i \in Ids
      BY <1>1, <1>13, <2>1, SameRows DEF Reads!Ahead
    <3>2. CASE F = {}
      BY <1>1, <1>14, <3>1, <3>2
    <3>3. CASE F # {}
      <4> DEFINE l == Reads!Latest(F)
                 r == Reads!Row(i)
                 q == Reads!Row(l)
      <4>1. l \in A /\ l \in Ids /\ cursor' = q
        BY <1>1, <1>3, <1>6, <1>9, <3>3
      <4>2. Reads!Before(cursor, q) /\ Reads!Before(q, r)
        BY <1>8, <3>1, <4>1
      <4>3. r.ts \in Nat /\ r.id \in Nat /\ q.ts \in Nat /\ q.id \in Nat /\ cursor.ts \in Nat /\ cursor.id \in Nat
        BY <1>2, <1>11, <3>1, <4>1 DEF ReadsTypes
      <4> HIDE DEF l, r, q
      <4>4. Reads!Before(cursor, r)
        BY <4>2, <4>3 DEF Reads!Before
      <4> QED
        BY <1>14, <3>1, <4>4 DEF r
    <3> QED
      BY <3>2, <3>3
  <2> QED
    BY <1>6, <1>15, <2>1
<1>19. /\ Cardinality(seen' \cup Reads!Ahead') <= CSVRows + arrivals
       /\ Cardinality(seen') <= CSVRows + arrivals
  <2>1. seen \cup A \in SUBSET (1 .. last) /\ seen' \in SUBSET (seen \cup A)
    BY <1>2, <1>3, <1>6, <1>15 DEF ReadsTypes
  <2>2. Cardinality(seen \cup A) <= CSVRows + arrivals
    BY <1>1, <1>2 DEF ExportInv, A
  <2>3. /\ Cardinality(seen \cup A) \in Nat
        /\ Cardinality(seen' \cup Reads!Ahead') \in Nat /\ Cardinality(seen') \in Nat
        /\ Cardinality(seen' \cup Reads!Ahead') <= Cardinality(seen \cup A)
        /\ Cardinality(seen') <= Cardinality(seen \cup A)
    BY <1>2, <1>18, <2>1, ReadsFinite
  <2>4. CSVRows + arrivals \in Nat
    BY <1>2, ReadsAssumption DEF ReadsTypes
  <2> QED
    BY <2>2, <2>3, <2>4
<1>20. \A i : Reads!Row(i)' = Reads!Row(i)
  BY <1>1, SameRows
<1>21. ExportInv'
  BY <1>1, <1>15, <1>16, <1>17, <1>19, <1>20 DEF ExportInv
<1> QED
  BY <1>1, <1>12, <1>21 DEF ReadsInv, Undisturbed


\* A page that fails ends the file.
LEMMA ExportFailsKeeps ==
  ASSUME ReadsInv, Reads!ExportFails
  PROVE  ReadsInv'
<1>1. /\ kind = "export" /\ pc = "rows" /\ pc' = "cut"
      /\ UNCHANGED <<table, ts, hits, last, kind, cursor, total, seen, twice, held, crossed, arrivals>>
  BY DEF Reads!ExportFails, Reads!db, Reads!traced
<1>2. \A i : Reads!Row(i)' = Reads!Row(i)
  BY <1>1, SameRows
<1>3. ReadsTypes'
  BY <1>1 DEF ReadsInv, ReadsTypes
<1>4. ExportInv'
  BY <1>1, <1>2 DEF ReadsInv, ExportInv
<1> QED
  BY <1>1, <1>3, <1>4 DEF ReadsInv, Undisturbed

\* The rows of the logs page from the offset on.
LEMMA ListRowsKeeps ==
  ASSUME ReadsInv, Reads!ListRows
  PROVE  ReadsInv'
<1> DEFINE F == Reads!ListLogEntries
           M == Reads!Match
<1>1. /\ kind \in {"list", "asc"} /\ pc \in {"idle", "rows"} /\ pc' = "total" /\ Reads!Give(F)
      /\ total' = cursor.id + Reads!Cardinality(F)
      /\ UNCHANGED <<table, ts, hits, last, kind, cursor, held, crossed, arrivals>>
  BY DEF Reads!ListRows, Reads!db, Reads!traced
<1>2. ReadsTypes /\ (Undisturbed => ListInv) /\ cursor.id \in Nat
  BY <1>1 DEF ReadsInv, ReadsTypes
<1>3. M \in SUBSET (1 .. last) /\ held \subseteq M
  BY <1>2 DEF ReadsTypes, Reads!Match
<1>4. Ordered(M, Shown) /\ \A i \in M : Reads!ShownBefore(i, M) = Rank(i, M, Shown)
  BY <1>2, <1>3, ReadOrders
<1>5. F = Band(M, Shown, cursor.id, PageRows)
  BY <1>4 DEF Reads!ListLogEntries, Band
<1>6. Reads!Cardinality(F) \in Nat /\ Reads!Cardinality(F) <= PageRows
  BY <1>2, <1>4, <1>5, PageSize, CountIs, ReadsAssumption
<1>7. F \in SUBSET (1 .. last) /\ \A i \in M : Rank(i, M, Shown) \in Nat
  BY <1>3, <1>4, <1>5, Ranks DEF Band
<1> HIDE DEF F
<1>8. ReadsTypes'
  BY <1>1, <1>2, <1>6, <1>7, Given DEF ReadsTypes
<1>9. ASSUME Undisturbed, NEW i \in held \ seen'
      PROVE  Reads!ShownBefore(i, M) >= cursor.id + PageRows
  <2>1. i \in M /\ i \notin seen /\ i \notin F /\ i \in held
    BY <1>1, <1>3, <1>9 DEF Reads!Give
  <2>2. Reads!ShownBefore(i, M) >= cursor.id /\ Reads!ShownBefore(i, M) = Rank(i, M, Shown)
    BY <1>1, <1>2, <1>4, <1>9, <2>1 DEF ListInv
  <2>3. Rank(i, M, Shown) \notin cursor.id .. cursor.id + PageRows - 1 /\ Rank(i, M, Shown) \in Nat
    BY <1>5, <1>7, <2>1 DEF Band, Reads!Window
  <2> QED
    BY <1>2, <2>2, <2>3, ReadsAssumption
<1>10. total' <= cursor.id + PageRows
  BY <1>1, <1>2, <1>6, ReadsAssumption
<1>11. \A i : (Reads!ShownBefore(i, Reads!Match))' = Reads!ShownBefore(i, M)
  BY <1>1, SameRows
<1>12. Undisturbed' => ListInv'
  BY <1>1, <1>9, <1>10, <1>11 DEF ListInv, Undisturbed
<1> QED
  BY <1>1, <1>8, <1>12 DEF ReadsInv

\* And the count: at the end no row is past the offset and the page.
LEMMA ListTotalKeeps ==
  ASSUME ReadsInv, Reads!ListTotal
  PROVE  ReadsInv'
<1> DEFINE M == Reads!Match
<1>1. /\ kind \in {"list", "asc"} /\ pc = "total"
      /\ \/ total < Reads!Cardinality(M) /\ pc' = "rows" /\ cursor' = [cursor EXCEPT !.id = @ + PageRows]
         \/ ~(total < Reads!Cardinality(M)) /\ pc' = "done" /\ cursor' = cursor
      /\ UNCHANGED <<table, ts, hits, last, kind, total, seen, twice, held, crossed, arrivals>>
  BY DEF Reads!ListTotal, Reads!db, Reads!traced
<1>2. ReadsTypes /\ (Undisturbed => ListInv) /\ cursor \in [ts: Nat, id: Nat] /\ total \in Nat
  BY <1>1 DEF ReadsInv, ReadsTypes
<1>3. cursor' \in [ts: Nat, id: Nat] /\ cursor'.id = (IF pc' = "rows" THEN cursor.id + PageRows ELSE cursor.id)
  BY <1>1, <1>2, ReadsAssumption
<1>4. ReadsTypes'
  BY <1>1, <1>2, <1>3 DEF ReadsTypes
<1>5. Undisturbed => \A i \in held \ seen : Reads!ShownBefore(i, M) >= cursor.id + PageRows
  BY <1>1, <1>2 DEF ListInv
<1>6. ASSUME Undisturbed, pc' = "done" PROVE held \subseteq seen
  <2> SUFFICES ASSUME NEW i \in held \ seen PROVE FALSE
    OBVIOUS
  <2>1. M \in SUBSET (1 .. last) /\ i \in M
    BY <1>2 DEF ReadsTypes, Reads!Match
  <2>2. Ordered(M, Shown) /\ Reads!ShownBefore(i, M) = Rank(i, M, Shown)
    BY <1>2, <2>1, ReadOrders
  <2>3. Rank(i, M, Shown) < Cardinality(M) /\ Rank(i, M, Shown) \in Nat /\ Cardinality(M) \in Nat
    BY <2>1, <2>2, Ranks, SubOrder
  <2>4. Reads!Cardinality(M) = Cardinality(M)
    BY CountIs
  <2>5. ~(total < Cardinality(M)) /\ total <= cursor.id + PageRows
    BY <1>1, <1>2, <1>6, <2>4 DEF ListInv
  <2>6. Rank(i, M, Shown) >= cursor.id + PageRows
    BY <1>5, <1>6, <2>2
  <2> QED
    BY <1>2, <2>3, <2>5, <2>6, ReadsAssumption
<1>7. \A i : (Reads!ShownBefore(i, Reads!Match))' = Reads!ShownBefore(i, M)
  BY <1>1, SameRows
<1>8. Undisturbed' => ListInv'
  BY <1>1, <1>3, <1>5, <1>6, <1>7 DEF ListInv, Undisturbed
<1> QED
  BY <1>1, <1>4, <1>8 DEF ReadsInv

\* The audit page's count of all the rows.
LEMMA AuditTotalKeeps ==
  ASSUME ReadsInv, Reads!AuditTotal
  PROVE  ReadsInv'
<1>1. /\ kind = "audit" /\ pc \in {"idle", "total"} /\ pc' = "rows" /\ total' = Reads!Cardinality(table)
      /\ UNCHANGED <<table, ts, hits, last, kind, cursor, seen, twice, held, crossed, arrivals>>
  BY DEF Reads!AuditTotal, Reads!db, Reads!traced
<1>2. ReadsTypes /\ AuditInv
  BY <1>1 DEF ReadsInv
<1>3. total' = Cardinality(table)
  BY <1>1, CountIs
<1>4. Cardinality(table) \in Nat /\ table' = table
  BY <1>1, <1>2, ReadsFinite DEF ReadsTypes
<1>5. ReadsTypes'
  BY <1>1, <1>2, <1>3, <1>4 DEF ReadsTypes
<1>6. \A i : (Reads!IdsAbove(i, table))' = Reads!IdsAbove(i, table)
  BY <1>1, SameRows
<1>7. AuditInv'
  BY <1>1, <1>2, <1>3, <1>4, <1>6 DEF AuditInv
<1> QED
  BY <1>1, <1>5, <1>7 DEF ReadsInv, Undisturbed

\* Its rows: of those read, every hit among the first of the offset is shown.
LEMMA AuditPageKeeps ==
  ASSUME ReadsInv, Reads!AuditPage
  PROVE  ReadsInv'
<1> DEFINE F == Reads!AuditRows
           R == Reads!AuditRead
<1>1. /\ kind = "audit" /\ pc = "rows" /\ Reads!Give(F)
      /\ \/ cursor.id + PageRows < total /\ pc' = "total" /\ cursor' = [cursor EXCEPT !.id = @ + PageRows]
         \/ ~(cursor.id + PageRows < total) /\ pc' = "done" /\ cursor' = cursor
      /\ UNCHANGED <<table, ts, hits, last, kind, total, held, crossed, arrivals>>
  BY DEF Reads!AuditPage, Reads!db, Reads!traced
<1>2. ReadsTypes /\ AuditInv /\ cursor \in [ts: Nat, id: Nat] /\ total \in Nat
  BY <1>1 DEF ReadsInv, ReadsTypes
<1>3. cursor' \in [ts: Nat, id: Nat] /\ cursor'.id = (IF pc' = "total" THEN cursor.id + PageRows ELSE cursor.id)
  BY <1>1, <1>2, ReadsAssumption
<1>4. table \in SUBSET (1 .. last) /\ held \subseteq table /\ held \subseteq hits
  BY <1>2 DEF ReadsTypes
<1>5. R \in SUBSET table /\ F \in SUBSET table
  BY DEF Reads!AuditRows, Reads!AuditRead
<1>6. ReadsTypes'
  BY <1>1, <1>2, <1>3, <1>4, <1>5, Given DEF ReadsTypes
<1>7. /\ Ordered(table, Downward) /\ Ordered(R, Downward)
      /\ \A i \in table : Reads!IdsAbove(i, table) = Rank(i, table, Downward)
      /\ \A i \in R : Reads!IdsAbove(i, R) = Rank(i, R, Downward)
  BY <1>2, <1>4, <1>5, ReadOrders
<1>8. \A i, j \in table : <<i, j>> \in Downward <=> i > j
  BY <1>2, <1>4, ReadsAssumption DEF Downward, Ids, ReadsTypes
<1>9. ASSUME NEW i \in held \ seen'
      PROVE  Reads!IdsAbove(i, table) >= cursor.id + PageRows
  <2> DEFINE n == Rank(i, table, Downward)
  <2>1. i \in table /\ i \in hits /\ i \in held \ seen /\ i \notin F
    BY <1>1, <1>4, <1>9 DEF Reads!Give
  <2>2. n \in Nat /\ n = Reads!IdsAbove(i, table) /\ n >= cursor.id /\ cursor.id \in Nat
    BY <1>1, <1>2, <1>7, <2>1, Ranks DEF AuditInv
  <2>3. ASSUME n < cursor.id + PageRows PROVE FALSE
    <3>1. WidePages * PageRows \in Nat /\ WidePages * PageRows >= PageRows
      <4>1. WidePages \in Nat /\ PageRows \in Nat /\ WidePages >= 1
        BY ReadsAssumption
      <4> QED
        BY <4>1
    <3>2. n \in cursor.id .. cursor.id + WidePages * PageRows - 1
      BY <2>2, <2>3, <3>1, ReadsAssumption
    <3>3. i \in R
      BY <1>7, <2>1, <3>2 DEF Reads!AuditRead, Reads!Window
    <3> DEFINE B == Band(table, Downward, cursor.id, n - cursor.id)
    <3>4. Prior(i, R, Downward) \subseteq B
      <4> SUFFICES ASSUME NEW j \in Prior(i, R, Downward) PROVE j \in B
        OBVIOUS
      <4>1. j \in R /\ j \in table /\ <<j, i>> \in Downward
        BY <1>5 DEF Prior
      <4>2. Rank(j, table, Downward) < n /\ Rank(j, table, Downward) \in Nat
        BY <1>7, <2>1, <4>1, Ranks
      <4>3. Rank(j, table, Downward) >= cursor.id
        BY <1>7, <2>2, <3>1, <4>1 DEF Reads!AuditRead, Reads!Window
      <4>4. Rank(j, table, Downward) \in cursor.id .. cursor.id + (n - cursor.id) - 1
        BY <2>2, <4>2, <4>3
      <4> QED
        BY <4>1, <4>4 DEF Band, Reads!Window
    <3>5. n - cursor.id \in Nat
      BY <2>2
    <3>6. Cardinality(B) <= n - cursor.id /\ Cardinality(B) \in Nat
      BY <1>7, <2>2, <3>5, PageSize
    <3>7. IsFiniteSet(B)
      <4>1. B \subseteq table
        BY DEF Band
      <4>2. IsFiniteSet(table)
        BY <1>7 DEF Ordered
      <4> QED
        BY <4>1, <4>2, FS_Subset
    <3> HIDE DEF B
    <3>8. Cardinality(Prior(i, R, Downward)) <= Cardinality(B)
      BY <3>4, <3>7, FS_Subset
    <3>9. Rank(i, R, Downward) \in Nat
      BY <1>7, <3>3, Ranks
    <3>10. Rank(i, R, Downward) <= n - cursor.id
      BY <2>2, <3>6, <3>8, <3>9 DEF Rank
    <3>11. Rank(i, R, Downward) < PageRows
      BY <2>2, <2>3, <3>9, <3>10, ReadsAssumption
    <3> QED
      BY <1>7, <2>1, <3>3, <3>11 DEF Reads!AuditRows
  <2> QED
    BY <2>2, <2>3, ReadsAssumption
<1>10. ASSUME pc' = "done", ~crossed PROVE held \subseteq seen'
  <2> SUFFICES ASSUME NEW i \in held \ seen' PROVE FALSE
    OBVIOUS
  <2>1. Reads!IdsAbove(i, table) >= cursor.id + PageRows
    BY <1>9
  <2>2. Rank(i, table, Downward) < Cardinality(table) /\ Rank(i, table, Downward) \in Nat
        /\ Cardinality(table) \in Nat /\ Reads!IdsAbove(i, table) = Rank(i, table, Downward)
    BY <1>4, <1>7, Ranks, SubOrder
  <2>3. Cardinality(table) <= total /\ ~(cursor.id + PageRows < total)
    BY <1>1, <1>2, <1>10 DEF AuditInv
  <2> QED
    BY <1>2, <2>1, <2>2, <2>3, ReadsAssumption
<1>11. \A i : (Reads!IdsAbove(i, table))' = Reads!IdsAbove(i, table)
  BY <1>1, SameRows
<1>12. pc' \in {"total", "done"}
  BY <1>1
<1> HIDE DEF F, R
<1>13. AuditInv'
  BY <1>1, <1>2, <1>3, <1>9, <1>10, <1>11, <1>12 DEF AuditInv
<1> QED
  BY <1>1, <1>6, <1>13 DEF ReadsInv, Undisturbed


\* The stream begins at the largest id there is.
LEMMA FollowKeeps ==
  ASSUME ReadsInv, Reads!Follow
  PROVE  ReadsInv'
<1> DEFINE m == Reads!Max(table \cup {0})
<1>1. /\ kind = "stream" /\ pc = "idle" /\ pc' = "open" /\ held' = {}
      /\ cursor' = [Reads!Zero EXCEPT !.id = m] /\ total' = cursor'.id
      /\ UNCHANGED <<table, ts, hits, last, kind, seen, twice, crossed, arrivals>>
  BY DEF Reads!Follow, Reads!db
<1>2. ReadsTypes /\ StreamInv /\ seen = {}
  BY <1>1 DEF ReadsInv, ReadsTypes
<1>3. m \in table \cup {0}
  <2>1. table \in SUBSET (1 .. last) /\ table \cup {0} \in SUBSET Nat
    BY <1>2 DEF ReadsTypes
  <2>2. IsFiniteSet(table)
    BY <1>2, <2>1, ReadsFinite
  <2>3. IsFiniteSet(table \cup {0})
    BY <2>2, FS_AddElement
  <2> QED
    BY <2>1, <2>3, LargestId
<1>4. m \in Nat /\ m <= last
  <2>1. last \in Nat /\ table \subseteq 1 .. last
    BY <1>2 DEF ReadsTypes
  <2>2. \A i \in table \cup {0} : i \in Nat /\ i <= last
    BY <2>1
  <2> HIDE DEF m
  <2> QED
    BY <1>3, <2>2
<1> HIDE DEF m
<1>5. cursor' \in [ts: Nat, id: Nat] /\ cursor'.id = m /\ total' = m
  BY <1>1, <1>4 DEF Reads!Zero
<1>6. ReadsTypes'
  BY <1>1, <1>2, <1>4, <1>5 DEF ReadsTypes
<1>7. StreamInv'
  <2>1. ~twice' /\ cursor'.id <= last' /\ seen' = {}
    BY <1>1, <1>2, <1>4, <1>5 DEF StreamInv
  <2>2. (Reads!Match)' \subseteq Nat
    BY <1>6 DEF Reads!Match, ReadsTypes
  <2>3. \A i \in (Reads!Match)' : ~(total' < i /\ i <= cursor'.id)
    BY <1>4, <1>5, <2>2
  <2> QED
    BY <2>1, <2>3 DEF StreamInv
<1> QED
  BY <1>1, <1>6, <1>7 DEF ReadsInv, Undisturbed

\* A poll: the first rows past the cursor, which goes to the largest id of them.
LEMMA PollKeeps ==
  ASSUME ReadsInv, Reads!Poll
  PROVE  ReadsInv'
<1> DEFINE F == Reads!StreamLogEntries
           A == Reads!Arrived
           m == Reads!Max(F \cup {cursor.id})
<1>1. /\ kind = "stream" /\ pc = "open" /\ Reads!Give(F)
      /\ cursor' = [cursor EXCEPT !.id = m]
      /\ UNCHANGED <<table, ts, hits, last, kind, pc, total, held, crossed, arrivals>>
  BY DEF Reads!Poll, Reads!db, Reads!traced
<1>2. ReadsTypes /\ StreamInv /\ cursor \in [ts: Nat, id: Nat] /\ cursor.id \in Nat /\ last \in Nat
  BY <1>1 DEF ReadsInv, ReadsTypes
<1>3. A \in SUBSET (1 .. last) /\ F \in SUBSET A
  <2>1. A \subseteq table /\ F \subseteq A
    BY DEF Reads!Arrived, Reads!Match, Reads!StreamLogEntries
  <2> QED
    BY <1>2, <2>1 DEF ReadsTypes
<1>4. Ordered(A, Upward) /\ \A i \in A : Reads!IdsBelow(i, A) = Rank(i, A, Upward)
  BY <1>2, <1>3, ReadOrders
<1>5. F = {i \in A : Rank(i, A, Upward) < PageRows}
  BY <1>4 DEF Reads!StreamLogEntries
<1>6. \A i \in F, j \in A : <<j, i>> \in Upward => j \in F
  BY <1>4, <1>5, FirstPage, ReadsAssumption
<1>7. \A i, j \in A : i < j => <<i, j>> \in Upward
  BY <1>2, <1>3, ReadsAssumption DEF Upward, Ids, ReadsTypes
<1>8. \A i \in A : i > cursor.id /\ i \in Reads!Match
  BY DEF Reads!Arrived
<1>9. \A i \in Reads!Match : i > cursor.id => i \in A
  BY DEF Reads!Arrived
<1> HIDE DEF F, A
<1>10. m \in F \cup {cursor.id} /\ \A i \in F \cup {cursor.id} : i <= m
  <2>1. F \cup {cursor.id} \in SUBSET Nat
    <3>1. cursor.id \in Nat /\ F \subseteq 1 .. last /\ last \in Nat
      BY <1>2, <1>3
    <3>2. 1 .. last \subseteq Nat
      BY <3>1
    <3> QED
      BY <3>1, <3>2
  <2>2. IsFiniteSet(F)
    BY <1>2, <1>3, ReadsFinite
  <2>3. IsFiniteSet(F \cup {cursor.id})
    BY <2>2, FS_AddElement
  <2> QED
    BY <2>1, <2>3, LargestId
<1>11. m \in Nat /\ m <= last /\ cursor.id <= m
  <2>1. F \subseteq 1 .. last /\ cursor.id \in Nat /\ last \in Nat /\ cursor.id <= last
    BY <1>2, <1>3 DEF StreamInv
  <2>2. \A i \in F \cup {cursor.id} : i \in Nat /\ i <= last
    BY <2>1
  <2> HIDE DEF m
  <2> QED
    BY <1>10, <2>2
<1> HIDE DEF m
<1>12. cursor' \in [ts: Nat, id: Nat] /\ cursor'.id = m
  BY <1>1, <1>2, <1>11
<1>13. F \in SUBSET (1 .. last)
  BY <1>3
<1>14. ReadsTypes'
  BY <1>1, <1>2, <1>12, <1>13, Given DEF ReadsTypes
<1>15. ~twice' /\ seen' = seen \cup F
  <2>1. F \cap seen = {}
    BY <1>2, <1>3, <1>8 DEF StreamInv, ReadsTypes
  <2> QED
    BY <1>1, <1>2, <2>1 DEF Reads!Give, StreamInv
<1>16. \A i \in seen' : i <= m
  <2>1. \A i \in seen : i \in Nat /\ i <= cursor.id
    BY <1>2 DEF StreamInv, ReadsTypes
  <2>2. \A i \in seen : i <= m
    BY <1>2, <1>11, <2>1
  <2>3. \A i \in F : i <= m
    BY <1>10
  <2> QED
    BY <1>15, <2>2, <2>3
<1>17. ASSUME NEW i \in Reads!Match, total < i, i <= m
       PROVE  i \in seen'
  <2>1. i \in Nat
    BY <1>2 DEF ReadsTypes, Reads!Match
  <2>2. CASE i <= cursor.id
    BY <1>2, <1>15, <1>17, <2>2 DEF StreamInv
  <2>3. CASE ~(i <= cursor.id)
    <3>1. i \in A /\ m \in F /\ m \in A
      BY <1>2, <1>3, <1>9, <1>10, <1>17, <2>1, <2>3
    <3>2. i \in F
      <4>1. CASE i = m
        BY <3>1, <4>1
      <4>2. CASE i < m
        BY <1>6, <1>7, <3>1, <4>2
      <4> QED
        BY <1>11, <1>17, <2>1, <4>1, <4>2
    <3> QED
      BY <1>15, <3>2
  <2> QED
    BY <2>2, <2>3
<1>18. Reads!Match' = Reads!Match
  BY <1>1, SameRows
<1>19. StreamInv'
  BY <1>1, <1>11, <1>12, <1>15, <1>16, <1>17, <1>18 DEF StreamInv
<1> QED
  BY <1>1, <1>14, <1>19 DEF ReadsInv, Undisturbed

\* Every step of the reads.
LEMMA ReadsStepKeeps == ReadsInv /\ [Reads!Next]_Reads!vars => ReadsInv'
<1> SUFFICES ASSUME ReadsInv, [Reads!Next]_Reads!vars PROVE ReadsInv'
  OBVIOUS
<1>1. CASE UNCHANGED Reads!vars
  <2>1. UNCHANGED <<table, ts, hits, last, kind, pc, cursor, total, held, seen, twice, crossed, arrivals>>
    BY <1>1 DEF Reads!vars
  <2>2. /\ Reads!Match' = Reads!Match
        /\ \A i : /\ Reads!Row(i)' = Reads!Row(i)
                  /\ (Reads!ShownBefore(i, Reads!Match))' = Reads!ShownBefore(i, Reads!Match)
                  /\ (Reads!IdsAbove(i, table))' = Reads!IdsAbove(i, table)
    BY <2>1, SameRows
  <2>3. Reads!Ahead' = Reads!Ahead
    BY <2>1, <2>2 DEF Reads!Ahead
  <2>4. ReadsTypes'
    BY <2>1 DEF ReadsInv, ReadsTypes
  <2>5. kind = "export" => ExportInv'
    BY <2>1, <2>2, <2>3 DEF ReadsInv, ExportInv
  <2>6. Undisturbed' => ListInv'
    BY <2>1, <2>2 DEF ReadsInv, ListInv, Undisturbed
  <2>7. kind = "audit" => AuditInv'
    BY <2>1, <2>2 DEF ReadsInv, AuditInv
  <2>8. kind = "stream" => StreamInv'
    BY <2>1, <2>2 DEF ReadsInv, StreamInv
  <2> QED
    BY <2>1, <2>4, <2>5, <2>6, <2>7, <2>8 DEF ReadsInv
<1>2. ASSUME NEW t \in ReadTimes, NEW hit \in BOOLEAN, Reads!InsertLogBatch(t, hit)
      PROVE  ReadsInv'
  BY <1>2, InsertKeeps
<1>3. CASE Reads!DeleteOldest
  BY <1>3, DeleteKeeps
<1>4. CASE Reads!Count \/ Reads!ExportPage \/ Reads!ExportFails
  BY <1>4, CountKeeps, ExportPageKeeps, ExportFailsKeeps
<1>5. CASE Reads!ListRows \/ Reads!ListTotal
  BY <1>5, ListRowsKeeps, ListTotalKeeps
<1>6. CASE Reads!AuditTotal \/ Reads!AuditPage
  BY <1>6, AuditTotalKeeps, AuditPageKeeps
<1>7. CASE Reads!Follow \/ Reads!Poll
  BY <1>7, FollowKeeps, PollKeeps
<1> QED
  BY <1>1, <1>2, <1>3, <1>4, <1>5, <1>6, <1>7 DEF Reads!Next

\* WalksAreExact, for every value of the constants: whatever rows come and go
\* meanwhile, the export gives each row once, all that stayed, and no more than its
\* cap and what came since its count; the logs page, newest first or, without a purge
\* of its rows, oldest first, and, without rows between its count and its page, the
\* audit page show all that stayed; and the stream passes over nothing that came after
\* it began.
THEOREM WalksAreExactHolds == Reads!Spec => []WalksAreExact
<1>1. Reads!Init => ReadsInv
  BY ReadsInitHolds
<1>2. ReadsInv /\ [Reads!Next]_Reads!vars => ReadsInv'
  BY ReadsStepKeeps
<1>3. ReadsInv => WalksAreExact
  <2> SUFFICES ASSUME ReadsInv
               PROVE  /\ Reads!TypeOK /\ Reads!ExportIsExact /\ Reads!ListIsComplete
                      /\ Reads!AuditIsComplete /\ Reads!StreamIsExact
    BY DEF WalksAreExact
  <2>1. Reads!TypeOK
    <3>1. 1 .. last \subseteq Ids
      BY ReadsAssumption DEF ReadsInv, ReadsTypes, Ids
    <3> QED
      BY <3>1 DEF ReadsInv, ReadsTypes, Reads!TypeOK, Ids
  <2>2. Reads!Cardinality(seen) = Cardinality(seen)
    BY CountIs
  <2>3. Reads!ExportIsExact
    BY <2>2 DEF ReadsInv, ExportInv, Reads!ExportIsExact
  <2>4. Reads!ListIsComplete
    BY DEF ReadsInv, ListInv, Undisturbed, Reads!ListIsComplete
  <2>5. Reads!AuditIsComplete
    BY DEF ReadsInv, AuditInv, Reads!AuditIsComplete
  <2>6. Reads!StreamIsExact
    BY DEF ReadsInv, StreamInv, Reads!StreamIsExact
  <2> QED
    BY <2>1, <2>3, <2>4, <2>5, <2>6
<1> QED
  BY <1>1, <1>2, <1>3, PTL DEF Reads!Spec

----------------------------------------------------------------------------
(* The cache of the log pages.  An entry is of its key, and its rows are   *)
(* as old as the entry and the computation before it; an answer was an     *)
(* entry that was still live.                                              *)

CacheEntry == [age: Nat, op: Stats!Ops, filter: Stats!Filters, data: Nat]

\* An entry under key k.
EntryFits(k, e) ==
    /\ e \in CacheEntry /\ e.op = k.op /\ e.filter.window = k.window
    /\ e.data <= e.age + LoadTime

\* An answer to the request c.
AnswerFits(c) ==
    /\ c.got.op = c.op /\ c.got.filter.window = c.filter.window
    /\ c.got.data <= Stats!TTL[c.op] + LoadTime

Requested == [pc: {"idle", "get", "compute", "answered"}, op: Stats!Ops \cup {None},
              filter: Stats!Filters \cup {None}, got: CacheEntry \cup {None}, took: 0 .. LoadTime]

\* A request knows what it asks for until it is over.
CallFits(c) ==
    /\ c \in Requested
    /\ c.pc # "idle" => c.op \in Stats!Ops /\ c.filter \in Stats!Filters
    /\ c.pc = "answered" => AnswerFits(c)

StatsInv ==
    /\ DOMAIN entries = Stats!Keys /\ DOMAIN call = Callers
    /\ entries = [k \in Stats!Keys |-> entries[k]] /\ call = [p \in Callers |-> call[p]]
    /\ \A k \in Stats!Keys : entries[k] # None => EntryFits(k, entries[k])
    /\ \A p \in Callers : CallFits(call[p])

\* The lifetimes.
LEMMA Lifetimes ==
  /\ Stats!Ops = {"stats", "ts"} /\ \A op \in Stats!Ops : Stats!TTL[op] \in Nat
BY StatsAssumption DEF Stats!Ops, Stats!TTL

\* An empty cache, and nobody asks.
LEMMA StatsInitHolds == Stats!Init => StatsInv
<1> SUFFICES ASSUME Stats!Init PROVE StatsInv
  OBVIOUS
<1>1. CallFits(Stats!Idle)
  BY StatsAssumption DEF CallFits, Requested, Stats!Idle
<1> QED
  BY <1>1 DEF Stats!Init, StatsInv

\* One request goes on, to c, and the entries stay.
LEMMA OneCall ==
  ASSUME StatsInv, NEW p \in Callers, NEW c, CallFits(c),
         call' = [call EXCEPT ![p] = c], UNCHANGED entries
  PROVE  StatsInv'
<1>1. DOMAIN call' = Callers /\ call' = [q \in Callers |-> call'[q]]
  BY DEF StatsInv
<1>2. ASSUME NEW q \in Callers PROVE CallFits(call'[q])
  <2>1. call'[q] = c \/ call'[q] = call[q]
    BY DEF StatsInv
  <2> QED
    BY <2>1 DEF StatsInv
<1>3. DOMAIN entries' = Stats!Keys /\ entries' = [k \in Stats!Keys |-> entries'[k]]
      /\ \A k \in Stats!Keys : entries'[k] # None => EntryFits(k, entries'[k])
  BY DEF StatsInv
<1> QED
  BY <1>1, <1>2, <1>3 DEF StatsInv

\* Ask.
LEMMA AskKeeps ==
  ASSUME StatsInv, NEW p \in Callers, NEW op \in Stats!Ops, NEW f \in Stats!Filters,
         Stats!Ask(p, op, f)
  PROVE  StatsInv'
<1> DEFINE c == [Stats!Idle EXCEPT !.pc = "get", !.op = op, !.filter = f]
<1>0. Stats!Idle \in Requested
  BY StatsAssumption DEF Requested, Stats!Idle
<1>1. CallFits(c)
  BY <1>0 DEF CallFits, Requested
<1>2. call' = [call EXCEPT ![p] = c] /\ UNCHANGED entries
  BY DEF Stats!Ask
<1> QED
  BY <1>1, <1>2, OneCall

\* get: what is live under the request's own key is of its window, and recent.
LEMMA GetKeeps ==
  ASSUME StatsInv, NEW p \in Callers, Stats!get(p)
  PROVE  StatsInv'
<1> DEFINE r == call[p]
           k == Stats!cacheKey(r.op, r.filter)
           a == [r EXCEPT !.pc = "answered", !.got = entries[k]]
           m == [r EXCEPT !.pc = "compute"]
<1>1. r \in Requested /\ r.pc = "get" /\ r.op \in Stats!Ops /\ r.filter \in Stats!Filters
  BY DEF StatsInv, CallFits, Stats!get
<1>2. k \in Stats!Keys /\ k.op = r.op /\ k.window = r.filter.window
  BY <1>1 DEF Stats!cacheKey, Stats!Keys, Stats!Filters
<1>3. CASE Stats!Live(k, r.op)
  <2>1. EntryFits(k, entries[k]) /\ entries[k].age <= Stats!TTL[r.op]
    BY <1>2, <1>3 DEF StatsInv, Stats!Live
  <2>2. a \in Requested /\ a.pc = "answered" /\ a.op = r.op /\ a.filter = r.filter /\ a.got = entries[k]
    BY <1>1, <2>1 DEF Requested, EntryFits
  <2>3. entries[k].data <= Stats!TTL[r.op] + LoadTime
    BY <1>1, <2>1, Lifetimes, StatsAssumption DEF EntryFits, CacheEntry
  <2>4. CallFits(a)
    BY <1>1, <1>2, <2>1, <2>2, <2>3 DEF CallFits, AnswerFits, EntryFits
  <2>5. call' = [call EXCEPT ![p] = a] /\ UNCHANGED entries
    BY <1>3 DEF Stats!get, Stats!Answer, StatsInv
  <2> QED
    BY <2>4, <2>5, OneCall
<1>4. CASE ~Stats!Live(k, r.op)
  <2>1. CallFits(m)
    BY <1>1 DEF CallFits, Requested
  <2>2. call' = [call EXCEPT ![p] = m] /\ UNCHANGED entries
    BY <1>4 DEF Stats!get, StatsInv
  <2> QED
    BY <2>1, <2>2, OneCall
<1> QED
  BY <1>3, <1>4

\* put: the entry is of the request's key, and as old as the computation.
LEMMA PutKeeps ==
  ASSUME StatsInv, NEW p \in Callers, Stats!put(p)
  PROVE  StatsInv'
<1> DEFINE r == call[p]
           k == Stats!cacheKey(r.op, r.filter)
           e == [age |-> 0, op |-> r.op, filter |-> r.filter, data |-> r.took]
           a == [r EXCEPT !.pc = "answered", !.got = e]
           es == [entries EXCEPT ![k] = e]
<1>1. r \in Requested /\ r.pc = "compute" /\ r.op \in Stats!Ops /\ r.filter \in Stats!Filters
  BY DEF StatsInv, CallFits, Stats!put
<1>2. k \in Stats!Keys /\ k.op = r.op /\ k.window = r.filter.window
  BY <1>1 DEF Stats!cacheKey, Stats!Keys, Stats!Filters
<1>3. EntryFits(k, e)
  BY <1>1, <1>2, StatsAssumption DEF EntryFits, CacheEntry, Requested
<1>4. e.data <= Stats!TTL[r.op] + LoadTime
  BY <1>1, Lifetimes, StatsAssumption DEF Requested
<1>5. a \in Requested /\ a.pc = "answered" /\ a.op = r.op /\ a.filter = r.filter /\ a.got = e
  BY <1>1, <1>3 DEF Requested, EntryFits
<1>6. CallFits(a)
  BY <1>1, <1>4, <1>5 DEF CallFits, AnswerFits
<1>7. entries' = Stats!Evicted(es)
  BY DEF Stats!put, Stats!cacheKey
<1>8. call' = [call EXCEPT ![p] = a]
  BY DEF Stats!put, Stats!Answer, StatsInv
<1>9. DOMAIN es = Stats!Keys /\ \A j \in Stats!Keys : es[j] # None => EntryFits(j, es[j])
  BY <1>2, <1>3 DEF StatsInv
<1> HIDE DEF es, e, a
<1>10. /\ DOMAIN entries' = Stats!Keys /\ entries' = [j \in Stats!Keys |-> entries'[j]]
       /\ \A j \in Stats!Keys : entries'[j] = es[j] \/ entries'[j] = None
  BY <1>7, <1>9, <1>2 DEF Stats!Evicted, es, StatsInv
<1> QED
  BY <1>6, <1>8, <1>9, <1>10 DEF StatsInv

\* A request that is over.
LEMMA EndKeeps ==
  ASSUME StatsInv, NEW p \in Callers, Stats!ComputeFails(p) \/ Stats!Return(p)
  PROVE  StatsInv'
<1>1. CallFits(Stats!Idle)
  BY StatsAssumption DEF CallFits, Requested, Stats!Idle
<1>2. call' = [call EXCEPT ![p] = Stats!Idle] /\ UNCHANGED entries
  BY DEF Stats!ComputeFails, Stats!Return
<1> QED
  BY <1>1, <1>2, OneCall

\* An entry a tick later.
LEMMA EntryAges ==
  ASSUME NEW k, NEW e, EntryFits(k, e)
  PROVE  EntryFits(k, [e EXCEPT !.age = @ + 1, !.data = @ + 1])
<1> DEFINE m == [e EXCEPT !.age = @ + 1]
           n == [m EXCEPT !.data = @ + 1]
<1>1. e.age \in Nat /\ e.data \in Nat /\ e.data <= e.age + LoadTime /\ e \in CacheEntry
  BY DEF EntryFits, CacheEntry
<1>2. m \in CacheEntry /\ m.age = e.age + 1 /\ m.data = e.data /\ m.op = e.op /\ m.filter = e.filter
  BY <1>1 DEF CacheEntry
<1> HIDE DEF m
<1>3. n \in CacheEntry /\ n.age = m.age /\ n.data = m.data + 1 /\ n.op = m.op /\ n.filter = m.filter
  BY <1>1, <1>2 DEF CacheEntry
<1>4. n = [e EXCEPT !.age = @ + 1, !.data = @ + 1]
  BY <1>2 DEF m
<1> HIDE DEF n
<1>5. EntryFits(k, n)
  BY <1>1, <1>2, <1>3, StatsAssumption DEF EntryFits
<1> QED
  BY <1>4, <1>5

\* Time: an entry and its rows grow old together.
LEMMA StatsTickKeeps ==
  ASSUME StatsInv, Stats!Tick
  PROVE  StatsInv'
<1>1. ASSUME NEW k \in Stats!Keys, entries'[k] # None
      PROVE  EntryFits(k, entries'[k])
  <2>1. CASE entries[k] = None \/ entries[k].age > Stats!TTL[k.op]
    BY <1>1, <2>1 DEF Stats!Tick, StatsInv
  <2>2. CASE ~(entries[k] = None \/ entries[k].age > Stats!TTL[k.op])
    <3>1. entries'[k] = [entries[k] EXCEPT !.age = @ + 1, !.data = @ + 1]
      BY <2>2 DEF Stats!Tick
    <3>2. EntryFits(k, entries[k])
      BY <2>2 DEF StatsInv
    <3>3. EntryFits(k, [entries[k] EXCEPT !.age = @ + 1, !.data = @ + 1])
      BY <3>2, EntryAges, Zenon
    <3> QED
      BY <3>1, <3>3, Zenon
  <2> QED
    BY <2>1, <2>2
<1>2. ASSUME NEW p \in Callers
      PROVE  CallFits(call'[p])
  <2>1. CallFits(call[p]) /\ call[p].pc \in {"idle", "compute"} /\ call[p].took < LoadTime
    BY DEF StatsInv, Stats!Tick
  <2>2. CASE call[p].pc = "compute"
    <3>1. call'[p] = [call[p] EXCEPT !.took = @ + 1]
      BY <2>2 DEF Stats!Tick
    <3> QED
      BY <2>1, <2>2, <3>1, StatsAssumption DEF CallFits, Requested
  <2>3. CASE call[p].pc # "compute"
    BY <2>1, <2>3 DEF Stats!Tick
  <2> QED
    BY <2>2, <2>3
<1>3. /\ DOMAIN entries' = Stats!Keys /\ DOMAIN call' = Callers
      /\ entries' = [k \in Stats!Keys |-> entries'[k]] /\ call' = [p \in Callers |-> call'[p]]
  BY DEF Stats!Tick
<1> QED
  BY <1>1, <1>2, <1>3 DEF StatsInv

\* Every step of the cache.
LEMMA StatsStepKeeps == StatsInv /\ [Stats!Next]_Stats!vars => StatsInv'
<1> SUFFICES ASSUME StatsInv, [Stats!Next]_Stats!vars PROVE StatsInv'
  OBVIOUS
<1>1. CASE UNCHANGED Stats!vars
  BY <1>1 DEF StatsInv, Stats!vars
<1>2. ASSUME NEW p \in Callers, NEW op \in Stats!Ops, NEW f \in Stats!Filters, Stats!Ask(p, op, f)
      PROVE  StatsInv'
  BY <1>2, AskKeeps
<1>3. ASSUME NEW p \in Callers, Stats!get(p) PROVE StatsInv'
  BY <1>3, GetKeeps
<1>4. ASSUME NEW p \in Callers, Stats!put(p) PROVE StatsInv'
  BY <1>4, PutKeeps
<1>5. ASSUME NEW p \in Callers, Stats!ComputeFails(p) \/ Stats!Return(p) PROVE StatsInv'
  BY <1>5, EndKeeps
<1>6. CASE Stats!Tick
  BY <1>6, StatsTickKeeps
<1> QED
  BY <1>1, <1>2, <1>3, <1>4, <1>5, <1>6 DEF Stats!Next

\* AnswersFit, for every value of the constants: an answer from the cache is the
\* aggregate and the window that were asked for, from rows no older than the cache
\* keeps it and its computation took.
THEOREM AnswersFitHolds == Stats!Spec => []AnswersFit
<1>1. Stats!Init => StatsInv
  BY StatsInitHolds
<1>2. StatsInv /\ [Stats!Next]_Stats!vars => StatsInv'
  BY StatsStepKeeps
<1>3. StatsInv => AnswersFit
  <2> SUFFICES ASSUME StatsInv PROVE Stats!TypeOK /\ Stats!WindowIsOwn /\ Stats!AnswerIsRecent
    BY DEF AnswersFit
  <2>1. \A p \in Callers : CallFits(call[p])
    BY DEF StatsInv
  <2>2. Stats!TypeOK
    BY <2>1, StatsAssumption DEF Stats!TypeOK, CallFits, Requested
  <2> QED
    BY <2>1, <2>2 DEF Stats!WindowIsOwn, Stats!AnswerIsRecent, Stats!Answered, CallFits, AnswerFits
<1> QED
  BY <1>1, <1>2, <1>3, PTL DEF Stats!Spec
=============================================================================
