---------------------------- MODULE DatasetProofs ----------------------------
(* What ShardsProofs proves of the shard files holds while they are merged: *)
(* a merge only reads them, so a behaviour of Dataset is one of Shards.     *)
EXTENDS Dataset, FiniteSetTheorems, TLAPS

P == INSTANCE ShardsProofs

----------------------------------------------------------------------------
(* Recursion. *)

\* What holds at 0 and goes on from each number to the next holds up to n.
LEMMA Climb ==
  ASSUME NEW n \in Nat, NEW T, 0 \in T, \A k \in 1..n : k - 1 \in T => k \in T
  PROVE  \A k \in 0..n : k \in T
<1> DEFINE X == {k \in 0..n : k \notin T}
           Y == {0..x : x \in X}
<1>1. SUFFICES ASSUME X # {}
               PROVE  FALSE
  OBVIOUS
<1>2. Y \subseteq FiniteSubsetsOf(0..n) /\ Y # {}
  <2>1. \A x \in X : 0..x \in SUBSET (0..n)
    OBVIOUS
  <2>2. IsFiniteSet(0..n)
    BY FS_Interval
  <2> QED
    BY <1>1, <2>1, <2>2, FS_FiniteSubsetsOfFinite
<1>3. PICK U \in Y : \A V \in Y : ~ (<<V, U>> \in StrictSubsetOrdering(0..n))
  <2> HIDE DEF Y
  <2> QED
    BY <1>2, FS_StrictSubsetOrderingWellFounded, WFMin
<1>4. PICK x \in X : U = 0..x
  BY <1>3
<1>5. x \in 1..n /\ x - 1 \in 0..n
  OBVIOUS
<1>6. x - 1 \in X
  BY <1>5
<1>7. 0..(x - 1) \subseteq 0..x /\ x \in 0..x /\ x \notin 0..(x - 1) /\ 0..x \subseteq 0..n
  OBVIOUS
<1>8. <<0..(x - 1), U>> \in StrictSubsetOrdering(0..n)
  BY <1>4, <1>7 DEF StrictSubsetOrdering
<1> QED
  BY <1>3, <1>6, <1>8

Iterates(f, n, V, b, F) ==
    /\ f \in [0..n -> V]
    /\ f[0] = b
    /\ \A k \in 1..n : f[k] = F[<<f[k - 1], k>>]

\* A function defined by recursion on 0..n exists, when F takes it from each
\* value to the next.
LEMMA Recursion ==
  ASSUME NEW n \in Nat, NEW V, NEW b \in V, NEW F \in [V \X (1..n) -> V]
  PROVE  \E f : Iterates(f, n, V, b, F)
<1> DEFINE Upto(f, m) == f[0] = b /\ \A k \in 1..m : f[k] = F[<<f[k - 1], k>>]
           T == {m \in 0..n : \E f \in [0..m -> V] : Upto(f, m)}
<1>1. 0 \in T
  <2>1. [k \in 0..0 |-> b] \in [0..0 -> V] /\ Upto([k \in 0..0 |-> b], 0)
    OBVIOUS
  <2>2. \E f \in [0..0 -> V] : Upto(f, 0)
    BY <2>1, Zenon
  <2> QED
    BY <2>2
<1>2. ASSUME NEW m \in 1..n, m - 1 \in T
      PROVE  m \in T
  <2>1. PICK f \in [0..(m - 1) -> V] : Upto(f, m - 1)
    BY <1>2
  <2> DEFINE g == [k \in 0..m |-> IF k = m THEN F[<<f[m - 1], m>>] ELSE f[k]]
  <2>2. m - 1 \in 0..(m - 1) /\ \A k \in 0..m : k # m => k \in 0..(m - 1)
    OBVIOUS
  <2>3. g \in [0..m -> V]
    <3>1. F[<<f[m - 1], m>>] \in V
      BY <2>2
    <3> QED
      BY <2>2, <3>1
  <2>4. g[0] = b /\ g[m] = F[<<g[m - 1], m>>]
    <3>1. /\ 0 \in 0..m /\ m \in 0..m /\ m - 1 \in 0..m
          /\ 0 # m /\ m - 1 # m
      OBVIOUS
    <3> QED
      BY <2>1, <3>1
  <2>5. ASSUME NEW k \in 1..m, k # m
        PROVE  g[k] = F[<<g[k - 1], k>>]
    <3>1. k \in 1..(m - 1) /\ k - 1 \in 0..(m - 1) /\ k - 1 # m /\ k \in 0..m /\ k - 1 \in 0..m
      BY <2>5
    <3> QED
      BY <2>1, <2>5, <3>1
  <2>6. Upto(g, m)
    BY <2>4, <2>5
  <2> HIDE DEF g, Upto
  <2> QED
    BY <2>3, <2>6
<1> HIDE DEF T
<1>3. n \in T
  BY <1>1, <1>2, Climb
<1> QED
  BY <1>3 DEF T, Iterates

----------------------------------------------------------------------------
(* Reading a file. *)

NoneTwice(s) == \A i, j \in 1..Len(s) : s[i] = s[j] => i = j

LEMMA SetOfSequence ==
  ASSUME NEW R, NEW s \in Seq(R)
  PROVE  /\ ToSet(s) = {s[k] : k \in 1..Len(s)} /\ ToSet(s) \subseteq R
         /\ Len(s) \in Nat /\ DOMAIN s = 1..Len(s)
  BY DEF ToSet

LEMMA OneRowMore ==
  ASSUME NEW R, NEW s \in Seq(R), NEW x \in R
  PROVE  /\ Append(s, x) \in Seq(R)
         /\ ToSet(Append(s, x)) = ToSet(s) \cup {x}
         /\ NoneTwice(s) /\ x \notin ToSet(s) => NoneTwice(Append(s, x))
<1> DEFINE q == Append(s, x)
           n == Len(s)
<1>1. /\ q \in Seq(R) /\ n \in Nat /\ Len(q) = n + 1
      /\ \A k \in 1..n : q[k] = s[k]
      /\ q[n + 1] = x
  OBVIOUS
<1>2. \A k \in 1..(n + 1) : k \in 1..n \/ k = n + 1
  BY <1>1
<1>3. \A k \in 1..n : k \in 1..(n + 1)
  BY <1>1
<1>4. n + 1 \in 1..(n + 1)
  BY <1>1
<1>5. ToSet(q) = {q[k] : k \in 1..(n + 1)} /\ ToSet(s) = {s[k] : k \in 1..n}
  BY <1>1, SetOfSequence
<1> HIDE DEF q, n
<1>6. ToSet(q) = ToSet(s) \cup {x}
  BY <1>1, <1>2, <1>3, <1>4, <1>5
<1>7. ASSUME NoneTwice(s), x \notin ToSet(s)
      PROVE  NoneTwice(q)
  BY <1>1, <1>2, <1>5, <1>7 DEF NoneTwice, n
<1> QED
  BY <1>1, <1>6, <1>7 DEF q

\* The loop of load_all_rows over the lines of a file: it adds the rows of the
\* file that are new, each of them once.
LEMMA AddedRows ==
  ASSUME NEW R, NEW rows \in Seq(R), NoneTwice(rows),
         NEW part, Len(part) \in Nat, \A k \in 1..Len(part) : part[k].row \in R
  PROVE  /\ Added(rows, part) \in Seq(R)
         /\ NoneTwice(Added(rows, part))
         /\ ToSet(Added(rows, part)) = ToSet(rows) \cup {part[k].row : k \in 1..Len(part)}
<1>0. PICK n \in Nat : n = Len(part)
  OBVIOUS
<1> DEFINE Grown(s, k) == IF part[k].row \in ToSet(s) THEN s ELSE Append(s, part[k].row)
           Looping(f) == f = [k \in 0..n |-> IF k = 0 THEN rows
                                             ELSE IF part[k].row \in ToSet(f[k - 1]) THEN f[k - 1]
                                             ELSE Append(f[k - 1], part[k].row)]
           seen == CHOOSE f : Looping(f)
<1>1. \E f : Looping(f)
  <2> DEFINE F == [x \in Seq(R) \X (1..n) |-> Grown(x[1], x[2])]
  <2>1. ASSUME NEW s \in Seq(R), NEW k \in 1..n
        PROVE  Grown(s, k) \in Seq(R)
    BY <1>0, OneRowMore
  <2>2. \A s \in Seq(R), k \in 1..n : F[<<s, k>>] = Grown(s, k)
    OBVIOUS
  <2>3. F \in [Seq(R) \X (1..n) -> Seq(R)]
    BY <2>1
  <2> HIDE DEF F
  <2>4. PICK f : Iterates(f, n, Seq(R), rows, F)
    BY <1>0, <2>3, Recursion, Zenon
  <2>5. /\ \A k \in 0..n : f[k] \in Seq(R)
        /\ f[0] = rows /\ \A k \in 1..n : f[k] = F[<<f[k - 1], k>>]
        /\ f = [k \in 0..n |-> f[k]]
    BY <2>4 DEF Iterates
  <2>6. ASSUME NEW k \in 1..n
        PROVE  f[k] = Grown(f[k - 1], k)
    <3>1. k - 1 \in 0..n
      OBVIOUS
    <3> QED
      BY <2>2, <2>5, <3>1
  <2>7. \A k \in 0..n : k # 0 => k \in 1..n
    OBVIOUS
  <2>8. Looping(f)
    BY <2>5, <2>6, <2>7
  <2> QED
    BY <2>8
<1>2. Looping(seen)
  BY <1>1
<1>3. Added(rows, part) = seen[n]
  BY <1>0 DEF Added
<1> HIDE DEF seen
<1>4. seen[0] = rows /\ \A k \in 1..n : seen[k] = Grown(seen[k - 1], k)
  <2>1. 0 \in 0..n /\ \A k \in 1..n : k \in 0..n /\ k # 0
    BY <1>0
  <2> QED
    BY <1>2, <2>1, Zenon
<1> DEFINE Read(k) == {part[j].row : j \in 1..k}
           T == {k \in 0..n : /\ seen[k] \in Seq(R)
                              /\ NoneTwice(seen[k])
                              /\ ToSet(seen[k]) = ToSet(rows) \cup Read(k)}
<1>5. 0 \in T
  BY <1>4
<1>6. ASSUME NEW k \in 1..n, k - 1 \in T
      PROVE  k \in T
  <2>1. 1..k = 1..(k - 1) \cup {k}
    OBVIOUS
  <2>2. Read(k) = Read(k - 1) \cup {part[k].row}
    BY <2>1
  <2>3. /\ seen[k - 1] \in Seq(R) /\ NoneTwice(seen[k - 1])
        /\ ToSet(seen[k - 1]) = ToSet(rows) \cup Read(k - 1)
        /\ part[k].row \in R
    BY <1>0, <1>6
  <2>4. CASE part[k].row \in ToSet(seen[k - 1])
    <3>1. seen[k] = seen[k - 1] /\ Read(k) \subseteq Read(k - 1) \cup ToSet(seen[k - 1])
      BY <1>4, <2>2, <2>4
    <3>2. ToSet(seen[k]) = ToSet(rows) \cup Read(k)
      BY <2>2, <2>3, <2>4, <3>1
    <3> QED
      BY <2>3, <3>1, <3>2
  <2>5. CASE part[k].row \notin ToSet(seen[k - 1])
    <3>1. seen[k] = Append(seen[k - 1], part[k].row)
      BY <1>4, <2>5
    <3>2. /\ seen[k] \in Seq(R) /\ NoneTwice(seen[k])
          /\ ToSet(seen[k]) = ToSet(seen[k - 1]) \cup {part[k].row}
      <4>1. /\ Append(seen[k - 1], part[k].row) \in Seq(R)
            /\ ToSet(Append(seen[k - 1], part[k].row)) = ToSet(seen[k - 1]) \cup {part[k].row}
        BY <2>3, OneRowMore
      <4>2. NoneTwice(Append(seen[k - 1], part[k].row))
        BY <2>3, <2>5, OneRowMore
      <4> QED
        BY <3>1, <4>1, <4>2
    <3> QED
      BY <2>2, <2>3, <3>2
  <2> QED
    BY <2>4, <2>5
<1> HIDE DEF T
<1>7. n \in T
  <2>1. \A k \in 1..n : k - 1 \in T => k \in T
    BY <1>6
  <2>2. \A k \in 0..n : k \in T
    BY <1>0, <1>5, <2>1, Climb, Zenon
  <2> QED
    BY <1>0, <2>2
<1> QED
  BY <1>0, <1>3, <1>7 DEF T

----------------------------------------------------------------------------
(* Splitting the rows. *)

\* The order of the hashes moves the rows, and does nothing else to them.
LEMMA Ordered ==
  ASSUME NEW rows \in Seq(Int), NoneTwice(rows)
  PROVE  /\ InOrder(rows) \in Seq(Int)
         /\ Len(InOrder(rows)) = Len(rows)
         /\ NoneTwice(InOrder(rows))
         /\ ToSet(InOrder(rows)) = ToSet(rows)
<1>1. PICK n \in Nat : n = Len(rows)
  OBVIOUS
<1>2. DOMAIN rows = 1..n /\ \A i \in 1..n : rows[i] \in Int
  BY <1>1
<1> DEFINE Before(i) == {j \in DOMAIN rows :
                            rows[j] < rows[i] \/ (rows[j] = rows[i] /\ j <= i)}
           place == [i \in 1..n |-> Cardinality(Before(i))]
<1>3. \A i \in 1..n : Before(i) \in SUBSET (1..n) /\ i \in Before(i)
  BY <1>2
<1>4. IsFiniteSet(1..n) /\ Cardinality(1..n) = n
  <2>1. 1 \in Int /\ n \in Int /\ (IF 1 > n THEN 0 ELSE n - 1 + 1) = n
    BY <1>1
  <2> QED
    BY <2>1, FS_Interval
<1>5. place \in [1..n -> 1..n]
  <2>1. ASSUME NEW i \in 1..n
        PROVE  Cardinality(Before(i)) \in 1..n
    <3>1. IsFiniteSet(Before(i)) /\ Cardinality(Before(i)) <= n /\ Cardinality(Before(i)) \in Nat
      BY <1>3, <1>4, FS_Subset, FS_CardinalityType
    <3>2. Cardinality(Before(i)) # 0
      BY <1>3, <3>1, FS_EmptySet
    <3> QED
      BY <1>1, <3>1, <3>2
  <2> QED
    BY <2>1
<1>6. ASSUME NEW i \in 1..n, NEW j \in 1..n, i # j
      PROVE  place[i] # place[j]
  <2>1. ASSUME NEW a \in 1..n, NEW b \in 1..n, a # b,
               rows[a] < rows[b] \/ (rows[a] = rows[b] /\ a <= b)
        PROVE  Cardinality(Before(a)) # Cardinality(Before(b))
    <3>1. Before(a) \in SUBSET Before(b)
      BY <1>2, <2>1
    <3>2. b \notin Before(a)
      BY <1>2, <2>1
    <3>3. IsFiniteSet(Before(b))
      BY <1>3, <1>4, FS_Subset
    <3> QED
      BY <1>3, <3>1, <3>2, <3>3, FS_Subset
  <2>2. \/ rows[i] < rows[j] \/ (rows[i] = rows[j] /\ i <= j)
        \/ rows[j] < rows[i] \/ (rows[j] = rows[i] /\ j <= i)
    BY <1>2
  <2> HIDE DEF Before
  <2>3. place[i] = Cardinality(Before(i)) /\ place[j] = Cardinality(Before(j))
    OBVIOUS
  <2> QED
    BY <1>6, <2>1, <2>2, <2>3
<1>7. place \in Surjection(1..n, 1..n)
  <2> HIDE DEF place
  <2>1. place \in Injection(1..n, 1..n)
    BY <1>5, <1>6 DEF Injection, IsInjective
  <2> QED
    BY <1>4, <2>1, FS_Injection
<1> DEFINE at == [k \in 1..n |-> CHOOSE i \in 1..n : Cardinality(Before(i)) = k]
<1>8. InOrder(rows) = [k \in 1..n |-> rows[at[k]]]
  <2>1. InOrder(rows) = [k \in 1..n |-> rows[CHOOSE i \in 1..n : Cardinality(Before(i)) = k]]
    BY <1>2 DEF InOrder
  <2>2. \A k \in 1..n : at[k] = CHOOSE i \in 1..n : Cardinality(Before(i)) = k
    OBVIOUS
  <2> HIDE DEF at, Before
  <2> QED
    BY <2>1, <2>2, Zenon
<1>9. \A k \in 1..n : at[k] \in 1..n /\ place[at[k]] = k
  <2>1. ASSUME NEW k \in 1..n
        PROVE  \E i \in 1..n : Cardinality(Before(i)) = k
    <3>1. \A i \in 1..n : place[i] = Cardinality(Before(i))
      OBVIOUS
    <3> HIDE DEF place, Before
    <3> QED
      BY <1>7, <3>1 DEF Surjection
  <2> HIDE DEF Before
  <2> QED
    BY <2>1
<1> HIDE DEF place
<1> HIDE DEF at
<1>10. \A i \in 1..n : at[place[i]] = i
  BY <1>5, <1>6, <1>9
<1>11. PICK df : df = InOrder(rows)
  OBVIOUS
<1>12. df \in Seq(Int) /\ Len(df) = n /\ \A k \in 1..n : df[k] = rows[at[k]]
  BY <1>2, <1>8, <1>9, <1>11
<1>13. NoneTwice(df)
  <2>1. \A i, j \in 1..n : rows[i] = rows[j] => i = j
    BY <1>1 DEF NoneTwice
  <2>2. ASSUME NEW k \in 1..n, NEW m \in 1..n, df[k] = df[m]
        PROVE  k = m
    <3>1. at[k] = at[m]
      <4>1. rows[at[k]] = rows[at[m]] /\ at[k] \in 1..n /\ at[m] \in 1..n
        BY <1>9, <1>12, <2>2
      <4> QED
        BY <2>1, <4>1, Zenon
    <3> QED
      BY <1>9, <3>1
  <2> QED
    BY <1>12, <2>2 DEF NoneTwice
<1>14. ToSet(df) = ToSet(rows)
  <2>1. ToSet(df) = {df[k] : k \in 1..n} /\ ToSet(rows) = {rows[i] : i \in 1..n}
    BY <1>1, <1>12, SetOfSequence
  <2>2. \A i \in 1..n : rows[i] = df[place[i]] /\ place[i] \in 1..n
    BY <1>5, <1>10, <1>12
  <2>3. \A k \in 1..n : df[k] = rows[at[k]] /\ at[k] \in 1..n
    BY <1>9, <1>12
  <2>4. ASSUME NEW k \in 1..n
        PROVE  df[k] \in {rows[i] : i \in 1..n}
    BY <2>3
  <2>5. ASSUME NEW i \in 1..n
        PROVE  rows[i] \in {df[k] : k \in 1..n}
    BY <2>2
  <2> QED
    BY <2>1, <2>4, <2>5
<1> QED
  BY <1>1, <1>11, <1>12, <1>13, <1>14

LEMMA AtMostAShare ==
  ASSUME NEW n \in Nat, NEW rows \in Nat
  PROVE  Min({rows, n \div SHARE}) \in 0..n
<1>1. n \div SHARE \in 0..n
  <2>1. PICK d \in Nat \ {0} : d = SHARE
    BY DatasetAssumption
  <2>2. n \div d \in Nat /\ n \div d <= n
    BY <2>1
  <2> QED
    BY <2>1, <2>2
<1>2. PICK q \in Nat : q = n \div SHARE /\ q <= n
  BY <1>1
<1>3. \E x \in {rows, q} : \A y \in {rows, q} : x <= y
  BY <1>2
<1>4. Min({rows, q}) \in {rows, q} /\ \A y \in {rows, q} : Min({rows, q}) <= y
  BY <1>3, Zenon DEF Min
<1> QED
  BY <1>2, <1>4

LEMMA AsManyAsThereAre ==
  ASSUME NEW R, NEW s \in Seq(R), NoneTwice(s)
  PROVE  Cardinality(ToSet(s)) = Len(s)
<1>1. PICK n \in Nat : n = Len(s)
  OBVIOUS
<1>2. ToSet(s) = {s[k] : k \in 1..n} /\ DOMAIN s = 1..n
  BY <1>1, SetOfSequence
<1>3. IsFiniteSet(1..n) /\ Cardinality(1..n) = n
  <2>1. 1 \in Int /\ n \in Int /\ (IF 1 > n THEN 0 ELSE n - 1 + 1) = n
    BY <1>1
  <2> QED
    BY <2>1, FS_Interval
<1>4. \A i, j \in 1..n : s[i] = s[j] => i = j
  BY <1>1 DEF NoneTwice
<1>5. s = [k \in 1..n |-> s[k]]
  BY <1>1
<1>6. s \in Surjection(1..n, ToSet(s)) /\ s \in Injection(1..n, ToSet(s))
  BY <1>2, <1>4, <1>5 DEF Surjection, Injection, IsInjective
<1> QED
  BY <1>1, <1>3, <1>6, FS_Surjection

\* seg is what s holds from its i-th to its j-th element.
IsSegment(seg, R, s, i, j) ==
    /\ seg \in Seq(R)
    /\ Len(seg) = j + 1 - i
    /\ ToSet(seg) = {s[k] : k \in i..j}

LEMMA Segment ==
  ASSUME NEW R, NEW s \in Seq(R), NEW a \in Nat, NEW m \in Nat, a + m <= Len(s)
  PROVE  IsSegment(SubSeq(s, a + 1, a + m), R, s, a + 1, a + m)
<1>1. PICK seg : seg = SubSeq(s, a + 1, a + m)
  OBVIOUS
<1>2. seg = [k \in 1..m |-> s[a + k]]
  BY <1>1
<1>3. \A k \in 1..m : a + k \in 1..Len(s) /\ a + k \in (a + 1)..(a + m)
  OBVIOUS
<1>4. seg \in Seq(R) /\ Len(seg) = m
  BY <1>2, <1>3
<1>5. ToSet(seg) = {seg[k] : k \in 1..m}
  BY <1>4, SetOfSequence
<1>6. \A k \in (a + 1)..(a + m) : k - a \in 1..m /\ seg[k - a] = s[k]
  BY <1>2
<1>7. \A k \in 1..m : seg[k] = s[a + k]
  BY <1>2
<1>8. {seg[k] : k \in 1..m} = {s[k] : k \in (a + 1)..(a + m)}
  BY <1>3, <1>6, <1>7
<1> QED
  <2>1. (a + m) + 1 - (a + 1) = m
    OBVIOUS
  <2> QED
    BY <1>1, <1>4, <1>5, <1>8, <2>1, Zenon DEF IsSegment

\* Each row is in one of the splits, once.
LEMMA SplitRows ==
  ASSUME NEW rows \in Seq(Int), NoneTwice(rows)
  PROVE  /\ \A s \in Splits : Split(rows)[s] \in Seq(Int)
         /\ UNION {ToSet(Split(rows)[s]) : s \in Splits} = ToSet(rows)
         /\ Cardinality(ToSet(rows)) = Len(Split(rows)["train"]) + Len(Split(rows)["validation"])
                                           + Len(Split(rows)["test"])
<1>1. PICK df : df = InOrder(rows)
  OBVIOUS
<1>2. df \in Seq(Int) /\ NoneTwice(df) /\ ToSet(df) = ToSet(rows)
  BY <1>1, Ordered
<1>3. PICK n \in Nat : n = Len(df)
  BY <1>2
<1>4. PICK t \in Nat : t <= n /\ t = Min({TEST_ROWS, n \div SHARE})
  BY <1>3, AtMostAShare, DatasetAssumption
<1>5. PICK left \in Nat : left = n - t
  BY <1>3, <1>4
<1>6. PICK v \in Nat : v <= left /\ v = Min({VALIDATION_ROWS, left \div SHARE})
  <2>1. Min({VALIDATION_ROWS, left \div SHARE}) \in 0..left
    BY <1>5, AtMostAShare, DatasetAssumption, Zenon
  <2> QED
    BY <1>5, <2>1
<1>7. PICK rest \in Nat : t + v + rest = n
  <2>1. left - v \in Nat /\ t + v + (left - v) = n
    <3>1. v <= left /\ left = n - t
      BY <1>5, <1>6
    <3> QED
      BY <3>1
  <2> QED
    BY <2>1
<1> DEFINE test  == SubSeq(df, 1, t)
           val   == SubSeq(df, t + 1, t + v)
           train == SubSeq(df, t + v + 1, n)
<1>8. Split(rows) = [test |-> test, validation |-> val, train |-> train]
  BY <1>1, <1>3, <1>4, <1>5, <1>6 DEF Split
<1>9. /\ Split(rows)["test"] = test
      /\ Split(rows)["validation"] = val
      /\ Split(rows)["train"] = train
  BY <1>8
<1>10. test \in Seq(Int) /\ Len(test) = t /\ ToSet(test) = {df[k] : k \in 1..t}
  <2>1. 0 \in Nat /\ 0 + t <= Len(df) /\ 0 + 1 = 1 /\ 0 + t = t /\ t + 1 - 1 = t
    BY <1>3, <1>4
  <2>2. IsSegment(SubSeq(df, 0 + 1, 0 + t), Int, df, 0 + 1, 0 + t)
    BY <1>2, <1>4, <2>1, Segment, Zenon
  <2> QED
    BY <2>1, <2>2, Zenon DEF IsSegment
<1>11. val \in Seq(Int) /\ Len(val) = v /\ ToSet(val) = {df[k] : k \in (t + 1)..(t + v)}
  <2>1. t + v <= Len(df) /\ (t + v) + 1 - (t + 1) = v
    BY <1>3, <1>4, <1>5, <1>6
  <2>2. IsSegment(SubSeq(df, t + 1, t + v), Int, df, t + 1, t + v)
    BY <1>2, <1>4, <1>6, <2>1, Segment, Zenon
  <2> QED
    BY <2>1, <2>2, Zenon DEF IsSegment
<1>12. train \in Seq(Int) /\ Len(train) = rest /\ ToSet(train) = {df[k] : k \in (t + v + 1)..n}
  <2>1. PICK a \in Nat : a = t + v
    BY <1>4, <1>6
  <2>2. a + rest = n /\ a + rest <= Len(df) /\ n + 1 - (a + 1) = rest
    <3>1. a + rest = n
      BY <1>7, <2>1
    <3>2. n <= n /\ (a + rest) + 1 - (a + 1) = rest
      BY <1>7, <2>1
    <3> QED
      BY <1>3, <3>1, <3>2
  <2>3. IsSegment(SubSeq(df, a + 1, a + rest), Int, df, a + 1, a + rest)
    BY <1>2, <1>7, <2>1, <2>2, Segment, Zenon
  <2>4. t + v + 1 = a + 1
    BY <2>1
  <2> QED
    BY <2>2, <2>3, <2>4, Zenon DEF IsSegment
<1> HIDE DEF test, val, train
<1>13. ToSet(test) \cup ToSet(val) \cup ToSet(train) = ToSet(df)
  <2>1. \A k : k \in 1..n <=> k \in 1..t \/ k \in (t + 1)..(t + v) \/ k \in (t + v + 1)..n
    <3>1. PICK a \in Nat : a = t + v /\ t <= a /\ a <= n
      <4>1. t + v \in Nat /\ t <= t + v /\ t + v <= n
        BY <1>3, <1>4, <1>6, <1>7
      <4> QED
        BY <4>1
    <3>2. \A k : k \in 1..n <=> k \in 1..t \/ k \in (t + 1)..a \/ k \in (a + 1)..n
      BY <1>3, <1>4, <3>1
    <3> QED
      BY <3>1, <3>2
  <2>2. ToSet(df) = {df[k] : k \in 1..n}
    BY <1>2, <1>3, SetOfSequence
  <2> QED
    BY <1>10, <1>11, <1>12, <2>1, <2>2, Zenon
<1>14. \A s \in Splits : Split(rows)[s] \in Seq(Int)
  BY <1>9, <1>10, <1>11, <1>12 DEF Splits
<1>15. UNION {ToSet(Split(rows)[s]) : s \in Splits} = ToSet(rows)
  BY <1>2, <1>9, <1>13 DEF Splits
<1>16. Cardinality(ToSet(rows)) = t + v + rest
  <2>1. Cardinality(ToSet(df)) = n
    BY <1>2, <1>3, AsManyAsThereAre
  <2> QED
    BY <1>2, <1>7, <2>1
<1>17. Len(train) + Len(val) + Len(test) = t + v + rest
  BY <1>4, <1>6, <1>7, <1>10, <1>11, <1>12
<1> QED
  BY <1>9, <1>14, <1>15, <1>16, <1>17

----------------------------------------------------------------------------
(* Dataset and ShardsProofs speak of the same operators. *)

LEMMA SizesAreNumbers == P!Sizes
  BY DatasetAssumption DEF P!Sizes

LEMMA SameCardinality == ASSUME NEW set PROVE S!Cardinality(set) = P!Cardinality(set)
  BY DEF S!Cardinality, P!Cardinality

LEMMA SameFiles ==
  ASSUME NEW part
  PROVE  /\ S!Unfinished(part) <=> P!Unfinished(part)
         /\ S!Lines(part) = P!Lines(part)
         /\ S!Completed(part) = P!Completed(part)
         /\ S!RowsIn(part) = P!RowsIn(part)
<1>1. \A piece : S!Ended(piece) <=> P!Ended(piece)
  BY DEF S!Ended, P!Ended
<1>2. S!Unfinished(part) <=> P!Unfinished(part)
  BY <1>1 DEF S!Unfinished, P!Unfinished
<1>3. {k \in DOMAIN part : S!Ended(part[k])} = {k \in DOMAIN part : P!Ended(part[k])}
  BY <1>1
<1>4. S!Lines(part) = P!Lines(part)
  BY <1>2, <1>3, SameCardinality, Zenon DEF S!Lines, P!Lines
<1>5. S!Completed(part) = P!Completed(part)
  BY DEF S!Completed, P!Completed
<1>6. \A k : S!Parses(part, k) <=> P!Parses(part, k)
  BY <1>1, Zenon DEF S!Parses, P!Parses
<1>7. S!Readable(part) = P!Readable(part)
  BY <1>6 DEF S!Readable, P!Readable
<1>8. S!RowsIn(part) = P!RowsIn(part)
  BY <1>7, Zenon DEF S!RowsIn, P!RowsIn
<1> QED
  BY <1>2, <1>4, <1>5, <1>8

LEMMA SameWorkers ==
  /\ S!Workers = P!Workers /\ S!Rows = P!Rows
  /\ \A w : /\ S!Current(w) = P!Current(w)
            /\ S!Flushed(w) = P!Flushed(w)
            /\ S!Full(w) <=> P!Full(w)
            /\ S!Begun(w) = P!Begun(w)
            /\ \A part : S!SetCurrent(w, part) = P!SetCurrent(w, part)
<1>1. S!Workers = P!Workers /\ S!Rows = P!Rows
  BY DEF S!Workers, P!Workers, S!Rows, P!Rows
<1>2. ASSUME NEW w
      PROVE  /\ S!Current(w) = P!Current(w)
             /\ S!Flushed(w) = P!Flushed(w)
             /\ S!Full(w) <=> P!Full(w)
             /\ S!Begun(w) = P!Begun(w)
             /\ \A part : S!SetCurrent(w, part) = P!SetCurrent(w, part)
  <2>1. S!Current(w) = P!Current(w)
    BY DEF S!Current, P!Current
  <2>2. S!Flushed(w) = P!Flushed(w)
    BY <2>1, SameFiles DEF S!Flushed, P!Flushed
  <2>3. S!Full(w) <=> P!Full(w)
    BY DEF S!Full, P!Full
  <2>4. S!Begun(w) = P!Begun(w)
    BY SameCardinality DEF S!Begun, P!Begun
  <2>5. \A part : S!SetCurrent(w, part) = P!SetCurrent(w, part)
    BY DEF S!SetCurrent, P!SetCurrent
  <2> QED
    BY <2>1, <2>2, <2>3, <2>4, <2>5
<1> QED
  BY <1>1, <1>2

----------------------------------------------------------------------------
\* A merge never touches the shards.
LEMMA ShardsStep == [Next]_vars => [P!Next]_(P!vars)
<1>1. S!Next => P!Next
  <2>1. ASSUME NEW w \in S!Workers
        PROVE  /\ S!Open(w) => P!Open(w)
               /\ \A row \in S!Rows : S!Begin(w, row) => P!Begin(w, row)
               /\ S!Finish(w) => P!Finish(w)
               /\ S!WriteRaises(w) => P!WriteRaises(w)
               /\ S!OpenNextRaises(w) => P!OpenNextRaises(w)
               /\ S!Kill(w) => P!Kill(w)
    <3>1. S!Open(w) => P!Open(w)
      BY SameFiles, SameWorkers, Zenon DEF S!Open, P!Open
    <3>2. \A row \in S!Rows : S!Begin(w, row) => P!Begin(w, row)
      BY SameWorkers, Zenon DEF S!Begin, P!Begin
    <3>3. S!Finish(w) => P!Finish(w)
      BY DEF S!Finish, P!Finish, S!SetCurrent, P!SetCurrent, S!Current, P!Current,
             S!Completed, P!Completed
    <3>4. S!WriteRaises(w) => P!WriteRaises(w)
      BY DEF S!WriteRaises, P!WriteRaises, S!Raises, P!Raises
    <3>5. S!OpenNextRaises(w) => P!OpenNextRaises(w)
      BY DEF S!OpenNextRaises, P!OpenNextRaises, S!Raises, P!Raises, S!Full, P!Full
    <3>6. S!Kill(w) => P!Kill(w)
      BY DEF S!Kill, P!Kill
    <3> QED
      BY <3>1, <3>2, <3>3, <3>4, <3>5, <3>6
  <2>2. S!Workers = P!Workers /\ S!Rows = P!Rows
    BY DEF S!Workers, P!Workers, S!Rows, P!Rows
  <2> QED
    BY <2>1, <2>2 DEF S!Next, P!Next
<1> QED
  BY <1>1 DEF Next, vars, MergeBegins, ReadShard, ReadRaises, WriteSplit, WriteCard,
              MergeDies, WorkersWrite, shards, P!vars

LEMMA ShardsGoOn == Spec => P!Spec
<1>1. Init => P!Init
  BY DEF Init, S!Init, P!Init, S!Workers, P!Workers
<1> QED
  BY <1>1, ShardsStep, PTL DEF Spec, P!Spec

----------------------------------------------------------------------------
(* The invariant of a merge. *)

\* The rows begun in the files that are still to be read.
Unread == UNION {P!RowsOf(parts[file[1]][file[2]]) : file \in todo}

MergeTypes ==
    /\ stage \in {"idle", "reading", "card", "finished", "failed"} \cup Splits
    /\ todo \subseteq Files
    /\ stage = "reading" <=> todo # {}
    /\ loaded \in Seq(S!Rows)
    /\ NoneTwice(loaded)
    /\ data \in [Splits -> Seq(Int)]
    /\ \A s \in Splits : data[s] = Torn \/ ToSet(data[s]) \subseteq S!Rows
    /\ card \in {<<>>, Torn} \cup (Nat \X Nat \X Nat)
    /\ begun \subseteq S!Rows
    /\ DOMAIN published = Splits

\* No row that was stored when the merge began gets out of sight.
NoneMissed ==
    /\ stage = "reading" => begun \subseteq ToSet(loaded) \cup Unread
    /\ stage \in {"card", "finished"} \cup Splits => begun \subseteq ToSet(loaded)

\* The splits that this merge has written are those of the rows it has read.
Written ==
    /\ stage \in {"validation", "test", "card", "finished"} =>
          data["train"] = Split(loaded)["train"]
    /\ stage \in {"test", "card", "finished"} =>
          data["validation"] = Split(loaded)["validation"]
    /\ stage \in {"card", "finished"} =>
          data["test"] = Split(loaded)["test"]

MergeInv == P!TypeInv /\ MergeTypes /\ NoneMissed /\ Written

LEMMA ShardFacts ==
  ASSUME P!TypeInv
  PROVE  /\ S!TypeOK
         /\ S!Stored \subseteq UNION {P!RowsOf(parts[file[1]][file[2]]) : file \in Files}
         /\ S!Stored \subseteq S!Rows
         /\ Files \subseteq S!Workers \X Nat
         /\ \A file \in Files :
              LET part == parts[file[1]][file[2]] IN
              /\ Len(part) \in Nat
              /\ \A k \in 1..Len(part) : part[k].row \in S!Rows
              /\ P!RowsOf(part) = {part[k].row : k \in 1..Len(part)}
<1>1. /\ parts \in [P!Workers -> Seq(Seq(P!Piece))]
      /\ P!TypeOK
  BY DEF P!TypeInv, P!TypeOK
<1>2. S!TypeOK
  BY <1>1, SameFiles, SameWorkers DEF S!TypeOK, P!TypeOK, S!Piece, P!Piece
<1>3. ASSUME NEW w \in S!Workers, NEW f \in DOMAIN parts[w]
      PROVE  /\ <<w, f>> \in Files /\ f \in Nat
             /\ parts[w][f] \in Seq(P!Piece)
  <2>1. parts[w] \in Seq(Seq(P!Piece))
    BY <1>1, SameWorkers
  <2>2. DOMAIN parts[w] = 1..Len(parts[w]) /\ Len(parts[w]) \in Nat
    BY <2>1
  <2> QED
    BY <2>1, <2>2 DEF Files
<1>4. ASSUME NEW file \in Files
      PROVE  /\ file[1] \in S!Workers /\ file[2] \in DOMAIN parts[file[1]]
             /\ file \in S!Workers \X Nat
  <2>1. PICK w \in S!Workers : file \in {w} \X (1..Len(parts[w]))
    BY DEF Files
  <2>2. parts[w] \in Seq(Seq(P!Piece))
    BY <1>1, SameWorkers
  <2>3. DOMAIN parts[w] = 1..Len(parts[w]) /\ Len(parts[w]) \in Nat
    BY <2>2
  <2> QED
    BY <2>1, <2>3
<1>5. ASSUME NEW part \in Seq(P!Piece)
      PROVE  /\ Len(part) \in Nat
             /\ \A k \in 1..Len(part) : part[k].row \in S!Rows
             /\ P!RowsOf(part) = {part[k].row : k \in 1..Len(part)}
             /\ S!RowsIn(part) \subseteq P!RowsOf(part)
             /\ P!RowsOf(part) \subseteq S!Rows
  <2>1. DOMAIN part = 1..Len(part) /\ Len(part) \in Nat
    BY <1>5
  <2>2. \A k \in 1..Len(part) : part[k].row \in S!Rows
    <3>1. \A k \in 1..Len(part) : part[k] \in P!Piece
      BY <1>5
    <3>2. \A piece \in P!Piece : piece.row \in P!Rows
      BY DEF P!Piece
    <3> QED
      BY <3>1, <3>2, SameWorkers
  <2>3. S!RowsIn(part) \subseteq P!RowsOf(part)
    BY <2>1 DEF S!RowsIn, S!Readable, P!RowsOf
  <2> QED
    BY <2>1, <2>2, <2>3 DEF P!RowsOf
<1>6. \A file \in Files : parts[file[1]][file[2]] \in Seq(P!Piece)
  BY <1>3, <1>4
<1>7. ASSUME NEW row \in S!Stored
      PROVE  /\ row \in UNION {P!RowsOf(parts[file[1]][file[2]]) : file \in Files}
             /\ row \in S!Rows
  <2>1. PICK w \in S!Workers : \E f \in DOMAIN parts[w] : row \in S!RowsIn(parts[w][f])
    BY DEF S!Stored
  <2>2. PICK f \in DOMAIN parts[w] : row \in S!RowsIn(parts[w][f])
    BY <2>1
  <2>3. <<w, f>>[1] = w /\ <<w, f>>[2] = f
    OBVIOUS
  <2>4. <<w, f>> \in Files /\ row \in P!RowsOf(parts[w][f]) /\ row \in S!Rows
    BY <1>3, <1>5, <2>2
  <2>5. \E file \in Files : row \in P!RowsOf(parts[file[1]][file[2]])
    BY <2>3, <2>4, Zenon
  <2> QED
    BY <2>4, <2>5
<1> QED
  BY <1>2, <1>4, <1>5, <1>6, <1>7

\* The merge changes its own variables, and the shards stay.
LEMMA ReadsOn ==
  ASSUME MergeInv, ReadShard
  PROVE  (MergeTypes /\ NoneMissed /\ Written)'
<1>1. PICK file \in todo : /\ loaded' = Added(loaded, parts[file[1]][file[2]])
                           /\ todo' = todo \ {file}
  BY DEF ReadShard
<1>2. /\ stage = "reading" /\ stage' = IF todo' = {} THEN "train" ELSE "reading"
      /\ UNCHANGED <<shards, data, card, begun, published>>
  BY DEF ReadShard, After
<1> DEFINE part == parts[file[1]][file[2]]
<1>3. /\ Len(part) \in Nat
      /\ \A k \in 1..Len(part) : part[k].row \in S!Rows
      /\ P!RowsOf(part) = {part[k].row : k \in 1..Len(part)}
  BY ShardFacts DEF MergeInv, MergeTypes
<1>4. /\ loaded \in Seq(S!Rows) /\ NoneTwice(loaded)
      /\ loaded' = Added(loaded, part)
  BY <1>1 DEF MergeInv, MergeTypes
<1> HIDE DEF part
<1>5. /\ loaded' \in Seq(S!Rows) /\ NoneTwice(loaded')
      /\ ToSet(loaded') = ToSet(loaded) \cup {part[k].row : k \in 1..Len(part)}
  BY <1>3, <1>4, AddedRows
<1>6. Files' = Files /\ parts' = parts
  BY <1>2 DEF shards, Files, S!Workers
<1>7. begun \subseteq ToSet(loaded) \cup Unread
  BY <1>2 DEF MergeInv, NoneMissed
<1>8. Unread \subseteq P!RowsOf(part) \cup Unread'
  BY <1>1, <1>6 DEF Unread, part
<1>9. begun' \subseteq ToSet(loaded') \cup Unread'
  BY <1>2, <1>3, <1>5, <1>7, <1>8
<1>10. todo' = {} => Unread' = {}
  BY DEF Unread
<1>11. NoneMissed'
  BY <1>2, <1>9, <1>10 DEF NoneMissed, Splits
<1>12. MergeTypes'
  BY <1>1, <1>2, <1>5, <1>6 DEF MergeInv, MergeTypes, S!Rows, Splits
<1>13. Written'
  BY <1>2 DEF Written
<1> QED
  BY <1>11, <1>12, <1>13

LEMMA RowsAreNumbers == ASSUME NEW s \in Seq(S!Rows) PROVE s \in Seq(Int)
<1>1. \A k \in 1..Len(s) : s[k] \in Int
  <2>1. S!Rows \subseteq Int
    BY DatasetAssumption DEF S!Rows
  <2>2. \A k \in 1..Len(s) : s[k] \in S!Rows
    OBVIOUS
  <2> QED
    BY <2>1, <2>2
<1>2. s = [k \in 1..Len(s) |-> s[k]] /\ Len(s) \in Nat
  OBVIOUS
<1> QED
  BY <1>1, <1>2

LEMMA BeginsMerge ==
  ASSUME MergeInv, MergeBegins
  PROVE  (MergeTypes /\ NoneMissed /\ Written)'
<1>1. /\ todo' = Files /\ stage' = After(Files) /\ loaded' = <<>> /\ begun' = S!Stored
      /\ UNCHANGED <<shards, data, card, published>>
  BY DEF MergeBegins
<1>2. parts' = parts /\ Files' = Files
  BY <1>1 DEF shards, Files, S!Workers
<1>3. /\ begun' \subseteq Unread' /\ begun' \subseteq S!Rows
  BY <1>1, <1>2, ShardFacts DEF MergeInv, Unread
<1>4. Files = {} => Unread' = {}
  BY <1>1 DEF Unread
<1>5. <<>> \in Seq(S!Rows) /\ NoneTwice(<<>>)
  BY DEF NoneTwice
<1>6. /\ stage' = IF Files = {} THEN "train" ELSE "reading"
      /\ stage' = "reading" <=> todo' # {}
  BY <1>1 DEF After
<1>7. MergeTypes'
  BY <1>1, <1>2, <1>3, <1>5, <1>6 DEF MergeInv, MergeTypes, S!Rows, Splits
<1>8. NoneMissed'
  <2>1. CASE Files = {}
    BY <1>3, <1>4, <1>6, <2>1 DEF NoneMissed
  <2>2. CASE Files # {}
    BY <1>3, <1>6, <2>2 DEF NoneMissed, Splits
  <2> QED
    BY <2>1, <2>2
<1>9. Written'
  BY <1>6 DEF Written
<1> QED
  BY <1>7, <1>8, <1>9

LEMMA WritesSplit ==
  ASSUME MergeInv, WriteSplit
  PROVE  (MergeTypes /\ NoneMissed /\ Written)'
<1>1. /\ stage \in Splits
      /\ data' = [data EXCEPT ![stage] = Split(loaded)[stage]]
      /\ stage' = CASE stage = "train" -> "validation"
                    [] stage = "validation" -> "test"
                    [] stage = "test" -> "card"
      /\ UNCHANGED <<shards, todo, loaded, card, begun, published>>
  BY DEF WriteSplit
<1>2. /\ loaded \in Seq(S!Rows) /\ NoneTwice(loaded) /\ todo = {}
      /\ data \in [Splits -> Seq(Int)]
      /\ \A s \in Splits : data[s] = Torn \/ ToSet(data[s]) \subseteq S!Rows
      /\ begun \subseteq ToSet(loaded)
  BY <1>1 DEF MergeInv, MergeTypes, NoneMissed, Splits
<1>3. loaded \in Seq(Int) /\ ToSet(loaded) \subseteq S!Rows
  <2>1. loaded \in Seq(Int)
    BY <1>2, RowsAreNumbers
  <2> QED
    BY <1>2, <2>1, SetOfSequence
<1>4. Split(loaded)[stage] \in Seq(Int) /\ ToSet(Split(loaded)[stage]) \subseteq S!Rows
  <2>1. Split(loaded)[stage] \in Seq(Int)
    BY <1>1, <1>2, <1>3, SplitRows
  <2>2. UNION {ToSet(Split(loaded)[s]) : s \in Splits} = ToSet(loaded)
    BY <1>2, <1>3, SplitRows
  <2> QED
    BY <1>1, <1>3, <2>1, <2>2
<1>5. /\ data' \in [Splits -> Seq(Int)]
      /\ data'[stage] = Split(loaded)[stage]
      /\ \A s \in Splits : s # stage => data'[s] = data[s]
  BY <1>1, <1>2, <1>4
<1>6. \A s \in Splits : data'[s] = Torn \/ ToSet(data'[s]) \subseteq S!Rows
  BY <1>2, <1>4, <1>5
<1>7. stage' \in {"validation", "test", "card"} /\ Files' = Files
  BY <1>1 DEF Splits, Files, S!Workers, shards
<1>8. MergeTypes'
  BY <1>1, <1>2, <1>5, <1>6, <1>7 DEF MergeInv, MergeTypes, S!Rows, Splits
<1>9. NoneMissed'
  BY <1>1, <1>2, <1>7 DEF NoneMissed, Splits
<1>10. Written'
  <2>1. loaded' = loaded
    BY <1>1
  <2>2. CASE stage = "train"
    BY <1>1, <1>5, <2>1, <2>2 DEF Written, Splits
  <2>3. CASE stage = "validation"
    BY <1>1, <1>5, <2>1, <2>3 DEF MergeInv, Written, Splits
  <2>4. CASE stage = "test"
    BY <1>1, <1>5, <2>1, <2>4 DEF MergeInv, Written, Splits
  <2> QED
    BY <1>1, <2>2, <2>3, <2>4 DEF Splits
<1> QED
  BY <1>8, <1>9, <1>10

LEMMA WritesCard ==
  ASSUME MergeInv, WriteCard
  PROVE  (MergeTypes /\ NoneMissed /\ Written)'
<1>1. /\ stage = "card" /\ stage' = "finished" /\ published' = data
      /\ card' = IF card = <<>>
                 THEN <<Len(data["train"]), Len(data["validation"]), Len(data["test"])>>
                 ELSE card
      /\ UNCHANGED <<shards, todo, loaded, data, begun>>
  BY DEF WriteCard
<1>2. Len(data["train"]) \in Nat /\ Len(data["validation"]) \in Nat /\ Len(data["test"]) \in Nat
  BY DEF MergeInv, MergeTypes, Splits
<1>3. card' \in {<<>>, Torn} \cup (Nat \X Nat \X Nat) /\ Files' = Files
  BY <1>1, <1>2 DEF MergeInv, MergeTypes, Files, S!Workers, shards
<1>4. MergeTypes'
  BY <1>1, <1>3 DEF MergeInv, MergeTypes, S!Rows, Splits
<1>5. NoneMissed' /\ Written'
  BY <1>1 DEF MergeInv, NoneMissed, Written, Splits
<1> QED
  BY <1>4, <1>5

LEMMA EndsEarly ==
  ASSUME MergeInv, ReadRaises \/ MergeDies
  PROVE  (MergeTypes /\ NoneMissed /\ Written)'
<1>1. /\ stage' \in {"failed", "idle"} /\ todo' = {}
      /\ data' \in {data} \cup
             (IF stage \in Splits THEN {[data EXCEPT ![stage] = Torn]} ELSE {})
      /\ card' \in {card, Torn}
      /\ UNCHANGED <<shards, loaded, begun, published>>
  BY DEF ReadRaises, MergeDies
<1>2. /\ data' \in [Splits -> Seq(Int)]
      /\ \A s \in Splits : data'[s] = Torn \/ ToSet(data'[s]) \subseteq S!Rows
  <2>1. Torn \in Seq(Int)
    BY DEF Torn
  <2> QED
    BY <1>1, <2>1 DEF MergeInv, MergeTypes
<1>3. card' \in {<<>>, Torn} \cup (Nat \X Nat \X Nat) /\ Files' = Files
  BY <1>1 DEF MergeInv, MergeTypes, Files, S!Workers, shards
<1>4. MergeTypes'
  BY <1>1, <1>2, <1>3 DEF MergeInv, MergeTypes, S!Rows, Splits
<1>5. NoneMissed' /\ Written'
  BY <1>1 DEF NoneMissed, Written, Splits
<1> QED
  BY <1>4, <1>5

\* While a merge reads, files only grow: what it has not read yet is still
\* there when it comes to it.
LEMMA OthersWrite ==
  ASSUME MergeInv, WorkersWrite
  PROVE  (MergeTypes /\ NoneMissed /\ Written)'
<1>1. UNCHANGED <<stage, todo, loaded, data, card, begun, published>>
  BY DEF WorkersWrite, merge
<1>2. \A w \in S!Workers : P!KeepsRows(w)
  <2>1. [Next]_vars
    BY DEF Next
  <2> QED
    BY <2>1, ShardsStep, SizesAreNumbers, SameWorkers, P!RowsStay DEF MergeInv
<1>3. ASSUME NEW file \in Files
      PROVE  /\ file \in Files'
             /\ P!RowsOf(parts[file[1]][file[2]]) \subseteq P!RowsOf(parts'[file[1]][file[2]])
  <2>1. PICK w \in S!Workers : file \in {w} \X (1..Len(parts[w]))
    BY DEF Files
  <2>2. file[1] = w /\ file[2] \in 1..Len(parts[w]) /\ file = <<w, file[2]>>
    BY <2>1
  <2>3. /\ file[2] \in 1..Len(parts'[w])
        /\ P!RowsOf(parts[w][file[2]]) \subseteq P!RowsOf(parts'[w][file[2]])
    BY <1>2, <2>2 DEF P!KeepsRows
  <2>4. file \in {w} \X (1..Len(parts'[w]))
    BY <2>2, <2>3
  <2> QED
    BY <2>2, <2>3, <2>4 DEF Files, S!Workers
<1>4. todo \subseteq Files
  BY DEF MergeInv, MergeTypes
<1>5. todo' \subseteq Files'
  BY <1>1, <1>3, <1>4
<1>6. Unread \subseteq Unread'
  BY <1>1, <1>3, <1>4 DEF Unread
<1>7. MergeTypes'
  BY <1>1, <1>5 DEF MergeInv, MergeTypes, S!Rows, Splits
<1>8. NoneMissed'
  BY <1>1, <1>6 DEF MergeInv, NoneMissed
<1>9. Written'
  BY <1>1 DEF MergeInv, Written
<1> QED
  BY <1>7, <1>8, <1>9

LEMMA MergeStep ==
  ASSUME MergeInv, [Next]_vars
  PROVE  MergeInv'
<1>1. P!TypeInv'
  BY ShardsStep, SizesAreNumbers, P!TypeStep DEF MergeInv
<1>2. CASE UNCHANGED vars
  <2>1. Files' = Files /\ Unread' = Unread
    BY <1>2 DEF vars, Files, S!Workers, Unread
  <2>2. MergeTypes'
    BY <1>2, <2>1 DEF vars, MergeInv, MergeTypes, S!Rows, Splits
  <2>3. NoneMissed' /\ Written'
    BY <1>2, <2>1 DEF vars, MergeInv, NoneMissed, Written
  <2> QED
    BY <1>1, <2>2, <2>3 DEF MergeInv
<1> QED
  BY <1>1, <1>2, BeginsMerge, ReadsOn, EndsEarly, WritesSplit, WritesCard, OthersWrite
  DEF Next, MergeInv

LEMMA MergeStarts == Init => MergeInv
<1> SUFFICES ASSUME Init
             PROVE  MergeInv
  OBVIOUS
<1>1. P!TypeInv
  BY SizesAreNumbers, SameWorkers DEF Init, S!Init, P!Sizes, P!TypeInv, P!TypeOK
<1>2. <<>> \in Seq(S!Rows) /\ NoneTwice(<<>>) /\ ToSet(<<>>) = {}
  BY DEF NoneTwice, ToSet
<1>3. MergeTypes
  BY <1>2 DEF Init, MergeTypes, Splits
<1> QED
  BY <1>1, <1>3 DEF Init, MergeInv, NoneMissed, Written, Splits

LEMMA MergeAlways == Spec => []MergeInv
  BY MergeStarts, MergeStep, PTL DEF Spec

----------------------------------------------------------------------------
\* TypeOK: whatever merges and workers do, a merge has files left to read as
\* long as it reads, and what it publishes are rows (dedup_merge.py).
THEOREM TypeCorrect == Spec => []TypeOK
<1>1. ASSUME MergeInv
      PROVE  TypeOK
  <2>1. S!TypeOK /\ todo \subseteq S!Workers \X Nat
    BY <1>1, ShardFacts DEF MergeInv, MergeTypes
  <2>2. ToSet(loaded) \subseteq S!Rows
    BY <1>1, SetOfSequence DEF MergeInv, MergeTypes
  <2> QED
    BY <1>1, <2>1, <2>2 DEF MergeInv, MergeTypes, TypeOK
<1> QED
  BY <1>1, MergeAlways, PTL

\* What the splits hold when a merge is finished.
LEMMA Merged ==
  ASSUME MergeInv, stage = "finished"
  PROVE  /\ UNION {ToSet(data[s]) : s \in Splits} = ToSet(loaded)
         /\ Cardinality(ToSet(loaded))
              = Len(data["train"]) + Len(data["validation"]) + Len(data["test"])
<1>1. loaded \in Seq(Int) /\ NoneTwice(loaded)
  BY RowsAreNumbers DEF MergeInv, MergeTypes
<1>2. \A s \in Splits : data[s] = Split(loaded)[s]
  BY DEF MergeInv, Written, Splits
<1>3. /\ UNION {ToSet(Split(loaded)[s]) : s \in Splits} = ToSet(loaded)
      /\ Cardinality(ToSet(loaded)) = Len(Split(loaded)["train"])
             + Len(Split(loaded)["validation"]) + Len(Split(loaded)["test"])
  BY <1>1, SplitRows
<1> QED
  BY <1>2, <1>3 DEF Splits

\* DatasetComplete: a finished merge has all the rows that could be read when
\* it began, although it reads the files one after the other while workers
\* append to them (load_all_rows), and whatever merges before it left behind.
THEOREM DatasetCompleteAlways == Spec => []DatasetComplete
<1>1. MergeInv => DatasetComplete
  BY Merged, Zenon DEF DatasetComplete, MergeInv, NoneMissed
<1> QED
  BY <1>1, MergeAlways, PTL

\* RowsOnce: no row is in two splits or twice in one, however often it was
\* stored and in whatever order the files were read (load_all_rows and
\* deterministic_split).
THEOREM RowsOnceAlways == Spec => []RowsOnce
<1>1. MergeInv => RowsOnce
  BY Merged DEF RowsOnce
<1> QED
  BY <1>1, MergeAlways, PTL

----------------------------------------------------------------------------
\* ShardSizes: rows_per_shard_file bounds the files of the workers, whatever
\* kills and full disks do to the counts of the ShardWriters.
THEOREM ShardSizesAlways == Spec => []ShardSizes
<1>1. P!Spec => []P!ShardSizes
  BY SizesAreNumbers, P!ShardSizesAlways
<1>2. P!ShardSizes => ShardSizes
  BY SameFiles, SameWorkers, Zenon DEF ShardSizes, S!ShardSizes, P!ShardSizes
<1> QED
  BY <1>1, <1>2, ShardsGoOn, PTL

\* DamageBounded: a kill or a write that raises costs at most one of the rows
\* whose write has returned, whatever merges read meanwhile.
THEOREM DamageBoundedAlways == Spec => []DamageBounded
<1>1. P!Spec => []P!DamageBounded
  BY SizesAreNumbers, P!DamageBoundedAlways
<1>2. P!DamageBounded => DamageBounded
  <2>1. S!Stored = P!Stored
    BY SameFiles, SameWorkers DEF S!Stored, P!Stored
  <2> QED
    BY <2>1, SameCardinality, Zenon DEF DamageBounded, S!DamageBounded, P!DamageBounded
<1> QED
  BY <1>1, <1>2, ShardsGoOn, PTL
==============================================================================
