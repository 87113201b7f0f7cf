--------------------------- MODULE ChunkingProofs ---------------------------
(* That texts are cut where they should be, into chunks of the size they   *)
(* should have, which stay when the text grows: for all texts and settings.*)
EXTENDS Chunking, FiniteSetTheorems, TLAPS

----------------------------------------------------------------------------
(* Recursion. *)

\* What holds at 0 and goes on from each number to the next holds up to n.
LEMMA Climb ==
  ASSUME NEW n \in Nat, NEW T, 0 \in T, \A k \in 1..n : k - 1 \in T => k \in T
  PROVE  \A k \in 0..n : k \in T
<1> DEFINE X == {k \in 0..n : k \notin T}
           Y == {0..x : x \in X}
<1>1. SUFFICES ASSUME X # {}
               PROVE  FALSE
  OBVIOUS
<1>2. Y \subseteq FiniteSubsetsOf(0..n) /\ Y # {}
  <2>1. \A x \in X : 0..x \in SUBSET (0..n)
    OBVIOUS
  <2>2. IsFiniteSet(0..n)
    BY FS_Interval
  <2> QED
    BY <1>1, <2>1, <2>2, FS_FiniteSubsetsOfFinite
<1>3. PICK U \in Y : \A V \in Y : ~ (<<V, U>> \in StrictSubsetOrdering(0..n))
  <2> HIDE DEF Y
  <2> QED
    BY <1>2, FS_StrictSubsetOrderingWellFounded, WFMin
<1>4. PICK x \in X : U = 0..x
  BY <1>3
<1>5. x \in 1..n /\ x - 1 \in 0..n
  OBVIOUS
<1>6. x - 1 \in X
  BY <1>5
<1>7. 0..(x - 1) \subseteq 0..x /\ x \in 0..x /\ x \notin 0..(x - 1) /\ 0..x \subseteq 0..n
  OBVIOUS
<1>8. <<0..(x - 1), U>> \in StrictSubsetOrdering(0..n)
  BY <1>4, <1>7 DEF StrictSubsetOrdering
<1> QED
  BY <1>3, <1>6, <1>8

Iterates(f, n, V, b, F) ==
    /\ f \in [0..n -> V]
    /\ f[0] = b
    /\ \A k \in 1..n : f[k] = F[<<f[k - 1], k>>]

\* A function defined by recursion on 0..n exists, when F takes it from each
\* value to the next.
LEMMA Recursion ==
  ASSUME NEW n \in Nat, NEW V, NEW b \in V, NEW F \in [V \X (1..n) -> V]
  PROVE  \E f : Iterates(f, n, V, b, F)
<1> DEFINE Upto(f, m) == f[0] = b /\ \A k \in 1..m : f[k] = F[<<f[k - 1], k>>]
           T == {m \in 0..n : \E f \in [0..m -> V] : Upto(f, m)}
<1>1. 0 \in T
  <2>1. [k \in 0..0 |-> b] \in [0..0 -> V] /\ Upto([k \in 0..0 |-> b], 0)
    OBVIOUS
  <2>2. \E f \in [0..0 -> V] : Upto(f, 0)
    BY <2>1, Zenon
  <2> QED
    BY <2>2
<1>2. ASSUME NEW m \in 1..n, m - 1 \in T
      PROVE  m \in T
  <2>1. PICK f \in [0..(m - 1) -> V] : Upto(f, m - 1)
    BY <1>2
  <2> DEFINE g == [k \in 0..m |-> IF k = m THEN F[<<f[m - 1], m>>] ELSE f[k]]
  <2>2. m - 1 \in 0..(m - 1) /\ \A k \in 0..m : k # m => k \in 0..(m - 1)
    OBVIOUS
  <2>3. g \in [0..m -> V]
    <3>1. F[<<f[m - 1], m>>] \in V
      BY <2>2
    <3> QED
      BY <2>2, <3>1
  <2>4. g[0] = b /\ g[m] = F[<<g[m - 1], m>>]
    <3>1. /\ 0 \in 0..m /\ m \in 0..m /\ m - 1 \in 0..m
          /\ 0 # m /\ m - 1 # m
      OBVIOUS
    <3> QED
      BY <2>1, <3>1
  <2>5. ASSUME NEW k \in 1..m, k # m
        PROVE  g[k] = F[<<g[k - 1], k>>]
    <3>1. k \in 1..(m - 1) /\ k - 1 \in 0..(m - 1) /\ k - 1 # m /\ k \in 0..m /\ k - 1 \in 0..m
      BY <2>5
    <3> QED
      BY <2>1, <2>5, <3>1
  <2>6. Upto(g, m)
    BY <2>4, <2>5
  <2> HIDE DEF g, Upto
  <2> QED
    BY <2>3, <2>6
<1> HIDE DEF T
<1>3. n \in T
  BY <1>1, <1>2, Climb
<1> QED
  BY <1>3 DEF T, Iterates

----------------------------------------------------------------------------
(* The characters of a chunk. *)

Lengths == Nat \ {0}

\* u[k] characters are in the first k paragraphs of s.
Counts(u, s) ==
    /\ u \in [0..Len(s) -> Nat]
    /\ u[0] = 0
    /\ \A k \in 1..Len(s) : u[k] = u[k - 1] + s[k] + (IF k = 1 THEN 0 ELSE 2)

LEMMA CharsCount ==
  ASSUME NEW s \in Seq(Nat)
  PROVE  \E u : Counts(u, s) /\ Chars(s) = u[Len(s)]
<1>0. PICK n \in Nat : n = Len(s)
  OBVIOUS
<1> DEFINE Looping(f) == f = [k \in 0..n |-> IF k = 0 THEN 0
                                             ELSE f[k - 1] + s[k] + (IF k = 1 THEN 0 ELSE 2)]
           upto == CHOOSE f : Looping(f)
<1>1. \E f : Looping(f)
  <2> DEFINE F == [x \in Nat \X (1..n) |-> x[1] + s[x[2]] + (IF x[2] = 1 THEN 0 ELSE 2)]
  <2>1. \A c \in Nat, k \in 1..n : c + s[k] + (IF k = 1 THEN 0 ELSE 2) \in Nat
    BY <1>0
  <2>2. \A c \in Nat, k \in 1..n : F[<<c, k>>] = c + s[k] + (IF k = 1 THEN 0 ELSE 2)
    OBVIOUS
  <2>3. F \in [Nat \X (1..n) -> Nat]
    BY <2>1
  <2> HIDE DEF F
  <2>4. 0 \in Nat
    OBVIOUS
  <2>5. PICK f : Iterates(f, n, Nat, 0, F)
    BY <1>0, <2>3, <2>4, Recursion, Zenon
  <2>6. /\ f \in [0..n -> Nat]
        /\ f[0] = 0 /\ \A k \in 1..n : f[k] = F[<<f[k - 1], k>>]
        /\ f = [k \in 0..n |-> f[k]]
    BY <2>5 DEF Iterates
  <2>7. ASSUME NEW k \in 1..n
        PROVE  f[k] = f[k - 1] + s[k] + (IF k = 1 THEN 0 ELSE 2)
    <3>1. k - 1 \in 0..n
      OBVIOUS
    <3> QED
      BY <2>2, <2>6, <3>1
  <2>8. \A k \in 0..n : k # 0 => k \in 1..n
    OBVIOUS
  <2>9. Looping(f)
    BY <2>6, <2>7, <2>8
  <2> QED
    BY <2>9
<1>2. Looping(upto)
  BY <1>1
<1>3. Chars(s) = upto[n]
  BY <1>0 DEF Chars
<1> HIDE DEF upto
<1>4. upto[0] = 0 /\ \A k \in 1..n : upto[k] = upto[k - 1] + s[k] + (IF k = 1 THEN 0 ELSE 2)
  <2>1. 0 \in 0..n /\ \A k \in 1..n : k \in 0..n /\ k # 0
    BY <1>0
  <2> QED
    BY <1>2, <2>1, Zenon
<1>5. upto \in [0..n -> Nat]
  <2> DEFINE T == {k \in 0..n : upto[k] \in Nat}
  <2>1. 0 \in T /\ \A k \in 1..n : k - 1 \in T => k \in T
    BY <1>0, <1>4
  <2> HIDE DEF T
  <2>2. \A k \in 0..n : k \in T
    BY <1>0, <2>1, Climb, Zenon
  <2> QED
    BY <1>2, <2>2 DEF T
<1> QED
  BY <1>0, <1>3, <1>4, <1>5 DEF Counts

LEMMA CharsAre ==
  /\ Chars(<<>>) = 0
  /\ \A s \in Seq(Nat) : Chars(s) \in Nat
  /\ \A s \in Seq(Nat), p \in Nat :
        Chars(Append(s, p)) = IF s = <<>> THEN p ELSE Chars(s) + 2 + p
<1>1. Chars(<<>>) = 0
  <2>1. <<>> \in Seq(Nat) /\ Len(<<>>) = 0
    OBVIOUS
  <2> QED
    BY <2>1, CharsCount DEF Counts
<1>2. ASSUME NEW s \in Seq(Nat)
      PROVE  Chars(s) \in Nat
  <2>1. PICK u : Counts(u, s) /\ Chars(s) = u[Len(s)]
    BY CharsCount
  <2>2. Len(s) \in 0..Len(s)
    OBVIOUS
  <2> QED
    BY <2>1, <2>2 DEF Counts
<1>3. ASSUME NEW s \in Seq(Nat), NEW p \in Nat
      PROVE  Chars(Append(s, p)) = IF s = <<>> THEN p ELSE Chars(s) + 2 + p
  <2>1. PICK q : q = Append(s, p)
    OBVIOUS
  <2>2. PICK n \in Nat : n = Len(s)
    OBVIOUS
  <2>3. /\ q \in Seq(Nat) /\ Len(q) = n + 1 /\ q[n + 1] = p
        /\ \A k \in 1..n : q[k] = s[k]
        /\ s = <<>> <=> n = 0
    BY <2>1, <2>2
  <2>4. PICK u : Counts(u, s) /\ Chars(s) = u[n]
    BY <2>2, CharsCount
  <2>5. PICK v : Counts(v, q) /\ Chars(q) = v[n + 1]
    BY <2>3, CharsCount
  <2> DEFINE T == {k \in 0..n : v[k] = u[k]}
  <2>6. 0 \in T
    BY <2>4, <2>5, <2>2 DEF Counts
  <2>7. ASSUME NEW k \in 1..n, k - 1 \in T
        PROVE  k \in T
    <3>1. k \in 1..(n + 1) /\ k \in 0..n
      BY <2>2
    <3>2. v[k] = v[k - 1] + q[k] + (IF k = 1 THEN 0 ELSE 2)
      BY <2>3, <2>5, <3>1 DEF Counts
    <3>3. u[k] = u[k - 1] + s[k] + (IF k = 1 THEN 0 ELSE 2)
      BY <2>2, <2>4 DEF Counts
    <3>4. v[k - 1] = u[k - 1] /\ q[k] = s[k]
      BY <2>3, <2>7
    <3> QED
      BY <3>1, <3>2, <3>3, <3>4
  <2> HIDE DEF T
  <2>8. n \in T
    <3>1. \A k \in 0..n : k \in T
      BY <2>2, <2>6, <2>7, Climb
    <3> QED
      BY <2>2, <3>1
  <2>9. v[n] = u[n]
    BY <2>8 DEF T
  <2>10. v[n + 1] = v[n] + p + (IF n = 0 THEN 0 ELSE 2)
    <3>1. n + 1 \in 1..(n + 1) /\ n + 1 - 1 = n /\ (n + 1 = 1 <=> n = 0)
      BY <2>2
    <3> QED
      BY <2>3, <2>5, <3>1 DEF Counts
  <2>11. u[n] \in Nat /\ (n = 0 => u[n] = 0)
    <3>1. n \in 0..n
      BY <2>2
    <3> QED
      BY <2>2, <2>4, <3>1 DEF Counts
  <2> QED
    BY <2>1, <2>3, <2>4, <2>5, <2>9, <2>10, <2>11
<1> QED
  BY <1>1, <1>2, <1>3

----------------------------------------------------------------------------
(* The loop. *)

\* A paragraph alone may be longer than MAX_CHARS, paragraphs that are joined
\* may not.
Fits(chunk) == Len(chunk) = 1 \/ Chars(chunk) <= MAX_CHARS

Fitting == {chunk \in Seq(Lengths) : chunk # <<>> /\ Fits(chunk)}

\* What the loop may have done so far.
States == [chunks : Seq(Fitting), buf : Fitting \cup {<<>>}]

Start == [chunks |-> <<>>, buf |-> <<>>]

LEMMA LengthsAreNumbers == ASSUME NEW s \in Seq(Lengths) PROVE s \in Seq(Nat)
<1>1. \A k \in 1..Len(s) : s[k] \in Nat
  BY DEF Lengths
<1>2. s = [k \in 1..Len(s) |-> s[k]] /\ Len(s) \in Nat
  OBVIOUS
<1> QED
  BY <1>1, <1>2

\* Whether a turn of the loop begins another chunk with p.
Splits(d, p) == Chars(Append(d.buf, p)) > MAX_CHARS /\ d.buf # <<>>

LEMMA Candidate ==
  ASSUME NEW d \in States, NEW p \in Lengths
  PROVE  /\ d.chunks \in Seq(Fitting) /\ d.buf \in Fitting \cup {<<>>}
         /\ Append(d.buf, p) \in Seq(Lengths)
         /\ Append(d.buf, p) # <<>>
         /\ Chars(Append(d.buf, p)) \in Nat
         /\ Chars(d.buf) \in Nat
         /\ Chars(Append(d.buf, p)) = IF d.buf = <<>> THEN p ELSE Chars(d.buf) + 2 + p
         /\ ~Splits(d, p) => Append(d.buf, p) \in Fitting
         /\ <<p>> \in Fitting /\ Chars(<<p>>) = p
<1>1. d.chunks \in Seq(Fitting) /\ d.buf \in Fitting \cup {<<>>}
  BY DEF States
<1>2. d.buf \in Seq(Lengths) /\ <<>> \in Seq(Nat) /\ p \in Nat
  <2>1. <<>> \in Seq(Lengths) /\ <<>> \in Seq(Nat)
    OBVIOUS
  <2>2. p \in Nat
    BY DEF Lengths
  <2> QED
    BY <1>1, <2>1, <2>2 DEF Fitting
<1>3. Append(d.buf, p) \in Seq(Lengths) /\ Append(d.buf, p) # <<>>
  BY <1>2
<1>4. d.buf \in Seq(Nat) /\ Append(d.buf, p) \in Seq(Nat)
  BY <1>2, <1>3, LengthsAreNumbers
<1>5. /\ Chars(Append(d.buf, p)) = IF d.buf = <<>> THEN p ELSE Chars(d.buf) + 2 + p
      /\ Chars(Append(d.buf, p)) \in Nat /\ Chars(d.buf) \in Nat
  BY <1>2, <1>4, CharsAre
<1>6. <<p>> = Append(<<>>, p) /\ <<p>> \in Seq(Lengths) /\ <<p>> # <<>> /\ Len(<<p>>) = 1
  OBVIOUS
<1>7. Chars(<<p>>) = p
  BY <1>2, <1>6, CharsAre
<1>8. ~Splits(d, p) => Append(d.buf, p) \in Fitting
  <2>1. CASE d.buf = <<>>
    BY <1>6, <2>1 DEF Fitting, Fits
  <2>2. CASE d.buf # <<>>
    BY <1>3, <1>5, <2>2, ChunkingAssumption DEF Fitting, Fits, Splits
  <2> QED
    BY <2>1, <2>2
<1> QED
  BY <1>1, <1>3, <1>5, <1>6, <1>7, <1>8 DEF Fitting, Fits

\* The outcomes of a turn: the paragraph goes on or begins a chunk, and that
\* chunk is closed at once or not.
LEMMA Turn ==
  ASSUME NEW d \in States, NEW p \in Lengths
  PROVE  LET candidate == Append(d.buf, p) IN
         \/ /\ ~Splits(d, p) /\ Chars(candidate) < MAX_CHARS
            /\ Take(d, p) = [chunks |-> d.chunks, buf |-> candidate]
         \/ /\ ~Splits(d, p) /\ Chars(candidate) >= MAX_CHARS
            /\ Take(d, p) = [chunks |-> Append(d.chunks, candidate), buf |-> <<>>]
         \/ /\ Splits(d, p) /\ p < MAX_CHARS
            /\ Take(d, p) = [chunks |-> Append(d.chunks, d.buf), buf |-> <<p>>]
         \/ /\ Splits(d, p) /\ p >= MAX_CHARS
            /\ Take(d, p) = [chunks |-> Append(Append(d.chunks, d.buf), <<p>>), buf |-> <<>>]
<1> DEFINE candidate == Append(d.buf, p)
<1>1. /\ Chars(candidate) \in Nat /\ Chars(<<p>>) = p /\ p \in Nat
      /\ MIN_CHARS \in Nat /\ MAX_CHARS \in Nat /\ MIN_CHARS <= MAX_CHARS
  BY Candidate, ChunkingAssumption DEF Lengths
<1>2. CASE Splits(d, p)
  <2>1. Take(d, p) = IF p >= MAX_CHARS
                     THEN [chunks |-> Append(Append(d.chunks, d.buf), <<p>>), buf |-> <<>>]
                     ELSE [chunks |-> Append(d.chunks, d.buf), buf |-> <<p>>]
    BY <1>1, <1>2 DEF Take, Splits
  <2> QED
    BY <1>1, <1>2, <2>1
<1>3. CASE ~Splits(d, p)
  <2>1. Take(d, p) = IF Chars(candidate) >= MAX_CHARS
                     THEN [chunks |-> Append(d.chunks, candidate), buf |-> <<>>]
                     ELSE [chunks |-> d.chunks, buf |-> candidate]
    <3>1. (Chars(candidate) > MAX_CHARS /\ d.buf # <<>>) = FALSE
      BY <1>3 DEF Splits
    <3>2. Chars(candidate) >= MIN_CHARS /\ Chars(candidate) >= MAX_CHARS
            <=> Chars(candidate) >= MAX_CHARS
      BY <1>1
    <3> QED
      BY <3>1, <3>2, Zenon DEF Take
  <2> QED
    BY <1>1, <1>3, <2>1
<1> QED
  BY <1>2, <1>3

LEMMA TurnKeeps ==
  ASSUME NEW d \in States, NEW p \in Lengths
  PROVE  Take(d, p) \in States
<1>1. /\ d.chunks \in Seq(Fitting) /\ d.buf \in Fitting \cup {<<>>}
      /\ ~Splits(d, p) => Append(d.buf, p) \in Fitting
      /\ <<p>> \in Fitting
  BY Candidate
<1>2. Splits(d, p) => d.buf \in Fitting
  BY <1>1 DEF Splits
<1>3. PICK c : c = Append(d.buf, p)
  OBVIOUS
<1>4. \/ /\ ~Splits(d, p)
         /\ \/ Take(d, p) = [chunks |-> d.chunks, buf |-> c]
            \/ Take(d, p) = [chunks |-> Append(d.chunks, c), buf |-> <<>>]
      \/ /\ Splits(d, p)
         /\ \/ Take(d, p) = [chunks |-> Append(d.chunks, d.buf), buf |-> <<p>>]
            \/ Take(d, p) = [chunks |-> Append(Append(d.chunks, d.buf), <<p>>), buf |-> <<>>]
  BY <1>3, Turn
<1>5. \A q \in Seq(Fitting), x \in Fitting : Append(q, x) \in Seq(Fitting)
  OBVIOUS
<1>6. CASE ~Splits(d, p)
  <2>1. c \in Fitting
    BY <1>1, <1>3, <1>6
  <2>2. Append(d.chunks, c) \in Seq(Fitting)
    BY <1>1, <1>5, <2>1
  <2>3. /\ [chunks |-> d.chunks, buf |-> c] \in States
        /\ [chunks |-> Append(d.chunks, c), buf |-> <<>>] \in States
    BY <1>1, <2>1, <2>2 DEF States
  <2> QED
    BY <1>4, <1>6, <2>3
<1>7. CASE Splits(d, p)
  <2>1. Append(d.chunks, d.buf) \in Seq(Fitting)
    BY <1>1, <1>2, <1>5, <1>7
  <2>2. Append(Append(d.chunks, d.buf), <<p>>) \in Seq(Fitting)
    BY <1>1, <1>5, <2>1
  <2>3. /\ [chunks |-> Append(d.chunks, d.buf), buf |-> <<p>>] \in States
        /\ [chunks |-> Append(Append(d.chunks, d.buf), <<p>>), buf |-> <<>>] \in States
    BY <1>1, <2>1, <2>2 DEF States
  <2> QED
    BY <1>4, <1>7, <2>3
<1> QED
  BY <1>6, <1>7

LEMMA StartIsState == Start \in States
<1>1. <<>> \in Seq(Fitting)
  OBVIOUS
<1> QED
  BY <1>1 DEF Start, States

Turns(done, t) ==
    /\ done \in [0..Len(t) -> States]
    /\ done[0] = Start
    /\ \A k \in 1..Len(t) : done[k] = Take(done[k - 1], t[k])

LEMMA LoopTurns ==
  ASSUME NEW t \in Seq(Lengths)
  PROVE  \E done : Turns(done, t) /\ Loop(t) = done[Len(t)]
<1>0. PICK n \in Nat : n = Len(t)
  OBVIOUS
<1> DEFINE Looping(f) == f = [k \in 0..n |-> IF k = 0 THEN [chunks |-> <<>>, buf |-> <<>>]
                                             ELSE Take(f[k - 1], t[k])]
           done == CHOOSE f : Looping(f)
<1>1. \E f : Looping(f)
  <2> DEFINE F == [x \in States \X (1..n) |-> Take(x[1], t[x[2]])]
  <2>1. \A d \in States, k \in 1..n : Take(d, t[k]) \in States
    BY <1>0, TurnKeeps
  <2>2. \A d \in States, k \in 1..n : F[<<d, k>>] = Take(d, t[k])
    OBVIOUS
  <2>3. F \in [States \X (1..n) -> States]
    BY <2>1
  <2> HIDE DEF F
  <2>4. Start \in States
    BY StartIsState
  <2>5. PICK f : Iterates(f, n, States, Start, F)
    BY <1>0, <2>3, <2>4, Recursion, Zenon
  <2>6. /\ f \in [0..n -> States]
        /\ f[0] = Start /\ \A k \in 1..n : f[k] = F[<<f[k - 1], k>>]
        /\ f = [k \in 0..n |-> f[k]]
    BY <2>5 DEF Iterates
  <2>7. ASSUME NEW k \in 1..n
        PROVE  f[k] = Take(f[k - 1], t[k])
    <3>1. k - 1 \in 0..n
      OBVIOUS
    <3> QED
      BY <2>2, <2>6, <3>1
  <2>8. \A k \in 0..n : k # 0 => k \in 1..n
    OBVIOUS
  <2>9. Looping(f)
    BY <2>6, <2>7, <2>8 DEF Start
  <2> QED
    BY <2>9
<1>2. Looping(done)
  BY <1>1
<1>3. Loop(t) = done[n]
  BY <1>0 DEF Loop
<1> HIDE DEF done
<1>4. done[0] = Start /\ \A k \in 1..n : done[k] = Take(done[k - 1], t[k])
  <2>1. 0 \in 0..n /\ \A k \in 1..n : k \in 0..n /\ k # 0
    BY <1>0
  <2> QED
    BY <1>2, <2>1, Zenon DEF Start
<1>5. done \in [0..n -> States]
  <2> DEFINE T == {k \in 0..n : done[k] \in States}
  <2>1. 0 \in T
    BY <1>0, <1>4, StartIsState
  <2>2. ASSUME NEW k \in 1..n, k - 1 \in T
        PROVE  k \in T
    <3>1. t[k] \in Lengths /\ k \in 0..n
      BY <1>0
    <3> QED
      BY <1>4, <2>2, <3>1, TurnKeeps
  <2> HIDE DEF T
  <2>3. \A k \in 0..n : k \in T
    BY <1>0, <2>1, <2>2, Climb
  <2> QED
    BY <1>2, <2>3 DEF T
<1> QED
  BY <1>0, <1>3, <1>4, <1>5 DEF Turns

\* One paragraph more is one turn more.
LEMMA LoopGoesOn ==
  /\ Loop(<<>>) = Start
  /\ \A t \in Seq(Lengths) : Loop(t) \in States
  /\ \A t \in Seq(Lengths), p \in Lengths : Loop(Append(t, p)) = Take(Loop(t), p)
<1>1. Loop(<<>>) = Start
  <2>1. <<>> \in Seq(Lengths) /\ Len(<<>>) = 0
    OBVIOUS
  <2> QED
    BY <2>1, LoopTurns DEF Turns
<1>2. ASSUME NEW t \in Seq(Lengths)
      PROVE  Loop(t) \in States
  <2>1. PICK done : Turns(done, t) /\ Loop(t) = done[Len(t)]
    BY LoopTurns
  <2>2. Len(t) \in 0..Len(t)
    OBVIOUS
  <2> QED
    BY <2>1, <2>2 DEF Turns
<1>3. ASSUME NEW t \in Seq(Lengths), NEW p \in Lengths
      PROVE  Loop(Append(t, p)) = Take(Loop(t), p)
  <2>1. PICK q : q = Append(t, p)
    OBVIOUS
  <2>2. PICK n \in Nat : n = Len(t)
    OBVIOUS
  <2>3. /\ q \in Seq(Lengths) /\ Len(q) = n + 1 /\ q[n + 1] = p
        /\ \A k \in 1..n : q[k] = t[k]
    BY <2>1, <2>2
  <2>4. PICK u : Turns(u, t) /\ Loop(t) = u[n]
    BY <2>2, LoopTurns
  <2>5. PICK v : Turns(v, q) /\ Loop(q) = v[n + 1]
    BY <2>3, LoopTurns
  <2> DEFINE T == {k \in 0..n : v[k] = u[k]}
  <2>6. 0 \in T
    BY <2>2, <2>4, <2>5 DEF Turns
  <2>7. ASSUME NEW k \in 1..n, k - 1 \in T
        PROVE  k \in T
    <3>1. k \in 1..(n + 1) /\ k \in 0..n
      BY <2>2
    <3>2. v[k] = Take(v[k - 1], q[k])
      BY <2>3, <2>5, <3>1 DEF Turns
    <3>3. u[k] = Take(u[k - 1], t[k])
      BY <2>2, <2>4 DEF Turns
    <3>4. v[k - 1] = u[k - 1] /\ q[k] = t[k]
      BY <2>3, <2>7
    <3> QED
      BY <3>1, <3>2, <3>3, <3>4
  <2> HIDE DEF T
  <2>8. n \in T
    <3>1. \A k \in 0..n : k \in T
      BY <2>2, <2>6, <2>7, Climb
    <3> QED
      BY <2>2, <3>1
  <2>9. v[n] = u[n]
    BY <2>8 DEF T
  <2>10. v[n + 1] = Take(v[n], p)
    <3>1. PICK m : m = n + 1 /\ m \in 1..(n + 1) /\ m - 1 = n
      BY <2>2
    <3>2. \A k \in 1..(n + 1) : v[k] = Take(v[k - 1], q[k])
      BY <2>3, <2>5 DEF Turns
    <3>3. v[m] = Take(v[m - 1], q[m])
      BY <3>1, <3>2
    <3> QED
      BY <2>3, <3>1, <3>3
  <2> QED
    BY <2>1, <2>4, <2>5, <2>9, <2>10
<1> QED
  BY <1>1, <1>2, <1>3

----------------------------------------------------------------------------
(* The tail. *)

\* What is left in the buffer is too short for a chunk of its own.
Joins(d) == Len(d.chunks) > 0 /\ Chars(d.buf) < MIN_CHARS

LEMMA Closing ==
  ASSUME NEW d \in States
  PROVE  /\ d.buf = <<>> => Close(d) = d.chunks
         /\ d.buf # <<>> /\ ~Joins(d) => Close(d) = Append(d.chunks, d.buf)
         /\ d.buf # <<>> /\ Joins(d) =>
               Close(d) = [d.chunks EXCEPT ![Len(d.chunks)] = @ \o d.buf]
<1>1. d.buf = <<>> => Close(d) = d.chunks
  BY DEF Close
<1>2. d.buf # <<>> /\ ~Joins(d) => Close(d) = Append(d.chunks, d.buf)
  BY DEF Close, Joins
<1>3. d.buf # <<>> /\ Joins(d) => Close(d) = [d.chunks EXCEPT ![Len(d.chunks)] = @ \o d.buf]
  BY DEF Close, Joins
<1> QED
  BY <1>1, <1>2, <1>3

LEMMA Closed ==
  ASSUME NEW d \in States
  PROVE  /\ Len(Close(d)) = IF d.buf = <<>> \/ Joins(d) THEN Len(d.chunks)
                            ELSE Len(d.chunks) + 1
         /\ \A k \in 1..Len(d.chunks) :
               k < Len(d.chunks) \/ d.buf = <<>> \/ ~Joins(d) => Close(d)[k] = d.chunks[k]
<1>1. PICK q \in Seq(Fitting) : q = d.chunks
  BY DEF States
<1>2. CASE d.buf = <<>>
  BY <1>1, <1>2, Closing
<1>3. CASE d.buf # <<>> /\ ~Joins(d)
  <2>1. d.buf \in Fitting /\ Close(d) = Append(q, d.buf)
    BY <1>1, <1>3, Closing DEF States
  <2>2. Len(Append(q, d.buf)) = Len(q) + 1 /\ \A k \in 1..Len(q) : Append(q, d.buf)[k] = q[k]
    BY <1>1
  <2> QED
    BY <1>1, <1>3, <2>1, <2>2
<1>4. CASE d.buf # <<>> /\ Joins(d)
  <2>1. Close(d) = [q EXCEPT ![Len(q)] = @ \o d.buf]
    BY <1>1, <1>4, Closing
  <2>2. /\ Len([q EXCEPT ![Len(q)] = @ \o d.buf]) = Len(q)
        /\ \A k \in 1..Len(q) : k < Len(q) => [q EXCEPT ![Len(q)] = @ \o d.buf][k] = q[k]
    BY <1>1
  <2> QED
    BY <1>1, <1>4, <2>1, <2>2
<1> QED
  BY <1>2, <1>3, <1>4

----------------------------------------------------------------------------
(* The sizes of the chunks. *)

TextInv ==
    /\ text \in Seq(Lengths)
    /\ jsonl \in BOOLEAN /\ raw \in BOOLEAN
    /\ raw => text # <<>>

\* The last paragraph p of a text.
Ends(s, t, p) ==
    /\ t \in Seq(Lengths)
    /\ p \in Lengths
    /\ s = Append(t, p)

LEMMA LastParagraph ==
  ASSUME NEW s \in Seq(Lengths), s # <<>>
  PROVE  \E t : /\ Ends(s, t, s[Len(s)])
                /\ \A p \in Lengths : Ends([s EXCEPT ![Len(s)] = p], t, p)
                /\ t = SubSeq(s, 1, Len(s) - 1)
<1>1. PICK n \in Nat : Len(s) = n + 1
  <2>1. Len(s) - 1 \in Nat /\ Len(s) = (Len(s) - 1) + 1
    OBVIOUS
  <2> QED
    BY <2>1
<1> DEFINE t == [k \in 1..n |-> s[k]]
<1>2. t \in Seq(Lengths) /\ Len(t) = n /\ s[n + 1] \in Lengths
  BY <1>1
<1>3. ASSUME NEW p \in Lengths
      PROVE  /\ Append(t, p) = [k \in 1..(n + 1) |-> IF k = n + 1 THEN p ELSE s[k]]
             /\ [s EXCEPT ![Len(s)] = p] = [k \in 1..(n + 1) |-> IF k = n + 1 THEN p ELSE s[k]]
  <2>1. Append(t, p) = [k \in 1..(n + 1) |-> IF k = n + 1 THEN p ELSE s[k]]
    <3>1. /\ Append(t, p) \in Seq(Lengths) /\ Len(Append(t, p)) = n + 1
          /\ Append(t, p)[n + 1] = p
          /\ \A k \in 1..n : Append(t, p)[k] = s[k]
      BY <1>2
    <3> HIDE DEF t
    <3>2. \A k \in 1..(n + 1) : k = n + 1 \/ k \in 1..n
      BY <1>1
    <3>3. PICK q : q = Append(t, p)
      OBVIOUS
    <3>4. q = [k \in 1..(n + 1) |-> q[k]]
      <4>1. q \in Seq(Lengths) /\ Len(q) = n + 1
        BY <3>1, <3>3
      <4>2. q = [k \in 1..Len(q) |-> q[k]]
        BY <4>1
      <4> QED
        BY <4>1, <4>2
    <3>5. \A k \in 1..(n + 1) : q[k] = IF k = n + 1 THEN p ELSE s[k]
      BY <1>1, <3>1, <3>2, <3>3
    <3> QED
      BY <3>3, <3>4, <3>5
  <2>2. [s EXCEPT ![Len(s)] = p] = [k \in 1..(n + 1) |-> IF k = n + 1 THEN p ELSE s[k]]
    <3>1. DOMAIN s = 1..(n + 1) /\ Len(s) = n + 1
      BY <1>1
    <3> QED
      BY <3>1
  <2> QED
    BY <2>1, <2>2
<1>4. s = [k \in 1..(n + 1) |-> IF k = n + 1 THEN s[n + 1] ELSE s[k]]
  BY <1>1
<1>7. t = SubSeq(s, 1, Len(s) - 1)
  <2>1. Len(s) - 1 = n
    BY <1>1
  <2>2. SubSeq(s, 1, n) = [k \in 1..n |-> s[k]]
    BY <1>1
  <2> QED
    BY <2>1, <2>2
<1> HIDE DEF t
<1>5. Ends(s, t, s[Len(s)])
  BY <1>1, <1>2, <1>3, <1>4 DEF Ends
<1>6. \A p \in Lengths : Ends([s EXCEPT ![Len(s)] = p], t, p)
  BY <1>2, <1>3 DEF Ends
<1> QED
  BY <1>5, <1>6, <1>7

\* A step adds a paragraph, or makes the last one longer, or, when a line
\* becomes whole, puts any paragraphs in its place.
LEMMA TextMoves ==
  ASSUME TextInv, [Next]_vars
  PROVE  \/ \E p : Ends(text', text, p)
         \/ \E t, p, q : Ends(text, t, p) /\ Ends(text', t, q) /\ p <= q
         \/ /\ raw /\ ~raw'
            /\ \E t, p, r : Ends(text, t, p) /\ r \in Seq(Lengths) /\ text' = t \o r
         \/ text' = text
<1>1. ASSUME AddParagraph
      PROVE  \E p : Ends(text', text, p)
  <2>1. PICK p \in 1..MaxLength : text' = Append(text, p)
    BY <1>1 DEF AddParagraph
  <2>2. p \in Lengths
    BY ChunkingAssumption DEF Lengths
  <2> QED
    BY <2>1, <2>2 DEF TextInv, Ends
<1>2. ASSUME Grow \/ LineEnds
      PROVE  \/ \E t, p, q : Ends(text, t, p) /\ Ends(text', t, q) /\ p <= q
             \/ /\ raw /\ ~raw'
                /\ \E t, p, r : Ends(text, t, p) /\ r \in Seq(Lengths) /\ text' = t \o r
  <2>1. text \in Seq(Lengths) /\ text # <<>>
    BY <1>2 DEF TextInv, Grow, LineEnds
  <2>2. PICK t : /\ Ends(text, t, text[Len(text)])
                 /\ \A p \in Lengths : Ends([text EXCEPT ![Len(text)] = p], t, p)
                 /\ t = SubSeq(text, 1, Len(text) - 1)
    BY <2>1, LastParagraph
  <2>3. PICK p \in Lengths : p = text[Len(text)]
    BY <2>2 DEF Ends
  <2>4. CASE Grow
    <3>1. text' = [text EXCEPT ![Len(text)] = p + 1]
      BY <2>3, <2>4 DEF Grow
    <3>2. p + 1 \in Lengths /\ p <= p + 1
      BY DEF Lengths
    <3> QED
      BY <2>2, <2>3, <3>1, <3>2
  <2>5. CASE LineEnds
    <3>0. PICK k \in 0..(MaxParagraphs + 1 - Len(text)) :
              \E r \in [1..k -> 1..MaxLength] : text' = SubSeq(text, 1, Len(text) - 1) \o r
      BY <2>5 DEF LineEnds
    <3>1. PICK r \in [1..k -> 1..MaxLength] : text' = SubSeq(text, 1, Len(text) - 1) \o r
      BY <3>0
    <3>2. raw /\ ~raw'
      BY <2>5 DEF LineEnds
    <3>3. r \in Seq(Lengths)
      <4>1. 1..MaxLength \subseteq Lengths
        BY ChunkingAssumption DEF Lengths
      <4>2. k \in Nat
        BY <2>1, ChunkingAssumption
      <4> QED
        BY <4>1, <4>2
    <3> QED
      BY <2>2, <3>1, <3>2, <3>3, Zenon
  <2> QED
    BY <1>2, <2>4, <2>5, Zenon
<1> QED
  BY <1>1, <1>2 DEF Next, vars

LEMMA TextStep ==
  ASSUME TextInv, [Next]_vars
  PROVE  TextInv'
<1>1. \/ text' \in Seq(Lengths) /\ text' # <<>>
      \/ text' \in Seq(Lengths) /\ ~raw'
      \/ text' = text
  <2>1. ASSUME NEW s, NEW t, NEW p, Ends(s, t, p)
        PROVE  s \in Seq(Lengths) /\ s # <<>> /\ t \in Seq(Lengths)
    BY <2>1 DEF Ends
  <2>2. ASSUME NEW t \in Seq(Lengths), NEW r \in Seq(Lengths)
        PROVE  t \o r \in Seq(Lengths)
    OBVIOUS
  <2> QED
    BY <2>1, <2>2, TextMoves, Zenon
<1>2. CASE AddParagraph
  <2>1. PICK p : text' = Append(text, p)
    BY <1>2 DEF AddParagraph
  <2>2. text' # text /\ text' # <<>>
    BY <2>1 DEF TextInv
  <2>3. raw' = jsonl /\ jsonl' = jsonl
    BY <1>2 DEF AddParagraph
  <2> QED
    BY <1>1, <2>2, <2>3 DEF TextInv
<1>3. CASE Grow \/ LineEnds \/ UNCHANGED vars
  <2>1. jsonl' = jsonl /\ (raw' = raw \/ raw' = FALSE)
    BY <1>3 DEF Grow, LineEnds, vars
  <2>2. text' \in Seq(Lengths) /\ (raw' /\ text # <<>> => text' # <<>>)
    BY <1>1 DEF TextInv
  <2>3. raw' \in BOOLEAN /\ (raw' => raw)
    <3>1. raw \in BOOLEAN
      BY DEF TextInv
    <3>2. CASE raw' = raw
      BY <3>1, <3>2, Zenon
    <3>3. CASE raw' = FALSE
      BY <3>3
    <3> QED
      BY <2>1, <3>2, <3>3
  <2> QED
    BY <2>1, <2>2, <2>3 DEF TextInv
<1> QED
  BY <1>2, <1>3 DEF Next

LEMMA TextAlways == Spec => []TextInv
<1>1. Init => TextInv
  <2>1. <<>> \in Seq(Lengths)
    OBVIOUS
  <2> QED
    BY <2>1 DEF Init, TextInv
<1> QED
  BY <1>1, TextStep, PTL DEF Spec

LEMMA JoinedPieces ==
  ASSUME NEW a \in Seq(Lengths), NEW b \in Seq(Lengths), a # <<>>, b # <<>>
  PROVE  /\ Len(a) \in 1..(Len(a \o b) - 1)
         /\ SubSeq(a \o b, 1, Len(a)) = a
         /\ SubSeq(a \o b, Len(a) + 1, Len(a \o b)) = b
<1>1. PICK m \in Nat, n \in Nat : m = Len(a) /\ n = Len(b) /\ m # 0 /\ n # 0
  OBVIOUS
<1>2. PICK q : q = a \o b
  OBVIOUS
<1>3. /\ q \in Seq(Lengths) /\ Len(q) = m + n
      /\ \A k \in 1..m : q[k] = a[k]
      /\ \A k \in 1..n : q[m + k] = b[k]
  BY <1>1, <1>2
<1>4. SubSeq(q, 1, m) = [k \in 1..m |-> q[k]] /\ a = [k \in 1..m |-> a[k]]
  BY <1>1, <1>3
<1>5. SubSeq(q, m + 1, m + n) = [k \in 1..n |-> q[m + k]] /\ b = [k \in 1..n |-> b[k]]
  BY <1>1, <1>3
<1>6. SubSeq(q, 1, m) = a
  BY <1>3, <1>4
<1>7. SubSeq(q, m + 1, m + n) = b
  BY <1>3, <1>5
<1>8. m \in 1..(m + n - 1)
  BY <1>1
<1>9. /\ m \in 1..(Len(q) - 1)
      /\ SubSeq(q, 1, m) = a
      /\ SubSeq(q, m + 1, Len(q)) = b
  BY <1>3, <1>6, <1>7, <1>8
<1> QED
  BY <1>1, <1>2, <1>9, Zenon

\* SizeBounded: chunk_text keeps to max_chars, for every text and all settings
\* of min_chars and max_chars, but for a paragraph that is alone and for a tail
\* that is too short to be a chunk.
THEOREM SizeBoundedAlways == Spec => []SizeBounded
<1>1. ASSUME TextInv
      PROVE  SizeBounded
  <2>1. PICK d \in States : d = Loop(text)
    BY <1>1, LoopGoesOn DEF TextInv
  <2>2. PICK q \in Seq(Fitting) : q = d.chunks
    BY DEF States
  <2>3. PICK chunks : chunks = Chunks(text) /\ chunks = Close(d)
    BY <2>1 DEF Chunks
  <2>4. ASSUME NEW k \in DOMAIN chunks
        PROVE  \/ Fits(chunks[k])
               \/ /\ k = Len(chunks)
                  /\ \E i \in 1..(Len(chunks[k]) - 1) :
                        /\ Fits(SubSeq(chunks[k], 1, i))
                        /\ Chars(SubSeq(chunks[k], i + 1, Len(chunks[k]))) < MIN_CHARS
    <3>1. CASE d.buf = <<>>
      <4>1. chunks = q
        BY <2>2, <2>3, <3>1, Closing
      <4>2. q[k] \in Fitting
        BY <2>4, <4>1
      <4> QED
        BY <4>1, <4>2 DEF Fitting
    <3>2. CASE d.buf # <<>> /\ ~Joins(d)
      <4>1. chunks = Append(q, d.buf) /\ d.buf \in Fitting
        BY <2>2, <2>3, <3>2, Closing DEF States
      <4>2. chunks \in Seq(Fitting)
        BY <4>1
      <4>3. chunks[k] \in Fitting
        BY <2>4, <4>2
      <4> QED
        BY <4>3 DEF Fitting
    <3>3. CASE d.buf # <<>> /\ Joins(d)
      <4>1. PICK n \in Nat \ {0} : n = Len(q)
        BY <2>2, <3>3 DEF Joins
      <4>2. /\ chunks = [q EXCEPT ![n] = q[n] \o d.buf]
            /\ d.buf \in Fitting /\ q[n] \in Fitting
            /\ Chars(d.buf) < MIN_CHARS
        <5>1. chunks = [d.chunks EXCEPT ![Len(d.chunks)] = d.chunks[Len(d.chunks)] \o d.buf]
          BY <2>3, <3>3, Closing
        <5>2. Len(d.chunks) = n
          BY <2>2, <4>1
        <5>3. chunks = [q EXCEPT ![n] = q[n] \o d.buf]
          BY <2>2, <5>1, <5>2, Zenon
        <5>4. d.buf \in Fitting /\ Chars(d.buf) < MIN_CHARS
          BY <3>3 DEF States, Joins
        <5>5. q[n] \in Fitting
          BY <4>1
        <5> QED
          BY <5>3, <5>4, <5>5
      <4>3. /\ DOMAIN chunks = 1..n /\ Len(chunks) = n
            /\ chunks[n] = q[n] \o d.buf
            /\ \A j \in 1..n : j # n => chunks[j] = q[j]
        <5>1. PICK x : x = q[n] \o d.buf
          OBVIOUS
        <5>2. chunks = [q EXCEPT ![n] = x]
          BY <4>2, <5>1
        <5>3. DOMAIN q = 1..n /\ n \in 1..n
          BY <4>1
        <5>4. DOMAIN chunks = 1..n /\ chunks[n] = x /\ \A j \in 1..n : j # n => chunks[j] = q[j]
          BY <5>2, <5>3
        <5>5. Len([q EXCEPT ![n] = x]) = n
          BY <4>1
        <5> QED
          BY <5>1, <5>2, <5>4, <5>5
      <4>4. CASE k # n
        <5>1. chunks[k] = q[k] /\ q[k] \in Fitting
          BY <2>4, <4>1, <4>3, <4>4
        <5> QED
          BY <5>1 DEF Fitting
      <4>5. CASE k = n
        <5>1. PICK a : a = q[n]
          OBVIOUS
        <5>2. PICK b : b = d.buf
          OBVIOUS
        <5>3. /\ a \in Seq(Lengths) /\ a # <<>> /\ Fits(a)
              /\ b \in Seq(Lengths) /\ b # <<>>
          BY <4>2, <5>1, <5>2 DEF Fitting
        <5>4. /\ Len(a) \in 1..(Len(a \o b) - 1)
              /\ SubSeq(a \o b, 1, Len(a)) = a
              /\ SubSeq(a \o b, Len(a) + 1, Len(a \o b)) = b
          BY <5>3, JoinedPieces
        <5>5. chunks[k] = a \o b /\ Chars(b) < MIN_CHARS /\ k = Len(chunks)
          BY <4>2, <4>3, <4>5, <5>1, <5>2
        <5>6. \E i \in 1..(Len(a \o b) - 1) :
                 /\ Fits(SubSeq(a \o b, 1, i))
                 /\ Chars(SubSeq(a \o b, i + 1, Len(a \o b))) < MIN_CHARS
          BY <5>3, <5>4, <5>5, Zenon
        <5> QED
          BY <5>5, <5>6
      <4> QED
        BY <4>4, <4>5
    <3> QED
      BY <3>1, <3>2, <3>3
  <2> QED
    BY <2>3, <2>4, Zenon DEF SizeBounded, Fits
<1> QED
  BY <1>1, TextAlways, PTL

----------------------------------------------------------------------------
(* Chunks of a text that grows. *)

\* The chunks after a turn of the loop that began with d: those before stay but
\* for the last, which stays if it is not joined, and how many there are then
\* depends on how long the paragraph is.
LEMMA TurnCloses ==
  ASSUME NEW d \in States, NEW p \in Lengths,
         NEW n \in Nat, n = Len(d.chunks),
         NEW after, after = Close(Take(d, p))
  PROVE  /\ Len(after) = IF Splits(d, p) THEN IF p < MIN_CHARS THEN n + 1 ELSE n + 2
                         ELSE IF n > 0 /\ Chars(Append(d.buf, p)) < MIN_CHARS THEN n
                         ELSE n + 1
         /\ \A k \in 1..n : k < n \/ Len(after) > n => after[k] = d.chunks[k]
         /\ Len(after) = n + 2 => after[n + 1] = d.buf
<1>1. PICK q \in Seq(Fitting) : q = d.chunks
  BY DEF States
<1>2. PICK c : c = Append(d.buf, p)
  OBVIOUS
<1>3. /\ c # <<>> /\ Chars(c) \in Nat /\ Chars(<<p>>) = p /\ <<p>> # <<>>
      /\ ~Splits(d, p) => c \in Fitting
      /\ Splits(d, p) => d.buf \in Fitting
      /\ <<p>> \in Fitting /\ p \in Nat
  BY <1>2, Candidate DEF Splits, Lengths
<1>4. /\ MIN_CHARS \in Nat /\ MAX_CHARS \in Nat /\ MIN_CHARS <= MAX_CHARS /\ MIN_CHARS > 0
  BY ChunkingAssumption
<1>5. PICK e \in States : e = Take(d, p) /\ after = Close(e)
  BY TurnKeeps
<1>6. /\ Len(after) = IF e.buf = <<>> \/ Joins(e) THEN Len(e.chunks) ELSE Len(e.chunks) + 1
      /\ \A k \in 1..Len(e.chunks) :
            k < Len(e.chunks) \/ e.buf = <<>> \/ ~Joins(e) => after[k] = e.chunks[k]
  BY <1>5, Closed
<1>7. \/ ~Splits(d, p) /\ Chars(c) < MAX_CHARS /\ e = [chunks |-> q, buf |-> c]
      \/ ~Splits(d, p) /\ Chars(c) >= MAX_CHARS /\ e = [chunks |-> Append(q, c), buf |-> <<>>]
      \/ Splits(d, p) /\ p < MAX_CHARS /\ e = [chunks |-> Append(q, d.buf), buf |-> <<p>>]
      \/ Splits(d, p) /\ p >= MAX_CHARS
           /\ e = [chunks |-> Append(Append(q, d.buf), <<p>>), buf |-> <<>>]
  BY <1>1, <1>2, <1>5, Turn
<1>8. ASSUME NEW x, NEW r, r = Append(q, x)
      PROVE  Len(r) = n + 1 /\ r[n + 1] = x /\ \A k \in 1..n : r[k] = q[k]
  BY <1>1, <1>8
<1>9. CASE ~Splits(d, p) /\ Chars(c) < MAX_CHARS /\ e = [chunks |-> q, buf |-> c]
  <2>1. e.chunks = q /\ e.buf = c /\ (Joins(e) <=> n > 0 /\ Chars(c) < MIN_CHARS)
    BY <1>1, <1>9 DEF Joins
  <2>2. /\ Len(after) = IF Joins(e) THEN n ELSE n + 1
        /\ \A k \in 1..n : k < n \/ ~Joins(e) => after[k] = q[k]
    BY <1>1, <1>3, <1>6, <2>1
  <2>3. CASE Joins(e)
    <3>1. Len(after) = n /\ n # n + 2 /\ ~ (n > n)
      BY <2>2, <2>3
    <3>2. \A k \in 1..n : k < n => after[k] = d.chunks[k]
      BY <1>1, <2>2
    <3>3. n > 0 /\ Chars(Append(d.buf, p)) < MIN_CHARS
      BY <1>2, <2>1, <2>3
    <3>4. Len(after) = IF Splits(d, p) THEN IF p < MIN_CHARS THEN n + 1 ELSE n + 2
                       ELSE IF n > 0 /\ Chars(Append(d.buf, p)) < MIN_CHARS THEN n
                       ELSE n + 1
      BY <1>9, <3>1, <3>3, Zenon
    <3> QED
      BY <3>1, <3>2, <3>4, Zenon
  <2>4. CASE ~Joins(e)
    <3>1. Len(after) = n + 1 /\ n + 1 # n + 2
      BY <2>2, <2>4
    <3>2. \A k \in 1..n : after[k] = d.chunks[k]
      BY <1>1, <2>2, <2>4
    <3>3. ~ (n > 0 /\ Chars(Append(d.buf, p)) < MIN_CHARS)
      BY <1>2, <2>1, <2>4
    <3>4. Len(after) = IF Splits(d, p) THEN IF p < MIN_CHARS THEN n + 1 ELSE n + 2
                       ELSE IF n > 0 /\ Chars(Append(d.buf, p)) < MIN_CHARS THEN n
                       ELSE n + 1
      BY <1>9, <3>1, <3>3, Zenon
    <3> QED
      BY <3>1, <3>2, <3>4, Zenon
  <2> QED
    BY <2>3, <2>4
<1>10. CASE ~Splits(d, p) /\ Chars(c) >= MAX_CHARS /\ e = [chunks |-> Append(q, c), buf |-> <<>>]
  <2>1. e.chunks = Append(q, c) /\ e.buf = <<>>
    BY <1>10
  <2>2. Len(after) = n + 1 /\ \A k \in 1..n : after[k] = q[k]
    <3>1. \A k \in 1..n : k \in 1..(n + 1) /\ k < n + 1
      OBVIOUS
    <3>2. Len(e.chunks) = n + 1 /\ \A k \in 1..n : e.chunks[k] = q[k]
      BY <1>8, <2>1
    <3>3. Len(after) = n + 1
      BY <1>6, <2>1, <3>2
    <3> QED
      BY <1>6, <3>1, <3>2, <3>3, Zenon
  <2>3. \A k \in 1..n : after[k] = d.chunks[k]
    BY <1>1, <2>2
  <2>4. ~ (n > 0 /\ Chars(Append(d.buf, p)) < MIN_CHARS)
    BY <1>2, <1>3, <1>4, <1>10
  <2>5. Len(after) = IF Splits(d, p) THEN IF p < MIN_CHARS THEN n + 1 ELSE n + 2
                       ELSE IF n > 0 /\ Chars(Append(d.buf, p)) < MIN_CHARS THEN n
                       ELSE n + 1
    BY <1>10, <2>2, <2>4, Zenon
  <2>6. Len(after) # n + 2
    BY <2>2
  <2> QED
    BY <2>3, <2>5, <2>6, Zenon
<1>11. CASE Splits(d, p) /\ p < MAX_CHARS /\ e = [chunks |-> Append(q, d.buf), buf |-> <<p>>]
  <2>0. /\ e.chunks = Append(q, d.buf) /\ e.buf = <<p>>
        /\ Len(e.chunks) = n + 1
        /\ e.chunks[n + 1] = d.buf
        /\ \A k \in 1..n : e.chunks[k] = q[k]
    <3>1. e.chunks = Append(q, d.buf) /\ e.buf = <<p>>
      BY <1>11
    <3> QED
      BY <1>8, <3>1
  <2>1. Joins(e) <=> p < MIN_CHARS
    BY <1>3, <2>0 DEF Joins
  <2>2. /\ Len(after) = IF p < MIN_CHARS THEN n + 1 ELSE n + 2
        /\ \A k \in 1..n : after[k] = q[k]
        /\ p >= MIN_CHARS => after[n + 1] = d.buf
    <3>0. /\ Len(after) = IF Joins(e) THEN n + 1 ELSE n + 1 + 1
          /\ \A k \in 1..(n + 1) : k < n + 1 \/ ~Joins(e) => after[k] = e.chunks[k]
      BY <1>3, <1>6, <2>0
    <3>1. /\ n + 1 \in 1..(n + 1) /\ n + 1 + 1 = n + 2
          /\ \A k \in 1..n : k \in 1..(n + 1) /\ k < n + 1
      OBVIOUS
    <3>2. \A k \in 1..n : after[k] = q[k]
      BY <2>0, <3>0, <3>1, Zenon
    <3>3. CASE p < MIN_CHARS
      BY <1>3, <1>4, <2>1, <3>0, <3>2, <3>3
    <3>4. CASE ~(p < MIN_CHARS)
      BY <2>0, <2>1, <3>0, <3>1, <3>2, <3>4, Zenon
    <3> QED
      BY <3>3, <3>4
  <2>3. \A k \in 1..n : after[k] = d.chunks[k]
    BY <1>1, <2>2
  <2>4. Len(after) = IF Splits(d, p) THEN IF p < MIN_CHARS THEN n + 1 ELSE n + 2
                       ELSE IF n > 0 /\ Chars(Append(d.buf, p)) < MIN_CHARS THEN n
                       ELSE n + 1
    BY <1>11, <2>2, Zenon
  <2>5. Len(after) = n + 2 => after[n + 1] = d.buf
    <3>1. p < MIN_CHARS \/ p >= MIN_CHARS
      BY <1>3, <1>4
    <3>2. n + 1 # n + 2
      OBVIOUS
    <3> QED
      BY <2>2, <3>1, <3>2, Zenon
  <2> QED
    BY <2>3, <2>4, <2>5, Zenon
<1>12. CASE Splits(d, p) /\ p >= MAX_CHARS
              /\ e = [chunks |-> Append(Append(q, d.buf), <<p>>), buf |-> <<>>]
  <2>1. PICK r \in Seq(Fitting) : /\ r = Append(q, d.buf) /\ Len(r) = n + 1
                                  /\ \A k \in 1..n : r[k] = q[k]
                                  /\ r[n + 1] = d.buf
    <3>1. d.buf \in Fitting
      BY <1>3, <1>12
    <3>2. Append(q, d.buf) \in Seq(Fitting)
      BY <1>1, <3>1
    <3> QED
      BY <1>8, <3>2
  <2>2. e.chunks = Append(r, <<p>>) /\ e.buf = <<>>
    BY <1>12, <2>1
  <2>3. /\ Len(Append(r, <<p>>)) = n + 2
        /\ \A k \in 1..(n + 1) : Append(r, <<p>>)[k] = r[k]
    BY <2>1
  <2>4. /\ Len(after) = n + 2
        /\ \A k \in 1..(n + 1) : after[k] = r[k]
    BY <1>6, <2>2, <2>3
  <2>5. ~(p < MIN_CHARS) /\ \A k \in 1..n : after[k] = q[k]
    <3>1. ~(p < MIN_CHARS)
      BY <1>3, <1>4, <1>12
    <3>2. \A k \in 1..n : k \in 1..(n + 1)
      OBVIOUS
    <3> QED
      BY <2>1, <2>4, <3>1, <3>2, Zenon
  <2>6. after[n + 1] = d.buf
    <3>1. n + 1 \in 1..(n + 1)
      OBVIOUS
    <3> QED
      BY <2>1, <2>4, <3>1
  <2>7. \A k \in 1..n : after[k] = d.chunks[k]
    BY <1>1, <2>5
  <2>8. Len(after) = IF Splits(d, p) THEN IF p < MIN_CHARS THEN n + 1 ELSE n + 2
                       ELSE IF n > 0 /\ Chars(Append(d.buf, p)) < MIN_CHARS THEN n
                       ELSE n + 1
    BY <1>12, <2>4, <2>5, Zenon
  <2> QED
    BY <2>6, <2>7, <2>8, Zenon
<1> QED
  BY <1>7, <1>9, <1>10, <1>11, <1>12

\* One paragraph more leaves all chunks but the last.
LEMMA OneMore ==
  ASSUME NEW d \in States, NEW p \in Lengths
  PROVE  AllBut(0, Close(d), Close(Take(d, p)))
<1>1. PICK n \in Nat : n = Len(d.chunks)
  BY DEF States
<1>2. PICK before, after : before = Close(d) /\ after = Close(Take(d, p))
  OBVIOUS
<1> DEFINE Short == n > 0 /\ Chars(Append(d.buf, p)) < MIN_CHARS
<1>3. /\ Len(before) = IF d.buf = <<>> \/ Joins(d) THEN n ELSE n + 1
      /\ \A k \in 1..n : k < n \/ d.buf = <<>> \/ ~Joins(d) => before[k] = d.chunks[k]
  BY <1>1, <1>2, Closed
<1>4. /\ Len(after) = IF Splits(d, p) THEN IF p < MIN_CHARS THEN n + 1 ELSE n + 2
                      ELSE IF Short THEN n ELSE n + 1
      /\ \A k \in 1..n : k < n \/ Len(after) > n => after[k] = d.chunks[k]
  BY <1>1, <1>2, TurnCloses
<1>5. Len(after) \in {n, n + 1, n + 2} /\ (Len(after) = n => Short)
  BY <1>4
<1>6. CASE d.buf = <<>> \/ Joins(d)
  <2>1. Len(before) = n
    BY <1>3, <1>6
  <2>2. \A k \in 1..(n - 1) : k \in 1..n /\ k < n
    BY <1>1
  <2>3. \A k \in 1..(n - 1) : after[k] = before[k]
    BY <1>3, <1>4, <2>2
  <2> QED
    BY <1>1, <1>2, <1>5, <2>1, <2>3 DEF AllBut
<1>7. CASE d.buf # <<>> /\ ~Joins(d)
  <2>1. Len(before) = n + 1
    BY <1>3, <1>7
  <2>2. ~Short
    <3>1. n = 0 \/ ~(Chars(d.buf) < MIN_CHARS)
      BY <1>1, <1>7 DEF Joins
    <3>2. /\ Chars(Append(d.buf, p)) = Chars(d.buf) + 2 + p
          /\ Chars(d.buf) \in Nat /\ p \in Nat /\ MIN_CHARS \in Nat
      BY <1>7, Candidate, ChunkingAssumption DEF Lengths
    <3> QED
      BY <1>1, <3>1, <3>2
  <2>3. Len(after) \in {n + 1, n + 2}
    BY <1>5, <2>2
  <2>4. \A k \in 1..n : after[k] = before[k]
    BY <1>1, <1>3, <1>4, <1>7, <2>3
  <2> QED
    BY <1>1, <1>2, <2>1, <2>3, <2>4 DEF AllBut
<1> QED
  BY <1>6, <1>7

\* So does a last paragraph that grows.
LEMMA Longer ==
  ASSUME NEW d \in States, NEW p \in Lengths, NEW q \in Lengths, p <= q
  PROVE  AllBut(0, Close(Take(d, p)), Close(Take(d, q)))
<1>1. PICK n \in Nat : n = Len(d.chunks)
  BY DEF States
<1>2. PICK before, after : before = Close(Take(d, p)) /\ after = Close(Take(d, q))
  OBVIOUS
<1> DEFINE Short(r) == n > 0 /\ Chars(Append(d.buf, r)) < MIN_CHARS
<1>3. /\ Len(before) = IF Splits(d, p) THEN IF p < MIN_CHARS THEN n + 1 ELSE n + 2
                       ELSE IF Short(p) THEN n ELSE n + 1
      /\ \A k \in 1..n : k < n \/ Len(before) > n => before[k] = d.chunks[k]
      /\ Len(before) = n + 2 => before[n + 1] = d.buf
  BY <1>1, <1>2, TurnCloses
<1>4. /\ Len(after) = IF Splits(d, q) THEN IF q < MIN_CHARS THEN n + 1 ELSE n + 2
                      ELSE IF Short(q) THEN n ELSE n + 1
      /\ \A k \in 1..n : k < n \/ Len(after) > n => after[k] = d.chunks[k]
      /\ Len(after) = n + 2 => after[n + 1] = d.buf
  BY <1>1, <1>2, TurnCloses
<1>5. /\ Splits(d, p) => Splits(d, q)
      /\ Short(q) => Short(p)
      /\ q < MIN_CHARS => p < MIN_CHARS
  <2>1. /\ Chars(Append(d.buf, p)) = IF d.buf = <<>> THEN p ELSE Chars(d.buf) + 2 + p
        /\ Chars(Append(d.buf, q)) = IF d.buf = <<>> THEN q ELSE Chars(d.buf) + 2 + q
        /\ Chars(d.buf) \in Nat /\ p \in Nat /\ q \in Nat
        /\ MIN_CHARS \in Nat /\ MAX_CHARS \in Nat
    BY Candidate, ChunkingAssumption DEF Lengths
  <2>2. PICK b, c : b = Chars(Append(d.buf, p)) /\ c = Chars(Append(d.buf, q))
    OBVIOUS
  <2>3. b \in Nat /\ c \in Nat /\ b <= c
    BY <2>1, <2>2
  <2>4. c < MIN_CHARS => b < MIN_CHARS
    BY <2>1, <2>3
  <2>5. b > MAX_CHARS => c > MAX_CHARS
    BY <2>1, <2>3
  <2>6. q < MIN_CHARS => p < MIN_CHARS
    BY <2>1
  <2>7. Splits(d, p) => Splits(d, q)
    BY <2>2, <2>5 DEF Splits
  <2>8. Short(q) => Short(p)
    BY <2>2, <2>4
  <2> QED
    BY <2>6, <2>7, <2>8
<1> HIDE DEF Short
<1>6. /\ Len(before) \in {n, n + 1, n + 2} /\ Len(after) \in {n, n + 1, n + 2}
      /\ Len(before) <= Len(after)
  BY <1>1, <1>3, <1>4, <1>5
<1>7. ASSUME NEW k \in 1..(Len(before) - 1)
      PROVE  after[k] = before[k]
  <2>1. CASE k < n
    <3>1. k \in 1..n
      BY <1>1, <1>6, <1>7, <2>1
    <3> QED
      BY <1>3, <1>4, <2>1, <3>1
  <2>2. CASE k = n
    <3>1. k \in 1..n /\ Len(before) > n /\ Len(after) > n
      BY <1>1, <1>6, <1>7, <2>2
    <3> QED
      BY <1>3, <1>4, <3>1
  <2>3. CASE k > n
    <3>1. k = n + 1 /\ Len(before) = n + 2 /\ Len(after) = n + 2
      BY <1>1, <1>6, <1>7, <2>3
    <3> QED
      BY <1>3, <1>4, <3>1
  <2> QED
    BY <1>1, <1>6, <1>7, <2>1, <2>2, <2>3
<1> QED
  BY <1>1, <1>2, <1>6, <1>7 DEF AllBut

\* The chunks that d has done are the first ones of e.
Kept(d, e) ==
    /\ Len(e.chunks) >= Len(d.chunks)
    /\ \A k \in 1..Len(d.chunks) : e.chunks[k] = d.chunks[k]

\* A turn does not touch the chunks that are done.
LEMMA TurnLeaves ==
  ASSUME NEW d \in States, NEW e \in States, NEW p \in Lengths, Kept(d, e)
  PROVE  Kept(d, Take(e, p))
<1>1. PICK n \in Nat : n = Len(d.chunks)
  BY DEF States
<1>2. PICK q \in Seq(Fitting) : q = e.chunks
  BY DEF States
<1>3. Len(q) >= n /\ \A k \in 1..n : q[k] = d.chunks[k]
  BY <1>1, <1>2 DEF Kept
<1>4. PICK f : f = Take(e, p)
  OBVIOUS
<1>5. \/ f.chunks = q
      \/ \E x : f.chunks = Append(q, x)
      \/ \E x, y : f.chunks = Append(Append(q, x), y)
  <2>1. PICK c : c = Append(e.buf, p)
    OBVIOUS
  <2>2. \/ Take(e, p) = [chunks |-> e.chunks, buf |-> c]
        \/ Take(e, p) = [chunks |-> Append(e.chunks, c), buf |-> <<>>]
        \/ Take(e, p) = [chunks |-> Append(e.chunks, e.buf), buf |-> <<p>>]
        \/ Take(e, p) = [chunks |-> Append(Append(e.chunks, e.buf), <<p>>), buf |-> <<>>]
    BY <2>1, Turn
  <2>3. \/ f.chunks = q
        \/ f.chunks = Append(q, c)
        \/ f.chunks = Append(q, e.buf)
        \/ f.chunks = Append(Append(q, e.buf), <<p>>)
    BY <1>2, <1>4, <2>2
  <2> QED
    BY <2>3, Zenon
<1>6. ASSUME NEW x
      PROVE  Len(Append(q, x)) >= n /\ \A k \in 1..n : Append(q, x)[k] = d.chunks[k]
  BY <1>1, <1>3
<1>7. ASSUME NEW x, NEW y
      PROVE  /\ Len(Append(Append(q, x), y)) >= n
             /\ \A k \in 1..n : Append(Append(q, x), y)[k] = d.chunks[k]
  BY <1>1, <1>3
<1>8. Len(f.chunks) >= n /\ \A k \in 1..n : f.chunks[k] = d.chunks[k]
  BY <1>3, <1>5, <1>6, <1>7, Zenon
<1> QED
  BY <1>1, <1>4, <1>8, Zenon DEF Kept

\* Nor do the turns of further paragraphs.
LEMMA LoopLeaves ==
  ASSUME NEW t \in Seq(Lengths), NEW r \in Seq(Lengths)
  PROVE  Kept(Loop(t), Loop(t \o r))
<1>1. PICK m \in Nat, n \in Nat : m = Len(t) /\ n = m + Len(r)
  <2>1. Len(t) \in Nat /\ Len(t) + Len(r) \in Nat
    OBVIOUS
  <2> QED
    BY <2>1
<1>2. PICK q : q = t \o r
  OBVIOUS
<1>3. q \in Seq(Lengths) /\ Len(q) = n /\ m <= n /\ \A k \in 1..m : q[k] = t[k]
  BY <1>1, <1>2
<1>4. PICK u : Turns(u, t) /\ Loop(t) = u[m]
  BY <1>1, LoopTurns
<1>5. PICK v : Turns(v, q) /\ Loop(q) = v[n]
  BY <1>3, LoopTurns
<1>6. v \in [0..n -> States] /\ v[0] = Start /\ \A k \in 1..n : v[k] = Take(v[k - 1], q[k])
  BY <1>3, <1>5 DEF Turns
<1>7. v[m] = u[m]
  <2> DEFINE T == {k \in 0..m : v[k] = u[k]}
  <2>1. 0 \in T
    BY <1>1, <1>4, <1>6 DEF Turns
  <2>2. ASSUME NEW k \in 1..m, k - 1 \in T
        PROVE  k \in T
    <3>1. k \in 1..n /\ k \in 0..m
      BY <1>1, <1>3
    <3>2. v[k] = Take(v[k - 1], q[k])
      BY <1>6, <3>1
    <3>3. u[k] = Take(u[k - 1], t[k])
      BY <1>1, <1>4 DEF Turns
    <3>4. v[k - 1] = u[k - 1] /\ q[k] = t[k]
      BY <1>3, <2>2
    <3> QED
      BY <3>1, <3>2, <3>3, <3>4
  <2> HIDE DEF T
  <2>3. m \in T
    <3>1. \A k \in 0..m : k \in T
      BY <1>1, <2>1, <2>2, Climb
    <3> QED
      BY <1>1, <3>1
  <2> QED
    BY <2>3 DEF T
<1>8. PICK d \in States : d = v[m]
  <2>1. m \in 0..n
    BY <1>1, <1>3
  <2> QED
    BY <1>6, <2>1
<1> DEFINE T == {k \in 0..n : k >= m => Kept(d, v[k])}
<1>9. \A k \in 0..n : k = m => k \in T
  <2>1. d.chunks \in Seq(Fitting)
    BY DEF States
  <2>2. Kept(d, d)
    BY <2>1 DEF Kept
  <2> QED
    BY <1>8, <2>2
<1>10. 0 \in T
  <2>1. 0 \in 0..n /\ (0 >= m => 0 = m)
    BY <1>1
  <2> QED
    BY <1>9, <2>1
<1>11. ASSUME NEW k \in 1..n, k - 1 \in T
       PROVE  k \in T
  <2>1. k \in 0..n /\ k - 1 \in 0..n /\ (k >= m => k = m \/ k - 1 >= m)
    BY <1>1
  <2>2. ASSUME k - 1 >= m
        PROVE  Kept(d, v[k])
    <3>1. PICK e \in States : e = v[k - 1]
      BY <1>6, <2>1
    <3>2. PICK p \in Lengths : p = q[k]
      BY <1>3
    <3>3. Kept(d, e)
      BY <1>11, <2>2, <3>1
    <3>4. Kept(d, Take(e, p))
      BY <3>3, TurnLeaves
    <3> QED
      BY <1>6, <3>1, <3>2, <3>4
  <2> QED
    BY <1>9, <2>1, <2>2
<1> HIDE DEF T
<1>12. n \in T
  <2>1. \A k \in 0..n : k \in T
    BY <1>1, <1>10, <1>11, Climb
  <2> QED
    BY <1>1, <2>1
<1>13. Kept(d, v[n])
  BY <1>3, <1>12 DEF T
<1> QED
  BY <1>2, <1>4, <1>5, <1>7, <1>8, <1>13

\* Other paragraphs in its place, however many, cost two chunks: one that it was
\* itself, and one that it kept from being a short tail.
LEMMA Replaced ==
  ASSUME NEW t \in Seq(Lengths), NEW p \in Lengths, NEW r \in Seq(Lengths)
  PROVE  AllBut(2, Close(Take(Loop(t), p)), Chunks(t \o r))
<1>1. PICK d \in States : d = Loop(t)
  BY LoopGoesOn
<1>2. PICK n \in Nat : n = Len(d.chunks)
  BY DEF States
<1>3. t \o r \in Seq(Lengths)
  OBVIOUS
<1>4. PICK e \in States : e = Loop(t \o r)
  BY <1>3, LoopGoesOn
<1>5. PICK l \in Nat : l = Len(e.chunks)
  BY DEF States
<1>6. l >= n /\ \A k \in 1..n : e.chunks[k] = d.chunks[k]
  BY <1>1, <1>2, <1>4, <1>5, LoopLeaves DEF Kept
<1>7. PICK before, after : before = Close(Take(d, p)) /\ after = Close(e)
  OBVIOUS
<1>8. Len(before) \in {n, n + 1, n + 2} /\ \A k \in 1..n : k < n => before[k] = d.chunks[k]
  BY <1>2, <1>7, TurnCloses
<1>9. /\ Len(after) \in {l, l + 1}
      /\ \A k \in 1..l : k < l => after[k] = e.chunks[k]
  BY <1>5, <1>7, Closed
<1>10. ASSUME NEW k \in 1..(Len(before) - 3)
       PROVE  after[k] = before[k]
  <2>1. k \in 1..n /\ k < n /\ k \in 1..l /\ k < l
    BY <1>2, <1>5, <1>6, <1>8
  <2> QED
    BY <1>6, <1>8, <1>9, <2>1
<1>11. Len(after) >= Len(before) - 2 /\ Len(before) - 1 - 2 = Len(before) - 3
  BY <1>2, <1>5, <1>6, <1>8, <1>9
<1>12. AllBut(2, before, after)
  BY <1>10, <1>11 DEF AllBut
<1> QED
  BY <1>1, <1>4, <1>7, <1>12 DEF Chunks

\* EarlierChunksStay: for every text and all settings of min_chars and
\* max_chars, cutting a file that has grown gives as many chunks as before, or
\* more, and the same but for the last, so the chunk index of a job means to
\* the worker what it meant to the scanner; a .jsonl line that becomes whole,
\* whatever paragraphs its row has, costs two chunks, no more.
THEOREM EarlierChunksStayAlways == Spec => EarlierChunksStay
<1>1. ASSUME TextInv, [Next]_vars
      PROVE  [AllBut(IF raw /\ ~raw' THEN 2 ELSE 0, Chunks(text), Chunks(text'))]_vars
  <2>1. \A s \in Seq(Lengths) : Loop(s) \in States /\ Chunks(s) = Close(Loop(s))
    BY LoopGoesOn DEF Chunks
  <2>2. ASSUME NEW s, NEW t, NEW p, Ends(s, t, p)
        PROVE  /\ t \in Seq(Lengths) /\ p \in Lengths
               /\ Loop(t) \in States /\ Chunks(s) = Close(Take(Loop(t), p))
    BY <2>2, LoopGoesOn DEF Ends, Chunks
  <2>3. AllBut(0, Chunks(text), Chunks(text')) =>
          AllBut(IF raw /\ ~raw' THEN 2 ELSE 0, Chunks(text), Chunks(text'))
    <3>1. PICK before, after : before = Chunks(text) /\ after = Chunks(text')
      OBVIOUS
    <3>2. ASSUME AllBut(0, before, after), Len(before) \in Nat, Len(after) \in Nat
          PROVE  AllBut(2, before, after)
      BY <3>2 DEF AllBut
    <3>3. Len(before) \in Nat /\ Len(after) \in Nat
      BY <1>1, <2>1, <3>1, TextStep, Closed DEF TextInv, States
    <3> QED
      BY <3>1, <3>2, <3>3
  <2>4. CASE \E p : Ends(text', text, p)
    BY <1>1, <2>1, <2>2, <2>3, <2>4, OneMore DEF TextInv
  <2>5. CASE \E t, p, q : Ends(text, t, p) /\ Ends(text', t, q) /\ p <= q
    BY <2>2, <2>3, <2>5, Longer
  <2>6. CASE /\ raw /\ ~raw'
             /\ \E t, p, r : Ends(text, t, p) /\ r \in Seq(Lengths) /\ text' = t \o r
    <3>1. PICK t, p, r : Ends(text, t, p) /\ r \in Seq(Lengths) /\ text' = t \o r
      BY <2>6
    <3>2. AllBut(2, Close(Take(Loop(t), p)), Chunks(t \o r))
      BY <2>2, <3>1, Replaced
    <3> QED
      BY <2>2, <2>6, <3>1, <3>2
  <2>7. CASE text' = text
    <3>1. AllBut(0, Chunks(text), Chunks(text))
      <4>1. PICK chunks : chunks = Chunks(text)
        OBVIOUS
      <4>2. Len(chunks) \in Nat
        BY <1>1, <2>1, <4>1, Closed DEF TextInv, States
      <4> QED
        BY <4>1, <4>2 DEF AllBut
    <3> QED
      BY <2>3, <2>7, <3>1
  <2> QED
    BY <1>1, <2>4, <2>5, <2>6, <2>7, TextMoves
<1> QED
  BY <1>1, TextAlways, PTL DEF Spec, EarlierChunksStay

----------------------------------------------------------------------------
(* The cuts. *)

LEMMA MaxIs ==
  ASSUME NEW S \in SUBSET Int, NEW x \in S, \A y \in S : y <= x
  PROVE  Max(S) = x
<1>1. \A y \in S : x >= y
  OBVIOUS
<1>2. \A z \in S : (\A y \in S : z >= y) => z = x
  OBVIOUS
<1> QED
  BY <1>1, <1>2 DEF Max

LEMMA MinIs ==
  ASSUME NEW S \in SUBSET Int, NEW x \in S, \A y \in S : x <= y
  PROVE  Min(S) = x
<1>1. \A z \in S : (\A y \in S : z <= y) => z = x
  OBVIOUS
<1> QED
  BY <1>1 DEF Min

\* Pieces of a text.
LEMMA Segments ==
  ASSUME NEW t \in Seq(Lengths), NEW n \in Nat, n = Len(t),
         NEW i \in 1..n, NEW j \in i..n
  PROVE  /\ SubSeq(t, i, j) \in Seq(Lengths) /\ SubSeq(t, i, j) # <<>>
         /\ SubSeq(t, i, i) = <<t[i]>>
         /\ j < n => SubSeq(t, i, j + 1) = Append(SubSeq(t, i, j), t[j + 1])
         /\ \A m \in i..(j - 1) : SubSeq(t, i, m) \o SubSeq(t, m + 1, j) = SubSeq(t, i, j)
<1>1. PICK l \in Nat : l = j - i + 1 /\ l # 0
  OBVIOUS
<1>2. SubSeq(t, i, j) = [k \in 1..l |-> t[i + k - 1]]
  BY <1>1
<1>3. \A k \in 1..l : i + k - 1 \in 1..n
  BY <1>1
<1>4. SubSeq(t, i, j) \in Seq(Lengths) /\ Len(SubSeq(t, i, j)) = l
  BY <1>1, <1>2, <1>3
<1>5. SubSeq(t, i, i) = <<t[i]>>
  <2>1. SubSeq(t, i, i) = [k \in 1..1 |-> t[i + k - 1]]
    OBVIOUS
  <2>2. \A k \in 1..1 : t[i + k - 1] = t[i]
    OBVIOUS
  <2>3. <<t[i]>> = [k \in 1..1 |-> t[i]]
    OBVIOUS
  <2> QED
    BY <2>1, <2>2, <2>3
<1>6. ASSUME j < n
      PROVE  SubSeq(t, i, j + 1) = Append(SubSeq(t, i, j), t[j + 1])
  BY <1>6
<1>7. ASSUME NEW m \in i..(j - 1)
      PROVE  SubSeq(t, i, m) \o SubSeq(t, m + 1, j) = SubSeq(t, i, j)
  BY <1>7
<1> QED
  BY <1>1, <1>4, <1>5, <1>6, <1>7

\* The beginnings are numbers that satisfy their definition.
LEMMA BeginsAreCuts ==
  ASSUME text \in Seq(Lengths), text # <<>>
  PROVE  /\ Begins \subseteq 2..Len(text)
         /\ \A j \in 2..Len(text) : j \in Begins <=> IsCut(Begins, j)
<1>0. PICK n \in Nat \ {0} : n = Len(text)
  OBVIOUS
<1> DEFINE TooLong(i, j) == Chars(SubSeq(text, i, j)) > MAX_CHARS
           F == [x \in (1..n) \X (1..n) |->
                    IF x[2] > 1 /\ TooLong(x[1], x[2]) THEN x[2] ELSE x[1]]
<1>1. F \in [(1..n) \X (1..n) -> 1..n]
  OBVIOUS
<1>2. \A i, j \in 1..n : F[<<i, j>>] = IF j > 1 /\ TooLong(i, j) THEN j ELSE i
  OBVIOUS
<1> HIDE DEF F
<1>3. PICK f : Iterates(f, n, 1..n, 1, F)
  <2>1. 1 \in 1..n /\ n \in Nat
    OBVIOUS
  <2> QED
    BY <1>1, <2>1, Recursion, Zenon
<1>4. /\ f \in [0..n -> 1..n] /\ f[0] = 1
      /\ \A k \in 1..n : f[k] = IF k > 1 /\ TooLong(f[k - 1], k) THEN k ELSE f[k - 1]
  <2>1. \A k \in 1..n : k - 1 \in 0..n
    OBVIOUS
  <2> QED
    BY <1>2, <1>3, <2>1 DEF Iterates
<1> DEFINE S == {j \in 2..n : f[j] = j}
           Upto(k) == {1} \cup {i \in S : i <= k}
           T == {k \in 0..n : f[k] \in Upto(k) /\ \A i \in Upto(k) : i <= f[k]}
<1> HIDE DEF TooLong
<1>5. 0 \in T
  BY <1>4
<1>6. ASSUME NEW k \in 1..n, k - 1 \in T
      PROVE  k \in T
  <2>1. k - 1 \in 0..n /\ f[k - 1] \in 1..n /\ f[k] \in 1..n
    BY <1>4
  <2>2. CASE k > 1 /\ TooLong(f[k - 1], k)
    <3>1. f[k] = k
      BY <1>4, <2>2
    <3> QED
      BY <2>1, <2>2, <3>1
  <2>3. CASE ~(k > 1 /\ TooLong(f[k - 1], k))
    <3>1. f[k] = f[k - 1]
      BY <1>4, <2>3
    <3>2. k \notin S
      BY <1>6, <2>1, <3>1
    <3>3. Upto(k) = Upto(k - 1)
      BY <3>2
    <3> QED
      BY <1>6, <3>1, <3>3
  <2> QED
    BY <2>2, <2>3
<1>7. \A k \in 0..n : k \in T
  <2> HIDE DEF T
  <2> QED
    BY <1>5, <1>6, Climb
<1>8. ASSUME NEW j \in 2..n
      PROVE  j \in S <=> IsCut(S, j)
  <2>1. j - 1 \in T /\ j \in 1..n /\ j > 1
    BY <1>7
  <2>2. {1} \cup {i \in S : i < j} = Upto(j - 1)
    OBVIOUS
  <2>3. f[j - 1] < j /\ f[j - 1] \in Upto(j - 1) /\ \A i \in Upto(j - 1) : i <= f[j - 1]
    BY <2>1
  <2>4. Max(Upto(j - 1)) = f[j - 1]
    <3>1. Upto(j - 1) \in SUBSET Int
      OBVIOUS
    <3> HIDE DEF Upto
    <3> QED
      BY <2>3, <3>1, MaxIs, Zenon
  <2>5. j \in S <=> TooLong(f[j - 1], j)
    <3>1. CASE TooLong(f[j - 1], j)
      <4>1. f[j] = j
        BY <1>4, <2>1, <3>1
      <4> QED
        BY <3>1, <4>1
    <3>2. CASE ~TooLong(f[j - 1], j)
      <4>1. f[j] = f[j - 1]
        BY <1>4, <2>1, <3>2
      <4>2. j - 1 \in 0..n
        OBVIOUS
      <4>3. f[j - 1] \in Int
        BY <1>4, <4>2
      <4>4. f[j - 1] # j
        BY <2>3, <4>3
      <4> QED
        BY <3>2, <4>1, <4>4
    <3> QED
      BY <3>1, <3>2
  <2> QED
    BY <2>2, <2>4, <2>5, Zenon DEF IsCut, TooLong
<1>9. S \in SUBSET (2..Len(text)) /\ \A j \in 2..Len(text) : j \in S <=> IsCut(S, j)
  BY <1>0, <1>8
<1> HIDE DEF S
<1> QED
  BY <1>9, Zenon DEF Begins

\* The first k paragraphs of the text are cut into the pieces q, which begin at
\* the m places st.
Marks(st, m, q, k) ==
    /\ m \in Nat \ {0}
    /\ st \in [1..m -> 1..k]
    /\ st[1] = 1
    /\ \A a, b \in 1..m : a < b => st[a] < st[b]
    /\ q \in Seq(Seq(Lengths)) /\ Len(q) = m
    /\ \A a \in 1..m : q[a] = SubSeq(text, st[a], IF a < m THEN st[a + 1] - 1 ELSE k)

Places(st, m) == {st[a] : a \in 1..m}

LEMMA LastPlace ==
  ASSUME NEW st, NEW m, NEW q, NEW k \in Nat, Marks(st, m, q, k)
  PROVE  /\ m \in 1..m /\ st[m] \in 1..k /\ q[m] = SubSeq(text, st[m], k)
         /\ Max(Places(st, m)) = st[m]
<1>1. m \in 1..m /\ st[m] \in 1..k /\ ~ (m < m)
  BY DEF Marks
<1>2. q[m] = SubSeq(text, st[m], k)
  BY <1>1 DEF Marks
<1>3. Places(st, m) \in SUBSET Int /\ st[m] \in Places(st, m)
  BY <1>1 DEF Marks, Places
<1>4. \A y \in Places(st, m) : y <= st[m]
  <2>1. ASSUME NEW a \in 1..m
        PROVE  st[a] <= st[m]
    <3>1. a < m \/ a = m
      BY DEF Marks
    <3>2. st[a] \in 1..k /\ (a < m => st[a] < st[m])
      BY <1>1 DEF Marks
    <3> QED
      BY <1>1, <3>1, <3>2
  <2> QED
    BY <2>1 DEF Places
<1> QED
  BY <1>1, <1>2, <1>3, <1>4, MaxIs

Further(u, st, m, q, k) ==
    /\ Marks(u, m + 1, q, k + 1)
    /\ Places(u, m + 1) = Places(st, m) \cup {k + 1}
    /\ u[m + 1] = k + 1

\* Another piece begins.
LEMMA MarksNext ==
  ASSUME NEW st, NEW m, NEW q, NEW k \in Nat, Marks(st, m, q, k),
         NEW x \in Seq(Lengths), x = SubSeq(text, k + 1, k + 1)
  PROVE  \E u : Further(u, st, m, Append(q, x), k)
<1>1. PICK u : u = [a \in 1..(m + 1) |-> IF a <= m THEN st[a] ELSE k + 1]
  OBVIOUS
<1>2. /\ m \in Nat /\ m >= 1
      /\ st \in [1..m -> 1..k] /\ st[1] = 1
      /\ q \in Seq(Seq(Lengths)) /\ Len(q) = m
  BY DEF Marks
<1>3. /\ \A a \in 1..m : u[a] = st[a] /\ a \in 1..(m + 1)
      /\ u[m + 1] = k + 1 /\ m + 1 \in 1..(m + 1)
      /\ \A a \in 1..(m + 1) : a \in 1..m \/ a = m + 1
  BY <1>1, <1>2
<1>4. u \in [1..(m + 1) -> 1..(k + 1)] /\ u[1] = 1 /\ m + 1 \in Nat \ {0}
  BY <1>1, <1>2, <1>3
<1>5. ASSUME NEW a \in 1..(m + 1), NEW b \in 1..(m + 1), a < b
      PROVE  u[a] < u[b]
  <2>1. a \in 1..m /\ u[a] = st[a] /\ st[a] \in 1..k
    BY <1>2, <1>3, <1>5
  <2>2. CASE b = m + 1
    BY <1>3, <2>1, <2>2
  <2>3. CASE b \in 1..m
    BY <1>3, <1>5, <2>1, <2>3 DEF Marks
  <2> QED
    BY <1>3, <2>2, <2>3
<1>6. /\ Append(q, x) \in Seq(Seq(Lengths)) /\ Len(Append(q, x)) = m + 1
      /\ Append(q, x)[m + 1] = x
      /\ \A a \in 1..m : Append(q, x)[a] = q[a]
  BY <1>2
<1>7. ASSUME NEW a \in 1..(m + 1)
      PROVE  Append(q, x)[a] = SubSeq(text, u[a], IF a < m + 1 THEN u[a + 1] - 1 ELSE k + 1)
  <2>0. a = m + 1 \/ a = m \/ a < m
    BY <1>2
  <2>1. CASE a = m + 1
    <3>1. ~ (a < m + 1) /\ u[a] = k + 1
      BY <1>2, <1>3, <2>1
    <3> QED
      BY <1>6, <2>1, <3>1, Zenon
  <2>2. CASE a = m
    <3>0. m < m + 1 /\ ~ (m < m) /\ m \in 1..m /\ k + 1 - 1 = k
      BY <1>2
    <3>1. a < m + 1 /\ ~ (a < m) /\ a \in 1..m /\ u[a] = st[a] /\ u[a + 1] - 1 = k
      <4>1. u[m] = st[m]
        BY <1>3, <3>0, Zenon
      <4>2. u[m + 1] - 1 = k
        BY <1>3, <3>0
      <4> QED
        BY <2>2, <3>0, <4>1, <4>2
    <3>2. q[a] = SubSeq(text, st[a], k)
      BY <3>1 DEF Marks
    <3>3. Append(q, x)[a] = q[a]
      BY <1>6, <3>1
    <3> QED
      BY <3>1, <3>2, <3>3, Zenon
  <2>3. CASE a < m
    <3>1. a < m + 1 /\ a \in 1..m /\ a + 1 \in 1..m /\ u[a] = st[a] /\ u[a + 1] = st[a + 1]
      BY <1>2, <1>3, <2>3
    <3>2. q[a] = SubSeq(text, st[a], st[a + 1] - 1)
      BY <2>3, <3>1 DEF Marks
    <3>3. Append(q, x)[a] = q[a]
      BY <1>6, <3>1
    <3> QED
      BY <3>1, <3>2, <3>3, Zenon
  <2> QED
    BY <2>0, <2>1, <2>2, <2>3, Zenon
<1>8. Marks(u, m + 1, Append(q, x), k + 1)
  BY <1>4, <1>5, <1>6, <1>7, Zenon DEF Marks
<1>9. Places(u, m + 1) = Places(st, m) \cup {k + 1}
  BY <1>3 DEF Places
<1> QED
  BY <1>3, <1>8, <1>9, Zenon DEF Further

\* The last piece goes on.
LEMMA MarksGrow ==
  ASSUME NEW st, NEW m, NEW k \in Nat, NEW r \in Seq(Seq(Lengths)), NEW x, NEW y \in Seq(Lengths),
         Marks(st, m, Append(r, x), k), y = SubSeq(text, st[m], k + 1)
  PROVE  Marks(st, m, Append(r, y), k + 1)
<1>1. /\ m \in Nat /\ m >= 1 /\ Len(Append(r, x)) = m
      /\ st \in [1..m -> 1..k] /\ st[1] = 1
  BY DEF Marks
<1>2. Len(r) = m - 1
  BY <1>1
<1>3. /\ Append(r, y) \in Seq(Seq(Lengths)) /\ Len(Append(r, y)) = m
      /\ Append(r, y)[m] = y
      /\ \A a \in 1..(m - 1) : Append(r, y)[a] = r[a] /\ Append(r, x)[a] = r[a]
  BY <1>1, <1>2
<1>4. ASSUME NEW a \in 1..m
      PROVE  Append(r, y)[a] = SubSeq(text, st[a], IF a < m THEN st[a + 1] - 1 ELSE k + 1)
  <2>1. CASE a = m
    <3>1. ~ (a < m)
      BY <1>1, <2>1
    <3> QED
      BY <1>3, <2>1, <3>1, Zenon
  <2>2. CASE a < m
    <3>1. a \in 1..(m - 1)
      BY <1>1, <2>2
    <3>2. Append(r, x)[a] = SubSeq(text, st[a], st[a + 1] - 1)
      BY <2>2 DEF Marks
    <3> QED
      BY <1>3, <2>2, <3>1, <3>2, Zenon
  <2> QED
    BY <1>1, <2>1, <2>2
<1>5. st \in [1..m -> 1..(k + 1)] /\ m \in Nat \ {0}
  BY <1>1
<1> QED
  BY <1>1, <1>3, <1>4, <1>5, Zenon DEF Marks

Fewer(u, st, m, q, k) ==
    /\ Marks(u, m - 1, q, k)
    /\ Places(u, m - 1) = Places(st, m) \ {st[m]}
    /\ st[m] # 1

\* The last two pieces become one.
LEMMA MarksJoin ==
  ASSUME NEW st, NEW m, NEW k \in 1..Len(text), text \in Seq(Lengths),
         NEW r \in Seq(Seq(Lengths)), NEW x \in Seq(Lengths), r # <<>>,
         Marks(st, m, Append(r, x), k)
  PROVE  \E u : Fewer(u, st, m, [r EXCEPT ![Len(r)] = @ \o x], k)
<1>1. PICK l \in Nat \ {0} : l = Len(r)
  OBVIOUS
<1>2. /\ m = l + 1 /\ m - 1 = l
      /\ st \in [1..m -> 1..k] /\ st[1] = 1
      /\ \A a, b \in 1..m : a < b => st[a] < st[b]
  <2>1. Len(Append(r, x)) = l + 1
    BY <1>1
  <2>2. m = l + 1
    BY <2>1 DEF Marks
  <2>3. l + 1 - 1 = l
    BY <1>1
  <2>4. /\ st \in [1..m -> 1..k] /\ st[1] = 1
        /\ \A a, b \in 1..m : a < b => st[a] < st[b]
    BY DEF Marks
  <2> QED
    BY <2>2, <2>3, <2>4
<1>3. \A a \in 1..l : /\ a \in 1..m /\ a < m /\ m \in 1..m
                      /\ st[a] \in 1..k /\ st[m] \in 1..k /\ st[a] < st[m]
  <2>1. \A a \in 1..l : a \in 1..m /\ a < m /\ m \in 1..m
    BY <1>1, <1>2
  <2> QED
    BY <1>2, <2>1
<1>4. \A a \in 1..l : r[a] = SubSeq(text, st[a], st[a + 1] - 1)
  <2>1. \A a \in 1..l : Append(r, x)[a] = r[a]
    BY <1>1
  <2>2. \A a \in 1..l : Append(r, x)[a] = SubSeq(text, st[a], st[a + 1] - 1)
    BY <1>3 DEF Marks
  <2> QED
    BY <2>1, <2>2
<1>5. x = SubSeq(text, st[m], k)
  <2>1. Append(r, x)[m] = x
    BY <1>1, <1>2
  <2>2. k \in Nat
    OBVIOUS
  <2>3. Append(r, x)[m] = SubSeq(text, st[m], k)
    <3>1. PICK v : v = Append(r, x)
      OBVIOUS
    <3>2. Marks(st, m, v, k)
      BY <3>1
    <3>3. v[m] = SubSeq(text, st[m], k)
      BY <2>2, <3>2, LastPlace
    <3> QED
      BY <3>1, <3>3
  <2> QED
    BY <2>1, <2>3
<1> DEFINE u == [a \in 1..l |-> st[a]]
           y == SubSeq(text, st[l], k)
           q == [a \in 1..l |-> IF a = l THEN y ELSE r[a]]
<1>6. l \in 1..l /\ l + 1 = m /\ 1 \in 1..l
  BY <1>1, <1>2
<1>7. r[l] \o x = y /\ y \in Seq(Lengths)
  <2>1. r[l] = SubSeq(text, st[l], st[m] - 1)
    BY <1>4, <1>6
  <2>0. PICK n \in Nat : n = Len(text)
    OBVIOUS
  <2>2. PICK i, j : i = st[l] /\ j = st[m]
    OBVIOUS
  <2>3. i \in 1..k /\ j \in 1..k /\ i < j /\ k \in 1..n
    BY <1>3, <1>6, <2>0, <2>2
  <2>4. i \in 1..n /\ k \in i..n /\ j - 1 \in i..(k - 1) /\ j - 1 + 1 = j
    BY <2>3
  <2>5. /\ SubSeq(text, i, k) \in Seq(Lengths)
        /\ SubSeq(text, i, j - 1) \o SubSeq(text, j - 1 + 1, k) = SubSeq(text, i, k)
    <3>1. /\ SubSeq(text, i, k) \in Seq(Lengths)
          /\ \A b \in i..(k - 1) : SubSeq(text, i, b) \o SubSeq(text, b + 1, k) = SubSeq(text, i, k)
      BY <2>0, <2>4, Segments, Zenon
    <3> QED
      BY <2>4, <3>1, Zenon
  <2> QED
    BY <1>5, <2>1, <2>2, <2>4, <2>5
<1>8. [r EXCEPT ![Len(r)] = @ \o x] = q
  <2>1. PICK z : z = r[l] \o x
    OBVIOUS
  <2>2. [r EXCEPT ![l] = z] = [a \in 1..l |-> IF a = l THEN z ELSE r[a]]
    <3>1. DOMAIN r = 1..l
      BY <1>1
    <3> QED
      BY <3>1
  <2>3. [r EXCEPT ![l] = z] = q
    BY <1>7, <2>1, <2>2
  <2>4. [r EXCEPT ![Len(r)] = @ \o x] = [r EXCEPT ![l] = z]
    BY <1>1, <2>1
  <2> QED
    BY <2>3, <2>4
<1>9. q \in Seq(Seq(Lengths)) /\ Len(q) = l
  BY <1>1, <1>7
<1>10. u \in [1..l -> 1..k] /\ u[1] = 1 /\ \A a, b \in 1..l : a < b => u[a] < u[b]
  BY <1>2, <1>3, <1>6
<1>11. ASSUME NEW a \in 1..l
       PROVE  q[a] = SubSeq(text, u[a], IF a < l THEN u[a + 1] - 1 ELSE k)
  <2>0. a = l \/ a < l
    BY <1>1
  <2>1. CASE a = l
    <3>1. u[a] = st[a] /\ ~ (a < l)
      BY <1>1, <2>1
    <3>2. q[a] = y
      BY <1>6, <2>1
    <3> QED
      BY <2>1, <3>1, <3>2
  <2>2. CASE a < l
    <3>1. a + 1 \in 1..l /\ a # l
      BY <1>1, <2>2
    <3>2. q[a] = r[a] /\ u[a] = st[a] /\ u[a + 1] = st[a + 1]
      BY <1>11, <3>1
    <3> QED
      BY <1>4, <1>11, <2>2, <3>2
  <2> QED
    BY <2>0, <2>1, <2>2
<1>12. Places(u, l) = Places(st, m) \ {st[m]}
  <2>1. \A a \in 1..m : a \in 1..l \/ a = m
    BY <1>1, <1>2
  <2>2. \A a \in 1..l : st[a] # st[m] /\ a \in 1..m
    BY <1>3
  <2> QED
    BY <2>1, <2>2 DEF Places
<1>13. st[m] # 1
  BY <1>2, <1>3, <1>6
<1> HIDE DEF u, q
<1>14. Marks(u, l, q, k)
  BY <1>9, <1>10, <1>11, Zenon DEF Marks
<1> QED
  BY <1>2, <1>8, <1>12, <1>13, <1>14, Zenon DEF Fewer

LEMMA PlacesCounted ==
  ASSUME NEW st, NEW m, NEW q, NEW k \in Nat, Marks(st, m, q, k), NEW c \in 1..m
  PROVE  Cardinality(Places(st, c)) = c
<1> DEFINE g == [a \in 1..c |-> st[a]]
<1>1. g \in [1..c -> Places(st, c)]
  BY DEF Places
<1>2. \A a, b \in 1..c : g[a] = g[b] => a = b
  <2>1. \A a \in 1..c : a \in 1..m /\ st[a] \in 1..k
    BY DEF Marks
  <2>2. \A a, b \in 1..c : a < b => st[a] < st[b]
    BY <2>1 DEF Marks
  <2>3. \A a, b \in 1..c : a = b \/ a < b \/ b < a
    OBVIOUS
  <2>4. \A a, b \in 1..c : st[a] = st[b] => a = b
    <3>1. ASSUME NEW a \in 1..c, NEW b \in 1..c, a < b
          PROVE  st[a] # st[b]
      <4>1. st[a] \in Int /\ st[b] \in Int /\ st[a] < st[b]
        BY <2>1, <2>2, <3>1
      <4> QED
        BY <4>1
    <3> QED
      BY <2>3, <3>1
  <2> QED
    BY <2>4
<1>3. \A t \in Places(st, c) : \E a \in 1..c : g[a] = t
  BY DEF Places
<1> HIDE DEF g
<1>4. g \in Bijection(1..c, Places(st, c))
  BY <1>1, <1>2, <1>3 DEF Bijection, Injection, Surjection, IsInjective
<1>5. c \in Nat /\ ExistsBijection(1..c, Places(st, c))
  BY <1>4 DEF Marks, ExistsBijection
<1> QED
  BY <1>5, FS_CountingElements

\* The k-th place is where the k-th piece begins.
LEMMA MarksRank ==
  ASSUME NEW st, NEW m, NEW q, NEW n \in Nat, n = Len(text), Marks(st, m, q, n),
         NEW a \in 1..m
  PROVE  /\ Rank(Places(st, m), st[a]) = a
         /\ q[a] = SubSeq(text, st[a], End(Places(st, m), st[a]))
<1>1. m \in Nat \ {0} /\ st \in [1..m -> 1..n]
  BY DEF Marks
<1>2. ASSUME NEW b \in 1..m, NEW c \in 1..m
      PROVE  /\ st[b] \in 1..n /\ st[c] \in 1..n
             /\ b <= c <=> st[b] <= st[c]
  <2>1. st[b] \in 1..n /\ st[c] \in 1..n
    BY <1>1
  <2>2. (b < c => st[b] < st[c]) /\ (c < b => st[c] < st[b])
    BY DEF Marks
  <2>3. b < c \/ c < b \/ b = c
    OBVIOUS
  <2> QED
    BY <2>1, <2>2, <2>3
<1>3. Rank(Places(st, m), st[a]) = a
  <2>1. {j \in Places(st, m) : j <= st[a]} = Places(st, a)
    <3>1. \A b \in 1..a : b \in 1..m /\ st[b] <= st[a]
      <4>1. \A b \in 1..a : b \in 1..m /\ b <= a
        BY <1>1
      <4> QED
        BY <1>2, <4>1
    <3>2. \A b \in 1..m : st[b] <= st[a] => b \in 1..a
      BY <1>2
    <3> QED
      BY <3>1, <3>2 DEF Places
  <2>2. Cardinality(Places(st, a)) = a
    BY PlacesCounted
  <2> QED
    BY <2>1, <2>2 DEF Rank
<1>4. End(Places(st, m), st[a]) = IF a < m THEN st[a + 1] - 1 ELSE n
  <2> DEFINE later == {j \in Places(st, m) : j > st[a]}
             X == {n} \cup {j - 1 : j \in later}
  <2>1. \A j \in later : \E b \in 1..m : j = st[b] /\ b > a /\ j \in 1..n
    <3>1. \A b \in 1..m : st[b] > st[a] => b > a
      BY <1>2
    <3> QED
      BY <1>2, <3>1 DEF Places
  <2>2. X \in SUBSET Int /\ n \in X
    BY <2>1
  <2>3. CASE ~ (a < m)
    <3>1. \A b \in 1..m : ~ (b > a)
      BY <1>1, <2>3
    <3>2. later = {}
      BY <2>1, <3>1
    <3>3. \A y \in X : n <= y
      BY <3>2
    <3>4. Min(X) = n
      BY <2>2, <3>3, MinIs
    <3> QED
      BY <2>3, <3>4 DEF End
  <2>4. CASE a < m
    <3>1. a + 1 \in 1..m /\ \A b \in 1..m : b > a => a + 1 <= b
      BY <1>1, <2>4
    <3>2. PICK e \in 1..n : e = st[a + 1]
      BY <1>2, <3>1
    <3>3. e > st[a]
      <4>1. a < a + 1
        OBVIOUS
      <4> QED
        BY <3>1, <3>2, <4>1 DEF Marks
    <3>4. e \in later
      BY <3>1, <3>2, <3>3 DEF Places
    <3>5. e - 1 \in X
      BY <3>4
    <3>6. \A j \in later : e <= j
      BY <1>2, <2>1, <3>1, <3>2
    <3>7. \A y \in X : e - 1 <= y
      <4>1. \A j \in later : j \in Int
        BY <2>1
      <4> QED
        BY <3>6, <4>1
    <3> HIDE DEF X
    <3>8. Min(X) = e - 1
      BY <2>2, <3>5, <3>7, MinIs
    <3> QED
      BY <2>4, <3>2, <3>8 DEF End, X
  <2> QED
    BY <2>3, <2>4
<1> QED
  BY <1>3, <1>4 DEF Marks

\* The chunks and what is in the buffer.
Pieces(d) == IF d.buf = <<>> THEN d.chunks ELSE Append(d.chunks, d.buf)

LEMMA TurnPieces ==
  ASSUME NEW d \in States, NEW p \in Lengths, NEW e, e = Take(d, p)
  PROVE  /\ d.buf # <<>> /\ ~Splits(d, p) =>
               /\ Pieces(e) = Append(d.chunks, Append(d.buf, p))
               /\ e.buf = <<>> => Chars(Append(d.buf, p)) >= MAX_CHARS
         /\ d.buf = <<>> \/ Splits(d, p) =>
               /\ Pieces(e) = Append(Pieces(d), <<p>>)
               /\ e.buf = <<>> => p >= MAX_CHARS
<1>1. PICK c : c = Append(d.buf, p)
  OBVIOUS
<1>2. /\ c # <<>> /\ <<p>> # <<>>
      /\ d.buf = <<>> => c = <<p>> /\ Chars(c) = p
      /\ Splits(d, p) => d.buf # <<>>
  <2>1. d.buf = <<>> => c = <<p>>
    BY <1>1
  <2> QED
    BY <1>1, <2>1, Candidate DEF Splits
<1>3. \/ /\ ~Splits(d, p) /\ e = [chunks |-> d.chunks, buf |-> c]
      \/ /\ ~Splits(d, p) /\ Chars(c) >= MAX_CHARS
         /\ e = [chunks |-> Append(d.chunks, c), buf |-> <<>>]
      \/ /\ Splits(d, p) /\ e = [chunks |-> Append(d.chunks, d.buf), buf |-> <<p>>]
      \/ /\ Splits(d, p) /\ p >= MAX_CHARS
         /\ e = [chunks |-> Append(Append(d.chunks, d.buf), <<p>>), buf |-> <<>>]
  BY <1>1, Turn
<1>4. CASE ~Splits(d, p)
  <2>1. Pieces(e) = Append(d.chunks, c) /\ (e.buf = <<>> => Chars(c) >= MAX_CHARS)
    <3>1. CASE e = [chunks |-> d.chunks, buf |-> c]
      <4>1. e.chunks = d.chunks /\ e.buf = c
        BY <3>1
      <4> QED
        BY <1>2, <4>1, Zenon DEF Pieces
    <3>2. CASE Chars(c) >= MAX_CHARS /\ e = [chunks |-> Append(d.chunks, c), buf |-> <<>>]
      <4>1. e.chunks = Append(d.chunks, c) /\ e.buf = <<>>
        BY <3>2
      <4> QED
        BY <3>2, <4>1, Zenon DEF Pieces
    <3> QED
      BY <1>3, <1>4, <3>1, <3>2, Zenon
  <2>2. d.buf = <<>> => Pieces(d) = d.chunks
    BY DEF Pieces
  <2> QED
    BY <1>1, <1>2, <1>4, <2>1, <2>2, Zenon
<1>5. CASE Splits(d, p)
  <2>1. d.buf # <<>> /\ Pieces(d) = Append(d.chunks, d.buf)
    BY <1>2, <1>5 DEF Pieces
  <2>2. Pieces(e) = Append(Append(d.chunks, d.buf), <<p>>) /\ (e.buf = <<>> => p >= MAX_CHARS)
    <3>1. CASE e = [chunks |-> Append(d.chunks, d.buf), buf |-> <<p>>]
      <4>1. e.chunks = Append(d.chunks, d.buf) /\ e.buf = <<p>>
        BY <3>1
      <4> QED
        BY <1>2, <4>1, Zenon DEF Pieces
    <3>2. CASE /\ p >= MAX_CHARS
               /\ e = [chunks |-> Append(Append(d.chunks, d.buf), <<p>>), buf |-> <<>>]
      <4>1. e.chunks = Append(Append(d.chunks, d.buf), <<p>>) /\ e.buf = <<>>
        BY <3>2
      <4> QED
        BY <3>2, <4>1, Zenon DEF Pieces
    <3> QED
      BY <1>3, <1>5, <3>1, <3>2, Zenon
  <2> QED
    BY <1>5, <2>1, <2>2, Zenon
<1> QED
  BY <1>4, <1>5

\* After k paragraphs, the pieces begin where their definition says, and no
\* piece that is already a chunk could go on.
Cutting(d, k) ==
    \E st, m :
        /\ Marks(st, m, Pieces(d), k)
        /\ Places(st, m) = {1} \cup {i \in Begins : i <= k}
        /\ d.buf = <<>> => Chars(SubSeq(text, st[m], k)) >= MAX_CHARS

LEMMA CutStep ==
  ASSUME NEW n \in Nat, n = Len(text), text \in Seq(Lengths), text # <<>>,
         NEW k \in 1..(n - 1), NEW d \in States, Cutting(d, k)
  PROVE  Cutting(Take(d, text[k + 1]), k + 1)
<1>1. PICK st, m : /\ Marks(st, m, Pieces(d), k)
                   /\ Places(st, m) = {1} \cup {i \in Begins : i <= k}
                   /\ d.buf = <<>> => Chars(SubSeq(text, st[m], k)) >= MAX_CHARS
  BY DEF Cutting
<1>2. PICK p \in Lengths : p = text[k + 1]
  BY DEF Lengths
<1>3. /\ k \in Nat /\ k \in 1..n /\ k < n /\ k + 1 \in 1..n /\ k + 1 \in 2..n
      /\ p \in Nat /\ MAX_CHARS \in Nat
  BY ChunkingAssumption DEF Lengths
<1>4. PICK i \in 1..k : /\ i = st[m] /\ m \in 1..m
                       /\ Pieces(d)[m] = SubSeq(text, i, k)
                       /\ Max(Places(st, m)) = i
  <2>1. PICK v : v = Pieces(d) /\ Marks(st, m, v, k)
    BY <1>1
  <2>2. /\ m \in 1..m /\ st[m] \in 1..k /\ v[m] = SubSeq(text, st[m], k)
        /\ Max(Places(st, m)) = st[m]
    BY <1>3, <2>1, LastPlace
  <2> QED
    BY <2>1, <2>2
<1>5. i \in 1..n /\ k \in i..n /\ k + 1 \in (k + 1)..n
  BY <1>3
<1>6. PICK s \in Seq(Lengths) : s = SubSeq(text, i, k) /\ s # <<>>
  BY <1>5, Segments
<1>7. SubSeq(text, i, k + 1) = Append(s, p) /\ SubSeq(text, k + 1, k + 1) = <<p>>
  BY <1>2, <1>3, <1>5, <1>6, Segments
<1>8. /\ Chars(s) \in Nat /\ Chars(<<p>>) = p /\ <<p>> \in Seq(Lengths)
      /\ Append(s, p) \in Seq(Lengths) /\ Chars(Append(s, p)) = Chars(s) + 2 + p
  <2>1. s \in Seq(Nat)
    BY LengthsAreNumbers
  <2>2. Chars(s) \in Nat /\ Chars(Append(s, p)) = Chars(s) + 2 + p
    BY <1>3, <1>6, <2>1, CharsAre
  <2>3. Chars(<<p>>) = p
    BY Candidate
  <2> QED
    BY <2>2, <2>3
<1>9. k + 1 \in Begins <=> Chars(Append(s, p)) > MAX_CHARS
  <2>1. {1} \cup {j \in Begins : j < k + 1} = Places(st, m)
    <3>1. \A j \in Begins : j < k + 1 <=> j <= k
      BY <1>3, BeginsAreCuts
    <3> QED
      BY <1>1, <3>1
  <2>2. IsCut(Begins, k + 1) <=> Chars(Append(s, p)) > MAX_CHARS
    BY <1>4, <1>7, <2>1, Zenon DEF IsCut
  <2> QED
    BY <1>3, <2>2, BeginsAreCuts
<1>10. k + 1 \in Begins <=> d.buf = <<>> \/ Splits(d, p)
  <2>1. CASE d.buf = <<>>
    BY <1>1, <1>3, <1>4, <1>6, <1>8, <1>9, <2>1
  <2>2. CASE d.buf # <<>>
    <3>1. d.buf = s
      <4>1. PICK q \in Seq(Fitting) : q = d.chunks
        BY DEF States
      <4>2. Pieces(d) = Append(q, d.buf)
        BY <2>2, <4>1 DEF Pieces
      <4>3. Len(Pieces(d)) = m
        BY <1>1 DEF Marks
      <4>4. Append(q, d.buf)[Len(Append(q, d.buf))] = d.buf
        BY <4>1
      <4> QED
        BY <1>4, <1>6, <4>2, <4>3, <4>4
    <3> QED
      BY <1>9, <2>2, <3>1 DEF Splits
  <2> QED
    BY <2>1, <2>2
<1>11. PICK e : e = Take(d, p)
  OBVIOUS
<1>12. CASE k + 1 \in Begins
  <2>1. Pieces(e) = Append(Pieces(d), <<p>>) /\ (e.buf = <<>> => p >= MAX_CHARS)
    BY <1>10, <1>11, <1>12, TurnPieces
  <2>2. PICK u : /\ Marks(u, m + 1, Append(Pieces(d), <<p>>), k + 1)
                 /\ Places(u, m + 1) = Places(st, m) \cup {k + 1}
                 /\ u[m + 1] = k + 1
    <3>1. PICK v, x : v = Pieces(d) /\ x = <<p>>
      OBVIOUS
    <3>2. Marks(st, m, v, k) /\ x \in Seq(Lengths) /\ x = SubSeq(text, k + 1, k + 1)
      BY <1>1, <1>7, <1>8, <3>1
    <3>3. k \in Nat
      BY <1>3
    <3>4. \E u : Further(u, st, m, Append(v, x), k)
      BY <3>2, <3>3, MarksNext, Zenon
    <3> QED
      BY <3>1, <3>4, Zenon DEF Further
  <2>3. Places(u, m + 1) = {1} \cup {j \in Begins : j <= k + 1}
    <3>1. \A j \in Begins : j <= k + 1 <=> j <= k \/ j = k + 1
      BY <1>3, BeginsAreCuts
    <3> QED
      BY <1>1, <1>12, <2>2, <3>1
  <2>4. e.buf = <<>> => Chars(SubSeq(text, u[m + 1], k + 1)) >= MAX_CHARS
    BY <1>7, <1>8, <2>1, <2>2
  <2>5. Marks(u, m + 1, Pieces(e), k + 1)
    BY <2>1, <2>2
  <2> QED
    BY <1>2, <1>11, <2>3, <2>4, <2>5, Zenon DEF Cutting
<1>13. CASE k + 1 \notin Begins
  <2>1. d.buf # <<>> /\ ~Splits(d, p)
    BY <1>10, <1>13
  <2>2. /\ Pieces(e) = Append(d.chunks, Append(d.buf, p))
        /\ e.buf = <<>> => Chars(Append(d.buf, p)) >= MAX_CHARS
    BY <1>11, <2>1, TurnPieces
  <2>3. Pieces(d) = Append(d.chunks, d.buf)
    BY <2>1 DEF Pieces
  <2>4. d.chunks \in Seq(Seq(Lengths))
    <3>1. Fitting \subseteq Seq(Lengths)
      BY DEF Fitting
    <3>2. d.chunks \in Seq(Fitting)
      BY DEF States
    <3> QED
      BY <3>1, <3>2
  <2>5. d.buf = s
    <3>1. PICK q \in Seq(Seq(Lengths)) : q = d.chunks
      BY <2>4
    <3>2. Len(Pieces(d)) = m
      BY <1>1 DEF Marks
    <3>3. Append(q, d.buf)[Len(Append(q, d.buf))] = d.buf
      BY <3>1
    <3> QED
      BY <1>4, <1>6, <2>3, <3>1, <3>2, <3>3
  <2>6. Marks(st, m, Append(d.chunks, Append(s, p)), k + 1)
    BY <1>1, <1>3, <1>4, <1>7, <1>8, <2>3, <2>4, MarksGrow, Zenon
  <2>7. Places(st, m) = {1} \cup {j \in Begins : j <= k + 1}
    <3>1. \A j \in Begins : j <= k + 1 <=> j <= k \/ j = k + 1
      BY <1>3, BeginsAreCuts
    <3> QED
      BY <1>1, <1>13, <3>1
  <2>8. e.buf = <<>> => Chars(SubSeq(text, st[m], k + 1)) >= MAX_CHARS
    BY <1>4, <1>7, <2>2, <2>5
  <2>9. Marks(st, m, Pieces(e), k + 1)
    BY <2>2, <2>5, <2>6
  <2> QED
    BY <1>2, <1>11, <2>7, <2>8, <2>9, Zenon DEF Cutting
<1> QED
  BY <1>12, <1>13

LEMMA CutStart ==
  ASSUME text \in Seq(Lengths), text # <<>>
  PROVE  Cutting(Take(Start, text[1]), 1)
<1>1. PICK p \in Lengths : p = text[1]
  OBVIOUS
<1>2. PICK e : e = Take(Start, p)
  OBVIOUS
<1>3. <<>> \in Seq(Seq(Lengths)) /\ <<p>> \in Seq(Lengths) /\ Append(<<>>, <<p>>) = <<<<p>>>>
  OBVIOUS
<1>4. Pieces(e) = <<<<p>>>> /\ (e.buf = <<>> => p >= MAX_CHARS)
  <2>1. Start.buf = <<>> /\ Start \in States /\ Pieces(Start) = <<>>
    BY StartIsState DEF Start, Pieces
  <2> QED
    BY <1>2, <1>3, <2>1, TurnPieces
<1>5. SubSeq(text, 1, 1) = <<p>> /\ Chars(<<p>>) = p
  <2>1. Len(text) \in Nat /\ 1 \in 1..Len(text) /\ 1 \in 1..1
    OBVIOUS
  <2>2. SubSeq(text, 1, 1) = <<p>>
    <3>1. SubSeq(text, 1, 1) = [a \in 1..1 |-> text[a]]
      OBVIOUS
    <3>2. <<p>> = [a \in 1..1 |-> p]
      OBVIOUS
    <3>3. \A a \in 1..1 : text[a] = p
      BY <1>1
    <3> QED
      BY <3>1, <3>2, <3>3
  <2> QED
    BY <2>2, StartIsState, Candidate
<1>6. PICK st : st = [a \in 1..1 |-> 1]
  OBVIOUS
<1>7. Marks(st, 1, <<<<p>>>>, 1)
  <2>1. /\ 1 \in Nat \ {0} /\ st \in [1..1 -> 1..1] /\ st[1] = 1
        /\ \A a, b \in 1..1 : a < b => st[a] < st[b]
    BY <1>6
  <2>2. <<<<p>>>> \in Seq(Seq(Lengths)) /\ Len(<<<<p>>>>) = 1 /\ <<<<p>>>>[1] = <<p>>
    BY <1>3
  <2>3. \A a \in 1..1 : a = 1 /\ ~ (a < 1)
    OBVIOUS
  <2>4. \A a \in 1..1 : <<<<p>>>>[a] = SubSeq(text, st[a], IF a < 1 THEN st[a + 1] - 1 ELSE 1)
    BY <1>5, <2>1, <2>2, <2>3, Zenon
  <2> QED
    BY <2>1, <2>2, <2>4, Zenon DEF Marks
<1>8. Places(st, 1) = {1} \cup {i \in Begins : i <= 1}
  <2>1. \A i \in Begins : ~ (i <= 1)
    BY BeginsAreCuts
  <2>2. Places(st, 1) = {1}
    BY <1>6 DEF Places
  <2> QED
    BY <2>1, <2>2
<1>9. st[1] = 1
  BY <1>6
<1>10. e.buf = <<>> => Chars(SubSeq(text, st[1], 1)) >= MAX_CHARS
  BY <1>4, <1>5, <1>9
<1>11. Marks(st, 1, Pieces(e), 1)
  BY <1>4, <1>7
<1> QED
  BY <1>1, <1>2, <1>8, <1>10, <1>11, Zenon DEF Cutting

LEMMA CutThrough ==
  ASSUME text \in Seq(Lengths), text # <<>>
  PROVE  Cutting(Loop(text), Len(text))
<1>1. PICK n \in Nat \ {0} : n = Len(text)
  OBVIOUS
<1>2. PICK done : Turns(done, text) /\ Loop(text) = done[n]
  BY <1>1, LoopTurns
<1> DEFINE T == {k \in 0..n : k = 0 \/ Cutting(done[k], k)}
<1>3. 0 \in T
  BY <1>1
<1>4. ASSUME NEW k \in 1..n, k - 1 \in T
      PROVE  k \in T
  <2>1. done[k] = Take(done[k - 1], text[k])
    BY <1>1, <1>2 DEF Turns
  <2>2. CASE k = 1
    <3>1. done[1] = Take(Start, text[1])
      BY <1>2, <2>1, <2>2 DEF Turns
    <3> QED
      BY <2>2, <3>1, CutStart
  <2>3. CASE k # 1
    <3>1. PICK j \in 1..(n - 1) : j = k - 1 /\ k = j + 1
      BY <2>3
    <3>2. j \in 0..n /\ n \in Nat
      BY <1>1
    <3>3. done[j] \in States /\ Cutting(done[j], j)
      BY <1>1, <1>2, <1>4, <3>1, <3>2 DEF Turns
    <3>4. Cutting(Take(done[j], text[j + 1]), j + 1)
      BY <1>1, <3>2, <3>3, CutStep, Zenon
    <3> QED
      BY <2>1, <3>1, <3>4
  <2> QED
    BY <2>2, <2>3
<1> HIDE DEF T
<1>5. n \in T
  <2>1. n \in Nat /\ n \in 0..n
    BY <1>1
  <2>2. \A k \in 0..n : k \in T
    BY <1>3, <1>4, <2>1, Climb
  <2> QED
    BY <2>1, <2>2
<1> QED
  BY <1>1, <1>2, <1>5 DEF T

\* So do the chunks, when the tail has joined the last one or is one.
LEMMA CutTail ==
  ASSUME text \in Seq(Lengths), text # <<>>
  PROVE  \E st, m : Marks(st, m, Chunks(text), Len(text)) /\ Places(st, m) = {1} \cup Cuts
<1>1. PICK n \in Nat \ {0} : n = Len(text)
  OBVIOUS
<1>2. PICK d \in States : d = Loop(text) /\ Chunks(text) = Close(d)
  BY LoopGoesOn DEF Chunks
<1>3. PICK st, m : /\ Marks(st, m, Pieces(d), n)
                   /\ Places(st, m) = {1} \cup {i \in Begins : i <= n}
                   /\ d.buf = <<>> => Chars(SubSeq(text, st[m], n)) >= MAX_CHARS
  BY <1>1, <1>2, CutThrough DEF Cutting
<1>4. Places(st, m) = {1} \cup Begins /\ 1 \notin Begins
  <2>1. \A i \in Begins : i <= n /\ i # 1
    BY <1>1, BeginsAreCuts
  <2> QED
    BY <1>3, <2>1
<1>5. PICK v : v = Pieces(d) /\ Marks(st, m, v, n)
  BY <1>3
<1>6. PICK s : s = SubSeq(text, st[m], n)
  OBVIOUS
<1>7. m \in 1..m /\ v[m] = s /\ Max({1} \cup Begins) = st[m]
  <2>1. n \in Nat
    OBVIOUS
  <2>2. /\ m \in 1..m /\ v[m] = SubSeq(text, st[m], n)
        /\ Max(Places(st, m)) = st[m]
    BY <1>5, <2>1, LastPlace
  <2> QED
    BY <1>4, <1>6, <2>2, Zenon
<1>8. Cuts = IF Chars(s) < MIN_CHARS THEN Begins \ {st[m]} ELSE Begins
  BY <1>1, <1>6, <1>7, Zenon DEF Cuts
<1>9. PICK q \in Seq(Fitting) : q = d.chunks /\ q \in Seq(Seq(Lengths))
  <2>1. Fitting \subseteq Seq(Lengths)
    BY DEF Fitting
  <2> QED
    BY <2>1 DEF States
<1>10. CASE d.buf = <<>>
  <2>1. Chunks(text) = v
    BY <1>2, <1>5, <1>10, Closing DEF Pieces
  <2>2. ~ (Chars(s) < MIN_CHARS)
    <3>1. st[m] \in 1..n /\ n \in 1..n
      BY <1>1, <1>7, <1>5 DEF Marks
    <3>2. s \in Seq(Lengths)
      BY <1>1, <1>6, <3>1, Segments
    <3>3. Chars(s) \in Nat
      BY <3>2, LengthsAreNumbers, CharsAre
    <3> QED
      BY <1>3, <1>6, <1>10, <3>3, ChunkingAssumption
  <2> QED
    BY <1>1, <1>4, <1>5, <1>8, <2>1, <2>2
<1>11. CASE d.buf # <<>>
  <2>1. v = Append(q, d.buf) /\ d.buf = s /\ m = Len(q) + 1
    <3>1. v = Append(q, d.buf)
      BY <1>5, <1>9, <1>11 DEF Pieces
    <3>2. Len(v) = m
      BY <1>5 DEF Marks
    <3>3. Len(Append(q, d.buf)) = Len(q) + 1 /\ Append(q, d.buf)[Len(q) + 1] = d.buf
      BY <1>9
    <3> QED
      BY <1>7, <3>1, <3>2, <3>3
  <2>2. CASE ~Joins(d)
    <3>1. Chunks(text) = v
      BY <1>2, <1>5, <1>11, <2>2, Closing DEF Pieces
    <3>2. Cuts = Begins
      <4>1. CASE Len(q) = 0
        <5>1. m = 1 /\ st[m] = 1
          BY <1>5, <2>1, <4>1 DEF Marks
        <5> QED
          BY <1>4, <1>8, <5>1
      <4>2. CASE Len(q) # 0
        <5>1. ~ (Chars(s) < MIN_CHARS)
          BY <1>9, <2>1, <2>2, <4>2 DEF Joins
        <5> QED
          BY <1>8, <5>1
      <4> QED
        BY <4>1, <4>2
    <3> QED
      BY <1>1, <1>4, <1>5, <3>1, <3>2
  <2>3. CASE Joins(d)
    <3>1. Chunks(text) = [q EXCEPT ![Len(q)] = @ \o s] /\ q # <<>> /\ Chars(s) < MIN_CHARS
      <4>1. Chunks(text) = [d.chunks EXCEPT ![Len(d.chunks)] = @ \o d.buf]
        BY <1>2, <1>11, <2>3, Closing
      <4>2. Chunks(text) = [q EXCEPT ![Len(q)] = @ \o s]
        BY <1>9, <2>1, <4>1, Zenon
      <4>3. Len(q) > 0 /\ Chars(s) < MIN_CHARS
        BY <1>9, <2>1, <2>3 DEF Joins
      <4> QED
        BY <4>2, <4>3
    <3>2. s \in Seq(Lengths) /\ n \in 1..Len(text) /\ Marks(st, m, Append(q, s), n)
      BY <1>1, <1>5, <1>11, <2>1 DEF States, Fitting
    <3>3. PICK u : Fewer(u, st, m, [q EXCEPT ![Len(q)] = @ \o s], n)
      BY <1>9, <3>1, <3>2, MarksJoin, Zenon
    <3>4. Places(u, m - 1) = {1} \cup Cuts
      BY <1>4, <1>8, <3>1, <3>3 DEF Fewer
    <3> QED
      BY <1>1, <3>1, <3>3, <3>4, Zenon DEF Fewer
  <2> QED
    BY <2>2, <2>3
<1> QED
  BY <1>10, <1>11

\* CutsAreGreedy: chunk_text cuts every text where the definition without a loop
\* says, and no paragraph is lost, repeated or moved, whatever min_chars and
\* max_chars are.
THEOREM CutsAreGreedyAlways == Spec => []CutsAreGreedy
<1>1. ASSUME TextInv
      PROVE  CutsAreGreedy
  <2>1. text \in Seq(Lengths)
    BY <1>1 DEF TextInv
  <2>2. CASE text = <<>>
    <3>1. Loop(text) = Start /\ Start \in States /\ Start.buf = <<>> /\ Start.chunks = <<>>
      BY <2>2, LoopGoesOn, StartIsState DEF Start
    <3>2. Chunks(text) = <<>>
      BY <3>1, Closing DEF Chunks
    <3> QED
      BY <2>2, <3>2, Zenon DEF CutsAreGreedy
  <2>3. CASE text # <<>>
    <3>1. PICK n \in Nat : n = Len(text)
      BY <2>1
    <3>2. PICK st, m : Marks(st, m, Chunks(text), n) /\ Places(st, m) = {1} \cup Cuts
      BY <2>1, <2>3, <3>1, CutTail
    <3>3. PICK chunks : chunks = Chunks(text)
      OBVIOUS
    <3>4. PICK starts : starts = {1} \cup Cuts /\ starts = Places(st, m)
      BY <3>2
    <3>5. Marks(st, m, chunks, n)
      BY <3>2, <3>3
    <3>6. Len(chunks) = Cardinality(starts)
      <4>1. m \in 1..m /\ Len(chunks) = m
        BY <3>5 DEF Marks
      <4> QED
        BY <3>4, <3>5, <4>1, PlacesCounted
    <3>7. \A i \in starts : chunks[Rank(starts, i)] = SubSeq(text, i, End(starts, i))
      <4>1. ASSUME NEW a \in 1..m
            PROVE  chunks[Rank(starts, st[a])] = SubSeq(text, st[a], End(starts, st[a]))
        <5>1. /\ Rank(Places(st, m), st[a]) = a
              /\ chunks[a] = SubSeq(text, st[a], End(Places(st, m), st[a]))
          BY <3>1, <3>5, MarksRank
        <5> QED
          BY <3>4, <5>1
      <4> QED
        BY <3>4, <4>1 DEF Places
    <3> QED
      BY <2>3, <3>3, <3>4, <3>6, <3>7, Zenon DEF CutsAreGreedy
  <2> QED
    BY <2>2, <2>3
<1> QED
  BY <1>1, TextAlways, PTL

=============================================================================
