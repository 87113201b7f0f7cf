-------------------------- MODULE ProcessingProofs --------------------------
(* Theorems about an attempt at an item, for any number of languages and   *)
(* retries, any pauses, and any number of workers and faults.              *)
EXTENDS Processing, FiniteSetTheorems, TLAPS

----------------------------------------------------------------------------
(* The pauses of a generation. *)

\* Twice the pauses before request a: 1, 2, ... a - 1 times BACKOFF.
Before(a) == BACKOFF * (a * (a - 1))

\* The bound of RetriesBounded.
AllOfIt == BACKOFF * (IF MAX_RETRIES = 1 THEN 2 ELSE MAX_RETRIES * (MAX_RETRIES - 1))

LEMMA Monotone ==
  ASSUME NEW k \in Nat, NEW x \in Nat, NEW y \in Nat, x <= y
  PROVE  k * x <= k * y
  OBVIOUS

LEMMA BoundsAre ==
  /\ AllOfIt \in Nat
  /\ \A a \in Nat \ {0} : Before(a) \in Nat
  /\ Before(1) = 0
  /\ MAX_RETRIES = 1 => AllOfIt = 2 * BACKOFF
  /\ MAX_RETRIES # 1 => AllOfIt = Before(MAX_RETRIES)
<1>1. \A a \in Nat \ {0} : a * (a - 1) \in Nat /\ Before(a) \in Nat
  <2> SUFFICES ASSUME NEW a \in Nat \ {0}
               PROVE  a * (a - 1) \in Nat /\ Before(a) \in Nat
    OBVIOUS
  <2>1. PICK x \in Nat : x = a * (a - 1)
    OBVIOUS
  <2>2. BACKOFF * x \in Nat
    BY ProcessingAssumption
  <2> QED
    BY <2>1, <2>2 DEF Before
<1>2. Before(1) = 0
  BY ProcessingAssumption DEF Before
<1>3. MAX_RETRIES = 1 => AllOfIt = 2 * BACKOFF
  BY ProcessingAssumption DEF AllOfIt
<1>4. MAX_RETRIES # 1 => AllOfIt = Before(MAX_RETRIES)
  BY DEF AllOfIt, Before
<1>5. AllOfIt \in Nat
  BY <1>1, <1>3, <1>4, ProcessingAssumption
<1> QED
  BY <1>1, <1>2, <1>3, <1>4, <1>5

\* What was slept before a request, and a pause after it.
LEMMA AnotherPause ==
  ASSUME NEW a \in 1..MAX_RETRIES, NEW s \in Nat, NEW p \in Nat,
         2 * s <= Before(a), p <= BACKOFF * a,
         a < MAX_RETRIES \/ (a = 1 /\ p <= BACKOFF)
  PROVE  2 * (s + p) <= Before(a + 1) /\ 2 * (s + p) <= AllOfIt
<1>0. a \in Nat \ {0} /\ a + 1 \in Nat \ {0} /\ a <= MAX_RETRIES
  BY ProcessingAssumption
<1>1. Before(a + 1) = Before(a) + 2 * (BACKOFF * a)
  <2>1. \A b \in Nat : b * ((a + 1) * (a + 1 - 1)) = b * (a * (a - 1)) + 2 * (b * a)
    BY <1>0
  <2> QED
    BY <2>1, ProcessingAssumption DEF Before
<1>2. PICK c \in Nat : c = BACKOFF * a
  BY <1>0, ProcessingAssumption
<1>3. 2 * (s + p) <= Before(a + 1)
  BY <1>0, <1>1, <1>2, BoundsAre
<1>4. CASE MAX_RETRIES = 1
  <2>1. a = 1
    BY <1>0, <1>4
  <2>2. s = 0 /\ p <= BACKOFF
    BY <2>1, BoundsAre, ProcessingAssumption
  <2> QED
    BY <1>3, <1>4, <2>2, BoundsAre, ProcessingAssumption
<1>5. CASE MAX_RETRIES # 1
  <2>1. PICK m \in Nat : m = MAX_RETRIES /\ m >= a + 1
    BY <1>0, <1>5, ProcessingAssumption
  <2>2. (a + 1) * a <= m * (m - 1)
    <3>1. a <= m - 1 /\ m - 1 \in Nat
      BY <1>0, <2>1
    <3>2. (a + 1) * a <= (a + 1) * (m - 1)
      BY <1>0, <3>1, Monotone
    <3>3. (m - 1) * (a + 1) <= (m - 1) * m
      BY <1>0, <2>1, <3>1, Monotone
    <3>4. PICK x, y, z : x = (a + 1) * a /\ y = (a + 1) * (m - 1) /\ z = m * (m - 1)
      OBVIOUS
    <3>5. x \in Nat /\ y \in Nat /\ z \in Nat /\ (m - 1) * (a + 1) = y /\ (m - 1) * m = z
      BY <1>0, <2>1, <3>1, <3>4
    <3>6. x <= y /\ y <= z
      BY <3>2, <3>3, <3>4, <3>5
    <3> QED
      BY <3>4, <3>5, <3>6
  <2>3. Before(a + 1) <= Before(m)
    <3>1. PICK x \in Nat : x = (a + 1) * a
      BY <1>0
    <3>2. PICK z \in Nat : z = m * (m - 1)
      BY <1>0, <2>1
    <3>3. BACKOFF * x <= BACKOFF * z
      BY <2>2, <3>1, <3>2, Monotone, ProcessingAssumption
    <3>4. a + 1 - 1 = a
      BY <1>0
    <3> QED
      BY <3>1, <3>2, <3>3, <3>4 DEF Before
  <2>4. Before(m) = AllOfIt /\ Before(m) \in Nat /\ Before(a + 1) \in Nat
    BY <1>0, <1>5, <2>1, BoundsAre
  <2> QED
    BY <1>3, <2>3, <2>4
<1> QED
  BY <1>4, <1>5

----------------------------------------------------------------------------
(* The inductive invariant. *)

\* A worker in a generation: the requests that have ended are those before
\* this one, one of them at most met no model (a second one would have been
\* the last), and what was slept between them is below its bound.
InLoop(r) ==
    /\ r.calls = r.attempt - 1
    /\ r.missing <= 1
    /\ r.attempt = 1 => r.missing = 0
    /\ 2 * r.paused <= Before(r.attempt)

\* And any worker, in a generation or after it.
Good(r) ==
    /\ r \in Attempt
    /\ r.step # "idle" => r.outcome = "none"
    /\ r.step = "ask" => InLoop(r)
    /\ r.step \notin {"idle", "ask"} => r.lang = 1
    /\ r.messages <= 2 * r.attempt - 1
    /\ r.missing <= 2
    /\ r.calls <= MAX_RETRIES
    /\ 2 * r.paused <= AllOfIt
    /\ r.outcome = "exhausted" => r.calls = MAX_RETRIES
    /\ r.outcome = "not_found" => r.calls >= 2

GoodInv == \A w \in Workers : Good(at[w])

Failures == {"raised", "bad_cache", "exhausted", "not_found"}

\* What a step makes of a worker, as far as an attempt is concerned: it begins
\* an attempt; it goes on with it, or with the next language; it ends it with
\* rows, without, or with an exception; or it is killed.
Move(r, x) ==
    \/ r.step = "idle" /\ x.step # "idle" /\ x.outcome = "none" /\ x.lang = 1
    \/ /\ r.step # "idle"
       /\ \/ /\ x.step # "idle" /\ x.outcome = "none" /\ x.lang = r.lang
             /\ r.step = "ask" => x.step = "ask"
          \/ /\ r.step = "ask" /\ r.lang < NLangs
             /\ x.step = "ask" /\ x.outcome = "none" /\ x.lang = r.lang + 1
          \/ /\ r.step = "ask" /\ r.lang = NLangs
             /\ x.step = "idle" /\ x.outcome = "rows" /\ x.lang = r.lang
          \/ /\ r.step \notin {"idle", "ask"} /\ ~speech /\ r.lang = 1
             /\ x.step = "idle" /\ x.outcome = "no_rows" /\ x.lang = 1
          \/ x.step = "idle" /\ x.outcome \in Failures /\ x.lang = r.lang
          \/ x.step = "idle" /\ x.outcome = "none" /\ x.lang = 1

LEMMA Numbers ==
    /\ 1 \in 1..NLangs /\ 1 \in 1..MAX_RETRIES /\ 0 \in 0..MaxFaults /\ 0 <= MAX_RETRIES
    /\ AllOfIt \in Nat /\ Before(1) = 0
  BY BoundsAre, ProcessingAssumption

\* What an update of some fields leaves.
LEMMA AskingFields ==
  ASSUME NEW r \in Attempt, NEW lang \in 1..NLangs
  PROVE  LET n == Asking(r, lang) IN
         /\ n \in Attempt
         /\ n.step = "ask" /\ n.outcome = r.outcome /\ n.lang = lang /\ n.attempt = 1
         /\ n.messages = 1 /\ n.missing = 0 /\ n.calls = 0 /\ n.paused = 0
  BY Numbers DEF Asking, Attempt

LEMMA EndedFields ==
  ASSUME NEW r \in Attempt,
         NEW outcome \in {"none", "rows", "no_rows", "raised", "bad_cache", "exhausted",
                          "not_found"}
  PROVE  LET n == [r EXCEPT !.step = "idle", !.outcome = outcome] IN
         /\ n \in Attempt
         /\ n.step = "idle" /\ n.outcome = outcome /\ n.lang = r.lang
         /\ n.attempt = r.attempt /\ n.messages = r.messages /\ n.missing = r.missing
         /\ n.calls = r.calls /\ n.paused = r.paused
  BY DEF Attempt

LEMMA BegunGood ==
  ASSUME NEW item \in Modalities, NEW r, r.step = "idle"
  PROVE  LET n == [Idle EXCEPT !.step = "fetch", !.item = item] IN Good(n) /\ Move(r, n)
<1> DEFINE n == [Idle EXCEPT !.step = "fetch", !.item = item]
<1>1. /\ n \in Attempt
      /\ n.step = "fetch" /\ n.outcome = "none" /\ n.lang = 1 /\ n.attempt = 1
      /\ n.messages = 1 /\ n.missing = 0 /\ n.calls = 0 /\ n.paused = 0
  BY Numbers DEF Idle, Attempt
<1> HIDE DEF n
<1>2. Good(n) /\ Move(r, n)
  BY <1>1, Numbers DEF Good, Move
<1> QED
  BY <1>2 DEF n

LEMMA IdleGood ==
    Good(Idle) /\ \A r : r.step # "idle" => Move(r, Idle)
  BY Numbers DEF Good, InLoop, Idle, Attempt, Move

LEMMA GoesGood ==
  ASSUME NEW r \in Attempt, Good(r), r.step \notin {"idle", "ask"}, NEW step \in Holding
  PROVE  LET n == [r EXCEPT !.step = step] IN Good(n) /\ Move(r, n)
  BY DEF Good, InLoop, Attempt, Holding, Move

LEMMA EndedGood ==
  ASSUME NEW r \in Attempt, Good(r), r.step \notin {"idle", "ask"},
         NEW outcome \in {"no_rows", "raised", "bad_cache"},
         outcome = "no_rows" => ~speech
  PROVE  LET n == [r EXCEPT !.step = "idle", !.outcome = outcome] IN Good(n) /\ Move(r, n)
  BY DEF Good, InLoop, Attempt, Move, Failures

LEMMA AskingGood ==
  ASSUME NEW r \in Attempt, Good(r), r.step # "idle", NEW lang \in 1..NLangs,
         IF r.step = "ask" THEN lang = r.lang + 1 ELSE lang = 1
  PROVE  Good(Asking(r, lang)) /\ Move(r, Asking(r, lang))
<1> DEFINE n == Asking(r, lang)
<1>1. /\ n \in Attempt
      /\ n.step = "ask" /\ n.outcome = r.outcome /\ n.lang = lang /\ n.attempt = 1
      /\ n.messages = 1 /\ n.missing = 0 /\ n.calls = 0 /\ n.paused = 0
  BY AskingFields
<1>2. r.outcome = "none"
  BY DEF Good
<1> HIDE DEF n
<1>3. Good(n)
  BY <1>1, <1>2, Numbers DEF Good, InLoop
<1>4. Move(r, n)
  <2>1. CASE r.step = "ask"
    <3>1. r.lang < NLangs
      BY <2>1, ProcessingAssumption DEF Attempt
    <3> QED
      BY <1>1, <1>2, <2>1, <3>1 DEF Move
  <2>2. CASE r.step # "ask"
    BY <1>1, <1>2, <2>2 DEF Move, Good
  <2> QED
    BY <2>1, <2>2
<1> QED
  BY <1>3, <1>4 DEF n

\* What a request that has ended leaves.
AfterRequest(q, r) ==
    /\ q \in Attempt
    /\ q.step = "ask"
    /\ q.outcome = "none"
    /\ q.lang = r.lang
    /\ q.attempt = r.attempt
    /\ q.calls = q.attempt /\ q.calls <= MAX_RETRIES
    /\ q.messages <= 2 * q.attempt - 1
    /\ q.missing <= 1 /\ (q.attempt = 1 => q.missing = 0)
    /\ 2 * q.paused <= Before(q.attempt)
    /\ 2 * q.paused <= AllOfIt

LEMMA RequestEnds ==
  ASSUME NEW r \in Attempt, Good(r), r.step = "ask"
  PROVE  AfterRequest([r EXCEPT !.calls = @ + 1], r)
<1> DEFINE c == r.calls + 1
           q == [r EXCEPT !.calls = c]
<1>1. InLoop(r) /\ r.outcome = "none" /\ r.messages <= 2 * r.attempt - 1 /\ 2 * r.paused <= AllOfIt
  BY DEF Good
<1>2. /\ r.attempt \in 1..MAX_RETRIES /\ r.paused \in Nat /\ r.calls \in Nat
      /\ r.attempt \in Nat \ {0} /\ c \in Nat
  BY ProcessingAssumption DEF Attempt
<1>3. /\ q \in Attempt
      /\ q.step = r.step /\ q.outcome = r.outcome /\ q.lang = r.lang
      /\ q.attempt = r.attempt /\ q.messages = r.messages /\ q.missing = r.missing
      /\ q.calls = c /\ q.paused = r.paused
  <2> HIDE DEF c
  <2> QED
    BY <1>2 DEF Attempt
<1>4. c = r.attempt /\ c <= MAX_RETRIES
  BY <1>1, <1>2, ProcessingAssumption DEF InLoop
<1> HIDE DEF q, c
<1>5. AfterRequest(q, r)
  BY <1>1, <1>3, <1>4 DEF AfterRequest, InLoop
<1> QED
  BY <1>5 DEF q, c

\* What a pause of p seconds after it leaves.
Rested(q, r) ==
    /\ q \in Attempt
    /\ q.step = "ask" /\ q.outcome = "none" /\ q.lang = r.lang /\ q.attempt = r.attempt
    /\ q.calls = r.calls /\ q.messages = r.messages /\ q.missing = r.missing
    /\ 2 * q.paused <= Before(q.attempt + 1)
    /\ 2 * q.paused <= AllOfIt

LEMMA RestGood ==
  ASSUME NEW q \in Attempt, NEW p \in Nat, q.step = "ask", q.outcome = "none",
         2 * q.paused <= Before(q.attempt), p <= BACKOFF * q.attempt,
         q.attempt < MAX_RETRIES \/ (q.attempt = 1 /\ p <= BACKOFF)
  PROVE  Rested(Slept(q, p), q)
<1>1. q.attempt \in 1..MAX_RETRIES /\ q.paused \in Nat /\ q.paused + p \in Nat
  BY DEF Attempt
<1>2. 2 * (q.paused + p) <= Before(q.attempt + 1) /\ 2 * (q.paused + p) <= AllOfIt
  BY <1>1, AnotherPause
<1> DEFINE s == q.paused + p
           n == [q EXCEPT !.paused = s]
<1>5. s \in Nat
  BY <1>1
<1>3. /\ n \in Attempt
      /\ n.step = q.step /\ n.outcome = q.outcome /\ n.lang = q.lang
      /\ n.attempt = q.attempt /\ n.messages = q.messages /\ n.missing = q.missing
      /\ n.calls = q.calls /\ n.paused = s
  <2> HIDE DEF s
  <2> QED
    BY <1>5 DEF Attempt
<1>4. Slept(q, p) = n
  BY DEF Slept
<1> HIDE DEF n
<1> QED
  BY <1>2, <1>3, <1>4 DEF Rested

\* Without a pause the bound holds too.
LEMMA AnotherBound ==
  ASSUME NEW a \in 1..MAX_RETRIES, NEW s \in Nat, 2 * s <= Before(a)
  PROVE  2 * s <= Before(a + 1)
<1>1. a \in Nat \ {0} /\ a + 1 \in Nat \ {0}
  BY ProcessingAssumption
<1>2. Before(a + 1) = Before(a) + 2 * (BACKOFF * a)
  <2>1. \A b \in Nat : b * ((a + 1) * (a + 1 - 1)) = b * (a * (a - 1)) + 2 * (b * a)
    BY <1>1
  <2> QED
    BY <2>1, ProcessingAssumption DEF Before
<1>3. PICK c \in Nat : c = BACKOFF * a
  BY <1>1, ProcessingAssumption
<1> QED
  BY <1>1, <1>2, <1>3, BoundsAre

\* The loop goes on, or is left for want of requests.
LEMMA AgainGood ==
  ASSUME NEW q \in Attempt,
         q.step = "ask", q.outcome = "none", q.calls = q.attempt, q.missing <= 1,
         q.messages <= 2 * q.attempt + 1,
         q.attempt = MAX_RETRIES => q.messages <= 2 * q.attempt - 1,
         2 * q.paused <= AllOfIt,
         2 * q.paused <= Before(q.attempt + 1)
  PROVE  Good(Again(q)) /\ Move(q, Again(q))
<1>1. /\ q.attempt \in 1..MAX_RETRIES /\ q.paused \in Nat /\ q.messages \in Nat
      /\ q.attempt \in Nat /\ q.missing \in Nat
  BY ProcessingAssumption DEF Attempt
<1>2. CASE q.attempt < MAX_RETRIES
  <2> DEFINE a == q.attempt + 1
             n == [q EXCEPT !.attempt = a]
  <2>1. a \in 1..MAX_RETRIES
    BY <1>1, <1>2, ProcessingAssumption
  <2>2. /\ n \in Attempt
        /\ n.step = q.step /\ n.outcome = q.outcome /\ n.lang = q.lang
        /\ n.calls = q.calls /\ n.messages = q.messages /\ n.missing = q.missing
        /\ n.attempt = a /\ n.paused = q.paused
    <3> HIDE DEF a
    <3> QED
      BY <2>1 DEF Attempt
  <2>3. Again(q) = n
    BY <1>2 DEF Again
  <2> HIDE DEF n
  <2>4. InLoop(n)
    BY <1>1, <2>2 DEF InLoop
  <2>5. n.messages <= 2 * n.attempt - 1 /\ n.missing <= 2 /\ n.calls <= MAX_RETRIES
    BY <1>1, <1>2, <2>2
  <2> QED
    BY <2>2, <2>3, <2>4, <2>5 DEF Good, Move
<1>3. CASE ~(q.attempt < MAX_RETRIES)
  <2> DEFINE n == [q EXCEPT !.step = "idle", !.outcome = "exhausted"]
  <2>1. /\ n \in Attempt
        /\ n.step = "idle" /\ n.outcome = "exhausted" /\ n.lang = q.lang
        /\ n.attempt = q.attempt /\ n.messages = q.messages /\ n.missing = q.missing
        /\ n.calls = q.calls /\ n.paused = q.paused
    BY EndedFields
  <2>2. Again(q) = n /\ q.attempt = MAX_RETRIES
    BY <1>1, <1>3, ProcessingAssumption DEF Again
  <2> HIDE DEF n
  <2> QED
    BY <1>1, <2>1, <2>2 DEF Good, Move, Failures
<1> QED
  BY <1>2, <1>3

LEMMA MoveFrom ==
  ASSUME NEW q, NEW r, NEW x, q.step = r.step, q.lang = r.lang, Move(q, x)
  PROVE  Move(r, x)
  BY DEF Move

\* The ways on from a request that has ended.
LEMMA LeftGood ==
  ASSUME NEW q, NEW r, AfterRequest(q, r), r.step = "ask",
         NEW outcome \in {"rows", "raised"}, outcome = "rows" => r.lang = NLangs
  PROVE  LET n == [q EXCEPT !.step = "idle", !.outcome = outcome] IN Good(n) /\ Move(r, n)
<1> DEFINE n == [q EXCEPT !.step = "idle", !.outcome = outcome]
<1>0. q \in Attempt
  BY DEF AfterRequest
<1>1. /\ n \in Attempt
      /\ n.step = "idle" /\ n.outcome = outcome /\ n.lang = q.lang
      /\ n.attempt = q.attempt /\ n.messages = q.messages /\ n.missing = q.missing
      /\ n.calls = q.calls /\ n.paused = q.paused
  BY <1>0 DEF Attempt
<1> HIDE DEF n
<1>2. n.missing \in Nat
  BY <1>1 DEF Attempt
<1>3. Good(n) /\ Move(r, n)
  BY <1>1, <1>2 DEF Good, AfterRequest, Move, Failures
<1> QED
  BY <1>3 DEF n

LEMMA CorrectedGood ==
  ASSUME NEW q, NEW r, AfterRequest(q, r), r.step = "ask"
  PROVE  LET c == IF r.attempt < MAX_RETRIES THEN [q EXCEPT !.messages = @ + 2] ELSE q IN
         Good(Again(c)) /\ Move(r, Again(c))
<1>0. q \in Attempt /\ q.attempt = r.attempt /\ q.attempt \in 1..MAX_RETRIES
      /\ q.messages \in Nat /\ q.attempt \in Nat
  BY ProcessingAssumption DEF AfterRequest, Attempt
<1>3. 2 * q.paused <= Before(q.attempt + 1)
  BY <1>0, AnotherBound DEF AfterRequest, Attempt
<1>1. CASE r.attempt < MAX_RETRIES
  <2> DEFINE k == q.messages + 2
             n == [q EXCEPT !.messages = k]
  <2>1. k \in Nat
    BY <1>0
  <2>2. /\ n \in Attempt
        /\ n.step = q.step /\ n.outcome = q.outcome /\ n.attempt = q.attempt
        /\ n.lang = q.lang
        /\ n.missing = q.missing /\ n.calls = q.calls /\ n.paused = q.paused
        /\ n.messages = k
    <3> HIDE DEF k
    <3> QED
      BY <1>0, <2>1 DEF Attempt
  <2>3. Again([q EXCEPT !.messages = @ + 2]) = Again(n)
    OBVIOUS
  <2> HIDE DEF n
  <2>4. n.messages <= 2 * n.attempt + 1 /\ n.attempt # MAX_RETRIES
    BY <1>0, <1>1, <2>2, ProcessingAssumption DEF AfterRequest
  <2>7. 2 * n.paused <= Before(n.attempt + 1)
    BY <1>3, <2>2
  <2>5. Good(Again(n)) /\ Move(n, Again(n))
    BY <2>2, <2>4, <2>7, AgainGood DEF AfterRequest
  <2>6. Move(r, Again(n))
    BY <2>2, <2>5, MoveFrom DEF AfterRequest
  <2> QED
    BY <1>1, <2>3, <2>5, <2>6
<1>2. CASE ~(r.attempt < MAX_RETRIES)
  <2>1. q.messages <= 2 * q.attempt + 1
    BY <1>0 DEF AfterRequest
  <2>2. Good(Again(q)) /\ Move(q, Again(q))
    BY <1>0, <1>3, <2>1, AgainGood DEF AfterRequest
  <2>3. Move(r, Again(q))
    BY <2>2, MoveFrom DEF AfterRequest
  <2> QED
    BY <1>2, <2>2, <2>3
<1> QED
  BY <1>1, <1>2

LEMMA MissedGood ==
  ASSUME NEW q, NEW r, AfterRequest(q, r), r.step = "ask"
  PROVE  LET m == [q EXCEPT !.missing = @ + 1]
             x == IF m.attempt = 1 THEN Again(Slept(m, BACKOFF))
                  ELSE [m EXCEPT !.step = "idle", !.outcome = "not_found"]
         IN  Good(x) /\ Move(r, x)
<1>0. /\ q \in Attempt /\ q.attempt \in 1..MAX_RETRIES
      /\ q.messages \in Nat /\ q.attempt \in Nat /\ q.missing \in Nat
  BY ProcessingAssumption DEF AfterRequest, Attempt
<1> DEFINE k == q.missing + 1
           m == [q EXCEPT !.missing = k]
<1>1. k \in Nat
  BY <1>0
<1>2. /\ m \in Attempt
      /\ m.step = q.step /\ m.outcome = q.outcome /\ m.attempt = q.attempt
      /\ m.lang = q.lang
      /\ m.messages = q.messages /\ m.calls = q.calls /\ m.paused = q.paused
      /\ m.missing = k
  <2> HIDE DEF k
  <2> QED
    BY <1>0, <1>1 DEF Attempt
<1> HIDE DEF m
<1>3. ASSUME m.attempt = 1
      PROVE  Good(Again(Slept(m, BACKOFF))) /\ Move(r, Again(Slept(m, BACKOFF)))
  <2>1. PICK n : n = Slept(m, BACKOFF)
    OBVIOUS
  <2>2. m.step = "ask" /\ m.outcome = "none" /\ 2 * m.paused <= Before(m.attempt)
    BY <1>2 DEF AfterRequest
  <2>3. BACKOFF <= BACKOFF * m.attempt
    BY <1>3, ProcessingAssumption
  <2>4. Rested(n, m)
    BY <1>2, <1>3, <2>1, <2>2, <2>3, RestGood, ProcessingAssumption
  <2>5. n.missing <= 1 /\ n.messages <= 2 * n.attempt - 1 /\ n.messages <= 2 * n.attempt + 1
    BY <1>0, <1>2, <1>3, <2>4 DEF AfterRequest, Rested
  <2>6. n.calls = n.attempt /\ n.step = r.step /\ n.lang = r.lang
    BY <1>2, <2>4 DEF AfterRequest, Rested
  <2>7. Good(Again(n)) /\ Move(n, Again(n))
    BY <2>4, <2>5, <2>6, AgainGood DEF Rested
  <2> QED
    BY <2>1, <2>6, <2>7, MoveFrom
<1>4. ASSUME m.attempt # 1
      PROVE  LET n == [m EXCEPT !.step = "idle", !.outcome = "not_found"] IN
             Good(n) /\ Move(r, n)
  <2> DEFINE n == [m EXCEPT !.step = "idle", !.outcome = "not_found"]
  <2>1. /\ n \in Attempt
        /\ n.step = "idle" /\ n.outcome = "not_found" /\ n.lang = m.lang
        /\ n.attempt = m.attempt /\ n.messages = m.messages /\ n.missing = m.missing
        /\ n.calls = m.calls /\ n.paused = m.paused
    BY <1>2, EndedFields
  <2> HIDE DEF n
  <2>2. n.calls >= 2 /\ n.missing <= 2
    BY <1>0, <1>2, <1>4, <2>1 DEF AfterRequest
  <2>3. Good(n) /\ Move(r, n)
    BY <1>2, <2>1, <2>2 DEF Good, AfterRequest, Move, Failures
  <2> QED
    BY <2>3 DEF n
<1> QED
  BY <1>3, <1>4 DEF m

----------------------------------------------------------------------------
(* Every step leaves the worker that takes it in a good state. *)

WorkerAttempts == [Workers -> Attempt]

Moved(w) ==
    /\ at' \in WorkerAttempts /\ GoodInv'
    /\ Move(at[w], at'[w])
    /\ at' = [at EXCEPT ![w] = at'[w]]

LEMMA Put ==
  ASSUME at \in WorkerAttempts, GoodInv, NEW w \in Workers, NEW x, Good(x), Move(at[w], x),
         at' = [at EXCEPT ![w] = x]
  PROVE  Moved(w)
  BY DEF WorkerAttempts, GoodInv, Good, Moved

LEMMA SourceGood ==
  ASSUME at \in WorkerAttempts, GoodInv, NEW w \in Workers,
         \/ \E item \in Modalities : Begins(w, item)
         \/ Fetches(w) \/ FetchRaises(w) \/ Reads(w) \/ ReadRaises(w) \/ Killed(w)
  PROVE  Moved(w)
<1> DEFINE r == at[w]
<1>0. r \in Attempt /\ Good(r)
  BY DEF WorkerAttempts, GoodInv
<1>1. ASSUME NEW item \in Modalities, Begins(w, item)
      PROVE  Moved(w)
  <2> DEFINE n == [Idle EXCEPT !.step = "fetch", !.item = item]
  <2>1. Good(n) /\ Move(r, n)
    BY <1>1, BegunGood DEF Begins
  <2> QED
    BY <1>1, <2>1, Put DEF Begins
<1>2. CASE Fetches(w)
  <2> DEFINE n == [r EXCEPT !.step = "read"]
  <2>1. Good(n) /\ Move(r, n)
    BY <1>0, <1>2, GoesGood DEF Fetches, Holding
  <2>2. at' = [at EXCEPT ![w] = n]
    BY <1>2 DEF Fetches, Goes
  <2> QED
    BY <2>1, <2>2, Put
<1>3. CASE FetchRaises(w) \/ ReadRaises(w)
  <2> DEFINE n == [r EXCEPT !.step = "idle", !.outcome = "raised"]
  <2>1. Good(n) /\ Move(r, n)
    BY <1>0, <1>3, EndedGood DEF FetchRaises, ReadRaises
  <2>2. at' = [at EXCEPT ![w] = n]
    BY <1>3 DEF FetchRaises, ReadRaises, Ends, WorkerAttempts
  <2> QED
    BY <2>1, <2>2, Put
<1>4. CASE Reads(w)
  <2> DEFINE n == [r EXCEPT !.step = "look_up"]
  <2>1. Good(n) /\ Move(r, n)
    BY <1>0, <1>4, GoesGood DEF Reads, Holding
  <2>2. Good(Asking(r, 1)) /\ Move(r, Asking(r, 1))
    BY <1>0, <1>4, AskingGood, Numbers DEF Reads
  <2>3. at' = [at EXCEPT ![w] = n] \/ at' = [at EXCEPT ![w] = Asking(r, 1)]
    BY <1>4 DEF Reads, Goes
  <2> QED
    BY <2>1, <2>2, <2>3, Put
<1>5. CASE Killed(w)
  BY <1>5, IdleGood, Put DEF Killed
<1> QED
  BY <1>1, <1>2, <1>3, <1>4, <1>5

LEMMA SpeechGood ==
  ASSUME at \in WorkerAttempts, GoodInv, NEW w \in Workers,
         \/ LooksUp(w) \/ Transcribes(w) \/ TranscribeRaises(w)
         \/ OpensCache(w) \/ FillsCache(w) \/ CacheRaises(w)
  PROVE  Moved(w)
<1>0. at[w] \in Attempt /\ Good(at[w])
  BY DEF WorkerAttempts, GoodInv
<1>1. at[w].step \notin {"idle", "ask"}
  BY DEF LooksUp, Transcribes, TranscribeRaises, OpensCache, FillsCache, CacheRaises
<1>2. \A step \in Holding : Goes(w, step) => Moved(w)
  <2> SUFFICES ASSUME NEW step \in Holding, Goes(w, step)
               PROVE  Moved(w)
    OBVIOUS
  <2> DEFINE n == [at[w] EXCEPT !.step = step]
  <2>1. Good(n) /\ Move(at[w], n)
    BY <1>0, <1>1, GoesGood
  <2>2. at' = [at EXCEPT ![w] = n]
    BY DEF Goes
  <2> QED
    BY <2>1, <2>2, Put
<1>3. \A outcome \in {"no_rows", "raised", "bad_cache"} :
          Ends(w, outcome) /\ (outcome = "no_rows" => ~speech) => Moved(w)
  <2> SUFFICES ASSUME NEW outcome \in {"no_rows", "raised", "bad_cache"},
                      Ends(w, outcome), outcome = "no_rows" => ~speech
               PROVE  Moved(w)
    OBVIOUS
  <2> DEFINE n == [at[w] EXCEPT !.step = "idle", !.outcome = outcome]
  <2>1. Good(n) /\ Move(at[w], n)
    BY <1>0, <1>1, EndedGood
  <2>2. at' = [at EXCEPT ![w] = n]
    BY DEF Ends, WorkerAttempts
  <2> QED
    BY <2>1, <2>2, Put
<1>4. Heard(w) => Moved(w)
  <2>1. Good(Asking(at[w], 1)) /\ Move(at[w], Asking(at[w], 1))
    BY <1>0, <1>1, AskingGood, Numbers
  <2> QED
    BY <1>3, <2>1, Put DEF Heard
<1> QED
  BY <1>2, <1>3, <1>4
     DEF LooksUp, Transcribes, TranscribeRaises, OpensCache, FillsCache, CacheRaises, Holding

LEMMA AnswerGood ==
  ASSUME at \in WorkerAttempts, GoodInv, NEW w \in Workers,
         Answers(w) \/ AnswersBadly(w) \/ NotFound(w) \/ AskRaises(w) \/ AnswersOddly(w)
  PROVE  Moved(w)
<1> DEFINE r == at[w]
           q == Asked(w)
<1>0. r \in Attempt /\ Good(r) /\ r.step = "ask"
  BY DEF WorkerAttempts, GoodInv, Answers, AnswersBadly, NotFound, AskRaises, AnswersOddly, Asks
<1>2. /\ r.attempt \in 1..MAX_RETRIES /\ r.attempt \in Nat \ {0} /\ r.lang \in 1..NLangs
      /\ BACKOFF * r.attempt \in Nat
  BY <1>0, ProcessingAssumption DEF Attempt
<1>3. AfterRequest(q, r)
  BY <1>0, RequestEnds DEF Asked
<1>4. /\ q \in Attempt /\ q.messages \in Nat /\ q.missing \in Nat /\ q.calls = r.attempt
      /\ q.attempt = r.attempt
  BY <1>3 DEF AfterRequest, Attempt
<1>6. CASE Answers(w)
  <2>1. CASE r.lang < NLangs
    <3>1. r.lang + 1 \in 1..NLangs
      BY <1>2, <2>1, ProcessingAssumption
    <3>2. at' = [at EXCEPT ![w] = Asking(r, r.lang + 1)]
      BY <1>6, <2>1 DEF Answers
    <3>3. Good(Asking(r, r.lang + 1)) /\ Move(r, Asking(r, r.lang + 1))
      BY <1>0, <3>1, AskingGood
    <3> QED
      BY <3>2, <3>3, Put
  <2>2. CASE ~(r.lang < NLangs)
    <3> DEFINE n == [q EXCEPT !.step = "idle", !.outcome = "rows"]
    <3>1. at' = [at EXCEPT ![w] = n]
      BY <1>6, <2>2 DEF Answers
    <3>2. Good(n) /\ Move(r, n)
      <4>1. r.lang = NLangs
        BY <1>2, <2>2, ProcessingAssumption
      <4> HIDE DEF q, r
      <4> QED
        BY <1>0, <1>3, <4>1, LeftGood
    <3> QED
      BY <3>1, <3>2, Put
  <2> QED
    BY <2>1, <2>2
<1>7. CASE AnswersOddly(w)
  <2> DEFINE n == [q EXCEPT !.step = "idle", !.outcome = "raised"]
  <2>1. at' = [at EXCEPT ![w] = n]
    BY <1>7 DEF AnswersOddly
  <2>2. Good(n) /\ Move(r, n)
    <3> HIDE DEF q, r
    <3> QED
      BY <1>0, <1>3, LeftGood
  <2> QED
    BY <2>1, <2>2, Put
<1>8. CASE AnswersBadly(w)
  <2> DEFINE c == IF r.attempt < MAX_RETRIES THEN [q EXCEPT !.messages = @ + 2] ELSE q
  <2>1. at' = [at EXCEPT ![w] = Again(c)]
    BY <1>8 DEF AnswersBadly
  <2>2. Good(Again(c)) /\ Move(r, Again(c))
    <3> HIDE DEF q, r
    <3> QED
      BY <1>0, <1>3, CorrectedGood
  <2> QED
    BY <2>1, <2>2, Put
<1>9. CASE NotFound(w)
  <2> DEFINE m == [q EXCEPT !.missing = @ + 1]
             x == IF m.attempt = 1 THEN Again(Slept(m, BACKOFF))
                  ELSE [m EXCEPT !.step = "idle", !.outcome = "not_found"]
  <2>1. at' = [at EXCEPT ![w] = x]
    BY <1>9 DEF NotFound
  <2>2. Good(x) /\ Move(r, x)
    <3> HIDE DEF q, r
    <3> QED
      BY <1>0, <1>3, MissedGood
  <2> QED
    BY <2>1, <2>2, Put
<1>10. CASE AskRaises(w)
  <2> DEFINE p == BACKOFF * r.attempt
             c == IF r.attempt < MAX_RETRIES THEN Slept(q, p) ELSE q
  <2>1. at' = [at EXCEPT ![w] = Again(c)]
    BY <1>10 DEF AskRaises
  <2>2. Good(Again(c)) /\ Move(c, Again(c)) /\ c.step = r.step /\ c.lang = r.lang
    <3>1. p \in Nat /\ p <= BACKOFF * q.attempt
      BY <1>2, <1>4
    <3>2. q.messages <= 2 * q.attempt + 1 /\ q.attempt \in 1..MAX_RETRIES
      BY <1>2, <1>3, <1>4 DEF AfterRequest
    <3> HIDE DEF p, q, r
    <3>3. CASE r.attempt < MAX_RETRIES
      <4>1. PICK n : n = Slept(q, p)
        OBVIOUS
      <4>2. Rested(n, q)
        BY <1>3, <3>1, <3>3, <4>1, RestGood DEF AfterRequest
      <4>3. Good(Again(n)) /\ Move(n, Again(n))
        BY <1>3, <3>2, <4>2, AgainGood DEF AfterRequest, Rested
      <4> QED
        BY <1>0, <1>3, <3>3, <4>1, <4>2, <4>3 DEF AfterRequest, Rested
    <3>4. CASE ~(r.attempt < MAX_RETRIES)
      <4>1. 2 * q.paused <= Before(q.attempt + 1)
        BY <1>3, <3>2, AnotherBound DEF AfterRequest, Attempt
      <4>2. Good(Again(q)) /\ Move(q, Again(q))
        BY <1>3, <3>2, <4>1, AgainGood DEF AfterRequest
      <4> QED
        BY <1>0, <1>3, <3>4, <4>2 DEF AfterRequest
    <3> QED
      BY <3>3, <3>4
  <2>3. Move(r, Again(c))
    <3> HIDE DEF c, r
    <3> QED
      BY <2>2, MoveFrom
  <2> HIDE DEF c
  <2> QED
    BY <2>1, <2>2, <2>3, Put
<1> QED
  BY <1>6, <1>7, <1>8, <1>9, <1>10

Acts(w) == Step(w) \/ Killed(w) \/ \E item \in Modalities : Begins(w, item)

LEMMA ActsMove ==
  ASSUME at \in WorkerAttempts, GoodInv, NEW w \in Workers, Acts(w)
  PROVE  Moved(w)
  BY SourceGood, SpeechGood, AnswerGood DEF Acts, Step

LEMMA GoodStep ==
  ASSUME at \in WorkerAttempts, GoodInv, [Next]_vars
  PROVE  at' \in WorkerAttempts /\ GoodInv'
<1>1. CASE UNCHANGED vars
  BY <1>1 DEF vars, WorkerAttempts, GoodInv
<1>2. ASSUME NEW w \in Workers, Acts(w)
      PROVE  at' \in WorkerAttempts /\ GoodInv'
  BY <1>2, ActsMove DEF Moved
<1> QED
  BY <1>1, <1>2 DEF Next, Acts

LEMMA GoodInit == Init => at \in WorkerAttempts /\ GoodInv
<1> SUFFICES ASSUME Init
             PROVE  at \in WorkerAttempts /\ GoodInv
  OBVIOUS
<1>1. Good(Idle) /\ Idle \in Attempt
  BY IdleGood DEF Good
<1> QED
  BY <1>1 DEF Init, WorkerAttempts, GoodInv

LEMMA GoodAlways == Spec => [](at \in WorkerAttempts /\ GoodInv)
<1>1. at \in WorkerAttempts /\ GoodInv /\ [Next]_vars => (at \in WorkerAttempts /\ GoodInv)'
  BY GoodStep
<1> QED
  BY <1>1, GoodInit, PTL DEF Spec

\* The messages of one language, or of an attempt before, are never in the
\* conversation about another (generate_item's messages).
THEOREM FreshConversationAlways == Spec => []FreshConversation
<1>1. GoodInv => FreshConversation
  BY DEF GoodInv, Good, FreshConversation
<1> QED
  BY <1>1, GoodAlways, PTL

\* Every way out of generate_item's loop has made the requests it should have.
THEOREM NotGivenUpEarlyAlways == Spec => []NotGivenUpEarly
<1>1. GoodInv => NotGivenUpEarly
  BY DEF GoodInv, Good, NotGivenUpEarly
<1> QED
  BY <1>1, GoodAlways, PTL

\* A model that is missing is met twice at most, whatever the errors between.
THEOREM NudgedOnceAlways == Spec => []NudgedOnce
<1>1. GoodInv => NudgedOnce
  BY DEF GoodInv, Good, NudgedOnce
<1> QED
  BY <1>1, GoodAlways, PTL

\* A generation is over after max_retries requests, and sleeps no longer than
\* the pauses between them, whichever errors came in which order, for all
\* settings of max_retries and retry_backoff_s.
THEOREM RetriesBoundedAlways == Spec => []RetriesBounded
<1>1. GoodInv => RetriesBounded
  BY DEF GoodInv, Good, RetriesBounded, AllOfIt
<1> QED
  BY <1>1, GoodAlways, PTL

----------------------------------------------------------------------------
(* Type correctness. *)

\* A worker has a temporary file whenever it may unlink one, and only a
\* recording is looked up, heard and cached.
Held ==
    \A w \in Workers :
        /\ at[w].step \in Holding => temps[w] > 0
        /\ at[w].step \in Holding \ {"read"} => at[w].item = "audio"

Counts ==
    /\ temps \in [Workers -> Nat]
    /\ transcript \in {"absent", "torn", "whole"}
    /\ speech \in BOOLEAN
    /\ transcribed \in Nat
    /\ faults \in 0..MaxFaults

LEMMA CountsStep ==
  ASSUME at \in WorkerAttempts, Counts, Held, NEW w \in Workers,
         Acts(w)
  PROVE  Counts'
<1>1. at[w].step \in Holding => temps[w] - 1 \in Nat
  BY DEF Counts, Held
<1>2. temps[w] + 1 \in Nat /\ (Fault => faults' \in 0..MaxFaults)
  BY ProcessingAssumption DEF Counts, Fault
<1>3. CASE Fetches(w) \/ FetchRaises(w)
  BY <1>2, <1>3 DEF Fetches, FetchRaises, Counts
<1>4. CASE Reads(w) \/ ReadRaises(w) \/ LooksUp(w) \/ TranscribeRaises(w)
           \/ FillsCache(w) \/ CacheRaises(w)
  BY <1>1, <1>2, <1>4
     DEF Reads, ReadRaises, LooksUp, TranscribeRaises, FillsCache, CacheRaises, Heard,
         Unlinks, Counts, Holding
<1>5. CASE Transcribes(w) \/ OpensCache(w) \/ Killed(w)
  BY <1>2, <1>5 DEF Transcribes, OpensCache, Killed, Counts
<1>6. CASE \/ Answers(w) \/ AnswersBadly(w) \/ NotFound(w) \/ AskRaises(w)
           \/ AnswersOddly(w) \/ \E item \in Modalities : Begins(w, item)
  BY <1>6
     DEF Answers, AnswersBadly, NotFound, AskRaises, AnswersOddly, Asks, Begins, Counts
<1> QED
  BY <1>3, <1>4, <1>5, <1>6 DEF Step, Acts

LEMMA HeldStep ==
  ASSUME at \in WorkerAttempts, GoodInv, Counts, Held, NEW w \in Workers, Acts(w)
  PROVE  Held'
<1>1. Moved(w)
  BY ActsMove
<1>2. \A v \in Workers \ {w} : at'[v] = at[v]
  BY <1>1 DEF Moved, WorkerAttempts
<1>3. \A v \in Workers \ {w} : temps'[v] = temps[v]
  BY DEF Acts, Step, Fetches, FetchRaises, Reads, ReadRaises, LooksUp, Transcribes,
         TranscribeRaises, OpensCache, FillsCache, CacheRaises, Heard, Unlinks, Answers,
         AnswersBadly, NotFound, AskRaises, AnswersOddly, Asks, Begins, Killed, Counts
<1>4. /\ at'[w].step \in Holding => temps'[w] > 0
      /\ at'[w].step \in Holding \ {"read"} => at'[w].item = "audio"
  <2>1. CASE Fetches(w)
    BY <2>1 DEF Fetches, Goes, Counts, WorkerAttempts, Attempt, Holding
  <2>2. CASE Reads(w)
    <3>1. Asking(at[w], 1).step = "ask"
      BY AskingFields, Numbers DEF WorkerAttempts
    <3> QED
      BY <2>2, <3>1 DEF Reads, Goes, Held, WorkerAttempts, Attempt, Holding
  <2>3. CASE LooksUp(w) \/ Transcribes(w) \/ OpensCache(w) \/ FillsCache(w)
    <3>1. Asking(at[w], 1).step = "ask"
      BY AskingFields, Numbers DEF WorkerAttempts
    <3> QED
      BY <2>3, <3>1
         DEF LooksUp, Transcribes, OpensCache, FillsCache, Heard, Goes, Ends, Held,
             WorkerAttempts, Attempt, Holding
  <2>4. CASE FetchRaises(w) \/ ReadRaises(w) \/ TranscribeRaises(w) \/ CacheRaises(w)
    BY <2>4
       DEF FetchRaises, ReadRaises, TranscribeRaises, CacheRaises, Ends, WorkerAttempts,
           Attempt, Holding
  <2>5. CASE Answers(w) \/ AnswersBadly(w) \/ NotFound(w) \/ AskRaises(w) \/ AnswersOddly(w)
    BY <1>1, <2>5
       DEF Answers, AnswersBadly, NotFound, AskRaises, AnswersOddly, Asks, Moved, Move, Holding
  <2>6. CASE Killed(w)
    BY <2>6 DEF Killed, Idle, WorkerAttempts, Holding
  <2>7. ASSUME NEW item \in Modalities, Begins(w, item)
        PROVE  at'[w].step \notin Holding
    BY <2>7 DEF Begins, Idle, WorkerAttempts, Holding
  <2> QED
    BY <2>1, <2>2, <2>3, <2>4, <2>5, <2>6, <2>7 DEF Acts, Step
<1> QED
  BY <1>2, <1>3, <1>4 DEF Held

\* The variables keep their types, and nobody unlinks a file he does not have.
THEOREM TypeCorrect == Spec => []TypeOK
<1> DEFINE Inv == at \in WorkerAttempts /\ GoodInv /\ Counts /\ Held
<1>1. Init => Inv
  <2> SUFFICES ASSUME Init
               PROVE  Inv
    OBVIOUS
  <2>1. Counts /\ Held
    BY Numbers DEF Init, Counts, Held, Idle, Holding
  <2> QED
    BY <2>1, GoodInit
<1>2. Inv /\ [Next]_vars => Inv'
  <2> SUFFICES ASSUME Inv, [Next]_vars
               PROVE  Inv'
    OBVIOUS
  <2>1. CASE UNCHANGED vars
    BY <2>1 DEF vars, WorkerAttempts, GoodInv, Counts, Held
  <2>2. ASSUME NEW w \in Workers, Acts(w)
        PROVE  Inv'
    BY <2>2, ActsMove, CountsStep, HeldStep DEF Moved
  <2> QED
    BY <2>1, <2>2 DEF Next, Acts
<1>3. Inv => TypeOK
  BY DEF WorkerAttempts, Counts, Held, TypeOK
<1> QED
  BY <1>1, <1>2, <1>3, PTL DEF Spec

----------------------------------------------------------------------------
(* The workers and the cache. *)

Doing(step) == {w \in Workers : at[w].step = step}

\* While there is no transcript, the recording was transcribed for nothing once
\* per fault, and now by those about to write it.  From then on only those who
\* had looked it up before still transcribe it.
Once ==
    /\ faults \in Nat /\ transcribed \in Nat
    /\ transcript = "absent" => transcribed <= faults + Cardinality(Doing("open_cache"))
    /\ transcript # "absent" =>
           transcribed + Cardinality(Doing("hear")) <= faults + Cardinality(Workers)
    /\ \A w \in Workers : at[w].step = "fill_cache" => transcript # "absent"

LEMMA StepsOf ==
  ASSUME at \in WorkerAttempts, NEW u \in Workers
  PROVE  /\ \A step : Goes(u, step) => at'[u].step = step
         /\ \A outcome : Ends(u, outcome) => at'[u].step = "idle"
         /\ at' = [at EXCEPT ![u] = Asking(@, 1)] => at'[u].step = "ask"
<1>1. at[u] \in Attempt
  BY DEF WorkerAttempts
<1>2. Asking(at[u], 1).step = "ask"
  BY <1>1, AskingFields, Numbers
<1> QED
  BY <1>1, <1>2 DEF Goes, Ends, WorkerAttempts, Attempt

LEMMA DoingFinite ==
  ASSUME IsFiniteSet(Workers)
  PROVE  /\ \A step : IsFiniteSet(Doing(step)) /\ Cardinality(Doing(step)) \in Nat
         /\ Cardinality(Workers) \in Nat
         /\ Cardinality(Doing("hear")) + Cardinality(Doing("open_cache"))
                <= Cardinality(Workers)
<1>1. ASSUME NEW step
      PROVE  IsFiniteSet(Doing(step)) /\ Cardinality(Doing(step)) \in Nat
  <2>1. Doing(step) \in SUBSET Workers
    BY DEF Doing
  <2> QED
    BY <2>1, FS_Subset, FS_CardinalityType
<1>2. Cardinality(Workers) \in Nat
  BY FS_CardinalityType
<1>3. Doing("hear") \cap Doing("open_cache") = {}
  BY DEF Doing
<1>4. Doing("hear") \cup Doing("open_cache") \in SUBSET Workers
  BY DEF Doing
<1>5. Cardinality(Doing("hear") \cup Doing("open_cache"))
          = Cardinality(Doing("hear")) + Cardinality(Doing("open_cache"))
  <2>1. Cardinality(Doing("hear") \cap Doing("open_cache")) = 0
    BY <1>3, FS_EmptySet
  <2>2. Cardinality(Doing("hear") \cup Doing("open_cache"))
            = Cardinality(Doing("hear")) + Cardinality(Doing("open_cache"))
              - Cardinality(Doing("hear") \cap Doing("open_cache"))
    BY <1>1, FS_Union
  <2> QED
    BY <1>1, <2>1, <2>2
<1>6. Cardinality(Doing("hear") \cup Doing("open_cache")) <= Cardinality(Workers)
  BY <1>4, FS_Subset
<1> QED
  BY <1>1, <1>2, <1>5, <1>6

\* One worker's step changes the counts by that worker.
LEMMA DoingMoves ==
  ASSUME IsFiniteSet(Workers), NEW u \in Workers, Moved(u), at \in WorkerAttempts,
         NEW step
  PROVE  /\ Cardinality(Doing(step)) \in Nat
         /\ Cardinality(Doing(step)') =
                Cardinality(Doing(step))
                + (IF at'[u].step = step THEN 1 ELSE 0)
                - (IF at[u].step = step THEN 1 ELSE 0)
<1>1. IsFiniteSet(Doing(step)) /\ Cardinality(Doing(step)) \in Nat
  BY DoingFinite
<1>2. u \in Doing(step) <=> at[u].step = step
  BY DEF Doing
<1>3. \A w \in Workers : w # u => at'[w] = at[w]
  BY DEF Moved, WorkerAttempts
<1>4. CASE at'[u].step = step
  <2>1. Doing(step)' = Doing(step) \cup {u}
    BY <1>3, <1>4 DEF Doing
  <2>2. Cardinality(Doing(step) \cup {u})
            = IF u \in Doing(step) THEN Cardinality(Doing(step)) ELSE Cardinality(Doing(step)) + 1
    BY <1>1, FS_AddElement
  <2>3. Cardinality(Doing(step)')
            = IF u \in Doing(step) THEN Cardinality(Doing(step)) ELSE Cardinality(Doing(step)) + 1
    BY <2>1, <2>2
  <2> QED
    BY <1>1, <1>2, <1>4, <2>3
<1>5. CASE at'[u].step # step
  <2>1. Doing(step)' = Doing(step) \ {u}
    BY <1>3, <1>5 DEF Doing
  <2>2. Cardinality(Doing(step) \ {u})
            = IF u \in Doing(step) THEN Cardinality(Doing(step)) - 1 ELSE Cardinality(Doing(step))
    BY <1>1, FS_RemoveElement
  <2>3. Cardinality(Doing(step)')
            = IF u \in Doing(step) THEN Cardinality(Doing(step)) - 1 ELSE Cardinality(Doing(step))
    BY <2>1, <2>2
  <2> QED
    BY <1>1, <1>2, <1>5, <2>3
<1> QED
  BY <1>4, <1>5

LEMMA OnceStep ==
  ASSUME IsFiniteSet(Workers), at \in WorkerAttempts, GoodInv, Once,
         NEW u \in Workers, Acts(u)
  PROVE  Once'
<1> USE DEF Once
<1> DEFINE hear == Cardinality(Doing("hear"))
           open == Cardinality(Doing("open_cache"))
           In(r, step) == IF r.step = step THEN 1 ELSE 0
<1>0. Moved(u)
  BY ActsMove
<1>a. hear \in Nat /\ open \in Nat /\ Cardinality(Workers) \in Nat
      /\ hear + open <= Cardinality(Workers)
  BY DoingFinite
<1>b. /\ Cardinality(Doing("hear")') = hear + In(at'[u], "hear") - In(at[u], "hear")
      /\ Cardinality(Doing("open_cache")')
             = open + In(at'[u], "open_cache") - In(at[u], "open_cache")
  BY <1>0, DoingMoves
<1>d. \A w \in Workers : w # u => at'[w] = at[w]
  BY <1>0 DEF Moved, WorkerAttempts
\* What may happen to the transcript while somebody goes from step to step.
<1>c. ASSUME at'[u].step \notin {"hear", "open_cache", "fill_cache"},
             UNCHANGED <<transcript, transcribed>>,
             faults' \in Nat,
             faults' >= faults + In(at[u], "open_cache")
      PROVE  Once'
  BY <1>a, <1>b, <1>c, <1>d
<1>1. CASE Fetches(u) \/ FetchRaises(u)
  BY <1>1, <1>c, StepsOf DEF Fetches, FetchRaises, Fault
<1>2. CASE Reads(u)
  BY <1>2, <1>c, StepsOf DEF Reads
<1>3. CASE ReadRaises(u) \/ TranscribeRaises(u)
  BY <1>3, <1>c, StepsOf DEF ReadRaises, TranscribeRaises
<1>4. CASE LooksUp(u)
  <2>1. CASE transcript = "absent"
    BY <1>4, <2>1, <1>a, <1>b, <1>d, StepsOf DEF LooksUp
  <2>2. CASE transcript # "absent"
    BY <1>4, <2>2, <1>c, StepsOf DEF LooksUp, Heard
  <2> QED
    BY <2>1, <2>2
<1>5. CASE Transcribes(u)
  BY <1>5, <1>a, <1>b, <1>d, StepsOf DEF Transcribes
<1>6. CASE OpensCache(u)
  BY <1>6, <1>a, <1>b, <1>d, StepsOf DEF OpensCache
<1>7. CASE FillsCache(u)
  <2>1. transcript # "absent"
    BY <1>7 DEF FillsCache
  <2> QED
    BY <1>7, <2>1, <1>a, <1>b, <1>d, StepsOf DEF FillsCache, Heard
<1>8. CASE CacheRaises(u)
  BY <1>8, <1>c, StepsOf DEF CacheRaises, Fault
<1>9. CASE Answers(u) \/ AnswersBadly(u) \/ NotFound(u) \/ AskRaises(u) \/ AnswersOddly(u)
  <2>1. at[u].step = "ask" /\ UNCHANGED <<transcript, transcribed, faults>>
    BY <1>9 DEF Answers, AnswersBadly, NotFound, AskRaises, AnswersOddly, Asks
  <2>2. at'[u].step \in {"ask", "idle"}
    BY <1>0, <2>1 DEF Moved, Move
  <2> QED
    BY <2>1, <2>2, <1>c
<1>10. CASE Killed(u)
  <2>1. at'[u].step = "idle"
    BY <1>10 DEF Killed, Idle, WorkerAttempts
  <2> QED
    BY <1>10, <2>1, <1>c DEF Killed, Fault
<1>11. ASSUME NEW item \in Modalities, Begins(u, item)
       PROVE  Once'
  <2>1. at'[u].step = "fetch" /\ at[u].step = "idle"
    BY <1>11 DEF Begins, Idle, WorkerAttempts
  <2> QED
    BY <1>11, <2>1, <1>c DEF Begins
<1> QED
  BY <1>1, <1>2, <1>3, <1>4, <1>5, <1>6, <1>7, <1>8, <1>9, <1>10, <1>11 DEF Acts, Step

\* Workers that share a cache transcribe a recording at most once each, but for
\* kills and full disks, however often it is attempted; one that has a cache for
\* itself transcribes it once (asr.transcribe).
THEOREM TranscribedOnceAlways ==
  ASSUME IsFiniteSet(Workers)
  PROVE  Spec => []TranscribedOnce
<1> DEFINE Inv == at \in WorkerAttempts /\ GoodInv /\ Once
<1>1. Init => Inv
  <2> SUFFICES ASSUME Init
               PROVE  Inv
    OBVIOUS
  <2>1. Once
    BY DoingFinite DEF Init, Once, Idle
  <2> QED
    BY <2>1, GoodInit
<1>2. Inv /\ [Next]_vars => Inv'
  <2> SUFFICES ASSUME Inv, [Next]_vars
               PROVE  Inv'
    OBVIOUS
  <2>1. CASE UNCHANGED vars
    BY <2>1 DEF vars, WorkerAttempts, GoodInv, Once, Doing
  <2>2. ASSUME NEW u \in Workers, Acts(u)
        PROVE  Inv'
    BY <2>2, ActsMove, OnceStep DEF Moved
  <2> QED
    BY <2>1, <2>2 DEF Next, Acts
<1>3. Inv => TranscribedOnce
  <2> SUFFICES ASSUME Inv
               PROVE  TranscribedOnce
    OBVIOUS
  <2> QED
    BY DoingFinite DEF Once, TranscribedOnce
<1> QED
  BY <1>1, <1>2, <1>3, PTL DEF Spec

----------------------------------------------------------------------------
(* Temporary files. *)

Holders == {w \in Workers : at[w].step \in Holding}

LEMMA HoldersMove ==
  ASSUME at \in WorkerAttempts, NEW u \in Workers, Moved(u), IsFiniteSet(Holders)
  PROVE  /\ IsFiniteSet(Holders')
         /\ Cardinality(Holders) \in Nat
         /\ Cardinality(Holders') =
                Cardinality(Holders)
                + (IF at'[u].step \in Holding THEN 1 ELSE 0)
                - (IF at[u].step \in Holding THEN 1 ELSE 0)
<1>1. Cardinality(Holders) \in Nat
  BY FS_CardinalityType
<1>2. u \in Holders <=> at[u].step \in Holding
  BY DEF Holders
<1>3. \A w \in Workers : w # u => at'[w] = at[w]
  BY DEF Moved, WorkerAttempts
<1>4. CASE at'[u].step \in Holding
  <2>1. Holders' = Holders \cup {u}
    BY <1>3, <1>4 DEF Holders
  <2>2. /\ IsFiniteSet(Holders \cup {u})
        /\ Cardinality(Holders \cup {u})
             = IF u \in Holders THEN Cardinality(Holders) ELSE Cardinality(Holders) + 1
    BY FS_AddElement
  <2> QED
    BY <1>1, <1>2, <1>4, <2>1, <2>2
<1>5. CASE at'[u].step \notin Holding
  <2>1. Holders' = Holders \ {u}
    BY <1>3, <1>5 DEF Holders
  <2>2. /\ IsFiniteSet(Holders \ {u})
        /\ Cardinality(Holders \ {u})
             = IF u \in Holders THEN Cardinality(Holders) - 1 ELSE Cardinality(Holders)
    BY FS_RemoveElement
  <2> QED
    BY <1>1, <1>2, <1>5, <2>1, <2>2
<1> QED
  BY <1>4, <1>5

LEMMA TempsMove ==
  ASSUME Counts, NEW u \in Workers, IsFiniteSet(TempFiles)
  PROVE  /\ Cardinality(TempFiles) \in Nat
         /\ temps' = [temps EXCEPT ![u] = @ + 1] =>
                /\ IsFiniteSet(TempFiles')
                /\ Cardinality(TempFiles') = Cardinality(TempFiles) + 1
         /\ temps[u] > 0 /\ temps' = [temps EXCEPT ![u] = @ - 1] =>
                /\ IsFiniteSet(TempFiles')
                /\ Cardinality(TempFiles') = Cardinality(TempFiles) - 1
<1>1. Cardinality(TempFiles) \in Nat
  BY FS_CardinalityType
<1>2. temps[u] \in Nat
  BY DEF Counts
<1>3. \A x : x \in TempFiles <=> \E w \in Workers : \E k \in 1..temps[w] : x = <<w, k>>
  BY DEF TempFiles
<1>4. ASSUME temps' = [temps EXCEPT ![u] = @ + 1]
      PROVE  IsFiniteSet(TempFiles') /\ Cardinality(TempFiles') = Cardinality(TempFiles) + 1
  <2> DEFINE x == <<u, temps[u] + 1>>
  <2>1. x \notin TempFiles
    BY <1>2, <1>3
  <2>2. \A w \in Workers : temps'[w] = IF w = u THEN temps[u] + 1 ELSE temps[w]
    BY <1>4 DEF Counts
  <2>3. \A k : k \in 1..(temps[u] + 1) <=> k \in 1..temps[u] \/ k = temps[u] + 1
    BY <1>2
  <2>4. TempFiles' = TempFiles \cup {x}
    BY <2>2, <2>3 DEF TempFiles
  <2> QED
    BY <2>1, <2>4, FS_AddElement
<1>5. ASSUME temps[u] > 0, temps' = [temps EXCEPT ![u] = @ - 1]
      PROVE  IsFiniteSet(TempFiles') /\ Cardinality(TempFiles') = Cardinality(TempFiles) - 1
  <2> DEFINE x == <<u, temps[u]>>
  <2>1. x \in TempFiles
    BY <1>2, <1>3, <1>5
  <2>2. \A w \in Workers : temps'[w] = IF w = u THEN temps[u] - 1 ELSE temps[w]
    BY <1>5 DEF Counts
  <2>3. \A k : k \in 1..(temps[u] - 1) <=> k \in 1..temps[u] /\ k # temps[u]
    BY <1>2
  <2>4. TempFiles' = TempFiles \ {x}
    BY <2>2, <2>3 DEF TempFiles
  <2> QED
    BY <2>1, <2>4, FS_RemoveElement
<1> QED
  BY <1>1, <1>4, <1>5

TempsInv == IsFiniteSet(TempFiles) /\ IsFiniteSet(Holders) /\ TempsBounded

\* What a step may do with the files, the steps and the faults: a file that
\* comes without a worker that holds it, or a worker that no longer holds his,
\* is a fault.
Balanced(u) ==
    LET before == at[u].step \in Holding
        after == at'[u].step \in Holding
    IN  \/ /\ temps' = [temps EXCEPT ![u] = @ + 1]
           /\ ~before
           /\ \/ after /\ faults' = faults
              \/ ~after /\ faults' = faults + 1
        \/ /\ temps[u] > 0 /\ temps' = [temps EXCEPT ![u] = @ - 1]
           /\ before /\ ~after /\ faults' \in {faults, faults + 1}
        \/ /\ temps' = temps
           /\ \/ before /\ ~after /\ faults' = faults + 1
              \/ (before <=> after) /\ faults' \in {faults, faults + 1}

LEMMA StepBalanced ==
  ASSUME at \in WorkerAttempts, GoodInv, Counts, Held, NEW u \in Workers, Acts(u)
  PROVE  Balanced(u)
<1>0. Moved(u)
  BY ActsMove
<1>a. Asking(at[u], 1).step = "ask"
  BY AskingFields, Numbers DEF WorkerAttempts
<1>b. at[u].step \in Holding => temps[u] > 0
  BY DEF Held
<1>1. CASE Fetches(u)
  BY <1>1, StepsOf DEF Fetches, Balanced, Holding
<1>2. CASE FetchRaises(u)
  BY <1>2, StepsOf DEF FetchRaises, Fault, Balanced, Holding
<1>3. CASE Reads(u)
  <2>1. CASE at[u].item = "audio"
    BY <1>3, <2>1, StepsOf DEF Reads, Balanced, Holding
  <2>2. CASE at[u].item # "audio"
    BY <1>3, <1>b, <2>2, StepsOf DEF Reads, Unlinks, Balanced, Holding
  <2> QED
    BY <2>1, <2>2
<1>4. CASE ReadRaises(u) \/ TranscribeRaises(u)
  BY <1>4, <1>b, StepsOf DEF ReadRaises, TranscribeRaises, Unlinks, Balanced, Holding
<1>5. CASE LooksUp(u)
  BY <1>5, <1>b, StepsOf DEF LooksUp, Heard, Unlinks, Balanced, Holding
<1>6. CASE Transcribes(u) \/ OpensCache(u)
  BY <1>6, StepsOf DEF Transcribes, OpensCache, Balanced, Holding
<1>7. CASE FillsCache(u)
  BY <1>7, <1>b, StepsOf DEF FillsCache, Heard, Unlinks, Balanced, Holding
<1>8. CASE CacheRaises(u)
  BY <1>8, <1>b, StepsOf DEF CacheRaises, Fault, Unlinks, Balanced, Holding
<1>9. CASE Answers(u) \/ AnswersBadly(u) \/ NotFound(u) \/ AskRaises(u) \/ AnswersOddly(u)
  <2>1. at[u].step = "ask" /\ UNCHANGED <<temps, faults>>
    BY <1>9 DEF Answers, AnswersBadly, NotFound, AskRaises, AnswersOddly, Asks
  <2>2. at'[u].step \in {"ask", "idle"}
    BY <1>0, <2>1 DEF Moved, Move
  <2> QED
    BY <2>1, <2>2 DEF Balanced, Holding
<1>10. CASE Killed(u)
  <2>1. at'[u].step = "idle"
    BY <1>10 DEF Killed, Idle, WorkerAttempts
  <2> QED
    BY <1>10, <2>1 DEF Killed, Fault, Balanced, Holding
<1>11. ASSUME NEW item \in Modalities, Begins(u, item)
       PROVE  Balanced(u)
  <2>1. at'[u].step = "fetch" /\ at[u].step = "idle"
    BY <1>11 DEF Begins, Idle, WorkerAttempts
  <2> QED
    BY <1>11, <2>1 DEF Begins, Balanced, Holding
<1> QED
  BY <1>1, <1>2, <1>3, <1>4, <1>5, <1>6, <1>7, <1>8, <1>9, <1>10, <1>11 DEF Acts, Step

LEMMA TempsStep ==
  ASSUME at \in WorkerAttempts, GoodInv, Counts, Held, TempsInv, NEW u \in Workers, Acts(u)
  PROVE  TempsInv'
<1>1. Moved(u) /\ Balanced(u)
  BY ActsMove, StepBalanced
<1>2. PICK files \in Nat : files = Cardinality(TempFiles)
  BY TempsMove DEF TempsInv
<1>3. PICK holders \in Nat : holders = Cardinality(Holders)
  BY <1>1, HoldersMove DEF TempsInv
<1>4. PICK f \in Nat : f = faults
  BY ProcessingAssumption DEF Counts
<1>5. files <= f + holders
  BY <1>2, <1>3, <1>4 DEF TempsInv, TempsBounded, Holders
<1>6. /\ IsFiniteSet(Holders')
      /\ Cardinality(Holders') = holders + (IF at'[u].step \in Holding THEN 1 ELSE 0)
                                         - (IF at[u].step \in Holding THEN 1 ELSE 0)
  BY <1>1, <1>3, HoldersMove DEF TempsInv
<1>7. ASSUME IsFiniteSet(TempFiles'), Cardinality(TempFiles') <= faults' + Cardinality(Holders')
      PROVE  TempsInv'
  BY <1>6, <1>7 DEF TempsInv, TempsBounded, Holders
<1>a. temps' = [temps EXCEPT ![u] = @ + 1] => temps'[u] # temps[u] /\ temps'[u] # temps[u] - 1
  BY DEF Counts
<1>8. CASE temps' = [temps EXCEPT ![u] = @ + 1] /\ at[u].step \notin Holding
  <2>1. IsFiniteSet(TempFiles') /\ Cardinality(TempFiles') = files + 1
    BY <1>2, <1>8, TempsMove DEF TempsInv
  <2>2. \/ at'[u].step \in Holding /\ faults' = f
        \/ at'[u].step \notin Holding /\ faults' = f + 1
    BY <1>1, <1>4, <1>8, <1>a DEF Balanced, Counts
  <2> QED
    BY <1>5, <1>6, <1>7, <1>8, <2>1, <2>2
<1>b. temps' = [temps EXCEPT ![u] = @ - 1] => temps'[u] # temps[u] /\ temps'[u] # temps[u] + 1
  BY DEF Counts
<1>c. temps' = temps => temps' # [temps EXCEPT ![u] = @ + 1] /\ temps' # [temps EXCEPT ![u] = @ - 1]
  BY DEF Counts
<1>9. CASE temps[u] > 0 /\ temps' = [temps EXCEPT ![u] = @ - 1]
  <2>1. IsFiniteSet(TempFiles') /\ Cardinality(TempFiles') = files - 1
    BY <1>2, <1>9, TempsMove DEF TempsInv
  <2>2. at[u].step \in Holding /\ at'[u].step \notin Holding /\ faults' \in {f, f + 1}
    BY <1>1, <1>4, <1>9, <1>b DEF Balanced, Counts
  <2>3. Cardinality(Holders') = holders - 1
    BY <1>3, <1>6, <2>2
  <2>4. PICK g \in {f, f + 1} : g = faults'
    BY <2>2
  <2>5. files - 1 <= g + (holders - 1)
    BY <1>2, <1>3, <1>4, <1>5, <2>4
  <2> QED
    BY <1>7, <2>1, <2>3, <2>4, <2>5
<1>10. CASE temps' = temps
  <2>1. TempFiles' = TempFiles
    BY <1>10 DEF TempFiles
  <2>2. \/ at[u].step \in Holding /\ at'[u].step \notin Holding /\ faults' = f + 1
        \/ (at[u].step \in Holding <=> at'[u].step \in Holding) /\ faults' \in {f, f + 1}
    BY <1>1, <1>4, <1>10, <1>c DEF Balanced
  <2> QED
    BY <1>2, <1>5, <1>6, <1>7, <2>1, <2>2 DEF TempsInv
<1> QED
  BY <1>1, <1>8, <1>9, <1>10 DEF Balanced

\* Temporary files are removed whichever step raises: those that stay are of
\* kills and of downloads that could not be written (fetch_source_file, and the
\* finally clauses of worker.py).
THEOREM TempsBoundedAlways == Spec => []TempsBounded
<1> DEFINE Inv == at \in WorkerAttempts /\ GoodInv /\ Counts /\ Held /\ TempsInv
<1>1. Init => Inv
  <2> SUFFICES ASSUME Init
               PROVE  Inv
    OBVIOUS
  <2>1. Counts /\ Held
    BY Numbers DEF Init, Counts, Held, Idle, Holding
  <2>2. TempFiles = {} /\ Holders = {} /\ faults = 0
    BY DEF Init, Idle, Holding, TempFiles, Holders
  <2>3. TempsInv
    BY <2>2, FS_EmptySet DEF TempsInv, TempsBounded, Holders
  <2> QED
    BY <2>1, <2>3, GoodInit
<1>2. Inv /\ [Next]_vars => Inv'
  <2> SUFFICES ASSUME Inv, [Next]_vars
               PROVE  Inv'
    OBVIOUS
  <2>1. CASE UNCHANGED vars
    BY <2>1 DEF vars, WorkerAttempts, GoodInv, Counts, Held, TempsInv, TempsBounded,
                TempFiles, Holders
  <2>2. ASSUME NEW w \in Workers, Acts(w)
        PROVE  Inv'
    BY <2>2, ActsMove, CountsStep, HeldStep, TempsStep DEF Moved
  <2> QED
    BY <2>1, <2>2 DEF Next, Acts
<1>3. Inv => TempsBounded
  BY DEF TempsInv
<1> QED
  BY <1>1, <1>2, <1>3, PTL DEF Spec

----------------------------------------------------------------------------
(* The refinement. *)

\* The abstract variables.
busy == [w \in Workers |-> at[w].step # "idle"]
answered == [w \in Workers |-> IF at[w].outcome = "rows" THEN at[w].lang ELSE at[w].lang - 1]
returned == [w \in Workers |-> IF at[w].outcome \in {"none", "rows", "no_rows"}
                               THEN at[w].outcome ELSE "raised"]

LEMMA Projects ==
  ASSUME at \in WorkerAttempts, NEW w \in Workers, Moved(w)
  PROVE  LET x == at'[w] IN
         /\ x.step # "idle" => busy' = [busy EXCEPT ![w] = TRUE]
         /\ x.step = "idle" => busy' = [busy EXCEPT ![w] = FALSE]
         /\ answered' = [answered EXCEPT ![w] =
                            IF x.outcome = "rows" THEN x.lang ELSE x.lang - 1]
         /\ returned' = [returned EXCEPT ![w] =
                            IF x.outcome \in {"none", "rows", "no_rows"} THEN x.outcome
                            ELSE "raised"]
<1> DEFINE x == at'[w]
<1>1. busy' = [busy EXCEPT ![w] = x.step # "idle"]
  BY DEF Moved, WorkerAttempts, busy
<1>2. /\ x.step # "idle" => (x.step # "idle") = TRUE
      /\ x.step = "idle" => (x.step # "idle") = FALSE
  OBVIOUS
<1>3. /\ answered' = [answered EXCEPT ![w] =
                         IF x.outcome = "rows" THEN x.lang ELSE x.lang - 1]
      /\ returned' = [returned EXCEPT ![w] =
                         IF x.outcome \in {"none", "rows", "no_rows"} THEN x.outcome
                         ELSE "raised"]
  BY DEF Moved, WorkerAttempts, answered, returned
<1>4. x.step # "idle" => busy' = [busy EXCEPT ![w] = TRUE]
  BY <1>1, <1>2, Zenon
<1>5. x.step = "idle" => busy' = [busy EXCEPT ![w] = FALSE]
  BY <1>1, <1>2, Zenon
<1> QED
  BY <1>3, <1>4, <1>5

\* What a step that moves w has to be, in terms of the abstract variables.
LEMMA ActsImplement ==
  ASSUME at \in WorkerAttempts, GoodInv, NEW w \in Workers, Acts(w)
  PROVE  A!Next \/ UNCHANGED A!vars
<1> DEFINE r == at[w]
           x == at'[w]
<1>1. Moved(w) /\ r \in Attempt /\ Good(r) /\ r.lang \in 1..NLangs
  BY ActsMove DEF WorkerAttempts, GoodInv, Attempt
<1>2. UNCHANGED speech
  BY DEF Acts, Step, Fetches, FetchRaises, Reads, ReadRaises, LooksUp, Transcribes,
         TranscribeRaises, OpensCache, FillsCache, CacheRaises, Answers,
         AnswersBadly, NotFound, AskRaises, AnswersOddly, Asks, Begins, Killed
<1>3. Move(r, x)
  BY <1>1 DEF Moved
<1>4. /\ x.step # "idle" => busy' = [busy EXCEPT ![w] = TRUE]
      /\ x.step = "idle" => busy' = [busy EXCEPT ![w] = FALSE]
      /\ answered' = [answered EXCEPT ![w] = IF x.outcome = "rows" THEN x.lang ELSE x.lang - 1]
      /\ returned' = [returned EXCEPT ![w] =
                         IF x.outcome \in {"none", "rows", "no_rows"} THEN x.outcome
                         ELSE "raised"]
  BY <1>1, Projects
<1>5. /\ r.step # "idle" => busy[w]
      /\ r.step = "idle" => ~busy[w]
      /\ r.outcome # "rows" => answered[w] = r.lang - 1
      /\ r.outcome = "none" => returned[w] = "none"
      /\ r.step # "idle" => r.outcome = "none"
  BY <1>1 DEF busy, answered, returned, Good
<1> HIDE DEF r, x
<1>6. ASSUME r.step = "idle"
      PROVE  A!Begin(w)
  <2>1. x.step # "idle" /\ x.outcome = "none" /\ x.lang = 1
    BY <1>3, <1>6 DEF Move
  <2>2. /\ ~busy[w]
        /\ busy' = [busy EXCEPT ![w] = TRUE]
        /\ answered' = [answered EXCEPT ![w] = 0]
        /\ returned' = [returned EXCEPT ![w] = "none"]
    BY <1>4, <1>5, <1>6, <2>1
  <2> QED
    BY <1>2, <2>2 DEF A!Begin, busy, answered, returned
<1>7. ASSUME r.step # "idle", x.step # "idle", x.outcome = "none", x.lang = r.lang
      PROVE  UNCHANGED A!vars
  <2>1. /\ busy' = [busy EXCEPT ![w] = TRUE] /\ (busy[w] = TRUE)
        /\ answered' = [answered EXCEPT ![w] = r.lang - 1] /\ answered[w] = r.lang - 1
        /\ returned' = [returned EXCEPT ![w] = "none"] /\ returned[w] = "none"
    BY <1>4, <1>5, <1>7 DEF busy
  <2>2. busy' = busy
    BY <2>1 DEF busy
  <2>3. answered' = answered
    BY <2>1 DEF answered
  <2>4. returned' = returned
    BY <2>1 DEF returned
  <2> QED
    BY <1>2, <2>2, <2>3, <2>4 DEF A!vars, busy, answered, returned
<1>8. ASSUME r.step = "ask", r.lang < NLangs, x.step = "ask", x.outcome = "none",
             x.lang = r.lang + 1
      PROVE  A!Answer(w)
  <2>0. /\ busy[w] /\ busy' = [busy EXCEPT ![w] = TRUE]
        /\ answered[w] = r.lang - 1 /\ answered' = [answered EXCEPT ![w] = r.lang]
        /\ returned' = [returned EXCEPT ![w] = "none"] /\ returned[w] = "none"
    <3>1. x.lang - 1 = r.lang
      BY <1>1, <1>8, ProcessingAssumption
    <3>2. answered' = [answered EXCEPT ![w] = x.lang - 1] /\ x.step # "idle"
      BY <1>4, <1>8
    <3>3. r.step # "idle" /\ r.outcome # "rows"
      BY <1>5, <1>8
    <3> QED
      BY <1>4, <1>5, <1>8, <3>1, <3>2, <3>3
  <2>1. /\ answered[w] < NLangs /\ answered' = [answered EXCEPT ![w] = answered[w] + 1]
        /\ answered'[w] # NLangs
    <3>1. answered'[w] = r.lang
      BY <2>0 DEF answered
    <3>2. r.lang = answered[w] + 1
      BY <1>1, <2>0, ProcessingAssumption
    <3>3. answered[w] < NLangs /\ r.lang # NLangs
      BY <1>1, <1>8, <2>0, ProcessingAssumption
    <3> QED
      BY <2>0, <3>1, <3>2, <3>3
  <2>2. busy' = busy /\ returned' = returned
    <3>1. busy[w] = TRUE
      BY <2>0 DEF busy
    <3>2. busy' = busy
      BY <2>0, <3>1 DEF busy
    <3> QED
      BY <2>0, <3>2 DEF returned
  <2> QED
    BY <1>2, <2>0, <2>1, <2>2 DEF A!Answer, busy, answered, returned
<1>9. ASSUME r.step = "ask", r.lang = NLangs, x.step = "idle", x.outcome = "rows",
             x.lang = r.lang
      PROVE  A!Answer(w)
  <2>0. /\ busy[w] /\ busy' = [busy EXCEPT ![w] = FALSE]
        /\ answered[w] = r.lang - 1 /\ answered' = [answered EXCEPT ![w] = r.lang]
        /\ returned' = [returned EXCEPT ![w] = "rows"]
    BY <1>1, <1>4, <1>5, <1>9, ProcessingAssumption
  <2>1. /\ answered[w] < NLangs /\ answered' = [answered EXCEPT ![w] = answered[w] + 1]
        /\ answered'[w] = NLangs
    <3>1. answered'[w] = r.lang
      BY <2>0 DEF answered
    <3>2. r.lang = answered[w] + 1
      BY <1>1, <2>0, ProcessingAssumption
    <3> QED
      BY <1>1, <1>9, <2>0, <3>1, <3>2, ProcessingAssumption
  <2> QED
    BY <1>2, <2>0, <2>1 DEF A!Answer, A!Ends, busy, answered, returned
<1>10. ASSUME r.step # "idle", ~speech, r.lang = 1, x.step = "idle",
              x.outcome = "no_rows", x.lang = 1
       PROVE  A!Hush(w)
  <2>1. /\ busy[w] /\ busy' = [busy EXCEPT ![w] = FALSE]
        /\ answered[w] = 0 /\ answered' = [answered EXCEPT ![w] = 0]
        /\ returned' = [returned EXCEPT ![w] = "no_rows"]
    BY <1>4, <1>5, <1>10
  <2>2. answered' = answered
    BY <2>1 DEF answered
  <2> QED
    BY <1>2, <1>10, <2>1, <2>2 DEF A!Hush, A!Ends, busy, answered, returned
<1>11. ASSUME r.step # "idle", x.step = "idle", x.outcome \in Failures, x.lang = r.lang
       PROVE  A!Raise(w)
  <2>1. /\ busy[w] /\ busy' = [busy EXCEPT ![w] = FALSE]
        /\ answered[w] = r.lang - 1 /\ answered' = [answered EXCEPT ![w] = r.lang - 1]
        /\ returned' = [returned EXCEPT ![w] = "raised"]
    BY <1>4, <1>5, <1>11 DEF Failures
  <2>2. answered' = answered
    BY <2>1 DEF answered
  <2> QED
    BY <1>2, <2>1, <2>2 DEF A!Raise, A!Ends, busy, answered, returned
<1>12. ASSUME r.step # "idle", x.step = "idle", x.outcome = "none", x.lang = 1
       PROVE  A!Kill(w)
  <2>1. /\ busy[w] /\ busy' = [busy EXCEPT ![w] = FALSE]
        /\ answered' = [answered EXCEPT ![w] = 0]
        /\ returned[w] = "none" /\ returned' = [returned EXCEPT ![w] = "none"]
    BY <1>4, <1>5, <1>12
  <2>2. returned' = returned
    BY <2>1 DEF returned
  <2> QED
    BY <1>2, <2>1, <2>2 DEF A!Kill, busy, answered, returned
<1> QED
  <2>1. A!Begin(w) \/ A!Answer(w) \/ A!Hush(w) \/ A!Raise(w) \/ A!Kill(w) => A!Next
    BY DEF A!Next, A!Step
  <2> QED
    BY <1>3, <1>6, <1>7, <1>8, <1>9, <1>10, <1>11, <1>12, <2>1 DEF Move

\* The processors implement what the worker loop takes for granted of them: no
\* attempt returns rows without an answer in every language, or none without
\* the recording being silent.  (That attempts end is checked by TLC.)
THEOREM ProcessingImplementsAttempts == Spec => A!Init /\ [][A!Next]_A!vars
<1>1. Init => A!Init
  <2> SUFFICES ASSUME Init
               PROVE  A!Init
    OBVIOUS
  <2>1. Idle.step = "idle" /\ Idle.outcome = "none" /\ Idle.lang = 1
    BY DEF Idle
  <2>2. \A w \in Workers : at[w] = Idle
    BY DEF Init
  <2>3. /\ [w \in Workers |-> at[w].step # "idle"] = [w \in Workers |-> FALSE]
        /\ [w \in Workers |-> IF at[w].outcome = "rows" THEN at[w].lang ELSE at[w].lang - 1]
              = [w \in Workers |-> 0]
        /\ [w \in Workers |-> IF at[w].outcome \in {"none", "rows", "no_rows"}
                               THEN at[w].outcome ELSE "raised"]
              = [w \in Workers |-> "none"]
    <3>1. \A w \in Workers : (at[w].step # "idle") = FALSE
      BY <2>1, <2>2
    <3>2. [w \in Workers |-> at[w].step # "idle"] = [w \in Workers |-> FALSE]
      BY <3>1, Zenon
    <3>3. [w \in Workers |-> IF at[w].outcome = "rows" THEN at[w].lang ELSE at[w].lang - 1]
            = [w \in Workers |-> 0]
      BY <2>1, <2>2
    <3>4. [w \in Workers |-> IF at[w].outcome \in {"none", "rows", "no_rows"}
                             THEN at[w].outcome ELSE "raised"] = [w \in Workers |-> "none"]
      BY <2>1, <2>2
    <3> QED
      BY <3>2, <3>3, <3>4, Zenon
  <2>4. (~speech) \in BOOLEAN
    OBVIOUS
  <2> QED
    BY <2>3, <2>4 DEF A!Init
<1>2. at \in WorkerAttempts /\ GoodInv /\ [Next]_vars => [A!Next]_A!vars
  <2> SUFFICES ASSUME at \in WorkerAttempts, GoodInv, [Next]_vars
               PROVE  A!Next \/ UNCHANGED A!vars
    OBVIOUS
  <2>1. CASE UNCHANGED vars
    BY <2>1 DEF vars, A!vars
  <2>2. ASSUME NEW w \in Workers, Acts(w)
        PROVE  A!Next \/ UNCHANGED A!vars
    BY <2>2, ActsImplement
  <2> QED
    BY <2>1, <2>2 DEF Next, Acts
<1> QED
  BY <1>1, <1>2, GoodAlways, PTL DEF Spec

=============================================================================
