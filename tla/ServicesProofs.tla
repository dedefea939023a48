---------------------------- MODULE ServicesProofs ----------------------------
(***************************************************************************)
(* Proofs about the services that run beside a Bingo, one part for each.   *)
(***************************************************************************)
EXTENDS MCServices, FiniteSetTheorems, SequenceTheorems, WellFoundedInduction, TLAPS

-----------------------------------------------------------------------------
(* Sequences. *)

LEMMA SmallestOf ==
    ASSUME NEW S \in SUBSET Nat, S # {}
    PROVE  \E n \in S : \A m \in S : n <= m
<1>1. PICK n \in S : \A m \in S : ~(<<m, n>> \in OpToRel(<, Nat))
  BY WFMin, NatLessThanWellFounded
<1>2. ASSUME NEW m \in S PROVE n <= m
  <2>1. <<m, n>> \in Nat \X Nat /\ n \in Nat /\ m \in Nat
    OBVIOUS
  <2>2. ~(m < n)
    BY <1>1, <2>1 DEF OpToRel
  <2> QED BY <2>1, <2>2
<1> QED BY <1>2

\* What a sequence holds after a part of it is cut out.
LEMMA Remaining ==
    ASSUME NEW S, NEW s \in Seq(S), NEW n \in 1..Len(s)
    PROVE  /\ Ocr!RemoveAt(s, n) \in Seq(S)
           /\ Len(Ocr!RemoveAt(s, n)) = Len(s) - 1
           /\ \A i \in 1..Len(s) - 1 : Ocr!RemoveAt(s, n)[i] = IF i < n THEN s[i] ELSE s[i + 1]
<1> DEFINE front == SubSeq(s, 1, n - 1)
           back == SubSeq(s, n + 1, Len(s))
<1>1. Len(s) \in Nat /\ \A i \in 1..Len(s) : s[i] \in S
  BY ElementOfSeq, LenProperties
<1>2. /\ front \in Seq(S) /\ Len(front) = n - 1 /\ \A i \in 1..n - 1 : front[i] = s[i]
  BY <1>1, SubSeqProperties
<1>3. /\ back \in Seq(S) /\ Len(back) = Len(s) - n /\ \A i \in 1..Len(s) - n : back[i] = s[n + i]
  BY <1>1, SubSeqProperties
<1>4. Ocr!RemoveAt(s, n) = front \o back
  BY DEF Ocr!RemoveAt
<1> HIDE DEF front, back
<1>5. /\ front \o back \in Seq(S) /\ Len(front \o back) = Len(front) + Len(back)
      /\ \A i \in 1..Len(front) + Len(back) :
            (front \o back)[i] = IF i <= Len(front) THEN front[i] ELSE back[i - Len(front)]
  BY <1>2, <1>3, ConcatProperties
<1>6. Len(front) + Len(back) = Len(s) - 1
  BY <1>1, <1>2, <1>3
<1>7. ASSUME NEW i \in 1..Len(s) - 1 PROVE (front \o back)[i] = IF i < n THEN s[i] ELSE s[i + 1]
  <2>1. (front \o back)[i] = IF i <= n - 1 THEN front[i] ELSE back[i - (n - 1)]
    BY <1>2, <1>5, <1>6
  <2>2. CASE i < n
    BY <1>1, <1>2, <2>1, <2>2
  <2>3. CASE ~(i < n)
    <3>1. i - (n - 1) \in 1..Len(s) - n /\ n + (i - (n - 1)) = i + 1
      BY <1>1, <2>3
    <3>2. back[i - (n - 1)] = s[i + 1]
      BY <1>3, <3>1
    <3> QED BY <1>1, <2>1, <2>3, <3>2
  <2> QED BY <2>2, <2>3
<1> QED BY <1>4, <1>5, <1>6, <1>7

Elements(s) == {s[i] : i \in 1..Len(s)}

\* No element twice.
Apart(s) == \A i, j \in 1..Len(s) : s[i] = s[j] => i = j

LEMMA ElementsOfBoth ==
    ASSUME NEW S, NEW s \in Seq(S), NEW t \in Seq(S)
    PROVE  Elements(s \o t) = Elements(s) \cup Elements(t)
<1>1. Len(s) \in Nat /\ Len(t) \in Nat
  BY LenProperties
<1>2. /\ Len(s \o t) = Len(s) + Len(t)
      /\ \A i \in 1..Len(s) + Len(t) : (s \o t)[i] = IF i <= Len(s) THEN s[i] ELSE t[i - Len(s)]
  BY ConcatProperties
<1>3. ASSUME NEW i \in 1..Len(s) PROVE s[i] \in Elements(s \o t)
  <2>1. i \in 1..Len(s \o t) /\ (s \o t)[i] = s[i]
    BY <1>1, <1>2
  <2> QED BY <2>1 DEF Elements
<1>4. ASSUME NEW i \in 1..Len(t) PROVE t[i] \in Elements(s \o t)
  <2>1. Len(s) + i \in 1..Len(s) + Len(t) /\ ~(Len(s) + i <= Len(s)) /\ (Len(s) + i) - Len(s) = i
    BY <1>1
  <2>2. (s \o t)[Len(s) + i] = t[i]
    BY <1>2, <2>1
  <2> QED BY <1>2, <2>1, <2>2 DEF Elements
<1>5. ASSUME NEW i \in 1..Len(s \o t) PROVE (s \o t)[i] \in Elements(s) \cup Elements(t)
  <2>1. IF i <= Len(s) THEN i \in 1..Len(s) ELSE i - Len(s) \in 1..Len(t)
    BY <1>1, <1>2
  <2> QED BY <1>2, <2>1 DEF Elements
<1>6. Elements(s) \subseteq Elements(s \o t) /\ Elements(t) \subseteq Elements(s \o t)
  BY <1>3, <1>4 DEF Elements
<1>7. Elements(s \o t) \subseteq Elements(s) \cup Elements(t)
  BY <1>5 DEF Elements
<1> QED BY <1>6, <1>7

LEMMA ElementsOfPart ==
    ASSUME NEW S, NEW s \in Seq(S)
    PROVE  Elements(s) = {s[i] : i \in DOMAIN s} /\ Elements(s) \subseteq S
BY LenProperties, ElementOfSeq DEF Elements

LEMMA ApartInBoth ==
    ASSUME NEW T, NEW a \in Seq(T), NEW b \in Seq(T)
    PROVE  Apart(a \o b) <=> Apart(a) /\ Apart(b) /\ Elements(a) \cap Elements(b) = {}
<1> DEFINE w == a \o b
<1>1. Len(a) \in Nat /\ Len(b) \in Nat
  BY LenProperties
<1>2. Len(w) = Len(a) + Len(b) /\ \A i \in 1..Len(a) + Len(b) : w[i] = IF i <= Len(a) THEN a[i] ELSE b[i - Len(a)]
  BY ConcatProperties
<1> HIDE DEF w
<1>3. ASSUME NEW i \in 1..Len(a) PROVE i \in 1..Len(w) /\ w[i] = a[i]
  BY <1>1, <1>2
<1>4. ASSUME NEW j \in 1..Len(b) PROVE Len(a) + j \in 1..Len(w) /\ w[Len(a) + j] = b[j]
  <2>1. Len(a) + j \in 1..Len(a) + Len(b) /\ ~(Len(a) + j <= Len(a)) /\ (Len(a) + j) - Len(a) = j
    BY <1>1
  <2> QED BY <1>2, <2>1
<1>5. ASSUME Apart(w) PROVE Apart(a) /\ Apart(b) /\ Elements(a) \cap Elements(b) = {}
  <2>1. Apart(a)
    BY <1>3, <1>5 DEF Apart
  <2>2. ASSUME NEW i \in 1..Len(b), NEW j \in 1..Len(b), b[i] = b[j] PROVE i = j
    <3>1. Len(a) + i = Len(a) + j
      BY <1>4, <1>5, <2>2 DEF Apart
    <3> QED BY <1>1, <3>1
  <2>3. ASSUME NEW i \in 1..Len(a), NEW j \in 1..Len(b) PROVE a[i] # b[j]
    <3>1. i # Len(a) + j
      BY <1>1
    <3> QED BY <1>3, <1>4, <1>5, <3>1 DEF Apart
  <2>4. Apart(b)
    BY <2>2 DEF Apart
  <2> QED BY <2>1, <2>3, <2>4 DEF Elements
<1>6. ASSUME Apart(a), Apart(b), Elements(a) \cap Elements(b) = {} PROVE Apart(w)
  <2> SUFFICES ASSUME NEW i \in 1..Len(w), NEW j \in 1..Len(w), w[i] = w[j] PROVE i = j
    BY DEF Apart
  <2>1. \A n \in 1..Len(w) : IF n <= Len(a) THEN n \in 1..Len(a) ELSE n - Len(a) \in 1..Len(b)
    BY <1>1, <1>2
  <2>2. \A m \in 1..Len(a), n \in 1..Len(b) : a[m] # b[n]
    BY <1>6 DEF Elements
  <2>3. CASE i <= Len(a) /\ j <= Len(a)
    BY <1>2, <1>6, <2>1, <2>3 DEF Apart
  <2>4. CASE ~(i <= Len(a)) /\ ~(j <= Len(a))
    <3>1. i - Len(a) = j - Len(a)
      BY <1>2, <1>6, <2>1, <2>4 DEF Apart
    <3> QED BY <1>1, <1>2, <3>1
  <2>5. CASE i <= Len(a) /\ ~(j <= Len(a))
    BY <1>2, <2>1, <2>2, <2>5
  <2>6. CASE ~(i <= Len(a)) /\ j <= Len(a)
    BY <1>2, <2>1, <2>2, <2>6
  <2> QED BY <2>3, <2>4, <2>5, <2>6
<1> QED BY <1>5, <1>6 DEF w

-----------------------------------------------------------------------------
(* The limiter: its tasks run or wait, none twice, and pump only moves     *)
(* them on.                                                                *)

Sound(l) ==
    /\ IsFiniteSet(l.running)
    /\ Apart(Ocr!Waiting(l))
    /\ l.running \cap Ocr!InQueue(l) = {}

Tasks(l) == l.running \cup Ocr!InQueue(l)

\* How many leave a queue of this length when n slots are free.
Leave(n, length) == IF n <= 0 THEN 0 ELSE IF n <= length THEN n ELSE length

LEMMA RestOfQueue ==
    ASSUME NEW S, NEW q \in Seq(S), NEW n \in Int
    PROVE  /\ Ocr!Rest(q, n) \in Seq(S)
           /\ Leave(n, Len(q)) \in 0..Len(q)
           /\ Len(Ocr!Rest(q, n)) = Len(q) - Leave(n, Len(q))
           /\ \A i \in 1..Len(q) - Leave(n, Len(q)) : Ocr!Rest(q, n)[i] = q[i + Leave(n, Len(q))]
<1> DEFINE from == IF n > 0 THEN n + 1 ELSE 1
<1>1. Len(q) \in Nat /\ \A i \in 1..Len(q) : q[i] \in S
  BY ElementOfSeq, LenProperties
<1>2. from \in Int /\ \A i \in from..Len(q) : q[i] \in S
  BY <1>1
<1>3. Ocr!Rest(q, n) = SubSeq(q, from, Len(q))
  BY DEF Ocr!Rest
<1>4. /\ SubSeq(q, from, Len(q)) \in Seq(S)
      /\ Len(SubSeq(q, from, Len(q))) = IF from <= Len(q) THEN Len(q) - from + 1 ELSE 0
      /\ \A i \in 1..Len(q) - from + 1 : SubSeq(q, from, Len(q))[i] = q[from + i - 1]
  BY <1>1, <1>2, SubSeqProperties
<1>5. Leave(n, Len(q)) = IF from <= Len(q) THEN from - 1 ELSE Len(q)
  BY <1>1 DEF Leave
<1>6. Leave(n, Len(q)) \in 0..Len(q) /\ Len(q) - Leave(n, Len(q)) = IF from <= Len(q) THEN Len(q) - from + 1 ELSE 0
  BY <1>1, <1>2, <1>5
<1>7. ASSUME NEW i \in 1..Len(q) - Leave(n, Len(q)) PROVE Ocr!Rest(q, n)[i] = q[i + Leave(n, Len(q))]
  <2>1. from <= Len(q) /\ i \in 1..Len(q) - from + 1 /\ from + i - 1 = i + Leave(n, Len(q))
    BY <1>1, <1>2, <1>5, <1>6
  <2> QED BY <1>3, <1>4, <2>1
<1> QED BY <1>3, <1>4, <1>6, <1>7

LEMMA LeaveInTurn ==
    ASSUME NEW n \in Int, NEW a \in Nat, NEW b \in Nat
    PROVE  /\ Leave(n, a) + Leave(n - a, b) = Leave(n, a + b)
           /\ Leave(n, a) = a \/ Leave(n - a, b) = 0
           /\ Leave(n, a + b) \in 0..(a + b)
           /\ \A k \in 1..(a + b) : k <= n <=> k <= Leave(n, a + b)
BY DEF Leave

LEMMA SameCardinality == \A S : Ocr!Cardinality(S) = Cardinality(S)
BY DEF Ocr!Cardinality, Cardinality

\* Those that start are the first of those that wait; the others wait as before.
LEMMA Pumped ==
    ASSUME NEW T, NEW l \in Ocr!Limiters(T), NEW limit \in Nat, IsFiniteSet(l.running)
    PROVE  LET after == Ocr!Pump(l, limit)
               w == Ocr!Waiting(l)
               k == Leave(limit - Cardinality(l.running), Len(w))
           IN  /\ after \in Ocr!Limiters(T)
               /\ w \in Seq(T) /\ k \in 0..Len(w)
               /\ after.running = l.running \cup {w[i] : i \in 1..k}
               /\ Ocr!Waiting(after) \in Seq(T) /\ Len(Ocr!Waiting(after)) = Len(w) - k
               /\ \A i \in 1..Len(w) - k : Ocr!Waiting(after)[i] = w[i + k]
<1> DEFINE a == l.interactive
           b == l.background
           n == limit - Cardinality(l.running)
           x == Ocr!Rest(a, n)
           y == Ocr!Rest(b, n - Len(a))
           w == a \o b
           started == {w[i] : i \in {j \in DOMAIN w : j <= n}}
           p == Leave(n, Len(a))
           q == Leave(n - Len(a), Len(b))
           k == Leave(n, Len(w))
<1>1. a \in Seq(T) /\ b \in Seq(T) /\ l.running \subseteq T
  BY DEF Ocr!Limiters
<1>2. Len(a) \in Nat /\ Len(b) \in Nat /\ n \in Int /\ n - Len(a) \in Int
  BY <1>1, LenProperties, FS_CardinalityType
<1>3. Ocr!Waiting(l) = w
  BY DEF Ocr!Waiting
<1>4. Ocr!Pump(l, limit) = [running |-> l.running \cup started, interactive |-> x, background |-> y]
  BY <1>3, SameCardinality DEF Ocr!Pump
<1>5. k = Leave(limit - Cardinality(l.running), Len(Ocr!Waiting(l)))
  BY <1>3
<1> HIDE DEF a, b, n
<1>6. /\ x \in Seq(T) /\ p \in 0..Len(a) /\ Len(x) = Len(a) - p
      /\ \A i \in 1..Len(a) - p : x[i] = a[i + p]
  BY <1>1, <1>2, RestOfQueue
<1>7. /\ y \in Seq(T) /\ q \in 0..Len(b) /\ Len(y) = Len(b) - q
      /\ \A i \in 1..Len(b) - q : y[i] = b[i + q]
  BY <1>1, <1>2, RestOfQueue
<1>8. w \in Seq(T) /\ Len(w) = Len(a) + Len(b)
  BY <1>1, ConcatProperties
<1>9. p + q = k /\ (p = Len(a) \/ q = 0) /\ k \in 0..Len(w) /\ \A i \in 1..Len(w) : i <= n <=> i <= k
  <2> DEFINE r == Len(a) + Len(b)
  <2>1. /\ p + q = Leave(n, r) /\ (p = Len(a) \/ q = 0) /\ Leave(n, r) \in 0..r
        /\ \A i \in 1..r : i <= n <=> i <= Leave(n, r)
    BY <1>2, LeaveInTurn
  <2>2. Len(w) = r
    BY <1>8
  <2> HIDE DEF p, q, w, r
  <2> QED BY <2>1, <2>2
<1>10. \A i \in 1..Len(w) : w[i] = IF i <= Len(a) THEN a[i] ELSE b[i - Len(a)]
  BY <1>1, <1>8, ConcatProperties
<1>11. started = {w[i] : i \in 1..k}
  <2>1. DOMAIN w = 1..Len(w) /\ Len(w) \in Nat
    BY <1>8, LenProperties
  <2>2. {j \in DOMAIN w : j <= n} = 1..k
    BY <1>2, <1>9, <2>1
  <2> QED BY <2>2
<1>12. started \subseteq T
  BY <1>8, <1>9, <1>11, ElementOfSeq
<1> HIDE DEF started, x, y, w, p, q, k
<1>13. Ocr!Waiting(Ocr!Pump(l, limit)) = x \o y /\ Ocr!Pump(l, limit).running = l.running \cup {w[i] : i \in 1..k}
  BY <1>4, <1>11 DEF Ocr!Waiting
<1>14. Ocr!Pump(l, limit) \in Ocr!Limiters(T)
  BY <1>1, <1>4, <1>6, <1>7, <1>12 DEF Ocr!Limiters
<1>15. /\ x \o y \in Seq(T) /\ Len(x \o y) = Len(x) + Len(y)
       /\ \A i \in 1..Len(x) + Len(y) : (x \o y)[i] = IF i <= Len(x) THEN x[i] ELSE y[i - Len(x)]
  BY <1>6, <1>7, ConcatProperties
<1>16. Len(x) + Len(y) = Len(w) - k
  <2>1. p \in Int /\ q \in Int /\ k = p + q /\ Len(x) = Len(a) - p /\ Len(y) = Len(b) - q
    BY <1>6, <1>7, <1>9
  <2> QED BY <1>2, <1>8, <2>1
<1>17. ASSUME NEW i \in 1..Len(w) - k PROVE (x \o y)[i] = w[i + k]
  <2>1. i \in 1..Len(x) + Len(y) /\ i + k \in 1..Len(w)
    BY <1>2, <1>8, <1>9, <1>16
  <2>2. CASE i <= Len(x)
    <3>1. q = 0 /\ k = p /\ i \in 1..Len(a) - p /\ i + p <= Len(a)
      BY <1>2, <1>6, <1>7, <1>9, <2>1, <2>2
    <3>2. (x \o y)[i] = a[i + p]
      BY <1>6, <1>15, <2>1, <2>2, <3>1
    <3>3. w[i + k] = a[i + p]
      BY <1>10, <2>1, <3>1
    <3> QED BY <3>2, <3>3
  <2>3. CASE ~(i <= Len(x))
    <3>1. /\ i - Len(x) \in 1..Len(b) - q
          /\ (i - Len(x)) + q = (i + k) - Len(a)
          /\ ~(i + k <= Len(a))
      BY <1>2, <1>6, <1>7, <1>9, <2>1, <2>3
    <3>2. (x \o y)[i] = b[(i - Len(x)) + q]
      BY <1>7, <1>15, <2>1, <2>3, <3>1
    <3>3. w[i + k] = b[(i + k) - Len(a)]
      BY <1>10, <2>1, <3>1
    <3> QED BY <3>1, <3>2, <3>3
  <2> QED BY <2>2, <2>3
<1>18. Len(x \o y) = Len(w) - k
  BY <1>15, <1>16
<1> QED BY <1>3, <1>5, <1>8, <1>9, <1>13, <1>14, <1>15, <1>17, <1>18

\* Nothing is lost or run twice, and nothing joins the queue.
LEMMA PumpKeeps ==
    ASSUME NEW T, NEW l \in Ocr!Limiters(T), NEW limit \in Nat, Sound(l)
    PROVE  LET after == Ocr!Pump(l, limit)
           IN  /\ after \in Ocr!Limiters(T) /\ Sound(after)
               /\ Tasks(after) = Tasks(l)
<1> DEFINE after == Ocr!Pump(l, limit)
           w == Ocr!Waiting(l)
           v == Ocr!Waiting(after)
           k == Leave(limit - Cardinality(l.running), Len(w))
           started == {w[i] : i \in 1..k}
<1>1. IsFiniteSet(l.running) /\ l.running \cap Ocr!InQueue(l) = {} /\ Apart(w)
  BY DEF Sound
<1>2. after \in Ocr!Limiters(T) /\ after.running = l.running \cup started
  BY <1>1, Pumped
<1>3. w \in Seq(T) /\ k \in 0..Len(w) /\ v \in Seq(T) /\ Len(v) = Len(w) - k /\ \A i \in 1..Len(w) - k : v[i] = w[i + k]
  BY <1>1, Pumped
<1>4. Ocr!InQueue(l) = {w[i] : i \in 1..Len(w)} /\ Ocr!InQueue(after) = {v[i] : i \in 1..Len(v)}
  BY <1>3, LenProperties DEF Ocr!InQueue
<1>5. Len(w) \in Nat
  BY <1>3, LenProperties
<1> HIDE DEF after, w, v, k
<1>6. Ocr!InQueue(after) = {w[i] : i \in k + 1..Len(w)}
  <2>1. ASSUME NEW i \in 1..Len(v) PROVE v[i] \in {w[j] : j \in k + 1..Len(w)}
    BY <1>3, <1>5, <2>1
  <2>2. ASSUME NEW j \in k + 1..Len(w) PROVE w[j] \in {v[i] : i \in 1..Len(v)}
    <3>1. j - k \in 1..Len(w) - k /\ (j - k) + k = j
      BY <1>3, <1>5
    <3> QED BY <1>3, <3>1
  <2> QED BY <1>4, <2>1, <2>2
<1>7. started \subseteq Ocr!InQueue(l) /\ Ocr!InQueue(l) = started \cup Ocr!InQueue(after)
  <2>1. 1..Len(w) = (1..k) \cup (k + 1..Len(w))
    BY <1>3, <1>5
  <2> QED BY <1>4, <1>6, <2>1
<1>8. started \cap Ocr!InQueue(after) = {}
  <2>1. ASSUME NEW i \in 1..k, NEW j \in k + 1..Len(w) PROVE w[i] # w[j]
    BY <1>1, <1>3, <1>5 DEF Apart
  <2> QED BY <1>6, <2>1
<1>9. IsFiniteSet(after.running)
  <2>1. IsFiniteSet(1..k)
    BY <1>3, <1>5, FS_Interval
  <2>2. [i \in 1..k |-> w[i]] \in Surjection(1..k, started)
    BY DEF Surjection
  <2> HIDE DEF started
  <2>3. IsFiniteSet(started)
    BY <2>1, <2>2, FS_Surjection
  <2>4. IsFiniteSet(l.running)
    BY <1>1
  <2>5. IsFiniteSet(l.running \cup started)
    BY <2>3, <2>4, FS_Union
  <2> QED BY <1>2, <2>5
<1>10. ASSUME NEW i \in 1..Len(v), NEW j \in 1..Len(v), v[i] = v[j] PROVE i = j
  <2>1. i + k \in 1..Len(w) /\ j + k \in 1..Len(w)
    BY <1>3, <1>5
  <2>2. w[i + k] = w[j + k]
    BY <1>3, <1>10
  <2>3. i + k = j + k
    BY <1>1, <2>1, <2>2 DEF Apart
  <2> QED BY <1>3, <1>5, <2>3
<1>11. Sound(after)
  BY <1>1, <1>2, <1>7, <1>8, <1>9, <1>10 DEF Sound, Apart, v
<1>12. Tasks(after) = Tasks(l)
  BY <1>2, <1>7 DEF Tasks
<1> QED BY <1>2, <1>11, <1>12 DEF after

\* What a limiter is, queue by queue.
LEMMA SoundQueues ==
    ASSUME NEW T, NEW l \in Ocr!Limiters(T)
    PROVE  /\ Ocr!InQueue(l) = Elements(l.interactive) \cup Elements(l.background)
           /\ Sound(l) <=> /\ IsFiniteSet(l.running)
                           /\ Apart(l.interactive) /\ Apart(l.background)
                           /\ Elements(l.interactive) \cap Elements(l.background) = {}
                           /\ l.running \cap Ocr!InQueue(l) = {}
<1> DEFINE a == l.interactive
           b == l.background
<1>1. a \in Seq(T) /\ b \in Seq(T)
  BY DEF Ocr!Limiters
<1>2. Ocr!InQueue(l) = {(a \o b)[i] : i \in DOMAIN (a \o b)} /\ Ocr!Waiting(l) = a \o b
  BY DEF Ocr!InQueue, Ocr!Waiting
<1> HIDE DEF a, b
<1>3. a \o b \in Seq(T)
  BY <1>1, ConcatProperties
<1>4. Elements(a \o b) = Elements(a) \cup Elements(b)
  BY <1>1, ElementsOfBoth
<1>5. Ocr!InQueue(l) = Elements(a) \cup Elements(b)
  BY <1>2, <1>3, <1>4, ElementsOfPart
<1>6. Apart(a \o b) <=> Apart(a) /\ Apart(b) /\ Elements(a) \cap Elements(b) = {}
  BY <1>1, ApartInBoth
<1> QED BY <1>2, <1>5, <1>6 DEF Sound, a, b

LEMMA Appended ==
    ASSUME NEW T, NEW q \in Seq(T), NEW t \in T, t \notin Elements(q), Apart(q)
    PROVE  Append(q, t) \in Seq(T) /\ Apart(Append(q, t)) /\ Elements(Append(q, t)) = Elements(q) \cup {t}
<1>1. Append(q, t) = q \o <<t>> /\ <<t>> \in Seq(T) /\ Append(q, t) \in Seq(T)
  BY AppendIsConcat, AppendProperties
<1>2. Apart(<<t>>) /\ Elements(<<t>>) = {t}
  BY DEF Apart, Elements
<1>3. Elements(q) \cap Elements(<<t>>) = {}
  BY <1>2
<1>4. Elements(q \o <<t>>) = Elements(q) \cup {t}
  <2>1. Elements(q \o <<t>>) = Elements(q) \cup Elements(<<t>>)
    BY <1>1, ElementsOfBoth
  <2> QED BY <1>2, <2>1
<1>5. Apart(q \o <<t>>)
  BY <1>1, <1>2, <1>3, ApartInBoth
<1> QED BY <1>1, <1>4, <1>5

LEMMA Pushed ==
    ASSUME NEW T, NEW l \in Ocr!Limiters(T), NEW limit \in Nat, Sound(l),
           NEW t \in T, t \notin Tasks(l), NEW priority \in Ocr!Priorities
    PROVE  LET after == Ocr!Push(l, limit, t, priority)
           IN  after \in Ocr!Limiters(T) /\ Sound(after) /\ Tasks(after) = Tasks(l) \cup {t}
<1> DEFINE a == l.interactive
           b == l.background
           queued == [l EXCEPT ![priority] = Append(@, t)]
<1>1. a \in Seq(T) /\ b \in Seq(T) /\ l \in [running : SUBSET T, interactive : Seq(T), background : Seq(T)]
  BY DEF Ocr!Limiters
<1>2. /\ IsFiniteSet(l.running) /\ Apart(a) /\ Apart(b) /\ Elements(a) \cap Elements(b) = {}
      /\ l.running \cap Ocr!InQueue(l) = {} /\ Ocr!InQueue(l) = Elements(a) \cup Elements(b)
  BY SoundQueues
<1>3. t \notin l.running /\ t \notin Elements(a) /\ t \notin Elements(b)
  BY <1>2 DEF Tasks
<1>4. priority \in {"interactive", "background"}
  BY DEF Ocr!Priorities
<1>5. Append(a, t) \in Seq(T) /\ Apart(Append(a, t)) /\ Elements(Append(a, t)) = Elements(a) \cup {t}
  BY <1>1, <1>2, <1>3, Appended
<1>6. Append(b, t) \in Seq(T) /\ Apart(Append(b, t)) /\ Elements(Append(b, t)) = Elements(b) \cup {t}
  BY <1>1, <1>2, <1>3, Appended
<1>7. /\ queued \in Ocr!Limiters(T) /\ queued.running = l.running
      /\ queued.interactive = IF priority = "interactive" THEN Append(a, t) ELSE a
      /\ queued.background = IF priority = "background" THEN Append(b, t) ELSE b
  BY <1>1, <1>4, <1>5, <1>6 DEF Ocr!Limiters
<1>8. Ocr!Push(l, limit, t, priority) = Ocr!Pump(queued, limit)
  BY DEF Ocr!Push
<1> HIDE DEF a, b, queued
<1>9. Ocr!InQueue(queued) = Elements(queued.interactive) \cup Elements(queued.background)
  BY <1>7, SoundQueues
<1>10. Ocr!InQueue(queued) = Ocr!InQueue(l) \cup {t}
  BY <1>2, <1>4, <1>5, <1>6, <1>7, <1>9
<1>11. /\ Apart(queued.interactive) /\ Apart(queued.background)
       /\ Elements(queued.interactive) \cap Elements(queued.background) = {}
  BY <1>2, <1>3, <1>4, <1>5, <1>6, <1>7
<1>12. Sound(queued)
  BY <1>2, <1>3, <1>7, <1>10, <1>11, SoundQueues
<1>13. Tasks(queued) = Tasks(l) \cup {t}
  BY <1>7, <1>10 DEF Tasks
<1> QED BY <1>7, <1>8, <1>12, <1>13, PumpKeeps

LEMMA Released ==
    ASSUME NEW T, NEW l \in Ocr!Limiters(T), NEW limit \in Nat, Sound(l), NEW t \in l.running
    PROVE  LET after == Ocr!Release(l, limit, t)
           IN  after \in Ocr!Limiters(T) /\ Sound(after) /\ Tasks(after) = Tasks(l) \ {t}
<1> DEFINE less == [l EXCEPT !.running = @ \ {t}]
<1>1. l \in [running : SUBSET T, interactive : Seq(T), background : Seq(T)]
  BY DEF Ocr!Limiters
<1>2. /\ less.running = l.running \ {t} /\ less.interactive = l.interactive /\ less.background = l.background
      /\ less \in Ocr!Limiters(T)
  BY <1>1 DEF Ocr!Limiters
<1>3. Ocr!Release(l, limit, t) = Ocr!Pump(less, limit)
  BY DEF Ocr!Release
<1> HIDE DEF less
<1>4. Ocr!Waiting(less) = Ocr!Waiting(l) /\ Ocr!InQueue(less) = Ocr!InQueue(l)
  BY <1>2 DEF Ocr!Waiting, Ocr!InQueue
<1>5. IsFiniteSet(less.running)
  BY <1>2, FS_RemoveElement DEF Sound
<1>6. Sound(less) /\ Tasks(less) = Tasks(l) \ {t}
  BY <1>2, <1>4, <1>5 DEF Sound, Tasks
<1> QED BY <1>2, <1>3, <1>6, PumpKeeps

\* A task that waits and no longer does.
LEMMA RemovedFirst ==
    ASSUME NEW T, NEW q \in Seq(T), NEW t, Apart(q)
    PROVE  /\ Ocr!RemoveFirst(q, t) \in Seq(T) /\ Apart(Ocr!RemoveFirst(q, t))
           /\ Elements(Ocr!RemoveFirst(q, t)) = Elements(q) \ {t}
<1> DEFINE r == Ocr!RemoveFirst(q, t)
<1>1. CASE \A i \in 1..Len(q) : q[i] # t
  <2>1. r = q
    BY <1>1 DEF Ocr!RemoveFirst
  <2>2. t \notin Elements(q)
    BY <1>1 DEF Elements
  <2> HIDE DEF r
  <2> QED BY <2>1, <2>2 DEF r
<1>2. ASSUME NEW n \in 1..Len(q), q[n] = t
      PROVE  r \in Seq(T) /\ Apart(r) /\ Elements(r) = Elements(q) \ {t}
  <2>1. {i \in 1..Len(q) : q[i] = t} = {n}
    BY <1>2 DEF Apart
  <2>2. Ocr!SelectInSeq(q, LAMBDA v : v = t) = n
    <3>1. Ocr!Min({n}) = n
      BY DEF Ocr!Min
    <3> QED BY <2>1, <3>1 DEF Ocr!SelectInSeq
  <2>3. r = Ocr!RemoveAt(q, n)
    BY <1>2, <2>2 DEF Ocr!RemoveFirst
  <2> HIDE DEF r
  <2>4. Len(q) \in Nat
    BY LenProperties
  <2>5. r \in Seq(T) /\ Len(r) = Len(q) - 1 /\ \A i \in 1..Len(q) - 1 : r[i] = IF i < n THEN q[i] ELSE q[i + 1]
    BY <2>3, Remaining
  <2>6. ASSUME NEW i \in 1..Len(r), NEW j \in 1..Len(r), r[i] = r[j] PROVE i = j
    <3>1. (IF i < n THEN i ELSE i + 1) \in 1..Len(q) /\ (IF j < n THEN j ELSE j + 1) \in 1..Len(q)
      BY <2>4, <2>5
    <3>2. q[IF i < n THEN i ELSE i + 1] = q[IF j < n THEN j ELSE j + 1]
      BY <2>5, <2>6
    <3>3. (IF i < n THEN i ELSE i + 1) = (IF j < n THEN j ELSE j + 1)
      BY <3>1, <3>2 DEF Apart
    <3> QED BY <2>4, <2>5, <3>3
  <2>7. ASSUME NEW i \in 1..Len(r) PROVE r[i] \in Elements(q) \ {t}
    <3>1. (IF i < n THEN i ELSE i + 1) \in 1..Len(q) /\ (IF i < n THEN i ELSE i + 1) # n
      BY <2>4, <2>5
    <3>2. r[i] = q[IF i < n THEN i ELSE i + 1]
      BY <2>5
    <3> QED BY <1>2, <3>1, <3>2 DEF Elements, Apart
  <2>8. ASSUME NEW i \in 1..Len(q), q[i] # t PROVE q[i] \in Elements(r)
    <3>1. CASE i < n
      <4>1. i \in 1..Len(q) - 1
        BY <2>4, <3>1
      <4> QED BY <2>5, <3>1, <4>1 DEF Elements
    <3>2. CASE ~(i < n)
      <4>1. i - 1 \in 1..Len(q) - 1 /\ ~(i - 1 < n) /\ (i - 1) + 1 = i
        BY <1>2, <2>4, <2>8, <3>2
      <4>2. r[i - 1] = q[i]
        BY <2>5, <4>1
      <4> QED BY <2>5, <4>1, <4>2 DEF Elements
    <3> QED BY <3>1, <3>2
  <2>9. Elements(r) = Elements(q) \ {t}
    BY <2>7, <2>8 DEF Elements
  <2> QED BY <2>5, <2>6, <2>9 DEF Apart
<1> QED BY <1>1, <1>2

LEMMA Withdrawn ==
    ASSUME NEW T, NEW l \in Ocr!Limiters(T), Sound(l), NEW t \in Ocr!InQueue(l)
    PROVE  LET after == Ocr!Withdraw(l, t)
           IN  after \in Ocr!Limiters(T) /\ Sound(after) /\ Tasks(after) = Tasks(l) \ {t}
<1> DEFINE a == l.interactive
           b == l.background
           x == Ocr!RemoveFirst(a, t)
           y == Ocr!RemoveFirst(b, t)
           after == Ocr!Withdraw(l, t)
<1>1. l \in [running : SUBSET T, interactive : Seq(T), background : Seq(T)] /\ a \in Seq(T) /\ b \in Seq(T)
  BY DEF Ocr!Limiters
<1>2. /\ after.running = l.running /\ after.interactive = x /\ after.background = y
      /\ x \in Seq(T) /\ y \in Seq(T) => after \in Ocr!Limiters(T)
  BY <1>1 DEF Ocr!Withdraw, Ocr!Limiters
<1>3. /\ IsFiniteSet(l.running) /\ Apart(a) /\ Apart(b) /\ Elements(a) \cap Elements(b) = {}
      /\ l.running \cap Ocr!InQueue(l) = {} /\ Ocr!InQueue(l) = Elements(a) \cup Elements(b)
  BY SoundQueues
<1> HIDE DEF a, b, x, y, after
<1>4. x \in Seq(T) /\ Apart(x) /\ Elements(x) = Elements(a) \ {t}
  BY <1>1, <1>3, RemovedFirst DEF x
<1>5. y \in Seq(T) /\ Apart(y) /\ Elements(y) = Elements(b) \ {t}
  BY <1>1, <1>3, RemovedFirst DEF y
<1>6. /\ after \in Ocr!Limiters(T)
      /\ after.running = l.running /\ after.interactive = x /\ after.background = y
  BY <1>2, <1>4, <1>5
<1>7. Ocr!InQueue(after) = Ocr!InQueue(l) \ {t}
  <2>1. Ocr!InQueue(after) = Elements(x) \cup Elements(y)
    BY <1>6, SoundQueues
  <2> QED BY <1>3, <1>4, <1>5, <2>1
<1>8. Sound(after)
  BY <1>3, <1>4, <1>5, <1>6, <1>7, SoundQueues
<1>9. Tasks(after) = Tasks(l) \ {t}
  BY <1>3, <1>6, <1>7 DEF Tasks
<1> QED BY <1>6, <1>8, <1>9 DEF after

-----------------------------------------------------------------------------
(* Screenshot reading. A caller that has asked nothing has no reading and  *)
(* waits for none; the table of readings under way names the reading that  *)
(* was started for that image.                                             *)

Quiet == \A c \in Callers : wants[c] = <<>> => at[c] = "none" /\ waitsFor[c] = None

InTable == \A i \in Images : inFlight[i] # None => wants[inFlight[i]] # <<>> /\ wants[inFlight[i]].image = i

OcrInv == Ocr!TypeOK /\ Sound(cloud) /\ Sound(local) /\ Quiet /\ InTable /\ ReadOnce

LEMMA OcrConstants ==
    /\ None \notin Callers
    /\ CloudSlots \in Nat /\ LocalSlots \in Nat /\ Cooldown \in Nat /\ Ttl \in Nat /\ MaxEntries \in Nat /\ MaxOcrTime \in Nat
BY ServicesAssumption DEF Ocr!Assumption

LEMMA EmptyIsSound ==
    /\ Ocr!EmptyLimiter \in Ocr!Limiters(Callers) /\ Sound(Ocr!EmptyLimiter)
    /\ Ocr!InQueue(Ocr!EmptyLimiter) = {} /\ Tasks(Ocr!EmptyLimiter) = {}
<1>1. /\ Ocr!EmptyLimiter \in Ocr!Limiters(Callers)
      /\ Ocr!EmptyLimiter.running = {} /\ Ocr!EmptyLimiter.interactive = <<>> /\ Ocr!EmptyLimiter.background = <<>>
  BY DEF Ocr!EmptyLimiter, Ocr!Limiters
<1>2. Elements(<<>>) = {} /\ Apart(<<>>)
  BY DEF Elements, Apart
<1>3. Ocr!InQueue(Ocr!EmptyLimiter) = {}
  BY <1>1, <1>2, SoundQueues
<1> QED BY <1>1, <1>2, <1>3, SoundQueues, FS_EmptySet DEF Tasks

\* Cloud Vision's limiter while it is left alone: those that run there, and nobody waits.
LEMMA GivenWay ==
    ASSUME NEW started \in SUBSET Callers, IsFiniteSet(started)
    PROVE  LET l == [Ocr!EmptyLimiter EXCEPT !.running = started]
           IN  l \in Ocr!Limiters(Callers) /\ Sound(l) /\ Ocr!InQueue(l) = {} /\ Tasks(l) = started /\ l.running = started
<1> DEFINE l == [Ocr!EmptyLimiter EXCEPT !.running = started]
<1>1. l \in Ocr!Limiters(Callers) /\ l.running = started /\ l.interactive = <<>> /\ l.background = <<>>
  <2>1. Ocr!EmptyLimiter \in [running : SUBSET Callers, interactive : Seq(Callers), background : Seq(Callers)]
    BY DEF Ocr!EmptyLimiter
  <2>2. Ocr!EmptyLimiter.interactive = <<>> /\ Ocr!EmptyLimiter.background = <<>>
    BY DEF Ocr!EmptyLimiter
  <2> QED BY <2>1, <2>2 DEF Ocr!Limiters
<1> HIDE DEF l
<1>2. Elements(<<>>) = {} /\ Apart(<<>>)
  BY DEF Elements, Apart
<1>3. Ocr!InQueue(l) = {}
  BY <1>1, <1>2, SoundQueues
<1>4. Sound(l)
  BY <1>1, <1>2, <1>3, SoundQueues
<1> QED BY <1>1, <1>3, <1>4 DEF Tasks, l

\* What is kept, by image and the instant it is kept until.
KeptList(list) == list \in Seq([image : Images, until : Nat])

LEMMA KeptWithout ==
    ASSUME NEW list, KeptList(list), NEW i \in Images
    PROVE  KeptList(Ocr!Without(list, i)) /\ Elements(Ocr!Without(list, i)) \subseteq Elements(list)
<1> DEFINE I == {n \in 1..Len(list) : list[n].image = i}
           first == Ocr!SelectInSeq(list, LAMBDA k : k.image = i)
<1>1. list \in Seq([image : Images, until : Nat]) /\ Len(list) \in Nat
  BY LenProperties DEF KeptList
<1>2. CASE I = {}
  <2>1. Ocr!Without(list, i) = list
    BY <1>2 DEF Ocr!Without, Ocr!RemoveFirstMatch
  <2> QED BY <2>1
<1>3. CASE I # {}
  <2>1. Ocr!Without(list, i) = Ocr!RemoveAt(list, first)
    BY <1>3 DEF Ocr!Without, Ocr!RemoveFirstMatch
  <2>2. first = Ocr!Min(I)
    BY <1>3 DEF Ocr!SelectInSeq
  <2>3. \E n \in I : \A m \in I : n <= m
    <3>1. I \subseteq Nat
      BY <1>1
    <3> HIDE DEF I
    <3> QED BY <1>3, <3>1, SmallestOf
  <2>4. first \in I
    BY <2>2, <2>3 DEF Ocr!Min
  <2> HIDE DEF first
  <2>5. first \in 1..Len(list)
    BY <2>4
  <2>6. /\ Ocr!RemoveAt(list, first) \in Seq([image : Images, until : Nat])
        /\ Len(Ocr!RemoveAt(list, first)) = Len(list) - 1
        /\ \A n \in 1..Len(list) - 1 : Ocr!RemoveAt(list, first)[n] = IF n < first THEN list[n] ELSE list[n + 1]
    BY <1>1, <2>5, Remaining
  <2>7. ASSUME NEW n \in 1..Len(list) - 1 PROVE Ocr!RemoveAt(list, first)[n] \in Elements(list)
    <3>1. (IF n < first THEN n ELSE n + 1) \in 1..Len(list)
      BY <1>1, <2>5
    <3> QED BY <2>6, <3>1 DEF Elements
  <2>8. Elements(Ocr!RemoveAt(list, first)) \subseteq Elements(list)
    BY <2>6, <2>7 DEF Elements
  <2> QED BY <2>1, <2>6, <2>8 DEF KeptList
<1> QED BY <1>2, <1>3

LEMMA KeptIs ==
    ASSUME KeptList(kept), NEW i
    PROVE  Ocr!IsKept(i) <=> \E k \in Elements(kept) : k.image = i /\ k.until > ocrNow
BY LenProperties DEF KeptList, Ocr!IsKept, Elements

LEMMA KeptIsNext ==
    ASSUME KeptList(kept'), NEW i
    PROVE  Ocr!IsKept(i)' <=> \E k \in Elements(kept') : k.image = i /\ k.until > ocrNow'
BY LenProperties DEF KeptList, Ocr!IsKept, Elements

LEMMA KeptStill ==
    ASSUME KeptList(kept), KeptList(kept'), ocrNow \in Nat, ocrNow' \in Nat, ocrNow <= ocrNow',
           Elements(kept') \subseteq Elements(kept), NEW i, Ocr!IsKept(i)'
    PROVE  Ocr!IsKept(i)
<1>1. PICK k \in Elements(kept') : k.image = i /\ k.until > ocrNow'
  BY KeptIsNext
<1>2. k \in Elements(kept) /\ k \in [image : Images, until : Nat]
  BY ElementsOfPart DEF KeptList
<1>3. k.until > ocrNow
  BY <1>1, <1>2
<1> QED BY <1>1, <1>2, <1>3, KeptIs

LEMMA KeptAppended ==
    ASSUME NEW list, KeptList(list), NEW k \in [image : Images, until : Nat]
    PROVE  KeptList(Append(list, k)) /\ Elements(Append(list, k)) = Elements(list) \cup {k}
<1>1. /\ Append(list, k) = list \o <<k>> /\ <<k>> \in Seq([image : Images, until : Nat])
      /\ Append(list, k) \in Seq([image : Images, until : Nat])
  BY AppendIsConcat, AppendProperties DEF KeptList
<1>2. Elements(<<k>>) = {k}
  BY DEF Elements
<1>3. Elements(list \o <<k>>) = Elements(list) \cup Elements(<<k>>)
  BY <1>1, ElementsOfBoth DEF KeptList
<1> QED BY <1>1, <1>2, <1>3 DEF KeptList

LEMMA KeptNewest ==
    ASSUME NEW list, KeptList(list)
    PROVE  KeptList(Ocr!Newest(list)) /\ Elements(Ocr!Newest(list)) \subseteq Elements(list)
<1> DEFINE from == IF Len(list) > MaxEntries THEN Len(list) - MaxEntries + 1 ELSE 1
           S == [image : Images, until : Nat]
<1>1. list \in Seq(S) /\ Len(list) \in Nat /\ \A n \in 1..Len(list) : list[n] \in S
  BY LenProperties, ElementOfSeq DEF KeptList
<1>2. from \in Nat /\ from >= 1
  BY <1>1, OcrConstants
<1>3. Ocr!Newest(list) = SubSeq(list, from, Len(list))
  BY DEF Ocr!Newest
<1> HIDE DEF from, S
<1>4. \A n \in from..Len(list) : list[n] \in S
  BY <1>1, <1>2
<1>5. /\ SubSeq(list, from, Len(list)) \in Seq(S)
      /\ Len(SubSeq(list, from, Len(list))) = IF from <= Len(list) THEN Len(list) - from + 1 ELSE 0
      /\ \A n \in 1..Len(list) - from + 1 : SubSeq(list, from, Len(list))[n] = list[from + n - 1]
  BY <1>1, <1>2, <1>4, SubSeqProperties
<1>6. ASSUME NEW n \in 1..Len(SubSeq(list, from, Len(list))) PROVE SubSeq(list, from, Len(list))[n] \in Elements(list)
  <2>1. n \in 1..Len(list) - from + 1 /\ from + n - 1 \in 1..Len(list)
    BY <1>1, <1>2, <1>5
  <2> QED BY <1>5, <2>1 DEF Elements
<1>7. Elements(SubSeq(list, from, Len(list))) \subseteq Elements(list)
  BY <1>6 DEF Elements
<1> QED BY <1>3, <1>5, <1>7 DEF KeptList, S

LEMMA KeptOnAnswer ==
    ASSUME KeptList(kept), ocrNow \in Nat, NEW i \in Images
    PROVE  /\ KeptList(Ocr!Keep(i))
           /\ \A k \in Elements(Ocr!Keep(i)) : k \in Elements(kept) \/ k.image = i
<1> DEFINE new == [image |-> i, until |-> ocrNow + Ttl]
           less == Ocr!Without(kept, i)
<1>1. new \in [image : Images, until : Nat] /\ new.image = i
  BY OcrConstants
<1>2. KeptList(less) /\ Elements(less) \subseteq Elements(kept)
  BY KeptWithout
<1>3. Ocr!Keep(i) = Ocr!Newest(Append(less, new))
  BY DEF Ocr!Keep
<1> HIDE DEF new, less
<1>4. KeptList(Append(less, new)) /\ Elements(Append(less, new)) = Elements(less) \cup {new}
  BY <1>1, <1>2, KeptAppended
<1>5. /\ KeptList(Ocr!Newest(Append(less, new)))
      /\ Elements(Ocr!Newest(Append(less, new))) \subseteq Elements(Append(less, new))
  BY <1>4, KeptNewest
<1> QED BY <1>1, <1>2, <1>3, <1>4, <1>5

LEMMA KeptOnAsk ==
    ASSUME KeptList(kept), NEW i \in Images, Ocr!IsKept(i)
    PROVE  /\ KeptList(Append(Ocr!Without(kept, i), Ocr!KeptOf(i)))
           /\ Elements(Append(Ocr!Without(kept, i), Ocr!KeptOf(i))) \subseteq Elements(kept)
<1> DEFINE less == Ocr!Without(kept, i)
           k == Ocr!KeptOf(i)
<1>1. kept \in Seq([image : Images, until : Nat]) /\ DOMAIN kept = 1..Len(kept)
  BY LenProperties DEF KeptList
<1>2. \E n \in DOMAIN kept : kept[n].image = i
  BY DEF Ocr!IsKept
<1>3. k \in Elements(kept)
  BY <1>1, <1>2 DEF Ocr!KeptOf, Elements
<1>4. k \in [image : Images, until : Nat]
  BY <1>1, <1>3, ElementsOfPart
<1>5. KeptList(less) /\ Elements(less) \subseteq Elements(kept)
  BY KeptWithout
<1> HIDE DEF less, k
<1>6. KeptList(Append(less, k)) /\ Elements(Append(less, k)) = Elements(less) \cup {k}
  BY <1>4, <1>5, KeptAppended
<1> QED BY <1>3, <1>5, <1>6 DEF less, k

-----------------------------------------------------------------------------
(* What the limiters hold is where the readings are. *)

InHand ==
    /\ at \in [Callers -> Ocr!Places]
    /\ cloud \in Ocr!Limiters(Callers) /\ local \in Ocr!Limiters(Callers)
    /\ Sound(cloud) /\ Sound(local)
    /\ \A j \in Callers : j \in Tasks(cloud) <=> at[j] = "cloud"
    /\ \A j \in Callers : j \in Tasks(local) <=> at[j] \in {"local", "left"}

\* The tables of the callers and of what is read.
Tables ==
    /\ wants \in [Callers -> Ocr!Wishes \cup {<<>>}]
    /\ waitsFor \in [Callers -> Callers \cup {None}]
    /\ KeptList(kept)
    /\ inFlight \in [Images -> Callers \cup {None}]
    /\ startedAt \in [Callers -> Nat] /\ skipUntil \in Nat /\ failedAt \in Nat
    /\ ocrNow \in 1..MaxOcrTime

OcrShape == InHand /\ Tables /\ Quiet /\ InTable /\ ReadOnce

LEMMA ShapeIsInv == OcrShape <=> OcrInv
<1>1. ASSUME InHand, Tables PROVE Ocr!TypeOK /\ Sound(cloud) /\ Sound(local)
  BY <1>1 DEF InHand, Tables, Tasks, KeptList, Ocr!TypeOK
<1>2. ASSUME Ocr!TypeOK, Sound(cloud), Sound(local) PROVE InHand /\ Tables
  BY <1>2 DEF InHand, Tables, Tasks, KeptList, Ocr!TypeOK
<1> QED BY <1>1, <1>2 DEF OcrShape, OcrInv

LEMMA InHandNext ==
    ASSUME at' \in [Callers -> Ocr!Places],
           cloud' \in Ocr!Limiters(Callers), local' \in Ocr!Limiters(Callers), Sound(cloud'), Sound(local'),
           \A j \in Callers : j \in Tasks(cloud') <=> at'[j] = "cloud",
           \A j \in Callers : j \in Tasks(local') <=> at'[j] \in {"local", "left"}
    PROVE  InHand'
BY DEF InHand

LEMMA HandsOnAsk ==
    ASSUME InHand, NEW c \in Callers, at[c] = "none", NEW p \in Ocr!Priorities, Ocr!StartReading(c, p), local' = local
    PROVE  InHand' /\ \E place \in {"sent", "cloud"} : at' = [at EXCEPT ![c] = place]
<1>1. /\ at \in [Callers -> Ocr!Places]
      /\ cloud \in Ocr!Limiters(Callers) /\ local \in Ocr!Limiters(Callers) /\ Sound(cloud) /\ Sound(local)
      /\ \A j \in Callers : j \in Tasks(cloud) <=> at[j] = "cloud"
      /\ \A j \in Callers : j \in Tasks(local) <=> at[j] \in {"local", "left"}
  BY DEF InHand
<1>2. {"sent", "cloud"} \subseteq Ocr!Places
  BY DEF Ocr!Places
<1>3. CASE at' = [at EXCEPT ![c] = "sent"] /\ cloud' = cloud
  <2>1. \A j \in Callers : (at'[j] = "cloud") = (at[j] = "cloud") /\ (at'[j] \in {"local", "left"}) = (at[j] \in {"local", "left"})
    BY <1>1, <1>3
  <2> QED BY <1>1, <1>2, <1>3, <2>1, InHandNext
<1>4. CASE at' = [at EXCEPT ![c] = "cloud"] /\ cloud' = Ocr!Push(cloud, CloudSlots, c, p)
  <2>1. c \notin Tasks(cloud)
    BY <1>1
  <2>2. cloud' \in Ocr!Limiters(Callers) /\ Sound(cloud') /\ Tasks(cloud') = Tasks(cloud) \cup {c}
    BY <1>1, <1>4, <2>1, Pushed, OcrConstants
  <2>3. at' \in [Callers -> Ocr!Places]
    BY <1>1, <1>2, <1>4
  <2>4. \A j \in Callers : (j \in Tasks(cloud') <=> at'[j] = "cloud") /\ (j \in Tasks(local') <=> at'[j] \in {"local", "left"})
    BY <1>1, <1>4, <2>2
  <2>5. InHand'
    BY <1>1, <2>2, <2>3, <2>4, InHandNext
  <2> QED BY <1>4, <2>5
<1> QED BY <1>3, <1>4 DEF Ocr!StartReading

LEMMA HandsOnFree ==
    ASSUME InHand, NEW j \in cloud.running, NEW place \in {"over", "sent"}, NEW until, Ocr!FreeCloud(j, place, until), local' = local
    PROVE  /\ InHand' /\ j \in Callers /\ at[j] = "cloud" /\ at'[j] = place
           /\ \A c \in Callers : c # j => at'[c] = at[c] \/ (at[c] = "cloud" /\ at'[c] = "sent")
<1>1. /\ at \in [Callers -> Ocr!Places]
      /\ cloud \in Ocr!Limiters(Callers) /\ local \in Ocr!Limiters(Callers) /\ Sound(cloud) /\ Sound(local)
      /\ \A c \in Callers : c \in Tasks(cloud) <=> at[c] = "cloud"
      /\ \A c \in Callers : c \in Tasks(local) <=> at[c] \in {"local", "left"}
  BY DEF InHand
<1>2. cloud.running \subseteq Callers /\ Tasks(cloud) = cloud.running \cup Ocr!InQueue(cloud)
  BY <1>1 DEF Ocr!Limiters, Tasks
<1>3. IsFiniteSet(cloud.running) /\ cloud.running \cap Ocr!InQueue(cloud) = {}
  BY <1>1 DEF Sound
<1>4. j \in Callers /\ at[j] = "cloud" /\ j \notin Ocr!InQueue(cloud)
  BY <1>1, <1>2, <1>3
<1>5. CASE Ocr!CloudOpen(until)
  <2>1. cloud' = Ocr!Release(cloud, CloudSlots, j) /\ at' = [c \in Callers |-> IF c = j THEN place ELSE at[c]]
    BY <1>5 DEF Ocr!FreeCloud
  <2>2. cloud' \in Ocr!Limiters(Callers) /\ Sound(cloud') /\ Tasks(cloud') = Tasks(cloud) \ {j}
    BY <1>1, <2>1, Released, OcrConstants
  <2>3. at' \in [Callers -> Ocr!Places]
    BY <1>1, <2>1 DEF Ocr!Places
  <2>4. \A c \in Callers : (c \in Tasks(cloud') <=> at'[c] = "cloud") /\ (c \in Tasks(local') <=> at'[c] \in {"local", "left"})
    BY <1>1, <1>4, <2>1, <2>2
  <2>5. InHand'
    BY <1>1, <2>2, <2>3, <2>4, InHandNext
  <2> QED BY <1>4, <2>1, <2>5
<1>6. CASE ~Ocr!CloudOpen(until)
  <2>1. /\ cloud' = [Ocr!EmptyLimiter EXCEPT !.running = cloud.running \ {j}]
        /\ at' = [c \in Callers |-> IF c = j THEN place ELSE IF c \in Ocr!InQueue(cloud) THEN "sent" ELSE at[c]]
    BY <1>6 DEF Ocr!FreeCloud
  <2>2. IsFiniteSet(cloud.running \ {j}) /\ cloud.running \ {j} \in SUBSET Callers
    BY <1>2, <1>3, FS_RemoveElement
  <2>3. cloud' \in Ocr!Limiters(Callers) /\ Sound(cloud') /\ Tasks(cloud') = cloud.running \ {j}
    BY <2>1, <2>2, GivenWay
  <2>4. at' \in [Callers -> Ocr!Places]
    BY <1>1, <2>1 DEF Ocr!Places
  <2>5. \A c \in Callers : c \in Ocr!InQueue(cloud) => at[c] = "cloud" /\ at'[c] = "sent" /\ c \notin cloud.running
    BY <1>1, <1>2, <1>3, <1>4, <2>1
  <2>6. \A c \in Callers : c \notin Ocr!InQueue(cloud) /\ c # j => at'[c] = at[c]
    BY <2>1
  <2>7. at'[j] = place
    BY <1>4, <2>1
  <2>8. \A c \in Callers : (c \in Tasks(cloud') <=> at'[c] = "cloud") /\ (c \in Tasks(local') <=> at'[c] \in {"local", "left"})
    BY <1>1, <1>2, <1>4, <2>3, <2>5, <2>6, <2>7
  <2>9. InHand'
    BY <1>1, <2>3, <2>4, <2>8, InHandNext
  <2> QED BY <1>4, <2>5, <2>6, <2>7, <2>9
<1> QED BY <1>5, <1>6

\* The service's limiter, where Cloud Vision's is left as it is.
LEMMA HandsOnLocal ==
    ASSUME InHand, NEW j \in Callers, NEW place \in Ocr!Places \ {"cloud"}, at[j] # "cloud",
           at' = [at EXCEPT ![j] = place], cloud' = cloud,
           local' \in Ocr!Limiters(Callers), Sound(local'),
           Tasks(local') = IF place \in {"local", "left"} THEN Tasks(local) \cup {j} ELSE Tasks(local) \ {j}
    PROVE  InHand'
<1>1. /\ at \in [Callers -> Ocr!Places]
      /\ cloud \in Ocr!Limiters(Callers) /\ Sound(cloud)
      /\ \A c \in Callers : c \in Tasks(cloud) <=> at[c] = "cloud"
      /\ \A c \in Callers : c \in Tasks(local) <=> at[c] \in {"local", "left"}
  BY DEF InHand
<1>2. at' \in [Callers -> Ocr!Places]
  BY <1>1
<1>3. \A c \in Callers : (c \in Tasks(cloud') <=> at'[c] = "cloud") /\ (c \in Tasks(local') <=> at'[c] \in {"local", "left"})
  BY <1>1
<1> QED BY <1>1, <1>2, <1>3, InHandNext

LEMMA HandsOnReceive ==
    ASSUME InHand, Tables, Quiet, NEW j \in Callers, Ocr!Receive(j)
    PROVE  InHand' /\ at[j] = "sent" /\ at' = [at EXCEPT ![j] = "local"]
<1>1. /\ at[j] = "sent" /\ at' = [at EXCEPT ![j] = "local"] /\ cloud' = cloud
      /\ local' = Ocr!Push(local, LocalSlots, j, wants[j].priority)
  BY DEF Ocr!Receive, Ocr!LocalOnly
<1>2. local \in Ocr!Limiters(Callers) /\ Sound(local) /\ j \notin Tasks(local)
  BY <1>1 DEF InHand
<1>3. wants[j].priority \in Ocr!Priorities
  <2>1. wants[j] \in Ocr!Wishes
    BY <1>1 DEF Quiet, Tables
  <2> QED BY <2>1 DEF Ocr!Wishes
<1>4. local' \in Ocr!Limiters(Callers) /\ Sound(local') /\ Tasks(local') = Tasks(local) \cup {j}
  BY <1>1, <1>2, <1>3, Pushed, OcrConstants
<1> QED BY <1>1, <1>4, HandsOnLocal DEF Ocr!Places

LEMMA HandsOnGiveUp ==
    ASSUME InHand, NEW j \in Callers, Ocr!GiveUp(j)
    PROVE  InHand' /\ at[j] \in {"sent", "local", "lost"} /\ at' = [at EXCEPT ![j] = IF at[j] = "local" THEN "left" ELSE "over"]
<1>1. /\ at[j] \in {"sent", "local", "lost"} /\ at' = [at EXCEPT ![j] = IF at[j] = "local" THEN "left" ELSE "over"]
      /\ cloud' = cloud /\ local' = local
  BY DEF Ocr!GiveUp, Ocr!LocalOnly
<1>2. local \in Ocr!Limiters(Callers) /\ Sound(local) /\ (j \in Tasks(local) <=> at[j] \in {"local", "left"})
  BY DEF InHand
<1>3. (IF at[j] = "local" THEN "left" ELSE "over") \in Ocr!Places \ {"cloud"}
  BY DEF Ocr!Places
<1> QED BY <1>1, <1>2, <1>3, HandsOnLocal

LEMMA HandsOnHangUp ==
    ASSUME InHand, NEW j \in Callers, Ocr!HangUp(j)
    PROVE  InHand' /\ at[j] = "left" /\ at' = [at EXCEPT ![j] = "over"]
<1>1. /\ at[j] = "left" /\ at' = [at EXCEPT ![j] = "over"] /\ cloud' = cloud
      /\ j \in Ocr!InQueue(local) /\ local' = Ocr!Withdraw(local, j)
  BY DEF Ocr!HangUp, Ocr!LocalOnly
<1>2. local' \in Ocr!Limiters(Callers) /\ Sound(local') /\ Tasks(local') = Tasks(local) \ {j}
  BY <1>1, Withdrawn DEF InHand
<1> QED BY <1>1, <1>2, HandsOnLocal DEF Ocr!Places

LEMMA HandsOnLocalEnds ==
    ASSUME InHand, NEW j \in Callers, NEW read \in BOOLEAN, Ocr!LocalEnds(j, read)
    PROVE  InHand' /\ at[j] \in {"local", "left"} /\ at' = [at EXCEPT ![j] = "over"]
<1>1. j \in local.running /\ at' = [at EXCEPT ![j] = "over"] /\ cloud' = cloud /\ local' = Ocr!Release(local, LocalSlots, j)
  BY DEF Ocr!LocalEnds, Ocr!LocalOnly
<1>2. local' \in Ocr!Limiters(Callers) /\ Sound(local') /\ Tasks(local') = Tasks(local) \ {j}
  BY <1>1, Released, OcrConstants DEF InHand
<1>3. at[j] \in {"local", "left"}
  BY <1>1 DEF InHand, Tasks
<1> QED BY <1>1, <1>2, <1>3, HandsOnLocal DEF Ocr!Places

LEMMA HandsOnRestart ==
    ASSUME InHand, Ocr!Restart
    PROVE  /\ InHand'
           /\ at' = [c \in Callers |-> CASE at[c] = "local" -> "lost" [] at[c] = "left" -> "over" [] OTHER -> at[c]]
<1>1. /\ at' = [c \in Callers |-> CASE at[c] = "local" -> "lost" [] at[c] = "left" -> "over" [] OTHER -> at[c]]
      /\ local' = Ocr!EmptyLimiter /\ cloud' = cloud
  BY DEF Ocr!Restart, Ocr!LocalOnly
<1>2. /\ at \in [Callers -> Ocr!Places]
      /\ cloud \in Ocr!Limiters(Callers) /\ Sound(cloud)
      /\ \A c \in Callers : c \in Tasks(cloud) <=> at[c] = "cloud"
  BY DEF InHand
<1>3. at' \in [Callers -> Ocr!Places]
  BY <1>1, <1>2 DEF Ocr!Places
<1>4. \A c \in Callers : (at'[c] = "cloud") = (at[c] = "cloud") /\ at'[c] \notin {"local", "left"}
  BY <1>1
<1> QED BY <1>1, <1>2, <1>3, <1>4, InHandNext, EmptyIsSound

-----------------------------------------------------------------------------
(* What the tables say of the readings under way.                          *)

OneReading ==
    /\ \A j \in Callers : at[j] \in Ocr!UnderWay => inFlight[wants[j].image] = j
    /\ \A c \in Callers : waitsFor[c] # None => at[waitsFor[c]] \in Ocr!UnderWay /\ inFlight[wants[c].image] = waitsFor[c]
    /\ \A i \in Images : inFlight[i] # None => at[inFlight[i]] \in Ocr!UnderWay

NotKept == \A i \in Images : inFlight[i] # None => ~Ocr!IsKept(i)

Books == Quiet /\ InTable /\ OneReading /\ NotKept

LEMMA ReadOnceIs == ReadOnce <=> OneReading /\ NotKept
BY DEF ReadOnce, Ocr!ReadOnce, OneReading, NotKept

LEMMA Asked ==
    ASSUME Tables, NEW c \in Callers, wants[c] # <<>>
    PROVE  wants[c].image \in Images
<1>1. wants[c] \in Ocr!Wishes
  BY DEF Tables
<1> QED BY <1>1 DEF Ocr!Wishes

\* A reading goes on somewhere else, or one that nobody waits for ends.
LEMMA BooksOnMove ==
    ASSUME Tables, Books, UNCHANGED <<wants, waitsFor, inFlight, kept>>,
           ocrNow' \in Nat, ocrNow <= ocrNow',
           \A j \in Callers : /\ at'[j] \in Ocr!UnderWay <=> at[j] \in Ocr!UnderWay
                              /\ at'[j] = "none" <=> at[j] = "none"
    PROVE  Books'
<1>1. waitsFor \in [Callers -> Callers \cup {None}] /\ inFlight \in [Images -> Callers \cup {None}]
  BY DEF Tables
<1>2. Quiet'
  BY DEF Quiet, Books
<1>3. InTable'
  BY DEF InTable, Books
<1>4. OneReading'
  BY <1>1 DEF OneReading, Books
<1>5. KeptList(kept) /\ KeptList(kept') /\ ocrNow \in Nat
  BY DEF Tables
<1>6. NotKept'
  BY <1>5, KeptStill DEF NotKept, Books
<1> QED BY <1>2, <1>3, <1>4, <1>6 DEF Books

\* Everyone who waits for a reading is answered as it ends.
LEMMA BooksOnAnswer ==
    ASSUME Tables, Books, NEW j \in Callers, at[j] \in Ocr!UnderWay, NEW read \in BOOLEAN, Ocr!Answer(j, read),
           wants' = wants, ocrNow' = ocrNow,
           at'[j] \notin Ocr!UnderWay, at'[j] # "none",
           \A c \in Callers : c # j => (at'[c] = at[c] \/ (at[c] \in Ocr!UnderWay /\ at'[c] \in Ocr!UnderWay))
    PROVE  /\ Books' /\ KeptList(kept')
           /\ waitsFor' \in [Callers -> Callers \cup {None}] /\ inFlight' \in [Images -> Callers \cup {None}]
<1> DEFINE i == wants[j].image
<1>1. /\ waitsFor \in [Callers -> Callers \cup {None}] /\ inFlight \in [Images -> Callers \cup {None}]
      /\ KeptList(kept) /\ ocrNow \in Nat
  BY DEF Tables
<1>2. /\ waitsFor' = [c \in Callers |-> IF waitsFor[c] = j THEN None ELSE waitsFor[c]]
      /\ inFlight' = [inFlight EXCEPT ![i] = None]
      /\ kept' = IF read THEN Ocr!Keep(i) ELSE kept
  BY DEF Ocr!Answer, Ocr!FlightOver
<1>3. wants[j] # <<>>
  BY DEF Books, Quiet, Ocr!UnderWay
<1>4. i \in Images /\ inFlight[i] = j
  BY <1>3, Asked DEF Books, OneReading
<1>5. KeptList(kept')
  BY <1>1, <1>2, <1>4, KeptOnAnswer
<1>6. waitsFor' \in [Callers -> Callers \cup {None}] /\ inFlight' \in [Images -> Callers \cup {None}]
  BY <1>1, <1>2
<1>7. "none" \notin Ocr!UnderWay
  BY DEF Ocr!UnderWay
<1>8. \A c \in Callers : c # j => (at'[c] \in Ocr!UnderWay <=> at[c] \in Ocr!UnderWay) /\ (at'[c] = "none" <=> at[c] = "none")
  BY <1>7
<1> HIDE DEF i
<1>9. Quiet'
  BY <1>2, <1>3, <1>8, OcrConstants DEF Quiet, Books
<1>10. InTable'
  BY <1>1, <1>2 DEF InTable, Books
<1>11. \A c \in Callers : at[c] \in Ocr!UnderWay => wants[c].image \in Images /\ inFlight[wants[c].image] = c
  <2>1. ASSUME NEW c \in Callers, at[c] \in Ocr!UnderWay PROVE wants[c] # <<>>
    BY <1>7, <2>1 DEF Books, Quiet
  <2> QED BY <2>1, Asked DEF Books, OneReading
<1>12. ASSUME NEW c \in Callers, at'[c] \in Ocr!UnderWay PROVE inFlight'[wants'[c].image] = c
  <2>1. c # j /\ at[c] \in Ocr!UnderWay
    BY <1>8, <1>12
  <2>2. wants[c].image \in Images /\ inFlight[wants[c].image] = c /\ wants[c].image # i
    BY <1>4, <1>11, <2>1
  <2> QED BY <1>1, <1>2, <2>2
<1>13. ASSUME NEW c \in Callers, waitsFor'[c] # None
       PROVE  at'[waitsFor'[c]] \in Ocr!UnderWay /\ inFlight'[wants'[c].image] = waitsFor'[c]
  <2>1. waitsFor'[c] = waitsFor[c] /\ waitsFor[c] # None /\ waitsFor[c] # j
    BY <1>2, <1>13
  <2>2. waitsFor[c] \in Callers /\ at[waitsFor[c]] \in Ocr!UnderWay /\ inFlight[wants[c].image] = waitsFor[c]
    BY <1>1, <2>1 DEF Books, OneReading
  <2>3. wants[c] # <<>>
    BY <2>1 DEF Books, Quiet
  <2>4. wants[c].image \in Images /\ wants[c].image # i
    BY <1>4, <2>1, <2>2, <2>3, Asked
  <2>5. at'[waitsFor[c]] \in Ocr!UnderWay
    BY <1>8, <2>1, <2>2
  <2> QED BY <1>1, <1>2, <2>1, <2>2, <2>4, <2>5
<1>14. ASSUME NEW n \in Images, inFlight'[n] # None PROVE at'[inFlight'[n]] \in Ocr!UnderWay /\ n # i
  <2>1. n # i /\ inFlight'[n] = inFlight[n]
    BY <1>1, <1>2, <1>4, <1>14
  <2>2. inFlight[n] \in Callers /\ at[inFlight[n]] \in Ocr!UnderWay /\ wants[inFlight[n]].image = n
    BY <1>1, <1>14, <2>1 DEF Books, OneReading, InTable
  <2>3. inFlight[n] # j
    BY <2>1, <2>2 DEF i
  <2> QED BY <1>8, <2>1, <2>2, <2>3
<1>15. OneReading'
  BY <1>12, <1>13, <1>14 DEF OneReading
<1>16. ASSUME NEW n \in Images, inFlight'[n] # None PROVE ~Ocr!IsKept(n)'
  <2>1. n # i /\ inFlight[n] # None
    BY <1>1, <1>2, <1>4, <1>14, <1>16
  <2>2. ~Ocr!IsKept(n)
    BY <2>1 DEF Books, NotKept
  <2>3. \A k \in Elements(kept') : k \in Elements(kept) \/ k.image = i
    BY <1>1, <1>2, <1>4, KeptOnAnswer
  <2> QED BY <1>1, <1>5, <2>1, <2>2, <2>3, KeptIs, KeptIsNext
<1>17. NotKept'
  BY <1>16 DEF NotKept
<1> QED BY <1>5, <1>6, <1>9, <1>10, <1>15, <1>17 DEF Books

\* Who asks gets what is kept, shares the reading under way, or starts the one reading.
LEMMA BooksOnAsk ==
    ASSUME InHand, Tables, Books, NEW c \in Callers, NEW i \in Images, NEW p \in Ocr!Priorities, Ocr!Ask(c, i, p)
    PROVE  InHand' /\ Tables' /\ Books'
<1>1. /\ wants \in [Callers -> Ocr!Wishes \cup {<<>>}]
      /\ waitsFor \in [Callers -> Callers \cup {None}] /\ inFlight \in [Images -> Callers \cup {None}]
      /\ startedAt \in [Callers -> Nat] /\ KeptList(kept) /\ ocrNow \in 1..MaxOcrTime
  BY DEF Tables
<1>2. /\ wants[c] = <<>> /\ wants' = [wants EXCEPT ![c] = [image |-> i, priority |-> p]]
      /\ ocrNow' = ocrNow /\ skipUntil' = skipUntil /\ failedAt' = failedAt /\ local' = local
  BY DEF Ocr!Ask
<1>3. at[c] = "none" /\ waitsFor[c] = None
  BY <1>2 DEF Books, Quiet
<1>4. [image |-> i, priority |-> p] \in Ocr!Wishes /\ [image |-> i, priority |-> p] # <<>>
  BY DEF Ocr!Wishes
<1>5. wants' \in [Callers -> Ocr!Wishes \cup {<<>>}] /\ wants'[c] # <<>> /\ wants'[c].image = i
  BY <1>1, <1>2, <1>4
<1>6. \A d \in Callers : d # c => wants'[d] = wants[d]
  BY <1>1, <1>2
<1>7. ocrNow \in Nat
  BY <1>1, OcrConstants
<1>8. "none" \notin Ocr!UnderWay
  BY DEF Ocr!UnderWay
<1>9. \A n \in Images : inFlight[n] # None =>
        /\ inFlight[n] \in Callers /\ inFlight[n] # c /\ at[inFlight[n]] \in Ocr!UnderWay /\ wants[inFlight[n]] # <<>>
        /\ wants[inFlight[n]].image = n /\ ~Ocr!IsKept(n)
  BY <1>1, <1>2 DEF Books, InTable, OneReading, NotKept
<1>10. \A d \in Callers : at[d] \in Ocr!UnderWay => inFlight[wants[d].image] = d
  BY DEF Books, OneReading
<1>11. \A d \in Callers : waitsFor[d] # None =>
        waitsFor[d] \in Callers /\ waitsFor[d] # c /\ at[waitsFor[d]] \in Ocr!UnderWay /\ inFlight[wants[d].image] = waitsFor[d]
  BY <1>1, <1>3, <1>8 DEF Books, OneReading
<1>12. \A d \in Callers : wants'[d] = <<>> => d # c /\ at[d] = "none" /\ waitsFor[d] = None
  BY <1>5, <1>6 DEF Books, Quiet
\* Of what is kept, nothing comes back.
<1>13. KeptList(kept') /\ Elements(kept') \subseteq Elements(kept)
  <2>1. CASE Ocr!IsKept(i) /\ kept' = Append(Ocr!Without(kept, i), Ocr!KeptOf(i))
    BY <1>1, <2>1, KeptOnAsk
  <2>2. CASE kept' = Ocr!Without(kept, i)
    BY <1>1, <2>2, KeptWithout
  <2> QED BY <2>1, <2>2 DEF Ocr!Ask, Ocr!AskKept, Ocr!AskShared, Ocr!AskNew
<1>14. \A n \in Images : Ocr!IsKept(n)' => Ocr!IsKept(n)
  BY <1>1, <1>2, <1>7, <1>13, KeptStill
<1>15. ASSUME waitsFor' = waitsFor \/ (inFlight[i] # None /\ waitsFor' = [waitsFor EXCEPT ![c] = inFlight[i]]),
              UNCHANGED <<inFlight, at, startedAt, cloud>>
       PROVE  InHand' /\ Tables' /\ Books'
  <2>1. InHand'
    BY <1>2, <1>15, InHandNext DEF InHand
  <2>2. waitsFor' \in [Callers -> Callers \cup {None}]
    BY <1>1, <1>15
  <2>3. Tables'
    BY <1>1, <1>2, <1>5, <1>13, <1>15, <2>2 DEF Tables
  <2>4. \A d \in Callers : waitsFor'[d] # None => (d # c /\ waitsFor'[d] = waitsFor[d]) \/ (d = c /\ waitsFor'[d] = inFlight[i] /\ inFlight[i] # None)
    BY <1>1, <1>3, <1>15
  <2>5. Quiet'
    <3>1. \A d \in Callers : d # c => waitsFor'[d] = waitsFor[d]
      BY <1>1, <1>15
    <3> QED BY <1>12, <1>15, <3>1 DEF Quiet
  <2>6. InTable'
    BY <1>6, <1>9, <1>15 DEF InTable
  <2>7. OneReading'
    <3>1. \A d \in Callers : at'[d] \in Ocr!UnderWay => inFlight'[wants'[d].image] = d
      BY <1>3, <1>6, <1>8, <1>10, <1>15
    <3>2. ASSUME NEW d \in Callers, waitsFor'[d] # None
          PROVE  at'[waitsFor'[d]] \in Ocr!UnderWay /\ inFlight'[wants'[d].image] = waitsFor'[d]
      <4>1. CASE d # c /\ waitsFor'[d] = waitsFor[d]
        BY <1>6, <1>11, <1>15, <3>2, <4>1
      <4>2. CASE d = c /\ waitsFor'[d] = inFlight[i] /\ inFlight[i] # None
        BY <1>5, <1>9, <1>15, <4>2
      <4> QED BY <2>4, <3>2, <4>1, <4>2
    <3>3. \A n \in Images : inFlight'[n] # None => at'[inFlight'[n]] \in Ocr!UnderWay
      BY <1>9, <1>15
    <3> QED BY <3>1, <3>2, <3>3 DEF OneReading
  <2>8. NotKept'
    BY <1>9, <1>14, <1>15 DEF NotKept
  <2> QED BY <2>1, <2>3, <2>5, <2>6, <2>7, <2>8 DEF Books
<1>16. CASE Ocr!AskKept(c, i)
  BY <1>15, <1>16 DEF Ocr!AskKept
<1>17. CASE Ocr!AskShared(c, i)
  BY <1>15, <1>17 DEF Ocr!AskShared
<1>18. CASE Ocr!AskNew(c, i, p)
  <2>1. /\ ~Ocr!IsKept(i) /\ inFlight[i] = None
        /\ inFlight' = [inFlight EXCEPT ![i] = c] /\ waitsFor' = [waitsFor EXCEPT ![c] = c]
        /\ Ocr!StartReading(c, p)
    BY <1>18 DEF Ocr!AskNew
  <2>2. InHand' /\ \E place \in {"sent", "cloud"} : at' = [at EXCEPT ![c] = place]
    BY <1>2, <1>3, <2>1, HandsOnAsk
  <2>3. at \in [Callers -> Ocr!Places] /\ {"sent", "cloud"} \subseteq Ocr!UnderWay
    BY DEF InHand, Ocr!UnderWay
  <2>4. at'[c] \in Ocr!UnderWay /\ \A d \in Callers : d # c => at'[d] = at[d]
    BY <2>2, <2>3
  <2>5. startedAt' \in [Callers -> Nat]
    BY <1>1, <1>7, <2>1 DEF Ocr!StartReading
  <2>6. Tables'
    BY <1>1, <1>2, <1>5, <1>13, <2>1, <2>5 DEF Tables
  <2>7. c # None
    BY OcrConstants
  <2>8. \A n \in Images : inFlight'[n] = IF n = i THEN c ELSE inFlight[n]
    BY <1>1, <2>1
  <2>9. \A d \in Callers : waitsFor'[d] = IF d = c THEN c ELSE waitsFor[d]
    BY <1>1, <2>1
  <2>10. Quiet'
    BY <1>12, <2>4, <2>9 DEF Quiet
  <2>11. InTable'
    BY <1>5, <1>6, <1>9, <2>8 DEF InTable
  <2>12. \A d \in Callers : at[d] \in Ocr!UnderWay => wants[d].image \in Images /\ wants[d].image # i
    <3>1. \A d \in Callers : at[d] \in Ocr!UnderWay => wants[d] # <<>>
      BY <1>8 DEF Books, Quiet
    <3>2. \A d \in Callers : at[d] \in Ocr!UnderWay => d # None
      BY OcrConstants
    <3> QED BY <1>10, <2>1, <3>1, <3>2, Asked
  <2>13. \A d \in Callers : at'[d] \in Ocr!UnderWay => inFlight'[wants'[d].image] = d
    BY <1>5, <1>6, <1>10, <2>4, <2>8, <2>12
  <2>14. ASSUME NEW d \in Callers, waitsFor'[d] # None
         PROVE  at'[waitsFor'[d]] \in Ocr!UnderWay /\ inFlight'[wants'[d].image] = waitsFor'[d]
    <3>1. CASE d = c
      BY <1>5, <2>4, <2>8, <2>9, <3>1
    <3>2. CASE d # c
      <4>1. /\ waitsFor'[d] = waitsFor[d] /\ waitsFor[d] # None /\ waitsFor[d] \in Callers /\ waitsFor[d] # c
            /\ at[waitsFor[d]] \in Ocr!UnderWay /\ inFlight[wants[d].image] = waitsFor[d] /\ wants'[d] = wants[d]
        BY <1>6, <1>11, <2>9, <2>14, <3>2
      <4>2. wants[d] # <<>>
        BY <4>1 DEF Books, Quiet
      <4>3. wants[d].image \in Images /\ wants[d].image # i
        BY <2>1, <4>1, <4>2, Asked
      <4> QED BY <2>4, <2>8, <4>1, <4>3
    <3> QED BY <3>1, <3>2
  <2>15. \A n \in Images : inFlight'[n] # None => at'[inFlight'[n]] \in Ocr!UnderWay
    BY <1>9, <2>4, <2>8
  <2>16. OneReading'
    BY <2>13, <2>14, <2>15 DEF OneReading
  <2>17. NotKept'
    BY <1>9, <1>14, <2>1, <2>8 DEF NotKept
  <2> QED BY <2>2, <2>6, <2>10, <2>11, <2>16, <2>17 DEF Books
<1> QED BY <1>16, <1>17, <1>18 DEF Ocr!Ask

OcrState == InHand /\ Tables /\ Books

LEMMA OcrStateIs == OcrState <=> OcrInv
BY ShapeIsInv, ReadOnceIs DEF OcrState, OcrShape, Books

LEMMA TablesNext ==
    ASSUME Tables, wants' = wants, KeptList(kept'), waitsFor' \in [Callers -> Callers \cup {None}],
           inFlight' \in [Images -> Callers \cup {None}], startedAt' = startedAt,
           skipUntil' \in Nat, failedAt' \in Nat, ocrNow' \in 1..MaxOcrTime
    PROVE  Tables'
BY DEF Tables

LEMMA OcrBegins == Ocr!Init => OcrState
<1> SUFFICES ASSUME Ocr!Init PROVE OcrState
  OBVIOUS
<1>1. /\ at = [c \in Callers |-> "none"] /\ cloud = Ocr!EmptyLimiter /\ local = Ocr!EmptyLimiter
      /\ wants = [c \in Callers |-> <<>>] /\ waitsFor = [c \in Callers |-> None] /\ kept = <<>>
      /\ inFlight = [i \in Images |-> None] /\ startedAt = [c \in Callers |-> 0]
      /\ skipUntil = 0 /\ failedAt = 0 /\ ocrNow = 1
  BY DEF Ocr!Init
<1>2. InHand
  BY <1>1, EmptyIsSound DEF InHand, Ocr!Places
<1>3. 1 \in 1..MaxOcrTime
  BY ServicesAssumption DEF Ocr!Assumption
<1>4. Tables
  BY <1>1, <1>3 DEF Tables, KeptList
<1>5. Quiet /\ InTable /\ OneReading /\ NotKept
  BY <1>1 DEF Quiet, InTable, OneReading, NotKept, Ocr!UnderWay
<1> QED BY <1>2, <1>4, <1>5 DEF OcrState, Books

LEMMA OcrInductive == OcrState /\ [Ocr!Next]_(Ocr!vars) => OcrState'
<1> SUFFICES ASSUME InHand, Tables, Books, [Ocr!Next]_(Ocr!vars)
             PROVE  InHand' /\ Tables' /\ Books'
  BY DEF OcrState
<1>1. /\ at \in [Callers -> Ocr!Places]
      /\ waitsFor \in [Callers -> Callers \cup {None}] /\ inFlight \in [Images -> Callers \cup {None}] /\ KeptList(kept)
      /\ ocrNow \in 1..MaxOcrTime /\ ocrNow \in Nat /\ skipUntil \in Nat /\ failedAt \in Nat /\ startedAt \in [Callers -> Nat]
  BY OcrConstants DEF InHand, Tables
<1>2. /\ {"sent", "local", "lost", "cloud"} \subseteq Ocr!UnderWay
      /\ "left" \notin Ocr!UnderWay /\ "over" \notin Ocr!UnderWay /\ "none" \notin Ocr!UnderWay
  BY DEF Ocr!UnderWay
<1>3. ASSUME NEW c \in Callers, NEW i \in Images, NEW p \in Ocr!Priorities, Ocr!Ask(c, i, p)
      PROVE  InHand' /\ Tables' /\ Books'
  BY <1>3, BooksOnAsk
<1>4. ASSUME NEW j \in Callers, Ocr!CloudReads(j) PROVE InHand' /\ Tables' /\ Books'
  <2>1. /\ j \in cloud.running /\ Ocr!FreeCloud(j, "over", Ocr!AfterRead(j)) /\ Ocr!Answer(j, TRUE)
        /\ skipUntil' = Ocr!AfterRead(j) /\ UNCHANGED <<ocrNow, wants, startedAt, failedAt, local>>
    BY <1>4 DEF Ocr!CloudReads
  <2>2. /\ InHand' /\ at[j] = "cloud" /\ at'[j] = "over"
        /\ \A c \in Callers : c # j => at'[c] = at[c] \/ (at[c] = "cloud" /\ at'[c] = "sent")
    BY <2>1, HandsOnFree
  <2>3. /\ Books' /\ KeptList(kept')
        /\ waitsFor' \in [Callers -> Callers \cup {None}] /\ inFlight' \in [Images -> Callers \cup {None}]
    BY <1>2, <2>1, <2>2, BooksOnAnswer
  <2>4. skipUntil' \in Nat
    BY <1>1, <2>1 DEF Ocr!AfterRead
  <2>5. Tables'
    BY <1>1, <2>1, <2>3, <2>4, TablesNext
  <2> QED BY <2>2, <2>3, <2>5
<1>5. ASSUME NEW j \in Callers, NEW until, j \in cloud.running, Ocr!FreeCloud(j, "sent", until),
             UNCHANGED <<ocrNow, wants, waitsFor, kept, inFlight, startedAt, local>>, skipUntil' \in Nat, failedAt' \in Nat
      PROVE  InHand' /\ Tables' /\ Books'
  <2>1. /\ InHand' /\ at[j] = "cloud" /\ at'[j] = "sent"
        /\ \A c \in Callers : c # j => at'[c] = at[c] \/ (at[c] = "cloud" /\ at'[c] = "sent")
    BY <1>5, HandsOnFree
  <2>2. Books'
    BY <1>1, <1>2, <1>5, <2>1, BooksOnMove
  <2>3. Tables'
    BY <1>1, <1>5, TablesNext
  <2> QED BY <2>1, <2>2, <2>3
<1>6. ASSUME NEW j \in Callers, Ocr!CloudFails(j) PROVE InHand' /\ Tables' /\ Books'
  <2>1. ocrNow + Cooldown \in Nat
    BY <1>1, OcrConstants
  <2> QED BY <1>1, <1>5, <1>6, <2>1 DEF Ocr!CloudFails
<1>7. ASSUME NEW j \in Callers, Ocr!CloudRefuses(j) PROVE InHand' /\ Tables' /\ Books'
  BY <1>1, <1>5, <1>7 DEF Ocr!CloudRefuses
\* What the service does leaves the clock and what is known of Cloud Vision alone.
<1>8. ASSUME NEW j \in Callers, Ocr!Receive(j) PROVE InHand' /\ Tables' /\ Books'
  <2>1. InHand' /\ at[j] = "sent" /\ at' = [at EXCEPT ![j] = "local"]
    BY <1>8, HandsOnReceive DEF Books
  <2>2. UNCHANGED <<ocrNow, wants, waitsFor, kept, inFlight, startedAt, skipUntil, failedAt>>
    BY <1>8 DEF Ocr!Receive, Ocr!LocalOnly
  <2>3. Books'
    BY <1>1, <1>2, <2>1, <2>2, BooksOnMove
  <2> QED BY <1>1, <2>1, <2>2, <2>3, TablesNext
<1>9. ASSUME NEW j \in Callers, Ocr!GiveUp(j) PROVE InHand' /\ Tables' /\ Books'
  <2>1. InHand' /\ at[j] \in {"sent", "local", "lost"} /\ at' = [at EXCEPT ![j] = IF at[j] = "local" THEN "left" ELSE "over"]
    BY <1>9, HandsOnGiveUp
  <2>2. Ocr!Answer(j, FALSE) /\ UNCHANGED <<ocrNow, wants, startedAt, skipUntil, failedAt>>
    BY <1>9 DEF Ocr!GiveUp, Ocr!LocalOnly
  <2>3. at[j] \in Ocr!UnderWay /\ at'[j] \notin Ocr!UnderWay /\ at'[j] # "none" /\ \A c \in Callers : c # j => at'[c] = at[c]
    BY <1>1, <1>2, <2>1
  <2>4. /\ Books' /\ KeptList(kept')
        /\ waitsFor' \in [Callers -> Callers \cup {None}] /\ inFlight' \in [Images -> Callers \cup {None}]
    BY <2>2, <2>3, BooksOnAnswer
  <2> QED BY <1>1, <2>1, <2>2, <2>4, TablesNext
<1>10. ASSUME NEW j \in Callers, Ocr!HangUp(j) PROVE InHand' /\ Tables' /\ Books'
  <2>1. InHand' /\ at[j] = "left" /\ at' = [at EXCEPT ![j] = "over"]
    BY <1>10, HandsOnHangUp
  <2>2. UNCHANGED <<ocrNow, wants, waitsFor, kept, inFlight, startedAt, skipUntil, failedAt>>
    BY <1>10 DEF Ocr!HangUp, Ocr!LocalOnly
  <2>3. Books'
    BY <1>1, <1>2, <2>1, <2>2, BooksOnMove
  <2> QED BY <1>1, <2>1, <2>2, <2>3, TablesNext
<1>11. ASSUME NEW j \in Callers, NEW read \in BOOLEAN, Ocr!LocalEnds(j, read) PROVE InHand' /\ Tables' /\ Books'
  <2>1. InHand' /\ at[j] \in {"local", "left"} /\ at' = [at EXCEPT ![j] = "over"]
    BY <1>11, HandsOnLocalEnds
  <2>2. UNCHANGED <<ocrNow, wants, startedAt, skipUntil, failedAt>>
    BY <1>11 DEF Ocr!LocalEnds, Ocr!LocalOnly
  <2>3. CASE at[j] = "left"
    <3>1. UNCHANGED <<waitsFor, kept, inFlight>>
      BY <1>11, <2>3 DEF Ocr!LocalEnds
    <3>2. Books'
      BY <1>1, <1>2, <2>1, <2>2, <2>3, <3>1, BooksOnMove
    <3> QED BY <1>1, <2>1, <2>2, <3>1, <3>2, TablesNext
  <2>4. CASE at[j] = "local"
    <3>1. Ocr!Answer(j, read)
      BY <1>11, <2>4 DEF Ocr!LocalEnds
    <3>2. at[j] \in Ocr!UnderWay /\ at'[j] \notin Ocr!UnderWay /\ at'[j] # "none" /\ \A c \in Callers : c # j => at'[c] = at[c]
      BY <1>1, <1>2, <2>1, <2>4
    <3>3. /\ Books' /\ KeptList(kept')
          /\ waitsFor' \in [Callers -> Callers \cup {None}] /\ inFlight' \in [Images -> Callers \cup {None}]
      BY <2>2, <3>1, <3>2, BooksOnAnswer
    <3> QED BY <1>1, <2>1, <2>2, <3>3, TablesNext
  <2> QED BY <2>1, <2>3, <2>4
<1>12. CASE Ocr!Restart
  <2>1. /\ InHand'
        /\ at' = [c \in Callers |-> CASE at[c] = "local" -> "lost" [] at[c] = "left" -> "over" [] OTHER -> at[c]]
    BY <1>12, HandsOnRestart
  <2>2. UNCHANGED <<ocrNow, wants, waitsFor, kept, inFlight, startedAt, skipUntil, failedAt>>
    BY <1>12 DEF Ocr!Restart, Ocr!LocalOnly
  <2>3. Books'
    BY <1>1, <1>2, <2>1, <2>2, BooksOnMove
  <2> QED BY <1>1, <2>1, <2>2, <2>3, TablesNext
<1>13. CASE Ocr!Tick
  <2>1. ocrNow < MaxOcrTime /\ ocrNow' = ocrNow + 1
        /\ UNCHANGED <<wants, waitsFor, kept, inFlight, at, startedAt, skipUntil, failedAt, cloud, local>>
    BY <1>13 DEF Ocr!Tick
  <2>2. ocrNow' \in 1..MaxOcrTime /\ ocrNow' \in Nat /\ ocrNow <= ocrNow'
    BY <1>1, <2>1, OcrConstants
  <2>3. Books'
    BY <2>1, <2>2, BooksOnMove
  <2>4. InHand'
    BY <2>1 DEF InHand
  <2> QED BY <1>1, <2>1, <2>2, <2>3, <2>4, TablesNext
<1>14. CASE UNCHANGED Ocr!vars
  <2>1. UNCHANGED <<ocrNow, wants, waitsFor, kept, inFlight, at, startedAt, skipUntil, failedAt, cloud, local>>
    BY <1>14 DEF Ocr!vars
  <2>2. Books'
    BY <1>1, <2>1, BooksOnMove
  <2>3. InHand'
    BY <2>1 DEF InHand
  <2> QED BY <1>1, <2>1, <2>2, <2>3, TablesNext
<1> QED
  BY <1>3, <1>4, <1>6, <1>7, <1>8, <1>9, <1>10, <1>11, <1>12, <1>13, <1>14 DEF Ocr!Next, Ocr!CloudEnds

LEMMA OcrAlways == Ocr!Spec => []OcrState
BY OcrBegins, OcrInductive, PTL DEF Ocr!Spec

\* createResultCache: "a value is computed at most once per key". However calls, failures, time-outs and restarts of the
\* service interleave, an image has one reading under way, which whoever wants the image waits for.
THEOREM ImagesReadOnce == Ocr!Spec => []ReadOnce
<1>1. OcrState => ReadOnce
  BY ReadOnceIs DEF OcrState, Books
<1> QED BY <1>1, OcrAlways, PTL

\* The limiters' own books (createLimiter): a reading runs or waits in one place, once, and its slot is given back.
THEOREM ReadingsInHand == Ocr!Spec => []Ocr!TypeOK
<1>1. OcrState => Ocr!TypeOK
  BY OcrStateIs DEF OcrInv
<1> QED BY <1>1, OcrAlways, PTL

\* Nobody waits for Cloud Vision while it is left alone.
Skips == Ocr!Skipping => Ocr!InQueue(cloud) = {}

LEMMA SkipsNext == (ocrNow' < skipUntil' => Ocr!InQueue(cloud') = {}) => Skips'
BY DEF Skips, Ocr!Skipping

\* One step, and what it may start at Cloud Vision.
LEMMA SkipsStep ==
    ASSUME OcrState, Skips, [Ocr!Next]_(Ocr!vars)
    PROVE  ocrNow' < skipUntil' => Ocr!InQueue(cloud') = {} /\ Ocr!Starting(cloud, cloud') = {}
<1> SUFFICES ASSUME ocrNow' < skipUntil' PROVE Ocr!InQueue(cloud') = {} /\ Ocr!Starting(cloud, cloud') = {}
  OBVIOUS
<1>1. ocrNow \in Nat /\ skipUntil \in Nat /\ (ocrNow < skipUntil => Ocr!InQueue(cloud) = {})
  BY OcrConstants DEF OcrState, Tables, Skips, Ocr!Skipping
<1>2. Ocr!Starting(cloud, cloud) = {}
  BY DEF Ocr!Starting
<1>3. ASSUME cloud' = cloud, skipUntil' = skipUntil, ocrNow' \in Nat, ocrNow <= ocrNow'
      PROVE  Ocr!InQueue(cloud') = {} /\ Ocr!Starting(cloud, cloud') = {}
  BY <1>1, <1>2, <1>3
<1>4. ASSUME NEW j \in cloud.running, NEW place, Ocr!FreeCloud(j, place, skipUntil'), ocrNow' = ocrNow
      PROVE  Ocr!InQueue(cloud') = {} /\ Ocr!Starting(cloud, cloud') = {}
  <2>1. ~Ocr!CloudOpen(skipUntil')
    <3>1. skipUntil' \in Nat
      BY OcrInductive DEF OcrState, Tables
    <3> QED BY <1>1, <1>4, <3>1 DEF Ocr!CloudOpen
  <2>2. cloud' = [Ocr!EmptyLimiter EXCEPT !.running = cloud.running \ {j}]
    BY <1>4, <2>1 DEF Ocr!FreeCloud
  <2>3. IsFiniteSet(cloud.running \ {j}) /\ cloud.running \ {j} \in SUBSET Callers
    BY FS_RemoveElement DEF OcrState, InHand, Sound, Ocr!Limiters
  <2>4. Ocr!InQueue(cloud') = {} /\ cloud'.running = cloud.running \ {j}
    BY <2>2, <2>3, GivenWay
  <2> QED BY <2>4 DEF Ocr!Starting
<1>5. ASSUME NEW c \in Callers, NEW i \in Images, NEW p \in Ocr!Priorities, Ocr!Ask(c, i, p)
      PROVE  Ocr!InQueue(cloud') = {} /\ Ocr!Starting(cloud, cloud') = {}
  <2>1. ocrNow' = ocrNow /\ skipUntil' = skipUntil
    BY <1>5 DEF Ocr!Ask
  <2>2. Ocr!Skipping
    BY <2>1 DEF Ocr!Skipping
  <2>3. cloud' = cloud
    BY <1>5, <2>2 DEF Ocr!Ask, Ocr!AskKept, Ocr!AskShared, Ocr!AskNew, Ocr!StartReading
  <2> QED BY <1>1, <1>3, <2>1, <2>3
<1>6. ASSUME NEW j \in Callers, Ocr!CloudEnds(j)
      PROVE  Ocr!InQueue(cloud') = {} /\ Ocr!Starting(cloud, cloud') = {}
  BY <1>4, <1>6 DEF Ocr!CloudEnds, Ocr!CloudReads, Ocr!CloudFails, Ocr!CloudRefuses
<1>7. ASSUME \/ \E j \in Callers : Ocr!Receive(j) \/ Ocr!GiveUp(j) \/ Ocr!HangUp(j) \/ \E read \in BOOLEAN : Ocr!LocalEnds(j, read)
             \/ Ocr!Restart
      PROVE  Ocr!InQueue(cloud') = {} /\ Ocr!Starting(cloud, cloud') = {}
  <2>1. Ocr!LocalOnly
    BY <1>7 DEF Ocr!Receive, Ocr!GiveUp, Ocr!HangUp, Ocr!LocalEnds, Ocr!Restart
  <2> QED BY <1>1, <1>3, <2>1 DEF Ocr!LocalOnly
<1>8. CASE Ocr!Tick
  BY <1>1, <1>3, <1>8 DEF Ocr!Tick
<1>9. CASE UNCHANGED Ocr!vars
  BY <1>1, <1>3, <1>9 DEF Ocr!vars
<1> QED BY <1>5, <1>6, <1>7, <1>8, <1>9 DEF Ocr!Next

\* withFallback: from the failure that begins a cooldown to its end Cloud Vision starts no reading, and none waits for it,
\* whatever succeeds or fails in between: "readings already queued inside primary see it and give way too".
THEOREM CloudVisionLeftAlone == Ocr!Spec => LeftAlone
<1>1. Ocr!Init => Skips
  BY DEF Ocr!Init, Skips, Ocr!Skipping
<1>2. OcrState /\ Skips /\ [Ocr!Next]_(Ocr!vars) => Skips'
  BY SkipsStep, SkipsNext
<1>3. OcrState /\ Skips /\ [Ocr!Next]_(Ocr!vars) =>
        [Ocr!Skipping' => Ocr!InQueue(cloud') = {} /\ Ocr!Starting(cloud, cloud') = {}]_(Ocr!vars)
  BY SkipsStep DEF Ocr!Skipping
<1> QED BY <1>1, <1>2, <1>3, OcrAlways, PTL DEF Ocr!Spec, LeftAlone, Ocr!LeftAlone

-----------------------------------------------------------------------------
(* The stats that are kept. *)

\* Nobody is told of a change that isn't there yet, and a copy is no older than what they were told, fresh or not.
CopiesInv ==
    /\ \A b \in Bingos : told[b] <= data[b]
    /\ \A u \in untold : u[2] <= data[u[1]]
    /\ \A b \in Bingos : keptStats[b] # None => told[b] <= keptStats[b].asOf

StatsInv == Stats!TypeOK /\ CopiesInv

\* Telling of a change that is there forgets the copy.
LEMMA BroadcastForgets ==
    ASSUME StatsInv, NEW b \in Bingos, NEW number \in Nat, Stats!Broadcast(b, number), number <= data'[b],
           data' \in [Bingos -> Nat], \A c \in Bingos : data[c] <= data'[c], untold' \subseteq untold, UNCHANGED <<statsNow, listening>>
    PROVE StatsInv'
<1> USE DEF StatsInv
<1>1. \A c \in Bingos : told[c] \in Nat /\ data[c] \in Nat /\ data'[c] \in Nat
  BY DEF Stats!TypeOK
<1>2. \A c \in Bingos : told'[c] = IF c = b THEN (IF number > told[b] THEN number ELSE told[b]) ELSE told[c]
  BY DEF Stats!Broadcast, Stats!TypeOK
<1>3. \A c \in Bingos : keptStats'[c] = IF c = b THEN None ELSE keptStats[c]
  BY DEF Stats!Broadcast, Stats!TypeOK
<1>4. Stats!TypeOK'
  <2>1. told' \in [Bingos -> Nat]
    BY <1>1, <1>2 DEF Stats!Broadcast, Stats!TypeOK
  <2> QED BY <2>1 DEF Stats!Broadcast, Stats!TypeOK
<1>5. \A c \in Bingos : told'[c] <= data'[c]
  BY <1>1, <1>2 DEF CopiesInv
<1>6. \A u \in untold' : u[2] <= data'[u[1]]
  <2> SUFFICES ASSUME NEW u \in untold PROVE u[2] <= data'[u[1]]
    OBVIOUS
  <2>1. u[1] \in Bingos /\ u[2] \in Nat
    BY DEF Stats!TypeOK
  <2> QED BY <1>1, <2>1 DEF CopiesInv
<1>7. \A c \in Bingos : keptStats'[c] # None => told'[c] <= keptStats'[c].asOf
  BY <1>2, <1>3 DEF CopiesInv
<1> QED BY <1>4, <1>5, <1>6, <1>7 DEF CopiesInv

\* A change adds to what its Bingo's stats are made from.
LEMMA ChangedGrows ==
    ASSUME Stats!TypeOK, NEW b \in Bingos, Stats!Changed(b)
    PROVE data' \in [Bingos -> Nat] /\ data'[b] \in Nat /\ \A c \in Bingos : data[c] <= data'[c]
BY DEF Stats!TypeOK, Stats!Changed

LEMMA StatsInductive == ASSUME StatsInv, [Stats!Next]_(Stats!vars) PROVE StatsInv'
<1> USE DEF StatsInv
<1>1. CASE UNCHANGED Stats!vars
  BY <1>1 DEF Stats!vars, Stats!TypeOK, CopiesInv
<1>2. ASSUME NEW b \in Bingos, Stats!Change(b) PROVE StatsInv'
  BY <1>2, ChangedGrows, BroadcastForgets DEF Stats!Change
<1>3. ASSUME NEW b \in Bingos, Stats!AdminWrite(b) PROVE StatsInv'
  <2>1. data' \in [Bingos -> Nat] /\ data'[b] \in Nat /\ \A c \in Bingos : data[c] <= data'[c]
    BY <1>3, ChangedGrows DEF Stats!AdminWrite
  <2>2. untold' = untold \cup {<<b, data'[b]>>} /\ UNCHANGED <<statsNow, listening, keptStats, told>>
    BY <1>3 DEF Stats!AdminWrite
  <2>3. untold' \subseteq Bingos \X Nat
    BY <2>1, <2>2 DEF Stats!TypeOK
  <2>4. Stats!TypeOK'
    BY <2>1, <2>2, <2>3 DEF Stats!TypeOK
  <2>5. \A c \in Bingos : data[c] \in Nat /\ data'[c] \in Nat /\ told[c] \in Nat
    BY <2>1 DEF Stats!TypeOK
  <2>6. \A u \in untold' : u[2] <= data'[u[1]]
    <3> SUFFICES ASSUME NEW u \in untold', u # <<b, data'[b]>> PROVE u[2] <= data'[u[1]]
      BY <2>1
    <3>1. u \in untold /\ u[1] \in Bingos /\ u[2] \in Nat
      BY <2>2 DEF Stats!TypeOK
    <3> QED BY <2>1, <2>5, <3>1 DEF CopiesInv
  <2>7. \A c \in Bingos : told'[c] <= data'[c]
    BY <2>1, <2>2, <2>5 DEF CopiesInv
  <2> QED BY <2>2, <2>4, <2>6, <2>7 DEF CopiesInv
<1>4. ASSUME NEW b \in Bingos, Stats!QuietChange(b) PROVE StatsInv'
  <2>1. data' \in [Bingos -> Nat] /\ \A c \in Bingos : data[c] <= data'[c]
    BY <1>4, ChangedGrows DEF Stats!QuietChange
  <2>2. UNCHANGED <<statsNow, listening, untold, keptStats, told>>
    BY <1>4 DEF Stats!QuietChange
  <2>3. \A c \in Bingos : data[c] \in Nat /\ data'[c] \in Nat /\ told[c] \in Nat
    BY <2>1 DEF Stats!TypeOK
  <2>4. \A u \in untold : u[1] \in Bingos /\ u[2] \in Nat
    BY DEF Stats!TypeOK
  <2>5. CopiesInv'
    BY <2>1, <2>2, <2>3, <2>4 DEF CopiesInv
  <2> QED BY <2>1, <2>2, <2>5 DEF Stats!TypeOK
<1>5. ASSUME NEW b \in Bingos, Stats!Read(b) PROVE StatsInv'
  <2>1. CASE Stats!Fresh(b)
    BY <1>5, <2>1 DEF Stats!Read, Stats!TypeOK, CopiesInv
  <2>2. CASE ~Stats!Fresh(b)
    <3> DEFINE copy == [asOf |-> data[b], until |-> statsNow + KeptFor]
    <3>1. copy \in Stats!Copies /\ copy.asOf = data[b]
      BY ServicesAssumption DEF Stats!Copies, Stats!TypeOK, Stats!Assumption
    <3>2. keptStats' = [keptStats EXCEPT ![b] = copy] /\ UNCHANGED <<statsNow, listening, data, untold, told>>
      BY <1>5, <2>2 DEF Stats!Read
    <3> HIDE DEF copy
    <3> QED BY <3>1, <3>2 DEF Stats!TypeOK, CopiesInv
  <2> QED BY <2>1, <2>2
<1>6. ASSUME NEW u \in untold, Stats!Finish(u) PROVE StatsInv'
  <2>1. u[1] \in Bingos /\ u[2] \in Nat /\ u[2] <= data[u[1]]
    BY DEF Stats!TypeOK, CopiesInv
  <2>2. Stats!Broadcast(u[1], u[2]) /\ untold' \subseteq untold /\ UNCHANGED <<statsNow, listening, data>>
    BY <1>6 DEF Stats!Finish
  <2>3. data' \in [Bingos -> Nat] /\ \A c \in Bingos : data[c] <= data'[c]
    BY <2>2 DEF Stats!TypeOK
  <2> QED BY <2>1, <2>2, <2>3, BroadcastForgets
<1>7. CASE Stats!Tick
  BY <1>7 DEF Stats!Tick, Stats!TypeOK, CopiesInv
<1> QED BY <1>1, <1>2, <1>3, <1>4, <1>5, <1>6, <1>7 DEF Stats!Next

LEMMA StatsAlways == Stats!Spec => []StatsInv
<1>1. Stats!Init => StatsInv
  BY DEF Stats!Init, StatsInv, Stats!TypeOK, CopiesInv
<1>2. StatsInv /\ [Stats!Next]_(Stats!vars) => StatsInv'
  BY StatsInductive
<1> QED BY <1>1, <1>2, PTL DEF Stats!Spec

\* A kept copy of a Bingo's stats that would be handed out says at least what its readers were told of: however late an
\* Admin's response ends, and whichever of two ends first.
THEOREM StatsKeptCurrent == Stats!Spec => []KeptCurrent
<1>1. StatsInv => KeptCurrent
  <2> SUFFICES ASSUME StatsInv, NEW b \in Bingos, keptStats[b] # None PROVE keptStats[b].asOf >= told[b]
    BY DEF KeptCurrent, Stats!KeptCurrent, Stats!Fresh
  <2>1. keptStats[b].asOf \in Nat /\ told[b] \in Nat
    BY DEF StatsInv, Stats!TypeOK, Stats!Copies
  <2> QED BY <2>1 DEF StatsInv, CopiesInv
<1> QED BY <1>1, StatsAlways, PTL

-----------------------------------------------------------------------------
(* The reads of Players' snapshots. *)

\* Nothing that is known lies ahead.
Past == 0..readClock

ReadTables ==
    /\ readClock \in Reads!Times
    /\ wentLive \in Past \cup {None}
    /\ ended \in Past \cup {None} /\ (stage = "complete" => ended # None)
    /\ rsn \in [Readers -> Accounts]
    /\ snapshots \in [Accounts -> SUBSET Past]
    /\ reads \in [Readers -> Reads!ReadRows \cup {None}]
    /\ stored \in [Readers -> SUBSET [rsn : Accounts, at : Past]]

HasRead(p) == reads[p] # None /\ reads[p].through # None

\* What is stored is of the account of the row, which says how far it was read.
TheirRow ==
    \A p \in Readers :
        /\ stored[p] # {} => HasRead(p)
        /\ \A s \in stored[p] : s.rsn = reads[p].rsn
        /\ HasRead(p) => reads[p].through \in Past /\ wentLive # None

\* Nothing is missing between a day before the start and the last that is stored, nor before where it was read.
WholeSoFar ==
    \A p \in Readers : HasRead(p) =>
        \A t \in snapshots[reads[p].rsn] :
            wentLive - Lookback <= t /\ (t < reads[p].through \/ \E s \in stored[p] : t <= s.at)
            => [rsn |-> reads[p].rsn, at |-> t] \in stored[p]

\* A read that Wise Old Man is asked for begins no later than what is stored ends, and is of the same account.
JoinsOn ==
    Reads!Asking /\ reading.job.kind # "update" /\ Reads!Player \in Readers =>
        /\ reading.asks.rsn \in Accounts
        /\ reading.asks.from \in Int /\ reading.asks.to \in Past /\ reading.asks.from < reading.asks.to
        /\ wentLive # None
        /\ reads[Reads!Player] # None => reads[Reads!Player].rsn = reading.asks.rsn
        /\ \A t \in snapshots[reading.asks.rsn] :
            wentLive - Lookback <= t /\ t < reading.asks.from => [rsn |-> reading.asks.rsn, at |-> t] \in stored[Reads!Player]

ReadsInv == ReadTables /\ TheirRow /\ WholeSoFar /\ JoinsOn

LEMMA ReadsConstants ==
    /\ Lookback \in Nat /\ MaxReadTime \in Nat
    /\ None \notin Nat /\ None \notin Reads!ReadRows
    /\ Reads!Times = 0..MaxReadTime
BY ServicesAssumption DEF Reads!Assumption, Reads!Times

\* A step that leaves the tables alone, and begins no read.
LEMMA ReadsLeftAlone ==
    ASSUME ReadsInv, UNCHANGED <<readClock, stage, wentLive, ended, snapshots, reads, stored>>,
           rsn' \in [Readers -> Accounts], reading' = reading \/ ~Reads!Asking'
    PROVE  ReadsInv'
<1>1. ReadTables'
  BY DEF ReadsInv, ReadTables, Past
<1>2. TheirRow' /\ WholeSoFar'
  BY DEF ReadsInv, TheirRow, WholeSoFar, HasRead, Past
<1>3. JoinsOn'
  <2>1. CASE reading' = reading
    BY <2>1 DEF ReadsInv, JoinsOn, Reads!Asking, Reads!Player, Past
  <2>2. CASE ~Reads!Asking'
    BY <2>2 DEF JoinsOn
  <2> QED BY <2>1, <2>2
<1> QED BY <1>1, <1>2, <1>3 DEF ReadsInv

\* A start only ever moves on.
LEMMA ReadsOnStage ==
    ASSUME ReadsInv, NEW to, NEW when \in Reads!Times, Reads!MoveStage(to, when)
    PROVE  ReadsInv'
<1>1. UNCHANGED <<readClock, rsn, snapshots, reads, stored, reading>>
  BY DEF Reads!MoveStage, Reads!rows
<1>2. when \in Past /\ Past' = Past /\ readClock \in Nat
  BY <1>1, ReadsConstants DEF Reads!MoveStage, Past, ReadsInv, ReadTables
<1>3. wentLive' \in Past \cup {None} /\ ended' \in Past \cup {None} /\ (stage' = "complete" => ended' # None)
  BY <1>2, ReadsConstants DEF Reads!MoveStage, ReadsInv, ReadTables, Past
<1>4. wentLive # None => wentLive' # None /\ wentLive <= wentLive'
  BY <1>2, ReadsConstants DEF Reads!MoveStage, ReadsInv, ReadTables, Past
<1>5. ReadTables'
  BY <1>1, <1>2, <1>3 DEF ReadsInv, ReadTables
<1>6. TheirRow'
  BY <1>1, <1>2, <1>4 DEF ReadsInv, TheirRow, HasRead
<1>7. wentLive # None => wentLive \in Nat /\ wentLive' \in Nat
  BY <1>2, <1>3, <1>4 DEF ReadsInv, ReadTables, Past
<1>8. WholeSoFar'
  <2> SUFFICES ASSUME NEW p \in Readers, HasRead(p), NEW t \in snapshots[reads[p].rsn],
                      wentLive' - Lookback <= t, t < reads[p].through \/ \E s \in stored[p] : t <= s.at
               PROVE  [rsn |-> reads[p].rsn, at |-> t] \in stored[p]
    BY <1>1 DEF WholeSoFar, HasRead
  <2>1. t \in Nat /\ wentLive # None
    BY <1>2 DEF ReadsInv, ReadTables, TheirRow, HasRead, Past, Reads!ReadRows
  <2>2. wentLive - Lookback <= t
    BY <1>4, <1>7, <2>1, ReadsConstants
  <2> QED BY <2>2 DEF ReadsInv, WholeSoFar
<1>9. JoinsOn'
  <2> SUFFICES ASSUME Reads!Asking, reading.job.kind # "update", Reads!Player \in Readers
               PROVE  /\ wentLive' # None
                      /\ \A t \in snapshots[reading.asks.rsn] : wentLive' - Lookback <= t /\ t < reading.asks.from
                            => [rsn |-> reading.asks.rsn, at |-> t] \in stored[Reads!Player]
    BY <1>1, <1>2 DEF JoinsOn, Reads!Asking, Reads!Player, ReadsInv
  <2>1. wentLive # None /\ reading.asks.rsn \in Accounts
    BY DEF ReadsInv, JoinsOn
  <2>2. ASSUME NEW t \in snapshots[reading.asks.rsn], wentLive' - Lookback <= t, t < reading.asks.from
        PROVE  [rsn |-> reading.asks.rsn, at |-> t] \in stored[Reads!Player]
    <3>1. t \in Nat
      BY <2>1 DEF ReadsInv, ReadTables, Past
    <3>2. wentLive - Lookback <= t
      BY <1>4, <1>7, <2>1, <2>2, <3>1, ReadsConstants
    <3> QED BY <2>2, <3>2 DEF ReadsInv, JoinsOn
  <2> QED BY <1>4, <2>1, <2>2
<1> QED BY <1>5, <1>6, <1>8, <1>9 DEF ReadsInv

LEMMA LatestOf ==
    ASSUME NEW S, S # {}, \A s \in S : s.at \in Past, readClock \in Nat
    PROVE  \E newest \in S : Reads!Latest(S) = newest.at /\ \A s \in S : s.at <= newest.at
<1> DEFINE times == {s.at : s \in S}
           ages == {readClock - t : t \in times}
<1>1. times \subseteq Past /\ times # {} /\ Past \subseteq Nat
  BY DEF Past
<1>2. ages \in SUBSET Nat /\ ages # {}
  BY <1>1 DEF Past
<1>3. PICK least \in ages : \A m \in ages : least <= m
  BY <1>2, SmallestOf
<1>4. PICK t \in times : least = readClock - t
  BY <1>3
<1>5. ASSUME NEW u \in times PROVE u <= t
  <2>1. least <= readClock - u
    BY <1>3
  <2>2. u \in Nat /\ t \in Nat
    BY <1>1
  <2> HIDE DEF times, ages
  <2> QED BY <1>4, <2>1, <2>2
<1>6. Reads!Latest(S) = CHOOSE u \in times : \A s \in S : s.at <= u
  BY DEF Reads!Latest
<1>7. \E u \in times : \A s \in S : s.at <= u
  BY <1>5
<1>8. Reads!Latest(S) \in times /\ \A s \in S : s.at <= Reads!Latest(S)
  <2> HIDE DEF times
  <2> QED BY <1>6, <1>7
<1> QED BY <1>8

\* A read that begins: the rows of another account are gone, and it goes on from what is stored.
LEMMA ReadsOnBegin ==
    ASSUME ReadsInv, reading # None, reading.asks = None, stage \in {"live", "complete"}, wentLive # None, Reads!BeginRead,
           reading.job.kind # "update", UNCHANGED <<readClock, stage, wentLive, ended, rsn, snapshots>>
    PROVE  ReadsInv'
<1> DEFINE p == Reads!Player
           row == Reads!Had(p)[1]
           had == Reads!Had(p)[2]
           from == Reads!From(row, had)
<1>1. /\ reads' = [reads EXCEPT ![p] = row] /\ stored' = [stored EXCEPT ![p] = had]
      /\ reading' = None \/ (/\ reading' = Reads!Asks([rsn |-> rsn[p], from |-> from, to |-> Reads!To])
                             /\ ~(from >= Reads!To))
  BY DEF Reads!BeginRead
<1>2. \/ row = reads[p] /\ had = stored[p] /\ (row # None => row.rsn = rsn[p])
      \/ row = None /\ had = {}
  BY DEF Reads!Had
<1> HIDE DEF row, had
<1>3. readClock \in Nat /\ Past' = Past
  BY DEF ReadsInv, ReadTables, Reads!Times, Past
<1>4. ReadTables'
  BY <1>1, <1>2, <1>3 DEF ReadsInv, ReadTables
<1>5. \A q \in Readers : (reads'[q] = reads[q] /\ stored'[q] = stored[q]) \/ (reads'[q] = None /\ stored'[q] = {})
  BY <1>1, <1>2 DEF ReadsInv, ReadTables
<1>6. TheirRow' /\ WholeSoFar'
  BY <1>3, <1>5 DEF ReadsInv, TheirRow, WholeSoFar, HasRead
<1>7. CASE reading' = None
  BY <1>4, <1>6, <1>7 DEF ReadsInv, JoinsOn, Reads!Asking
<1>8. CASE p \notin Readers
  <2>1. reading' = None \/ reading'.job.player \notin Readers
    BY <1>1, <1>8 DEF Reads!Asks, Reads!Player
  <2> QED BY <1>4, <1>6, <2>1 DEF ReadsInv, JoinsOn, Reads!Asking, Reads!Player
<1>9. CASE reading' # None /\ p \in Readers
  <2>1. /\ reading' = Reads!Asks([rsn |-> rsn[p], from |-> from, to |-> Reads!To]) /\ ~(from >= Reads!To)
        /\ reads'[p] = row /\ stored'[p] = had
    BY <1>1, <1>9 DEF ReadsInv, ReadTables
  <2>2. rsn[p] \in Accounts /\ (row # None => row.rsn = rsn[p]) /\ wentLive \in Nat /\ wentLive - Lookback \in Int
    BY <1>2, <1>9, ReadsConstants DEF ReadsInv, ReadTables, Past
  <2>3. Reads!To \in Past
    BY <1>3 DEF Reads!To, ReadsInv, ReadTables, Past
  <2>4. /\ from \in Int
        /\ \A t \in snapshots[rsn[p]] : wentLive - Lookback <= t /\ t < from => [rsn |-> rsn[p], at |-> t] \in had
    <3>1. \A t \in snapshots[rsn[p]] : t \in Nat
      BY <2>2 DEF ReadsInv, ReadTables, Past
    <3>2. CASE reading.job.kind # "reread" /\ had # {}
      <4>1. had = stored[p] /\ row = reads[p] /\ HasRead(p)
        BY <1>2, <1>9, <3>2 DEF ReadsInv, TheirRow
      <4>2. \A s \in had : s.at \in Past
        BY <1>9, <4>1 DEF ReadsInv, ReadTables
      <4>3. PICK newest \in had : Reads!Latest(had) = newest.at
        BY <1>3, <3>2, <4>2, LatestOf
      <4>4. from = newest.at /\ from \in Nat
        <5>1. Reads!From(row, had) = Reads!Latest(had)
          BY <3>2 DEF Reads!From
        <5>2. newest.at \in Nat
          BY <1>3, <4>2 DEF Past
        <5> QED BY <4>3, <5>1, <5>2
      <4>5. ASSUME NEW t \in snapshots[rsn[p]], wentLive - Lookback <= t, t < from PROVE [rsn |-> rsn[p], at |-> t] \in had
        <5>1. t <= newest.at /\ reads[p].rsn = rsn[p]
          BY <2>2, <3>1, <4>1, <4>4, <4>5 DEF HasRead
        <5> QED BY <1>9, <4>1, <4>5, <5>1 DEF ReadsInv, WholeSoFar
      <4> QED BY <4>4, <4>5
    <3>3. CASE reading.job.kind # "reread" /\ had = {} /\ row # None /\ row.through # None
      <4>1. had = stored[p] /\ row = reads[p] /\ HasRead(p)
        BY <1>2, <3>3 DEF HasRead
      <4>2. from = row.through /\ from \in Nat
        BY <1>9, <3>3, <4>1 DEF Reads!From, ReadsInv, TheirRow, Past
      <4>3. row.rsn = rsn[p]
        BY <2>2, <3>3
      <4>4. ASSUME NEW t \in snapshots[rsn[p]], wentLive - Lookback <= t, t < from PROVE [rsn |-> rsn[p], at |-> t] \in had
        BY <1>9, <4>1, <4>2, <4>3, <4>4 DEF ReadsInv, WholeSoFar
      <4> QED BY <4>2, <4>4
    <3>4. CASE ~(reading.job.kind # "reread" /\ had # {}) /\ ~(reading.job.kind # "reread" /\ row # None /\ row.through # None)
      <4>1. from = wentLive - Lookback
        BY <3>4 DEF Reads!From
      <4> QED BY <2>2, <3>1, <4>1
    <3> QED BY <3>2, <3>3, <3>4
  <2>5. from < Reads!To
    BY <1>3, <2>1, <2>3, <2>4 DEF Past
  <2> DEFINE asks == [rsn |-> rsn[p], from |-> from, to |-> Reads!To]
  <2>6. reading'.job = reading.job /\ reading'.asks = asks
    BY <2>1 DEF Reads!Asks
  <2>7. asks.rsn = rsn[p] /\ asks.from = from /\ asks.to = Reads!To
    OBVIOUS
  <2>8. reading'.job.player = p
    BY <2>6 DEF Reads!Player
  <2> HIDE DEF asks, from, p
  <2>9. JoinsOn'
    BY <1>3, <2>1, <2>2, <2>3, <2>4, <2>5, <2>6, <2>7, <2>8 DEF JoinsOn, Reads!Player
  <2> QED BY <1>4, <1>6, <2>9 DEF ReadsInv
<1> QED BY <1>7, <1>8, <1>9

\* What Wise Old Man answers fills the whole of what was asked.
LEMMA ReadsOnAnswer ==
    ASSUME ReadsInv, NEW p \in Readers, Reads!Answer(p)
    PROVE  ReadsInv'
<1>1. /\ Reads!Asking /\ Reads!Player = p /\ reading' = None
      /\ UNCHANGED <<readClock, stage, wentLive, ended, rsn>>
  BY DEF Reads!Answer, Reads!bingo
<1>2. readClock \in Nat /\ readClock \in Past /\ Past' = Past
  BY <1>1, ReadsConstants DEF ReadsInv, ReadTables, Past
<1>3. JoinsOn'
  BY <1>1 DEF JoinsOn, Reads!Asking
<1>4. CASE reading.job.kind = "update"
  <2>1. snapshots' = [snapshots EXCEPT ![reading.asks.rsn] = @ \cup {readClock}] /\ UNCHANGED <<reads, stored>>
    BY <1>4 DEF Reads!Answer
  <2>2. ReadTables'
    BY <1>1, <1>2, <2>1 DEF ReadsInv, ReadTables
  <2>3. TheirRow'
    BY <1>1, <1>2, <2>1 DEF ReadsInv, TheirRow, HasRead
  <2>4. \A a \in Accounts : \A t \in snapshots'[a] : t \in snapshots[a] \/ t = readClock
    BY <2>1 DEF ReadsInv, ReadTables
  <2>5. WholeSoFar'
    <3> SUFFICES ASSUME NEW q \in Readers, HasRead(q), NEW t \in snapshots'[reads[q].rsn],
                        wentLive - Lookback <= t, t < reads[q].through \/ \E s \in stored[q] : t <= s.at
                 PROVE  [rsn |-> reads[q].rsn, at |-> t] \in stored[q]
      BY <1>1, <2>1 DEF WholeSoFar, HasRead
    <3>1. reads[q].rsn \in Accounts /\ reads[q].through \in Past
      BY DEF ReadsInv, ReadTables, TheirRow, HasRead, Reads!ReadRows
    <3>2. CASE t \in snapshots[reads[q].rsn]
      BY <3>2 DEF ReadsInv, WholeSoFar
    <3>3. CASE t = readClock
      <4>1. ~(t < reads[q].through)
        BY <1>2, <3>1, <3>3 DEF Past
      <4>2. PICK s \in stored[q] : t <= s.at
        BY <4>1
      <4>3. s \in [rsn : Accounts, at : Past] /\ s.rsn = reads[q].rsn
        BY DEF ReadsInv, ReadTables, TheirRow
      <4>4. s.at = t
        BY <1>2, <3>3, <4>2, <4>3 DEF Past
      <4>5. s = [rsn |-> reads[q].rsn, at |-> t]
        BY <4>3, <4>4
      <4> QED BY <4>5
    <3> QED BY <2>4, <3>1, <3>2, <3>3
  <2> QED BY <1>3, <2>2, <2>3, <2>5 DEF ReadsInv
<1>5. CASE reading.job.kind # "update"
  <2> DEFINE asks == reading.asks
             row == [rsn |-> asks.rsn, through |-> asks.to]
  <2>1. /\ asks.rsn \in Accounts /\ asks.from \in Int /\ asks.to \in Past /\ asks.from < asks.to /\ wentLive # None
        /\ reads[p] # None => reads[p].rsn = asks.rsn
        /\ \A t \in snapshots[asks.rsn] : wentLive - Lookback <= t /\ t < asks.from => [rsn |-> asks.rsn, at |-> t] \in stored[p]
    BY <1>1, <1>5 DEF ReadsInv, JoinsOn
  <2>2. /\ stored' = [stored EXCEPT ![p] = @ \cup Reads!Answered]
        /\ reads' = [reads EXCEPT ![p] = row]
        /\ snapshots' = snapshots
    BY <1>5 DEF Reads!Answer
  <2> HIDE DEF asks
  <2>3. row \in Reads!ReadRows /\ row # None /\ row.through # None /\ row.rsn = asks.rsn /\ row.through = asks.to
    BY <1>2, <2>1, ReadsConstants DEF Reads!ReadRows, ReadsInv, ReadTables, Past
  <2>4. \A t \in snapshots[asks.rsn] : t \in Past /\ t \in Nat
    BY <1>2, <2>1 DEF ReadsInv, ReadTables, Past
  <2>5. \A s \in Reads!Answered : /\ s \in [rsn : Accounts, at : Past] /\ s.rsn = asks.rsn
                                  /\ asks.from <= s.at /\ s.at <= asks.to
    BY <2>1, <2>4 DEF Reads!Answered, asks
  <2>6. \A t \in snapshots[asks.rsn] : asks.from <= t /\ t <= asks.to => [rsn |-> asks.rsn, at |-> t] \in Reads!Answered
    BY DEF Reads!Answered, asks
  <2> HIDE DEF row
  <2>7. /\ reads'[p] = row /\ stored'[p] = stored[p] \cup Reads!Answered
        /\ \A q \in Readers : q # p => reads'[q] = reads[q] /\ stored'[q] = stored[q]
    BY <2>2 DEF ReadsInv, ReadTables
  <2>8. ReadTables'
    <3>1. stored' \in [Readers -> SUBSET [rsn : Accounts, at : Past]] /\ reads' \in [Readers -> Reads!ReadRows \cup {None}]
      BY <2>2, <2>3, <2>5 DEF ReadsInv, ReadTables
    <3> QED BY <1>1, <1>2, <2>2, <3>1 DEF ReadsInv, ReadTables
  <2>9. TheirRow'
    <3> SUFFICES ASSUME NEW q \in Readers
                 PROVE  /\ stored'[q] # {} => HasRead(q)'
                        /\ \A s \in stored'[q] : s.rsn = reads'[q].rsn
                        /\ HasRead(q)' => reads'[q].through \in Past /\ wentLive # None
      BY <1>1, <1>2 DEF TheirRow
    <3>1. CASE q # p
      BY <2>7, <3>1 DEF ReadsInv, TheirRow, HasRead
    <3>2. CASE q = p
      <4>1. \A s \in stored[p] : s.rsn = asks.rsn
        BY <2>1 DEF ReadsInv, TheirRow, HasRead
      <4> QED BY <2>1, <2>3, <2>5, <2>7, <3>2, <4>1 DEF HasRead
    <3> QED BY <3>1, <3>2
  <2>10. WholeSoFar'
    <3> SUFFICES ASSUME NEW q \in Readers, HasRead(q)', NEW t \in snapshots[reads'[q].rsn],
                        wentLive - Lookback <= t, t < reads'[q].through \/ \E s \in stored'[q] : t <= s.at
                 PROVE  [rsn |-> reads'[q].rsn, at |-> t] \in stored'[q]
      BY <1>1, <2>2 DEF WholeSoFar
    <3>1. CASE q # p
      BY <2>7, <3>1 DEF ReadsInv, WholeSoFar, HasRead
    <3>2. CASE q = p
      <4>1. t \in snapshots[asks.rsn] /\ t \in Nat /\ reads'[q].rsn = asks.rsn /\ asks.to \in Nat
        BY <1>2, <2>1, <2>3, <2>4, <2>7, <3>2 DEF Past
      <4>2. CASE t < asks.from
        BY <2>1, <2>7, <3>2, <4>1, <4>2
      <4>3. CASE asks.from <= t /\ t <= asks.to
        BY <2>6, <2>7, <3>2, <4>1, <4>3
      <4>4. CASE asks.to < t
        <5>1. PICK s \in stored'[p] : t <= s.at
          BY <2>3, <2>7, <3>2, <4>1, <4>4
        <5>2. s \in stored[p] \/ s \in Reads!Answered
          BY <2>7
        <5>3. s \in stored[p]
          <6>1. ASSUME s \in Reads!Answered PROVE FALSE
            <7>1. s.at \in Nat /\ s.at <= asks.to
              BY <1>2, <2>5, <6>1 DEF Past
            <7> QED BY <4>1, <4>4, <5>1, <7>1
          <6> QED BY <5>2, <6>1
        <5>4. HasRead(p) /\ reads[p].rsn = asks.rsn
          BY <2>1, <5>3 DEF ReadsInv, TheirRow, HasRead
        <5>5. [rsn |-> asks.rsn, at |-> t] \in stored[p]
          BY <4>1, <5>1, <5>3, <5>4 DEF ReadsInv, WholeSoFar
        <5> QED BY <2>7, <3>2, <4>1, <5>5
      <4> QED BY <2>1, <4>1, <4>2, <4>3, <4>4
    <3> QED BY <3>1, <3>2
  <2> QED BY <1>3, <2>8, <2>9, <2>10 DEF ReadsInv
<1> QED BY <1>4, <1>5

\* A read that failed leaves a row that says nothing, or the row as it was.
LEMMA ReadsOnFail == ASSUME ReadsInv, Reads!Fail PROVE ReadsInv'
<1>1. /\ Reads!Asking /\ reading' = None
      /\ UNCHANGED <<readClock, stage, wentLive, ended, rsn, snapshots, stored>>
  BY DEF Reads!Fail, Reads!bingo
<1>2. JoinsOn' /\ Past' = Past
  BY <1>1 DEF JoinsOn, Reads!Asking, Past
<1>3. CASE reading.job.kind = "update" \/ Reads!Player \notin Readers
  <2>1. reads' = reads
    BY <1>3 DEF Reads!Fail, ReadsInv, ReadTables
  <2> QED BY <1>1, <2>1, ReadsLeftAlone DEF Reads!Asking, ReadsInv, ReadTables
<1>4. CASE reading.job.kind # "update" /\ Reads!Player \in Readers
  <2> DEFINE p == Reads!Player
  <2>1. reading.asks.rsn \in Accounts
    BY <1>1, <1>4 DEF ReadsInv, JoinsOn
  <2>2. reads' = [reads EXCEPT ![p] = Reads!ReadInVain(p)]
    BY <1>4 DEF Reads!Fail
  <2>3. /\ Reads!ReadInVain(p) \in Reads!ReadRows
        /\ reads[p] # None => Reads!ReadInVain(p) = reads[p]
        /\ reads[p] = None => Reads!ReadInVain(p).through = None
    BY <1>4, <2>1 DEF Reads!ReadInVain, Reads!ReadRows, ReadsInv, ReadTables
  <2>4. /\ \A q \in Readers : q # p => reads'[q] = reads[q]
        /\ reads'[p] = Reads!ReadInVain(p) /\ reads' \in [Readers -> Reads!ReadRows \cup {None}]
    BY <1>4, <2>2, <2>3 DEF ReadsInv, ReadTables
  <2> HIDE DEF p
  <2>5. ReadTables'
    BY <1>1, <1>2, <2>4 DEF ReadsInv, ReadTables
  <2>6. \A q \in Readers : reads'[q] = reads[q] \/ (~HasRead(q)' /\ ~HasRead(q))
    BY <2>3, <2>4 DEF HasRead
  <2>7. TheirRow' /\ WholeSoFar'
    BY <1>1, <1>2, <2>6 DEF ReadsInv, TheirRow, WholeSoFar, HasRead
  <2> QED BY <1>2, <2>5, <2>7 DEF ReadsInv
<1> QED BY <1>3, <1>4

\* A snapshot that is taken now is later than all that was asked for.
LEMMA ReadsOnTick == ASSUME ReadsInv, NEW taken, Reads!Tick(taken) PROVE ReadsInv'
<1>1. /\ readClock < MaxReadTime /\ readClock' = readClock + 1
      /\ snapshots' = [a \in Accounts |-> IF a \in taken THEN snapshots[a] \cup {readClock + 1} ELSE snapshots[a]]
      /\ UNCHANGED <<stage, wentLive, ended, rsn, reads, stored, reading>>
  BY DEF Reads!Tick, Reads!bingo, Reads!rows, Reads!queue
<1>2. /\ readClock \in Nat /\ readClock' \in Reads!Times /\ Past \subseteq Past' /\ readClock + 1 \in Past'
      /\ \A t \in Past : t \in Nat /\ t < readClock + 1
  BY <1>1, ReadsConstants DEF ReadsInv, ReadTables, Past
<1>3. \A a \in Accounts : \A t \in snapshots'[a] : t \in snapshots[a] \/ t = readClock + 1
  BY <1>1
<1>4. ReadTables'
  <2>1. snapshots' \in [Accounts -> SUBSET Past']
    BY <1>1, <1>2 DEF ReadsInv, ReadTables
  <2>2. stored \in [Readers -> SUBSET [rsn : Accounts, at : Past']]
    BY <1>2 DEF ReadsInv, ReadTables
  <2> QED BY <1>1, <1>2, <2>1, <2>2 DEF ReadsInv, ReadTables
<1>5. TheirRow'
  BY <1>1, <1>2 DEF ReadsInv, TheirRow, HasRead
<1>6. WholeSoFar'
  <2> SUFFICES ASSUME NEW p \in Readers, HasRead(p), NEW t \in snapshots'[reads[p].rsn],
                      wentLive - Lookback <= t, t < reads[p].through \/ \E s \in stored[p] : t <= s.at
               PROVE  [rsn |-> reads[p].rsn, at |-> t] \in stored[p]
    BY <1>1 DEF WholeSoFar, HasRead
  <2>1. reads[p].rsn \in Accounts /\ reads[p].through \in Past /\ \A s \in stored[p] : s.at \in Past
    BY DEF ReadsInv, ReadTables, TheirRow, HasRead, Reads!ReadRows
  <2>2. t # readClock + 1
    BY <1>2, <2>1
  <2>3. t \in snapshots[reads[p].rsn]
    BY <1>3, <2>1, <2>2
  <2> QED BY <2>3 DEF ReadsInv, WholeSoFar
<1>7. JoinsOn'
  <2> SUFFICES ASSUME Reads!Asking, reading.job.kind # "update", Reads!Player \in Readers
               PROVE  /\ reading.asks.to \in Past'
                      /\ \A t \in snapshots'[reading.asks.rsn] : wentLive - Lookback <= t /\ t < reading.asks.from
                            => [rsn |-> reading.asks.rsn, at |-> t] \in stored[Reads!Player]
    BY <1>1 DEF JoinsOn, Reads!Asking, Reads!Player, ReadsInv
  <2>1. reading.asks.rsn \in Accounts /\ reading.asks.to \in Past /\ reading.asks.from \in Int /\ reading.asks.from < reading.asks.to
    BY DEF ReadsInv, JoinsOn
  <2>2. ~(readClock + 1 < reading.asks.from)
    BY <1>2, <2>1
  <2> QED BY <1>2, <1>3, <2>1, <2>2 DEF ReadsInv, JoinsOn
<1> QED BY <1>4, <1>5, <1>6, <1>7 DEF ReadsInv

LEMMA ReadsInductive == ReadsInv /\ [Reads!Next]_(Reads!vars) => ReadsInv'
<1> SUFFICES ASSUME ReadsInv, [Reads!Next]_(Reads!vars) PROVE ReadsInv'
  OBVIOUS
<1>1. rsn \in [Readers -> Accounts]
  BY DEF ReadsInv, ReadTables
<1>2. CASE Reads!Round \/ Reads!UpdateRound \/ Reads!Reread \/ Reads!LimitEnds
  BY <1>1, <1>2, ReadsLeftAlone
  DEF Reads!Round, Reads!UpdateRound, Reads!Reread, Reads!LimitEnds, Reads!bingo, Reads!rows, Reads!queue
<1>3. CASE Reads!Restart \/ Reads!Limit
  BY <1>1, <1>3, ReadsLeftAlone DEF Reads!Restart, Reads!Limit, Reads!Asking, Reads!bingo, Reads!rows
<1>4. CASE Reads!Take
  <2>1. ~Reads!Asking'
    BY <1>4 DEF Reads!Take, Reads!Asking
  <2> QED BY <1>1, <1>4, <2>1, ReadsLeftAlone DEF Reads!Take, Reads!bingo, Reads!rows
<1>5. ASSUME NEW p \in Readers, NEW a \in Accounts, Reads!ChangeRsn(p, a) PROVE ReadsInv'
  <2>1. rsn' \in [Readers -> Accounts]
    BY <1>1, <1>5 DEF Reads!ChangeRsn
  <2> QED BY <1>5, <2>1, ReadsLeftAlone DEF Reads!ChangeRsn, Reads!rows, Reads!queue
<1>6. CASE Reads!Begin
  <2>1. reading # None /\ reading.asks = None /\ UNCHANGED <<readClock, stage, wentLive, ended, rsn, snapshots>>
    BY <1>6 DEF Reads!Begin, Reads!bingo
  <2>2. CASE reading.job.kind = "update"
    <3>1. reads' = reads /\ stored' = stored
      BY <1>6, <2>2 DEF Reads!Begin
    <3>2. reading' = None \/ reading'.job.kind = "update"
      BY <1>6, <2>2 DEF Reads!Begin, Reads!Asks
    <3>3. JoinsOn'
      BY <3>2 DEF JoinsOn, Reads!Asking
    <3>4. Past' = Past
      BY <2>1 DEF Past
    <3>5. ReadTables' /\ TheirRow' /\ WholeSoFar'
      BY <2>1, <3>1, <3>4 DEF ReadsInv, ReadTables, TheirRow, WholeSoFar, HasRead
    <3> QED BY <3>3, <3>5 DEF ReadsInv
  <2>3. CASE reading.job.kind # "update" /\ stage \in {"live", "complete"} /\ wentLive # None
    BY <1>6, <2>1, <2>3, ReadsOnBegin DEF Reads!Begin
  <2>4. CASE reading.job.kind # "update" /\ ~(stage \in {"live", "complete"} /\ wentLive # None)
    BY <1>1, <1>6, <2>1, <2>4, ReadsLeftAlone DEF Reads!Begin, Reads!Asking
  <2> QED BY <2>2, <2>3, <2>4
<1>7. CASE UNCHANGED Reads!vars
  BY <1>1, <1>7, ReadsLeftAlone DEF Reads!vars
<1> QED BY <1>2, <1>3, <1>4, <1>5, <1>6, <1>7, ReadsOnStage, ReadsOnAnswer, ReadsOnFail, ReadsOnTick DEF Reads!Next

LEMMA ReadsAlways == Reads!Spec => []ReadsInv
<1>1. Reads!Init => ReadsInv
  <2> SUFFICES ASSUME Reads!Init PROVE ReadsInv
    OBVIOUS
  <2>1. /\ readClock = 0 /\ stage = "reveal" /\ wentLive = None /\ ended = None /\ rsn \in [Readers -> Accounts]
        /\ snapshots = [a \in Accounts |-> {}] /\ reads = [p \in Readers |-> None] /\ stored = [p \in Readers |-> {}]
        /\ reading = None
    BY DEF Reads!Init
  <2> QED BY <2>1, ReadsConstants DEF ReadsInv, ReadTables, TheirRow, WholeSoFar, JoinsOn, HasRead, Reads!Asking, Past
<1> QED BY <1>1, ReadsInductive, PTL DEF Reads!Spec

\* What is stored of a Player is of one account and lacks nothing that Wise Old Man took of it from a day before the start
\* to where it was read, however many read, go wrong, change accounts or stages, or are lost in a restart.
THEOREM TimelinesWhole == Reads!Spec => []TimelineWhole
<1>1. ReadsInv => TimelineWhole
  <2> SUFFICES ASSUME ReadsInv PROVE Reads!TimelineWhole
    BY DEF TimelineWhole
  <2>1. ASSUME NEW p \in Readers PROVE (stored[p] # {} => reads[p] # None) /\ \A s \in stored[p] : s.rsn = reads[p].rsn
    BY DEF ReadsInv, TheirRow, HasRead
  <2>2. ASSUME NEW p \in Readers, HasRead(p), NEW t \in snapshots[reads[p].rsn], wentLive - Lookback <= t, t < reads[p].through
        PROVE  [rsn |-> reads[p].rsn, at |-> t] \in stored[p]
    BY <2>2 DEF ReadsInv, WholeSoFar
  <2> QED BY <2>1, <2>2 DEF Reads!TimelineWhole, HasRead
<1> QED BY <1>1, ReadsAlways, PTL

-----------------------------------------------------------------------------
(* The competition on Wise Old Man. *)

\* What a sync knows of, there is.
Known(c) ==
    /\ c.step = "create" => c.roster \in Rosters
    /\ c.step # "create" => c.of \in DOMAIN wom
    /\ c.step \in {"compare", "edit"} => c.seen # None
    /\ c.step = "edit" => c.roster \in Rosters /\ c.end # None

WomTables == Wom!TypeOK /\ IsFiniteSet(calls) /\ \A c \in calls : Known(c)

\* A sync has what the Bingo has, or leaves it in step.
UpToDate(c) ==
    /\ c.step = "create" => c.name = name /\ c.end = end /\ c.roster = roster
    /\ c.step = "created" => Wom!InStep(wom[c.of])
    /\ c.step \in {"look", "compare"} => c.of = competition /\ c.name = name /\ c.end = end
    /\ c.step = "compare" => c.seen = wom[c.of]
    /\ c.step = "edit" => c.of = competition /\ Wom!InStep(Wom!Edited(c))

\* Unless a sync crossed another, or a change that starts none, at most one runs, and it is up to date.
Own == ~apart => (\A c, d \in calls : c = d) /\ \A c \in calls : UpToDate(c)

WomInv == WomTables /\ Own /\ KeptInSync

LEMMA WomConstants ==
    /\ TwoWeeks \in Nat /\ MaxWomTime \in Nat /\ MaxCalls \in Nat /\ None \notin Nat /\ Nobody \notin Rosters
    /\ Wom!Ends = 1..MaxWomTime /\ None \notin Wom!Ends \cup {TwoWeeks} /\ None \notin Wom!Competitions
BY ServicesAssumption DEF Wom!Assumption, Wom!Ends

LEMMA WomCardinality == \A S : Wom!Cardinality(S) = Cardinality(S)
BY DEF Cardinality, Wom!Cardinality

\* There is a name for one more sync.
LEMMA FreeIdIsFree ==
    ASSUME IsFiniteSet(calls), calls \subseteq Wom!Calls, Wom!Cardinality(calls) < MaxCalls
    PROVE  Wom!FreeId \in 1..MaxCalls
<1> DEFINE taken == {c.id : c \in calls}
           names == [c \in calls |-> c.id]
<1>1. names \in Surjection(calls, taken)
  BY DEF Surjection
<1>2. IsFiniteSet(taken) /\ Cardinality(taken) <= Cardinality(calls)
  BY <1>1, FS_Surjection
<1>3. IsFiniteSet(1..MaxCalls) /\ Cardinality(1..MaxCalls) = MaxCalls
  BY WomConstants, FS_Interval
<1>4. \E i \in 1..MaxCalls : i \notin taken
  <2>1. SUFFICES ASSUME 1..MaxCalls \subseteq taken PROVE FALSE
    OBVIOUS
  <2>2. Cardinality(1..MaxCalls) <= Cardinality(taken)
    BY <1>2, <2>1, FS_Subset
  <2>3. Cardinality(taken) \in Nat /\ Cardinality(calls) \in Nat
    BY <1>2, FS_CardinalityType
  <2> QED BY <1>2, <1>3, <2>2, <2>3, WomConstants, WomCardinality
<1>5. \E i \in 1..MaxCalls : \A c \in calls : c.id # i
  BY <1>4
<1> QED BY <1>5 DEF Wom!FreeId

\* A competition that is in step stays it, as time goes by.
LEMMA InStepLater ==
    ASSUME NEW there \in Wom!Competitions, Wom!InStep(there), UNCHANGED <<name, end, roster>>,
           womNow \in Nat, womNow' \in Nat, womNow <= womNow'
    PROVE  there.name = name' /\ there.hours /\ (end' # None => there.end = end' \/ there.end <= womNow')
           /\ (roster' # Nobody => there.roster = roster')
<1>1. there.end \in Nat
  BY WomConstants DEF Wom!Competitions
<1> QED BY <1>1 DEF Wom!InStep

\* A sync that begins knows the Bingo as it is, and is alone unless another runs.
LEMMA WomBegins ==
    ASSUME WomInv, NEW c \in Wom!Calls, Wom!Begin(c), Known(c), UpToDate(c)',
           UNCHANGED <<womNow, competition, failed, wom>>,
           name' \in Titles, end' \in Wom!Ends \cup {None}, roster' \in Rosters \cup {Nobody}, drafting' \in BOOLEAN,
           womChanges' \in Nat, womFaults' \in Nat
    PROVE  WomInv'
<1>1. calls' = calls \cup {c} /\ apart' = (calls # {})
  BY DEF Wom!Begin
<1>2. IsFiniteSet(calls')
  BY <1>1, FS_AddElement DEF WomInv, WomTables
<1>3. calls' \subseteq Wom!Calls /\ apart' \in BOOLEAN
  BY <1>1 DEF WomInv, WomTables, Wom!TypeOK
<1>4. Wom!TypeOK'
  BY <1>3 DEF WomInv, WomTables, Wom!TypeOK
<1>5. \A d \in calls' : Known(d)'
  BY <1>1 DEF WomInv, WomTables, Known
<1>6. Own'
  <2> SUFFICES ASSUME ~apart' PROVE calls' = {c}
    BY DEF Own
  <2> QED BY <1>1
<1>7. KeptInSync'
  BY <1>1 DEF KeptInSync, Wom!KeptInSync
<1> QED BY <1>2, <1>4, <1>5, <1>6, <1>7 DEF WomInv, WomTables

\* A change that begins no sync, nor needs one, or is not followed by one.
LEMMA WomUnsynced ==
    ASSUME WomInv, UNCHANGED <<womNow, competition, failed, calls>>,
           wom' \in Seq(Wom!Competitions), DOMAIN wom' = DOMAIN wom,
           name' \in Titles, end' \in Wom!Ends \cup {None}, roster' \in Rosters \cup {Nobody}, drafting' \in BOOLEAN,
           womChanges' \in Nat, womFaults' \in Nat,
           \/ apart' = TRUE
           \/ apart' = (apart \/ calls # {}) /\ competition = None
    PROVE  WomInv'
<1>1. Wom!TypeOK'
  BY DEF WomInv, WomTables, Wom!TypeOK
<1>2. IsFiniteSet(calls') /\ \A c \in calls' : Known(c)'
  BY DEF WomInv, WomTables, Known
<1>3. Own'
  BY DEF Own
<1>4. KeptInSync'
  BY DEF KeptInSync, Wom!KeptInSync
<1> QED BY <1>1, <1>2, <1>3, <1>4 DEF WomInv, WomTables

\* Time goes by, or the Draft is gone back to.
LEMMA WomLater ==
    ASSUME WomInv, UNCHANGED <<name, end, roster, competition, failed, calls, wom, apart>>, womNow' \in 0..MaxWomTime, womNow <= womNow',
           drafting' \in BOOLEAN, womChanges' \in Nat, womFaults' \in Nat
    PROVE  WomInv'
<1>1. Wom!TypeOK'
  BY DEF WomInv, WomTables, Wom!TypeOK
<1>2. IsFiniteSet(calls') /\ \A c \in calls' : Known(c)'
  BY DEF WomInv, WomTables, Known
<1>3. womNow \in Nat /\ womNow' \in Nat
  BY WomConstants DEF WomInv, WomTables, Wom!TypeOK
<1>4. \A i \in DOMAIN wom : wom[i] \in Wom!Competitions
  BY DEF WomInv, WomTables, Wom!TypeOK
<1>5. ASSUME NEW there \in Wom!Competitions, Wom!InStep(there)
      PROVE  there.name = name' /\ there.hours /\ (end' # None => there.end = end' \/ there.end <= womNow')
             /\ (roster' # Nobody => there.roster = roster')
  BY <1>3, <1>5, InStepLater
<1>6. Own'
  <2> SUFFICES ASSUME ~apart', NEW c \in calls PROVE UpToDate(c)'
    BY DEF Own, WomInv
  <2>1. UpToDate(c)
    BY DEF Own, WomInv
  <2>2. CASE c.step = "created"
    <3>1. wom[c.of] \in Wom!Competitions
      BY <1>4, <2>2 DEF WomInv, WomTables, Known
    <3> QED BY <1>5, <2>1, <2>2, <3>1 DEF UpToDate, Wom!InStep
  <2>3. CASE c.step = "edit"
    <3>1. Wom!Edited(c) \in Wom!Competitions
      <4>1. c \in Wom!Calls /\ Known(c)
        BY DEF WomInv, WomTables, Wom!TypeOK
      <4>2. wom[c.of] \in Wom!Competitions
        BY <1>4, <2>3, <4>1 DEF Known
      <4> QED BY <2>3, <4>1, <4>2 DEF Known, Wom!Edited, Wom!Competitions, Wom!Calls
    <3>2. Wom!Edited(c)' = Wom!Edited(c)
      BY DEF Wom!Edited
    <3> QED BY <1>5, <2>1, <2>3, <3>1, <3>2 DEF UpToDate, Wom!InStep
  <2>4. CASE c.step \notin {"created", "edit"}
    BY <2>1, <2>4 DEF UpToDate
  <2> QED BY <2>2, <2>3, <2>4
<1>7. KeptInSync'
  <2> SUFFICES ASSUME competition # None, calls = {}, ~failed, ~apart PROVE Wom!InStep(wom[competition])'
    BY DEF KeptInSync, Wom!KeptInSync
  <2>1. wom[competition] \in Wom!Competitions /\ Wom!InStep(wom[competition])
    BY <1>4 DEF WomInv, WomTables, Wom!TypeOK, KeptInSync, Wom!KeptInSync
  <2> QED BY <1>5, <2>1 DEF Wom!InStep
<1> QED BY <1>1, <1>2, <1>6, <1>7 DEF WomInv, WomTables

\* A sync goes on, and knows more.
LEMMA WomGoesOn ==
    ASSUME WomInv, NEW c \in calls, NEW d \in Wom!Calls, Wom!GoesOn(c, d), Known(d)', ~apart => UpToDate(d)',
           wom' \in Seq(Wom!Competitions), DOMAIN wom \subseteq DOMAIN wom',
           UNCHANGED <<womNow, name, end, roster, drafting, competition, failed, apart, womChanges, womFaults>>
    PROVE  WomInv'
<1>1. calls' = (calls \ {c}) \cup {d}
  BY DEF Wom!GoesOn
<1>2. IsFiniteSet(calls')
  BY <1>1, FS_AddElement, FS_RemoveElement DEF WomInv, WomTables
<1>3. Wom!TypeOK'
  <2>1. calls' \subseteq Wom!Calls
    BY <1>1 DEF WomInv, WomTables, Wom!TypeOK
  <2> QED BY <2>1 DEF WomInv, WomTables, Wom!TypeOK
<1>4. \A e \in calls' : Known(e)'
  BY <1>1 DEF WomInv, WomTables, Known
<1>5. Own'
  <2> SUFFICES ASSUME ~apart PROVE calls' = {d}
    BY DEF Own
  <2> QED BY <1>1 DEF WomInv, Own
<1>6. KeptInSync'
  BY <1>1 DEF KeptInSync, Wom!KeptInSync
<1> QED BY <1>2, <1>3, <1>4, <1>5, <1>6 DEF WomInv, WomTables

\* A sync is over: with an error, or with the competition in step unless something else happened.
LEMMA WomOver ==
    ASSUME WomInv, NEW c \in calls, Wom!Over(c), wom' \in Seq(Wom!Competitions), DOMAIN wom' = DOMAIN wom,
           competition' \in DOMAIN wom \cup {None}, failed' \in BOOLEAN, womFaults' \in Nat,
           failed' \/ (~apart => Wom!InStep(wom[competition])'),
           UNCHANGED <<womNow, name, end, roster, drafting, apart, womChanges>>
    PROVE  WomInv'
<1>1. calls' = calls \ {c}
  BY DEF Wom!Over
<1>2. IsFiniteSet(calls')
  BY <1>1, FS_RemoveElement DEF WomInv, WomTables
<1>3. Wom!TypeOK'
  BY <1>1 DEF WomInv, WomTables, Wom!TypeOK
<1>4. \A e \in calls' : Known(e)'
  BY <1>1 DEF WomInv, WomTables, Known
<1>5. Own'
  <2> SUFFICES ASSUME ~apart PROVE calls' = {}
    BY DEF Own
  <2> QED BY <1>1 DEF WomInv, Own
<1>6. KeptInSync'
  BY DEF KeptInSync, Wom!KeptInSync
<1> QED BY <1>2, <1>3, <1>4, <1>5, <1>6 DEF WomInv, WomTables

\* syncWomCompetition takes the row it is given.
LEMMA WomOnSync ==
    ASSUME WomInv, NEW n \in Titles, NEW e \in Wom!Ends \cup {None}, Wom!BeginSync(n, e), name' = n, end' = e,
           UNCHANGED <<womNow, competition, failed, wom>>,
           roster' \in Rosters \cup {Nobody}, drafting' \in BOOLEAN, womChanges' \in Nat, womFaults' \in Nat
    PROVE  WomInv'
<1>1. CASE competition = None
  <2>1. apart' = (apart \/ calls # {}) /\ calls' = calls
    BY <1>1 DEF Wom!BeginSync
  <2> QED BY <1>1, <2>1, WomUnsynced DEF WomInv, WomTables, Wom!TypeOK
<1>2. CASE competition # None
  <2>1. competition \in DOMAIN wom /\ competition \in Nat
    BY <1>2 DEF WomInv, WomTables, Wom!TypeOK
  <2>2. PICK c \in Wom!Calls : Wom!Begin(c) /\ c.step = "look" /\ c.of = competition /\ c.name = n /\ c.end = e
    <3> DEFINE new == [id |-> Wom!FreeId, step |-> "look", name |-> n, end |-> e, of |-> competition, roster |-> None, seen |-> None]
    <3>1. Wom!Cardinality(calls) < MaxCalls /\ Wom!Begin(new)
      BY <1>2 DEF Wom!BeginSync
    <3>2. Wom!FreeId \in 1..MaxCalls
      BY <3>1, FreeIdIsFree DEF WomInv, WomTables, Wom!TypeOK
    <3>3. new \in Wom!Calls
      BY <2>1, <3>2 DEF Wom!Calls
    <3> QED BY <3>1, <3>3
  <2>3. Known(c) /\ UpToDate(c)'
    BY <2>1, <2>2 DEF Known, UpToDate
  <2> QED BY <2>2, <2>3, WomBegins
<1> QED BY <1>1, <1>2

LEMMA WomOnLeave == ASSUME WomInv, Wom!LeaveDraft PROVE WomInv'
<1>1. /\ drafting' = FALSE /\ Wom!BeginCreate
      /\ UNCHANGED <<womNow, name, end, roster, competition, failed, wom, womChanges, womFaults>>
  BY DEF Wom!LeaveDraft
<1>2. /\ name \in Titles /\ end \in Wom!Ends \cup {None} /\ roster \in Rosters \cup {Nobody} /\ womChanges \in Nat /\ womFaults \in Nat
      /\ womNow \in 0..MaxWomTime /\ womNow <= womNow
  BY WomConstants DEF WomInv, WomTables, Wom!TypeOK
<1>3. CASE competition = None /\ roster # Nobody
  <2>1. PICK c \in Wom!Calls : Wom!Begin(c) /\ c.step = "create" /\ c.name = name /\ c.end = end /\ c.roster = roster
    <3> DEFINE new == [id |-> Wom!FreeId, step |-> "create", name |-> name, end |-> end, of |-> None, roster |-> roster, seen |-> None]
    <3>1. Wom!Cardinality(calls) < MaxCalls /\ Wom!Begin(new)
      BY <1>1, <1>3 DEF Wom!BeginCreate
    <3>2. Wom!FreeId \in 1..MaxCalls
      BY <3>1, FreeIdIsFree DEF WomInv, WomTables, Wom!TypeOK
    <3>3. new \in Wom!Calls
      BY <1>2, <3>2 DEF Wom!Calls
    <3> QED BY <3>1, <3>3
  <2>2. Known(c) /\ UpToDate(c)'
    BY <1>1, <1>2, <1>3, <2>1 DEF Known, UpToDate
  <2> QED BY <1>1, <1>2, <2>1, <2>2, WomBegins
<1>4. CASE ~(competition = None /\ roster # Nobody)
  <2>1. UNCHANGED <<calls, apart>>
    BY <1>1, <1>4 DEF Wom!BeginCreate
  <2> QED BY <1>1, <1>2, <2>1, WomLater
<1> QED BY <1>3, <1>4

\* Wise Old Man makes it as the Bingo was.
LEMMA WomOnCreate == ASSUME WomInv, NEW c \in calls, Wom!CreateLands(c) PROVE WomInv'
<1> DEFINE made == [name |-> c.name, hours |-> TRUE, end |-> IF c.end = None THEN TwoWeeks ELSE c.end, roster |-> c.roster]
<1>1. /\ c.step = "create" /\ wom' = Append(wom, made) /\ Wom!GoesOn(c, [c EXCEPT !.step = "created", !.of = Len(wom')])
      /\ UNCHANGED <<womNow, name, end, roster, drafting, competition, failed, apart, womChanges, womFaults>>
  BY DEF Wom!CreateLands, Wom!bingoVars
<1>2. c \in Wom!Calls /\ Known(c) /\ wom \in Seq(Wom!Competitions)
  BY DEF WomInv, WomTables, Wom!TypeOK
<1>3. made \in Wom!Competitions
  BY <1>1, <1>2 DEF Known, Wom!Competitions, Wom!Calls
<1>4. made.name = c.name /\ made.hours = TRUE /\ made.roster = c.roster /\ (c.end # None => made.end = c.end)
  OBVIOUS
<1> HIDE DEF made
<1>5. wom' \in Seq(Wom!Competitions) /\ Len(wom') = Len(wom) + 1 /\ wom'[Len(wom')] = made /\ DOMAIN wom \subseteq DOMAIN wom'
      /\ Len(wom') \in DOMAIN wom' /\ Len(wom') \in Nat
  BY <1>1, <1>2, <1>3, AppendProperties, LenProperties
<1>6. PICK d \in Wom!Calls : Wom!GoesOn(c, d) /\ d.step = "created" /\ d.of = Len(wom')
  <2> DEFINE next == [c EXCEPT !.step = "created", !.of = Len(wom')]
  <2>1. next \in Wom!Calls /\ next.step = "created" /\ next.of = Len(wom')
    BY <1>2, <1>5 DEF Wom!Calls
  <2> QED BY <1>1, <2>1
<1>8. Known(d)'
  BY <1>5, <1>6 DEF Known
<1>9. ~apart => UpToDate(d)'
  <2>1. ~apart => c.name = name /\ c.end = end /\ c.roster = roster
    BY <1>1 DEF WomInv, Own, UpToDate
  <2> QED BY <1>1, <1>4, <1>5, <1>6, <2>1 DEF UpToDate, Wom!InStep
<1> QED BY <1>1, <1>5, <1>6, <1>8, <1>9, WomGoesOn

LEMMA WomOnLook == ASSUME WomInv, NEW c \in calls, Wom!Look(c) PROVE WomInv'
<1>1. /\ c.step = "look" /\ Wom!GoesOn(c, [c EXCEPT !.step = "compare", !.seen = wom[c.of]]) /\ wom' = wom
      /\ UNCHANGED <<womNow, name, end, roster, drafting, competition, failed, apart, womChanges, womFaults>>
  BY DEF Wom!Look, Wom!bingoVars
<1>2. c \in Wom!Calls /\ Known(c) /\ wom \in Seq(Wom!Competitions) /\ \A i \in DOMAIN wom : wom[i] \in Wom!Competitions
  BY DEF WomInv, WomTables, Wom!TypeOK
<1>3. wom[c.of] \in Wom!Competitions /\ c.of \in DOMAIN wom
  BY <1>1, <1>2 DEF Known
<1>4. PICK d \in Wom!Calls : /\ Wom!GoesOn(c, d)
                             /\ d.step = "compare" /\ d.of = c.of /\ d.seen = wom[c.of] /\ d.name = c.name /\ d.end = c.end
  <2> DEFINE next == [c EXCEPT !.step = "compare", !.seen = wom[c.of]]
  <2>1. /\ next \in Wom!Calls
        /\ next.step = "compare" /\ next.of = c.of /\ next.seen = wom[c.of] /\ next.name = c.name /\ next.end = c.end
    BY <1>2, <1>3 DEF Wom!Calls
  <2> QED BY <1>1, <2>1
<1>5. Known(d)'
  BY <1>1, <1>3, <1>4, WomConstants DEF Known
<1>6. ~apart => UpToDate(d)'
  BY <1>1, <1>4 DEF WomInv, Own, UpToDate
<1> QED BY <1>1, <1>2, <1>4, <1>5, <1>6, WomGoesOn

LEMMA WomOnCompare == ASSUME WomInv, NEW c \in calls, Wom!Compare(c) PROVE WomInv'
<1>1. /\ c.step = "compare" /\ wom' = wom /\ competition' = competition
      /\ UNCHANGED <<womNow, name, end, roster, drafting, apart, womChanges, womFaults>>
  BY DEF Wom!Compare, Wom!bingoVars
<1>2. c \in Wom!Calls /\ Known(c) /\ wom \in Seq(Wom!Competitions) /\ competition \in DOMAIN wom \cup {None}
      /\ roster \in Rosters \cup {Nobody} /\ failed \in BOOLEAN /\ womFaults \in Nat
  BY DEF WomInv, WomTables, Wom!TypeOK
<1>3. c.seen \in Wom!Competitions
  BY <1>1, <1>2 DEF Known, Wom!Calls
<1> DEFINE w == Wom!Wanted(c)
<1>4. /\ w.name = c.name /\ w.hours = TRUE
      /\ w.end = Wom!EndFor(c) /\ w.roster = IF roster = Nobody THEN c.seen.roster ELSE roster
  BY DEF Wom!Wanted
<1>5. w.end \in Wom!Ends \cup {TwoWeeks} /\ w.roster \in Rosters /\ w.name \in Titles
  BY <1>2, <1>3, <1>4 DEF Wom!EndFor, Wom!Calls, Wom!Competitions
<1>6. ~apart => /\ c.of = competition /\ c.name = name /\ c.end = end /\ c.seen = wom[c.of]
                /\ w.name = name /\ (end # None => w.end = end \/ w.end <= womNow) /\ (roster # Nobody => w.roster = roster)
  BY <1>1, <1>4 DEF WomInv, Own, UpToDate, Wom!EndFor
<1>7. CASE w = c.seen
  <2>1. failed' = FALSE /\ Wom!Over(c)
    BY <1>7 DEF Wom!Compare
  <2>2. ~apart => Wom!InStep(wom[competition])'
    BY <1>1, <1>4, <1>6, <1>7 DEF Wom!InStep
  <2> QED BY <1>1, <1>2, <2>1, <2>2, WomOver
<1>8. CASE w # c.seen
  <2>1. Wom!GoesOn(c, [c EXCEPT !.step = "edit", !.name = w.name, !.end = w.end, !.roster = w.roster]) /\ failed' = failed
    BY <1>8 DEF Wom!Compare
  <2>2. PICK d \in Wom!Calls : /\ Wom!GoesOn(c, d) /\ d.step = "edit" /\ d.of = c.of /\ d.seen = c.seen
                               /\ d.name = w.name /\ d.end = w.end /\ d.roster = w.roster
    <3> DEFINE next == [c EXCEPT !.step = "edit", !.name = w.name, !.end = w.end, !.roster = w.roster]
    <3> HIDE DEF w
    <3>1. /\ next \in Wom!Calls /\ next.step = "edit" /\ next.of = c.of /\ next.seen = c.seen
          /\ next.name = w.name /\ next.end = w.end /\ next.roster = w.roster
      BY <1>2, <1>5 DEF Wom!Calls
    <3> QED BY <2>1, <3>1
  <2> HIDE DEF w
  <2>3. Known(d)'
    BY <1>1, <1>2, <1>3, <1>5, <2>2, WomConstants DEF Known
  <2>4. ~apart => UpToDate(d)'
    <3> SUFFICES ASSUME ~apart PROVE UpToDate(d)'
      OBVIOUS
    <3>1. Wom!Edited(d)' = Wom!Edited(d)
      BY <1>1 DEF Wom!Edited
    <3>2. wom[d.of] = d.seen /\ d.seen.hours \in BOOLEAN
      BY <1>3, <1>6, <2>2 DEF Wom!Competitions
    <3>3. /\ Wom!Edited(d).name = w.name /\ Wom!Edited(d).end = w.end /\ Wom!Edited(d).roster = w.roster
          /\ Wom!Edited(d).hours
      BY <2>2, <3>2 DEF Wom!Edited
    <3>4. Wom!InStep(Wom!Edited(d))'
      BY <1>1, <1>6, <3>1, <3>3 DEF Wom!InStep
    <3> QED BY <1>1, <1>6, <2>2, <3>4 DEF UpToDate
  <2> QED BY <1>1, <1>2, <2>1, <2>2, <2>3, <2>4, WomGoesOn
<1> QED BY <1>7, <1>8

LEMMA WomOnCreated == ASSUME WomInv, NEW c \in calls, Wom!Created(c) PROVE WomInv'
<1>1. /\ c.step = "created" /\ competition' = c.of /\ failed' = FALSE /\ Wom!Over(c) /\ wom' = wom
      /\ UNCHANGED <<womNow, name, end, roster, drafting, apart, womChanges, womFaults>>
  BY DEF Wom!Created, Wom!bingoVars
<1>2. c.of \in DOMAIN wom /\ wom \in Seq(Wom!Competitions) /\ womFaults \in Nat
  BY <1>1 DEF WomInv, WomTables, Wom!TypeOK, Known
<1>3. ~apart => Wom!InStep(wom[competition])'
  BY <1>1 DEF WomInv, Own, UpToDate, Wom!InStep
<1> QED BY <1>1, <1>2, <1>3, WomOver

\* What an edit makes of a competition.
LEMMA EditedIs ==
    ASSUME WomInv, NEW c \in calls, c.step = "edit"
    PROVE  /\ c.of \in DOMAIN wom /\ Wom!Edited(c) \in Wom!Competitions
           /\ [wom EXCEPT ![c.of] = Wom!Edited(c)] \in Seq(Wom!Competitions)
           /\ DOMAIN [wom EXCEPT ![c.of] = Wom!Edited(c)] = DOMAIN wom
<1>1. c \in Wom!Calls /\ Known(c) /\ wom \in Seq(Wom!Competitions) /\ \A i \in DOMAIN wom : wom[i] \in Wom!Competitions
  BY DEF WomInv, WomTables, Wom!TypeOK
<1>2. c.of \in DOMAIN wom /\ wom[c.of] \in Wom!Competitions /\ c.roster \in Rosters /\ c.end # None
  BY <1>1 DEF Known
<1>3. Wom!Edited(c) \in Wom!Competitions
  BY <1>1, <1>2 DEF Wom!Edited, Wom!Competitions, Wom!Calls
<1> QED BY <1>1, <1>2, <1>3, ExceptSeq

LEMMA WomOnEdit == ASSUME WomInv, NEW c \in calls, Wom!Edit(c) PROVE WomInv'
<1>1. /\ c.step = "edit" /\ wom' = [wom EXCEPT ![c.of] = Wom!Edited(c)] /\ failed' = FALSE /\ Wom!Over(c)
      /\ competition' = competition /\ UNCHANGED <<womNow, name, end, roster, drafting, apart, womChanges, womFaults>>
  BY DEF Wom!Edit, Wom!bingoVars
<1>2. /\ c.of \in DOMAIN wom /\ wom' \in Seq(Wom!Competitions) /\ DOMAIN wom' = DOMAIN wom
      /\ competition \in DOMAIN wom \cup {None} /\ womFaults \in Nat
  BY <1>1, EditedIs DEF WomInv, WomTables, Wom!TypeOK
<1>3. wom'[c.of] = Wom!Edited(c)
  BY <1>1, <1>2
<1>4. ~apart => c.of = competition /\ Wom!InStep(Wom!Edited(c))
  BY <1>1 DEF WomInv, Own, UpToDate
<1>5. ~apart => Wom!InStep(wom[competition])'
  BY <1>1, <1>3, <1>4 DEF Wom!InStep
<1> QED BY <1>1, <1>2, <1>5, WomOver

LEMMA WomOnFails == ASSUME WomInv, NEW c \in calls, Wom!Fails(c) PROVE WomInv'
<1>1. /\ failed' = TRUE /\ Wom!Over(c) /\ competition' = competition /\ womFaults' = womFaults + 1
      /\ wom' = wom \/ (c.step = "edit" /\ wom' = [wom EXCEPT ![c.of] = Wom!Edited(c)])
      /\ UNCHANGED <<womNow, name, end, roster, drafting, apart, womChanges>>
  BY DEF Wom!Fails, Wom!Fault, Wom!bingoVars
<1>2. wom' \in Seq(Wom!Competitions) /\ DOMAIN wom' = DOMAIN wom
  BY <1>1, EditedIs DEF WomInv, WomTables, Wom!TypeOK
<1>3. competition \in DOMAIN wom \cup {None} /\ womFaults' \in Nat
  BY <1>1 DEF WomInv, WomTables, Wom!TypeOK
<1> QED BY <1>1, <1>2, <1>3, WomOver

LEMMA WomInductive == WomInv /\ [Wom!Next]_(Wom!vars) => WomInv'
<1> SUFFICES ASSUME WomInv, [Wom!Next]_(Wom!vars) PROVE WomInv'
  OBVIOUS
<1>1. /\ name \in Titles /\ end \in Wom!Ends \cup {None} /\ roster \in Rosters \cup {Nobody} /\ drafting \in BOOLEAN
      /\ wom \in Seq(Wom!Competitions) /\ womChanges \in Nat /\ womFaults \in Nat
      /\ womNow \in 0..MaxWomTime /\ womNow \in Nat /\ womNow <= womNow
  BY WomConstants DEF WomInv, WomTables, Wom!TypeOK
<1>2. womChanges + 1 \in Nat
  BY <1>1
<1>3. ASSUME NEW n \in Titles, NEW e \in Wom!Ends \cup {None}, Wom!Settings(n, e) PROVE WomInv'
  BY <1>1, <1>2, <1>3, WomOnSync DEF Wom!Settings, Wom!MayChange
<1>4. ASSUME NEW r \in Rosters \cup {Nobody}, Wom!ChangeTeams(r) PROVE WomInv'
  BY <1>1, <1>2, <1>4, WomOnSync DEF Wom!ChangeTeams, Wom!MayChange
<1>5. ASSUME NEW r \in Rosters \cup {Nobody}, Wom!DraftTeams(r) PROVE WomInv'
  BY <1>1, <1>2, <1>5, WomUnsynced DEF Wom!DraftTeams, Wom!MayChange
<1>6. CASE Wom!BackToDraft
  BY <1>1, <1>2, <1>6, WomLater DEF Wom!BackToDraft, Wom!MayChange
<1>7. CASE Wom!GoLive
  BY <1>1, <1>2, <1>7, WomOnSync DEF Wom!GoLive, Wom!MayChange, Wom!bingoVars
<1>8. ASSUME NEW there \in Wom!Competitions, Wom!Elsewhere(there) PROVE WomInv'
  <2>1. /\ competition # None /\ wom' = [wom EXCEPT ![competition] = there] /\ apart' = TRUE /\ womChanges' = womChanges + 1
        /\ UNCHANGED <<womNow, name, end, roster, drafting, competition, failed, calls, womFaults>>
    BY <1>8 DEF Wom!Elsewhere, Wom!MayChange, Wom!bingoVars
  <2>2. wom' \in Seq(Wom!Competitions) /\ DOMAIN wom' = DOMAIN wom
    BY <1>1, <2>1, ExceptSeq DEF WomInv, WomTables, Wom!TypeOK
  <2> QED BY <1>1, <1>2, <2>1, <2>2, WomUnsynced
<1>9. CASE Wom!Tick
  <2>1. womNow' \in 0..MaxWomTime /\ womNow <= womNow'
    BY <1>1, <1>9, WomConstants DEF Wom!Tick
  <2> QED BY <1>1, <1>9, <2>1, WomLater DEF Wom!Tick, Wom!bingoVars
<1>10. CASE UNCHANGED Wom!vars
  BY <1>1, <1>10, WomLater DEF Wom!vars, Wom!bingoVars
<1> QED BY <1>3, <1>4, <1>5, <1>6, <1>7, <1>8, <1>9, <1>10,
           WomOnLeave, WomOnCreate, WomOnCreated, WomOnLook, WomOnCompare, WomOnEdit, WomOnFails DEF Wom!Next

LEMMA WomAlways == Wom!Spec => []WomInv
<1>1. Wom!Init => WomInv
  <2> SUFFICES ASSUME Wom!Init PROVE WomInv
    OBVIOUS
  <2>1. /\ womNow = 0 /\ name \in Titles /\ end \in Wom!Ends \cup {None} /\ roster = Nobody /\ drafting = TRUE
        /\ competition = None /\ failed = FALSE /\ wom = <<>> /\ calls = {} /\ apart = FALSE /\ womChanges = 0 /\ womFaults = 0
    BY DEF Wom!Init
  <2>2. 0 \in 0..MaxWomTime /\ <<>> \in Seq(Wom!Competitions) /\ IsFiniteSet({})
    BY WomConstants, FS_EmptySet
  <2>3. Wom!TypeOK
    BY <2>1, <2>2 DEF Wom!TypeOK
  <2>4. WomTables
    BY <2>1, <2>2, <2>3 DEF WomTables
  <2> QED BY <2>1, <2>4 DEF WomInv, Own, KeptInSync, Wom!KeptInSync
<1> QED BY <1>1, WomInductive, PTL DEF Wom!Spec

\* With no sync running and no error to show, the competition is as the Bingo is, unless a sync crossed another or a change
\* that starts none: for any number of syncs, changes, failures and lost answers.
THEOREM CompetitionKeptInSync == Wom!Spec => []KeptInSync
<1>1. WomInv => KeptInSync
  BY DEF WomInv
<1> QED BY <1>1, WomAlways, PTL

\* Every sync has a name of its own to run under, and knows only competitions that there are.
THEOREM CompetitionTyped == Wom!Spec => []Wom!TypeOK
<1>1. WomInv => Wom!TypeOK
  BY DEF WomInv, WomTables
<1> QED BY <1>1, WomAlways, PTL

-----------------------------------------------------------------------------
(* The Discord team sync. R, g and j stand for what is written, what there *)
(* is in Discord and the job that runs.                                     *)

Is(g, id) == id \in DOMAIN g /\ g[id] # None

\* What the job gave the members of a Team, and took from who left it.
Given(j, t) == {p \in Players : Discord!Task(t, "add", p) \in j.done}
Taken(j, t) == {p \in Players : Discord!Task(t, "take", p) \in j.done}

\* What a job has done, its rows show, and no later task comes before an earlier one.
DoneShows(j, R) == \A d \in j.done :
    /\ d.what \in Discord!Kinds =>
        /\ d.team \in Discord!Exist(j.wants) /\ R[<<d.team, d.what>>] # None
        /\ R[<<d.team, d.what>>].name = j.wants[d.team].name
        /\ R[<<d.team, d.what>>].role = IF d.what = "role" THEN 0 ELSE R[<<d.team, "role">>].id
    /\ d.what = "add" => d.team \in Discord!Exist(j.wants) /\ d.who \in j.wants[d.team].members
    /\ d.what = "take" => d.team \in Discord!Exist(j.wants) /\ d.who \notin j.wants[d.team].members
    /\ d.what \in {"add", "take"} => R[<<d.team, "role">>] # None
    /\ d.what \in {"dropRole", "dropChannel"} => d.team \notin Discord!Exist(j.wants) /\ R[<<d.team, Discord!Kind(d)>>] = None

InTurn(j, R) == \A d \in j.done : \A x \in Discord!ToDo(j, R) : Discord!Rank(d) <= Discord!Rank(x)

\* Whom a Team's role was given to and taken from is written, unless some are left.
MembersWritten(j, R) == j.done # {} => \A t \in Discord!Exist(j.wants) :
    \/ Discord!MembersLeft(j, R, t)
    \/ Given(j, t) \subseteq Discord!Had(R, t) /\ Taken(j, t) \cap Discord!Had(R, t) = {}

OnPaper(j, R) == DoneShows(j, R) /\ InTurn(j, R) /\ MembersWritten(j, R)

\* Each row is of an object of its own, which is as the row says but for the members given and taken since.
OneRowEach(R, g) == \A p \in Discord!Places : R[p] # None =>
    /\ R[p].id \in DOMAIN g
    /\ \A q \in Discord!Places : R[q] # None /\ R[q].id = R[p].id => q = p

AsWritten(j, R, g) == \A t \in DiscordTeams, k \in Discord!Kinds : R[<<t, k>>] # None /\ Is(g, R[<<t, k>>].id) =>
    /\ g[R[<<t, k>>].id].name = R[<<t, k>>].name
    /\ g[R[<<t, k>>].id].role = R[<<t, k>>].role
    /\ k = "role" => g[R[<<t, k>>].id].members = (R[<<t, k>>].members \cup Given(j, t)) \ Taken(j, t)

AllWritten(R, g) == \A id \in DOMAIN g : g[id] # None => \E p \in Discord!Places : R[p] # None /\ R[p].id = id

\* A Sync now during which nothing was deleted leaves no row of an object that's gone.
AllStand(R, g) == \A p \in Discord!Places : R[p] # None => Is(g, R[p].id)
Heals(j, R, g) == j.healing => \A t \in DiscordTeams, k \in Discord!Kinds :
    Discord!Task(t, k, None) \in j.done => R[<<t, k>>] # None /\ Is(g, R[<<t, k>>].id)

InGuild(j, R, g) == OneRowEach(R, g) /\ AsWritten(j, R, g) /\ AllWritten(R, g) /\ Heals(j, R, g)

NoJob == [kind |-> "sync", force |-> FALSE, healing |-> FALSE, wants |-> None, done |-> {}]
Job == IF job = None THEN NoJob ELSE job

\* The last change has a sync of its own: one that waits behind every removal, or runs, or has run and failed or put all in
\* its place.
Removals == {i \in DOMAIN queue : queue[i].kind = "remove"}
Awaited == \E i \in Discord!Waiting : \A k \in Removals : k < i
AllInPlace ==
    /\ \A t \in Discord!Exist(teams) : Discord!HasItsPlace(t)
    /\ \A p \in Discord!Places : rows[p] # None => p[1] \in Discord!Exist(teams)
Promise == enabled /\ ~unasked =>
    \/ Awaited
    \/ /\ Removals = {}
       /\ IF job # None THEN job.kind = "sync" /\ job.wants \in {None, teams} ELSE error \/ tampered \/ AllInPlace

DiscordInv ==
    /\ Discord!TypeOK
    /\ job # None => (job.wants = None => job.done = {}) /\ (job.healing => job.force)
    /\ OnPaper(Job, rows)
    /\ ~lost => InGuild(Job, rows, guild) /\ (~tampered => AllStand(rows, guild)) /\ Promise

LEMMA DiscordConstants ==
    /\ DiscordTeams \subseteq Nat /\ None \notin Discord!Rows /\ None \notin Discord!Objects /\ None \notin Discord!Jobs
    /\ \A t \in DiscordTeams : Discord!Max(DiscordTeams) \in Nat /\ t <= Discord!Max(DiscordTeams)
<1>1. PICK n \in Nat : DiscordTeams = 1..n
  BY ServicesAssumption DEF Discord!Assumption
<1>2. \A t \in DiscordTeams : n \in DiscordTeams /\ \A u \in DiscordTeams : n >= u
  BY <1>1
<1>3. \A t \in DiscordTeams : Discord!Max(DiscordTeams) \in DiscordTeams /\ \A u \in DiscordTeams : Discord!Max(DiscordTeams) >= u
  BY <1>2, Zenon DEF Discord!Max
<1> QED BY <1>1, <1>3, ServicesAssumption DEF Discord!Assumption

\* Where a task comes in a sync.
LastTeam == 4 * Discord!Max(DiscordTeams)

LEMMA RankIs ==
    ASSUME NEW x \in Discord!Tasks
    PROVE  /\ x.team \in Nat /\ LastTeam \in Nat /\ 4 * x.team <= LastTeam /\ Discord!Rank(x) \in Nat
           /\ x.what = "role" => Discord!Rank(x) = 4 * x.team
           /\ x.what = "add" => Discord!Rank(x) = 4 * x.team + 1
           /\ x.what = "take" => Discord!Rank(x) = 4 * x.team + 2
           /\ x.what = "channel" => Discord!Rank(x) = 4 * x.team + 3
           /\ x.what = "dropChannel" => Discord!Rank(x) = LastTeam + 4
           /\ x.what = "dropRole" => Discord!Rank(x) = LastTeam + 5
<1>1. x.team \in DiscordTeams /\ x.what \in {"role", "add", "take", "channel", "dropChannel", "dropRole"}
  BY DEF Discord!Tasks
<1>2. Discord!Max(DiscordTeams) \in Nat /\ x.team \in Nat /\ x.team <= Discord!Max(DiscordTeams)
  BY <1>1, DiscordConstants
<1> DEFINE max == Discord!Max(DiscordTeams)
<1>3. /\ x.what = "role" => Discord!Rank(x) = 4 * x.team
      /\ x.what = "add" => Discord!Rank(x) = 4 * x.team + 1
      /\ x.what = "take" => Discord!Rank(x) = 4 * x.team + 2
      /\ x.what = "channel" => Discord!Rank(x) = 4 * x.team + 3
      /\ x.what = "dropChannel" => Discord!Rank(x) = 4 * max + 4
      /\ x.what = "dropRole" => Discord!Rank(x) = 4 * max + 5
  BY DEF Discord!Rank
<1> HIDE DEF max
<1>4. max \in Nat /\ x.team \in Nat /\ x.team <= max
  BY <1>2 DEF max
<1>5. \A a, b \in Nat : a <= b => 4 * a \in Nat /\ 4 * b \in Nat /\ 4 * a <= 4 * b
  OBVIOUS
<1>6. 4 * max \in Nat /\ 4 * x.team \in Nat /\ 4 * x.team <= 4 * max
  BY <1>4, <1>5
<1>7. \A n \in Nat : n + 1 \in Nat /\ n + 2 \in Nat /\ n + 3 \in Nat /\ n + 4 \in Nat /\ n + 5 \in Nat
  OBVIOUS
<1>8. Discord!Rank(x) \in Nat
  BY <1>1, <1>3, <1>6, <1>7, Zenon
<1> QED BY <1>3, <1>4, <1>6, <1>8 DEF max, LastTeam

\* What there is to do, by what it is.
Due(j, R, x) ==
    \/ /\ x.what \in Discord!Kinds /\ x.who = None /\ x.team \in Discord!Exist(j.wants)
       /\ \/ R[<<x.team, x.what>>] = None
          \/ j.force
          \/ R[<<x.team, x.what>>].name # j.wants[x.team].name
          \/ R[<<x.team, x.what>>].role # IF x.what = "role" THEN 0 ELSE R[<<x.team, "role">>].id
    \/ /\ x.what = "add" /\ x.team \in Discord!Exist(j.wants) /\ x.who \in j.wants[x.team].members
       /\ x.who \notin Discord!Had(R, x.team) \/ j.force
    \/ /\ x.what = "take" /\ x.team \in Discord!Exist(j.wants)
       /\ x.who \in Discord!Had(R, x.team) /\ x.who \notin j.wants[x.team].members
    \/ /\ x.what \in {"dropRole", "dropChannel"} /\ x.who = None /\ x.team \in DiscordTeams \ Discord!Exist(j.wants)
       /\ R[<<x.team, Discord!Kind(x)>>] # None

RowTables == [Discord!Places -> Discord!Rows \cup {None}]

\* A job that has read the Teams.
Reads1(j) == j \in Discord!Jobs /\ j.wants \in Discord!TeamTables

LEMMA MembersTyped ==
    ASSUME NEW j, Reads1(j), NEW R \in RowTables, NEW t \in Discord!Exist(j.wants)
    PROVE  t \in DiscordTeams /\ j.wants[t] \in Discord!TeamRows /\ j.wants[t].members \subseteq Players /\ Discord!Had(R, t) \subseteq Players
<1>1. t \in DiscordTeams /\ j.wants[t] \in Discord!TeamRows
  BY DEF Discord!Exist, Reads1, Discord!TeamTables
<1>2. R[<<t, "role">>] \in Discord!Rows \cup {None}
  BY <1>1 DEF RowTables, Discord!Places, Discord!Kinds
<1> QED BY <1>1, <1>2 DEF Discord!Had, Discord!Rows, Discord!TeamRows

LEMMA ToDoIs ==
    ASSUME NEW j, Reads1(j), NEW R \in RowTables, NEW x
    PROVE  x \in Discord!ToDo(j, R) <=> x \in Discord!Tasks /\ x \notin j.done /\ Due(j, R, x)
<1>1. ASSUME NEW t \in Discord!Exist(j.wants)
      PROVE  x \in Discord!Ensures(j, R, t) <=> /\ x \in Discord!Tasks /\ x.team = t /\ x.what \in Discord!Kinds /\ Due(j, R, x)
  <2>1. t \in DiscordTeams
    BY DEF Discord!Exist
  <2>2. \A k \in Discord!Kinds : Discord!Task(t, k, None) \in Discord!Tasks
    BY <2>1 DEF Discord!Task, Discord!Tasks, Discord!Kinds
  <2>3. ASSUME NEW k \in Discord!Kinds
        PROVE  [name |-> R[<<t, k>>].name, role |-> R[<<t, k>>].role] # Discord!WantedBody(j, R, t, k) <=>
                  \/ R[<<t, k>>].name # j.wants[t].name
                  \/ R[<<t, k>>].role # IF k = "role" THEN 0 ELSE R[<<t, "role">>].id
    BY DEF Discord!WantedBody
  <2>4. x \in Discord!Ensures(j, R, t) <=> \E k \in Discord!Kinds :
            x = Discord!Task(t, k, None) /\ (\/ R[<<t, k>>] = None \/ j.force
                                           \/ R[<<t, k>>].name # j.wants[t].name
                                           \/ R[<<t, k>>].role # IF k = "role" THEN 0 ELSE R[<<t, "role">>].id)
    BY <2>3 DEF Discord!Ensures
  <2>5. ASSUME x \in Discord!Tasks, x.team = t, x.what \in Discord!Kinds, Due(j, R, x)
        PROVE  x \in Discord!Ensures(j, R, t)
    <3>1. x = Discord!Task(t, x.what, None)
      BY <2>5 DEF Due, Discord!Tasks, Discord!Task, Discord!Kinds
    <3> QED BY <2>4, <2>5, <3>1 DEF Due, Discord!Kinds
  <2>6. ASSUME x \in Discord!Ensures(j, R, t)
        PROVE  x \in Discord!Tasks /\ x.team = t /\ x.what \in Discord!Kinds /\ Due(j, R, x)
    <3>1. PICK k \in Discord!Kinds :
            x = Discord!Task(t, k, None) /\ (\/ R[<<t, k>>] = None \/ j.force
                                           \/ R[<<t, k>>].name # j.wants[t].name
                                           \/ R[<<t, k>>].role # IF k = "role" THEN 0 ELSE R[<<t, "role">>].id)
      BY <2>4, <2>6
    <3>2. x.team = t /\ x.what = k /\ x.who = None /\ x \in Discord!Tasks
      BY <2>2, <3>1 DEF Discord!Task
    <3> QED BY <3>1, <3>2 DEF Due
  <2> QED BY <2>5, <2>6
<1>2. ASSUME NEW t \in Discord!Exist(j.wants)
      PROVE  x \in Discord!Gives(j, R, t) <=> /\ x \in Discord!Tasks /\ x.team = t /\ x.what \in {"add", "take"} /\ Due(j, R, x)
  <2>1. t \in DiscordTeams /\ j.wants[t].members \subseteq Players /\ Discord!Had(R, t) \subseteq Players
    BY MembersTyped
  <2>2. x \in Discord!Gives(j, R, t) <=>
            \/ \E p \in j.wants[t].members : x = Discord!Task(t, "add", p) /\ (p \notin Discord!Had(R, t) \/ j.force)
            \/ \E p \in Discord!Had(R, t) : x = Discord!Task(t, "take", p) /\ p \notin j.wants[t].members
    BY DEF Discord!Gives
  <2>3. ASSUME x \in Discord!Tasks, x.team = t, x.what \in {"add", "take"}, Due(j, R, x)
        PROVE  x \in Discord!Gives(j, R, t)
    <3>1. x = Discord!Task(t, x.what, x.who)
      BY <2>3 DEF Discord!Tasks, Discord!Task
    <3> QED BY <2>2, <2>3, <3>1 DEF Due, Discord!Kinds
  <2>4. ASSUME NEW p \in Players, NEW w \in {"add", "take"}, x = Discord!Task(t, w, p)
        PROVE  x \in Discord!Tasks /\ x.team = t /\ x.what = w /\ x.who = p
    BY <2>1, <2>4 DEF Discord!Tasks, Discord!Task
  <2>5. ASSUME x \in Discord!Gives(j, R, t)
        PROVE  x \in Discord!Tasks /\ x.team = t /\ x.what \in {"add", "take"} /\ Due(j, R, x)
    BY <2>1, <2>2, <2>4, <2>5 DEF Due
  <2> QED BY <2>3, <2>5
<1>3. x \in Discord!Drops(j, R) <=> x \in Discord!Tasks /\ x.what \in {"dropRole", "dropChannel"} /\ Due(j, R, x)
  <2>1. x \in Discord!Drops(j, R) <=> \E t \in DiscordTeams, k \in Discord!Kinds :
            t \notin Discord!Exist(j.wants) /\ R[<<t, k>>] # None
            /\ x = Discord!Task(t, IF k = "role" THEN "dropRole" ELSE "dropChannel", None)
    <3> DEFINE what(p) == IF p[2] = "role" THEN "dropRole" ELSE "dropChannel"
    <3>1. x \in Discord!Drops(j, R) <=> \E q \in Discord!Places :
            q[1] \notin Discord!Exist(j.wants) /\ R[q] # None /\ x = Discord!Task(q[1], what(q), None)
      BY DEF Discord!Drops
    <3>2. \A q \in Discord!Places : q[1] \in DiscordTeams /\ q[2] \in Discord!Kinds /\ q = <<q[1], q[2]>>
      BY DEF Discord!Places
    <3>3. \A t \in DiscordTeams, k \in Discord!Kinds : <<t, k>> \in Discord!Places /\ <<t, k>>[1] = t /\ <<t, k>>[2] = k
      BY DEF Discord!Places
    <3>4. ASSUME NEW t \in DiscordTeams, NEW k \in Discord!Kinds
          PROVE  what(<<t, k>>) = IF k = "role" THEN "dropRole" ELSE "dropChannel"
      OBVIOUS
    <3> HIDE DEF what
    <3>5. ASSUME NEW q \in Discord!Places
          PROVE  what(q) = IF q[2] = "role" THEN "dropRole" ELSE "dropChannel"
      BY DEF what
    <3>6. ASSUME x \in Discord!Drops(j, R)
          PROVE  \E t \in DiscordTeams, k \in Discord!Kinds :
                    t \notin Discord!Exist(j.wants) /\ R[<<t, k>>] # None
                    /\ x = Discord!Task(t, IF k = "role" THEN "dropRole" ELSE "dropChannel", None)
      <4>1. PICK q \in Discord!Places : q[1] \notin Discord!Exist(j.wants) /\ R[q] # None /\ x = Discord!Task(q[1], what(q), None)
        BY <3>1, <3>6
      <4>2. q[1] \in DiscordTeams /\ q[2] \in Discord!Kinds /\ R[<<q[1], q[2]>>] # None
        BY <3>2, <4>1
      <4> QED BY <3>5, <4>1, <4>2
    <3>7. ASSUME NEW t \in DiscordTeams, NEW k \in Discord!Kinds, t \notin Discord!Exist(j.wants), R[<<t, k>>] # None,
                 x = Discord!Task(t, IF k = "role" THEN "dropRole" ELSE "dropChannel", None)
          PROVE  x \in Discord!Drops(j, R)
      <4>1. <<t, k>> \in Discord!Places /\ <<t, k>>[1] = t
        BY <3>3
      <4> QED BY <3>1, <3>4, <3>7, <4>1
    <3> QED BY <3>6, <3>7
  <2>2. ASSUME NEW t \in DiscordTeams, NEW k \in Discord!Kinds,
               x = Discord!Task(t, IF k = "role" THEN "dropRole" ELSE "dropChannel", None)
        PROVE  x \in Discord!Tasks /\ x.what \in {"dropRole", "dropChannel"} /\ x.team = t /\ x.who = None /\ Discord!Kind(x) = k
    BY <2>2 DEF Discord!Tasks, Discord!Task, Discord!Kind, Discord!Kinds
  <2>3. ASSUME x \in Discord!Drops(j, R)
        PROVE  x \in Discord!Tasks /\ x.what \in {"dropRole", "dropChannel"} /\ Due(j, R, x)
    BY <2>1, <2>2, <2>3 DEF Due
  <2>4. ASSUME x \in Discord!Tasks, x.what \in {"dropRole", "dropChannel"}, Due(j, R, x)
        PROVE  x \in Discord!Drops(j, R)
    <3>1. x.who = None /\ x.team \in DiscordTeams \ Discord!Exist(j.wants) /\ R[<<x.team, Discord!Kind(x)>>] # None
      BY <2>4 DEF Due, Discord!Kinds
    <3>2. Discord!Kind(x) \in Discord!Kinds /\ x.what = IF Discord!Kind(x) = "role" THEN "dropRole" ELSE "dropChannel"
      BY <2>4 DEF Discord!Kind, Discord!Kinds
    <3>3. x = Discord!Task(x.team, x.what, None)
      BY <2>4, <3>1 DEF Discord!Tasks, Discord!Task
    <3> QED BY <2>1, <3>1, <3>2, <3>3
  <2> QED BY <2>3, <2>4
<1>4. x \in Discord!ToDo(j, R) <=>
        x \notin j.done /\ (\/ \E t \in Discord!Exist(j.wants) : x \in Discord!Ensures(j, R, t) \/ x \in Discord!Gives(j, R, t)
                          \/ x \in Discord!Drops(j, R))
  BY DEF Discord!ToDo
<1>5. Due(j, R, x) /\ x.what \in Discord!Kinds \cup {"add", "take"} => x.team \in Discord!Exist(j.wants)
  BY DEF Due, Discord!Kinds
<1>6. x \in Discord!Tasks => x.what \in Discord!Kinds \cup {"add", "take"} \cup {"dropRole", "dropChannel"}
  BY DEF Discord!Tasks, Discord!Kinds
<1> QED BY <1>1, <1>2, <1>3, <1>4, <1>5, <1>6

LEMMA DueElsewhere ==
    ASSUME NEW j, NEW R, NEW R2, NEW x \in Discord!Tasks,
           \A k \in Discord!Kinds : R2[<<x.team, k>>] = R[<<x.team, k>>]
    PROVE  Discord!Had(R2, x.team) = Discord!Had(R, x.team) /\ (Due(j, R2, x) <=> Due(j, R, x))
<1>1. /\ R2[<<x.team, "role">>] = R[<<x.team, "role">>] /\ R2[<<x.team, Discord!Kind(x)>>] = R[<<x.team, Discord!Kind(x)>>]
      /\ x.what \in Discord!Kinds => R2[<<x.team, x.what>>] = R[<<x.team, x.what>>]
  BY DEF Discord!Kind, Discord!Kinds
<1>2. Discord!Had(R2, x.team) = Discord!Had(R, x.team)
  BY <1>1 DEF Discord!Had
<1> QED BY <1>1, <1>2 DEF Due

\* The job once a call it made is answered.
Done(j, x) == [j EXCEPT !.done = @ \cup {x}]

LEMMA DoneIs ==
    ASSUME NEW j, Reads1(j), NEW x \in Discord!Tasks
    PROVE  /\ Reads1(Done(j, x)) /\ Done(j, x).done = j.done \cup {x}
           /\ Done(j, x).wants = j.wants /\ Done(j, x).force = j.force
           /\ Done(j, x).healing = j.healing /\ Done(j, x).kind = j.kind
           /\ \A R, y : Due(Done(j, x), R, y) <=> Due(j, R, y)
<1>1. /\ Reads1(Done(j, x)) /\ Done(j, x).done = j.done \cup {x}
      /\ Done(j, x).wants = j.wants /\ Done(j, x).force = j.force
      /\ Done(j, x).healing = j.healing /\ Done(j, x).kind = j.kind
  BY DEF Reads1, Done, Discord!Jobs
<1> QED BY <1>1 DEF Due

\* What the next call is made for.
LEMMA FirstIs ==
    ASSUME NEW j, Reads1(j), NEW R \in RowTables, OnPaper(j, R), NEW x \in Discord!First(Discord!ToDo(j, R))
    PROVE  /\ x \in Discord!Tasks /\ x \notin j.done /\ Due(j, R, x)
           /\ \A d \in j.done : d \in Discord!Tasks /\ Discord!Rank(d) <= Discord!Rank(x)
           /\ \A y \in Discord!Tasks : y \notin j.done /\ Due(j, R, y) => Discord!Rank(x) <= Discord!Rank(y)
           /\ x.what \in {"add", "take", "channel"} => R[<<x.team, "role">>] # None
<1>1. x \in Discord!ToDo(j, R) /\ \A y \in Discord!ToDo(j, R) : Discord!Rank(x) <= Discord!Rank(y)
  BY DEF Discord!First
<1>2. x \in Discord!Tasks /\ x \notin j.done /\ Due(j, R, x)
  BY <1>1, ToDoIs
<1>3. \A y \in Discord!Tasks : y \notin j.done /\ Due(j, R, y) => Discord!Rank(x) <= Discord!Rank(y)
  BY <1>1, ToDoIs
<1>4. \A d \in j.done : d \in Discord!Tasks /\ Discord!Rank(d) <= Discord!Rank(x)
  BY <1>1 DEF OnPaper, InTurn, Reads1, Discord!Jobs
<1>5. ASSUME x.what \in {"add", "take", "channel"} PROVE R[<<x.team, "role">>] # None
  <2> SUFFICES ASSUME R[<<x.team, "role">>] = None PROVE FALSE
    OBVIOUS
  <2> DEFINE y == Discord!Task(x.team, "role", None)
  <2>1. y.team = x.team /\ y.what = "role" /\ y.who = None
    BY DEF Discord!Task
  <2>2. y \in Discord!Tasks
    BY <1>2 DEF Discord!Task, Discord!Tasks
  <2> HIDE DEF y
  <2>3. x.team \in Discord!Exist(j.wants)
    BY <1>2, <1>5 DEF Due, Discord!Kinds
  <2>4. Due(j, R, y)
    BY <2>1, <2>3 DEF Due, Discord!Kinds
  <2>5. y \notin j.done
    BY <2>1 DEF OnPaper, DoneShows, Discord!Kinds
  <2>6. Discord!Rank(x) <= Discord!Rank(y)
    BY <1>3, <2>2, <2>4, <2>5
  <2>7. x.team \in Nat /\ Discord!Rank(y) = 4 * x.team
    BY <2>1, <2>2, RankIs
  <2>8. Discord!Rank(x) \in {4 * x.team + 1, 4 * x.team + 2, 4 * x.team + 3}
    BY <1>2, <1>5, RankIs
  <2> QED BY <2>6, <2>7, <2>8
<1> QED BY <1>2, <1>3, <1>4, <1>5

\* A call brings up nothing that comes before it.
LEMMA StillInTurn ==
    ASSUME NEW j, Reads1(j), NEW R \in RowTables, OnPaper(j, R), NEW x \in Discord!First(Discord!ToDo(j, R)),
           NEW R2 \in RowTables,
           \A y \in Discord!Tasks : y \notin j.done /\ y # x /\ Due(j, R2, y) => Due(j, R, y) \/ Discord!Rank(x) <= Discord!Rank(y)
    PROVE  InTurn(Done(j, x), R2)
<1> SUFFICES ASSUME NEW d \in Done(j, x).done, NEW y \in Discord!ToDo(Done(j, x), R2)
             PROVE  Discord!Rank(d) <= Discord!Rank(y)
  BY DEF InTurn
<1>1. /\ x \in Discord!Tasks
      /\ \A e \in j.done : e \in Discord!Tasks /\ Discord!Rank(e) <= Discord!Rank(x)
      /\ \A z \in Discord!Tasks : z \notin j.done /\ Due(j, R, z) => Discord!Rank(x) <= Discord!Rank(z)
  BY FirstIs
<1>2. /\ d \in j.done \cup {x} /\ Reads1(Done(j, x)) /\ Done(j, x).done = j.done \cup {x}
      /\ \A z : Due(Done(j, x), R2, z) <=> Due(j, R2, z)
  BY <1>1, DoneIs
<1>3. y \in Discord!Tasks /\ y \notin j.done /\ y # x /\ Due(j, R2, y)
  BY <1>2, ToDoIs
<1>4. Discord!Rank(x) <= Discord!Rank(y)
  BY <1>1, <1>3
<1>5. d \in Discord!Tasks /\ Discord!Rank(d) <= Discord!Rank(x)
  <2>1. Discord!Rank(x) \in Nat
    BY <1>1, RankIs
  <2> QED BY <1>1, <1>2, <2>1
<1>6. Discord!Rank(d) \in Nat /\ Discord!Rank(x) \in Nat /\ Discord!Rank(y) \in Nat
  BY <1>1, <1>3, <1>5, RankIs
<1> QED BY <1>4, <1>5, <1>6

\* Members of a Team that a call is not about.
LEMMA MembersElsewhere ==
    ASSUME NEW j, Reads1(j), NEW R \in RowTables, OnPaper(j, R), NEW x \in Discord!Tasks, NEW R2 \in RowTables,
           NEW t \in Discord!Exist(j.wants), Discord!Had(R2, t) = Discord!Had(R, t),
           x.what \in {"add", "take"} => x.team # t
    PROVE  /\ Given(Done(j, x), t) = Given(j, t) /\ Taken(Done(j, x), t) = Taken(j, t)
           /\ \/ Discord!MembersLeft(Done(j, x), R2, t)
              \/ /\ Given(Done(j, x), t) \subseteq Discord!Had(R2, t)
                 /\ Taken(Done(j, x), t) \cap Discord!Had(R2, t) = {}
<1>1. /\ Reads1(Done(j, x)) /\ Done(j, x).done = j.done \cup {x}
      /\ \A z : Due(Done(j, x), R2, z) <=> Due(j, R2, z)
  BY DoneIs
<1>2. \A p \in Players : x # Discord!Task(t, "add", p) /\ x # Discord!Task(t, "take", p)
  BY DEF Discord!Task
<1>3. Given(Done(j, x), t) = Given(j, t) /\ Taken(Done(j, x), t) = Taken(j, t)
  BY <1>1, <1>2 DEF Given, Taken
<1>4. ASSUME Discord!MembersLeft(j, R, t) PROVE Discord!MembersLeft(Done(j, x), R2, t)
  <2>1. PICK y \in Discord!ToDo(j, R) : y.team = t /\ y.what \in {"add", "take"}
    BY <1>4 DEF Discord!MembersLeft
  <2>2. y \in Discord!Tasks /\ y \notin j.done /\ Due(j, R, y)
    BY <2>1, ToDoIs
  <2>3. Due(j, R2, y)
    BY <2>1, <2>2 DEF Due, Discord!Kinds
  <2>4. y # x
    BY <2>1
  <2>5. y \in Discord!ToDo(Done(j, x), R2)
    BY <1>1, <2>2, <2>3, <2>4, ToDoIs
  <2> QED BY <2>1, <2>5 DEF Discord!MembersLeft
<1>5. \/ Discord!MembersLeft(j, R, t)
      \/ Given(j, t) \subseteq Discord!Had(R, t) /\ Taken(j, t) \cap Discord!Had(R, t) = {}
  <2>1. j.done = {} => Given(j, t) = {} /\ Taken(j, t) = {}
    BY DEF Given, Taken
  <2> QED BY <2>1 DEF OnPaper, MembersWritten
<1> QED BY <1>3, <1>4, <1>5

\* The rows a call is not about stay as they are.
OnlyAt(t, k, R, R2) == \A q \in Discord!Places : q # <<t, k>> => R2[q] = R[q]

LEMMA OnlyAtIs ==
    ASSUME NEW t \in DiscordTeams, NEW k \in Discord!Kinds, NEW R \in RowTables, NEW R2 \in RowTables, OnlyAt(t, k, R, R2)
    PROVE  \A u \in DiscordTeams, m \in Discord!Kinds : u # t \/ m # k => R2[<<u, m>>] = R[<<u, m>>]
BY DEF OnlyAt, Discord!Places

\* A role is made or edited.
LEMMA RoleOnPaper ==
    ASSUME NEW j, Reads1(j), NEW R \in RowTables, OnPaper(j, R), NEW x \in Discord!First(Discord!ToDo(j, R)), x.what = "role",
           NEW R2 \in RowTables, OnlyAt(x.team, "role", R, R2), R2[<<x.team, "role">>] # None,
           R2[<<x.team, "role">>].name = j.wants[x.team].name, R2[<<x.team, "role">>].role = 0
    PROVE  OnPaper(Done(j, x), R2) /\ Given(j, x.team) = {} /\ Taken(j, x.team) = {}
<1> DEFINE t == x.team
<1>1. /\ x \in Discord!Tasks /\ x \notin j.done /\ Due(j, R, x)
      /\ \A d \in j.done : d \in Discord!Tasks /\ Discord!Rank(d) <= Discord!Rank(x)
  BY FirstIs
<1>2. t \in Discord!Exist(j.wants) /\ t \in DiscordTeams
  BY <1>1 DEF Due, Discord!Kinds, Discord!Tasks
<1>3. \A u \in DiscordTeams, m \in Discord!Kinds : u # t \/ m # "role" => R2[<<u, m>>] = R[<<u, m>>]
  BY <1>2, OnlyAtIs DEF Discord!Kinds
<1>4. /\ Reads1(Done(j, x)) /\ Done(j, x).done = j.done \cup {x} /\ Done(j, x).wants = j.wants
  BY <1>1, DoneIs
<1>5. ASSUME NEW d \in j.done, d.team = t PROVE d.what \notin {"add", "take", "channel"}
  <2>1. d \in Discord!Tasks /\ Discord!Rank(d) <= Discord!Rank(x)
    BY <1>1
  <2>2. Discord!Rank(x) = 4 * t /\ t \in Nat
    BY <1>1, RankIs
  <2>3. d.what \in {"add", "take", "channel"} => Discord!Rank(d) \in {4 * t + 1, 4 * t + 2, 4 * t + 3}
    BY <1>5, <2>1, RankIs
  <2> QED BY <2>1, <2>2, <2>3
<1>6. \A d \in j.done : d \in Discord!Tasks /\ d.team \in DiscordTeams
  BY <1>1 DEF Discord!Tasks
<1>7. Given(j, t) = {} /\ Taken(j, t) = {}
  <2>1. \A p \in Players, w \in {"add", "take"} : Discord!Task(t, w, p).team = t /\ Discord!Task(t, w, p).what = w
    BY DEF Discord!Task
  <2> QED BY <1>5, <2>1 DEF Given, Taken
<1> HIDE DEF t
<1>8. DoneShows(Done(j, x), R2)
  <2> SUFFICES ASSUME NEW d \in j.done \cup {x}
               PROVE  /\ d.what \in Discord!Kinds =>
                            /\ d.team \in Discord!Exist(j.wants) /\ R2[<<d.team, d.what>>] # None
                            /\ R2[<<d.team, d.what>>].name = j.wants[d.team].name
                            /\ R2[<<d.team, d.what>>].role = IF d.what = "role" THEN 0 ELSE R2[<<d.team, "role">>].id
                      /\ d.what = "add" => d.team \in Discord!Exist(j.wants) /\ d.who \in j.wants[d.team].members
                      /\ d.what = "take" => d.team \in Discord!Exist(j.wants) /\ d.who \notin j.wants[d.team].members
                      /\ d.what \in {"add", "take"} => R2[<<d.team, "role">>] # None
                      /\ d.what \in {"dropRole", "dropChannel"} =>
                            d.team \notin Discord!Exist(j.wants) /\ R2[<<d.team, Discord!Kind(d)>>] = None
    BY <1>4 DEF DoneShows
  <2>1. CASE d = x
    BY <1>2, <2>1 DEF Discord!Kinds, t
  <2>2. CASE d \in j.done /\ d.team # t
    <3>1. /\ R2[<<d.team, "role">>] = R[<<d.team, "role">>] /\ R2[<<d.team, Discord!Kind(d)>>] = R[<<d.team, Discord!Kind(d)>>]
          /\ d.what \in Discord!Kinds => R2[<<d.team, d.what>>] = R[<<d.team, d.what>>]
      BY <1>3, <1>6, <2>2 DEF Discord!Kind, Discord!Kinds
    <3> QED BY <2>2, <3>1 DEF OnPaper, DoneShows
  <2>3. CASE d \in j.done /\ d.team = t
    <3>1. d.what \notin {"add", "take", "channel"}
      BY <1>5, <2>3
    <3>2. d.what \notin {"dropRole", "dropChannel"}
      BY <1>2, <2>3 DEF OnPaper, DoneShows
    <3> QED BY <1>2, <2>3, <3>1, <3>2 DEF Discord!Kinds, t
  <2> QED BY <2>1, <2>2, <2>3
<1>9. InTurn(Done(j, x), R2)
  <2> SUFFICES ASSUME NEW y \in Discord!Tasks, y \notin j.done, y # x, Due(j, R2, y)
               PROVE  Due(j, R, y) \/ Discord!Rank(x) <= Discord!Rank(y)
    BY StillInTurn
  <2>1. CASE y.team # t
    <3>1. \A k \in Discord!Kinds : R2[<<y.team, k>>] = R[<<y.team, k>>]
      BY <1>3, <2>1 DEF Discord!Tasks
    <3> QED BY <3>1, DueElsewhere
  <2>2. CASE y.team = t
    <3>1. Discord!Rank(x) = 4 * t /\ t \in Nat
      BY <1>1, RankIs DEF t
    <3>2. y.what \in {"role", "add", "take", "channel", "dropChannel", "dropRole"}
      BY DEF Discord!Tasks
    <3>3. 4 * t <= LastTeam /\ LastTeam \in Nat
      BY <1>1, RankIs DEF t
    <3>4. Discord!Rank(y) \in {4 * t, 4 * t + 1, 4 * t + 2, 4 * t + 3, LastTeam + 4, LastTeam + 5}
      BY <2>2, <3>2, RankIs
    <3> QED BY <3>1, <3>3, <3>4
  <2> QED BY <2>1, <2>2
<1>10. MembersWritten(Done(j, x), R2)
  <2> SUFFICES ASSUME NEW u \in Discord!Exist(j.wants)
               PROVE  \/ Discord!MembersLeft(Done(j, x), R2, u)
                      \/ /\ Given(Done(j, x), u) \subseteq Discord!Had(R2, u)
                         /\ Taken(Done(j, x), u) \cap Discord!Had(R2, u) = {}
    BY <1>4 DEF MembersWritten
  <2>1. CASE u # t
    <3>1. R2[<<u, "role">>] = R[<<u, "role">>]
      BY <1>3, <2>1 DEF Discord!Exist, Discord!Kinds
    <3>2. Discord!Had(R2, u) = Discord!Had(R, u)
      BY <3>1 DEF Discord!Had
    <3> QED BY <1>1, <3>2, MembersElsewhere
  <2>2. CASE u = t
    <3>1. \A p \in Players : x # Discord!Task(t, "add", p) /\ x # Discord!Task(t, "take", p)
      BY DEF Discord!Task
    <3>2. Given(Done(j, x), t) = {} /\ Taken(Done(j, x), t) = {}
      BY <1>4, <1>7, <3>1 DEF Given, Taken
    <3> QED BY <2>2, <3>2
  <2> QED BY <2>1, <2>2
<1> QED BY <1>7, <1>8, <1>9, <1>10 DEF OnPaper, t

\* A channel is made or edited.
LEMMA ChannelOnPaper ==
    ASSUME NEW j, Reads1(j), NEW R \in RowTables, OnPaper(j, R), NEW x \in Discord!First(Discord!ToDo(j, R)), x.what = "channel",
           NEW R2 \in RowTables, OnlyAt(x.team, "channel", R, R2), R2[<<x.team, "channel">>] # None,
           R2[<<x.team, "channel">>].name = j.wants[x.team].name, R2[<<x.team, "channel">>].role = R[<<x.team, "role">>].id
    PROVE  OnPaper(Done(j, x), R2)
<1> DEFINE t == x.team
<1>1. /\ x \in Discord!Tasks /\ x \notin j.done /\ Due(j, R, x)
      /\ \A d \in j.done : d \in Discord!Tasks /\ Discord!Rank(d) <= Discord!Rank(x)
  BY FirstIs
<1>2. t \in Discord!Exist(j.wants) /\ t \in DiscordTeams
  BY <1>1 DEF Due, Discord!Kinds, Discord!Tasks
<1>3. \A u \in DiscordTeams, m \in Discord!Kinds : u # t \/ m # "channel" => R2[<<u, m>>] = R[<<u, m>>]
  BY <1>2, OnlyAtIs DEF Discord!Kinds
<1>4. /\ Reads1(Done(j, x)) /\ Done(j, x).done = j.done \cup {x} /\ Done(j, x).wants = j.wants
  BY <1>1, DoneIs
<1>5. \A d \in j.done : d \in Discord!Tasks /\ d.team \in DiscordTeams
  BY <1>1 DEF Discord!Tasks
<1>6. \A u \in DiscordTeams : R2[<<u, "role">>] = R[<<u, "role">>]
  BY <1>3 DEF Discord!Kinds
<1>7. \A u \in DiscordTeams : Discord!Had(R2, u) = Discord!Had(R, u)
  BY <1>6 DEF Discord!Had
<1>8. R2[<<t, "channel">>] # None /\ R2[<<t, "channel">>].name = j.wants[t].name /\ R2[<<t, "channel">>].role = R2[<<t, "role">>].id
  BY <1>2, <1>6
<1> HIDE DEF t
<1>9. DoneShows(Done(j, x), R2)
  <2> SUFFICES ASSUME NEW d \in j.done \cup {x}
               PROVE  /\ d.what \in Discord!Kinds =>
                            /\ d.team \in Discord!Exist(j.wants) /\ R2[<<d.team, d.what>>] # None
                            /\ R2[<<d.team, d.what>>].name = j.wants[d.team].name
                            /\ R2[<<d.team, d.what>>].role = IF d.what = "role" THEN 0 ELSE R2[<<d.team, "role">>].id
                      /\ d.what = "add" => d.team \in Discord!Exist(j.wants) /\ d.who \in j.wants[d.team].members
                      /\ d.what = "take" => d.team \in Discord!Exist(j.wants) /\ d.who \notin j.wants[d.team].members
                      /\ d.what \in {"add", "take"} => R2[<<d.team, "role">>] # None
                      /\ d.what \in {"dropRole", "dropChannel"} =>
                            d.team \notin Discord!Exist(j.wants) /\ R2[<<d.team, Discord!Kind(d)>>] = None
    BY <1>4 DEF DoneShows
  <2>1. CASE d = x
    BY <1>2, <1>8, <2>1 DEF Discord!Kinds, t
  <2>2. CASE d \in j.done /\ (d.team # t \/ d.what = "role" \/ d.what = "add" \/ d.what = "take")
    <3>1. R2[<<d.team, "role">>] = R[<<d.team, "role">>]
      BY <1>5, <1>6, <2>2
    <3>2. d.what \in Discord!Kinds => R2[<<d.team, d.what>>] = R[<<d.team, d.what>>]
      BY <1>3, <1>5, <2>2 DEF Discord!Kinds
    <3>3. d.what \in {"dropRole", "dropChannel"} => R2[<<d.team, Discord!Kind(d)>>] = R[<<d.team, Discord!Kind(d)>>]
      BY <1>3, <1>5, <2>2 DEF Discord!Kind, Discord!Kinds
    <3> QED BY <2>2, <3>1, <3>2, <3>3 DEF OnPaper, DoneShows
  <2>3. CASE d \in j.done /\ d.team = t /\ d.what = "channel"
    BY <1>2, <1>8, <2>3 DEF Discord!Kinds
  <2>4. CASE d \in j.done /\ d.team = t /\ d.what \in {"dropRole", "dropChannel"}
    BY <1>2, <2>4 DEF OnPaper, DoneShows
  <2> QED BY <1>5, <2>1, <2>2, <2>3, <2>4 DEF Discord!Tasks
<1>10. InTurn(Done(j, x), R2)
  <2> SUFFICES ASSUME NEW y \in Discord!Tasks, y \notin j.done, y # x, Due(j, R2, y)
               PROVE  Due(j, R, y) \/ Discord!Rank(x) <= Discord!Rank(y)
    BY StillInTurn
  <2>1. CASE y.team # t
    <3>1. \A k \in Discord!Kinds : R2[<<y.team, k>>] = R[<<y.team, k>>]
      BY <1>3, <2>1 DEF Discord!Tasks
    <3> QED BY <3>1, DueElsewhere
  <2>2. CASE y.team = t /\ y.what \in {"role", "add", "take"}
    <3>1. R2[<<y.team, "role">>] = R[<<y.team, "role">>] /\ Discord!Had(R2, y.team) = Discord!Had(R, y.team)
      BY <1>2, <1>6, <1>7, <2>2
    <3> QED BY <2>2, <3>1 DEF Due, Discord!Kinds
  <2>3. CASE y.team = t /\ y.what \in {"channel", "dropChannel", "dropRole"}
    <3>1. Discord!Rank(x) = 4 * t + 3 /\ t \in Nat
      BY <1>1, RankIs DEF t
    <3>2. 4 * t <= LastTeam /\ LastTeam \in Nat
      BY <1>1, RankIs DEF t
    <3>3. Discord!Rank(y) \in {4 * t + 3, LastTeam + 4, LastTeam + 5}
      BY <2>3, RankIs
    <3> QED BY <3>1, <3>2, <3>3
  <2> QED BY <2>1, <2>2, <2>3 DEF Discord!Tasks
<1>11. MembersWritten(Done(j, x), R2)
  <2> SUFFICES ASSUME NEW u \in Discord!Exist(j.wants)
               PROVE  \/ Discord!MembersLeft(Done(j, x), R2, u)
                      \/ /\ Given(Done(j, x), u) \subseteq Discord!Had(R2, u)
                         /\ Taken(Done(j, x), u) \cap Discord!Had(R2, u) = {}
    BY <1>4 DEF MembersWritten
  <2>1. Discord!Had(R2, u) = Discord!Had(R, u)
    BY <1>7 DEF Discord!Exist
  <2> QED BY <1>1, <2>1, MembersElsewhere
<1> QED BY <1>9, <1>10, <1>11 DEF OnPaper

\* A role is given or taken, and what was given and taken is written with the last of a Team's.
LEMMA MemberOnPaper ==
    ASSUME NEW j, Reads1(j), NEW R \in RowTables, OnPaper(j, R), NEW x \in Discord!First(Discord!ToDo(j, R)), x.what \in {"add", "take"},
           NEW R2 \in RowTables, OnlyAt(x.team, "role", R, R2), R2[<<x.team, "role">>] # None,
           R2[<<x.team, "role">>].id = R[<<x.team, "role">>].id,
           R2[<<x.team, "role">>].name = R[<<x.team, "role">>].name,
           R2[<<x.team, "role">>].role = R[<<x.team, "role">>].role,
           \/ R2 = R /\ Discord!MembersLeft(Done(j, x), R, x.team)
           \/ R2[<<x.team, "role">>].members =
                (R[<<x.team, "role">>].members \cup Given(Done(j, x), x.team)) \ Taken(Done(j, x), x.team)
    PROVE  /\ OnPaper(Done(j, x), R2)
           /\ x.who \in Players
           /\ x.what = "add" => x.who \notin Taken(j, x.team)
           /\ Given(Done(j, x), x.team) = Given(j, x.team) \cup (IF x.what = "add" THEN {x.who} ELSE {})
           /\ Taken(Done(j, x), x.team) = Taken(j, x.team) \cup (IF x.what = "take" THEN {x.who} ELSE {})
<1> DEFINE t == x.team
<1>1. /\ x \in Discord!Tasks /\ x \notin j.done /\ Due(j, R, x)
      /\ \A d \in j.done : d \in Discord!Tasks /\ Discord!Rank(d) <= Discord!Rank(x)
      /\ R[<<x.team, "role">>] # None
  BY FirstIs
<1>2. t \in Discord!Exist(j.wants) /\ t \in DiscordTeams
  BY <1>1 DEF Due, Discord!Kinds, Discord!Tasks
<1>3. \A u \in DiscordTeams, m \in Discord!Kinds : u # t \/ m # "role" => R2[<<u, m>>] = R[<<u, m>>]
  BY <1>2, OnlyAtIs DEF Discord!Kinds
<1>4. /\ Reads1(Done(j, x)) /\ Done(j, x).done = j.done \cup {x} /\ Done(j, x).wants = j.wants
  BY <1>1, DoneIs
<1>5. \A d \in j.done : d \in Discord!Tasks /\ d.team \in DiscordTeams
  BY <1>1 DEF Discord!Tasks
<1>6. x.who \in Players /\ (x.what = "add" => x.who \in j.wants[t].members) /\ (x.what = "take" => x.who \notin j.wants[t].members)
  <2>1. j.wants[t].members \subseteq Players /\ Discord!Had(R, t) \subseteq Players
    BY <1>2, MembersTyped
  <2> QED BY <1>1, <2>1 DEF Due, Discord!Kinds
<1>7. \A w \in {"add", "take"}, p \in Players : Discord!Task(t, w, p) = x <=> x.what = w /\ x.who = p
  <2>1. x = [team |-> x.team, what |-> x.what, who |-> x.who]
    BY <1>1 DEF Discord!Tasks
  <2>2. \A w \in {"add", "take"}, p \in Players : Discord!Task(t, w, p).what = w /\ Discord!Task(t, w, p).who = p
    BY DEF Discord!Task
  <2> QED BY <2>1, <2>2 DEF Discord!Task
<1>8. /\ Given(Done(j, x), t) = Given(j, t) \cup (IF x.what = "add" THEN {x.who} ELSE {})
      /\ Taken(Done(j, x), t) = Taken(j, t) \cup (IF x.what = "take" THEN {x.who} ELSE {})
  BY <1>4, <1>6, <1>7 DEF Given, Taken
<1>9. Given(j, t) \subseteq j.wants[t].members /\ Taken(j, t) \cap j.wants[t].members = {}
  <2>1. \A w \in {"add", "take"}, p \in Players :
            /\ Discord!Task(t, w, p).what = w /\ Discord!Task(t, w, p).who = p /\ Discord!Task(t, w, p).team = t
    BY DEF Discord!Task
  <2>2. \A p \in Players : Discord!Task(t, "add", p) \in j.done => p \in j.wants[t].members
    BY <2>1 DEF OnPaper, DoneShows
  <2>3. \A p \in Players : Discord!Task(t, "take", p) \in j.done => p \notin j.wants[t].members
    BY <2>1 DEF OnPaper, DoneShows
  <2> QED BY <2>2, <2>3 DEF Given, Taken
<1>10. Given(Done(j, x), t) \subseteq j.wants[t].members /\ Taken(Done(j, x), t) \cap j.wants[t].members = {}
  BY <1>6, <1>8, <1>9
<1>11. /\ Discord!Had(R, t) = R[<<t, "role">>].members /\ Discord!Had(R2, t) = R2[<<t, "role">>].members
       /\ R2[<<t, "role">>] # None /\ R[<<t, "role">>] # None /\ R2[<<t, "role">>].id = R[<<t, "role">>].id
       /\ R2[<<t, "role">>].name = R[<<t, "role">>].name /\ R2[<<t, "role">>].role = R[<<t, "role">>].role
  BY <1>1 DEF Discord!Had
<1>12. \/ R2 = R /\ Discord!MembersLeft(Done(j, x), R, t)
       \/ Discord!Had(R2, t) = (Discord!Had(R, t) \cup Given(Done(j, x), t)) \ Taken(Done(j, x), t)
  BY <1>11
<1> HIDE DEF t
<1>13. DoneShows(Done(j, x), R2)
  <2> SUFFICES ASSUME NEW d \in j.done \cup {x}
               PROVE  /\ d.what \in Discord!Kinds =>
                            /\ d.team \in Discord!Exist(j.wants) /\ R2[<<d.team, d.what>>] # None
                            /\ R2[<<d.team, d.what>>].name = j.wants[d.team].name
                            /\ R2[<<d.team, d.what>>].role = IF d.what = "role" THEN 0 ELSE R2[<<d.team, "role">>].id
                      /\ d.what = "add" => d.team \in Discord!Exist(j.wants) /\ d.who \in j.wants[d.team].members
                      /\ d.what = "take" => d.team \in Discord!Exist(j.wants) /\ d.who \notin j.wants[d.team].members
                      /\ d.what \in {"add", "take"} => R2[<<d.team, "role">>] # None
                      /\ d.what \in {"dropRole", "dropChannel"} =>
                            d.team \notin Discord!Exist(j.wants) /\ R2[<<d.team, Discord!Kind(d)>>] = None
    BY <1>4 DEF DoneShows
  <2>1. CASE d = x
    BY <1>2, <1>6, <1>11, <2>1 DEF Discord!Kinds, t
  <2>2. CASE d \in j.done
    <3>1. /\ R2[<<d.team, "role">>].id = R[<<d.team, "role">>].id
          /\ R[<<d.team, "role">>] # None => R2[<<d.team, "role">>] # None
      BY <1>3, <1>5, <1>11, <2>2 DEF Discord!Kinds
    <3>2. d.what \in Discord!Kinds /\ R[<<d.team, d.what>>] # None =>
            /\ R2[<<d.team, d.what>>] # None
            /\ R2[<<d.team, d.what>>].name = R[<<d.team, d.what>>].name /\ R2[<<d.team, d.what>>].role = R[<<d.team, d.what>>].role
      <4>1. CASE d.team = t /\ d.what = "role"
        BY <1>11, <4>1
      <4>2. CASE d.team # t \/ d.what # "role"
        BY <1>3, <1>5, <2>2, <4>2
      <4> QED BY <4>1, <4>2
    <3>3. d.what \in {"dropRole", "dropChannel"} => R2[<<d.team, Discord!Kind(d)>>] = R[<<d.team, Discord!Kind(d)>>]
      <4>1. d.what \in {"dropRole", "dropChannel"} => d.team # t
        BY <1>2, <2>2 DEF OnPaper, DoneShows
      <4> QED BY <1>3, <1>5, <2>2, <4>1 DEF Discord!Kind, Discord!Kinds
    <3> QED BY <2>2, <3>1, <3>2, <3>3 DEF OnPaper, DoneShows
  <2> QED BY <2>1, <2>2
<1>14. InTurn(Done(j, x), R2)
  <2> SUFFICES ASSUME NEW y \in Discord!Tasks, y \notin j.done, y # x, Due(j, R2, y)
               PROVE  Due(j, R, y)
    BY StillInTurn
  <2>1. CASE y.team # t
    <3>1. \A k \in Discord!Kinds : R2[<<y.team, k>>] = R[<<y.team, k>>]
      BY <1>3, <2>1 DEF Discord!Tasks
    <3> QED BY <3>1, DueElsewhere
  <2>2. CASE y.team = t /\ y.what \in Discord!Kinds
    <3>1. R2[<<t, "channel">>] = R[<<t, "channel">>]
      BY <1>2, <1>3 DEF Discord!Kinds
    <3> QED BY <1>11, <2>2, <3>1 DEF Due, Discord!Kinds
  <2>3. CASE y.team = t /\ y.what = "add"
    <3>1. y.who \in j.wants[t].members /\ (y.who \notin Discord!Had(R2, t) \/ j.force) /\ t \in Discord!Exist(j.wants)
      BY <2>3 DEF Due, Discord!Kinds
    <3>2. y.who \notin Discord!Had(R, t) \/ j.force
      BY <1>10, <1>12, <3>1
    <3> QED BY <2>3, <3>1, <3>2 DEF Due
  <2>4. CASE y.team = t /\ y.what = "take"
    <3>1. y.who \notin j.wants[t].members /\ y.who \in Discord!Had(R2, t) /\ t \in Discord!Exist(j.wants)
      BY <2>4 DEF Due, Discord!Kinds
    <3>2. y.who \in Discord!Had(R, t)
      BY <1>10, <1>12, <3>1
    <3> QED BY <2>4, <3>1, <3>2 DEF Due
  <2>5. CASE y.team = t /\ y.what \in {"dropRole", "dropChannel"}
    BY <1>2, <2>5 DEF Due, Discord!Kinds
  <2> QED BY <2>1, <2>2, <2>3, <2>4, <2>5 DEF Discord!Tasks, Discord!Kinds
<1>15. MembersWritten(Done(j, x), R2)
  <2> SUFFICES ASSUME NEW u \in Discord!Exist(j.wants)
               PROVE  \/ Discord!MembersLeft(Done(j, x), R2, u)
                      \/ /\ Given(Done(j, x), u) \subseteq Discord!Had(R2, u)
                         /\ Taken(Done(j, x), u) \cap Discord!Had(R2, u) = {}
    BY <1>4 DEF MembersWritten
  <2>1. CASE u # t
    <3>1. R2[<<u, "role">>] = R[<<u, "role">>]
      BY <1>3, <2>1 DEF Discord!Exist, Discord!Kinds
    <3>2. Discord!Had(R2, u) = Discord!Had(R, u)
      BY <3>1 DEF Discord!Had
    <3> QED BY <1>1, <2>1, <3>2, MembersElsewhere DEF t
  <2>2. CASE u = t
    BY <1>10, <1>12, <2>2
  <2> QED BY <2>1, <2>2
<1>16. x.what = "add" => x.who \notin Taken(j, t)
  BY <1>6, <1>9
<1> QED BY <1>6, <1>8, <1>13, <1>14, <1>15, <1>16 DEF OnPaper, t

\* What is no longer wanted goes.
LEMMA DropOnPaper ==
    ASSUME NEW j, Reads1(j), NEW R \in RowTables, OnPaper(j, R), NEW x \in Discord!First(Discord!ToDo(j, R)),
           x.what \in {"dropRole", "dropChannel"},
           NEW R2 \in RowTables, OnlyAt(x.team, Discord!Kind(x), R, R2), R2[<<x.team, Discord!Kind(x)>>] = None
    PROVE  OnPaper(Done(j, x), R2) /\ R[<<x.team, Discord!Kind(x)>>] # None
<1> DEFINE t == x.team
           k == Discord!Kind(x)
<1>1. /\ x \in Discord!Tasks /\ x \notin j.done /\ Due(j, R, x)
      /\ \A d \in j.done : d \in Discord!Tasks /\ Discord!Rank(d) <= Discord!Rank(x)
  BY FirstIs
<1>2. t \notin Discord!Exist(j.wants) /\ t \in DiscordTeams /\ R[<<t, k>>] # None /\ k \in Discord!Kinds
  BY <1>1 DEF Due, Discord!Kinds, Discord!Tasks, Discord!Kind
<1>3. \A u \in DiscordTeams, m \in Discord!Kinds : u # t \/ m # k => R2[<<u, m>>] = R[<<u, m>>]
  BY <1>2, OnlyAtIs
<1>4. /\ Reads1(Done(j, x)) /\ Done(j, x).done = j.done \cup {x} /\ Done(j, x).wants = j.wants
  BY <1>1, DoneIs
<1>5. \A d \in j.done : d \in Discord!Tasks /\ d.team \in DiscordTeams
  BY <1>1 DEF Discord!Tasks
<1>6. R2[<<t, k>>] = None
  OBVIOUS
<1>7. \A u \in Discord!Exist(j.wants), m \in Discord!Kinds : R2[<<u, m>>] = R[<<u, m>>]
  BY <1>2, <1>3 DEF Discord!Exist
<1> HIDE DEF t, k
<1>8. DoneShows(Done(j, x), R2)
  <2> SUFFICES ASSUME NEW d \in j.done \cup {x}
               PROVE  /\ d.what \in Discord!Kinds =>
                            /\ d.team \in Discord!Exist(j.wants) /\ R2[<<d.team, d.what>>] # None
                            /\ R2[<<d.team, d.what>>].name = j.wants[d.team].name
                            /\ R2[<<d.team, d.what>>].role = IF d.what = "role" THEN 0 ELSE R2[<<d.team, "role">>].id
                      /\ d.what = "add" => d.team \in Discord!Exist(j.wants) /\ d.who \in j.wants[d.team].members
                      /\ d.what = "take" => d.team \in Discord!Exist(j.wants) /\ d.who \notin j.wants[d.team].members
                      /\ d.what \in {"add", "take"} => R2[<<d.team, "role">>] # None
                      /\ d.what \in {"dropRole", "dropChannel"} =>
                            d.team \notin Discord!Exist(j.wants) /\ R2[<<d.team, Discord!Kind(d)>>] = None
    BY <1>4 DEF DoneShows
  <2>1. CASE d = x
    BY <1>2, <1>6, <2>1 DEF Discord!Kinds, t, k
  <2>2. CASE d \in j.done /\ d.what \in {"dropRole", "dropChannel"}
    <3>1. d.team \notin Discord!Exist(j.wants) /\ R[<<d.team, Discord!Kind(d)>>] = None
      BY <2>2 DEF OnPaper, DoneShows
    <3>2. R2[<<d.team, Discord!Kind(d)>>] = None
      BY <1>3, <1>5, <1>6, <2>2, <3>1 DEF Discord!Kind, Discord!Kinds
    <3> QED BY <2>2, <3>1, <3>2 DEF Discord!Kinds
  <2>3. CASE d \in j.done /\ d.what \notin {"dropRole", "dropChannel"}
    <3>1. d.team \in Discord!Exist(j.wants)
      BY <1>5, <2>3 DEF OnPaper, DoneShows, Discord!Tasks, Discord!Kinds
    <3>2. R2[<<d.team, "role">>] = R[<<d.team, "role">>] /\ (d.what \in Discord!Kinds => R2[<<d.team, d.what>>] = R[<<d.team, d.what>>])
      BY <1>7, <3>1 DEF Discord!Kinds
    <3> QED BY <2>3, <3>1, <3>2 DEF OnPaper, DoneShows
  <2> QED BY <2>1, <2>2, <2>3
<1>9. InTurn(Done(j, x), R2)
  <2> SUFFICES ASSUME NEW y \in Discord!Tasks, y \notin j.done, y # x, Due(j, R2, y)
               PROVE  Due(j, R, y)
    BY StillInTurn
  <2>1. CASE y.team # t
    <3>1. \A m \in Discord!Kinds : R2[<<y.team, m>>] = R[<<y.team, m>>]
      BY <1>3, <2>1 DEF Discord!Tasks
    <3> QED BY <3>1, DueElsewhere
  <2>2. CASE y.team = t
    <3>1. /\ y.what \in {"dropRole", "dropChannel"} /\ y.who = None /\ y.team \in DiscordTeams \ Discord!Exist(j.wants)
          /\ R2[<<y.team, Discord!Kind(y)>>] # None
      BY <1>2, <2>2 DEF Due
    <3>2. Discord!Kind(y) # k /\ Discord!Kind(y) \in Discord!Kinds
      BY <1>6, <2>2, <3>1 DEF Discord!Kind, Discord!Kinds
    <3>3. R[<<y.team, Discord!Kind(y)>>] # None
      BY <1>2, <1>3, <2>2, <3>1, <3>2
    <3> QED BY <3>1, <3>3 DEF Due
  <2> QED BY <2>1, <2>2
<1>10. MembersWritten(Done(j, x), R2)
  <2> SUFFICES ASSUME NEW u \in Discord!Exist(j.wants)
               PROVE  \/ Discord!MembersLeft(Done(j, x), R2, u)
                      \/ /\ Given(Done(j, x), u) \subseteq Discord!Had(R2, u)
                         /\ Taken(Done(j, x), u) \cap Discord!Had(R2, u) = {}
    BY <1>4 DEF MembersWritten
  <2>1. Discord!Had(R2, u) = Discord!Had(R, u)
    BY <1>7 DEF Discord!Had, Discord!Kinds
  <2>2. x.what \in {"add", "take"} => x.team # u
    OBVIOUS
  <2>3. x \in Discord!Tasks
    BY <1>1
  <2> QED BY <2>1, <2>2, <2>3, MembersElsewhere
<1> QED BY <1>2, <1>8, <1>9, <1>10 DEF OnPaper, t, k

\* One object of a Team is made, edited or deleted, and its row written.
LEMMA GuildMoves ==
    ASSUME NEW j, NEW j2, NEW R, NEW R2, NEW g, NEW g2, NEW n,
           NEW t \in DiscordTeams, NEW k \in Discord!Kinds,
           \A u \in DiscordTeams, m \in Discord!Kinds : u # t \/ m # k => R2[<<u, m>>] = R[<<u, m>>],
           InGuild(j, R, g),
           DOMAIN g \subseteq DOMAIN g2, DOMAIN g2 \subseteq DOMAIN g \cup {n},
           \A i \in DOMAIN g : i # n => g2[i] = g[i],
           \A p \in Discord!Places : R[p] # None /\ R[p].id = n => p = <<t, k>>,
           R[<<t, k>>] # None => R[<<t, k>>].id = n \/ ~Is(g, R[<<t, k>>].id),
           R2[<<t, k>>] # None =>
                /\ R2[<<t, k>>].id = n /\ Is(g2, n) /\ g2[n].name = R2[<<t, k>>].name /\ g2[n].role = R2[<<t, k>>].role
                /\ k = "role" => g2[n].members = (R2[<<t, k>>].members \cup Given(j2, t)) \ Taken(j2, t),
           R2[<<t, k>>] = None => ~Is(g2, n) /\ Discord!Task(t, k, None) \notin j2.done,
           \A u \in DiscordTeams : u # t \/ k # "role" => Given(j2, u) = Given(j, u) /\ Taken(j2, u) = Taken(j, u),
           j2.healing => j.healing,
           \A u \in DiscordTeams, m \in Discord!Kinds :
                Discord!Task(u, m, None) \in j2.done => Discord!Task(u, m, None) \in j.done \/ (u = t /\ m = k)
    PROVE  InGuild(j2, R2, g2) /\ (AllStand(R, g) => AllStand(R2, g2))
<1>1. \A p \in Discord!Places : p = <<t, k>> \/ R2[p] = R[p]
  <2>1. \A p \in Discord!Places : p[1] \in DiscordTeams /\ p[2] \in Discord!Kinds /\ p = <<p[1], p[2]>>
    BY DEF Discord!Places
  <2> QED BY <2>1
<1>2. \A u \in DiscordTeams, m \in Discord!Kinds : <<u, m>> \in Discord!Places /\ (<<u, m>> = <<t, k>> <=> u = t /\ m = k)
  BY DEF Discord!Places
<1>3. \A p \in Discord!Places : R[p] # None => R[p].id \in DOMAIN g
  BY DEF InGuild, OneRowEach
<1>4. OneRowEach(R2, g2)
  <2> SUFFICES ASSUME NEW p \in Discord!Places, R2[p] # None
               PROVE  /\ R2[p].id \in DOMAIN g2
                      /\ \A q \in Discord!Places : R2[q] # None /\ R2[q].id = R2[p].id => q = p
    BY DEF OneRowEach
  <2>1. CASE p = <<t, k>>
    BY <1>1, <2>1 DEF Is
  <2>2. CASE p # <<t, k>>
    BY <1>1, <1>3, <2>2 DEF InGuild, OneRowEach
  <2> QED BY <2>1, <2>2
<1>5. \A p \in Discord!Places : p # <<t, k>> /\ R[p] # None => R[p].id # n /\ (Is(g2, R[p].id) <=> Is(g, R[p].id)) /\ g2[R[p].id] = g[R[p].id]
  BY <1>3 DEF Is
<1>6. AsWritten(j2, R2, g2)
  <2> SUFFICES ASSUME NEW u \in DiscordTeams, NEW m \in Discord!Kinds, R2[<<u, m>>] # None, Is(g2, R2[<<u, m>>].id)
               PROVE  /\ g2[R2[<<u, m>>].id].name = R2[<<u, m>>].name
                      /\ g2[R2[<<u, m>>].id].role = R2[<<u, m>>].role
                      /\ m = "role" => g2[R2[<<u, m>>].id].members = (R2[<<u, m>>].members \cup Given(j2, u)) \ Taken(j2, u)
    BY DEF AsWritten
  <2>1. CASE u = t /\ m = k
    BY <2>1
  <2>2. CASE u # t \/ m # k
    <3>1. R2[<<u, m>>] = R[<<u, m>>] /\ <<u, m>> \in Discord!Places /\ <<u, m>> # <<t, k>>
      BY <1>2, <2>2
    <3>2. Is(g, R[<<u, m>>].id) /\ g2[R[<<u, m>>].id] = g[R[<<u, m>>].id]
      BY <1>5, <3>1
    <3>3. m = "role" => Given(j2, u) = Given(j, u) /\ Taken(j2, u) = Taken(j, u)
      BY <2>2
    <3> QED BY <3>1, <3>2, <3>3 DEF InGuild, AsWritten
  <2> QED BY <2>1, <2>2
<1>7. AllWritten(R2, g2)
  <2> SUFFICES ASSUME NEW id \in DOMAIN g2, g2[id] # None
               PROVE  \E p \in Discord!Places : R2[p] # None /\ R2[p].id = id
    BY DEF AllWritten
  <2>1. CASE id = n
    BY <1>2, <2>1 DEF Is
  <2>2. CASE id # n
    <3>1. id \in DOMAIN g /\ g[id] # None
      BY <2>2
    <3>2. PICK p \in Discord!Places : R[p] # None /\ R[p].id = id
      BY <3>1 DEF InGuild, AllWritten
    <3>3. p # <<t, k>>
      BY <2>2, <3>1, <3>2 DEF Is
    <3> QED BY <1>1, <3>2, <3>3
  <2> QED BY <2>1, <2>2
<1>8. Heals(j2, R2, g2)
  <2> SUFFICES ASSUME j2.healing, NEW u \in DiscordTeams, NEW m \in Discord!Kinds, Discord!Task(u, m, None) \in j2.done
               PROVE  R2[<<u, m>>] # None /\ Is(g2, R2[<<u, m>>].id)
    BY DEF Heals
  <2>1. CASE u = t /\ m = k
    BY <2>1
  <2>2. CASE u # t \/ m # k
    <3>1. R2[<<u, m>>] = R[<<u, m>>] /\ <<u, m>> \in Discord!Places /\ <<u, m>> # <<t, k>>
      BY <1>2, <2>2
    <3>2. R[<<u, m>>] # None /\ Is(g, R[<<u, m>>].id)
      BY <2>2 DEF InGuild, Heals
    <3> QED BY <1>5, <3>1, <3>2
  <2> QED BY <2>1, <2>2
<1>9. AllStand(R, g) => AllStand(R2, g2)
  <2> SUFFICES ASSUME AllStand(R, g), NEW p \in Discord!Places, R2[p] # None PROVE Is(g2, R2[p].id)
    BY DEF AllStand
  <2> QED BY <1>1, <1>5 DEF AllStand
<1> QED BY <1>4, <1>6, <1>7, <1>8, <1>9 DEF InGuild

Guilds == Seq(Discord!Objects \cup {None})

\* A call is made.
Calling(x) ==
    /\ Discord!TypeOK /\ job # None /\ Reads1(job) /\ OnPaper(job, rows)
    /\ x \in Discord!First(Discord!ToDo(job, rows)) /\ Discord!Possible(x)

LEMMA CallIs ==
    ASSUME NEW x, Calling(x)
    PROVE  /\ rows \in RowTables /\ guild \in Guilds /\ job \in Discord!Jobs
           /\ x \in Discord!Tasks /\ x.team \in DiscordTeams /\ Discord!Kind(x) \in Discord!Kinds
           /\ <<x.team, Discord!Kind(x)>> \in Discord!Places
           /\ x.what \in Discord!Kinds =>
                /\ Discord!Kind(x) = x.what /\ x.team \in Discord!Exist(job.wants)
                /\ job.wants[x.team].name \in Names
                /\ (IF x.what = "role" THEN 0 ELSE rows[<<x.team, "role">>].id) \in {0} \cup Discord!Ids
                /\ Discord!WantedBody(job, rows, x.team, x.what) =
                    [name |-> job.wants[x.team].name, role |-> IF x.what = "role" THEN 0 ELSE rows[<<x.team, "role">>].id]
           /\ x.what \in {"add", "take"} => Discord!Kind(x) = "role" /\ rows[<<x.team, "role">>] # None
<1>1. rows \in RowTables /\ guild \in Guilds /\ job \in Discord!Jobs
  BY DEF Calling, Discord!TypeOK, RowTables, Guilds
<1>2. /\ x \in Discord!Tasks /\ Due(job, rows, x)
      /\ x.what \in {"add", "take", "channel"} => rows[<<x.team, "role">>] # None
  BY <1>1, FirstIs DEF Calling
<1>3. x.team \in DiscordTeams /\ Discord!Kind(x) \in Discord!Kinds /\ <<x.team, Discord!Kind(x)>> \in Discord!Places
  BY <1>2 DEF Discord!Tasks, Discord!Kind, Discord!Kinds, Discord!Places
<1>4. ASSUME x.what \in Discord!Kinds
      PROVE  /\ Discord!Kind(x) = x.what /\ x.team \in Discord!Exist(job.wants)
             /\ job.wants[x.team].name \in Names
             /\ (IF x.what = "role" THEN 0 ELSE rows[<<x.team, "role">>].id) \in {0} \cup Discord!Ids
  <2>1. Discord!Kind(x) = x.what
    BY <1>4 DEF Discord!Kind, Discord!Kinds
  <2>2. x.team \in Discord!Exist(job.wants)
    BY <1>2, <1>4 DEF Due, Discord!Kinds
  <2>3. job.wants[x.team] \in Discord!TeamRows
    BY <1>1, <2>2, MembersTyped DEF Calling
  <2>4. <<x.team, "role">> \in Discord!Places
    BY <1>3 DEF Discord!Places, Discord!Kinds
  <2>5. x.what = "channel" => rows[<<x.team, "role">>] \in Discord!Rows
    BY <1>1, <1>2, <2>4 DEF RowTables
  <2>6. x.what = "channel" => rows[<<x.team, "role">>].id \in Discord!Ids
    BY <2>5 DEF Discord!Rows
  <2> QED BY <1>4, <2>1, <2>2, <2>3, <2>6 DEF Discord!TeamRows, Discord!Kinds
<1>5. x.what \in {"add", "take"} => Discord!Kind(x) = "role"
  BY DEF Discord!Kind
<1> QED BY <1>1, <1>2, <1>3, <1>4, <1>5 DEF Discord!WantedBody

LEMMA DiscordCardinality == \A S : Discord!Cardinality(S) = Cardinality(S)
BY DEF Cardinality, Discord!Cardinality

LEMMA MadeWritten ==
    ASSUME NEW x, Calling(x), Discord!Makes(x),
           NEW R2, R2 = Discord!Written(job, x), NEW g2, g2 = Discord!InDiscord(job, x)
    PROVE  /\ R2 \in RowTables /\ g2 \in Guilds /\ OnPaper(Done(job, x), R2)
           /\ InGuild(job, rows, guild) => InGuild(Done(job, x), R2, g2) /\ (AllStand(rows, guild) => AllStand(R2, g2))
<1> DEFINE t == x.team
           k == x.what
           n == Len(guild) + 1
           role == IF k = "role" THEN 0 ELSE rows[<<t, "role">>].id
           object == [kind |-> k, name |-> job.wants[t].name, role |-> role, members |-> {}]
           row == [id |-> n, name |-> job.wants[t].name, role |-> role, members |-> {}]
<1>1. /\ rows \in RowTables /\ guild \in Guilds /\ x \in Discord!Tasks /\ t \in DiscordTeams /\ k \in Discord!Kinds
      /\ Discord!Kind(x) = k /\ <<t, k>> \in Discord!Places /\ job.wants[t].name \in Names /\ role \in {0} \cup Discord!Ids
      /\ Discord!WantedBody(job, rows, t, k) = [name |-> job.wants[t].name, role |-> role]
  BY CallIs DEF Discord!Makes
<1>2. Len(guild) \in Nat /\ DOMAIN guild = 1..Len(guild)
  BY <1>1, LenProperties DEF Guilds
<1>3. Discord!NextId = n
  <2>1. \A m \in Nat : Cardinality(1..m) = m
    BY FS_Interval
  <2> QED BY <1>2, <2>1, DiscordCardinality DEF Discord!NextId
<1>4. n \in Discord!Ids
  BY <1>3 DEF Calling, Discord!Possible
<1>5. R2 = [rows EXCEPT ![<<t, k>>] = row]
  <2>1. R2 = [rows EXCEPT ![<<x.team, Discord!Kind(x)>>] =
                [id |-> Discord!NextId, name |-> Discord!WantedBody(job, rows, x.team, x.what).name,
                 role |-> Discord!WantedBody(job, rows, x.team, x.what).role, members |-> {}]]
    BY <1>1 DEF Discord!Written
  <2> QED BY <1>1, <1>3, <2>1
<1>6. g2 = Append(guild, object)
  <2>1. g2 = Append(guild, [kind |-> x.what, name |-> Discord!WantedBody(job, rows, x.team, x.what).name,
                            role |-> Discord!WantedBody(job, rows, x.team, x.what).role, members |-> {}])
    BY <1>1 DEF Discord!InDiscord
  <2> QED BY <1>1, <2>1
<1>7. row \in Discord!Rows /\ object \in Discord!Objects
  BY <1>1, <1>4 DEF Discord!Rows, Discord!Objects
<1>8. row # None /\ object # None
  BY <1>7, DiscordConstants
<1>9. /\ row.id = n /\ row.name = job.wants[t].name /\ row.role = role /\ row.members = {}
      /\ object.name = job.wants[t].name /\ object.role = role /\ object.members = {}
  OBVIOUS
<1> HIDE DEF row, object
<1>10. R2 \in RowTables /\ R2[<<t, k>>] = row /\ OnlyAt(t, k, rows, R2)
  BY <1>1, <1>5, <1>7 DEF RowTables, OnlyAt
<1>11. /\ g2 \in Guilds /\ Len(g2) = n /\ g2[n] = object /\ \A i \in 1..Len(guild) : g2[i] = guild[i]
  <2>1. guild \in Seq(Discord!Objects \cup {None}) /\ object \in Discord!Objects \cup {None}
    BY <1>1, <1>7 DEF Guilds
  <2> QED BY <1>6, <2>1, AppendProperties DEF Guilds
<1>12. DOMAIN g2 = DOMAIN guild \cup {n} /\ n \notin DOMAIN guild
  <2>1. DOMAIN g2 = 1..n
    BY <1>11, LenProperties DEF Guilds
  <2> QED BY <1>2, <2>1
<1>13. \/ k = "role" /\ role = 0
       \/ k = "channel" /\ role = rows[<<t, "role">>].id
  BY <1>1 DEF Discord!Kinds
<1>14. OnPaper(Done(job, x), R2) /\ (k = "role" => Given(job, t) = {} /\ Taken(job, t) = {})
  <2>1. CASE k = "role"
    BY <1>1, <1>8, <1>9, <1>10, <1>13, <2>1, RoleOnPaper DEF Calling
  <2>2. CASE k = "channel"
    BY <1>1, <1>8, <1>9, <1>10, <1>13, <2>2, ChannelOnPaper DEF Calling
  <2> QED BY <1>1, <2>1, <2>2 DEF Discord!Kinds
<1>15. /\ Done(job, x).done = job.done \cup {x} /\ Done(job, x).healing = job.healing
  BY <1>1, DoneIs DEF Calling
<1>16. \A u \in DiscordTeams : Given(Done(job, x), u) = Given(job, u) /\ Taken(Done(job, x), u) = Taken(job, u)
  <2>1. \A u \in DiscordTeams, p \in Players : x # Discord!Task(u, "add", p) /\ x # Discord!Task(u, "take", p)
    BY <1>1 DEF Discord!Task, Discord!Kinds
  <2> QED BY <1>15, <2>1 DEF Given, Taken
<1>17. \A u \in DiscordTeams, m \in Discord!Kinds : Discord!Task(u, m, None) = x => u = t /\ m = k
  BY DEF Discord!Task
<1>18. rows[<<t, k>>] # None => ~Is(guild, rows[<<t, k>>].id)
  BY <1>1 DEF Discord!Makes, Discord!RowOf, Discord!There, Is
<1>19. \A u \in DiscordTeams, m \in Discord!Kinds : u # t \/ m # k => R2[<<u, m>>] = rows[<<u, m>>]
  BY <1>1, <1>10, OnlyAtIs
<1>20. ASSUME InGuild(job, rows, guild)
       PROVE  InGuild(Done(job, x), R2, g2) /\ (AllStand(rows, guild) => AllStand(R2, g2))
  <2>1. \A p \in Discord!Places : rows[p] # None => rows[p].id # n
    BY <1>12, <1>20 DEF InGuild, OneRowEach
  <2>2. Is(g2, n) /\ g2[n].name = row.name /\ g2[n].role = row.role
    BY <1>8, <1>9, <1>11, <1>12 DEF Is
  <2>3. k = "role" => g2[n].members = (row.members \cup Given(Done(job, x), t)) \ Taken(Done(job, x), t)
    BY <1>1, <1>9, <1>11, <1>14, <1>16
  <2>4. \A i \in DOMAIN guild : g2[i] = guild[i]
    BY <1>2, <1>11
  <2>5. \A u \in DiscordTeams, m \in Discord!Kinds :
            Discord!Task(u, m, None) \in Done(job, x).done => Discord!Task(u, m, None) \in job.done \/ (u = t /\ m = k)
    BY <1>15, <1>17
  <2> HIDE DEF t, k, n
  <2> QED BY <1>1, <1>8, <1>9, <1>10, <1>12, <1>15, <1>16, <1>18, <1>19, <1>20, <2>1, <2>2, <2>3, <2>4, <2>5, GuildMoves
<1> QED BY <1>10, <1>11, <1>14, <1>20

\* One object that is there changes, or goes.
LEMMA GuildChanged ==
    ASSUME NEW g \in Guilds, NEW id \in DOMAIN g, NEW object \in Discord!Objects \cup {None}
    PROVE  [g EXCEPT ![id] = object] \in Guilds
<1>1. DOMAIN g = 1..Len(g)
  BY LenProperties DEF Guilds
<1> QED BY <1>1, ExceptSeq DEF Guilds

LEMMA EditedWritten ==
    ASSUME NEW x, Calling(x), x.what \in Discord!Kinds, ~Discord!Makes(x),
           NEW R2, R2 = Discord!Written(job, x), NEW g2, g2 = Discord!InDiscord(job, x)
    PROVE  /\ R2 \in RowTables /\ g2 \in Guilds /\ OnPaper(Done(job, x), R2)
           /\ InGuild(job, rows, guild) => InGuild(Done(job, x), R2, g2) /\ (AllStand(rows, guild) => AllStand(R2, g2))
<1> DEFINE t == x.team
           k == x.what
           old == rows[<<t, k>>]
           n == old.id
           role == IF k = "role" THEN 0 ELSE rows[<<t, "role">>].id
           object == [guild[n] EXCEPT !.name = job.wants[t].name, !.role = role]
           row == [old EXCEPT !.name = job.wants[t].name, !.role = role]
<1>1. /\ rows \in RowTables /\ guild \in Guilds /\ x \in Discord!Tasks /\ t \in DiscordTeams /\ k \in Discord!Kinds
      /\ Discord!Kind(x) = k /\ <<t, k>> \in Discord!Places /\ job.wants[t].name \in Names /\ role \in {0} \cup Discord!Ids
      /\ Discord!WantedBody(job, rows, t, k) = [name |-> job.wants[t].name, role |-> role]
  BY CallIs
<1>2. Discord!RowOf(x) = old /\ old # None /\ n \in DOMAIN guild /\ guild[n] # None
  BY <1>1 DEF Discord!Makes, Discord!RowOf, Discord!There
<1>3. old \in Discord!Rows /\ guild[n] \in Discord!Objects
  <2>1. old \in Discord!Rows \cup {None}
    BY <1>1 DEF RowTables
  <2>2. guild[n] \in Discord!Objects \cup {None}
    BY <1>1, <1>2, ElementOfSeq, LenProperties DEF Guilds
  <2> QED BY <1>2, <2>1, <2>2
<1>4. R2 = [rows EXCEPT ![<<t, k>>] = row]
  <2>1. R2 = [rows EXCEPT ![<<x.team, Discord!Kind(x)>>] = Discord!Edited(job, x, rows[<<x.team, Discord!Kind(x)>>])]
    BY <1>1 DEF Discord!Written
  <2> QED BY <1>1, <2>1 DEF Discord!Edited
<1>5. g2 = [guild EXCEPT ![n] = object]
  <2>1. g2 = [guild EXCEPT ![Discord!RowOf(x).id] = Discord!Changed(job, x, guild[Discord!RowOf(x).id])]
    BY <1>1 DEF Discord!InDiscord
  <2>2. Discord!Changed(job, x, guild[n]) =
Discord!Edited(job, x, guild[n])
    BY <1>1 DEF Discord!Changed, Discord!Kinds
  <2> QED BY <1>1, <1>2, <2>1, <2>2 DEF Discord!Edited
<1>6. row \in Discord!Rows /\ object \in Discord!Objects
  BY <1>1, <1>3 DEF Discord!Rows, Discord!Objects
<1>7. row # None /\ object # None
  BY <1>6, DiscordConstants
<1>8. /\ row.id = n /\ row.name = job.wants[t].name /\ row.role = role /\ row.members = old.members
      /\ object.name = job.wants[t].name /\ object.role = role /\ object.members = guild[n].members
  BY <1>3 DEF Discord!Rows, Discord!Objects
<1> HIDE DEF row, object
<1>9. R2 \in RowTables /\ R2[<<t, k>>] = row /\ OnlyAt(t, k, rows, R2)
  BY <1>1, <1>4, <1>6 DEF RowTables, OnlyAt
<1>10. /\ g2 \in Guilds /\ DOMAIN g2 = DOMAIN guild /\ g2[n] = object /\ \A i \in DOMAIN guild : i # n => g2[i] = guild[i]
  <2>1. object \in Discord!Objects \cup {None} /\ n \in DOMAIN guild /\ guild \in Guilds /\ g2 = [guild EXCEPT ![n] = object]
    BY <1>1, <1>2, <1>5, <1>6
  <2> HIDE DEF t, k, old, n, role
  <2>2. [guild EXCEPT ![n] = object] \in Guilds
    BY <2>1, GuildChanged
  <2> QED BY <2>1, <2>2
<1>11. \/ k = "role" /\ role = 0
       \/ k = "channel" /\ role = rows[<<t, "role">>].id
  BY <1>1 DEF Discord!Kinds
<1>12. OnPaper(Done(job, x), R2) /\ (k = "role" => Given(job, t) = {} /\ Taken(job, t) = {})
  <2>1. CASE k = "role"
    BY <1>1, <1>7, <1>8, <1>9, <1>11, <2>1, RoleOnPaper DEF Calling
  <2>2. CASE k = "channel"
    BY <1>1, <1>7, <1>8, <1>9, <1>11, <2>2, ChannelOnPaper DEF Calling
  <2> QED BY <1>1, <2>1, <2>2 DEF Discord!Kinds
<1>13. /\ Done(job, x).done = job.done \cup {x} /\ Done(job, x).healing = job.healing
  BY <1>1, DoneIs DEF Calling
<1>14. \A u \in DiscordTeams : Given(Done(job, x), u) = Given(job, u) /\ Taken(Done(job, x), u) = Taken(job, u)
  <2>1. \A u \in DiscordTeams, p \in Players : x # Discord!Task(u, "add", p) /\ x # Discord!Task(u, "take", p)
    BY <1>1 DEF Discord!Task, Discord!Kinds
  <2> QED BY <1>13, <2>1 DEF Given, Taken
<1>15. \A u \in DiscordTeams, m \in Discord!Kinds : Discord!Task(u, m, None) = x => u = t /\ m = k
  BY DEF Discord!Task
<1>16. \A u \in DiscordTeams, m \in Discord!Kinds : u # t \/ m # k => R2[<<u, m>>] = rows[<<u, m>>]
  BY <1>1, <1>9, OnlyAtIs
<1>17. ASSUME InGuild(job, rows, guild)
       PROVE  InGuild(Done(job, x), R2, g2) /\ (AllStand(rows, guild) => AllStand(R2, g2))
  <2>1. \A p \in Discord!Places : rows[p] # None /\ rows[p].id = n => p = <<t, k>>
    BY <1>1, <1>2, <1>17 DEF InGuild, OneRowEach
  <2>2. Is(g2, n) /\ g2[n].name = row.name /\ g2[n].role = row.role
    BY <1>2, <1>7, <1>8, <1>10 DEF Is
  <2>3. k = "role" => g2[n].members = (row.members \cup Given(Done(job, x), t)) \ Taken(Done(job, x), t)
    <3>1. k = "role" => guild[n].members = (old.members \cup Given(job, t)) \ Taken(job, t)
      BY <1>1, <1>2, <1>17 DEF InGuild, AsWritten, Is
    <3> QED BY <1>1, <1>8, <1>10, <1>14, <3>1
  <2>4. \A u \in DiscordTeams, m \in Discord!Kinds :
            Discord!Task(u, m, None) \in Done(job, x).done => Discord!Task(u, m, None) \in job.done \/ (u = t /\ m = k)
    BY <1>13, <1>15
  <2>5. R2[<<t, k>>] # None /\ R2[<<t, k>>].id = n /\ rows[<<t, k>>].id = n
    BY <1>7, <1>8, <1>9
  <2>6. DOMAIN guild \subseteq DOMAIN g2 /\ DOMAIN g2 \subseteq DOMAIN guild \cup {n}
    BY <1>10
  <2>7. Done(job, x).healing => job.healing
    BY <1>13
  <2> HIDE DEF t, k, n, old, role
  <2> QED BY <1>1, <1>9, <1>10, <1>13, <1>14, <1>16, <1>17, <2>1, <2>2, <2>3, <2>4, <2>5, <2>6, <2>7, GuildMoves
<1> QED BY <1>9, <1>10, <1>12, <1>17

LEMMA MemberCalled ==
    ASSUME NEW x, Calling(x), x.what \in {"add", "take"},
           NEW R2, R2 = Discord!Written(job, x), NEW g2, g2 = Discord!InDiscord(job, x)
    PROVE  /\ R2 \in RowTables /\ g2 \in Guilds /\ OnPaper(Done(job, x), R2)
           /\ InGuild(job, rows, guild) => InGuild(Done(job, x), R2, g2) /\ (AllStand(rows, guild) => AllStand(R2, g2))
<1> DEFINE t == x.team
           j2 == Done(job, x)
           old == rows[<<t, "role">>]
           n == old.id
           object == [guild[n] EXCEPT !.members = IF x.what = "add" THEN @ \cup {x.who} ELSE @ \ {x.who}]
           row == [old EXCEPT !.members = (@ \cup Given(j2, t)) \ Taken(j2, t)]
<1>1. /\ rows \in RowTables /\ guild \in Guilds /\ x \in Discord!Tasks /\ t \in DiscordTeams
      /\ Discord!Kind(x) = "role" /\ <<t, "role">> \in Discord!Places /\ old # None
  BY CallIs
<1>2. Discord!RowOf(x) = old /\ n \in DOMAIN guild /\ guild[n] # None /\ ~Discord!Makes(x) /\ x.what \notin Discord!Kinds
  BY <1>1 DEF Discord!Makes, Discord!RowOf, Discord!There, Discord!Kinds, Calling, Discord!Possible
<1>3. old \in Discord!Rows /\ guild[n] \in Discord!Objects
  <2>1. old \in Discord!Rows \cup {None}
    BY <1>1 DEF RowTables
  <2>2. guild[n] \in Discord!Objects \cup {None}
    BY <1>1, <1>2, ElementOfSeq, LenProperties DEF Guilds
  <2> QED BY <1>1, <1>2, <2>1, <2>2
<1>4. \/ R2 = rows /\ Discord!MembersLeft(j2, rows, t)
      \/ R2 = [rows EXCEPT ![<<t, "role">>] = row]
  <2>1. x.what \notin {"dropRole", "dropChannel"}
    OBVIOUS
  <2>2. \/ R2 = rows /\ Discord!MembersLeft(j2, rows, t)
        \/ R2 = Discord!KeepMembers(j2, rows, t)
    BY <1>2, <2>1 DEF Discord!Written, Done
  <2> QED BY <1>1, <2>2 DEF Discord!KeepMembers, Given, Taken
<1>5. g2 = [guild EXCEPT ![n] = object]
  <2>1. g2 = [guild EXCEPT ![n] = Discord!Changed(job, x, guild[n])]
    BY <1>2 DEF Discord!InDiscord
  <2>2. Discord!Changed(job, x, guild[n]) = object
    BY <1>2 DEF Discord!Changed, Discord!Kinds
  <2> QED BY <2>1, <2>2
<1>6. Given(j2, t) \subseteq Players
  BY DEF Given
<1>7. x.who \in Players
  <2>1. Due(job, rows, x) /\ x.team \in Discord!Exist(job.wants)
    BY <1>1, FirstIs DEF Calling, Due, Discord!Kinds
  <2>2. job.wants[t].members \subseteq Players /\ Discord!Had(rows, t) \subseteq Players
    BY <1>1, <2>1, MembersTyped DEF Calling
  <2> QED BY <2>1, <2>2 DEF Due, Discord!Kinds
<1>8. row \in Discord!Rows /\ object \in Discord!Objects
  BY <1>3, <1>6, <1>7 DEF Discord!Rows, Discord!Objects
<1>9. row # None /\ object # None
  BY <1>8, DiscordConstants
<1>10. /\ row.id = n /\ row.name = old.name /\ row.role = old.role /\ row.members = (old.members \cup Given(j2, t)) \ Taken(j2, t)
       /\ object.name = guild[n].name /\ object.role = guild[n].role
       /\ object.members = IF x.what = "add" THEN guild[n].members \cup {x.who} ELSE guild[n].members \ {x.who}
  BY <1>3 DEF Discord!Rows, Discord!Objects
<1> HIDE DEF row, object
<1>11. /\ R2 \in RowTables /\ OnlyAt(t, "role", rows, R2) /\ R2[<<t, "role">>] \in {old, row}
       /\ \/ R2 = rows /\ Discord!MembersLeft(j2, rows, t)
          \/ R2[<<t, "role">>].members = (old.members \cup Given(j2, t)) \ Taken(j2, t)
  BY <1>1, <1>4, <1>8, <1>10 DEF RowTables, OnlyAt
<1>12. /\ R2[<<t, "role">>] # None /\ R2[<<t, "role">>].id = n
       /\ R2[<<t, "role">>].name = old.name /\ R2[<<t, "role">>].role = old.role
       /\ \/ R2[<<t, "role">>].members = old.members
          \/ R2[<<t, "role">>].members = (old.members \cup Given(j2, t)) \ Taken(j2, t)
  BY <1>1, <1>9, <1>10, <1>11
<1>13. /\ g2 \in Guilds /\ DOMAIN g2 = DOMAIN guild /\ g2[n] = object /\ \A i \in DOMAIN guild : i # n => g2[i] = guild[i]
  <2>1. object \in Discord!Objects \cup {None} /\ n \in DOMAIN guild /\ guild \in Guilds /\ g2 = [guild EXCEPT ![n] = object]
    BY <1>1, <1>2, <1>5, <1>8
  <2> HIDE DEF t, old, n
  <2>2. [guild EXCEPT ![n] = object] \in Guilds
    BY <2>1, GuildChanged
  <2> QED BY <2>1, <2>2
<1>14. /\ OnPaper(j2, R2)
       /\ x.what = "add" => x.who \notin Taken(job, t)
       /\ Given(j2, t) = Given(job, t) \cup (IF x.what = "add" THEN {x.who} ELSE {})
       /\ Taken(j2, t) = Taken(job, t) \cup (IF x.what = "take" THEN {x.who} ELSE {})
  BY <1>1, <1>11, <1>12, MemberOnPaper DEF Calling
<1>15. j2.done = job.done \cup {x} /\ j2.healing = job.healing
  BY <1>1, DoneIs DEF Calling
<1>16. \A u \in DiscordTeams : u # t => Given(j2, u) = Given(job, u) /\ Taken(j2, u) = Taken(job, u)
  <2>1. \A u \in DiscordTeams, p \in Players : u # t => x # Discord!Task(u, "add", p) /\ x # Discord!Task(u, "take", p)
    BY DEF Discord!Task
  <2> QED BY <1>15, <2>1 DEF Given, Taken
<1>17. \A u \in DiscordTeams, m \in Discord!Kinds : Discord!Task(u, m, None) # x
  BY <1>2 DEF Discord!Task
<1>18. \A u \in DiscordTeams, m \in Discord!Kinds : u # t \/ m # "role" => R2[<<u, m>>] = rows[<<u, m>>]
  <2>1. "role" \in Discord!Kinds
    BY DEF Discord!Kinds
  <2> HIDE DEF t, old, n, j2
  <2> QED BY <1>1, <1>11, <2>1, OnlyAtIs
<1>19. ASSUME InGuild(job, rows, guild)
       PROVE  InGuild(j2, R2, g2) /\ (AllStand(rows, guild) => AllStand(R2, g2))
  <2>1. \A p \in Discord!Places : rows[p] # None /\ rows[p].id = n => p = <<t, "role">>
    BY <1>1, <1>19 DEF InGuild, OneRowEach
  <2>2. /\ guild[n].name = old.name /\ guild[n].role = old.role
        /\ guild[n].members = (old.members \cup Given(job, t)) \ Taken(job, t)
    BY <1>1, <1>2, <1>19 DEF InGuild, AsWritten, Is, Discord!Kinds
  <2>3. Is(g2, n) /\ g2[n].name = R2[<<t, "role">>].name /\ g2[n].role = R2[<<t, "role">>].role
    BY <1>2, <1>9, <1>10, <1>12, <1>13, <2>2 DEF Is
  <2>4. object.members = (old.members \cup Given(j2, t)) \ Taken(j2, t)
    <3>1. CASE x.what = "add"
      BY <1>10, <1>14, <2>2, <3>1
    <3>2. CASE x.what = "take"
      BY <1>10, <1>14, <2>2, <3>2
    <3> QED BY <3>1, <3>2
  <2>5. g2[n].members = (R2[<<t, "role">>].members \cup Given(j2, t)) \ Taken(j2, t)
    <3>1. g2[n].members = (old.members \cup Given(j2, t)) \ Taken(j2, t)
      BY <1>13, <2>4
    <3>2. CASE R2[<<t, "role">>].members = old.members
      BY <3>1, <3>2
    <3>3. CASE R2[<<t, "role">>].members = (old.members \cup Given(j2, t)) \ Taken(j2, t)
      <4> DEFINE handed == Given(j2, t)
                 taken == Taken(j2, t)
      <4> HIDE DEF handed, taken
      <4>1. g2[n].members = (old.members \cup handed) \ taken /\ R2[<<t, "role">>].members = (old.members \cup handed) \ taken
        BY <3>1, <3>3 DEF handed, taken
      <4>2. \A S : (S \cup handed) \ taken = (((S \cup handed) \ taken) \cup handed) \ taken
        OBVIOUS
      <4> QED BY <4>1, <4>2 DEF handed, taken
    <3> QED BY <1>12, <3>2, <3>3
  <2>6. \A u \in DiscordTeams, m \in Discord!Kinds :
            Discord!Task(u, m, None) \in j2.done => Discord!Task(u, m, None) \in job.done \/ (u = t /\ m = "role")
    BY <1>15, <1>17
  <2>7. rows[<<t, "role">>].id = n
    OBVIOUS
  <2>8. DOMAIN guild \subseteq DOMAIN g2 /\ DOMAIN g2 \subseteq DOMAIN guild \cup {n}
    BY <1>13
  <2>9. j2.healing => job.healing
    BY <1>15
  <2>10. "role" \in Discord!Kinds
    BY DEF Discord!Kinds
  <2> HIDE DEF t, n, old, j2
  <2>11. PICK k \in Discord!Kinds : k = "role"
    BY <2>10
  <2>12. /\ \A u \in DiscordTeams, m \in Discord!Kinds : u # t \/ m # k => R2[<<u, m>>] = rows[<<u, m>>]
         /\ \A p \in Discord!Places : rows[p] # None /\ rows[p].id = n => p = <<t, k>>
    BY <1>18, <2>1, <2>11
  <2>13. /\ rows[<<t, k>>] # None => rows[<<t, k>>].id = n \/ ~Is(guild, rows[<<t, k>>].id)
         /\ R2[<<t, k>>] # None =>
                /\ R2[<<t, k>>].id = n /\ Is(g2, n) /\ g2[n].name = R2[<<t, k>>].name /\ g2[n].role = R2[<<t, k>>].role
                /\ k = "role" => g2[n].members = (R2[<<t, k>>].members \cup Given(j2, t)) \ Taken(j2, t)
         /\ R2[<<t, k>>] = None => ~Is(g2, n) /\ Discord!Task(t, k, None) \notin j2.done
    BY <1>12, <2>3, <2>5, <2>7, <2>11
  <2>14. /\ \A u \in DiscordTeams : u # t \/ k # "role" => Given(j2, u) = Given(job, u) /\ Taken(j2, u) = Taken(job, u)
         /\ \A u \in DiscordTeams, m \in Discord!Kinds :
                Discord!Task(u, m, None) \in j2.done => Discord!Task(u, m, None) \in job.done \/ (u = t /\ m = k)
    BY <1>16, <2>6, <2>11
  <2> QED BY <1>1, <1>13, <1>19, <2>8, <2>9, <2>12, <2>13, <2>14, GuildMoves
<1> QED BY <1>11, <1>13, <1>14, <1>19

LEMMA DropCalled ==
    ASSUME NEW x, Calling(x), x.what \in {"dropRole", "dropChannel"},
           NEW R2, R2 = Discord!Written(job, x), NEW g2, g2 = Discord!InDiscord(job, x)
    PROVE  /\ R2 \in RowTables /\ g2 \in Guilds /\ OnPaper(Done(job, x), R2)
           /\ InGuild(job, rows, guild) => InGuild(Done(job, x), R2, g2) /\ (AllStand(rows, guild) => AllStand(R2, g2))
<1> DEFINE t == x.team
           k == Discord!Kind(x)
           j2 == Done(job, x)
           n == rows[<<t, k>>].id
<1>1. /\ rows \in RowTables /\ guild \in Guilds /\ x \in Discord!Tasks /\ t \in DiscordTeams
      /\ k \in Discord!Kinds /\ <<t, k>> \in Discord!Places
  BY CallIs
<1>2. Discord!RowOf(x) = rows[<<t, k>>] /\ ~Discord!Makes(x) /\ x.what \notin Discord!Kinds
  BY <1>1 DEF Discord!Makes, Discord!RowOf, Discord!Kinds
<1>3. R2 = [rows EXCEPT ![<<t, k>>] = None]
  BY <1>2 DEF Discord!Written
<1>4. g2 = [guild EXCEPT ![n] = None]
  <2>1. g2 = [guild EXCEPT ![n] = Discord!Changed(job, x, guild[n])]
    BY <1>2 DEF Discord!InDiscord
  <2>2. Discord!Changed(job, x, guild[n]) = None
    BY <1>2 DEF Discord!Changed, Discord!Kinds
  <2> QED BY <2>1, <2>2
<1>5. R2 \in RowTables /\ R2[<<t, k>>] = None /\ OnlyAt(t, k, rows, R2)
  BY <1>1, <1>3 DEF RowTables, OnlyAt
<1>6. OnPaper(j2, R2) /\ rows[<<t, k>>] # None
  BY <1>1, <1>5, DropOnPaper DEF Calling
<1>7. /\ g2 \in Guilds /\ DOMAIN g2 = DOMAIN guild /\ (n \in DOMAIN guild => g2[n] = None)
      /\ \A i \in DOMAIN guild : i # n => g2[i] = guild[i]
  <2>1. CASE n \in DOMAIN guild
    <3> HIDE DEF n
    <3>1. [guild EXCEPT ![n] = None] \in Guilds
      BY <1>1, <2>1, GuildChanged
    <3> QED BY <1>4, <2>1, <3>1
  <2>2. CASE n \notin DOMAIN guild
    <3> HIDE DEF n
    <3>1. g2 = guild
      BY <1>1, <1>4, <2>2, LenProperties DEF Guilds
    <3> QED BY <1>1, <2>2, <3>1
  <2> QED BY <2>1, <2>2
<1>8. j2.done = job.done \cup {x} /\ j2.healing = job.healing /\ j2.wants = job.wants
  BY <1>1, DoneIs DEF Calling
<1>9. \A u \in DiscordTeams : Given(j2, u) = Given(job, u) /\ Taken(j2, u) = Taken(job, u)
  <2>1. \A u \in DiscordTeams, p \in Players : x # Discord!Task(u, "add", p) /\ x # Discord!Task(u, "take", p)
    BY DEF Discord!Task
  <2> QED BY <1>8, <2>1 DEF Given, Taken
<1>10. \A u \in DiscordTeams, m \in Discord!Kinds : Discord!Task(u, m, None) # x
  BY <1>2 DEF Discord!Task
<1>11. \A u \in DiscordTeams, m \in Discord!Kinds : u # t \/ m # k => R2[<<u, m>>] = rows[<<u, m>>]
  BY <1>1, <1>5, OnlyAtIs
<1>12. Discord!Task(t, k, None) \notin j2.done
  <2>1. Discord!Task(t, k, None).what = k /\ Discord!Task(t, k, None).team = t
    BY DEF Discord!Task
  <2> QED BY <1>1, <1>5, <1>6, <2>1 DEF OnPaper, DoneShows
<1>13. ASSUME InGuild(job, rows, guild)
       PROVE  InGuild(j2, R2, g2) /\ (AllStand(rows, guild) => AllStand(R2, g2))
  <2>1. \A p \in Discord!Places : rows[p] # None /\ rows[p].id = n => p = <<t, k>>
    BY <1>1, <1>6, <1>13 DEF InGuild, OneRowEach
  <2>2. ~Is(g2, n)
    BY <1>7 DEF Is
  <2>3. \A u \in DiscordTeams, m \in Discord!Kinds :
            Discord!Task(u, m, None) \in j2.done => Discord!Task(u, m, None) \in job.done \/ (u = t /\ m = k)
    BY <1>8, <1>10
  <2>4. rows[<<t, k>>].id = n
    OBVIOUS
  <2>5. DOMAIN guild \subseteq DOMAIN g2 /\ DOMAIN g2 \subseteq DOMAIN guild \cup {n}
    BY <1>7
  <2>6. j2.healing => job.healing
    BY <1>8
  <2> HIDE DEF t, k, n, j2
  <2> QED BY <1>1, <1>5, <1>7, <1>9, <1>11, <1>12, <1>13, <2>1, <2>2, <2>3, <2>4, <2>5, <2>6, GuildMoves
<1> QED BY <1>5, <1>6, <1>7, <1>13

\* A call is answered.
LEMMA CallAnswered ==
    ASSUME NEW x, Calling(x), NEW R2, R2 = Discord!Written(job, x), NEW g2, g2 = Discord!InDiscord(job, x)
    PROVE  /\ R2 \in RowTables /\ g2 \in Guilds /\ OnPaper(Done(job, x), R2)
           /\ InGuild(job, rows, guild) => InGuild(Done(job, x), R2, g2) /\ (AllStand(rows, guild) => AllStand(R2, g2))
<1>1. x.what \in Discord!Kinds \/ x.what \in {"add", "take"} \/ x.what \in {"dropRole", "dropChannel"}
  BY CallIs DEF Discord!Tasks, Discord!Kinds
<1> QED BY <1>1, MadeWritten, EditedWritten, MemberCalled, DropCalled

\* Nothing was done yet.
LEMMA NothingDone ==
    ASSUME NEW j, j.done = {}, NEW R
    PROVE  /\ OnPaper(j, R)
           /\ \A t \in DiscordTeams : Given(j, t) = {} /\ Taken(j, t) = {}
           /\ \A i, g : i.done = {} => (InGuild(i, R, g) <=> InGuild(j, R, g))
<1>1. \A i : i.done = {} => \A t \in DiscordTeams : Given(i, t) = {} /\ Taken(i, t) = {}
  BY DEF Given, Taken
<1>2. \A i, g : i.done = {} => (AsWritten(i, R, g) <=> AsWritten(j, R, g))
  BY <1>1 DEF AsWritten
<1>3. \A i, g : i.done = {} => Heals(i, R, g)
  BY DEF Heals
<1> QED BY <1>1, <1>2, <1>3 DEF OnPaper, DoneShows, InTurn, MembersWritten, InGuild

LEMMA IdleIs == NoJob.done = {} /\ \A t \in DiscordTeams : Given(NoJob, t) = {} /\ Taken(NoJob, t) = {}
<1>1. NoJob.done = {}
  BY DEF NoJob
<1> QED BY <1>1, NothingDone

\* A Team's role has whom its row says.
Tallies(j, R, t) == R[<<t, "role">>] # None =>
    (R[<<t, "role">>].members \cup Given(j, t)) \ Taken(j, t) = R[<<t, "role">>].members

LEMMA TalliesWhenWritten ==
    ASSUME NEW j, NEW R, OnPaper(j, R), NEW t \in DiscordTeams,
           Discord!MembersLeft(j, R, t) => Given(j, t) = {} /\ Taken(j, t) = {}
    PROVE  Tallies(j, R, t)
<1> SUFFICES ASSUME R[<<t, "role">>] # None
             PROVE  (R[<<t, "role">>].members \cup Given(j, t)) \ Taken(j, t) = R[<<t, "role">>].members
  BY DEF Tallies
<1>1. CASE t \in Discord!Exist(j.wants) /\ j.done # {} /\ ~Discord!MembersLeft(j, R, t)
  <2>1. Given(j, t) \subseteq R[<<t, "role">>].members /\ Taken(j, t) \cap R[<<t, "role">>].members = {}
    BY <1>1 DEF OnPaper, MembersWritten, Discord!Had
  <2> QED BY <2>1
<1>2. CASE Given(j, t) = {} /\ Taken(j, t) = {}
  BY <1>2
<1>3. CASE t \notin Discord!Exist(j.wants)
  <2>1. \A w \in {"add", "take"}, p \in Players : Discord!Task(t, w, p).what = w /\ Discord!Task(t, w, p).team = t
    BY DEF Discord!Task
  <2>2. \A w \in {"add", "take"}, p \in Players : Discord!Task(t, w, p) \notin j.done
    BY <1>3, <2>1 DEF OnPaper, DoneShows
  <2>3. Given(j, t) = {} /\ Taken(j, t) = {}
    BY <2>2 DEF Given, Taken
  <2> QED BY <2>3
<1>4. CASE j.done = {}
  BY <1>4 DEF Given, Taken
<1> QED BY <1>1, <1>2, <1>3, <1>4

\* When a call fails, only the members of the Team it was about are left to write.
LEMMA TalliesElsewhere ==
    ASSUME NEW j, Reads1(j), NEW R \in RowTables, OnPaper(j, R), NEW x \in Discord!First(Discord!ToDo(j, R)),
           NEW t \in DiscordTeams, x.what \in {"add", "take"} => x.team # t
    PROVE  Tallies(j, R, t)
<1>1. /\ x \in Discord!Tasks
      /\ \A d \in j.done : d \in Discord!Tasks /\ Discord!Rank(d) <= Discord!Rank(x)
      /\ \A y \in Discord!Tasks : y \notin j.done /\ Due(j, R, y) => Discord!Rank(x) <= Discord!Rank(y)
  BY FirstIs
<1>2. SUFFICES ASSUME Discord!MembersLeft(j, R, t) PROVE Given(j, t) = {} /\ Taken(j, t) = {}
  BY TalliesWhenWritten
<1>3. PICK y \in Discord!ToDo(j, R) : y.team = t /\ y.what \in {"add", "take"}
  BY <1>2 DEF Discord!MembersLeft
<1>4. y \in Discord!Tasks /\ y \notin j.done /\ Due(j, R, y)
  BY ToDoIs
<1>5. Discord!Rank(x) <= Discord!Rank(y) /\ t \in Nat /\ Discord!Rank(y) \in {4 * t + 1, 4 * t + 2}
  BY <1>1, <1>3, <1>4, RankIs
<1>6. ASSUME NEW d \in j.done, d.team = t, d.what \in {"add", "take"} PROVE FALSE
  <2>1. d \in Discord!Tasks /\ Discord!Rank(d) <= Discord!Rank(x)
    BY <1>1
  <2>2. Discord!Rank(d) \in {4 * t + 1, 4 * t + 2}
    BY <1>6, <2>1, RankIs
  <2>3. Discord!Rank(x) \in Nat
    BY <1>1, RankIs
  <2>4. Discord!Rank(x) \in {4 * t + 1, 4 * t + 2}
    BY <1>5, <2>1, <2>2, <2>3
  <2>5. x.what \in {"role", "add", "take", "channel", "dropChannel", "dropRole"}
    BY <1>1 DEF Discord!Tasks
  <2>6. /\ x.team \in Nat /\ LastTeam \in Nat /\ 4 * t <= LastTeam
        /\ Discord!Rank(x) \in {4 * x.team, 4 * x.team + 1, 4 * x.team + 2, 4 * x.team + 3, LastTeam + 4, LastTeam + 5}
        /\ Discord!Rank(x) \in {4 * x.team + 1, 4 * x.team + 2} => x.what \in {"add", "take"}
    <3>1. x.team \in Nat /\ LastTeam \in Nat /\ 4 * t <= LastTeam /\ 4 * x.team <= LastTeam
      BY <1>1, <1>3, <1>4, RankIs
    <3>2. /\ x.what = "role" => Discord!Rank(x) = 4 * x.team
          /\ x.what = "add" => Discord!Rank(x) = 4 * x.team + 1
          /\ x.what = "take" => Discord!Rank(x) = 4 * x.team + 2
          /\ x.what = "channel" => Discord!Rank(x) = 4 * x.team + 3
          /\ x.what = "dropChannel" => Discord!Rank(x) = LastTeam + 4
          /\ x.what = "dropRole" => Discord!Rank(x) = LastTeam + 5
      BY <1>1, RankIs
    <3> QED BY <2>5, <3>1, <3>2
  <2>7. \A a, b, l, r \in Nat :
            /\ r \in {4 * a + 1, 4 * a + 2} /\ 4 * a <= l
            /\ r \in {4 * b, 4 * b + 1, 4 * b + 2, 4 * b + 3, l + 4, l + 5}
            => b = a /\ r \in {4 * b + 1, 4 * b + 2}
    OBVIOUS
  <2>8. x.team = t /\ x.what \in {"add", "take"}
    BY <1>5, <2>3, <2>4, <2>6, <2>7
  <2> QED BY <2>8
<1>7. \A w \in {"add", "take"}, p \in Players : Discord!Task(t, w, p).what = w /\ Discord!Task(t, w, p).team = t
  BY DEF Discord!Task
<1> QED BY <1>6, <1>7 DEF Given, Taken

\* A job that has nothing left to do leaves every Team's objects as it read them, and nothing else.
LEMMA JobOver ==
    ASSUME NEW j, Reads1(j), NEW R \in RowTables, OnPaper(j, R), Discord!ToDo(j, R) = {}
    PROVE  /\ \A t \in Discord!Exist(j.wants) :
                /\ t \in DiscordTeams
                /\ \A k \in Discord!Kinds : R[<<t, k>>] # None /\ R[<<t, k>>].name = j.wants[t].name
                /\ R[<<t, "role">>].members = j.wants[t].members
                /\ R[<<t, "channel">>].role = R[<<t, "role">>].id
           /\ \A p \in Discord!Places : R[p] # None => p[1] \in Discord!Exist(j.wants)
           /\ \A t \in DiscordTeams : Tallies(j, R, t)
           /\ j.force => \A t \in Discord!Exist(j.wants), k \in Discord!Kinds : Discord!Task(t, k, None) \in j.done
<1>1. \A y \in Discord!Tasks : Due(j, R, y) => y \in j.done
  BY ToDoIs
<1>2. \A t \in DiscordTeams : ~Discord!MembersLeft(j, R, t)
  BY DEF Discord!MembersLeft
<1>3. \A t \in DiscordTeams : Tallies(j, R, t)
  BY <1>2, TalliesWhenWritten
<1>4. ASSUME NEW t \in Discord!Exist(j.wants), NEW k \in Discord!Kinds
      PROVE  /\ R[<<t, k>>] # None /\ R[<<t, k>>].name = j.wants[t].name
             /\ R[<<t, k>>].role = IF k = "role" THEN 0 ELSE R[<<t, "role">>].id
             /\ j.force => Discord!Task(t, k, None) \in j.done
  <2> DEFINE y == Discord!Task(t, k, None)
  <2>1. y.team = t /\ y.what = k /\ y.who = None /\ y \in Discord!Tasks
    BY DEF Discord!Task, Discord!Tasks, Discord!Kinds, Discord!Exist
  <2> HIDE DEF y
  <2>2. CASE Due(j, R, y)
    <3>1. y \in j.done
      BY <1>1, <2>1, <2>2
    <3> QED BY <2>1, <3>1 DEF OnPaper, DoneShows, y
  <2>3. CASE ~Due(j, R, y)
    BY <2>1, <2>3 DEF Due
  <2> QED BY <2>2, <2>3
<1>5. ASSUME NEW t \in Discord!Exist(j.wants)
      PROVE  R[<<t, "role">>].members = j.wants[t].members
  <2>1. t \in DiscordTeams /\ j.wants[t].members \subseteq Players /\ Discord!Had(R, t) \subseteq Players
    BY MembersTyped
  <2>2. R[<<t, "role">>] # None
    BY <1>4 DEF Discord!Kinds
  <2>3. Discord!Had(R, t) = R[<<t, "role">>].members
    BY <2>2 DEF Discord!Had
  <2>4. j.done = {} \/ (Given(j, t) \subseteq Discord!Had(R, t) /\ Taken(j, t) \cap Discord!Had(R, t) = {})
    BY <1>2, <2>1 DEF OnPaper, MembersWritten
  <2>5. Given(j, t) \subseteq Discord!Had(R, t) /\ Taken(j, t) \cap Discord!Had(R, t) = {}
    BY <2>4 DEF Given, Taken
  <2>6. \A w \in {"add", "take"}, p \in Players :
            /\ Discord!Task(t, w, p).what = w /\ Discord!Task(t, w, p).team = t /\ Discord!Task(t, w, p).who = p
            /\ Discord!Task(t, w, p) \in Discord!Tasks
    BY <2>1 DEF Discord!Task, Discord!Tasks
  <2>7. ASSUME NEW p \in j.wants[t].members PROVE p \in Discord!Had(R, t)
    <3>1. p \in Players
      BY <2>1
    <3> SUFFICES ASSUME p \notin Discord!Had(R, t) PROVE FALSE
      OBVIOUS
    <3>2. Due(j, R, Discord!Task(t, "add", p))
      BY <2>6, <3>1 DEF Due
    <3>3. Discord!Task(t, "add", p) \in j.done
      BY <1>1, <2>6, <3>1, <3>2
    <3> QED BY <2>5, <3>1, <3>3 DEF Given
  <2>8. ASSUME NEW p \in Discord!Had(R, t) PROVE p \in j.wants[t].members
    <3>1. p \in Players
      BY <2>1
    <3> SUFFICES ASSUME p \notin j.wants[t].members PROVE FALSE
      OBVIOUS
    <3>2. Due(j, R, Discord!Task(t, "take", p))
      BY <2>6, <3>1 DEF Due
    <3>3. Discord!Task(t, "take", p) \in j.done
      BY <1>1, <2>6, <3>1, <3>2
    <3> QED BY <2>5, <3>1, <3>3 DEF Taken
  <2> QED BY <2>3, <2>7, <2>8
<1>6. ASSUME NEW p \in Discord!Places, R[p] # None PROVE p[1] \in Discord!Exist(j.wants)
  <2>1. p[1] \in DiscordTeams /\ p[2] \in Discord!Kinds /\ p = <<p[1], p[2]>>
    BY DEF Discord!Places
  <2> SUFFICES ASSUME p[1] \notin Discord!Exist(j.wants) PROVE FALSE
    OBVIOUS
  <2> DEFINE y == Discord!Task(p[1], IF p[2] = "role" THEN "dropRole" ELSE "dropChannel", None)
  <2>2. y.team = p[1] /\ y.what \in {"dropRole", "dropChannel"} /\ y.who = None /\ y \in Discord!Tasks /\ Discord!Kind(y) = p[2]
    BY <2>1 DEF Discord!Task, Discord!Tasks, Discord!Kind, Discord!Kinds
  <2> HIDE DEF y
  <2>3. R[<<y.team, Discord!Kind(y)>>] # None
    BY <1>6, <2>1, <2>2
  <2>4. Due(j, R, y)
    BY <2>1, <2>2, <2>3 DEF Due
  <2>5. y \in j.done
    BY <1>1, <2>2, <2>4
  <2> QED BY <2>2, <2>3, <2>5 DEF OnPaper, DoneShows
<1>7. \A t \in Discord!Exist(j.wants) : t \in DiscordTeams
  BY DEF Discord!Exist
<1> QED BY <1>3, <1>4, <1>5, <1>6, <1>7 DEF Discord!Kinds

LEMMA InGuildOnceOver ==
    ASSUME NEW j, NEW R, NEW g, InGuild(j, R, g), \A t \in DiscordTeams : Tallies(j, R, t)
    PROVE  InGuild(NoJob, R, g)
<1>1. \A t \in DiscordTeams, k \in Discord!Kinds : R[<<t, k>>] # None /\ Is(g, R[<<t, k>>].id) =>
        /\ g[R[<<t, k>>].id].name = R[<<t, k>>].name
        /\ g[R[<<t, k>>].id].role = R[<<t, k>>].role
        /\ k = "role" => g[R[<<t, k>>].id].members = (R[<<t, k>>].members \cup Given(j, t)) \ Taken(j, t)
  BY DEF InGuild, AsWritten
<1>2. AsWritten(NoJob, R, g)
  <2> SUFFICES ASSUME NEW t \in DiscordTeams, NEW k \in Discord!Kinds, R[<<t, k>>] # None, Is(g, R[<<t, k>>].id)
               PROVE  /\ g[R[<<t, k>>].id].name = R[<<t, k>>].name
                      /\ g[R[<<t, k>>].id].role = R[<<t, k>>].role
                      /\ k = "role" => g[R[<<t, k>>].id].members = (R[<<t, k>>].members \cup Given(NoJob, t)) \ Taken(NoJob, t)
    BY DEF AsWritten
  <2>1. (R[<<t, k>>].members \cup Given(NoJob, t)) \ Taken(NoJob, t) = R[<<t, k>>].members
    BY IdleIs
  <2>2. k = "role" => (R[<<t, k>>].members \cup Given(j, t)) \ Taken(j, t) = R[<<t, k>>].members
    BY DEF Tallies
  <2> QED BY <1>1, <2>1, <2>2
<1>3. Heals(NoJob, R, g)
  BY IdleIs DEF Heals
<1> QED BY <1>2, <1>3 DEF InGuild

\* A call fails, and Discord did nothing: what the job gave and took before is written.
LEMMA CallFails ==
    ASSUME NEW x, Discord!TypeOK, job # None, Reads1(job), OnPaper(job, rows), x \in Discord!First(Discord!ToDo(job, rows)),
           NEW R2, R2 = Discord!WrittenOnFailure(job, x)
    PROVE  /\ R2 \in RowTables
           /\ InGuild(job, rows, guild) => InGuild(NoJob, R2, guild) /\ (AllStand(rows, guild) => AllStand(R2, guild))
<1> DEFINE t == x.team
<1>1. rows \in RowTables /\ guild \in Guilds
  BY DEF Discord!TypeOK, RowTables, Guilds
<1>2. x \in Discord!Tasks /\ t \in DiscordTeams /\ (x.what \in {"add", "take"} => rows[<<t, "role">>] # None)
  BY <1>1, FirstIs DEF Discord!Tasks
<1>3. CASE x.what \notin {"add", "take"}
  <2>1. R2 = rows
    BY <1>3 DEF Discord!WrittenOnFailure
  <2>2. \A u \in DiscordTeams : Tallies(job, rows, u)
    BY <1>1, <1>3, TalliesElsewhere
  <2> QED BY <1>1, <2>1, <2>2, InGuildOnceOver
<1>4. CASE x.what \in {"add", "take"}
  <2> DEFINE old == rows[<<t, "role">>]
             row == [old EXCEPT !.members = (@ \cup Given(job, t)) \ Taken(job, t)]
  <2>1. R2 = [rows EXCEPT ![<<t, "role">>] = row]
    BY <1>4 DEF Discord!WrittenOnFailure, Discord!KeepMembers, Given, Taken
  <2>2. <<t, "role">> \in Discord!Places
    BY <1>2 DEF Discord!Places, Discord!Kinds
  <2>3. old \in Discord!Rows
    BY <1>1, <1>2, <1>4, <2>2 DEF RowTables
  <2>4. Given(job, t) \subseteq Players
    BY DEF Given
  <2>5. /\ row \in Discord!Rows /\ row.id = old.id /\ row.name = old.name /\ row.role = old.role
        /\ row.members = (old.members \cup Given(job, t)) \ Taken(job, t)
    BY <2>3, <2>4 DEF Discord!Rows
  <2>6. row # None /\ old # None
    BY <2>3, <2>5, DiscordConstants
  <2> HIDE DEF row
  <2>7. R2 \in RowTables /\ OnlyAt(t, "role", rows, R2) /\ R2[<<t, "role">>] = row
    BY <1>1, <2>1, <2>2, <2>5 DEF RowTables, OnlyAt
  <2>8. \A u \in DiscordTeams, k \in Discord!Kinds : u # t \/ k # "role" => R2[<<u, k>>] = rows[<<u, k>>]
    <3>1. "role" \in Discord!Kinds
      BY DEF Discord!Kinds
    <3> HIDE DEF t, old
    <3> QED BY <1>1, <1>2, <2>7, <3>1, OnlyAtIs
  <2>9. \A p \in Discord!Places : (R2[p] # None <=> rows[p] # None) /\ (rows[p] # None => R2[p].id = rows[p].id)
    BY <2>2, <2>5, <2>6, <2>7 DEF OnlyAt
  <2>10. \A u \in DiscordTeams : u # t => Tallies(job, rows, u)
    BY <1>1, TalliesElsewhere
  <2>11. ASSUME InGuild(job, rows, guild)
         PROVE  InGuild(NoJob, R2, guild) /\ (AllStand(rows, guild) => AllStand(R2, guild))
    <3>1. OneRowEach(R2, guild) /\ AllWritten(R2, guild) /\ (AllStand(rows, guild) => AllStand(R2, guild))
      BY <2>9, <2>11 DEF InGuild, OneRowEach, AllWritten, AllStand
    <3>2. Heals(NoJob, R2, guild)
      BY IdleIs DEF Heals
    <3>3. AsWritten(NoJob, R2, guild)
      <4> SUFFICES ASSUME NEW u \in DiscordTeams, NEW k \in Discord!Kinds, R2[<<u, k>>] # None, Is(guild, R2[<<u, k>>].id)
                   PROVE  /\ guild[R2[<<u, k>>].id].name = R2[<<u, k>>].name
                          /\ guild[R2[<<u, k>>].id].role = R2[<<u, k>>].role
                          /\ k = "role" => guild[R2[<<u, k>>].id].members = (R2[<<u, k>>].members \cup Given(NoJob, u)) \ Taken(NoJob, u)
        BY DEF AsWritten
      <4>1. (R2[<<u, k>>].members \cup Given(NoJob, u)) \ Taken(NoJob, u) = R2[<<u, k>>].members
        BY IdleIs
      <4>2. rows[<<u, k>>] # None /\ R2[<<u, k>>].id = rows[<<u, k>>].id
        BY <2>9 DEF Discord!Places
      <4>3. /\ guild[rows[<<u, k>>].id].name = rows[<<u, k>>].name
            /\ guild[rows[<<u, k>>].id].role = rows[<<u, k>>].role
            /\ k = "role" => guild[rows[<<u, k>>].id].members = (rows[<<u, k>>].members \cup Given(job, u)) \ Taken(job, u)
        BY <2>11, <4>2 DEF InGuild, AsWritten
      <4>4. CASE u = t /\ k = "role"
        BY <2>5, <2>7, <4>1, <4>3, <4>4
      <4>5. CASE u # t \/ k # "role"
        <5>1. R2[<<u, k>>] = rows[<<u, k>>]
          BY <2>8, <4>5
        <5>2. k = "role" => (rows[<<u, k>>].members \cup Given(job, u)) \ Taken(job, u) = rows[<<u, k>>].members
          BY <2>10, <4>2, <4>5 DEF Tallies
        <5> QED BY <4>1, <4>3, <5>1, <5>2
      <4> QED BY <4>4, <4>5
    <3> QED BY <3>1, <3>2, <3>3 DEF InGuild
  <2> QED BY <2>7, <2>11
<1> QED BY <1>3, <1>4

\* A job goes on, or has nothing left to do.
LEMMA JobContinues ==
    ASSUME NEW j \in Discord!Jobs, Reads1(j), Discord!Continue(j, rows'), OnPaper(j, rows'),
           rows' \in RowTables, guild' \in Guilds, tampered \in BOOLEAN, error \in BOOLEAN,
           j.wants = None => j.done = {}, j.healing => j.force,
           ~lost => InGuild(j, rows', guild') /\ (~tampered => AllStand(rows', guild')),
           teams' = teams
    PROVE  /\ job' \in Discord!Jobs \cup {None} /\ error' \in BOOLEAN /\ tampered' \in BOOLEAN
           /\ job' # None => (job'.wants = None => job'.done = {}) /\ (job'.healing => job'.force)
           /\ OnPaper(Job', rows')
           /\ ~lost => InGuild(Job', rows', guild') /\ (~tampered' => AllStand(rows', guild'))
           /\ ~lost /\ j.wants = teams =>
                IF job' # None THEN job'.kind = j.kind /\ job'.wants = teams' ELSE error' \/ tampered' \/ AllInPlace'
<1>1. CASE Discord!ToDo(j, rows') # {}
  <2>1. job' = j /\ error' = error /\ tampered' = tampered
    BY <1>1 DEF Discord!Continue
  <2>2. Job' = j
    BY <2>1, DiscordConstants DEF Job
  <2>3. j # None
    BY DiscordConstants
  <2> QED BY <2>1, <2>2, <2>3
<1>2. CASE Discord!ToDo(j, rows') = {}
  <2>1. job' = None /\ error' = FALSE /\ tampered' = (tampered /\ ~j.healing)
    BY <1>2 DEF Discord!Continue
  <2>2. Job' = NoJob
    BY <2>1 DEF Job, NoJob
  <2>3. OnPaper(Job', rows')
    BY <2>2, IdleIs, NothingDone
  <2> DEFINE R == rows'
             g == guild'
  <2>4. /\ \A t \in Discord!Exist(j.wants) :
                /\ t \in DiscordTeams
                /\ \A k \in Discord!Kinds : R[<<t, k>>] # None /\ R[<<t, k>>].name = j.wants[t].name
                /\ R[<<t, "role">>].members = j.wants[t].members
                /\ R[<<t, "channel">>].role = R[<<t, "role">>].id
        /\ \A p \in Discord!Places : R[p] # None => p[1] \in Discord!Exist(j.wants)
        /\ \A t \in DiscordTeams : Tallies(j, R, t)
        /\ j.force => \A t \in Discord!Exist(j.wants), k \in Discord!Kinds : Discord!Task(t, k, None) \in j.done
    BY <1>2, JobOver
  <2>5. ASSUME ~lost PROVE InGuild(NoJob, R, g)
    BY <2>4, <2>5, InGuildOnceOver
  <2>6. ASSUME ~lost, ~tampered' PROVE AllStand(R, g)
    <3>1. CASE ~tampered
      BY <2>6, <3>1
    <3>2. CASE j.healing
      <4>1. Heals(j, R, g)
        BY <2>6 DEF InGuild
      <4>2. \A p \in Discord!Places : p[1] \in DiscordTeams /\ p[2] \in Discord!Kinds /\ p = <<p[1], p[2]>>
        BY DEF Discord!Places
      <4>3. ASSUME NEW p \in Discord!Places, R[p] # None PROVE Is(g, R[p].id)
        <5>1. p[1] \in Discord!Exist(j.wants) /\ Discord!Task(p[1], p[2], None) \in j.done
          BY <2>4, <3>2, <4>2, <4>3
        <5>2. Is(g, R[<<p[1], p[2]>>].id)
          BY <3>2, <4>1, <4>2, <5>1 DEF Heals
        <5> QED BY <4>2, <5>2
      <4> QED BY <4>3 DEF AllStand
    <3> QED BY <2>1, <2>6, <3>1, <3>2
  <2>7. ASSUME ~lost, ~tampered', j.wants = teams PROVE AllInPlace'
    <3>1. AllStand(R, g) /\ InGuild(NoJob, R, g)
      BY <2>5, <2>6, <2>7
    <3>2. \A t \in Discord!Exist(teams), k \in Discord!Kinds : <<t, k>> \in Discord!Places
      BY DEF Discord!Exist, Discord!Places
    <3>3. ASSUME NEW t \in Discord!Exist(teams), NEW k \in Discord!Kinds
          PROVE  /\ R[<<t, k>>] # None /\ Is(g, R[<<t, k>>].id)
                 /\ g[R[<<t, k>>].id].name = teams[t].name
                 /\ g[R[<<t, k>>].id].role = R[<<t, k>>].role
                 /\ k = "role" => g[R[<<t, k>>].id].members = teams[t].members
      <4>1. t \in DiscordTeams /\ R[<<t, k>>] # None /\ R[<<t, k>>].name = teams[t].name /\ R[<<t, "role">>].members = teams[t].members
        BY <2>4, <2>7
      <4>2. Is(g, R[<<t, k>>].id)
        BY <3>1, <3>2, <4>1 DEF AllStand
      <4>3. (R[<<t, k>>].members \cup Given(NoJob, t)) \ Taken(NoJob, t) = R[<<t, k>>].members
        BY <4>1, IdleIs
      <4> QED BY <3>1, <4>1, <4>2, <4>3 DEF InGuild, AsWritten
    <3>4. \A t \in Discord!Exist(teams) : R[<<t, "channel">>].role = R[<<t, "role">>].id
      BY <2>4, <2>7
    <3>5. \A p \in Discord!Places : R[p] # None => p[1] \in Discord!Exist(teams)
      BY <2>4, <2>7
    <3>6. ASSUME NEW t \in Discord!Exist(teams) PROVE Discord!HasItsPlace(t)'
      BY <3>3, <3>4 DEF Discord!HasItsPlace, Discord!There, Is, Discord!Kinds
    <3> QED BY <3>5, <3>6 DEF AllInPlace
  <2> QED BY <2>1, <2>2, <2>3, <2>5, <2>6, <2>7
<1> QED BY <1>1, <1>2

\* Asking for a sync, with or without one more job in the queue.
LEMMA AskedIs ==
    ASSUME NEW force \in BOOLEAN, Discord!TypeOK, Discord!AskForSync(force)
    PROVE  queue' \in Seq(Discord!Requests) /\ unasked' \in BOOLEAN /\ (~unasked' => Awaited')
<1>1. queue \in Seq(Discord!Requests) /\ unasked \in BOOLEAN
  BY DEF Discord!TypeOK
<1>2. CASE Discord!Joins(force)
  <2>1. /\ unasked' = \E i \in DOMAIN queue : queue[i].kind = "remove" /\ \A w \in Discord!Waiting : w < i
        /\ queue' = queue
    BY <1>2 DEF Discord!AskForSync
  <2>2. ASSUME ~unasked' PROVE Awaited
    <3>1. Discord!Waiting \subseteq DOMAIN queue /\ Discord!Waiting # {} /\ DOMAIN queue = 1..Len(queue) /\ Len(queue) \in Nat
      BY <1>1, <1>2, LenProperties DEF Discord!Joins, Discord!Waiting
    <3> DEFINE n == Len(queue)
               FromEnd == {n - w : w \in Discord!Waiting}
    <3>2. n \in Nat /\ Discord!Waiting \subseteq 1..n /\ Discord!Waiting # {}
      BY <3>1
    <3> HIDE DEF n
    <3>3. \A w \in 1..n : n - w \in Nat
      BY <3>2
    <3>4. FromEnd \subseteq Nat /\ FromEnd # {}
      BY <3>2, <3>3
    <3>5. PICK m \in FromEnd : \A k \in FromEnd : m <= k
      BY <3>4, SmallestOf
    <3>6. PICK last \in Discord!Waiting : m = n - last
      OBVIOUS
    <3>7. ASSUME NEW w \in Discord!Waiting PROVE w <= last
      <4>1. n - last <= n - w
        BY <3>5, <3>6
      <4>2. w \in Nat /\ last \in Nat
        BY <3>2
      <4> QED BY <3>2, <4>1, <4>2
    <3>8. ASSUME NEW k \in Removals PROVE k < last
      <4>1. k \in DOMAIN queue /\ queue[k].kind = "remove" /\ queue[last].kind = "sync"
        BY DEF Removals, Discord!Waiting
      <4>2. PICK w \in Discord!Waiting : ~(w < k)
        BY <2>1, <2>2, <4>1
      <4>3. k \in Nat /\ w \in Nat /\ last \in Nat /\ k # last /\ w <= last
        BY <3>1, <3>7, <4>1
      <4> QED BY <4>2, <4>3
    <3> QED BY <3>8 DEF Awaited
  <2>3. ASSUME Awaited PROVE Awaited'
    BY <2>1, <2>3 DEF Awaited, Discord!Waiting, Removals
  <2> QED BY <1>1, <2>1, <2>2, <2>3
<1>3. CASE ~Discord!Joins(force)
  <2> DEFINE asked == [kind |-> "sync", force |-> force]
  <2>1. queue' = Append(queue, asked) /\ unasked' = FALSE
    BY <1>3 DEF Discord!AskForSync
  <2>2. asked \in Discord!Requests /\ asked.kind = "sync"
    BY DEF Discord!Requests
  <2> HIDE DEF asked
  <2>3. queue' \in Seq(Discord!Requests) /\ Len(queue') = Len(queue) + 1 /\ queue'[Len(queue) + 1] = asked /\ Len(queue) \in Nat
    BY <1>1, <2>1, <2>2, AppendProperties, LenProperties
  <2>4. DOMAIN queue' = 1..(Len(queue) + 1)
    BY <2>3, LenProperties
  <2>5. Len(queue) + 1 \in Discord!Waiting'
    BY <2>2, <2>3, <2>4 DEF Discord!Waiting
  <2>6. \A k \in Removals' : k < Len(queue) + 1
    BY <2>2, <2>3, <2>4 DEF Removals
  <2> QED BY <2>1, <2>3, <2>5, <2>6 DEF Awaited
<1> QED BY <1>2, <1>3

\* The first job of the queue is taken from it.
LEMMA HeadIs ==
    ASSUME Discord!TypeOK, queue # <<>>, queue' = Tail(queue)
    PROVE  /\ queue' \in Seq(Discord!Requests) /\ Head(queue) \in Discord!Requests
           /\ Awaited => Awaited' \/ (Head(queue).kind = "sync" /\ Removals' = {})
           /\ Removals = {} => Removals' = {} /\ Head(queue).kind = "sync"
<1>1. queue \in Seq(Discord!Requests)
  BY DEF Discord!TypeOK
<1>2. /\ queue' \in Seq(Discord!Requests) /\ Head(queue) = queue[1] /\ queue[1] \in Discord!Requests
      /\ Len(queue) \in Nat /\ Len(queue) >= 1 /\ Len(queue') = Len(queue) - 1
      /\ \A i \in 1..(Len(queue) - 1) : queue'[i] = queue[i + 1]
      /\ DOMAIN queue = 1..Len(queue) /\ DOMAIN queue' = 1..(Len(queue) - 1)
  BY <1>1
<1>3. Head(queue).kind \in {"sync", "remove"}
  BY <1>2 DEF Discord!Requests
<1>4. ASSUME NEW k \in Removals' PROVE k \in Nat /\ k + 1 \in Removals
  <2>1. k \in 1..(Len(queue) - 1) /\ queue'[k].kind = "remove"
    BY <1>2 DEF Removals
  <2> QED BY <1>2, <2>1 DEF Removals
<1>5. ASSUME NEW i \in Discord!Waiting, i # 1, \A k \in Removals : k < i
      PROVE  Awaited'
  <2>1. i \in DOMAIN queue /\ queue[i].kind = "sync"
    BY DEF Discord!Waiting
  <2>2. i - 1 \in 1..(Len(queue) - 1) /\ (i - 1) + 1 = i /\ i \in Nat
    BY <1>2, <1>5, <2>1
  <2>3. queue'[i - 1].kind = "sync"
    BY <1>2, <2>1, <2>2
  <2>4. i - 1 \in Discord!Waiting'
    BY <1>2, <2>2, <2>3 DEF Discord!Waiting
  <2>5. \A k \in Removals' : k < i - 1
    <3> SUFFICES ASSUME NEW k \in Removals' PROVE k < i - 1
      OBVIOUS
    <3>1. k \in Nat /\ k + 1 < i
      BY <1>4, <1>5
    <3> QED BY <2>2, <3>1
  <2> QED BY <2>4, <2>5 DEF Awaited
<1>6. ASSUME Awaited PROVE Awaited' \/ (Head(queue).kind = "sync" /\ Removals' = {})
  <2>1. PICK i \in Discord!Waiting : \A k \in Removals : k < i
    BY <1>6 DEF Awaited
  <2>2. CASE i # 1
    BY <1>5, <2>1, <2>2
  <2>3. CASE i = 1
    <3>1. Head(queue).kind = "sync"
      BY <1>2, <2>3 DEF Discord!Waiting
    <3>2. ASSUME NEW k \in Removals' PROVE FALSE
      <4>1. k \in Nat /\ k + 1 < 1
        BY <1>4, <2>1, <2>3
      <4> QED BY <4>1
    <3> QED BY <3>1, <3>2
  <2> QED BY <2>2, <2>3
<1>7. Removals = {} => Head(queue).kind = "sync"
  BY <1>2, <1>3 DEF Removals
<1> QED BY <1>2, <1>4, <1>6, <1>7

\* What doesn't touch the rows, Discord or the job.
LEMMA GuildKept ==
    ASSUME DiscordInv, UNCHANGED <<rows, guild, job, lost, tampered>>
    PROVE  /\ job' # None => (job'.wants = None => job'.done = {}) /\ (job'.healing => job'.force)
           /\ OnPaper(Job', rows')
           /\ ~lost' => InGuild(Job', rows', guild') /\ (~tampered' => AllStand(rows', guild'))
<1>1. Job' = Job
  BY DEF Job
<1> QED BY <1>1 DEF DiscordInv

\* A request, and the sync that it asks for.
LEMMA RequestKeeps ==
    ASSUME DiscordInv, UNCHANGED <<rows, guild, job, error, lost, tampered>>,
           teams' \in Discord!TeamTables, enabled' \in BOOLEAN, timers' \in Nat,
           queue' \in Seq(Discord!Requests), unasked' \in BOOLEAN, enabled' /\ ~unasked' => Awaited'
    PROVE  DiscordInv'
<1>1. Discord!TypeOK'
  BY DEF DiscordInv, Discord!TypeOK
<1>2. Promise'
  BY DEF Promise
<1> QED BY <1>1, <1>2, GuildKept DEF DiscordInv

LEMMA RequestsKeep ==
    ASSUME DiscordInv,
           \/ \E t \in DiscordTeams, to \in Discord!TeamRows \cup {Gone} : Discord!ChangeTeam(t, to)
           \/ \E to \in BOOLEAN : Discord!SwitchInSettings(to) \/ Discord!SwitchByStage(to)
           \/ Discord!SyncNow \/ Discord!RemoveFromDiscord \/ Discord!TimerFires
    PROVE  DiscordInv'
<1>1. /\ Discord!TypeOK /\ teams \in Discord!TeamTables /\ enabled \in BOOLEAN /\ timers \in Nat
      /\ queue \in Seq(Discord!Requests) /\ unasked \in BOOLEAN
  BY DEF DiscordInv, Discord!TypeOK
<1>2. ASSUME NEW force \in BOOLEAN, Discord!AskForSync(force)
      PROVE  queue' \in Seq(Discord!Requests) /\ unasked' \in BOOLEAN /\ (~unasked' => Awaited')
  BY <1>1, <1>2, AskedIs
<1>3. ASSUME NEW t \in DiscordTeams, NEW to \in Discord!TeamRows \cup {Gone}, Discord!ChangeTeam(t, to) PROVE DiscordInv'
  <2>1. teams' \in Discord!TeamTables
    BY <1>1, <1>3 DEF Discord!ChangeTeam, Discord!TeamTables
  <2>2. /\ Discord!AskForSync(FALSE) /\ UNCHANGED <<rows, guild, job, error, lost, tampered>>
        /\ enabled' = enabled /\ timers' = timers
    BY <1>3 DEF Discord!ChangeTeam
  <2> QED BY <1>1, <1>2, <2>1, <2>2, RequestKeeps
<1>4. ASSUME NEW to \in BOOLEAN, Discord!SwitchInSettings(to) PROVE DiscordInv'
  <2>1. /\ UNCHANGED <<rows, guild, job, error, lost, tampered>> /\ teams' = teams /\ enabled' = to /\ timers' = timers
        /\ IF to THEN Discord!AskForSync(FALSE) ELSE queue' = queue /\ unasked' = unasked
    BY <1>4 DEF Discord!SwitchInSettings
  <2>2. queue' \in Seq(Discord!Requests) /\ unasked' \in BOOLEAN /\ (to /\ ~unasked' => Awaited')
    BY <1>1, <1>2, <2>1
  <2> QED BY <1>1, <2>1, <2>2, RequestKeeps
<1>5. ASSUME NEW to \in BOOLEAN, Discord!SwitchByStage(to) PROVE DiscordInv'
  <2>1. /\ UNCHANGED <<rows, guild, job, error, lost, tampered>> /\ teams' = teams /\ enabled' = to /\ timers' = timers
        /\ Discord!AskForSync(FALSE)
    BY <1>5 DEF Discord!SwitchByStage
  <2> QED BY <1>1, <1>2, <2>1, RequestKeeps
<1>6. CASE Discord!SyncNow
  <2>1. /\ UNCHANGED <<rows, guild, job, error, lost, tampered>> /\ teams' = teams /\ enabled' = enabled /\ timers' = timers
        /\ Discord!AskForSync(TRUE)
    BY <1>6 DEF Discord!SyncNow
  <2> QED BY <1>1, <1>2, <2>1, RequestKeeps
<1>7. CASE Discord!RemoveFromDiscord
  <2> DEFINE asked == [kind |-> "remove", force |-> FALSE]
  <2>1. /\ UNCHANGED <<rows, guild, job, error, lost, tampered>> /\ teams' = teams /\ enabled' = FALSE /\ timers' = timers
        /\ queue' = Append(queue, asked) /\ unasked' = unasked
    BY <1>7 DEF Discord!RemoveFromDiscord
  <2>2. asked \in Discord!Requests
    BY DEF Discord!Requests
  <2>3. queue' \in Seq(Discord!Requests)
    BY <1>1, <2>1, <2>2, AppendProperties
  <2> QED BY <1>1, <2>1, <2>3, RequestKeeps
<1>8. CASE Discord!TimerFires
  <2>1. /\ UNCHANGED <<rows, guild, job, error, lost, tampered>> /\ teams' = teams /\ enabled' = enabled
        /\ timers > 0 /\ timers' = timers - 1 /\ Discord!AskForSync(FALSE)
    BY <1>8 DEF Discord!TimerFires
  <2>2. timers' \in Nat
    BY <1>1, <2>1
  <2> QED BY <1>1, <1>2, <2>1, <2>2, RequestKeeps
<1> QED BY <1>3, <1>4, <1>5, <1>6, <1>7, <1>8

\* A job starts: a sync, a sync that's switched off, or a removal, which may have nothing to remove.
LEMMA StartJobKeeps ==
    ASSUME DiscordInv, Discord!StartJob
    PROVE  DiscordInv'
<1> DEFINE next == Head(queue)
           started == [kind |-> next.kind, force |-> next.force, healing |-> next.force, wants |-> None, done |-> {}]
<1>1. /\ Discord!TypeOK /\ job = None /\ queue # <<>> /\ queue' = Tail(queue)
      /\ UNCHANGED <<teams, enabled, rows, guild, timers, lost, unasked>>
  BY DEF Discord!StartJob, Discord!QueueMoves, DiscordInv
<1>2. /\ queue' \in Seq(Discord!Requests) /\ next \in Discord!Requests
      /\ Awaited => Awaited' \/ (next.kind = "sync" /\ Removals' = {})
      /\ Removals = {} => Removals' = {} /\ next.kind = "sync"
  BY <1>1, HeadIs
<1>3. started \in Discord!Jobs /\ started # None
  BY <1>2, DiscordConstants DEF Discord!Requests, Discord!Jobs
<1>4. IF next.kind = "sync" THEN job' = (IF enabled THEN started ELSE None) /\ error' = error /\ tampered' = tampered
      ELSE Discord!StartRemoval(started)
  BY DEF Discord!StartJob
<1>5. Job = NoJob
  BY <1>1 DEF Job, NoJob
<1>6. /\ started.done = {} /\ started.wants = None /\ started.kind = next.kind /\ started.healing = started.force
      /\ next.kind \in {"sync", "remove"}
  BY <1>2 DEF Discord!Requests
<1> HIDE DEF next, started
<1>7. /\ ~lost => InGuild(NoJob, rows, guild) /\ (~tampered => AllStand(rows, guild)) /\ Promise
      /\ rows \in RowTables /\ guild \in Guilds /\ error \in BOOLEAN /\ tampered \in BOOLEAN
  BY <1>5 DEF DiscordInv, Discord!TypeOK, RowTables, Guilds
<1>8. CASE next.kind = "sync"
  <2>1. job' = (IF enabled THEN started ELSE None) /\ error' = error /\ tampered' = tampered
    BY <1>4, <1>8
  <2>2. Discord!TypeOK'
    BY <1>1, <1>2, <1>3, <2>1 DEF Discord!TypeOK
  <2>3. Job' = (IF enabled THEN started ELSE NoJob)
    BY <1>3, <2>1 DEF Job, NoJob
  <2>4. OnPaper(Job', rows') /\ (InGuild(NoJob, rows, guild) => InGuild(Job', rows', guild'))
    <3>1. CASE enabled
      BY <1>1, <1>6, <2>3, <3>1, IdleIs, NothingDone
    <3>2. CASE ~enabled
      BY <1>1, <2>3, <3>2, IdleIs, NothingDone
    <3> QED BY <3>1, <3>2
  <2>5. ASSUME ~lost PROVE Promise'
    <3> SUFFICES ASSUME enabled, ~unasked PROVE Awaited' \/ (Removals' = {} /\ job' = started)
      BY <1>1, <1>3, <1>6, <1>8, <2>1 DEF Promise
    <3>1. Awaited \/ Removals = {}
      BY <1>7, <2>5 DEF Promise
    <3> QED BY <1>2, <1>8, <2>1, <3>1
  <2> QED BY <1>1, <1>3, <1>6, <1>7, <2>1, <2>2, <2>4, <2>5 DEF DiscordInv
<1>9. CASE next.kind = "remove"
  <2>1. Discord!StartRemoval(started)
    BY <1>4, <1>9
  <2>2. ~lost => Promise'
    <3> SUFFICES ASSUME ~lost, enabled, ~unasked PROVE Awaited'
      BY <1>1 DEF Promise
    <3>1. Awaited \/ Removals = {}
      BY <1>7 DEF Promise
    <3> QED BY <1>2, <1>9, <3>1
  <2>3. CASE \A p \in Discord!Places : rows[p] = None
    <3>1. job' = job /\ error' = error /\ tampered' = tampered
      BY <2>1, <2>3 DEF Discord!StartRemoval
    <3>2. Discord!TypeOK'
      BY <1>1, <1>2, <3>1 DEF Discord!TypeOK
    <3>3. UNCHANGED <<rows, guild, job, lost, tampered>>
      BY <1>1, <3>1
    <3> QED BY <1>1, <2>2, <3>2, <3>3, GuildKept DEF DiscordInv
  <2>4. CASE ~\A p \in Discord!Places : rows[p] = None
    <3> DEFINE j == [started EXCEPT !.wants = Discord!NoTeams]
    <3>1. Discord!NoTeams \in Discord!TeamTables
      BY DEF Discord!NoTeams, Discord!TeamTables
    <3>2. j \in Discord!Jobs /\ j.wants = Discord!NoTeams /\ j.done = {} /\ j.healing = j.force
      BY <1>3, <1>6, <3>1 DEF Discord!Jobs
    <3>3. Discord!Continue(j, rows)
      BY <2>1, <2>4 DEF Discord!StartRemoval
    <3> HIDE DEF j
    <3>4. OnPaper(j, rows) /\ (InGuild(NoJob, rows, guild) => InGuild(j, rows, guild))
      BY <3>2, IdleIs, NothingDone
    <3>5. PICK i \in Discord!Jobs : i = j
      BY <3>2
    <3>6. /\ Reads1(i) /\ Discord!Continue(i, rows') /\ OnPaper(i, rows') /\ i.done = {} /\ i.healing = i.force
          /\ ~lost => InGuild(i, rows', guild') /\ (~tampered => AllStand(rows', guild'))
          /\ rows' \in RowTables /\ guild' \in Guilds /\ teams' = teams
      BY <1>1, <1>7, <3>1, <3>2, <3>3, <3>4, <3>5 DEF Reads1
    <3>7. /\ job' \in Discord!Jobs \cup {None} /\ error' \in BOOLEAN /\ tampered' \in BOOLEAN
          /\ job' # None => (job'.wants = None => job'.done = {}) /\ (job'.healing => job'.force)
          /\ OnPaper(Job', rows')
          /\ ~lost => InGuild(Job', rows', guild') /\ (~tampered' => AllStand(rows', guild'))
      BY <1>7, <3>6, JobContinues
    <3>8. Discord!TypeOK'
      BY <1>1, <1>2, <3>7 DEF Discord!TypeOK
    <3> QED BY <1>1, <2>2, <3>7, <3>8 DEF DiscordInv
  <2> QED BY <2>3, <2>4
<1> QED BY <1>6, <1>8, <1>9

LEMMA ReadTeamsKeeps ==
    ASSUME DiscordInv, Discord!ReadTeams
    PROVE  DiscordInv'
<1> DEFINE j == [job EXCEPT !.wants = teams]
<1>1. /\ Discord!TypeOK /\ job # None /\ job.wants = None /\ job.done = {} /\ (job.healing => job.force)
      /\ Discord!Continue(j, rows)
      /\ UNCHANGED <<teams, enabled, rows, guild, queue, timers, lost, unasked>>
  BY DEF Discord!ReadTeams, DiscordInv
<1>2. job \in Discord!Jobs /\ teams \in Discord!TeamTables
  BY <1>1 DEF Discord!TypeOK
<1>3. /\ j \in Discord!Jobs /\ j.wants = teams /\ j.done = {} /\ j.kind = job.kind
      /\ j.healing = job.healing /\ j.force = job.force
  BY <1>1, <1>2 DEF Discord!Jobs
<1> HIDE DEF j
<1>4. /\ ~lost => InGuild(job, rows, guild) /\ (~tampered => AllStand(rows, guild)) /\ Promise
      /\ rows \in RowTables /\ guild \in Guilds /\ error \in BOOLEAN /\ tampered \in BOOLEAN
  BY <1>1 DEF DiscordInv, Discord!TypeOK, RowTables, Guilds, Job
<1>5. OnPaper(j, rows) /\ (InGuild(job, rows, guild) => InGuild(j, rows, guild))
  BY <1>1, <1>3, NothingDone
<1>6. PICK i \in Discord!Jobs : i = j
  BY <1>3
<1>7. /\ Reads1(i) /\ Discord!Continue(i, rows') /\ OnPaper(i, rows') /\ i.done = {} /\ (i.healing => i.force)
      /\ ~lost => InGuild(i, rows', guild') /\ (~tampered => AllStand(rows', guild'))
      /\ rows' \in RowTables /\ guild' \in Guilds /\ teams' = teams /\ i.wants = teams /\ i.kind = job.kind
  BY <1>1, <1>2, <1>3, <1>4, <1>5, <1>6 DEF Reads1
<1>8. /\ job' \in Discord!Jobs \cup {None} /\ error' \in BOOLEAN /\ tampered' \in BOOLEAN
      /\ job' # None => (job'.wants = None => job'.done = {}) /\ (job'.healing => job'.force)
      /\ OnPaper(Job', rows')
      /\ ~lost => InGuild(Job', rows', guild') /\ (~tampered' => AllStand(rows', guild'))
      /\ ~lost => IF job' # None THEN job'.kind = i.kind /\ job'.wants = teams' ELSE error' \/ tampered' \/ AllInPlace'
  BY <1>4, <1>7, JobContinues
<1>9. Discord!TypeOK'
  BY <1>1, <1>8 DEF Discord!TypeOK
<1>10. ASSUME ~lost PROVE Promise'
  <2> SUFFICES ASSUME enabled, ~unasked, ~Awaited
               PROVE  /\ Removals = {}
                      /\ IF job' # None THEN job'.kind = "sync" /\ job'.wants = teams' ELSE error' \/ tampered' \/ AllInPlace'
    BY <1>1 DEF Promise, Awaited, Removals, Discord!Waiting
  <2>1. Removals = {} /\ job.kind = "sync"
    BY <1>1, <1>4, <1>10 DEF Promise
  <2> QED BY <1>7, <1>8, <1>10, <2>1
<1> QED BY <1>1, <1>8, <1>9, <1>10 DEF DiscordInv

\* What may be called now.
LEMMA CallsAre ==
    ASSUME DiscordInv, NEW x \in Discord!Calls
    PROVE  /\ Discord!TypeOK /\ job # None /\ Reads1(job) /\ OnPaper(job, rows) /\ Job = job /\ job \in Discord!Jobs
           /\ x \in Discord!First(Discord!ToDo(job, rows)) /\ x \in Discord!Tasks
           /\ Discord!Possible(x) => Calling(x)
<1>1. job # None /\ job.wants # None /\ x \in Discord!First(Discord!ToDo(job, rows)) /\ Discord!TypeOK
  BY DEF Discord!Calls, DiscordInv
<1>2. job \in Discord!Jobs
  BY <1>1 DEF Discord!TypeOK
<1>3. Reads1(job)
  BY <1>1, <1>2 DEF Reads1, Discord!Jobs
<1>4. Job = job /\ OnPaper(job, rows)
  BY <1>1 DEF Job, DiscordInv
<1>5. rows \in RowTables
  BY <1>1 DEF Discord!TypeOK, RowTables
<1> QED BY <1>1, <1>2, <1>3, <1>4, <1>5, FirstIs DEF Calling

LEMMA AnsweredKeeps ==
    ASSUME DiscordInv, NEW x \in Discord!Calls, Discord!Answered(x)
    PROVE  DiscordInv'
<1>1. /\ Discord!TypeOK /\ job # None /\ Reads1(job) /\ Job = job /\ job \in Discord!Jobs /\ x \in Discord!Tasks
      /\ Calling(x)
  BY CallsAre DEF Discord!Answered
<1>2. /\ guild' = Discord!InDiscord(job, x) /\ rows' = Discord!Written(job, x) /\ Discord!Continue(Done(job, x), rows')
      /\ UNCHANGED <<teams, enabled, queue, timers, lost, unasked>>
  BY DEF Discord!Answered, Done
<1>3. /\ rows' \in RowTables /\ guild' \in Guilds /\ OnPaper(Done(job, x), rows')
      /\ InGuild(job, rows, guild) => InGuild(Done(job, x), rows', guild') /\ (AllStand(rows, guild) => AllStand(rows', guild'))
  BY <1>1, <1>2, CallAnswered
<1>4. /\ Reads1(Done(job, x)) /\ Done(job, x).wants = job.wants /\ Done(job, x).force = job.force
      /\ Done(job, x).healing = job.healing /\ Done(job, x).kind = job.kind
  BY <1>1, DoneIs
<1>5. PICK i \in Discord!Jobs : i = Done(job, x)
  BY <1>4 DEF Reads1
<1>6. /\ ~lost => InGuild(job, rows, guild) /\ (~tampered => AllStand(rows, guild)) /\ Promise
      /\ error \in BOOLEAN /\ tampered \in BOOLEAN /\ (job.healing => job.force)
  BY <1>1 DEF DiscordInv, Discord!TypeOK
<1>7. i.wants # None
  BY <1>1, <1>4, <1>5 DEF Discord!Calls
<1>8. /\ Reads1(i) /\ Discord!Continue(i, rows') /\ OnPaper(i, rows') /\ (i.healing => i.force)
      /\ ~lost => InGuild(i, rows', guild') /\ (~tampered => AllStand(rows', guild'))
      /\ teams' = teams /\ i.wants = job.wants /\ i.kind = job.kind
  BY <1>2, <1>3, <1>4, <1>5, <1>6
<1>9. /\ job' \in Discord!Jobs \cup {None} /\ error' \in BOOLEAN /\ tampered' \in BOOLEAN
      /\ job' # None => (job'.wants = None => job'.done = {}) /\ (job'.healing => job'.force)
      /\ OnPaper(Job', rows')
      /\ ~lost => InGuild(Job', rows', guild') /\ (~tampered' => AllStand(rows', guild'))
      /\ ~lost /\ i.wants = teams =>
           IF job' # None THEN job'.kind = i.kind /\ job'.wants = teams' ELSE error' \/ tampered' \/ AllInPlace'
  BY <1>3, <1>6, <1>7, <1>8, JobContinues
<1>10. Discord!TypeOK'
  BY <1>1, <1>2, <1>3, <1>9 DEF Discord!TypeOK, RowTables, Guilds
<1>11. ASSUME ~lost PROVE Promise'
  <2> SUFFICES ASSUME enabled, ~unasked, ~Awaited
               PROVE  /\ Removals = {}
                      /\ IF job' # None THEN job'.kind = "sync" /\ job'.wants = teams' ELSE error' \/ tampered' \/ AllInPlace'
    BY <1>2 DEF Promise, Awaited, Removals, Discord!Waiting
  <2>1. Removals = {} /\ job.kind = "sync" /\ job.wants = teams
    BY <1>1, <1>4, <1>5, <1>6, <1>7, <1>11 DEF Promise
  <2> QED BY <1>8, <1>9, <1>11, <2>1
<1> QED BY <1>2, <1>9, <1>10, <1>11 DEF DiscordInv

\* A job that fails.
LEMMA FailKeeps ==
    ASSUME DiscordInv, job # None, NEW refused \in BOOLEAN, Discord!Fail(refused),
           rows' \in RowTables, guild' \in Guilds, lost' \in BOOLEAN, lost => lost',
           ~lost' => InGuild(NoJob, rows', guild') /\ (~tampered => AllStand(rows', guild')),
           UNCHANGED <<teams, enabled, queue, unasked>>
    PROVE  DiscordInv'
<1>1. Discord!TypeOK /\ timers \in Nat
  BY DEF DiscordInv, Discord!TypeOK
<1>2. /\ job' = None /\ error' = TRUE /\ tampered' = tampered
      /\ timers' = timers + (IF refused /\ job.kind = "sync" THEN 1 ELSE 0)
  BY DEF Discord!Fail
<1>3. timers' \in Nat
  BY <1>1, <1>2
<1>4. Discord!TypeOK'
  BY <1>1, <1>2, <1>3 DEF Discord!TypeOK, RowTables, Guilds
<1>5. Job' = NoJob
  BY <1>2 DEF Job, NoJob
<1>6. OnPaper(Job', rows')
  BY <1>5, IdleIs, NothingDone
<1>7. ASSUME ~lost' PROVE Promise'
  <2> SUFFICES ASSUME enabled, ~unasked, ~Awaited PROVE Removals = {}
    BY <1>2 DEF Promise, Awaited, Removals, Discord!Waiting
  <2> QED BY <1>7 DEF DiscordInv, Promise
<1> QED BY <1>2, <1>4, <1>5, <1>6, <1>7 DEF DiscordInv

LEMMA FailsKeeps ==
    ASSUME DiscordInv, NEW x \in Discord!Calls, NEW refused \in BOOLEAN, NEW didIt \in BOOLEAN, Discord!Fails(x, refused, didIt)
    PROVE  DiscordInv'
<1>1. /\ Discord!TypeOK /\ job # None /\ Reads1(job) /\ OnPaper(job, rows) /\ Job = job
      /\ x \in Discord!First(Discord!ToDo(job, rows)) /\ (Discord!Possible(x) => Calling(x))
  BY CallsAre
<1>2. /\ rows' = Discord!WrittenOnFailure(job, x) /\ Discord!Fail(refused)
      /\ UNCHANGED <<teams, enabled, queue, unasked>>
  BY DEF Discord!Fails
<1>3. /\ guild' = IF didIt THEN Discord!InDiscord(job, x) ELSE guild
      /\ didIt => Discord!Possible(x)
  BY DEF Discord!Fails
<1>4. lost' \in BOOLEAN /\ (lost => lost') /\ (didIt => lost')
  <2>1. lost' = (lost \/ didIt)
    BY DEF Discord!Fails
  <2>2. (lost \/ didIt) \in BOOLEAN
    OBVIOUS
  <2> QED BY <2>1, <2>2
<1>5. /\ rows' \in RowTables
      /\ InGuild(job, rows, guild) => InGuild(NoJob, rows', guild) /\ (AllStand(rows, guild) => AllStand(rows', guild))
  BY <1>1, <1>2, CallFails
<1>6. guild' \in Guilds
  <2>1. CASE didIt
    <3>1. Calling(x) /\ guild' = Discord!InDiscord(job, x)
      BY <1>1, <1>3, <2>1
    <3> QED BY <3>1, CallAnswered
  <2>2. CASE ~didIt
    BY <1>1, <1>3, <2>2 DEF Discord!TypeOK, Guilds
  <2> QED BY <2>1, <2>2
<1>7. ASSUME ~lost' PROVE InGuild(NoJob, rows', guild') /\ (~tampered => AllStand(rows', guild'))
  <2>1. guild' = guild /\ InGuild(job, rows, guild) /\ (~tampered => AllStand(rows, guild))
    BY <1>1, <1>3, <1>4, <1>7 DEF DiscordInv
  <2> QED BY <1>5, <2>1
<1> QED BY <1>1, <1>2, <1>4, <1>5, <1>6, <1>7, FailKeeps

LEMMA FailsToStartKeeps ==
    ASSUME DiscordInv, NEW refused \in BOOLEAN, Discord!FailsToStart(refused)
    PROVE  DiscordInv'
<1>1. /\ Discord!TypeOK /\ job # None /\ job.done = {} /\ Discord!Fail(refused) /\ Job = job
      /\ UNCHANGED <<teams, enabled, rows, guild, queue, lost, unasked>>
  BY DEF Discord!FailsToStart, DiscordInv, Job
<1>2. rows \in RowTables /\ guild \in Guilds /\ lost \in BOOLEAN
  BY <1>1 DEF Discord!TypeOK, RowTables, Guilds
<1>3. \A g : InGuild(job, rows, g) => InGuild(NoJob, rows, g)
  BY <1>1, IdleIs, NothingDone
<1>4. ~lost => InGuild(NoJob, rows, guild) /\ (~tampered => AllStand(rows, guild))
  BY <1>1, <1>3 DEF DiscordInv
<1> QED BY <1>1, <1>2, <1>4, FailKeeps

LEMMA RestartKeeps ==
    ASSUME DiscordInv, Discord!Restart
    PROVE  DiscordInv'
<1>1. /\ Discord!TypeOK /\ queue' = <<>> /\ job' = None /\ timers' = 0
      /\ UNCHANGED <<teams, enabled, error, rows, tampered>>
  BY DEF Discord!Restart, DiscordInv
<1>2. lost' \in BOOLEAN /\ (~lost' => ~lost /\ job = None)
  <2>1. lost' = (lost \/ job # None)
    BY DEF Discord!Restart
  <2>2. (lost \/ job # None) \in BOOLEAN
    OBVIOUS
  <2> QED BY <2>1, <2>2
<1>3. unasked' \in BOOLEAN /\ (~unasked' => ~unasked /\ queue = <<>>)
  <2>1. unasked' = (unasked \/ job # None \/ queue # <<>> \/ timers > 0)
    BY DEF Discord!Restart
  <2>2. (unasked \/ job # None \/ queue # <<>> \/ timers > 0) \in BOOLEAN
    OBVIOUS
  <2> QED BY <2>1, <2>2
<1>4. guild \in Guilds /\ guild' \in Guilds /\ (job = None => guild' = guild)
  <2>1. guild \in Guilds
    BY <1>1 DEF Discord!TypeOK, Guilds
  <2>2. guild' = guild \/ \E x \in Discord!Calls : Discord!Possible(x) /\ guild' = Discord!InDiscord(job, x)
    BY DEF Discord!Restart
  <2>3. ASSUME NEW x \in Discord!Calls, Discord!Possible(x), guild' = Discord!InDiscord(job, x)
        PROVE  guild' \in Guilds /\ job # None
    <3>1. Calling(x) /\ job # None
      BY <2>3, CallsAre
    <3> QED BY <2>3, <3>1, CallAnswered
  <2> QED BY <2>1, <2>2, <2>3
<1>5. Discord!TypeOK'
  BY <1>1, <1>2, <1>3, <1>4 DEF Discord!TypeOK, Guilds
<1>6. Job' = NoJob /\ OnPaper(Job', rows')
  <2>1. Job' = NoJob
    BY <1>1 DEF Job, NoJob
  <2> QED BY <2>1, IdleIs, NothingDone
<1>7. ASSUME ~lost' PROVE InGuild(NoJob, rows', guild') /\ (~tampered' => AllStand(rows', guild')) /\ Promise'
  <2>1. job = None /\ guild' = guild /\ Job = NoJob
    BY <1>2, <1>4, <1>7 DEF Job, NoJob
  <2>2. InGuild(NoJob, rows, guild) /\ (~tampered => AllStand(rows, guild)) /\ Promise
    BY <1>2, <1>7, <2>1 DEF DiscordInv
  <2>3. Promise'
    <3> SUFFICES ASSUME enabled, ~unasked' PROVE Removals' = {} /\ (error \/ tampered \/ AllInPlace)
      BY <1>1, <2>1 DEF Promise, AllInPlace, Discord!HasItsPlace, Discord!There
    <3>1. ~unasked /\ queue = <<>>
      BY <1>3
    <3>2. Removals' = {} /\ ~Awaited
      BY <1>1, <3>1 DEF Removals, Awaited, Discord!Waiting
    <3> QED BY <2>1, <2>2, <3>1, <3>2 DEF Promise
  <2> QED BY <1>1, <2>1, <2>2, <2>3
<1> QED BY <1>1, <1>5, <1>6, <1>7 DEF DiscordInv

LEMMA DeletedByHandKeeps ==
    ASSUME DiscordInv, NEW id \in Discord!Ids, Discord!DeletedByHand(id)
    PROVE  DiscordInv'
<1>1. /\ Discord!TypeOK /\ Is(guild, id) /\ guild' = [guild EXCEPT ![id] = None] /\ tampered' = TRUE
      /\ job' = IF job = None THEN None ELSE [job EXCEPT !.healing = FALSE]
      /\ UNCHANGED <<teams, enabled, error, rows, queue, timers, lost, unasked>>
  BY DEF Discord!DeletedByHand, DiscordInv, Discord!There, Is
<1>2. guild \in Guilds /\ rows \in RowTables
  BY <1>1 DEF Discord!TypeOK, Guilds, RowTables
<1>3. [guild EXCEPT ![id] = None] \in Guilds
  BY <1>1, <1>2, GuildChanged DEF Is
<1>4. DOMAIN guild' = DOMAIN guild /\ guild' \in Guilds /\ guild'[id] = None /\ \A i \in DOMAIN guild : i # id => guild'[i] = guild[i]
  BY <1>1, <1>2, <1>3, GuildChanged DEF Is
<1>5. /\ job = None => job' = None
      /\ job # None => /\ job \in Discord!Jobs /\ job' \in Discord!Jobs /\ job' # None
                       /\ job'.kind = job.kind /\ job'.force = job.force /\ job'.healing = FALSE
                       /\ job'.wants = job.wants /\ job'.done = job.done
  <2>1. job # None => job \in Discord!Jobs
    BY <1>1 DEF Discord!TypeOK
  <2>2. job # None => /\ job' \in Discord!Jobs
                      /\ job'.kind = job.kind /\ job'.force = job.force /\ job'.healing = FALSE
                      /\ job'.wants = job.wants /\ job'.done = job.done
    BY <1>1, <2>1 DEF Discord!Jobs
  <2> QED BY <1>1, <2>1, <2>2, DiscordConstants
<1>6. Discord!TypeOK'
  BY <1>1, <1>4, <1>5 DEF Discord!TypeOK, Guilds
<1>7. /\ Job'.done = Job.done /\ Job'.wants = Job.wants /\ Job'.force = Job.force /\ Job'.healing = FALSE
  BY <1>1, <1>5 DEF Job, NoJob
<1>8. \A t \in DiscordTeams : Given(Job', t) = Given(Job, t) /\ Taken(Job', t) = Taken(Job, t)
  BY <1>7 DEF Given, Taken
<1>9. OnPaper(Job', rows')
  <2>1. CASE Job.done = {}
    BY <1>7, <2>1, NothingDone
  <2>2. CASE Job.done # {}
    <3>1. job # None /\ Job = job
      BY <2>2 DEF Job, NoJob
    <3>2. job.wants # None /\ Reads1(job)
      BY <1>5, <2>2, <3>1 DEF DiscordInv, Reads1, Discord!Jobs
    <3>3. Reads1(job') /\ Job' = job'
      BY <1>5, <3>1, <3>2 DEF Reads1, Job
    <3>4. \A x : Due(job', rows, x) <=> Due(job, rows, x)
      BY <1>5, <3>1 DEF Due
    <3>5. \A x : x \in Discord!ToDo(job', rows) <=> x \in Discord!ToDo(job, rows)
      <4> SUFFICES ASSUME NEW x PROVE x \in Discord!ToDo(job', rows) <=> x \in Discord!ToDo(job, rows)
        OBVIOUS
      <4>1. PICK i \in Discord!Jobs : i = job'
        BY <1>5, <3>1
      <4>2. x \in Discord!ToDo(i, rows) <=> x \in Discord!Tasks /\ x \notin i.done /\ Due(i, rows, x)
        BY <1>2, <3>3, <4>1, ToDoIs
      <4>3. x \in Discord!ToDo(job, rows) <=> x \in Discord!Tasks /\ x \notin job.done /\ Due(job, rows, x)
        BY <1>2, <3>2, ToDoIs
      <4> QED BY <1>5, <3>1, <3>4, <4>1, <4>2, <4>3
    <3>6. Discord!ToDo(job', rows) = Discord!ToDo(job, rows)
      BY <3>5
    <3>7. OnPaper(job, rows)
      BY <3>1 DEF DiscordInv
    <3>8. DoneShows(job', rows) /\ InTurn(job', rows)
      BY <1>5, <3>1, <3>6, <3>7 DEF OnPaper, DoneShows, InTurn
    <3>9. MembersWritten(job', rows)
      BY <1>5, <1>8, <3>1, <3>3, <3>6, <3>7 DEF OnPaper, MembersWritten, Discord!MembersLeft, Discord!Exist
    <3> QED BY <1>1, <3>3, <3>8, <3>9 DEF OnPaper
  <2> QED BY <2>1, <2>2
<1>10. ASSUME InGuild(Job, rows, guild) PROVE InGuild(Job', rows', guild')
  <2>1. OneRowEach(rows, guild')
    BY <1>4, <1>10 DEF InGuild, OneRowEach
  <2>2. AllWritten(rows, guild')
    BY <1>4, <1>10 DEF InGuild, AllWritten
  <2>3. \A i : Is(guild', i) => Is(guild, i) /\ guild'[i] = guild[i]
    BY <1>4 DEF Is
  <2>4. AsWritten(Job', rows, guild')
    BY <1>8, <1>10, <2>3 DEF InGuild, AsWritten
  <2>5. Heals(Job', rows, guild')
    BY <1>7 DEF Heals
  <2> QED BY <1>1, <2>1, <2>2, <2>4, <2>5 DEF InGuild
<1>11. ASSUME ~lost PROVE Promise'
  <2>1. Promise
    BY <1>11 DEF DiscordInv
  <2> SUFFICES ASSUME enabled, ~unasked, ~Awaited
               PROVE  Removals = {} /\ (job' # None => job'.kind = "sync" /\ job'.wants \in {None, teams})
    BY <1>1 DEF Promise, Awaited, Removals, Discord!Waiting
  <2> QED BY <1>5, <2>1 DEF Promise
<1> QED BY <1>1, <1>5, <1>6, <1>9, <1>10, <1>11 DEF DiscordInv

LEMMA DiscordStarts == Discord!Init => DiscordInv
<1> SUFFICES ASSUME Discord!Init PROVE DiscordInv
  OBVIOUS
<1>1. /\ teams = Discord!NoTeams /\ enabled = FALSE /\ error = FALSE /\ rows = [p \in Discord!Places |-> None]
      /\ guild = <<>> /\ queue = <<>> /\ job = None /\ timers = 0 /\ lost = FALSE /\ unasked = FALSE /\ tampered = FALSE
  BY DEF Discord!Init
<1>2. Discord!TypeOK
  <2>1. teams \in Discord!TeamTables
    BY <1>1 DEF Discord!NoTeams, Discord!TeamTables
  <2>2. rows \in [Discord!Places -> Discord!Rows \cup {None}]
    BY <1>1
  <2>3. \A S : <<>> \in Seq(S)
    BY EmptySeq
  <2> QED BY <1>1, <2>1, <2>2, <2>3 DEF Discord!TypeOK
<1>3. Job = NoJob /\ \A p \in Discord!Places : rows[p] = None
  BY <1>1 DEF Job, NoJob
<1>4. OnPaper(Job, rows)
  BY <1>3, IdleIs, NothingDone
<1>5. OneRowEach(rows, guild) /\ AllStand(rows, guild)
  BY <1>3 DEF OneRowEach, AllStand
<1>6. AsWritten(NoJob, rows, guild)
  BY <1>3 DEF AsWritten, Discord!Places
<1>7. AllWritten(rows, guild) /\ Heals(NoJob, rows, guild)
  BY <1>1 DEF AllWritten, Heals, NoJob
<1>8. Promise
  BY <1>1 DEF Promise
<1> QED BY <1>1, <1>2, <1>3, <1>4, <1>5, <1>6, <1>7, <1>8 DEF DiscordInv, InGuild

LEMMA DiscordInductive == DiscordInv /\ [Discord!Next]_(Discord!vars) => DiscordInv'
<1> SUFFICES ASSUME DiscordInv, [Discord!Next]_(Discord!vars) PROVE DiscordInv'
  OBVIOUS
<1>1. CASE UNCHANGED Discord!vars
  <2>1. UNCHANGED <<teams, enabled, error, rows, guild, queue, job, timers, lost, unasked, tampered>>
    BY <1>1 DEF Discord!vars
  <2>2. Discord!TypeOK'
    BY <2>1 DEF DiscordInv, Discord!TypeOK
  <2>3. Promise <=> Promise'
    BY <2>1 DEF Promise, Awaited, Removals, Discord!Waiting, AllInPlace, Discord!HasItsPlace, Discord!There
  <2> QED BY <2>1, <2>2, <2>3, GuildKept DEF DiscordInv
<1>2. CASE Discord!Next
  <2>1. CASE \/ \E t \in DiscordTeams, to \in Discord!TeamRows \cup {Gone} : Discord!ChangeTeam(t, to)
             \/ \E to \in BOOLEAN : Discord!SwitchInSettings(to) \/ Discord!SwitchByStage(to)
             \/ Discord!SyncNow \/ Discord!RemoveFromDiscord \/ Discord!TimerFires
    BY <2>1, RequestsKeep
  <2>2. CASE Discord!StartJob \/ Discord!ReadTeams \/ Discord!Restart
    BY <2>2, StartJobKeeps, ReadTeamsKeeps, RestartKeeps
  <2>3. ASSUME NEW x \in Discord!Calls, Discord!Answered(x) PROVE DiscordInv'
    BY <2>3, AnsweredKeeps
  <2>4. ASSUME NEW x \in Discord!Calls, NEW refused \in BOOLEAN, NEW didIt \in BOOLEAN, Discord!Fails(x, refused, didIt)
        PROVE  DiscordInv'
    BY <2>4, FailsKeeps
  <2>5. ASSUME NEW refused \in BOOLEAN, Discord!FailsToStart(refused) PROVE DiscordInv'
    BY <2>5, FailsToStartKeeps
  <2>6. ASSUME NEW id \in Discord!Ids, Discord!DeletedByHand(id) PROVE DiscordInv'
    BY <2>6, DeletedByHandKeeps
  <2> QED BY <1>2, <2>1, <2>2, <2>3, <2>4, <2>5, <2>6 DEF Discord!Next
<1> QED BY <1>1, <1>2

LEMMA DiscordAlways == Discord!Spec => []DiscordInv
BY DiscordStarts, DiscordInductive, PTL DEF Discord!Spec

\* The tables of the Discord team sync hold what they may hold, for any number of Teams and Players: no two jobs run at
\* once, and a row names an object that Discord gave an id (discordTeamService).
THEOREM DiscordTyped == Discord!Spec => []Discord!TypeOK
<1>1. DiscordInv => Discord!TypeOK
  BY DEF DiscordInv
<1> QED BY <1>1, DiscordAlways, PTL

\* Once every sync that was asked for has run and the last one succeeded, every Team has its role and its channel as they
\* should be, and there is nothing of a Team that's gone (syncTeams, reconcile, removeNow, pendingSyncs).
THEOREM TeamsInPlace == Discord!Spec => []InPlace
<1>1. DiscordInv => InPlace
  <2> SUFFICES ASSUME DiscordInv, Discord!AtRest, enabled, ~error, ~tampered, ~unasked, ~lost
               PROVE  AllInPlace
    BY DEF InPlace, Discord!InPlace, Discord!Settled, AllInPlace
  <2>1. job = None /\ ~Awaited
    BY DEF Discord!AtRest, Awaited, Discord!Waiting
  <2> QED BY <2>1 DEF DiscordInv, Promise
<1> QED BY <1>1, DiscordAlways, PTL

\* Whatever the sync made in Discord is written down as long as it is there (recordResource, deleteResource).
THEOREM WrittenDown == Discord!Spec => []NothingForgotten
<1>1. DiscordInv => NothingForgotten
  BY DEF DiscordInv, InGuild, AllWritten, NothingForgotten, Discord!NothingForgotten, Discord!There
<1> QED BY <1>1, DiscordAlways, PTL
==============================================================================
