------------------------- MODULE NotificationsProofs ------------------------
(***************************************************************************)
(* Proofs about Notifications. One Notification is at one place at a time: *)
(* not read yet or in a server's batch, in a window that waits, in the DM  *)
(* under way, or told. A round knows the windows it has read as due as     *)
(* they were then: what it sends of one is still in that window when it    *)
(* takes it off the queue, and what joined the window since is late.       *)
(***************************************************************************)
EXTENDS Notifications, FiniteSetTheorems, SequenceTheorems, TLAPS

\* What the DM under way on s tells.
Going(s) == IF sending[s] = None THEN {} ELSE sending[s].ids

\* A Notification that is still to be delivered.
ToCome(n) == n > cursor \/ \E s \in Servers : \E i \in DOMAIN batch[s] : batch[s][i] = n

\* The windows that s's round has read as due and not come to, as it knows them.
Known(s) == Range(round[s].rows)

BatchesApart ==
    /\ \A s \in Servers : \A i \in DOMAIN batch[s] : batch[s][i] \in 1..cursor
    /\ \A s, t \in Servers : \A i \in DOMAIN batch[s], j \in DOMAIN batch[t] : batch[s][i] = batch[t][j] => s = t /\ i = j

\* No trace yet of what is to come; a round knows no window that it opens.
NoTrace ==
    \A n \in Ids : ToCome(n) =>
        /\ dms[n] = 0
        /\ \A r \in queue : n \notin r.ids
        /\ \A s \in Servers : n \notin Going(s) /\ \A k \in Known(s) : k.id # n

WindowsApart ==
    /\ IsFiniteSet(queue)
    /\ \A r \in queue : r.id \in r.ids
    /\ \A r, q \in queue : r.ids \cap q.ids # {} => r = q

Untold ==
    /\ \A r \in queue : \A n \in r.ids : dms[n] = 0 /\ \A s \in Servers : n \notin Going(s)
    /\ \A s \in Servers : \A n \in Going(s) : dms[n] = 0 /\ \A t \in Servers : n \in Going(t) => s = t

RoundsKnow ==
    \A s \in Servers : \A k \in Known(s) : \A r \in queue :
        k.id = r.id => k.ids \subseteq r.ids /\ r.ids \ k.ids \subseteq late

RoundsGoOn == \A s \in Servers : round[s] # Idle => round[s].rows # <<>>

Shape == TypeOK /\ BatchesApart /\ WindowsApart /\ RoundsGoOn

Inv == Shape /\ NoTrace /\ Untold /\ RoundsKnow /\ OneDm /\ NothingMissed
-----------------------------------------------------------------------------
(* Putting a set in order. *)

\* A finite set with a total order can be written down in it.
LEMMA Enumerable ==
    ASSUME NEW S, IsFiniteSet(S), NEW R,
           \A x \in S : <<x, x>> \notin R,
           \A x, y \in S : x # y => <<x, y>> \in R \/ <<y, x>> \in R,
           \A x, y, z \in S : <<x, y>> \in R /\ <<y, z>> \in R => <<x, z>> \in R
    PROVE  \E q \in [1..Cardinality(S) -> S] : \A i, j \in 1..Cardinality(S) : i < j => <<q[i], q[j]>> \in R
<1> DEFINE n == Cardinality(S)
           Under(x) == {y \in S : <<y, x>> \in R}
           rank == [x \in S |-> Cardinality(Under(x)) + 1]
<1>1. n \in Nat
  BY FS_CardinalityType
<1>2. ASSUME NEW x \in S PROVE IsFiniteSet(Under(x)) /\ Cardinality(Under(x)) \in Nat /\ Cardinality(Under(x)) < n
  <2>1. Under(x) \in SUBSET S /\ Under(x) # S
    OBVIOUS
  <2>2. IsFiniteSet(Under(x)) /\ Cardinality(Under(x)) <= n /\ Cardinality(Under(x)) # n
    BY <2>1, FS_Subset
  <2> QED BY <1>1, <2>2, FS_CardinalityType
<1>3. ASSUME NEW x \in S, NEW y \in S, <<x, y>> \in R PROVE rank[x] < rank[y]
  <2>1. Under(x) \in SUBSET Under(y) /\ Under(x) # Under(y)
    BY <1>3
  <2>2. Cardinality(Under(x)) <= Cardinality(Under(y)) /\ Cardinality(Under(x)) # Cardinality(Under(y))
    BY <1>2, <2>1, FS_Subset
  <2> HIDE DEF Under
  <2> QED BY <1>2, <2>2
<1>4. rank \in [S -> 1..n]
  <2>1. ASSUME NEW x \in S PROVE Cardinality(Under(x)) + 1 \in 1..n
    BY <1>1, <1>2
  <2> QED BY <2>1
<1>5. \A x, y \in S : rank[x] = rank[y] => x = y
  <2> SUFFICES ASSUME NEW x \in S, NEW y \in S, rank[x] = rank[y] PROVE x = y
    OBVIOUS
  <2>1. rank[x] \in Int /\ rank[y] \in Int
    BY <1>4
  <2>2. ~(rank[x] < rank[y]) /\ ~(rank[y] < rank[x])
    BY <2>1
  <2> HIDE DEF rank
  <2> QED BY <1>3, <2>2
<1>6. rank \in Surjection(S, 1..n)
  <2>1. rank \in Injection(S, 1..n)
    BY <1>4, <1>5 DEF Injection, IsInjective
  <2>2. IsFiniteSet(1..n) /\ Cardinality(1..n) = n
    BY <1>1, FS_Interval
  <2> QED BY <2>1, <2>2, FS_Injection
<1> DEFINE q == [i \in 1..n |-> CHOOSE x \in S : rank[x] = i]
<1> HIDE DEF rank, n
<1>7. \A i \in 1..n : q[i] \in S /\ rank[q[i]] = i
  BY <1>6 DEF Surjection
<1>8. q \in [1..n -> S]
  BY <1>7
<1>9. ASSUME NEW i \in 1..n, NEW j \in 1..n, i < j PROVE <<q[i], q[j]>> \in R
  <2>1. q[i] # q[j] /\ ~(<<q[j], q[i]>> \in R)
    BY <1>3, <1>7, <1>9, <1>1
  <2> QED BY <1>7, <2>1
<1> QED BY <1>8, <1>9 DEF n

-----------------------------------------------------------------------------
(* What is read off the log and off the queue. *)

LEMMA RowTyped ==
    ASSUME NEW r \in Rows
    PROVE  r.id \in Ids /\ r.user \in Users /\ r.kind \in Kinds /\ r.ids \subseteq Ids /\ r.sendAt \in Nat
BY DEF Rows

LEMMA IdsTyped == Ids \subseteq Nat \ {0}
BY NotificationsAssumption DEF Ids

\* The Notifications stored are those of the unread entries, each once.
LEMMA StoredOnce ==
    ASSUME TypeOK
    PROVE  /\ Stored \in Seq(OptedIn(Unread))
           /\ \A i, j \in DOMAIN Stored : Stored[i] = Stored[j] => i = j
<1> DEFINE S == OptedIn(Unread)
           R == {p \in S \X S : p[1] < p[2]}
           k == Cardinality(S)
<1>1. cursor \in Nat /\ Len(log) \in Nat /\ S \subseteq Unread /\ Unread \subseteq Int
  <2>1. log \in Seq(Entries) /\ cursor \in 0..Len(log)
    BY DEF TypeOK
  <2>2. Len(log) \in Nat
    BY <2>1, LenProperties
  <2>3. cursor \in Nat /\ Unread \subseteq Int
    BY <2>1, <2>2 DEF Unread
  <2> QED BY <2>2, <2>3 DEF OptedIn
<1>2. IsFiniteSet(S)
  <2>1. IsFiniteSet(Unread)
    BY <1>1, FS_Interval DEF Unread
  <2> QED BY <1>1, <2>1, FS_Subset
<1>3. k \in Nat
  BY <1>2, FS_CardinalityType
<1>4. S \subseteq Int
  BY <1>1
<1>5. \A x, y \in S : <<x, y>> \in R <=> x < y
  OBVIOUS
<1> HIDE DEF S, R, k
<1>6. \E q \in [1..k -> S] : \A i, j \in 1..k : i < j => <<q[i], q[j]>> \in R
  <2>1. /\ \A x \in S : <<x, x>> \notin R
        /\ \A x, y \in S : x # y => <<x, y>> \in R \/ <<y, x>> \in R
        /\ \A x, y, z \in S : <<x, y>> \in R /\ <<y, z>> \in R => <<x, z>> \in R
    BY <1>4, <1>5
  <2> QED BY <1>2, <2>1, Enumerable DEF k
<1>7. \E q \in [1..k -> S] : \A i, j \in 1..k : i < j => q[i] < q[j]
  <2>1. PICK q \in [1..k -> S] : \A i, j \in 1..k : i < j => <<q[i], q[j]>> \in R
    BY <1>6
  <2> QED BY <1>5, <2>1
<1>8. Stored \in [1..k -> S] /\ \A i, j \in 1..k : i < j => Stored[i] < Stored[j]
  BY <1>7 DEF Stored, InOrder, S, k
<1>9. ASSUME NEW i \in 1..k, NEW j \in 1..k, Stored[i] = Stored[j] PROVE i = j
  <2>1. Stored[i] \in Int
    BY <1>4, <1>8
  <2>2. ~(i < j) /\ ~(j < i)
    BY <1>8, <1>9, <2>1
  <2> QED BY <1>3, <2>2
<1> QED BY <1>3, <1>8, <1>9 DEF S

\* Every window a round reads is one that is due.
DueRows == InOrder(Due, LAMBDA a, b : a.sendAt < b.sendAt \/ (a.sendAt = b.sendAt /\ a.id < b.id))

LEMMA RoundReadsDue ==
    ASSUME TypeOK, WindowsApart
    PROVE  DueRows \in Seq(Due) /\ (Due # {} => DueRows # <<>>)
<1> DEFINE R == {p \in Due \X Due : p[1].sendAt < p[2].sendAt \/ (p[1].sendAt = p[2].sendAt /\ p[1].id < p[2].id)}
           k == Cardinality(Due)
<1>1. IsFiniteSet(Due) /\ k \in Nat
  <2>1. Due \in SUBSET queue /\ IsFiniteSet(queue)
    BY DEF Due, WindowsApart
  <2>2. IsFiniteSet(Due)
    BY <2>1, FS_Subset
  <2> QED BY <2>2, FS_CardinalityType
<1>2. ASSUME NEW x \in Due PROVE x.sendAt \in Int /\ x.id \in Int
  <2>1. x \in Rows
    BY DEF Due, TypeOK
  <2>2. x.sendAt \in Nat /\ x.id \in Ids
    BY <2>1, RowTyped
  <2>3. x.id \in Nat
    BY <2>2, IdsTyped
  <2> QED BY <2>2, <2>3
<1>3. \A x, y \in Due : x.id = y.id => x = y
  BY DEF Due, WindowsApart
<1>4. \A x, y \in Due : <<x, y>> \in R <=> (x.sendAt < y.sendAt \/ (x.sendAt = y.sendAt /\ x.id < y.id))
  OBVIOUS
<1> HIDE DEF R, k
<1>5. \E q \in [1..k -> Due] : \A i, j \in 1..k : i < j => <<q[i], q[j]>> \in R
  <2>1. \A x \in Due : <<x, x>> \notin R
    BY <1>2, <1>4
  <2>2. \A x, y \in Due : x # y => <<x, y>> \in R \/ <<y, x>> \in R
    BY <1>2, <1>3, <1>4
  <2>3. \A x, y, z \in Due : <<x, y>> \in R /\ <<y, z>> \in R => <<x, z>> \in R
    BY <1>2, <1>4
  <2> QED BY <1>1, <2>1, <2>2, <2>3, Enumerable DEF k
<1>6. \E q \in [1..k -> Due] : \A i, j \in 1..k : i < j =>
        q[i].sendAt < q[j].sendAt \/ (q[i].sendAt = q[j].sendAt /\ q[i].id < q[j].id)
  <2>1. PICK q \in [1..k -> Due] : \A i, j \in 1..k : i < j => <<q[i], q[j]>> \in R
    BY <1>5
  <2> QED BY <1>4, <2>1
<1>7. DueRows \in [1..k -> Due]
  BY <1>6 DEF DueRows, InOrder, k
<1>8. Due # {} => k # 0
  BY <1>1, FS_EmptySet DEF k
<1>9. DueRows \in Seq(Due) /\ Len(DueRows) = k
  BY <1>1, <1>7 DEF k
<1> QED BY <1>8, <1>9

-----------------------------------------------------------------------------
(* The steps that move a Notification on. *)

LEMMA Tailed ==
    ASSUME NEW S, NEW s \in Seq(S), s # <<>>
    PROVE  /\ 1 \in DOMAIN s /\ Head(s) = s[1] /\ Head(s) \in S
           /\ Tail(s) \in Seq(S) /\ (Len(s) # 1 => Tail(s) # <<>>)
           /\ \A i \in DOMAIN Tail(s) : i \in Nat /\ i + 1 \in DOMAIN s /\ Tail(s)[i] = s[i + 1]
           /\ \A i \in DOMAIN s : i # 1 => i - 1 \in DOMAIN Tail(s) /\ Tail(s)[i - 1] = s[i]
<1>1. /\ Head(s) \in S /\ Tail(s) \in Seq(S) /\ Len(Tail(s)) = Len(s) - 1
      /\ \A i \in 1..Len(Tail(s)) : Tail(s)[i] = s[i + 1]
  BY HeadTailProperties
<1>2. /\ Len(s) \in Nat /\ Len(s) # 0 /\ Head(s) = s[1] /\ DOMAIN s = 1..Len(s)
      /\ DOMAIN Tail(s) = 1..Len(Tail(s)) /\ (Tail(s) = <<>> => Len(Tail(s)) = 0)
  BY <1>1, LenProperties, EmptySeq
<1>3. ASSUME NEW i \in DOMAIN s, i # 1 PROVE i - 1 \in DOMAIN Tail(s) /\ Tail(s)[i - 1] = s[i]
  <2>1. i - 1 \in 1..Len(Tail(s)) /\ (i - 1) + 1 = i
    BY <1>1, <1>2, <1>3
  <2> QED BY <1>1, <1>2, <2>1
<1>4. ASSUME NEW i \in DOMAIN Tail(s) PROVE i \in Nat /\ i + 1 \in DOMAIN s /\ Tail(s)[i] = s[i + 1]
  BY <1>1, <1>2
<1> QED BY <1>1, <1>2, <1>3, <1>4

\* These are all a Notification's place depends on.
places == <<batch, cursor, queue, sending, dms, round, owed, late>>

LEMMA PlaceChanges ==
    ASSUME [Next]_vars
    PROVE  \/ UNCHANGED places
           \/ \E s \in Servers :
                \/ Drain(s) \/ Deliver(s) \/ StartRound(s) \/ TakeRow(s) \/ Sent(s) \/ Restart(s)
                \/ \E refused \in BOOLEAN : NotSent(s, refused)
                \/ \E u \in Users, to \in {"in view", "hidden", "none"} : Presence(s, u, to)
<1>1. CASE Tick
  BY <1>1 DEF Tick, places, database, server, history
<1>2. CASE \E u \in Users, k \in Kinds : Happens(u, k)
  BY <1>2 DEF Happens, places, server, history
<1>3. CASE \E n \in DOMAIN log : Lapses(n)
  BY <1>3 DEF Lapses, places, server, history
<1>4. CASE \E u \in Users : ClearInbox(u) \/ TryAgain(u) \/ \E to \in Levels : SetLevel(u, to)
  BY <1>4 DEF ClearInbox, TryAgain, SetLevel, places, server, history
<1>5. CASE UNCHANGED vars
  BY <1>5 DEF vars, places, database, server, history
<1> QED BY <1>1, <1>2, <1>3, <1>4, <1>5 DEF Next

\* What Deliver takes from its batch is known to the log, and is not to come any more.
LEMMA Delivering ==
    ASSUME Shape, NEW s \in Servers, Deliver(s), NEW n, n = Head(batch[s])
    PROVE  /\ n \in 1..cursor /\ n \in Ids /\ n \in DOMAIN log /\ ToCome(n)
           /\ \A m \in Ids : ToCome(m)' => ToCome(m) /\ m # n
           /\ batch' \in [Servers -> Seq(Ids)] /\ BatchesApart'
<1>1. batch[s] \in Seq(Ids) /\ batch[s] # <<>> /\ batch' = [batch EXCEPT ![s] = Tail(@)] /\ batch \in [Servers -> Seq(Ids)]
  BY DEF Shape, TypeOK, Deliver, Free
<1>2. cursor' = cursor /\ cursor \in 0..Len(log) /\ log \in Seq(Entries)
  BY DEF Shape, TypeOK, Deliver
<1>3. /\ 1 \in DOMAIN batch[s] /\ n = batch[s][1] /\ n \in Ids /\ Tail(batch[s]) \in Seq(Ids)
      /\ \A i \in DOMAIN Tail(batch[s]) : i \in Nat /\ i + 1 \in DOMAIN batch[s] /\ Tail(batch[s])[i] = batch[s][i + 1]
  BY <1>1, Tailed
<1>0. ASSUME NEW t \in Servers, NEW w \in Servers, NEW i \in DOMAIN batch[t], NEW j \in DOMAIN batch[w], batch[t][i] = batch[w][j]
      PROVE  t = w /\ i = j
  BY <1>0 DEF Shape, BatchesApart
<1>4. n \in 1..cursor /\ n \in DOMAIN log
  <2>1. n \in 1..cursor
    BY <1>3 DEF Shape, BatchesApart
  <2>2. Len(log) \in Nat /\ DOMAIN log = 1..Len(log)
    BY <1>2, LenProperties
  <2> QED BY <1>2, <2>1, <2>2
<1>5. /\ batch'[s] = Tail(batch[s]) /\ \A t \in Servers : t # s => batch'[t] = batch[t]
      /\ batch' \in [Servers -> Seq(Ids)]
  BY <1>1, <1>3
<1>6. ASSUME NEW t \in Servers, NEW i \in DOMAIN batch'[t]
      PROVE  \E j \in DOMAIN batch[t] : j \in Int /\ batch'[t][i] = batch[t][j] /\ j = (IF t = s THEN i + 1 ELSE i) /\ batch[t][j] # n
  <2>1. CASE t = s
    <3>1. i \in Nat /\ i + 1 \in DOMAIN batch[s] /\ batch'[s][i] = batch[s][i + 1] /\ i # 0
      <4>1. DOMAIN Tail(batch[s]) = 1..Len(Tail(batch[s]))
        BY <1>3, LenProperties
      <4> QED BY <1>3, <1>5, <2>1, <4>1
    <3>2. i + 1 # 1
      BY <3>1
    <3>3. batch[s][i + 1] # n
      BY <1>0, <1>3, <3>1, <3>2
    <3> QED BY <2>1, <3>1, <3>3
  <2>2. CASE t # s
    <3>1. i \in DOMAIN batch[t] /\ batch'[t][i] = batch[t][i] /\ i \in Int
      <4>1. batch[t] \in Seq(Ids)
        BY <1>1
      <4>2. DOMAIN batch[t] = 1..Len(batch[t]) /\ Len(batch[t]) \in Nat
        BY <4>1, LenProperties
      <4> QED BY <1>5, <2>2, <4>2
    <3>2. batch[t][i] # n
      BY <1>3, <2>2, <3>1 DEF Shape, BatchesApart
    <3> QED BY <2>2, <3>1, <3>2
  <2> QED BY <2>1, <2>2
<1>7. BatchesApart'
  <2>1. ASSUME NEW t \in Servers, NEW i \in DOMAIN batch'[t] PROVE batch'[t][i] \in 1..cursor'
    BY <1>2, <1>6 DEF Shape, BatchesApart
  <2>2. ASSUME NEW t \in Servers, NEW w \in Servers, NEW i \in DOMAIN batch'[t], NEW j \in DOMAIN batch'[w],
               batch'[t][i] = batch'[w][j]
        PROVE  t = w /\ i = j
    <3>1. PICK k \in DOMAIN batch[t] : k \in Int /\ batch'[t][i] = batch[t][k] /\ k = (IF t = s THEN i + 1 ELSE i)
      BY <1>6
    <3>2. PICK l \in DOMAIN batch[w] : l \in Int /\ batch'[w][j] = batch[w][l] /\ l = (IF w = s THEN j + 1 ELSE j)
      BY <1>6
    <3>3. t = w /\ k = l
      <4>1. batch[t][k] = batch[w][l]
        BY <2>2, <3>1, <3>2
      <4> QED BY <1>0, <4>1
    <3>4. i \in Int /\ j \in Int
      <4>1. batch'[t] \in Seq(Ids) /\ batch'[w] \in Seq(Ids)
        BY <1>5
      <4> QED BY <4>1, LenProperties
    <3> QED BY <3>1, <3>2, <3>3, <3>4
  <2> QED BY <2>1, <2>2 DEF BatchesApart
<1>8. ToCome(n)
  BY <1>3 DEF ToCome
<1>9. ASSUME NEW m \in Ids, ToCome(m)' PROVE ToCome(m) /\ m # n
  <2>1. CASE m > cursor'
    <3>1. m \in Int /\ cursor \in Int
      BY <1>2, IdsTyped
    <3> QED BY <1>2, <1>4, <2>1, <3>1 DEF ToCome
  <2>2. CASE \E t \in Servers : \E i \in DOMAIN batch'[t] : batch'[t][i] = m
    BY <1>6, <2>2 DEF ToCome
  <2> QED BY <1>9, <2>1, <2>2 DEF ToCome
<1> QED BY <1>3, <1>4, <1>5, <1>7, <1>8, <1>9

\* n is put in the window q, which takes the place of the one it joins, if it joins one.
PutIn(n, q, old) ==
    /\ q \in Rows /\ old \in SUBSET queue
    /\ queue' = (queue \ old) \cup {q}
    /\ q.id \in q.ids /\ q.ids = (UNION {r.ids : r \in old}) \cup {n}
    /\ \A r \in old : r.id = q.id
    /\ (old = {} => q.id = n)
    /\ late \subseteq late' /\ late' \subseteq late \cup {n}
    /\ \A s \in Servers : \A k \in Known(s) : old # {} /\ k.id = q.id => n \in late'

LEMMA Queueing ==
    ASSUME Shape, NEW s \in Servers, Deliver(s), NEW n, n = Head(batch[s])
    PROVE  \/ UNCHANGED <<queue, owed, late>>
           \/ owed' = owed \cup {n} /\ \E q \in Rows : \E old \in SUBSET queue : PutIn(n, q, old)
<1>1. n \in Ids /\ n \in DOMAIN log
  BY Delivering
<1>2. log[n].user \in Users /\ log[n].kind \in Kinds /\ log[n].at \in Nat
  <2>1. log[n] \in Entries
    BY <1>1, ElementOfSeq, LenProperties DEF Shape, TypeOK
  <2> QED BY <2>1 DEF Entries
<1>3. CASE JoinsWindow(n) /\ owed' = owed \cup {n}
  <2>1. PICK r \in Open(n) : /\ queue' = (queue \ {r}) \cup {[r EXCEPT !.ids = @ \cup {n}]}
                             /\ late' = IF InARound(r) THEN late \cup {n} ELSE late
    BY <1>3 DEF JoinsWindow
  <2> DEFINE q == [r EXCEPT !.ids = @ \cup {n}]
  <2>2. r \in queue /\ r \in Rows /\ r.id \in r.ids
    BY DEF Open, SameGroup, Shape, TypeOK, WindowsApart
  <2>3. q \in Rows /\ q.id = r.id /\ q.ids = r.ids \cup {n}
    BY <1>1, <2>2 DEF Rows
  <2>4. UNION {o.ids : o \in {r}} = r.ids
    OBVIOUS
  <2>5. ASSUME NEW t \in Servers, NEW k \in Known(t), k.id = r.id PROVE n \in late'
    <3>1. InARound(r)
      BY <2>5 DEF Known, InARound, Range
    <3> QED BY <2>1, <3>1
  <2> HIDE DEF q
  <2>6. PutIn(n, q, {r})
    BY <2>1, <2>2, <2>3, <2>4, <2>5 DEF PutIn, q
  <2> QED BY <1>3, <2>2, <2>3, <2>6
<1>4. CASE OpensWindow(n) /\ owed' = owed \cup {n}
  <2> DEFINE q == [id |-> n, user |-> log[n].user, kind |-> log[n].kind, ids |-> {n}, sendAt |-> log[n].at + Window[log[n].kind]]
  <2>1. queue' = queue \cup {q} /\ late' = late
    BY <1>4 DEF OpensWindow
  <2>2. log[n].at + Window[log[n].kind] \in Nat
    BY <1>2, NotificationsAssumption
  <2>3. q \in Rows /\ q.id = n /\ q.ids = {n}
    BY <1>1, <1>2, <2>2 DEF Rows
  <2> HIDE DEF q
  <2>4. UNION {o.ids : o \in {}} = {}
    OBVIOUS
  <2>5. PutIn(n, q, {})
    BY <2>1, <2>3, <2>4 DEF PutIn
  <2> QED BY <1>4, <2>3, <2>5
<1> QED BY <1>3, <1>4 DEF Deliver

\* A window taken off the queue: the one its round knows, if it still waits.
LEMMA Taking ==
    ASSUME Shape, NEW s \in Servers, TakeRow(s), NEW row, row = Head(round[s].rows)
    PROVE  /\ row \in Rows /\ row \in Known(s)
           /\ round' \in [Servers -> [asOf : Nat, rows : Seq(Rows)]] /\ RoundsGoOn'
           /\ \A t \in Servers : Known(t)' \subseteq Known(t)
           /\ \A r \in Here(row) : Here(row) = {r}
<1>1. round \in [Servers -> [asOf : Nat, rows : Seq(Rows)]]
  BY DEF Shape, TypeOK
<1>2. round[s].rows \in Seq(Rows) /\ round[s].rows # <<>> /\ round[s].asOf \in Nat
  BY <1>1 DEF Shape, RoundsGoOn, TakeRow
<1> DEFINE rest == IF Len(round[s].rows) = 1 THEN Idle ELSE [round[s] EXCEPT !.rows = Tail(@)]
<1>3. round' = [round EXCEPT ![s] = rest]
  BY DEF TakeRow
<1>4. row \in Rows /\ row \in Known(s)
  BY <1>2, Tailed DEF Known, Range
<1>5. rest \in [asOf : Nat, rows : Seq(Rows)] /\ (rest # Idle => rest.rows # <<>>) /\ Range(rest.rows) \subseteq Range(round[s].rows)
  <2>1. CASE Len(round[s].rows) = 1
    <3>1. Idle.rows = <<>> /\ Idle \in [asOf : Nat, rows : Seq(Rows)]
      BY DEF Idle
    <3>2. Range(<<>>) = {}
      BY DEF Range
    <3> QED BY <2>1, <3>1, <3>2
  <2>2. CASE Len(round[s].rows) # 1
    <3>1. /\ Tail(round[s].rows) \in Seq(Rows) /\ Tail(round[s].rows) # <<>>
          /\ \A i \in DOMAIN Tail(round[s].rows) : i + 1 \in DOMAIN round[s].rows /\ Tail(round[s].rows)[i] = round[s].rows[i + 1]
      BY <1>2, <2>2, Tailed
    <3>2. Range(Tail(round[s].rows)) \subseteq Range(round[s].rows)
      BY <3>1 DEF Range
    <3>3. round[s] \in [asOf : Nat, rows : Seq(Rows)]
      BY <1>1
    <3>4. rest \in [asOf : Nat, rows : Seq(Rows)] /\ rest.rows = Tail(round[s].rows)
      BY <2>2, <3>1, <3>3
    <3> QED BY <3>1, <3>2, <3>4
  <2> QED BY <2>1, <2>2
<1> HIDE DEF rest
<1>6. round' \in [Servers -> [asOf : Nat, rows : Seq(Rows)]] /\ round'[s] = rest /\ \A t \in Servers : t # s => round'[t] = round[t]
  BY <1>1, <1>3, <1>5
<1>7. RoundsGoOn'
  BY <1>5, <1>6 DEF Shape, RoundsGoOn
<1>8. ASSUME NEW t \in Servers PROVE Known(t)' \subseteq Known(t)
  BY <1>5, <1>6 DEF Known
<1>9. \A r \in Here(row) : Here(row) = {r}
  BY DEF Here, Shape, WindowsApart
<1> QED BY <1>4, <1>6, <1>7, <1>8, <1>9

-----------------------------------------------------------------------------
(* Types. *)

LEMMA Bounds == MaxEntries \in Nat /\ MaxTime \in Nat /\ MaxChanges \in Nat
BY NotificationsAssumption

LEMMA CountedTyped == ASSUME TypeOK, Counted PROVE changes' \in 0..MaxChanges
<1>1. changes \in 0..MaxChanges
  BY DEF TypeOK
<1> QED BY <1>1, Bounds DEF Counted

LEMMA ToldTyped == ASSUME TypeOK, NEW ids PROVE Told(ids) \in [Ids -> Nat]
<1>1. dms \in [Ids -> Nat]
  BY DEF TypeOK
<1> QED BY <1>1 DEF Told

LEMMA TypingStep ==
    ASSUME Shape, [Next]_vars
    PROVE  TypeOK'
<1>a. log \in Seq(Entries) /\ Len(log) \in Nat /\ Len(log) <= MaxEntries /\ cursor \in 0..Len(log) /\ inbox \subseteq 1..cursor
  BY LenProperties DEF Shape, TypeOK
<1>b. round \in [Servers -> [asOf : Nat, rows : Seq(Rows)]] /\ batch \in [Servers -> Seq(Ids)]
  BY DEF Shape, TypeOK
<1>c. now \in 0..MaxTime
  BY DEF Shape, TypeOK
<1>d. now \in Nat
  BY <1>c, Bounds
<1>1. CASE Tick
  <2>1. now' \in 0..MaxTime
    BY <1>1, <1>c, Bounds DEF Tick
  <2> QED BY <1>1, <2>1 DEF Tick, Shape, TypeOK, database, server, history
<1>2. ASSUME NEW u \in Users, NEW k \in Kinds, Happens(u, k) PROVE TypeOK'
  <2>1. [user |-> u, kind |-> k, at |-> now] \in Entries
    BY <1>2, <1>d DEF Entries
  <2>2. log' \in Seq(Entries) /\ Len(log') = Len(log) + 1 /\ DOMAIN log \subseteq DOMAIN log' /\ Len(log) \in Nat
    <3>1. log' = Append(log, [user |-> u, kind |-> k, at |-> now])
      BY <1>2 DEF Happens
    <3>2. log' \in Seq(Entries) /\ Len(log') = Len(log) + 1
      BY <1>a, <2>1, <3>1, AppendProperties
    <3>3. DOMAIN log = 1..Len(log) /\ DOMAIN log' = 1..Len(log')
      BY <1>a, <3>2, LenProperties
    <3> QED BY <1>a, <3>2, <3>3
  <2>3. Len(log) < MaxEntries /\ cursor' = cursor
    BY <1>2 DEF Happens
  <2>4. Len(log') <= MaxEntries /\ cursor' \in 0..Len(log')
    BY <1>a, <2>2, <2>3, Bounds
  <2> QED BY <1>2, <2>2, <2>4 DEF Happens, Shape, TypeOK, server, history
<1>3. ASSUME NEW n \in DOMAIN log, Lapses(n) PROVE TypeOK'
  BY <1>3 DEF Lapses, Shape, TypeOK, server, history
<1>4. ASSUME NEW u \in Users, NEW to \in Levels, SetLevel(u, to) PROVE TypeOK'
  BY <1>4, CountedTyped DEF SetLevel, Shape, TypeOK, server, history
<1>5. ASSUME NEW u \in Users, ClearInbox(u) PROVE TypeOK'
  BY <1>5, CountedTyped DEF ClearInbox, Shape, TypeOK, server, history
<1>6. ASSUME NEW u \in Users, TryAgain(u) PROVE TypeOK'
  BY <1>6, CountedTyped DEF TryAgain, Shape, TypeOK, server, history
<1>7. ASSUME NEW s \in Servers, Drain(s) PROVE TypeOK'
  <2>1. Unread \subseteq Ids /\ Unread \subseteq 1..Len(log)
    BY <1>a, Bounds DEF Unread, Ids
  <2>2. Stored \in Seq(Unread)
    BY StoredOnce DEF Shape, OptedIn
  <2>3. Stored \in Seq(Ids) /\ Range(Stored) \subseteq Unread
    <3>1. Stored \in Seq(Ids)
      BY <2>1, <2>2, SeqMonotonic
    <3>2. \A i \in DOMAIN Stored : Stored[i] \in Unread
      BY <2>2, ElementOfSeq, LenProperties
    <3> QED BY <3>1, <3>2 DEF Range
  <2>4. inbox' \subseteq 1..cursor'
    <3>1. inbox' = inbox \cup Range(Stored) /\ cursor' = Len(log)
      BY <1>7 DEF Drain
    <3>2. 1..cursor \subseteq 1..Len(log)
      BY <1>a
    <3> QED BY <1>a, <2>1, <2>3, <3>1, <3>2
  <2>5. batch' \in [Servers -> Seq(Ids)]
    BY <1>7, <1>b, <2>3 DEF Drain
  <2>6. cursor' \in 0..Len(log)
    BY <1>7, <1>a DEF Drain
  <2> QED BY <1>7, <2>4, <2>5, <2>6 DEF Drain, Shape, TypeOK, history
<1>8. ASSUME NEW s \in Servers, Deliver(s) PROVE TypeOK'
  <2> DEFINE n == Head(batch[s])
  <2>1. n \in Ids /\ batch' \in [Servers -> Seq(Ids)]
    BY <1>8, Delivering
  <2>2. queue' \subseteq Rows /\ owed' \subseteq Ids /\ late' \subseteq Ids
    <3>1. queue \subseteq Rows /\ owed \subseteq Ids /\ late \subseteq Ids
      BY DEF Shape, TypeOK
    <3>2. CASE UNCHANGED <<queue, owed, late>>
      BY <3>1, <3>2
    <3>3. CASE owed' = owed \cup {n} /\ \E q \in Rows : \E old \in SUBSET queue : PutIn(n, q, old)
      BY <2>1, <3>1, <3>3 DEF PutIn
    <3> QED BY <1>8, <3>2, <3>3, Queueing
  <2> QED BY <1>8, <2>1, <2>2 DEF Deliver, Shape, TypeOK
<1>9. ASSUME NEW s \in Servers, StartRound(s) PROVE TypeOK'
  <2>1. DueRows \in Seq(Rows)
    <3>1. DueRows \in Seq(Due)
      BY RoundReadsDue DEF Shape
    <3>2. Due \subseteq Rows
      BY DEF Shape, TypeOK, Due
    <3> QED BY <3>1, <3>2
  <2>2. round' = [round EXCEPT ![s] = [asOf |-> now, rows |-> DueRows]]
    BY <1>9 DEF StartRound, DueRows
  <2>3. round' \in [Servers -> [asOf : Nat, rows : Seq(Rows)]]
    BY <1>b, <1>d, <2>1, <2>2
  <2> QED BY <1>9, <2>3 DEF StartRound, Shape, TypeOK, database, history
<1>10. ASSUME NEW s \in Servers, TakeRow(s) PROVE TypeOK'
  <2> DEFINE row == Head(round[s].rows)
  <2>1. row \in Rows /\ round' \in [Servers -> [asOf : Nat, rows : Seq(Rows)]]
    BY <1>10, Taking
  <2>2. [user |-> row.user, ids |-> Live(row)] \in [user : Users, ids : SUBSET Ids]
    BY <2>1, RowTyped DEF Live
  <2> HIDE DEF row
  <2>3. queue' \subseteq queue /\ owed' \subseteq owed /\ sending' \in [Servers -> [user : Users, ids : SUBSET Ids] \cup {None}]
    <3>1. sending \in [Servers -> [user : Users, ids : SUBSET Ids] \cup {None}]
      BY DEF Shape, TypeOK
    <3>2. CASE Here(row) = {}
      BY <1>10, <3>1, <3>2 DEF TakeRow, row
    <3>3. CASE Here(row) # {}
      BY <1>10, <2>2, <3>1, <3>3 DEF TakeRow, row
    <3> QED BY <3>2, <3>3
  <2> QED BY <1>10, <2>1, <2>3 DEF TakeRow, Shape, TypeOK
<1>11. ASSUME NEW s \in Servers, Sent(s) PROVE TypeOK'
  <2>1. dms' \in [Ids -> Nat]
    BY <1>11, ToldTyped DEF Sent, Shape
  <2> QED BY <1>11, <2>1 DEF Sent, Shape, TypeOK, database
<1>12. ASSUME NEW s \in Servers, NEW refused \in BOOLEAN, NotSent(s, refused) PROVE TypeOK'
  <2>1. sending[s] \in [user : Users, ids : SUBSET Ids]
    BY <1>12 DEF NotSent, Shape, TypeOK
  <2>2. unreachable' \subseteq Users
    BY <1>12, <2>1 DEF NotSent, Shape, TypeOK
  <2> QED BY <1>12, <2>2, CountedTyped DEF NotSent, Shape, TypeOK
<1>13. ASSUME NEW s \in Servers, Restart(s) PROVE TypeOK'
  <2>1. dms' \in [Ids -> Nat]
    <3>1. dms \in [Ids -> Nat]
      BY DEF Shape, TypeOK
    <3>2. dms' = dms \/ \E ids : dms' = Told(ids)
      BY <1>13 DEF Restart
    <3> QED BY <3>1, <3>2, ToldTyped DEF Shape
  <2>2. round' \in [Servers -> [asOf : Nat, rows : Seq(Rows)]] /\ batch' \in [Servers -> Seq(Ids)]
    <3>1. Idle \in [asOf : Nat, rows : Seq(Rows)] /\ <<>> \in Seq(Ids)
      BY DEF Idle
    <3>2. round' = [round EXCEPT ![s] = Idle] /\ batch' = [batch EXCEPT ![s] = <<>>]
      BY <1>13 DEF Restart
    <3> QED BY <1>b, <3>1, <3>2
  <2>3. tabs' \in [Servers -> [Users -> {"in view", "hidden", "none"}]]
    BY <1>13 DEF Restart, Shape, TypeOK
  <2>4. owed' \subseteq Ids /\ sending' \in [Servers -> [user : Users, ids : SUBSET Ids] \cup {None}]
    BY <1>13 DEF Restart, Shape, TypeOK
  <2>5. changes' \in 0..MaxChanges
    BY <1>13, CountedTyped DEF Restart, Shape
  <2> QED BY <1>13, <2>1, <2>2, <2>3, <2>4, <2>5 DEF Restart, Shape, TypeOK, database
<1>14. ASSUME NEW s \in Servers, NEW u \in Users, NEW to \in {"in view", "hidden", "none"}, Presence(s, u, to) PROVE TypeOK'
  <2>1. tabs' \in [Servers -> [Users -> {"in view", "hidden", "none"}]]
    BY <1>14 DEF Presence, Shape, TypeOK
  <2>2. queue' \subseteq queue /\ owed' \subseteq owed
    BY <1>14 DEF Presence
  <2>3. changes' \in 0..MaxChanges
    BY <1>14, CountedTyped DEF Presence, Shape
  <2> QED BY <1>14, <2>1, <2>2, <2>3 DEF Presence, Shape, TypeOK
<1>15. CASE UNCHANGED vars
  BY <1>15 DEF vars, database, server, history, Shape, TypeOK
<1> QED
  BY <1>1, <1>2, <1>3, <1>4, <1>5, <1>6, <1>7, <1>8, <1>9, <1>10, <1>11, <1>12, <1>13, <1>14, <1>15 DEF Next

-----------------------------------------------------------------------------
(* Each step keeps Inv. *)

LEMMA Emptied ==
    ASSUME TypeOK, NEW s \in Servers
    PROVE  /\ batch' = [batch EXCEPT ![s] = <<>>] => batch'[s] = <<>> /\ \A t \in Servers : t # s => batch'[t] = batch[t]
           /\ sending' = [sending EXCEPT ![s] = None] => Going(s)' = {} /\ \A t \in Servers : t # s => Going(t)' = Going(t)
           /\ round' = [round EXCEPT ![s] = Idle] =>
                /\ Known(s)' = {} /\ round'[s] = Idle
                /\ \A t \in Servers : t # s => Known(t)' = Known(t) /\ round'[t] = round[t]
<1>1. batch \in [Servers -> Seq(Ids)] /\ DOMAIN sending = Servers /\ DOMAIN round = Servers
  BY DEF TypeOK
<1>2. Idle.rows = <<>> /\ Range(<<>>) = {}
  BY DEF Idle, Range
<1>3. ASSUME sending' = [sending EXCEPT ![s] = None] PROVE Going(s)' = {} /\ \A t \in Servers : t # s => Going(t)' = Going(t)
  BY <1>1, <1>3 DEF Going
<1>4. ASSUME round' = [round EXCEPT ![s] = Idle]
      PROVE  /\ Known(s)' = {} /\ round'[s] = Idle
             /\ \A t \in Servers : t # s => Known(t)' = Known(t) /\ round'[t] = round[t]
  BY <1>1, <1>2, <1>4 DEF Known
<1> QED BY <1>1, <1>3, <1>4

\* What is told, known or waits in fewer places than before leaves everything else as it was.
LEMMA Fewer ==
    ASSUME Inv, queue' \subseteq queue, late' = late, cursor' = cursor, dms' = dms,
           \A s \in Servers : Going(s)' \subseteq Going(s) /\ Known(s)' \subseteq Known(s) /\ batch'[s] \in {batch[s], <<>>}
    PROVE  BatchesApart' /\ WindowsApart' /\ NoTrace' /\ Untold' /\ RoundsKnow' /\ OneDm'
<1>1. ASSUME NEW s \in Servers, NEW i \in DOMAIN batch'[s] PROVE i \in DOMAIN batch[s] /\ batch'[s][i] = batch[s][i]
  OBVIOUS
<1>2. BatchesApart'
  <2>1. ASSUME NEW s \in Servers, NEW i \in DOMAIN batch'[s] PROVE batch'[s][i] \in 1..cursor'
    BY <1>1 DEF Inv, Shape, BatchesApart
  <2>2. ASSUME NEW s \in Servers, NEW t \in Servers, NEW i \in DOMAIN batch'[s], NEW j \in DOMAIN batch'[t], batch'[s][i] = batch'[t][j]
        PROVE  s = t /\ i = j
    <3>1. i \in DOMAIN batch[s] /\ j \in DOMAIN batch[t] /\ batch[s][i] = batch[t][j]
      BY <1>1, <2>2
    <3> QED BY <3>1 DEF Inv, Shape, BatchesApart
  <2> QED BY <2>1, <2>2 DEF BatchesApart
<1>3. ASSUME NEW n \in Ids, ToCome(n)' PROVE ToCome(n)
  BY <1>1, <1>3 DEF ToCome
<1>4. WindowsApart'
  <2>1. IsFiniteSet(queue')
    BY FS_Subset DEF Inv, Shape, WindowsApart
  <2> QED BY <2>1 DEF Inv, Shape, WindowsApart
<1>5. NoTrace'
  BY <1>3 DEF Inv, NoTrace
<1>6. Untold'
  BY DEF Inv, Untold
<1>7. RoundsKnow'
  BY DEF Inv, RoundsKnow
<1>8. OneDm'
  BY DEF Inv, OneDm
<1> QED BY <1>2, <1>4, <1>5, <1>6, <1>7, <1>8

Kept == BatchesApart /\ NoTrace /\ WindowsApart /\ RoundsGoOn /\ Untold /\ RoundsKnow /\ OneDm /\ NothingMissed

LEMMA DrainKeeps ==
    ASSUME Inv, NEW s \in Servers, Drain(s)
    PROVE  Kept'
<1>1. /\ batch \in [Servers -> Seq(Ids)] /\ batch[s] = <<>>
      /\ batch' = [batch EXCEPT ![s] = Stored] /\ cursor' = Len(log)
      /\ UNCHANGED <<queue, round, sending, dms, owed, late>>
  BY DEF Drain, Free, Inv, Shape, TypeOK, history
<1>2. batch'[s] = Stored /\ \A t \in Servers : t # s => batch'[t] = batch[t]
  BY <1>1
<1>3. cursor \in Nat /\ Len(log) \in Nat /\ cursor <= Len(log)
  <2>1. log \in Seq(Entries) /\ cursor \in 0..Len(log)
    BY DEF Inv, Shape, TypeOK
  <2> QED BY <2>1, LenProperties
<1>4. \A i \in DOMAIN Stored : Stored[i] \in (cursor + 1)..Len(log)
  <2>1. Stored \in Seq(OptedIn(Unread)) /\ OptedIn(Unread) \subseteq Unread
    BY StoredOnce DEF Inv, Shape, OptedIn
  <2>2. \A i \in DOMAIN Stored : Stored[i] \in OptedIn(Unread)
    BY <2>1, ElementOfSeq, LenProperties
  <2> QED BY <2>1, <2>2 DEF Unread
<1>5. \A t \in Servers : \A i \in DOMAIN batch[t] : batch[t][i] \in 1..cursor
  BY DEF Inv, Shape, BatchesApart
<1>6. BatchesApart'
  <2>1. ASSUME NEW t \in Servers, NEW i \in DOMAIN batch'[t] PROVE batch'[t][i] \in 1..cursor'
    <3>1. CASE t = s
      <4>1. (cursor + 1)..Len(log) \subseteq 1..Len(log)
        BY <1>3
      <4> QED BY <1>1, <1>2, <1>4, <2>1, <3>1, <4>1
    <3>2. CASE t # s
      <4>1. batch[t][i] \in 1..cursor
        BY <1>2, <1>5, <2>1, <3>2
      <4> QED BY <1>1, <1>2, <1>3, <3>2, <4>1
    <3> QED BY <3>1, <3>2
  <2>2. ASSUME NEW t \in Servers, NEW w \in Servers, NEW i \in DOMAIN batch'[t], NEW j \in DOMAIN batch'[w], batch'[t][i] = batch'[w][j]
        PROVE  t = w /\ i = j
    <3>0. \A k : k \in (cursor + 1)..Len(log) => k \notin 1..cursor
      BY <1>3
    <3>1. CASE t = s /\ w = s
      BY <1>2, <2>2, <3>1, StoredOnce DEF Inv, Shape
    <3>2. CASE t # s /\ w = s
      <4>1. batch'[t][i] \in 1..cursor /\ batch'[w][j] \in (cursor + 1)..Len(log)
        BY <1>2, <1>4, <1>5, <3>2
      <4> QED BY <2>2, <3>0, <4>1
    <3>3. CASE t = s /\ w # s
      <4>1. batch'[w][j] \in 1..cursor /\ batch'[t][i] \in (cursor + 1)..Len(log)
        BY <1>2, <1>4, <1>5, <3>3
      <4> QED BY <2>2, <3>0, <4>1
    <3>4. CASE t # s /\ w # s
      <4>1. i \in DOMAIN batch[t] /\ j \in DOMAIN batch[w] /\ batch[t][i] = batch[w][j]
        BY <1>2, <2>2, <3>4
      <4> QED BY <4>1 DEF Inv, Shape, BatchesApart
    <3> QED BY <3>1, <3>2, <3>3, <3>4
  <2> QED BY <2>1, <2>2 DEF BatchesApart
<1>7. ASSUME NEW n \in Ids, ToCome(n)' PROVE ToCome(n)
  <2>1. n \in Int
    BY IdsTyped
  <2>2. CASE n > cursor'
    <3>1. n > cursor
      BY <1>1, <1>3, <2>1, <2>2
    <3> QED BY <3>1 DEF ToCome
  <2>3. CASE \E t \in Servers : \E i \in DOMAIN batch'[t] : batch'[t][i] = n
    <3>1. PICK t \in Servers : \E i \in DOMAIN batch'[t] : batch'[t][i] = n
      BY <2>3
    <3>2. CASE t = s
      <4>1. n \in (cursor + 1)..Len(log)
        BY <1>2, <1>4, <3>1, <3>2
      <4>2. n > cursor
        BY <1>3, <4>1
      <4> QED BY <4>2 DEF ToCome
    <3>3. CASE t # s
      BY <1>2, <3>1, <3>3 DEF ToCome
    <3> QED BY <3>2, <3>3
  <2> QED BY <1>7, <2>2, <2>3 DEF ToCome
<1>8. \A t \in Servers : Going(t)' = Going(t) /\ Known(t)' = Known(t)
  BY <1>1 DEF Going, Known
<1>9. NoTrace'
  BY <1>1, <1>7, <1>8 DEF Inv, NoTrace
<1>10. WindowsApart' /\ RoundsGoOn' /\ OneDm'
  BY <1>1 DEF Inv, Shape, WindowsApart, RoundsGoOn, OneDm
<1>11. Untold' /\ RoundsKnow'
  BY <1>1, <1>8 DEF Inv, Untold, RoundsKnow
<1>12. NothingMissed'
  BY <1>1 DEF Inv, NothingMissed, Waits
<1> QED BY <1>6, <1>9, <1>10, <1>11, <1>12 DEF Kept

LEMMA DeliverKeeps ==
    ASSUME Inv, NEW s \in Servers, Deliver(s)
    PROVE  Kept'
<1> DEFINE n == Head(batch[s])
<1>1. /\ n \in Ids /\ ToCome(n) /\ BatchesApart'
      /\ \A m \in Ids : ToCome(m)' => ToCome(m) /\ m # n
  BY Delivering DEF Inv
<1>2. UNCHANGED <<cursor, round, sending, dms>>
  BY DEF Deliver
<1>3. /\ dms[n] = 0 /\ \A r \in queue : n \notin r.ids
      /\ \A t \in Servers : n \notin Going(t) /\ \A k \in Known(t) : k.id # n
  BY <1>1 DEF Inv, NoTrace
<1>4. \A t \in Servers : Going(t)' = Going(t) /\ Known(t)' = Known(t)
  BY <1>2 DEF Going, Known
<1>5. RoundsGoOn' /\ OneDm'
  BY <1>2 DEF Inv, Shape, RoundsGoOn, OneDm
<1>6. CASE UNCHANGED <<queue, owed, late>>
  <2>1. WindowsApart' /\ Untold' /\ RoundsKnow'
    BY <1>2, <1>4, <1>6 DEF Inv, Shape, WindowsApart, Untold, RoundsKnow
  <2>2. NoTrace'
    BY <1>1, <1>2, <1>4, <1>6 DEF Inv, NoTrace
  <2>3. NothingMissed'
    BY <1>2, <1>6 DEF Inv, NothingMissed, Waits
  <2> QED BY <1>1, <1>5, <2>1, <2>2, <2>3 DEF Kept
<1>7. ASSUME owed' = owed \cup {n}, NEW q \in Rows, NEW old \in SUBSET queue, PutIn(n, q, old) PROVE Kept'
  <2>1. /\ queue' = (queue \ old) \cup {q} /\ q.id \in q.ids /\ n \in q.ids
        /\ \A m : m \in q.ids <=> m = n \/ \E r \in old : m \in r.ids
        /\ \A r \in old : r.id = q.id
        /\ late \subseteq late' /\ late' \subseteq late \cup {n}
    BY <1>7 DEF PutIn
  <2>2. WindowsApart'
    <3>1. IsFiniteSet(queue')
      <4>1. IsFiniteSet(queue \ old)
        BY FS_Subset DEF Inv, Shape, WindowsApart
      <4> QED BY <2>1, <4>1, FS_AddElement
    <3>2. \A r \in queue' : r.id \in r.ids
      BY <2>1 DEF Inv, Shape, WindowsApart
    <3>3. ASSUME NEW r \in queue \ old, NEW m, m \in r.ids, m \in q.ids PROVE FALSE
      <4>1. m # n
        BY <1>3, <3>3
      <4>2. PICK o \in old : m \in o.ids
        BY <2>1, <3>3, <4>1
      <4>3. o = r
        BY <3>3, <4>2 DEF Inv, Shape, WindowsApart
      <4> QED BY <4>2, <4>3
    <3>4. ASSUME NEW r \in queue', NEW o \in queue', r.ids \cap o.ids # {} PROVE r = o
      <4>1. CASE r \in queue \ old /\ o \in queue \ old
        BY <3>4, <4>1 DEF Inv, Shape, WindowsApart
      <4>2. CASE r = q \/ o = q
        BY <2>1, <3>3, <3>4, <4>2
      <4> QED BY <2>1, <4>1, <4>2
    <3> QED BY <3>1, <3>2, <3>4 DEF WindowsApart
  <2>3. Untold'
    <3>1. ASSUME NEW r \in queue', NEW m \in r.ids PROVE dms[m] = 0 /\ \A t \in Servers : m \notin Going(t)
      <4>1. CASE r \in queue
        BY <4>1 DEF Inv, Untold
      <4>2. CASE r = q
        BY <1>3, <2>1, <4>2 DEF Inv, Untold
      <4> QED BY <2>1, <4>1, <4>2
    <3> QED BY <1>2, <1>4, <3>1 DEF Inv, Untold
  <2>4. NoTrace'
    <3>1. ASSUME NEW m \in Ids, ToCome(m)', NEW r \in queue' PROVE m \notin r.ids
      <4>1. ToCome(m) /\ m # n
        BY <1>1, <3>1
      <4>2. \A o \in queue : m \notin o.ids
        BY <4>1 DEF Inv, NoTrace
      <4> QED BY <2>1, <4>1, <4>2
    <3> QED BY <1>1, <1>2, <1>4, <3>1 DEF Inv, NoTrace
  <2>5. RoundsKnow'
    <3>1. ASSUME NEW t \in Servers, NEW k \in Known(t), NEW r \in queue', k.id = r.id
          PROVE  k.ids \subseteq r.ids /\ r.ids \ k.ids \subseteq late'
      <4>1. CASE r \in queue
        BY <2>1, <3>1, <4>1 DEF Inv, RoundsKnow
      <4>2. CASE r = q
        <5>1. old # {}
          BY <1>3, <1>7, <3>1, <4>2 DEF PutIn
        <5>2. PICK o \in old : TRUE
          BY <5>1
        <5>3. \A p \in old : p = o
          <6> SUFFICES ASSUME NEW p \in old PROVE p = o
            OBVIOUS
          <6>1. p.id \in p.ids /\ o.id \in o.ids /\ p.id = o.id
            BY <2>1 DEF Inv, Shape, WindowsApart
          <6> QED BY <6>1 DEF Inv, Shape, WindowsApart
        <5>4. k.ids \subseteq o.ids /\ o.ids \ k.ids \subseteq late
          BY <2>1, <3>1, <4>2 DEF Inv, RoundsKnow
        <5>5. n \in late'
          BY <1>7, <3>1, <4>2, <5>1 DEF PutIn
        <5> QED BY <2>1, <4>2, <5>3, <5>4, <5>5
      <4> QED BY <2>1, <4>1, <4>2
    <3> QED BY <1>4, <3>1 DEF RoundsKnow
  <2>6. NothingMissed'
    <3>1. ASSUME NEW m \in owed' \ late' PROVE Waits(m)'
      <4>1. CASE m = n
        BY <2>1, <4>1 DEF Waits
      <4>2. CASE m # n
        <5>1. Waits(m)
          BY <1>7, <2>1, <4>2 DEF Inv, NothingMissed
        <5>2. CASE \E r \in queue : m \in r.ids
          BY <2>1, <5>2 DEF Waits
        <5>3. CASE \E t \in Servers : sending[t] # None /\ m \in sending[t].ids
          BY <1>2, <5>3 DEF Waits
        <5> QED BY <5>1, <5>2, <5>3 DEF Waits
      <4> QED BY <4>1, <4>2
    <3> QED BY <3>1 DEF NothingMissed
  <2> QED BY <1>1, <1>5, <2>2, <2>3, <2>4, <2>5, <2>6 DEF Kept
<1>8. \/ UNCHANGED <<queue, owed, late>>
      \/ owed' = owed \cup {n} /\ \E q \in Rows : \E old \in SUBSET queue : PutIn(n, q, old)
  BY Queueing DEF Inv
<1> QED BY <1>6, <1>7, <1>8

LEMMA StartRoundKeeps ==
    ASSUME Inv, NEW s \in Servers, StartRound(s)
    PROVE  Kept'
<1>1. UNCHANGED <<batch, cursor, queue, sending, dms, owed, late>>
  BY DEF StartRound, database, history
<1>2. DueRows \in Seq(Due) /\ DueRows # <<>>
  BY RoundReadsDue DEF StartRound, Inv, Shape
<1>3. round'[s].rows = DueRows /\ \A t \in Servers : t # s => round'[t] = round[t]
  <2>1. round' = [round EXCEPT ![s] = [asOf |-> now, rows |-> DueRows]] /\ DOMAIN round = Servers
    BY DEF StartRound, DueRows, Inv, Shape, TypeOK
  <2> QED BY <2>1
<1>4. Known(s)' \subseteq queue /\ \A t \in Servers : t # s => Known(t)' = Known(t)
  <2>1. \A i \in DOMAIN DueRows : DueRows[i] \in Due
    BY <1>2, ElementOfSeq, LenProperties
  <2>2. Range(DueRows) \subseteq queue
    BY <2>1 DEF Range, Due
  <2> QED BY <1>3, <2>2 DEF Known
<1>5. \A t \in Servers : Going(t)' = Going(t)
  BY <1>1 DEF Going
<1>6. \A n \in Ids : ToCome(n)' = ToCome(n)
  BY <1>1 DEF ToCome
<1>7. NoTrace'
  <2>1. ASSUME NEW n \in Ids, ToCome(n), NEW k \in queue PROVE k.id # n
    BY <2>1 DEF Inv, NoTrace, Shape, WindowsApart
  <2> QED BY <1>1, <1>4, <1>5, <1>6, <2>1 DEF Inv, NoTrace
<1>8. RoundsKnow'
  <2>1. ASSUME NEW k \in queue, NEW r \in queue, k.id = r.id PROVE k = r
    BY <2>1 DEF Inv, Shape, WindowsApart
  <2>2. ASSUME NEW t \in Servers, NEW k \in Known(t)', NEW r \in queue, k.id = r.id PROVE k.ids \subseteq r.ids /\ r.ids \ k.ids \subseteq late
    <3>1. CASE t = s
      BY <1>4, <2>1, <2>2, <3>1
    <3>2. CASE t # s
      BY <1>4, <2>2, <3>2 DEF Inv, RoundsKnow
    <3> QED BY <3>1, <3>2
  <2> QED BY <1>1, <2>2 DEF RoundsKnow
<1>9. RoundsGoOn'
  BY <1>2, <1>3 DEF Inv, Shape, RoundsGoOn
<1>10. BatchesApart' /\ WindowsApart' /\ OneDm'
  BY <1>1 DEF Inv, Shape, BatchesApart, WindowsApart, OneDm
<1>11. Untold'
  BY <1>1, <1>5 DEF Inv, Untold
<1>12. NothingMissed'
  BY <1>1 DEF Inv, NothingMissed, Waits
<1> QED BY <1>7, <1>8, <1>9, <1>10, <1>11, <1>12 DEF Kept

LEMMA TakeRowKeeps ==
    ASSUME Inv, NEW s \in Servers, TakeRow(s)
    PROVE  Kept'
<1> DEFINE row == Head(round[s].rows)
<1>1. /\ row \in Rows /\ row \in Known(s) /\ RoundsGoOn'
      /\ \A t \in Servers : Known(t)' \subseteq Known(t)
      /\ \A r \in Here(row) : Here(row) = {r}
  BY Taking DEF Inv
<1>2. sending[s] = None /\ DOMAIN sending = Servers /\ UNCHANGED <<batch, cursor, dms, late>>
  BY DEF TakeRow, Inv, Shape, TypeOK
<1>3. CASE Here(row) = {}
  <2>1. UNCHANGED <<queue, sending, owed>>
    BY <1>3 DEF TakeRow
  <2>2. \A t \in Servers : Going(t)' = Going(t)
    BY <2>1 DEF Going
  <2>3. BatchesApart' /\ WindowsApart' /\ NoTrace' /\ Untold' /\ RoundsKnow' /\ OneDm'
    BY <1>1, <1>2, <2>1, <2>2, Fewer
  <2>4. NothingMissed'
    BY <1>2, <2>1 DEF Inv, NothingMissed, Waits
  <2> QED BY <1>1, <2>3, <2>4 DEF Kept
<1>4. ASSUME NEW r \in Here(row) PROVE Kept'
  <2>1. /\ r \in queue /\ row.ids \subseteq r.ids /\ r.ids \ row.ids \subseteq late
    BY <1>1, <1>4 DEF Here, Inv, RoundsKnow
  <2>2. /\ queue' = queue \ {r}
        /\ \/ sending' = [sending EXCEPT ![s] = [user |-> row.user, ids |-> Live(row)]] /\ owed' = owed \ (row.ids \ Live(row))
           \/ sending' = [sending EXCEPT ![s] = None] /\ owed' = owed \ row.ids
    <3>1. Here(row) = {r}
      BY <1>1, <1>4
    <3> QED BY <3>1 DEF TakeRow
  <2>3. Going(s)' \subseteq r.ids /\ \A t \in Servers : t # s => Going(t)' = Going(t)
    <3>1. Live(row) \subseteq row.ids
      BY DEF Live
    <3> QED BY <1>2, <2>1, <2>2, <3>1 DEF Going
  <2>4. \A n \in r.ids : n \in Ids /\ dms[n] = 0 /\ ~ToCome(n) /\ \A t \in Servers : n \notin Going(t)
    <3>1. \A n \in r.ids : n \in Ids
      BY <2>1, RowTyped DEF Inv, Shape, TypeOK
    <3> QED BY <2>1, <3>1 DEF Inv, NoTrace, Untold
  <2>5. \A q \in queue' : q \in queue /\ q.ids \cap r.ids = {}
    BY <2>1, <2>2 DEF Inv, Shape, WindowsApart
  <2>6. \A n \in Ids : ToCome(n)' = ToCome(n)
    BY <1>2 DEF ToCome
  <2>7. BatchesApart' /\ WindowsApart' /\ OneDm'
    <3>1. IsFiniteSet(queue')
      BY <2>2, FS_Subset DEF Inv, Shape, WindowsApart
    <3> QED BY <1>2, <2>5, <3>1 DEF Inv, Shape, BatchesApart, WindowsApart, OneDm
  <2>8. NoTrace'
    <3>1. ASSUME NEW n \in Ids, ToCome(n) PROVE \A t \in Servers : n \notin Going(t)'
      BY <2>3, <2>4, <3>1 DEF Inv, NoTrace
    <3> QED BY <1>1, <1>2, <2>5, <2>6, <3>1 DEF Inv, NoTrace
  <2>9. Untold'
    <3>1. ASSUME NEW q \in queue', NEW n \in q.ids PROVE dms[n] = 0 /\ \A t \in Servers : n \notin Going(t)'
      BY <2>3, <2>5 DEF Inv, Untold
    <3>2. ASSUME NEW t \in Servers, NEW n \in Going(t)' PROVE dms[n] = 0 /\ \A w \in Servers : n \in Going(w)' => t = w
      <4>1. CASE t = s
        BY <2>3, <2>4, <3>2, <4>1
      <4>2. CASE t # s
        <5>1. n \in Going(t) /\ n \notin r.ids
          BY <2>3, <2>4, <3>2, <4>2
        <5> QED BY <2>3, <5>1 DEF Inv, Untold
      <4> QED BY <4>1, <4>2
    <3> QED BY <1>2, <3>1, <3>2 DEF Untold
  <2>10. RoundsKnow'
    BY <1>1, <1>2, <2>5 DEF Inv, RoundsKnow
  <2>11. NothingMissed'
    <3>1. ASSUME NEW n \in owed' \ late' PROVE Waits(n)'
      <4>1. n \in owed \ late
        BY <1>2, <2>2, <3>1
      <4>2. Waits(n)
        BY <4>1 DEF Inv, NothingMissed
      <4>3. CASE n \in r.ids
        <5>1. n \in row.ids
          BY <2>1, <4>1, <4>3
        <5>2. sending' = [sending EXCEPT ![s] = [user |-> row.user, ids |-> Live(row)]] /\ n \in Live(row)
          BY <2>2, <3>1, <5>1
        <5>3. [user |-> row.user, ids |-> Live(row)] # None
          <6>1. [user |-> row.user, ids |-> Live(row)] \in [user : Users, ids : SUBSET (1..MaxEntries)]
            BY <1>1, RowTyped DEF Live, Ids
          <6> QED BY <6>1, NotificationsAssumption
        <5>4. sending'[s] # None /\ n \in sending'[s].ids
          BY <1>2, <5>2, <5>3
        <5> QED BY <5>4 DEF Waits
      <4>4. CASE n \notin r.ids
        <5>1. CASE \E q \in queue : n \in q.ids
          BY <2>2, <4>4, <5>1 DEF Waits
        <5>2. CASE \E t \in Servers : sending[t] # None /\ n \in sending[t].ids
          <6>1. PICK t \in Servers : sending[t] # None /\ n \in sending[t].ids
            BY <5>2
          <6>2. sending'[t] = sending[t]
            BY <1>2, <2>2, <6>1
          <6> QED BY <6>1, <6>2 DEF Waits
        <5> QED BY <4>2, <5>1, <5>2 DEF Waits
      <4> QED BY <4>3, <4>4
    <3> QED BY <3>1 DEF NothingMissed
  <2> QED BY <1>1, <2>7, <2>8, <2>9, <2>10, <2>11 DEF Kept
<1> QED BY <1>3, <1>4

\* A DM that is over, whatever became of it, has told what it told once or not at all.
LEMMA DmOver ==
    ASSUME Inv, NEW s \in Servers,
           sending' = [sending EXCEPT ![s] = None], owed' = owed \ Going(s),
           dms' = dms \/ dms' = Told(Going(s)),
           UNCHANGED <<cursor, queue, late>>,
           \A t \in Servers : Known(t)' \subseteq Known(t) /\ batch'[t] \in {batch[t], <<>>},
           RoundsGoOn'
    PROVE  Kept'
<1>1. dms \in [Ids -> Nat] /\ DOMAIN sending = Servers
  BY DEF Inv, Shape, TypeOK
<1>2. Going(s)' = {} /\ \A t \in Servers : t # s => Going(t)' = Going(t)
  BY <1>1 DEF Going
<1>3. \A n \in Ids : dms'[n] = dms[n] \/ (n \in Going(s) /\ dms'[n] = dms[n] + 1)
  BY <1>1 DEF Told
<1>4. \A n \in Ids : n \notin Going(s) => dms'[n] = dms[n]
  BY <1>1 DEF Told
<1>5. Going(s) \subseteq Ids /\ \A r \in queue : r.ids \subseteq Ids
  BY RowTyped DEF Going, Inv, Shape, TypeOK
<1>6. BatchesApart' /\ WindowsApart' /\ RoundsKnow'
  <2>1. BatchesApart'
    <3>1. ASSUME NEW t \in Servers, NEW i \in DOMAIN batch'[t] PROVE i \in DOMAIN batch[t] /\ batch'[t][i] = batch[t][i]
      OBVIOUS
    <3>2. ASSUME NEW t \in Servers, NEW i \in DOMAIN batch'[t] PROVE batch'[t][i] \in 1..cursor'
      BY <3>1 DEF Inv, Shape, BatchesApart
    <3>3. ASSUME NEW t \in Servers, NEW w \in Servers, NEW i \in DOMAIN batch'[t], NEW j \in DOMAIN batch'[w], batch'[t][i] = batch'[w][j]
          PROVE  t = w /\ i = j
      <4>1. i \in DOMAIN batch[t] /\ j \in DOMAIN batch[w] /\ batch[t][i] = batch[w][j]
        BY <3>1, <3>3
      <4> QED BY <4>1 DEF Inv, Shape, BatchesApart
    <3> QED BY <3>2, <3>3 DEF BatchesApart
  <2> QED BY <2>1 DEF Inv, Shape, WindowsApart, RoundsKnow
<1>7. ASSUME NEW n \in Ids, ToCome(n)' PROVE ToCome(n)
  BY <1>7 DEF ToCome
<1>8. NoTrace'
  <2>1. ASSUME NEW n \in Ids, ToCome(n) PROVE dms'[n] = 0
    BY <1>4, <2>1 DEF Inv, NoTrace
  <2>2. ASSUME NEW n \in Ids, ToCome(n), NEW t \in Servers PROVE n \notin Going(t)'
    BY <1>2, <2>2 DEF Inv, NoTrace
  <2> QED BY <1>7, <2>1, <2>2 DEF Inv, NoTrace
<1>9. Untold'
  <2>1. ASSUME NEW r \in queue, NEW n \in r.ids PROVE dms'[n] = 0 /\ \A t \in Servers : n \notin Going(t)'
    BY <1>2, <1>4, <1>5 DEF Inv, Untold
  <2>2. ASSUME NEW t \in Servers, NEW n \in Going(t)' PROVE dms'[n] = 0 /\ \A w \in Servers : n \in Going(w)' => t = w
    <3>1. t # s /\ n \in Going(t)
      BY <1>2, <2>2
    <3>2. n \in Ids
      BY <3>1 DEF Going, Inv, Shape, TypeOK
    <3>3. dms[n] = 0 /\ \A w \in Servers : n \in Going(w) => t = w
      BY <3>1 DEF Inv, Untold
    <3>4. n \notin Going(s)
      BY <3>1, <3>3
    <3> QED BY <1>2, <1>4, <3>2, <3>3, <3>4
  <2> QED BY <2>1, <2>2 DEF Untold
<1>10. OneDm'
  <2>1. ASSUME NEW n \in Ids PROVE dms'[n] <= 1
    <3>1. CASE n \in Going(s)
      <4>1. dms[n] = 0
        BY <3>1 DEF Inv, Untold
      <4> QED BY <1>3, <4>1
    <3>2. CASE n \notin Going(s)
      BY <1>4, <3>2 DEF Inv, OneDm
    <3> QED BY <3>1, <3>2
  <2> QED BY <2>1 DEF OneDm
<1>11. NothingMissed'
  <2>1. ASSUME NEW n \in owed' \ late' PROVE Waits(n)'
    <3>1. Waits(n) /\ n \notin Going(s)
      BY <2>1 DEF Inv, NothingMissed
    <3>2. CASE \E t \in Servers : sending[t] # None /\ n \in sending[t].ids
      <4>1. PICK t \in Servers : sending[t] # None /\ n \in sending[t].ids
        BY <3>2
      <4>2. t # s
        BY <3>1, <4>1 DEF Going
      <4>3. sending'[t] = sending[t]
        BY <1>1, <4>2
      <4> QED BY <4>1, <4>3 DEF Waits
    <3> QED BY <3>1, <3>2 DEF Waits
  <2> QED BY <2>1 DEF NothingMissed
<1> QED BY <1>6, <1>8, <1>9, <1>10, <1>11 DEF Kept

LEMMA PresenceKeeps ==
    ASSUME Inv, NEW s \in Servers, NEW u \in Users, NEW to \in {"in view", "hidden", "none"}, Presence(s, u, to)
    PROVE  Kept'
<1>1. UNCHANGED <<batch, cursor, round, sending, dms, late>>
  BY DEF Presence
<1>2. \A t \in Servers : Going(t)' = Going(t) /\ Known(t)' = Known(t)
  BY <1>1 DEF Going, Known
<1>3. \/ queue' = queue \ Dropped(u) /\ owed' = owed \ UNION {r.ids : r \in Dropped(u)}
      \/ UNCHANGED <<queue, owed>>
  BY DEF Presence
<1>4. BatchesApart' /\ WindowsApart' /\ NoTrace' /\ Untold' /\ RoundsKnow' /\ OneDm'
  <2>1. queue' \subseteq queue
    BY <1>3
  <2> QED BY <1>1, <1>2, <2>1, Fewer
<1>5. RoundsGoOn'
  BY <1>1 DEF Inv, Shape, RoundsGoOn
<1>6. NothingMissed'
  <2>1. ASSUME NEW n \in owed' \ late' PROVE Waits(n)'
    <3>1. Waits(n)
      BY <1>1, <1>3, <2>1 DEF Inv, NothingMissed
    <3>2. ASSUME NEW r \in queue, n \in r.ids PROVE r \in queue'
      BY <1>3, <2>1, <3>2
    <3> QED BY <1>1, <3>1, <3>2 DEF Waits
  <2> QED BY <2>1 DEF NothingMissed
<1> QED BY <1>4, <1>5, <1>6 DEF Kept

LEMMA Inductive == Inv /\ [Next]_vars => Inv'
<1> SUFFICES ASSUME Inv, [Next]_vars PROVE Inv'
  OBVIOUS
<1>1. TypeOK'
  BY TypingStep DEF Inv
<1>2. ASSUME UNCHANGED places PROVE Kept'
  <2>1. \A s \in Servers : Going(s)' = Going(s) /\ Known(s)' = Known(s)
    BY <1>2 DEF places, Going, Known
  <2>2. BatchesApart' /\ WindowsApart' /\ NoTrace' /\ Untold' /\ RoundsKnow' /\ OneDm'
    BY <1>2, <2>1, Fewer DEF places
  <2>3. RoundsGoOn' /\ NothingMissed'
    BY <1>2 DEF places, Inv, Shape, RoundsGoOn, NothingMissed, Waits
  <2> QED BY <2>2, <2>3 DEF Kept
<1>3. ASSUME NEW s \in Servers, Sent(s) PROVE Kept'
  <2>1. /\ dms' = Told(Going(s)) /\ owed' = owed \ Going(s) /\ sending' = [sending EXCEPT ![s] = None]
        /\ UNCHANGED <<cursor, queue, late, batch, round>>
    BY <1>3 DEF Sent, Going, database
  <2>2. \A t \in Servers : Known(t)' = Known(t)
    BY <2>1 DEF Known
  <2>3. RoundsGoOn'
    BY <2>1 DEF Inv, Shape, RoundsGoOn
  <2> QED BY <2>1, <2>2, <2>3, DmOver
<1>4. ASSUME NEW s \in Servers, NEW refused \in BOOLEAN, NotSent(s, refused) PROVE Kept'
  <2>1. /\ owed' = owed \ Going(s) /\ sending' = [sending EXCEPT ![s] = None]
        /\ UNCHANGED <<cursor, queue, late, batch, round, dms>>
    BY <1>4 DEF NotSent, Going
  <2>2. \A t \in Servers : Known(t)' = Known(t)
    BY <2>1 DEF Known
  <2>3. RoundsGoOn'
    BY <2>1 DEF Inv, Shape, RoundsGoOn
  <2> QED BY <2>1, <2>2, <2>3, DmOver
<1>5. ASSUME NEW s \in Servers, Restart(s) PROVE Kept'
  <2>1. /\ dms' = dms \/ dms' = Told(Going(s))
        /\ owed' = owed \ Going(s)
    BY <1>5 DEF Restart, Going
  <2>2. /\ sending' = [sending EXCEPT ![s] = None] /\ batch' = [batch EXCEPT ![s] = <<>>] /\ round' = [round EXCEPT ![s] = Idle]
        /\ UNCHANGED <<cursor, queue, late>>
    BY <1>5 DEF Restart, database
  <2>3. /\ \A t \in Servers : Known(t)' \subseteq Known(t) /\ batch'[t] \in {batch[t], <<>>}
        /\ \A t \in Servers : round'[t] = Idle \/ round'[t] = round[t]
    BY <2>2, Emptied DEF Inv, Shape
  <2>4. RoundsGoOn'
    BY <2>3 DEF Inv, Shape, RoundsGoOn
  <2> QED BY <2>1, <2>2, <2>3, <2>4, DmOver
<1>6. Kept'
  <2>1. ASSUME NEW s \in Servers, Drain(s) PROVE Kept'
    BY <2>1, DrainKeeps
  <2>2. ASSUME NEW s \in Servers, Deliver(s) PROVE Kept'
    BY <2>2, DeliverKeeps
  <2>3. ASSUME NEW s \in Servers, StartRound(s) PROVE Kept'
    BY <2>3, StartRoundKeeps
  <2>4. ASSUME NEW s \in Servers, TakeRow(s) PROVE Kept'
    BY <2>4, TakeRowKeeps
  <2>5. ASSUME NEW s \in Servers, NEW u \in Users, NEW to \in {"in view", "hidden", "none"}, Presence(s, u, to) PROVE Kept'
    BY <2>5, PresenceKeeps
  <2> QED BY <1>2, <1>3, <1>4, <1>5, <2>1, <2>2, <2>3, <2>4, <2>5, PlaceChanges
<1> QED BY <1>1, <1>6 DEF Inv, Shape, Kept

LEMMA Initially == Init => Inv
<1> SUFFICES ASSUME Init PROVE Inv
  OBVIOUS
<1>1. Idle.rows = <<>> /\ Idle \in [asOf : Nat, rows : Seq(Rows)] /\ Range(<<>>) = {} /\ <<>> \in Seq(Ids)
  BY DEF Idle, Range
<1>2. round = [s \in Servers |-> Idle] /\ batch = [s \in Servers |-> <<>>] /\ sending = [s \in Servers |-> None] /\ queue = {}
  BY DEF Init
<1>3. TypeOK
  <2>1. log = <<>> /\ <<>> \in Seq(Entries) /\ Len(<<>>) = 0
    BY DEF Init
  <2>2. round \in [Servers -> [asOf : Nat, rows : Seq(Rows)]] /\ batch \in [Servers -> Seq(Ids)]
    BY <1>1, <1>2
  <2>3. now \in 0..MaxTime /\ changes \in 0..MaxChanges /\ Len(log) <= MaxEntries /\ cursor \in 0..Len(log)
    BY <2>1, Bounds DEF Init
  <2>4. level \in [Users -> Levels] /\ tabs \in [Servers -> [Users -> {"in view", "hidden", "none"}]] /\ dms \in [Ids -> Nat]
    BY DEF Init, Levels
  <2>5. sending \in [Servers -> [user : Users, ids : SUBSET Ids] \cup {None}]
    BY <1>2
  <2>6. lapsed = {} /\ inbox = {} /\ unreachable = {} /\ owed = {} /\ late = {}
    BY DEF Init
  <2> QED BY <1>2, <2>1, <2>2, <2>3, <2>4, <2>5, <2>6 DEF TypeOK
<1>4. \A s \in Servers : Going(s) = {} /\ Known(s) = {} /\ batch[s] = <<>>
  BY <1>1, <1>2 DEF Going, Known
<1>5. BatchesApart /\ WindowsApart /\ RoundsGoOn
  <2>1. IsFiniteSet(queue)
    BY <1>2, FS_EmptySet
  <2> QED BY <1>2, <1>4, <2>1 DEF BatchesApart, WindowsApart, RoundsGoOn
<1>6. dms = [n \in Ids |-> 0] /\ owed = {}
  BY DEF Init
<1>7. NoTrace /\ Untold /\ RoundsKnow
  BY <1>2, <1>4, <1>6 DEF NoTrace, Untold, RoundsKnow
<1>8. OneDm /\ NothingMissed
  BY <1>6 DEF OneDm, NothingMissed
<1> QED BY <1>3, <1>5, <1>7, <1>8 DEF Inv, Shape

LEMMA Always == Spec => []Inv
BY Initially, Inductive, PTL DEF Spec

\* No Notification is told twice, however many servers run rounds side by side and whatever stops between taking a window
\* off the queue and Discord's answer (queueDm, runDmRound).
THEOREM ToldOnce == Spec => []OneDm
<1>1. Inv => OneDm
  BY DEF Inv
<1> QED BY <1>1, Always, PTL

\* What is owed a DM is in a window that waits or in a DM under way, until it is told or dropped for a reason, except what
\* joins a window after a round has read it as due.
THEOREM OwedAreKept == Spec => []NothingMissed
<1>1. Inv => NothingMissed
  BY DEF Inv
<1> QED BY <1>1, Always, PTL

\* Every value keeps its type: what a window is for and when it is due can always be read off the log.
THEOREM NotificationsTyped == Spec => []TypeOK
<1>1. Inv => TypeOK
  BY DEF Inv, Shape
<1> QED BY <1>1, Always, PTL
=============================================================================
