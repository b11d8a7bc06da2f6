-------------------------- MODULE TimerQueueProofs --------------------------
(***************************************************************************)
(* What add_Timer, remove_Timer, set_Timer and update_timerqueue do to the *)
(* deadlines of the timers of a queue, for queues of any length. DueAt is  *)
(* a sum over the queue: what it computes is proved by induction over the  *)
(* numbers, which the first lemmas get from finite sets; other modules     *)
(* take them from here.                                                    *)
(***************************************************************************)
EXTENDS TimerQueue, FiniteSets, FiniteSetTheorems, SequenceTheorems, TLAPS

\* A set with 0 that is closed under successor has every number: if k were not in it,
\* its numbers below k would be as many as those of them that are not 0.
LEMMA SetInduction ==
  ASSUME NEW S, 0 \in S, \A n \in Nat : n \in S => n + 1 \in S
  PROVE  \A n \in Nat : n \in S
<1> SUFFICES ASSUME NEW k \in Nat, k \notin S PROVE FALSE
  OBVIOUS
<1> DEFINE U == {m \in 0 .. k : m \in S}
           V == U \ {0}
           up == [m \in U |-> m + 1]
<1>1. U \in SUBSET (0 .. k) /\ 0 \in U /\ \A m \in U : m + 1 \in V
  OBVIOUS
<1>2. up \in [U -> V] /\ \A m, n \in U : up[m] = up[n] => m = n
  BY <1>1
<1>3. IsFiniteSet(0 .. k)
  BY FS_Interval
<1>4. V = U \ {0}
  OBVIOUS
<1> HIDE DEF U, V, up
<1>5. IsFiniteSet(U)
  BY <1>1, <1>3, FS_Subset
<1>6. Cardinality(U) \in Nat
  BY <1>5, FS_CardinalityType
<1>7. IsFiniteSet(V) /\ Cardinality(V) = Cardinality(U) - 1
  BY <1>5, <1>1, <1>4, FS_RemoveElement
<1>8. up \in Injection(U, V)
  BY <1>2 DEF Injection, IsInjective
<1>9. Cardinality(U) <= Cardinality(V)
  BY <1>7, <1>8, FS_Injection
<1> QED
  BY <1>6, <1>7, <1>9

\* A set of numbers has a least one.
LEMMA LeastNat ==
  ASSUME NEW T, T \subseteq Nat, T # {}
  PROVE  \E n \in T : \A m \in T : n <= m
<1> SUFFICES ASSUME \A n \in T : \E m \in T : m < n PROVE FALSE
  OBVIOUS
<1> DEFINE S == {n \in Nat : \A m \in T : n < m}
<1>1. 0 \in S
  OBVIOUS
<1>2. ASSUME NEW n \in Nat, n \in S PROVE n + 1 \in S
  <2>1. n + 1 \notin T
    BY <1>2
  <2> QED
    BY <1>2, <2>1
<1> HIDE DEF S
<1>3. \A n \in Nat : n \in S
  BY <1>1, <1>2, SetInduction
<1>4. PICK k \in T : k \in Nat
  OBVIOUS
<1>5. k < k
  BY <1>3, <1>4 DEF S
<1> QED
  BY <1>4, <1>5

\* A set of numbers up to n has a greatest one, which is the one that is chosen.
LEMMA GreatestNat ==
  ASSUME NEW n \in Nat, NEW T, T \subseteq 1 .. n, T # {}
  PROVE  (CHOOSE i \in T : \A j \in T : j <= i) \in T
<1> DEFINE D == {d \in 0 .. n : n - d \in T}
<1>1. PICK t \in T : TRUE
  OBVIOUS
<1>2. n - t \in D
  BY <1>1
<1>3. D \subseteq Nat /\ \A d \in D : n - d \in T /\ d \in Nat
  OBVIOUS
<1>4. D # {}
  BY <1>2
<1>5. \A j \in T : n - j \in D /\ j \in Nat
  OBVIOUS
<1> HIDE DEF D
<1>6. PICK d \in D : \A e \in D : d <= e
  BY <1>3, <1>4, LeastNat
<1>7. n - d \in T /\ d \in Nat
  BY <1>6, <1>3
<1>8. ASSUME NEW j \in T PROVE j <= n - d
  <2>1. n - j \in D /\ j \in Nat
    BY <1>8, <1>5
  <2>2. d <= n - j
    BY <1>6, <2>1
  <2> QED
    BY <2>1, <2>2, <1>7
<1> QED
  BY <1>7, <1>8

\* A set that has << >> and is closed under Append has every sequence.
LEMMA SeqInduction ==
  ASSUME NEW T, NEW S, << >> \in S, \A s \in Seq(T), m \in T : s \in S => Append(s, m) \in S
  PROVE  \A s \in Seq(T) : s \in S
<1> DEFINE N == {n \in Nat : \A s \in Seq(T) : Len(s) = n => s \in S}
<1>1. 0 \in N
  OBVIOUS
<1>2. ASSUME NEW n \in Nat, n \in N PROVE n + 1 \in N
  <2> SUFFICES ASSUME NEW s \in Seq(T), Len(s) = n + 1 PROVE s \in S
    OBVIOUS
  <2>1. PICK p \in Seq(T), m \in T : s = Append(p, m)
    BY SequenceEmptyOrAppend
  <2>2. p \in S
    BY <1>2, <2>1
  <2> QED
    BY <2>1, <2>2
<1> HIDE DEF N
<1>3. \A n \in Nat : n \in N
  BY <1>1, <1>2, SetInduction
<1> QED
  BY <1>3 DEF N

\* What the recursion of DueAt computes, for the first n timers of q.
Summed(f, q, n) == f = [j \in 0 .. n |-> IF j = 0 THEN 0 ELSE f[j - 1] + q[j].wait]

\* The recursion has a value,
LEMMA SumExists ==
  ASSUME NEW q PROVE \A n \in Nat : \E f : Summed(f, q, n)
<1> DEFINE S == {n \in Nat : \E f : Summed(f, q, n)}
<1>1. 0 \in S
  <2> DEFINE f == [j \in 0 .. 0 |-> 0]
  <2>1. Summed(f, q, 0)
    BY DEF Summed
  <2> QED
    BY <2>1
<1>2. ASSUME NEW n \in Nat, n \in S PROVE n + 1 \in S
  <2>1. PICK f : Summed(f, q, n)
    BY <1>2
  <2> DEFINE m == n + 1
             g == [j \in 0 .. m |-> IF j = m THEN f[n] + q[m].wait ELSE f[j]]
             h == [j \in 0 .. m |-> IF j = 0 THEN 0 ELSE g[j - 1] + q[j].wait]
  <2>2. \A j \in 0 .. n : f[j] = IF j = 0 THEN 0 ELSE f[j - 1] + q[j].wait
    BY <2>1 DEF Summed
  <2>3. \A j \in 0 .. n : g[j] = f[j]
    OBVIOUS
  <2>4. ASSUME NEW j \in 0 .. m PROVE g[j] = h[j]
    <3>1. CASE j = 0
      BY <3>1, <2>2, <2>3
    <3>2. CASE j = m
      BY <3>2, <2>3
    <3>3. CASE j # 0 /\ j # m
      BY <3>3, <2>2, <2>3
    <3> QED
      BY <3>1, <3>2, <3>3
  <2>5. g = h
    BY <2>4
  <2>6. Summed(g, q, m)
    BY <2>5 DEF Summed
  <2> QED
    BY <2>6
<1> HIDE DEF S
<1>3. \A n \in Nat : n \in S
  BY <1>1, <1>2, SetInduction
<1> QED
  BY <1>3 DEF S

\* which DueAt takes,
LEMMA DueSummed ==
  ASSUME NEW q, NEW n \in Nat
  PROVE  \E f : Summed(f, q, n) /\ DueAt(q, n) = f[n]
<1> DEFINE f == CHOOSE f : Summed(f, q, n)
<1>1. Summed(f, q, n)
  BY SumExists
<1>2. DueAt(q, n) = f[n]
  BY DEF DueAt, Summed
<1> QED
  BY <1>1, <1>2

\* and which does not depend on what comes after.
LEMMA SumAgrees ==
  ASSUME NEW p, NEW q, NEW f, NEW g, NEW m \in Nat, NEW n \in Nat, NEW k \in Nat,
         Summed(f, p, m), Summed(g, q, n), k <= m, k <= n,
         \A i \in 1 .. k : p[i].wait = q[i].wait
  PROVE  f[k] = g[k]
<1> DEFINE S == {i \in Nat : i <= k => f[i] = g[i]}
<1>1. 0 \in S
  BY DEF Summed
<1>2. ASSUME NEW i \in Nat, i \in S PROVE i + 1 \in S
  <2> SUFFICES ASSUME i + 1 <= k PROVE f[i + 1] = g[i + 1]
    OBVIOUS
  <2> DEFINE j == i + 1
  <2>1. f[i] = g[i] /\ p[j].wait = q[j].wait
    BY <1>2
  <2>2. j \in 0 .. m /\ j \in 0 .. n /\ j # 0 /\ j - 1 = i
    OBVIOUS
  <2> HIDE DEF j
  <2>3. f[j] = f[i] + p[j].wait /\ g[j] = g[i] + q[j].wait
    BY <2>2 DEF Summed
  <2> QED
    BY <2>1, <2>3 DEF j
<1> HIDE DEF S
<1>3. \A i \in Nat : i \in S
  BY <1>1, <1>2, SetInduction
<1> QED
  BY <1>3 DEF S

\* The first timers have the same deadlines in queues that begin alike.
LEMMA DueAgrees ==
  ASSUME NEW p, NEW q, NEW k \in Nat, \A i \in 1 .. k : p[i].wait = q[i].wait
  PROVE  DueAt(p, k) = DueAt(q, k)
<1>1. PICK f : Summed(f, p, k) /\ DueAt(p, k) = f[k]
  BY DueSummed
<1>2. PICK g : Summed(g, q, k) /\ DueAt(q, k) = g[k]
  BY DueSummed
<1>3. f[k] = g[k]
  BY <1>1, <1>2, SumAgrees
<1> QED
  BY <1>1, <1>2, <1>3

\* A timer is due its own time after the one before it.
LEMMA DueNext ==
  ASSUME NEW q
  PROVE  /\ DueAt(q, 0) = 0
         /\ \A i \in Nat : i # 0 => DueAt(q, i) = DueAt(q, i - 1) + q[i].wait
<1>1. DueAt(q, 0) = 0
  <2>1. PICK f : Summed(f, q, 0) /\ DueAt(q, 0) = f[0]
    BY DueSummed
  <2> QED
    BY <2>1 DEF Summed
<1>2. ASSUME NEW i \in Nat, i # 0 PROVE DueAt(q, i) = DueAt(q, i - 1) + q[i].wait
  <2> DEFINE j == i - 1
  <2>1. j \in Nat /\ j \in 0 .. i /\ j <= i /\ i \in 0 .. i
    BY <1>2
  <2> HIDE DEF j
  <2>2. PICK f : Summed(f, q, i) /\ DueAt(q, i) = f[i]
    BY DueSummed
  <2>3. PICK g : Summed(g, q, j) /\ DueAt(q, j) = g[j]
    BY <2>1, DueSummed
  <2>4. f[j] = g[j]
    BY <2>1, <2>2, <2>3, SumAgrees
  <2>5. f[i] = f[i - 1] + q[i].wait
    BY <1>2, <2>1, <2>2 DEF Summed
  <2> QED
    BY <2>2, <2>3, <2>4, <2>5 DEF j
<1> QED
  BY <1>1, <1>2

-----------------------------------------------------------------------------
\* The queues of timers of T, each on it once at most.
Queue(T) == {q \in Seq([timer : T, wait : Int]) :
               \A i, j \in DOMAIN q : q[i].timer = q[j].timer => i = j}

\* The rows of a queue.
LEMMA QueueType ==
  ASSUME NEW T, NEW q \in Queue(T)
  PROVE  /\ Len(q) \in Nat /\ DOMAIN q = 1 .. Len(q)
         /\ \A i \in 1 .. Len(q) : q[i].timer \in T /\ q[i].wait \in Int /\ q[i] = Entry(q[i].timer, q[i].wait)
         /\ \A i, j \in 1 .. Len(q) : q[i].timer = q[j].timer => i = j
         /\ Timers(q) = {q[i].timer : i \in 1 .. Len(q)}
<1> DEFINE E == [timer : T, wait : Int]
<1>1. q \in Seq(E)
  BY DEF Queue
<1> HIDE DEF E
<1>2. Len(q) \in Nat /\ DOMAIN q = 1 .. Len(q) /\ \A i \in 1 .. Len(q) : q[i] \in E
  BY <1>1
<1>3. \A e \in E : e.timer \in T /\ e.wait \in Int /\ e = Entry(e.timer, e.wait)
  BY DEF E, Entry
<1> QED
  BY <1>2, <1>3 DEF Queue, Timers

\* The deadlines are numbers.
LEMMA DueInt ==
  ASSUME NEW T, NEW q \in Queue(T)
  PROVE  \A i \in 0 .. Len(q) : DueAt(q, i) \in Int
<1> DEFINE S == {i \in Nat : i <= Len(q) => DueAt(q, i) \in Int}
<1>1. 0 \in S
  BY DueNext
<1>2. ASSUME NEW i \in Nat, i \in S PROVE i + 1 \in S
  <2> SUFFICES ASSUME i + 1 <= Len(q) PROVE DueAt(q, i + 1) \in Int
    OBVIOUS
  <2> DEFINE j == i + 1
  <2>1. j \in Nat /\ j # 0 /\ j - 1 = i /\ j \in 1 .. Len(q) /\ DueAt(q, i) \in Int
    BY <1>2, QueueType
  <2> HIDE DEF j
  <2>2. DueAt(q, j) = DueAt(q, i) + q[j].wait /\ q[j].wait \in Int
    BY <2>1, DueNext, QueueType
  <2> QED
    BY <2>1, <2>2 DEF j
<1> HIDE DEF S
<1>3. \A i \in Nat : i \in S
  BY <1>1, <1>2, SetInduction
<1> QED
  BY <1>3, QueueType DEF S

\* The position of a timer.
LEMMA AtTimer ==
  ASSUME NEW T, NEW q \in Queue(T), NEW t \in Timers(q)
  PROVE  /\ At(q, t) \in 1 .. Len(q) /\ q[At(q, t)].timer = t
         /\ \A i \in 1 .. Len(q) : q[i].timer = t => At(q, t) = i
  BY QueueType DEF At

\* From one timer to a later one the deadlines grow, when no time is negative after the first.
LEMMA DueGrows ==
  ASSUME NEW T, NEW q \in Queue(T), NEW i \in 0 .. Len(q),
         \A l \in i + 1 .. Len(q) : q[l].wait >= 0
  PROVE  \A j \in i .. Len(q) : DueAt(q, i) <= DueAt(q, j)
<1> DEFINE S == {n \in Nat : i + n <= Len(q) => DueAt(q, i) <= DueAt(q, i + n)}
<1>1. 0 \in S
  BY DueInt
<1>2. ASSUME NEW n \in Nat, n \in S PROVE n + 1 \in S
  <2> SUFFICES ASSUME i + (n + 1) <= Len(q) PROVE DueAt(q, i) <= DueAt(q, i + (n + 1))
    OBVIOUS
  <2> DEFINE j == i + (n + 1)
  <2>1. Len(q) \in Nat
    BY QueueType
  <2>2. j \in Nat /\ j # 0 /\ j - 1 = i + n /\ j \in 1 .. Len(q) /\ j \in i + 1 .. Len(q)
        /\ DueAt(q, i) <= DueAt(q, i + n) /\ i + n \in 0 .. Len(q) /\ j \in 0 .. Len(q)
    BY <1>2, <2>1
  <2> HIDE DEF j
  <2>3. DueAt(q, j) = DueAt(q, i + n) + q[j].wait /\ q[j].wait \in Int /\ q[j].wait >= 0
    BY <2>2, DueNext, QueueType
  <2>4. DueAt(q, i) \in Int /\ DueAt(q, i + n) \in Int /\ DueAt(q, j) \in Int
    BY <2>2, DueInt
  <2> QED
    BY <2>2, <2>3, <2>4 DEF j
<1> HIDE DEF S
<1>3. \A n \in Nat : n \in S
  BY <1>1, <1>2, SetInduction
<1>4. ASSUME NEW j \in i .. Len(q) PROVE DueAt(q, i) <= DueAt(q, j)
  <2> DEFINE n == j - i
  <2>1. n \in Nat /\ i + n = j /\ i + n <= Len(q)
    BY QueueType
  <2> HIDE DEF n
  <2>2. DueAt(q, i) <= DueAt(q, i + n)
    BY <2>1, <1>3 DEF S
  <2> QED
    BY <2>1, <2>2
<1> QED
  BY <1>4

\* The rows of a sequence that was made of two and of one between them.
LEMMA ThreeParts ==
  ASSUME NEW E, NEW a \in Seq(E), NEW e \in E, NEW c \in Seq(E)
  PROVE  LET p == a \o <<e>> \o c IN
         /\ p \in Seq(E) /\ Len(p) = Len(a) + 1 + Len(c)
         /\ \A i \in 1 .. Len(a) : p[i] = a[i]
         /\ p[Len(a) + 1] = e
         /\ \A i \in 1 .. Len(c) : p[Len(a) + 1 + i] = c[i]
<1> DEFINE b == a \o <<e>>
<1>1. /\ b \in Seq(E) /\ Len(b) = Len(a) + 1 /\ b[Len(a) + 1] = e
      /\ \A i \in 1 .. Len(a) : b[i] = a[i]
  OBVIOUS
<1>2. Len(a) \in Nat /\ Len(c) \in Nat
  OBVIOUS
<1> HIDE DEF b
<1>3. b \o c \in Seq(E) /\ Len(b \o c) = Len(b) + Len(c)
  BY <1>1
<1>4. \A i \in 1 .. Len(b) : (b \o c)[i] = b[i]
  BY <1>1
<1>5. \A i \in 1 .. Len(c) : (b \o c)[Len(b) + i] = c[i]
  BY <1>1
<1> QED
  BY <1>1, <1>2, <1>3, <1>4, <1>5 DEF b


\* After its a-th timer p goes on like q after its b-th, for n timers.
Alike(p, a, q, b, n) ==
  /\ a + n <= Len(p) /\ b + n <= Len(q)
  /\ \A i \in 1 .. n : p[a + i].wait = q[b + i].wait

\* The times between two queues that go on alike.
LEMMA DueFollows ==
  ASSUME NEW T, NEW p \in Queue(T), NEW q \in Queue(T),
         NEW a \in 0 .. Len(p), NEW b \in 0 .. Len(q), NEW n \in Nat,
         Alike(p, a, q, b, n)
  PROVE  DueAt(p, a + n) - DueAt(p, a) = DueAt(q, b + n) - DueAt(q, b)
<1> DEFINE S == {i \in Nat : i <= n => DueAt(p, a + i) - DueAt(p, a) = DueAt(q, b + i) - DueAt(q, b)}
<1>1. Len(p) \in Nat /\ Len(q) \in Nat
  BY QueueType
<1> USE DEF Alike
<1>2. 0 \in S
  <2>1. DueAt(p, a) \in Int /\ DueAt(q, b) \in Int
    BY DueInt
  <2>2. a + 0 = a /\ b + 0 = b
    BY <1>1
  <2> QED
    BY <2>1, <2>2
<1>3. ASSUME NEW i \in Nat, i \in S PROVE i + 1 \in S
  <2> SUFFICES ASSUME i + 1 <= n
               PROVE  DueAt(p, a + (i + 1)) - DueAt(p, a) = DueAt(q, b + (i + 1)) - DueAt(q, b)
    OBVIOUS
  <2>1. DueAt(p, a + i) - DueAt(p, a) = DueAt(q, b + i) - DueAt(q, b)
    BY <1>3
  <2> DEFINE x == a + (i + 1)
             y == b + (i + 1)
  <2>2. /\ x \in Nat /\ x # 0 /\ x - 1 = a + i /\ x \in 1 .. Len(p) /\ a + i \in 0 .. Len(p)
        /\ y \in Nat /\ y # 0 /\ y - 1 = b + i /\ y \in 1 .. Len(q) /\ b + i \in 0 .. Len(q)
        /\ i + 1 \in 1 .. n
    BY <1>1
  <2>3. p[x].wait = q[y].wait
    BY <2>2
  <2> HIDE DEF x, y, S
  <2>4. DueAt(p, x) = DueAt(p, a + i) + p[x].wait /\ p[x].wait \in Int
    BY <2>2, DueNext, QueueType
  <2>5. DueAt(q, y) = DueAt(q, b + i) + q[y].wait /\ q[y].wait \in Int
    BY <2>2, DueNext, QueueType
  <2>6. DueAt(p, a + i) \in Int /\ DueAt(q, b + i) \in Int /\ DueAt(p, a) \in Int
          /\ DueAt(q, b) \in Int
    BY <2>2, DueInt
  <2>7. DueAt(p, x) - DueAt(p, a) = (DueAt(p, a + i) - DueAt(p, a)) + p[x].wait
    BY <2>4, <2>6
  <2>8. DueAt(q, y) - DueAt(q, b) = (DueAt(q, b + i) - DueAt(q, b)) + q[y].wait
    BY <2>5, <2>6
  <2>9. DueAt(p, x) - DueAt(p, a) = DueAt(q, y) - DueAt(q, b)
    BY <2>1, <2>3, <2>7, <2>8
  <2> QED
    BY <2>9 DEF x, y
<1> HIDE DEF S
<1>4. \A i \in Nat : i \in S
  BY <1>2, <1>3, SetInduction
<1> QED
  BY <1>4 DEF S

\* A queue is what its rows are.
LEMMA QueueOf ==
  ASSUME NEW T, NEW n \in Nat, NEW p, p \in Seq([timer : T, wait : Int]), Len(p) = n,
         \A i, j \in 1 .. n : p[i].timer = p[j].timer => i = j
  PROVE  p \in Queue(T)
<1>1. DOMAIN p = 1 .. n
  OBVIOUS
<1> QED
  BY <1>1 DEF Queue

\* What Shift leaves, row by row.
LEMMA ShiftIs ==
  ASSUME NEW T, NEW q \in Queue(T), NEW d \in Int
  PROVE  /\ Shift(q, d) \in Queue(T) /\ Len(Shift(q, d)) = Len(q)
         /\ \A i \in 1 .. Len(q) :
              /\ Shift(q, d)[i].timer = q[i].timer
              /\ Shift(q, d)[i].wait = q[i].wait + (IF i = 1 THEN d ELSE 0)
<1> DEFINE p == Shift(q, d)
           E == [timer : T, wait : Int]
<1>1. Len(q) \in Nat /\ DOMAIN q = 1 .. Len(q)
  BY QueueType
<1>2. p = [i \in 1 .. Len(q) |-> Entry(q[i].timer, q[i].wait + (IF i = 1 THEN d ELSE 0))]
  BY <1>1 DEF Shift
<1> HIDE DEF p
<1>3. ASSUME NEW i \in 1 .. Len(q)
      PROVE  /\ p[i] \in E /\ p[i].timer = q[i].timer
             /\ p[i].wait = q[i].wait + (IF i = 1 THEN d ELSE 0)
  <2>1. q[i].timer \in T /\ q[i].wait \in Int
    BY QueueType
  <2>2. q[i].wait + (IF i = 1 THEN d ELSE 0) \in Int
    BY <2>1
  <2>3. p[i] = Entry(q[i].timer, q[i].wait + (IF i = 1 THEN d ELSE 0))
    BY <1>2
  <2> QED
    BY <2>1, <2>2, <2>3 DEF Entry
<1> HIDE DEF E
<1>4. p \in Seq(E) /\ Len(p) = Len(q)
  BY <1>1, <1>2, <1>3
<1>5. \A i, j \in 1 .. Len(q) : p[i].timer = p[j].timer => i = j
  BY <1>3, QueueType
<1>6. p \in Queue(T)
  BY <1>1, <1>4, <1>5, QueueOf DEF E
<1> QED
  BY <1>3, <1>4, <1>6 DEF p

\* A part of a queue.
LEMMA PartOf ==
  ASSUME NEW T, NEW q \in Queue(T), NEW a \in 1 .. Len(q) + 1, NEW b \in 0 .. Len(q), a <= b + 1
  PROVE  /\ SubSeq(q, a, b) \in Queue(T) /\ Len(SubSeq(q, a, b)) = b - a + 1
         /\ \A i \in 1 .. b - a + 1 : SubSeq(q, a, b)[i] = q[a + i - 1]
<1> DEFINE p == SubSeq(q, a, b)
           E == [timer : T, wait : Int]
<1>1. Len(q) \in Nat /\ q \in Seq(E)
  BY QueueType DEF Queue
<1> HIDE DEF E
<1>2. \A i \in 1 .. Len(q) : q[i] \in E
  BY <1>1
<1>3. p \in Seq(E) /\ Len(p) = b - a + 1 /\ \A i \in 1 .. b - a + 1 : p[i] = q[a + i - 1]
  BY <1>1, <1>2
<1> HIDE DEF p
<1>4. ASSUME NEW i \in 1 .. b - a + 1, NEW j \in 1 .. b - a + 1, p[i].timer = p[j].timer
      PROVE i = j
  <2>1. a + i - 1 \in 1 .. Len(q) /\ a + j - 1 \in 1 .. Len(q)
    BY <1>1
  <2>2. q[a + i - 1].timer = q[a + j - 1].timer
    BY <1>3, <1>4
  <2>3. a + i - 1 = a + j - 1
    BY <2>1, <2>2, QueueType
  <2> QED
    BY <2>3, <1>1
<1>5. b - a + 1 \in Nat
  BY <1>1
<1>6. p \in Queue(T)
  BY <1>3, <1>4, <1>5, QueueOf DEF E
<1> QED
  BY <1>3, <1>6 DEF p

\* Where Insert puts a timer: before the first that is due as late.
PutAt(q, s, k) ==
  /\ k \in 1 .. Len(q) + 1
  /\ \A i \in 1 .. k - 1 : DueAt(q, i) < s
  /\ k = Len(q) + 1 \/ DueAt(q, k) >= s

\* There is such a place,
LEMMA PutExists ==
  ASSUME NEW T, NEW q \in Queue(T), NEW s \in Int
  PROVE  \E k : PutAt(q, s, k)
<1> DEFINE K == {k \in 1 .. Len(q) + 1 : k = Len(q) + 1 \/ DueAt(q, k) >= s}
<1>1. Len(q) \in Nat /\ \A i \in 1 .. Len(q) : DueAt(q, i) \in Int
  BY QueueType, DueInt
<1>2. K \subseteq Nat /\ Len(q) + 1 \in K
  BY <1>1
<1>3. PICK k \in K : \A m \in K : k <= m
  <2> HIDE DEF K
  <2> QED
    BY <1>2, LeastNat
<1>4. ASSUME NEW i \in 1 .. k - 1 PROVE DueAt(q, i) < s
  <2>1. i \in 1 .. Len(q) /\ i \notin K
    BY <1>1, <1>3
  <2>2. ~(DueAt(q, i) >= s) /\ DueAt(q, i) \in Int
    BY <1>1, <2>1
  <2> QED
    BY <2>2
<1> QED
  BY <1>3, <1>4 DEF PutAt


\* and Place is it.
LEMMA PlaceIs ==
  ASSUME NEW T, NEW q \in Queue(T), NEW s \in Int
  PROVE  PutAt(q, s, Place(q, s))
<1>1. \E k \in 1 .. Len(q) + 1 : /\ \A i \in 1 .. k - 1 : DueAt(q, i) < s
                                 /\ k = Len(q) + 1 \/ DueAt(q, k) >= s
  BY PutExists DEF PutAt
<1> QED
  BY <1>1 DEF PutAt, Place

\* p is q with t before its k-th timer, with r of the seconds of that one.
Inserted(T, p, q, k, t, r) ==
  /\ p \in Seq([timer : T, wait : Int]) /\ Len(p) = Len(q) + 1 /\ k \in 1 .. Len(q) + 1
  /\ \A i \in 1 .. Len(q) : i < k => p[i] = q[i]
  /\ p[k].timer = t /\ p[k].wait = r
  /\ \A i \in 1 .. Len(q) : i >= k => /\ p[i + 1].timer = q[i].timer
                                     /\ p[i + 1].wait = q[i].wait - (IF i = k THEN r ELSE 0)

\* What Insert leaves, row by row.
LEMMA InsertIs ==
  ASSUME NEW T, NEW q \in Queue(T), NEW t \in T, NEW s \in Nat
  PROVE  \E k : /\ PutAt(q, s, k)
                /\ Inserted(T, Insert(q, t, s), q, k, t, s - DueAt(q, k - 1))
<1> DEFINE k == Place(q, s)
           r == s - DueAt(q, k - 1)
           E == [timer : T, wait : Int]
           a == SubSeq(q, 1, k - 1)
           rest == SubSeq(q, k, Len(q))
           c == Shift(rest, -r)
           p == a \o <<Entry(t, r)>> \o c
<1>1. Insert(q, t, s) = p
  <2>1. (IF s < 0 THEN 0 ELSE s) = s
    OBVIOUS
  <2> QED
    BY <2>1 DEF Insert
<1>2. PutAt(q, s, k)
  BY PlaceIs
<1> HIDE DEF k
<1>3. k \in 1 .. Len(q) + 1 /\ Len(q) \in Nat
  BY <1>2, QueueType DEF PutAt
<1>4. k - 1 \in 0 .. Len(q)
  BY <1>3
<1>5. r \in Int
  BY <1>4, DueInt
<1>6. Entry(t, r) \in E
  BY <1>5 DEF Entry
<1> HIDE DEF r
<1>7. a \in Queue(T) /\ Len(a) = k - 1 /\ \A i \in 1 .. k - 1 : a[i] = q[i]
  <2>1. 1 \in 1 .. Len(q) + 1 /\ 1 <= (k - 1) + 1 /\ (k - 1) - 1 + 1 = k - 1
    BY <1>3
  <2>2. /\ a \in Queue(T) /\ Len(a) = (k - 1) - 1 + 1
        /\ \A i \in 1 .. (k - 1) - 1 + 1 : a[i] = q[1 + i - 1]
    BY <1>4, <2>1, PartOf
  <2>3. \A i \in 1 .. k - 1 : 1 + i - 1 = i
    BY <1>3
  <2> QED
    BY <2>1, <2>2, <2>3
<1>8. /\ rest \in Queue(T) /\ Len(rest) = Len(q) - k + 1
      /\ \A i \in 1 .. Len(q) - k + 1 : rest[i] = q[k + i - 1]
  <2>1. Len(q) \in 0 .. Len(q) /\ k <= Len(q) + 1
    BY <1>3
  <2> QED
    BY <1>3, <2>1, PartOf
<1> HIDE DEF a, rest
<1>9. /\ c \in Queue(T) /\ Len(c) = Len(q) - k + 1
      /\ \A i \in 1 .. Len(q) - k + 1 : /\ c[i].timer = rest[i].timer
                                        /\ c[i].wait = rest[i].wait + (IF i = 1 THEN -r ELSE 0)
  BY <1>5, <1>8, ShiftIs
<1> HIDE DEF c
<1>10. a \in Seq(E) /\ c \in Seq(E)
  BY <1>7, <1>9 DEF Queue
<1> HIDE DEF E
<1>11. /\ p \in Seq(E) /\ Len(p) = Len(a) + 1 + Len(c)
       /\ \A i \in 1 .. Len(a) : p[i] = a[i]
       /\ p[Len(a) + 1] = Entry(t, r)
       /\ \A i \in 1 .. Len(c) : p[Len(a) + 1 + i] = c[i]
  BY <1>6, <1>10, ThreeParts
<1> HIDE DEF p
<1>12. Len(p) = Len(q) + 1 /\ Len(a) + 1 = k
  BY <1>3, <1>7, <1>9, <1>11
<1>13. \A i \in 1 .. k - 1 : p[i] = q[i]
  BY <1>7, <1>11
<1>14. p[k] = Entry(t, r)
  BY <1>11, <1>12
<1>15. ASSUME NEW i \in k .. Len(q)
       PROVE  /\ p[i + 1].timer = q[i].timer
              /\ p[i + 1].wait = q[i].wait - (IF i = k THEN r ELSE 0)
  <2> DEFINE j == i - k + 1
  <2>1. j \in 1 .. Len(q) - k + 1 /\ k + j = i + 1 /\ k + j - 1 = i /\ (j = 1 <=> i = k) /\ i \in 1 .. Len(q)
    BY <1>3
  <2> HIDE DEF j
  <2>2. p[i + 1] = c[j] /\ rest[j] = q[i]
    BY <2>1, <1>8, <1>9, <1>11, <1>12
  <2>3. c[j].timer = rest[j].timer /\ c[j].wait = rest[j].wait + (IF j = 1 THEN -r ELSE 0)
    BY <2>1, <1>9
  <2>4. q[i].wait \in Int
    BY <2>1, QueueType
  <2> QED
    BY <2>1, <2>2, <2>3, <2>4, <1>5
<1>16. Inserted(T, p, q, k, t, r)
  <2>1. \A i \in 1 .. Len(q) : i < k => i \in 1 .. k - 1
    BY <1>3
  <2>2. \A i \in 1 .. Len(q) : i >= k => i \in k .. Len(q)
    BY <1>3
  <2>3. p[k].timer = t /\ p[k].wait = r
    BY <1>14 DEF Entry
  <2> QED
    BY <2>1, <2>2, <2>3, <1>3, <1>11, <1>12, <1>13, <1>15 DEF Inserted, E
<1> QED
  BY <1>1, <1>2, <1>16 DEF r

\* p is q without its k-th timer, whose successor gets r more seconds.
Deleted(T, p, q, k, r) ==
  /\ p \in Seq([timer : T, wait : Int]) /\ Len(p) = Len(q) - 1 /\ k \in 1 .. Len(q)
  /\ \A i \in 1 .. Len(q) : i < k => p[i] = q[i]
  /\ \A i \in 1 .. Len(q) : i > k => /\ p[i - 1].timer = q[i].timer
                                    /\ p[i - 1].wait = q[i].wait + (IF i = k + 1 THEN r ELSE 0)

\* What Delete leaves, row by row.
LEMMA DeleteIs ==
  ASSUME NEW T, NEW q \in Queue(T), NEW t \in Timers(q)
  PROVE  Deleted(T, Delete(q, t), q, At(q, t),
                 IF q[At(q, t)].wait > 0 THEN q[At(q, t)].wait ELSE 0)
<1> DEFINE k == At(q, t)
           r == IF q[k].wait > 0 THEN q[k].wait ELSE 0
           E == [timer : T, wait : Int]
           a == SubSeq(q, 1, k - 1)
           rest == SubSeq(q, k + 1, Len(q))
           c == Shift(rest, r)
           p == a \o c
<1>1. Delete(q, t) = p
  BY DEF Delete
<1>2. k \in 1 .. Len(q) /\ q[k].timer = t
  BY AtTimer
<1> HIDE DEF k
<1>3. Len(q) \in Nat /\ k - 1 \in 0 .. Len(q) /\ q[k].wait \in Int
  BY <1>2, QueueType
<1>4. r \in Int
  BY <1>3
<1> HIDE DEF r
<1>5. a \in Queue(T) /\ Len(a) = k - 1 /\ \A i \in 1 .. k - 1 : a[i] = q[i]
  <2>1. 1 \in 1 .. Len(q) + 1 /\ 1 <= (k - 1) + 1 /\ (k - 1) - 1 + 1 = k - 1
    BY <1>2, <1>3
  <2>2. /\ a \in Queue(T) /\ Len(a) = (k - 1) - 1 + 1
        /\ \A i \in 1 .. (k - 1) - 1 + 1 : a[i] = q[1 + i - 1]
    BY <1>3, <2>1, PartOf
  <2>3. \A i \in 1 .. k - 1 : 1 + i - 1 = i
    BY <1>2, <1>3
  <2> QED
    BY <2>1, <2>2, <2>3
<1>6. /\ rest \in Queue(T) /\ Len(rest) = Len(q) - k
      /\ \A i \in 1 .. Len(q) - k : rest[i] = q[k + i]
  <2>1. Len(q) \in 0 .. Len(q) /\ k + 1 \in 1 .. Len(q) + 1 /\ k + 1 <= Len(q) + 1
          /\ Len(q) - (k + 1) + 1 = Len(q) - k
    BY <1>2, <1>3
  <2>2. rest \in Queue(T) /\ Len(rest) = Len(q) - (k + 1) + 1
        /\ \A i \in 1 .. Len(q) - (k + 1) + 1 : rest[i] = q[k + 1 + i - 1]
    BY <2>1, PartOf
  <2>3. \A i \in 1 .. Len(q) - k : k + 1 + i - 1 = k + i
    BY <1>2, <1>3
  <2> QED
    BY <2>1, <2>2, <2>3
<1> HIDE DEF a, rest
<1>7. /\ c \in Queue(T) /\ Len(c) = Len(q) - k
      /\ \A i \in 1 .. Len(q) - k : /\ c[i].timer = rest[i].timer
                                    /\ c[i].wait = rest[i].wait + (IF i = 1 THEN r ELSE 0)
  BY <1>4, <1>6, ShiftIs
<1> HIDE DEF c
<1>8. a \in Seq(E) /\ c \in Seq(E)
  BY <1>5, <1>7 DEF Queue
<1> HIDE DEF E
<1>9. /\ p \in Seq(E) /\ Len(p) = Len(a) + Len(c)
      /\ \A i \in 1 .. Len(a) : p[i] = a[i]
      /\ \A i \in 1 .. Len(c) : p[Len(a) + i] = c[i]
  BY <1>8
<1> HIDE DEF p
<1>10. Len(p) = Len(q) - 1
  BY <1>2, <1>3, <1>5, <1>7, <1>9
<1>11. \A i \in 1 .. k - 1 : p[i] = q[i]
  BY <1>5, <1>9
<1>12. ASSUME NEW i \in 1 .. Len(q), i > k
       PROVE  /\ p[i - 1].timer = q[i].timer
              /\ p[i - 1].wait = q[i].wait + (IF i = k + 1 THEN r ELSE 0)
  <2> DEFINE j == i - k
  <2>1. j \in 1 .. Len(q) - k /\ k - 1 + j = i - 1 /\ k + j = i /\ (j = 1 <=> i = k + 1)
    BY <1>2, <1>3, <1>12
  <2> HIDE DEF j
  <2>2. p[i - 1] = c[j] /\ rest[j] = q[i]
    BY <2>1, <1>5, <1>6, <1>7, <1>9
  <2>3. c[j].timer = rest[j].timer /\ c[j].wait = rest[j].wait + (IF j = 1 THEN r ELSE 0)
    BY <2>1, <1>7
  <2> QED
    BY <2>1, <2>2, <2>3
<1>13. Deleted(T, p, q, k, r)
  <2>1. \A i \in 1 .. Len(q) : i < k => i \in 1 .. k - 1
    BY <1>2, <1>3
  <2> QED
    BY <2>1, <1>2, <1>9, <1>10, <1>11, <1>12 DEF Deleted, E
<1> QED
  BY <1>1, <1>13 DEF r, k

\* The deadline of a timer is read at its position.
LEMMA DueIs ==
  ASSUME NEW T, NEW q \in Queue(T), NEW i \in 1 .. Len(q)
  PROVE  /\ q[i].timer \in Timers(q) /\ At(q, q[i].timer) = i
         /\ Due(q)[q[i].timer] = DueAt(q, i)
<1>1. q[i].timer \in Timers(q)
  BY QueueType
<1>2. At(q, q[i].timer) = i
  BY <1>1, AtTimer
<1> QED
  BY <1>1, <1>2 DEF Due

\* A queue with one more timer is a queue,
LEMMA InsertedQueue ==
  ASSUME NEW T, NEW q \in Queue(T), NEW t \in T, t \notin Timers(q), NEW r \in Int,
         NEW k, NEW p, Inserted(T, p, q, k, t, r)
  PROVE  p \in Queue(T) /\ Timers(p) = Timers(q) \cup {t}
<1> DEFINE n == Len(q)
<1>1. /\ n \in Nat /\ \A i \in 1 .. n : q[i].timer \in Timers(q)
      /\ \A i, j \in 1 .. n : q[i].timer = q[j].timer => i = j
      /\ Timers(q) = {q[i].timer : i \in 1 .. n}
  BY QueueType
<1> DEFINE P(i) == IF i < k THEN i ELSE i + 1
<1> HIDE DEF n
<1>2. /\ p \in Seq([timer : T, wait : Int]) /\ Len(p) = n + 1 /\ k \in 1 .. n + 1
      /\ p[k].timer = t
      /\ \A f \in 1 .. n : f < k => p[f].timer = q[f].timer
      /\ \A f \in 1 .. n : f >= k => p[f + 1].timer = q[f].timer
  BY DEF Inserted, n
<1>3. \A f \in 1 .. n : p[P(f)].timer = q[f].timer /\ P(f) \in 1 .. n + 1 /\ P(f) # k
  BY <1>1, <1>2
<1>4. ASSUME NEW i \in 1 .. n + 1, i # k PROVE \E f \in 1 .. n : i = P(f)
  <2>1. CASE i < k
    <3>1. i \in 1 .. n /\ P(i) = i
      BY <2>1, <1>1, <1>2
    <3> QED
      BY <3>1
  <2>2. CASE i > k
    <3> DEFINE f == i - 1
    <3>1. f \in 1 .. n /\ ~(f < k) /\ f + 1 = i
      BY <2>2, <1>1, <1>2
    <3>2. P(f) = i
      BY <3>1
    <3> QED
      BY <3>1, <3>2
  <2> QED
    BY <2>1, <2>2, <1>1, <1>2, <1>4
<1> HIDE DEF P
<1>5. ASSUME NEW i \in 1 .. n + 1, NEW j \in 1 .. n + 1, p[i].timer = p[j].timer PROVE i = j
  <2>1. \A l \in 1 .. n + 1 : l # k => p[l].timer \in Timers(q)
    <3>1. ASSUME NEW l \in 1 .. n + 1, l # k PROVE p[l].timer \in Timers(q)
      <4>1. PICK f \in 1 .. n : l = P(f)
        BY <3>1, <1>4
      <4>2. p[l].timer = q[f].timer /\ q[f].timer \in Timers(q)
        BY <4>1, <1>1, <1>3
      <4> QED
        BY <4>2
    <3> QED
      BY <3>1
  <2>2. CASE i = k
    BY <2>1, <2>2, <1>2, <1>5
  <2>3. CASE j = k
    BY <2>1, <2>3, <1>2, <1>5
  <2>4. CASE i # k /\ j # k
    <3>1. PICK f \in 1 .. n : i = P(f)
      BY <2>4, <1>4
    <3>2. PICK g \in 1 .. n : j = P(g)
      BY <2>4, <1>4
    <3>3. f = g
      BY <3>1, <3>2, <1>1, <1>3, <1>5
    <3> QED
      BY <3>1, <3>2, <3>3
  <2> QED
    BY <2>2, <2>3, <2>4
<1>6. n + 1 \in Nat
  BY <1>1
<1>7. p \in Queue(T)
  BY <1>2, <1>5, <1>6, QueueOf
<1>8. Timers(p) = {p[i].timer : i \in 1 .. n + 1}
  BY <1>2, <1>7, QueueType
<1>9. ASSUME NEW i \in 1 .. n + 1 PROVE p[i].timer \in Timers(q) \cup {t}
  <2>1. CASE i = k
    BY <2>1, <1>2
  <2>2. CASE i # k
    <3>1. PICK f \in 1 .. n : i = P(f)
      BY <2>2, <1>4
    <3>2. p[i].timer = q[f].timer /\ q[f].timer \in Timers(q)
      BY <3>1, <1>1, <1>3
    <3> QED
      BY <3>2
  <2> QED
    BY <2>1, <2>2
<1>10. ASSUME NEW u \in Timers(q) \cup {t} PROVE u \in Timers(p)
  <2>1. CASE u = t
    BY <2>1, <1>2, <1>8
  <2>2. CASE u \in Timers(q)
    <3>1. PICK f \in 1 .. n : u = q[f].timer
      BY <2>2, <1>1
    <3>2. P(f) \in 1 .. n + 1 /\ p[P(f)].timer = u
      BY <3>1, <1>3
    <3> QED
      BY <3>2, <1>8
  <2> QED
    BY <2>1, <2>2
<1> QED
  BY <1>7, <1>8, <1>9, <1>10

\* on which the others have their deadlines still.
LEMMA InsertedDue ==
  ASSUME NEW T, NEW q \in Queue(T), NEW t \in T, t \notin Timers(q), NEW r \in Int,
         NEW k, NEW p, Inserted(T, p, q, k, t, r)
  PROVE  /\ At(p, t) = k /\ Due(p)[t] = DueAt(q, k - 1) + r
         /\ \A u \in Timers(q) : /\ At(p, u) = IF At(q, u) < k THEN At(q, u) ELSE At(q, u) + 1
                                 /\ Due(p)[u] = Due(q)[u]
<1> DEFINE n == Len(q)
<1>1. p \in Queue(T) /\ n \in Nat /\ \A i \in 1 .. n : q[i].wait \in Int
  BY InsertedQueue, QueueType
<1>2. \A i \in 0 .. n : DueAt(q, i) \in Int
  BY DueInt
<1> HIDE DEF n
<1>3. /\ Len(p) = n + 1 /\ k \in 1 .. n + 1
      /\ p[k].timer = t /\ p[k].wait = r
      /\ \A f \in 1 .. n : f < k => p[f].timer = q[f].timer /\ p[f].wait = q[f].wait
      /\ \A f \in 1 .. n : f >= k => /\ p[f + 1].timer = q[f].timer
                                     /\ p[f + 1].wait = q[f].wait - (IF f = k THEN r ELSE 0)
  BY DEF Inserted, n
<1>4. k \in Nat /\ k - 1 \in Nat /\ k - 1 \in 0 .. n
  BY <1>1, <1>3
<1>5. ASSUME NEW i \in 0 .. n, i < k PROVE DueAt(p, i) = DueAt(q, i)
  <2>1. i \in Nat /\ \A f \in 1 .. i : f \in 1 .. n /\ f < k
    BY <1>1, <1>4, <1>5
  <2>2. \A f \in 1 .. i : p[f].wait = q[f].wait
    BY <2>1, <1>3
  <2> QED
    BY <2>1, <2>2, DueAgrees
<1>6. DueAt(p, k) = DueAt(q, k - 1) + r
  <2>1. DueAt(p, k) = DueAt(p, k - 1) + p[k].wait
    BY <1>3, <1>4, DueNext
  <2>2. DueAt(p, k - 1) = DueAt(q, k - 1)
    BY <1>4, <1>5
  <2> QED
    BY <2>1, <2>2, <1>3
<1>7. ASSUME k \in 1 .. n PROVE DueAt(p, k + 1) = DueAt(q, k)
  <2>1. DueAt(q, k) = DueAt(q, k - 1) + q[k].wait /\ q[k].wait \in Int
    BY <1>1, <1>4, <1>7, DueNext
  <2>2. k + 1 \in Nat /\ k + 1 # 0 /\ (k + 1) - 1 = k
    BY <1>4
  <2>3. DueAt(p, k + 1) = DueAt(p, k) + p[k + 1].wait
    BY <2>2, DueNext
  <2>4. p[k + 1].wait = q[k].wait - r
    BY <1>3, <1>4, <1>7
  <2> QED
    BY <2>1, <2>3, <2>4, <1>2, <1>4, <1>6
<1>8. ASSUME NEW i \in 1 .. n, i >= k PROVE DueAt(p, i + 1) = DueAt(q, i)
  <2>1. k \in 1 .. n /\ k + 1 \in 0 .. n + 1 /\ k \in 0 .. n
    BY <1>1, <1>4, <1>8
  <2> DEFINE m == i - k
  <2>2. m \in Nat /\ (k + 1) + m <= n + 1 /\ k + m <= n /\ (k + 1) + m = i + 1 /\ k + m = i
    BY <1>1, <1>4, <1>8
  <2>3. \A f \in 1 .. m : k + f \in 1 .. n /\ k + f >= k /\ k + f # k /\ (k + f) + 1 = (k + 1) + f
    BY <2>2, <1>1, <1>4
  <2>4. ASSUME NEW f \in 1 .. m PROVE p[(k + 1) + f].wait = q[k + f].wait
    <3>1. p[(k + f) + 1].wait = q[k + f].wait - 0
      BY <2>3, <1>3
    <3> QED
      BY <3>1, <2>3, <1>1
  <2> HIDE DEF m
  <2>5. DueAt(p, (k + 1) + m) - DueAt(p, k + 1) = DueAt(q, k + m) - DueAt(q, k)
    <3>1. k + 1 \in 0 .. Len(p) /\ k \in 0 .. Len(q) /\ (k + 1) + m <= Len(p) /\ k + m <= Len(q)
      BY <2>1, <2>2, <1>3 DEF n
    <3>2. Alike(p, k + 1, q, k, m)
      BY <2>4, <3>1 DEF Alike
    <3> QED
      BY <2>2, <3>1, <3>2, <1>1, DueFollows
  <2>6. DueAt(p, i + 1) \in Int
    BY <1>1, <1>3, DueInt
  <2> QED
    BY <2>1, <2>2, <2>5, <2>6, <1>2, <1>7
<1>9. At(p, t) = k /\ Due(p)[t] = DueAt(p, k)
  BY <1>1, <1>3, DueIs
<1>10. ASSUME NEW u \in Timers(q)
       PROVE  /\ At(p, u) = IF At(q, u) < k THEN At(q, u) ELSE At(q, u) + 1
              /\ Due(p)[u] = Due(q)[u]
  <2> DEFINE f == At(q, u)
  <2>1. f \in 1 .. n /\ q[f].timer = u /\ Due(q)[u] = DueAt(q, f)
    BY AtTimer, DueIs DEF n
  <2> HIDE DEF f
  <2>2. CASE f < k
    <3>1. f \in 1 .. n + 1 /\ f \in 0 .. n /\ p[f].timer = u
      BY <2>1, <2>2, <1>1, <1>3
    <3>2. At(p, u) = f /\ Due(p)[u] = DueAt(p, f)
      BY <3>1, <1>1, <1>3, DueIs
    <3> QED
      BY <2>1, <2>2, <3>1, <3>2, <1>5 DEF f
  <2>3. CASE ~(f < k)
    <3>1. f >= k /\ f + 1 \in 1 .. n + 1
      BY <2>1, <2>3, <1>1, <1>4
    <3>2. p[f + 1].timer = u
      BY <2>1, <3>1, <1>3
    <3>3. At(p, u) = f + 1 /\ Due(p)[u] = DueAt(p, f + 1)
      BY <3>1, <3>2, <1>1, <1>3, DueIs
    <3> QED
      BY <2>1, <2>3, <3>1, <3>3, <1>8 DEF f
  <2> QED
    BY <2>2, <2>3
<1> QED
  BY <1>6, <1>9, <1>10

\* A queue with one timer less is a queue,
LEMMA DeletedQueue ==
  ASSUME NEW T, NEW q \in Queue(T), NEW r \in Int, NEW k, NEW p, Deleted(T, p, q, k, r)
  PROVE  p \in Queue(T) /\ Timers(p) = Timers(q) \ {q[k].timer}
<1> DEFINE n == Len(q)
<1>1. /\ n \in Nat /\ \A i \in 1 .. n : q[i].timer \in Timers(q)
      /\ \A i, j \in 1 .. n : q[i].timer = q[j].timer => i = j
      /\ Timers(q) = {q[i].timer : i \in 1 .. n}
  BY QueueType
<1> DEFINE P(i) == IF i < k THEN i ELSE i + 1
<1> HIDE DEF n
<1>2. /\ p \in Seq([timer : T, wait : Int]) /\ Len(p) = n - 1 /\ k \in 1 .. n
      /\ \A f \in 1 .. n : f < k => p[f].timer = q[f].timer
      /\ \A f \in 1 .. n : f > k => p[f - 1].timer = q[f].timer
  BY DEF Deleted, n
<1>3. ASSUME NEW i \in 1 .. n - 1 PROVE P(i) \in 1 .. n /\ P(i) # k /\ p[i].timer = q[P(i)].timer
  <2>1. CASE i < k
    BY <2>1, <1>1, <1>2
  <2>2. CASE ~(i < k)
    <3>1. P(i) = i + 1 /\ i + 1 \in 1 .. n /\ i + 1 > k /\ (i + 1) - 1 = i
      BY <2>2, <1>1, <1>2
    <3> QED
      BY <3>1, <1>2
  <2> QED
    BY <2>1, <2>2
<1>4. ASSUME NEW f \in 1 .. n, f # k PROVE \E i \in 1 .. n - 1 : f = P(i)
  <2>1. CASE f < k
    <3>1. f \in 1 .. n - 1 /\ P(f) = f
      BY <2>1, <1>1, <1>2
    <3> QED
      BY <3>1
  <2>2. CASE f > k
    <3> DEFINE i == f - 1
    <3>1. i \in 1 .. n - 1 /\ ~(i < k) /\ i + 1 = f
      BY <2>2, <1>1, <1>2
    <3>2. P(i) = f
      BY <3>1
    <3> QED
      BY <3>1, <3>2
  <2> QED
    BY <2>1, <2>2, <1>1, <1>2, <1>4
<1>5. \A i, j \in 1 .. n - 1 : P(i) = P(j) => i = j
  BY <1>1, <1>2
<1> HIDE DEF P
<1>6. ASSUME NEW i \in 1 .. n - 1, NEW j \in 1 .. n - 1, p[i].timer = p[j].timer PROVE i = j
  <2>1. q[P(i)].timer = q[P(j)].timer /\ P(i) \in 1 .. n /\ P(j) \in 1 .. n
    BY <1>3, <1>6
  <2>2. P(i) = P(j)
    BY <2>1, <1>1
  <2> QED
    BY <2>2, <1>5
<1>7. n - 1 \in Nat
  BY <1>1, <1>2
<1>8. p \in Queue(T)
  BY <1>2, <1>6, <1>7, QueueOf
<1>9. Timers(p) = {p[i].timer : i \in 1 .. n - 1}
  BY <1>2, <1>8, QueueType
<1>10. ASSUME NEW i \in 1 .. n - 1 PROVE p[i].timer \in Timers(q) \ {q[k].timer}
  <2>1. P(i) \in 1 .. n /\ P(i) # k /\ p[i].timer = q[P(i)].timer
    BY <1>3
  <2> QED
    BY <2>1, <1>1, <1>2
<1>11. ASSUME NEW u \in Timers(q) \ {q[k].timer} PROVE u \in Timers(p)
  <2>1. PICK f \in 1 .. n : u = q[f].timer
    BY <1>1
  <2>2. f # k
    BY <2>1
  <2>3. PICK i \in 1 .. n - 1 : f = P(i)
    BY <2>2, <1>4
  <2>4. p[i].timer = u
    BY <2>1, <2>3, <1>3
  <2> QED
    BY <2>4, <1>9
<1> QED
  BY <1>8, <1>9, <1>10, <1>11

\* on which the others have their deadlines, but for the time that was lost or won.
LEMMA DeletedDue ==
  ASSUME NEW T, NEW q \in Queue(T), NEW r \in Int, NEW k, NEW p, Deleted(T, p, q, k, r)
  PROVE  \A u \in Timers(q) \ {q[k].timer} :
           /\ At(q, u) # k
           /\ At(p, u) = IF At(q, u) < k THEN At(q, u) ELSE At(q, u) - 1
           /\ Due(p)[u] = Due(q)[u] + (IF At(q, u) < k THEN 0 ELSE r - q[k].wait)
<1> DEFINE n == Len(q)
<1>1. p \in Queue(T) /\ n \in Nat /\ \A i \in 1 .. n : q[i].wait \in Int
  BY DeletedQueue, QueueType
<1>2. \A i \in 0 .. n : DueAt(q, i) \in Int
  BY DueInt
<1> HIDE DEF n
<1>3. /\ Len(p) = n - 1 /\ k \in 1 .. n
      /\ \A f \in 1 .. n : f < k => p[f].timer = q[f].timer /\ p[f].wait = q[f].wait
      /\ \A f \in 1 .. n : f > k => /\ p[f - 1].timer = q[f].timer
                                    /\ p[f - 1].wait = q[f].wait + (IF f = k + 1 THEN r ELSE 0)
  BY DEF Deleted, n
<1>4. k \in Nat /\ k # 0 /\ k - 1 \in Nat /\ k - 1 \in 0 .. n /\ k \in 0 .. n
        /\ k - 1 \in 0 .. n - 1
  BY <1>1, <1>3
<1>5. ASSUME NEW i \in 0 .. n, i < k PROVE DueAt(p, i) = DueAt(q, i)
  <2>1. i \in Nat /\ \A f \in 1 .. i : f \in 1 .. n /\ f < k
    BY <1>1, <1>4, <1>5
  <2>2. \A f \in 1 .. i : p[f].wait = q[f].wait
    BY <2>1, <1>3
  <2> QED
    BY <2>1, <2>2, DueAgrees
<1>6. DueAt(q, k) = DueAt(p, k - 1) + q[k].wait /\ q[k].wait \in Int /\ DueAt(p, k - 1) \in Int
  <2>1. DueAt(q, k) = DueAt(q, k - 1) + q[k].wait
    BY <1>4, DueNext
  <2>2. DueAt(p, k - 1) = DueAt(q, k - 1)
    BY <1>4, <1>5
  <2> QED
    BY <2>1, <2>2, <1>1, <1>2, <1>3, <1>4
<1>7. ASSUME k + 1 \in 1 .. n PROVE DueAt(p, k) = DueAt(q, k + 1) + (r - q[k].wait)
  <2>1. k + 1 \in Nat /\ k + 1 # 0 /\ (k + 1) - 1 = k
    BY <1>4
  <2>2. DueAt(q, k + 1) = DueAt(q, k) + q[k + 1].wait /\ q[k + 1].wait \in Int
    BY <2>1, <1>1, <1>7, DueNext
  <2>3. DueAt(p, k) = DueAt(p, k - 1) + p[k].wait
    BY <1>4, DueNext
  <2>4. p[k].wait = q[k + 1].wait + r
    <3>1. p[(k + 1) - 1].wait = q[k + 1].wait + r
      BY <1>3, <1>4, <1>7
    <3> QED
      BY <3>1, <2>1
  <2> QED
    BY <2>2, <2>3, <2>4, <1>6
<1>8. ASSUME NEW i \in 1 .. n, i > k PROVE DueAt(p, i - 1) = DueAt(q, i) + (r - q[k].wait)
  <2>1. k + 1 \in 1 .. n /\ k + 1 \in 0 .. n /\ k \in 0 .. n - 1 /\ i - 1 \in 0 .. n - 1
          /\ i \in 0 .. n
    BY <1>1, <1>4, <1>8
  <2> DEFINE m == i - (k + 1)
  <2>2. m \in Nat /\ k + m <= n - 1 /\ (k + 1) + m <= n /\ (k + 1) + m = i /\ k + m = i - 1
    BY <1>1, <1>4, <1>8
  <2>3. \A f \in 1 .. m : (k + 1) + f \in 1 .. n /\ (k + 1) + f > k /\ (k + 1) + f # k + 1
                           /\ ((k + 1) + f) - 1 = k + f
    BY <2>2, <1>1, <1>4
  <2>4. ASSUME NEW f \in 1 .. m PROVE p[k + f].wait = q[(k + 1) + f].wait
    <3>1. p[((k + 1) + f) - 1].wait = q[(k + 1) + f].wait + 0
      BY <2>3, <1>3
    <3> QED
      BY <3>1, <2>3, <1>1
  <2> HIDE DEF m
  <2>5. DueAt(p, k + m) - DueAt(p, k) = DueAt(q, (k + 1) + m) - DueAt(q, k + 1)
    <3>1. k + 1 \in 0 .. Len(q) /\ k \in 0 .. Len(p) /\ (k + 1) + m <= Len(q) /\ k + m <= Len(p)
      BY <2>1, <2>2, <1>3 DEF n
    <3>2. Alike(p, k, q, k + 1, m)
      BY <2>4, <3>1 DEF Alike
    <3> DEFINE b == k + 1
    <3>3. b \in 0 .. Len(q) /\ Alike(p, k, q, b, m) /\ m \in Nat
      BY <2>2, <3>1, <3>2
    <3> HIDE DEF b
    <3>4. DueAt(p, k + m) - DueAt(p, k) = DueAt(q, b + m) - DueAt(q, b)
      BY <3>1, <3>3, <1>1, DueFollows
    <3> QED
      BY <3>4 DEF b
  <2>6. DueAt(p, i - 1) \in Int
    BY <2>1, <1>1, <1>3, DueInt
  <2>7. DueAt(q, k + 1) \in Int /\ DueAt(q, i) \in Int
    BY <2>1, <1>2
  <2>8. DueAt(p, k) = DueAt(q, k + 1) + (r - q[k].wait)
    BY <2>1, <1>7
  <2>9. DueAt(p, i - 1) - DueAt(p, k) = DueAt(q, i) - DueAt(q, k + 1)
    BY <2>2, <2>5
  <2> QED
    BY <2>6, <2>7, <2>8, <2>9, <1>6
<1>9. ASSUME NEW u \in Timers(q), u # q[k].timer
      PROVE  /\ At(q, u) # k
             /\ At(p, u) = IF At(q, u) < k THEN At(q, u) ELSE At(q, u) - 1
             /\ Due(p)[u] = Due(q)[u] + (IF At(q, u) < k THEN 0 ELSE r - q[k].wait)
  <2> DEFINE f == At(q, u)
  <2>1. f \in 1 .. n /\ q[f].timer = u /\ Due(q)[u] = DueAt(q, f) /\ f # k
    BY <1>9, AtTimer, DueIs DEF n
  <2> HIDE DEF f
  <2>2. CASE f < k
    <3>1. f \in 1 .. n - 1 /\ f \in 0 .. n /\ p[f].timer = u
      BY <2>1, <2>2, <1>1, <1>3
    <3>2. At(p, u) = f /\ Due(p)[u] = DueAt(p, f)
      BY <3>1, <1>1, <1>3, DueIs
    <3>3. Due(q)[u] \in Int
      BY <2>1, <3>1, <1>2
    <3> QED
      BY <2>1, <2>2, <3>1, <3>2, <3>3, <1>5 DEF f
  <2>3. CASE ~(f < k)
    <3>1. f > k /\ f - 1 \in 1 .. n - 1
      BY <2>1, <2>3, <1>1, <1>4
    <3>2. p[f - 1].timer = u
      BY <2>1, <3>1, <1>3
    <3>3. At(p, u) = f - 1 /\ Due(p)[u] = DueAt(p, f - 1)
      BY <3>1, <3>2, <1>1, <1>3, DueIs
    <3> QED
      BY <2>1, <2>3, <3>1, <3>3, <1>8 DEF f
  <2> QED
    BY <2>2, <2>3
<1> QED
  BY <1>9

\* The first timer is not due yet, if there is one,
Waiting(q) == Len(q) > 0 => q[1].wait > 0
\* or it is t, the one that fires.
Early(q, t) == Waiting(q) \/ (Len(q) > 0 /\ q[1].timer = t)
\* Only the time of t may be negative.
SortedBut(q, t) == \A i \in DOMAIN q : q[i].timer # t => q[i].wait >= 0

\* Insert sets the deadline of one timer and leaves those of all others.
LEMMA InsertDue ==
  ASSUME NEW T, NEW q \in Queue(T), NEW t \in T, t \notin Timers(q), NEW s \in Nat
  PROVE  /\ Insert(q, t, s) \in Queue(T) /\ Timers(Insert(q, t, s)) = Timers(q) \cup {t}
         /\ Due(Insert(q, t, s))[t] = s
         /\ \A u \in Timers(q) : Due(Insert(q, t, s))[u] = Due(q)[u]
<1>1. PICK k : PutAt(q, s, k) /\ Inserted(T, Insert(q, t, s), q, k, t, s - DueAt(q, k - 1))
  BY InsertIs
<1>2. k \in 1 .. Len(q) + 1 /\ Len(q) \in Nat
  BY <1>1, QueueType DEF PutAt
<1>3. k - 1 \in 0 .. Len(q)
  BY <1>2
<1>4. DueAt(q, k - 1) \in Int
  BY <1>3, DueInt
<1> DEFINE r == s - DueAt(q, k - 1)
           p == Insert(q, t, s)
<1>5. r \in Int /\ DueAt(q, k - 1) + r = s /\ Inserted(T, p, q, k, t, r)
  BY <1>1, <1>4
<1> HIDE DEF r, p
<1>6. p \in Queue(T) /\ Timers(p) = Timers(q) \cup {t}
  BY <1>5, InsertedQueue
<1>7. Due(p)[t] = s /\ \A u \in Timers(q) : Due(p)[u] = Due(q)[u]
  BY <1>5, InsertedDue
<1> QED
  BY <1>6, <1>7 DEF p

\* A sorted queue stays one.
LEMMA InsertSorted ==
  ASSUME NEW T, NEW q \in Queue(T), NEW t \in T, NEW s \in Nat, Sorted(q)
  PROVE  /\ Sorted(Insert(q, t, s)) /\ Len(Insert(q, t, s)) > 0
         /\ \/ Len(q) > 0 /\ Insert(q, t, s)[1] = q[1]
            \/ Insert(q, t, s)[1].timer = t /\ Insert(q, t, s)[1].wait = s
<1> DEFINE p == Insert(q, t, s)
           n == Len(q)
<1>1. PICK k : PutAt(q, s, k) /\ Inserted(T, p, q, k, t, s - DueAt(q, k - 1))
  BY InsertIs
<1> DEFINE r == s - DueAt(q, k - 1)
<1> HIDE DEF p
<1>2. k \in 1 .. n + 1 /\ n \in Nat /\ \A i \in 1 .. n : q[i].wait \in Int /\ q[i].wait >= 0
  BY <1>1, QueueType DEF PutAt, Sorted
<1>3. k - 1 \in 0 .. n /\ k \in Nat /\ k # 0
  BY <1>2
<1>4. DueAt(q, k - 1) \in Int
  BY <1>3, DueInt
<1>5. k > 1 => k - 1 \in 1 .. k - 1 /\ DueAt(q, k - 1) < s
  BY <1>1, <1>2 DEF PutAt
<1>6. r \in Int /\ r >= 0 /\ (k = 1 => r = s)
  <2>1. CASE k = 1
    BY <2>1, <1>4, DueNext
  <2>2. CASE k > 1
    BY <2>2, <1>4, <1>5
  <2> QED
    BY <2>1, <2>2, <1>2
<1>7. k \in 1 .. n => q[k].wait - r >= 0
  <2> SUFFICES ASSUME k \in 1 .. n PROVE q[k].wait - r >= 0
    OBVIOUS
  <2>1. DueAt(q, k) >= s
    BY <1>1, <1>2 DEF PutAt
  <2>2. DueAt(q, k) = DueAt(q, k - 1) + q[k].wait
    BY <1>3, DueNext
  <2> QED
    BY <2>1, <2>2, <1>2, <1>4
<1> HIDE DEF r, n
<1>8. /\ Len(p) = n + 1
      /\ \A i \in 1 .. n : i < k => p[i] = q[i]
      /\ p[k].timer = t /\ p[k].wait = r
      /\ \A i \in 1 .. n : i >= k => p[i + 1].wait = q[i].wait - (IF i = k THEN r ELSE 0)
      /\ p \in Seq([timer : T, wait : Int])
  BY <1>1 DEF Inserted, n, r
<1>9. DOMAIN p = 1 .. n + 1
  BY <1>8
<1>10. ASSUME NEW i \in 1 .. n + 1 PROVE p[i].wait >= 0
  <2>1. CASE i < k
    <3>1. i \in 1 .. n
      BY <2>1, <1>2
    <3> QED
      BY <2>1, <3>1, <1>2, <1>8
  <2>2. CASE i = k
    BY <2>2, <1>6, <1>8
  <2>3. CASE i > k
    <3> DEFINE f == i - 1
    <3>1. f \in 1 .. n /\ f >= k /\ f + 1 = i
      BY <2>3, <1>2
    <3> HIDE DEF f
    <3>2. p[i].wait = q[f].wait - (IF f = k THEN r ELSE 0)
      BY <3>1, <1>8
    <3>3. CASE f = k
      BY <3>1, <3>2, <3>3, <1>7
    <3>4. CASE f # k
      BY <3>1, <3>2, <3>4, <1>2
    <3> QED
      BY <3>3, <3>4
  <2> QED
    BY <2>1, <2>2, <2>3, <1>2
<1>11. Sorted(p)
  BY <1>9, <1>10 DEF Sorted
<1>12. Len(p) > 0
  BY <1>2, <1>8
<1>13. \/ n > 0 /\ p[1] = q[1]
       \/ p[1].timer = t /\ p[1].wait = s
  <2>1. CASE k = 1
    BY <2>1, <1>6, <1>8
  <2>2. CASE k > 1
    <3>1. n > 0 /\ 1 \in 1 .. n /\ 1 < k
      BY <2>2, <1>2
    <3> QED
      BY <3>1, <1>8
  <2> QED
    BY <2>1, <2>2, <1>2
<1> QED
  BY <1>11, <1>12, <1>13 DEF p, n

\* Delete gives the time that is left to the timers after it; time that is overdue
\* puts them off.
LEMMA DeleteDue ==
  ASSUME NEW T, NEW q \in Queue(T), NEW t \in Timers(q)
  PROVE  /\ Delete(q, t) \in Queue(T) /\ Timers(Delete(q, t)) = Timers(q) \ {t}
         /\ \A u \in Timers(q) \ {t} :
              Due(Delete(q, t))[u] = Due(q)[u] + (IF At(q, u) < At(q, t) \/ q[At(q, t)].wait >= 0
                                                  THEN 0 ELSE -q[At(q, t)].wait)
<1> DEFINE p == Delete(q, t)
           k == At(q, t)
           r == IF q[k].wait > 0 THEN q[k].wait ELSE 0
<1>1. Deleted(T, p, q, k, r)
  BY DeleteIs
<1>2. k \in 1 .. Len(q) /\ q[k].timer = t
  BY AtTimer
<1> HIDE DEF k
<1>3. q[k].wait \in Int
  BY <1>2, QueueType
<1>4. r \in Int
  BY <1>3
<1> HIDE DEF p
<1>5. p \in Queue(T) /\ Timers(p) = Timers(q) \ {t}
  <2> HIDE DEF r
  <2> QED
    BY <1>1, <1>2, <1>4, DeletedQueue
<1>6. ASSUME NEW u \in Timers(q), u # t
      PROVE  Due(p)[u] = Due(q)[u] + (IF At(q, u) < k \/ q[k].wait >= 0 THEN 0 ELSE -q[k].wait)
  <2>1. Due(p)[u] = Due(q)[u] + (IF At(q, u) < k THEN 0 ELSE r - q[k].wait)
    <3> HIDE DEF r
    <3> QED
      BY <1>1, <1>2, <1>4, <1>6, DeletedDue
  <2>2. At(q, u) \in 1 .. Len(q)
    BY AtTimer
  <2>3. r - q[k].wait = IF q[k].wait >= 0 THEN 0 ELSE -q[k].wait
    BY <1>3
  <2> QED
    BY <2>1, <2>3
<1> QED
  BY <1>5, <1>6 DEF p, k

\* When only its own time is negative, the rest is sorted.
LEMMA DeleteSorted ==
  ASSUME NEW T, NEW q \in Queue(T), NEW t \in Timers(q), SortedBut(q, t)
  PROVE  /\ Sorted(Delete(q, t))
         /\ Early(q, t) => Early(Delete(q, t), After(q, t))
         /\ Waiting(q) => Waiting(Delete(q, t))
<1> DEFINE p == Delete(q, t)
           k == At(q, t)
           r == IF q[k].wait > 0 THEN q[k].wait ELSE 0
           n == Len(q)
<1>1. Deleted(T, p, q, k, r)
  BY DeleteIs
<1>2. k \in 1 .. n /\ q[k].timer = t /\ n \in Nat
  BY AtTimer, QueueType
<1>3. After(q, t) = IF k = n THEN "none" ELSE q[k + 1].timer
  BY DEF After
<1> HIDE DEF k
<1>4. /\ \A i \in 1 .. n : q[i].wait \in Int /\ (i # k => q[i].wait >= 0)
      /\ \A i, j \in 1 .. n : q[i].timer = q[j].timer => i = j
  BY <1>2, QueueType DEF SortedBut
<1>5. r \in Int /\ r >= 0 /\ (q[k].wait > 0 => r > 0)
  BY <1>2, <1>4
<1> HIDE DEF p, r, n
<1>6. /\ p \in Seq([timer : T, wait : Int]) /\ Len(p) = n - 1
      /\ \A i \in 1 .. n : i < k => p[i] = q[i]
      /\ \A i \in 1 .. n : i > k => /\ p[i - 1].timer = q[i].timer
                                    /\ p[i - 1].wait = q[i].wait + (IF i = k + 1 THEN r ELSE 0)
  BY <1>1 DEF Deleted, n
<1>7. DOMAIN p = 1 .. n - 1
  BY <1>6
<1>8. ASSUME NEW i \in 1 .. n - 1 PROVE p[i].wait >= 0
  <2>1. CASE i < k
    <3>1. i \in 1 .. n /\ i # k
      BY <2>1, <1>2
    <3> QED
      BY <2>1, <3>1, <1>4, <1>6
  <2>2. CASE ~(i < k)
    <3> DEFINE f == i + 1
    <3>1. f \in 1 .. n /\ f > k /\ f - 1 = i /\ f # k
      BY <2>2, <1>2
    <3> HIDE DEF f
    <3>2. p[i].wait = q[f].wait + (IF f = k + 1 THEN r ELSE 0)
      BY <3>1, <1>6
    <3> QED
      BY <3>1, <3>2, <1>4, <1>5
  <2> QED
    BY <2>1, <2>2
<1>9. Sorted(p)
  BY <1>7, <1>8 DEF Sorted
<1>10. CASE k = 1
  <2>1. CASE n = 1
    <3>1. ~(Len(p) > 0)
      BY <2>1, <1>6
    <3> QED
      BY <3>1, <1>9 DEF Early, Waiting, p
  <2>2. CASE n # 1
    <3>1. 2 \in 1 .. n /\ 2 > k /\ 2 - 1 = 1 /\ k + 1 = 2 /\ k # n
      BY <2>2, <1>2, <1>10
    <3>2. p[1].timer = q[2].timer /\ p[1].wait = q[2].wait + r /\ Len(p) > 0
      BY <3>1, <1>2, <1>6
    <3>3. After(q, t) = p[1].timer
      BY <3>1, <3>2, <1>3
    <3>4. Early(p, After(q, t))
      BY <3>2, <3>3 DEF Early
    <3>5. Waiting(q) => Waiting(p)
      <4> SUFFICES ASSUME q[1].wait > 0 PROVE p[1].wait > 0
        BY <1>2 DEF Waiting, n
      <4>1. q[2].wait \in Int /\ q[2].wait >= 0
        BY <3>1, <1>4, <1>10
      <4>2. r > 0
        BY <1>5, <1>10
      <4> QED
        BY <3>2, <4>1, <4>2, <1>5
    <3> QED
      BY <3>4, <3>5, <1>9 DEF p
  <2> QED
    BY <2>1, <2>2
<1>11. CASE k # 1
  <2>1. 1 \in 1 .. n /\ 1 < k /\ Len(p) > 0
    BY <1>2, <1>6, <1>11
  <2>2. p[1] = q[1] /\ q[1].timer # t
    BY <2>1, <1>2, <1>4, <1>6
  <2>3. Early(q, t) => Waiting(q)
    BY <2>2 DEF Early
  <2>4. Waiting(q) => Waiting(p)
    BY <2>1, <2>2, <1>2 DEF Waiting, n
  <2> QED
    BY <2>3, <2>4, <1>9 DEF Early, p
<1> QED
  BY <1>10, <1>11

\* The queue with no timer.
LEMMA EmptyQueue ==
  ASSUME NEW T
  PROVE  << >> \in Queue(T) /\ Timers(<< >>) = {} /\ Sorted(<< >>) /\ Waiting(<< >>)
<1>1. << >> \in Seq([timer : T, wait : Int]) /\ Len(<< >>) = 0 /\ DOMAIN << >> = {}
  OBVIOUS
<1> QED
  BY <1>1 DEF Queue, Timers, Sorted, Waiting

\* The deadline of a timer.
LEMMA DueType ==
  ASSUME NEW T, NEW q \in Queue(T)
  PROVE  \A u \in Timers(q) : Due(q)[u] \in Int /\ u \in T
<1>1. \A u \in Timers(q) : At(q, u) \in 1 .. Len(q) /\ q[At(q, u)].timer = u
  BY AtTimer
<1>2. \A i \in 1 .. Len(q) : i \in 0 .. Len(q) /\ DueAt(q, i) \in Int /\ q[i].timer \in T
  BY QueueType, DueInt
<1> QED
  BY <1>1, <1>2 DEF Due

\* The timer after t is another one.
LEMMA AfterIs ==
  ASSUME NEW T, NEW q \in Queue(T), NEW t \in Timers(q)
  PROVE  After(q, t) = "none" \/ After(q, t) \in Timers(q) \ {t}
<1>1. At(q, t) \in 1 .. Len(q) /\ q[At(q, t)].timer = t
  BY AtTimer
<1>2. ASSUME At(q, t) # Len(q)
      PROVE  At(q, t) + 1 \in 1 .. Len(q) /\ At(q, t) + 1 # At(q, t)
  BY <1>1, <1>2, QueueType
<1>3. ASSUME At(q, t) # Len(q) PROVE q[At(q, t) + 1].timer \in Timers(q) \ {t}
  BY <1>1, <1>2, <1>3, QueueType
<1> QED
  BY <1>3 DEF After

\* When no time but that of t is negative, the timers before t are not overdue, and
\* those after it not due before it.
LEMMA DueOrder ==
  ASSUME NEW T, NEW q \in Queue(T), NEW t \in Timers(q), SortedBut(q, t)
  PROVE  /\ DueAt(q, At(q, t) - 1) >= 0
         /\ Due(q)[t] = DueAt(q, At(q, t) - 1) + q[At(q, t)].wait
         /\ \A u \in Timers(q) : At(q, u) < At(q, t) => Due(q)[u] >= 0 /\ Due(q)[u] <= DueAt(q, At(q, t) - 1)
         /\ \A u \in Timers(q) : At(q, u) > At(q, t) => Due(q)[u] >= Due(q)[t]
<1> DEFINE k == At(q, t)
           n == Len(q)
<1>1. k \in 1 .. n /\ q[k].timer = t /\ Due(q)[t] = DueAt(q, k)
  BY AtTimer, DueIs
<1>2. n \in Nat /\ \A i, j \in 1 .. n : q[i].timer = q[j].timer => i = j
  BY QueueType
<1>3. \A i \in 1 .. n : i # k => q[i].wait >= 0
  BY <1>1, <1>2, QueueType DEF SortedBut
<1>4. \A i \in 0 .. n : DueAt(q, i) \in Int
  BY DueInt
<1>5. ASSUME NEW i \in 0 .. n, NEW j \in i .. n, j < k \/ i >= k PROVE DueAt(q, i) <= DueAt(q, j)
  <2> DEFINE S == {m \in Nat : i + m <= n /\ (i + m < k \/ i >= k) => DueAt(q, i) <= DueAt(q, i + m)}
  <2>1. 0 \in S
    BY <1>2, <1>4
  <2>2. ASSUME NEW m \in Nat, m \in S PROVE m + 1 \in S
    <3> SUFFICES ASSUME i + (m + 1) <= n, i + (m + 1) < k \/ i >= k
                 PROVE  DueAt(q, i) <= DueAt(q, i + (m + 1))
      OBVIOUS
    <3> DEFINE x == i + (m + 1)
    <3>1. x \in 1 .. n /\ x \in Nat /\ x # 0 /\ x - 1 = i + m /\ x # k /\ i + m \in 0 .. n
      BY <1>1, <1>2
    <3>2. DueAt(q, i) <= DueAt(q, i + m)
      BY <2>2, <1>1, <1>2
    <3> HIDE DEF x, S
    <3>3. DueAt(q, x) = DueAt(q, i + m) + q[x].wait /\ q[x].wait >= 0 /\ q[x].wait \in Int
      BY <3>1, <1>3, DueNext, QueueType
    <3>4. DueAt(q, i) \in Int /\ DueAt(q, i + m) \in Int
      BY <3>1, <1>4
    <3>5. DueAt(q, i) <= DueAt(q, x)
      BY <3>2, <3>3, <3>4
    <3> QED
      BY <3>5 DEF x
  <2> HIDE DEF S
  <2>3. \A m \in Nat : m \in S
    BY <2>1, <2>2, SetInduction
  <2> DEFINE m == j - i
  <2>4. m \in Nat /\ i + m = j /\ i + m <= n
    BY <1>2
  <2> HIDE DEF m
  <2>5. m \in S
    BY <2>3, <2>4
  <2> QED
    BY <2>4, <2>5, <1>5 DEF S
<1> HIDE DEF k, n
<1>6. k - 1 \in 0 .. n /\ k - 1 \in 0 .. n /\ 0 \in 0 .. n /\ k - 1 \in 0 .. n /\ k - 1 < k
        /\ k \in Nat /\ k # 0 /\ k \in 0 .. n
  BY <1>1, <1>2
<1>7. DueAt(q, 0) = 0 /\ DueAt(q, k) = DueAt(q, k - 1) + q[k].wait
  BY <1>6, DueNext
<1>8. DueAt(q, k - 1) >= 0
  <2>1. DueAt(q, 0) <= DueAt(q, k - 1)
    BY <1>6, <1>5
  <2> QED
    BY <2>1, <1>7
<1>9. ASSUME NEW u \in Timers(q), At(q, u) < k
      PROVE  Due(q)[u] >= 0 /\ Due(q)[u] <= DueAt(q, k - 1)
  <2> DEFINE f == At(q, u)
  <2>1. f \in 1 .. n /\ Due(q)[u] = DueAt(q, f)
    BY AtTimer, DueIs DEF n
  <2> HIDE DEF f
  <2>2. f < k
    BY <1>9 DEF f
  <2>3. f \in 0 .. n /\ k - 1 \in f .. n /\ 0 \in 0 .. n /\ k - 1 < k
    BY <2>1, <2>2, <1>6, <1>2
  <2>4. DueAt(q, f) <= DueAt(q, k - 1)
    BY <2>3, <1>5
  <2>5. DueAt(q, 0) <= DueAt(q, f)
    BY <2>1, <2>2, <2>3, <1>5
  <2> QED
    BY <2>1, <2>4, <2>5, <1>7
<1>10. ASSUME NEW u \in Timers(q), At(q, u) > k
       PROVE  Due(q)[u] >= Due(q)[t]
  <2> DEFINE f == At(q, u)
  <2>1. f \in 1 .. n /\ Due(q)[u] = DueAt(q, f)
    BY AtTimer, DueIs DEF n
  <2> HIDE DEF f
  <2>2. f > k
    BY <1>10 DEF f
  <2>3. f \in k .. n /\ k \in 0 .. n /\ f \in 0 .. n /\ k >= k
    BY <2>1, <2>2, <1>6, <1>2
  <2>4. DueAt(q, k) <= DueAt(q, f)
    BY <2>3, <1>5
  <2> QED
    BY <2>1, <2>3, <2>4, <1>1, <1>4
<1> QED
  BY <1>1, <1>7, <1>8, <1>9, <1>10 DEF k

\* In a queue in order a timer is due in its own time or later.
LEMMA DueSorted ==
  ASSUME NEW T, NEW q \in Queue(T), Sorted(q)
  PROVE  \A t \in Timers(q) : /\ q[At(q, t)].wait \in Nat /\ Due(q)[t] >= q[At(q, t)].wait
                              /\ DueAt(q, At(q, t) - 1) >= 0
                              /\ Due(q)[t] = DueAt(q, At(q, t) - 1) + q[At(q, t)].wait
<1>1. ASSUME NEW t \in Timers(q)
      PROVE  /\ q[At(q, t)].wait \in Nat /\ Due(q)[t] >= q[At(q, t)].wait
             /\ DueAt(q, At(q, t) - 1) >= 0
             /\ Due(q)[t] = DueAt(q, At(q, t) - 1) + q[At(q, t)].wait
  <2>1. SortedBut(q, t)
    BY DEF Sorted, SortedBut
  <2>2. At(q, t) \in 1 .. Len(q) /\ Len(q) \in Nat
    BY AtTimer, QueueType
  <2>3. At(q, t) - 1 \in 0 .. Len(q)
    BY <2>2
  <2>4. DueAt(q, At(q, t) - 1) \in Int
    BY <2>3, DueInt
  <2>5. q[At(q, t)].wait \in Nat
    BY <2>2, QueueType DEF Sorted
  <2>6. DueAt(q, At(q, t) - 1) >= 0 /\ Due(q)[t] = DueAt(q, At(q, t) - 1) + q[At(q, t)].wait
    BY <2>1, DueOrder
  <2> QED
    BY <2>4, <2>5, <2>6
<1> QED
  BY <1>1

\* The clock takes the same time from all deadlines.
LEMMA ElapseDue ==
  ASSUME NEW T, NEW q \in Queue(T), NEW d \in Int
  PROVE  /\ Elapse(q, d) \in Queue(T) /\ Timers(Elapse(q, d)) = Timers(q)
         /\ \A u \in Timers(q) : Due(Elapse(q, d))[u] = Due(q)[u] - d
         /\ Len(Elapse(q, d)) = Len(q)
         /\ \A i \in 1 .. Len(q) : /\ Elapse(q, d)[i].timer = q[i].timer
                                   /\ Elapse(q, d)[i].wait = IF i = 1 THEN q[i].wait - d ELSE q[i].wait
<1> DEFINE p == Elapse(q, d)
<1>1. /\ p \in Queue(T) /\ Len(p) = Len(q)
      /\ \A i \in 1 .. Len(q) : /\ p[i].timer = q[i].timer
                                /\ p[i].wait = q[i].wait + (IF i = 1 THEN -d ELSE 0)
  <2>1. -d \in Int
    OBVIOUS
  <2> QED
    BY <2>1, ShiftIs DEF Elapse
<1>2. Len(q) \in Nat /\ \A i \in 1 .. Len(q) : q[i].wait \in Int
  BY QueueType
<1> HIDE DEF p
<1>3. \A i \in 1 .. Len(q) : p[i].wait = IF i = 1 THEN q[i].wait - d ELSE q[i].wait
  BY <1>1, <1>2
<1>4. Timers(p) = Timers(q)
  <2>1. Timers(p) = {p[i].timer : i \in 1 .. Len(q)}
    BY <1>1, QueueType
  <2>2. Timers(q) = {q[i].timer : i \in 1 .. Len(q)}
    BY QueueType
  <2> QED
    BY <2>1, <2>2, <1>1
<1>5. \A i \in 0 .. Len(q) : DueAt(q, i) \in Int /\ DueAt(p, i) \in Int
  BY <1>1, DueInt
<1>6. ASSUME NEW i \in 1 .. Len(q) PROVE DueAt(p, i) = DueAt(q, i) - d
  <2>1. 1 \in 1 .. Len(q) /\ 1 \in 0 .. Len(q) /\ i \in 0 .. Len(q)
    BY <1>2
  <2>2. DueAt(p, 1) = p[1].wait /\ DueAt(q, 1) = q[1].wait
    <3>1. 1 \in Nat /\ 1 # 0 /\ 1 - 1 = 0
      OBVIOUS
    <3>2. DueAt(p, 1) = DueAt(p, 0) + p[1].wait /\ DueAt(p, 0) = 0
      BY <3>1, DueNext
    <3>3. DueAt(q, 1) = DueAt(q, 0) + q[1].wait /\ DueAt(q, 0) = 0
      BY <3>1, DueNext
    <3>4. p[1].wait \in Int /\ q[1].wait \in Int
      BY <2>1, <1>1, <1>2
    <3> QED
      BY <3>2, <3>3, <3>4
  <2>3. DueAt(p, 1) = DueAt(q, 1) - d
    BY <2>1, <2>2, <1>3
  <2> DEFINE m == i - 1
  <2>4. m \in Nat /\ 1 + m = i
    BY <1>2
  <2>5. Alike(p, 1, q, 1, m)
    <3>1. 1 + m <= Len(p) /\ 1 + m <= Len(q)
      BY <2>4, <1>1
    <3>2. ASSUME NEW f \in 1 .. m PROVE p[1 + f].wait = q[1 + f].wait
      <4>1. 1 + f \in 1 .. Len(q) /\ 1 + f # 1
        BY <1>2, <3>1
      <4> QED
        BY <4>1, <1>3
    <3> QED
      BY <3>1, <3>2 DEF Alike
  <2> HIDE DEF m
  <2>6. DueAt(p, 1 + m) - DueAt(p, 1) = DueAt(q, 1 + m) - DueAt(q, 1)
    BY <2>1, <2>4, <2>5, <1>1, DueFollows
  <2>7. DueAt(p, i) - DueAt(p, 1) = DueAt(q, i) - DueAt(q, 1)
    BY <2>4, <2>6
  <2>8. DueAt(p, i) \in Int /\ DueAt(q, i) \in Int /\ DueAt(q, 1) \in Int
    BY <2>1, <1>5
  <2> QED
    BY <2>3, <2>7, <2>8
<1>7. ASSUME NEW u \in Timers(q) PROVE Due(p)[u] = Due(q)[u] - d
  <2> DEFINE f == At(q, u)
  <2>1. f \in 1 .. Len(q) /\ q[f].timer = u /\ Due(q)[u] = DueAt(q, f)
    BY AtTimer, DueIs
  <2> HIDE DEF f
  <2>2. p[f].timer = u /\ f \in 1 .. Len(p)
    BY <2>1, <1>1
  <2>3. Due(p)[u] = DueAt(p, f)
    BY <2>2, <1>1, DueIs
  <2> QED
    BY <2>1, <2>3, <1>6
<1> QED
  BY <1>1, <1>3, <1>4, <1>7 DEF p

\* What set_Timer does first: t gets s seconds after the timer before it.
SetWait(q, t, s) == [q EXCEPT ![At(q, t)].wait = s]

\* What that does to the deadlines.
LEMMA SetDue ==
  ASSUME NEW T, NEW q \in Queue(T), NEW t \in Timers(q), NEW s \in Int
  PROVE  /\ SetWait(q, t, s) \in Queue(T) /\ Timers(SetWait(q, t, s)) = Timers(q)
         /\ \A u \in Timers(q) : At(SetWait(q, t, s), u) = At(q, u)
         /\ SetWait(q, t, s)[At(q, t)].wait = s /\ Len(SetWait(q, t, s)) = Len(q)
         /\ \A u \in Timers(q) :
              Due(SetWait(q, t, s))[u] = Due(q)[u] + (IF At(q, u) < At(q, t) THEN 0 ELSE s - q[At(q, t)].wait)
         /\ SortedBut(q, t) => SortedBut(SetWait(q, t, s), t)
         /\ At(q, t) # 1 => SetWait(q, t, s)[1] = q[1]
<1> DEFINE k == At(q, t)
           n == Len(q)
           p == [q EXCEPT ![k].wait = s]
           E == [timer : T, wait : Int]
<1>1. k \in 1 .. n /\ q[k].timer = t
  BY AtTimer
<1>2. /\ n \in Nat /\ DOMAIN q = 1 .. n
      /\ \A i \in 1 .. n : q[i].timer \in T /\ q[i].wait \in Int /\ q[i] = Entry(q[i].timer, q[i].wait)
      /\ \A i, j \in 1 .. n : q[i].timer = q[j].timer => i = j
      /\ Timers(q) = {q[i].timer : i \in 1 .. n}
  BY QueueType
<1>3. q \in Seq(E) /\ \A i \in 1 .. n : q[i] \in E
  BY <1>2 DEF Queue, Entry
<1>4. [q[k] EXCEPT !.wait = s] \in E /\ [q[k] EXCEPT !.wait = s].timer = t
        /\ [q[k] EXCEPT !.wait = s].wait = s
  BY <1>1, <1>3
<1> HIDE DEF E, k
<1>5. /\ DOMAIN p = 1 .. n
      /\ \A i \in 1 .. n : p[i] = IF i = k THEN [q[k] EXCEPT !.wait = s] ELSE q[i]
  BY <1>1, <1>2, Zenon
<1>6. p = [i \in 1 .. n |-> p[i]]
  BY <1>1, <1>2, Zenon
<1> HIDE DEF p
<1>7. \A i \in 1 .. n : /\ p[i] \in E /\ p[i].timer = q[i].timer
                        /\ p[i].wait = IF i = k THEN s ELSE q[i].wait
  BY <1>1, <1>3, <1>4, <1>5
<1>8. p \in Seq(E) /\ Len(p) = n
  BY <1>2, <1>6, <1>7
<1>9. p \in Queue(T)
  BY <1>2, <1>7, <1>8, QueueOf DEF E
<1>10. Timers(p) = Timers(q)
  <2>1. Timers(p) = {p[i].timer : i \in 1 .. n}
    BY <1>8, <1>9, QueueType
  <2> QED
    BY <2>1, <1>2, <1>7
<1>11. ASSUME NEW u \in Timers(q)
       PROVE  At(p, u) = At(q, u) /\ At(q, u) \in 1 .. n /\ Due(q)[u] = DueAt(q, At(q, u))
               /\ Due(p)[u] = DueAt(p, At(q, u))
  <2> DEFINE f == At(q, u)
  <2>1. f \in 1 .. n /\ q[f].timer = u /\ Due(q)[u] = DueAt(q, f)
    BY AtTimer, DueIs
  <2> HIDE DEF f
  <2>2. p[f].timer = u /\ f \in 1 .. Len(p)
    BY <2>1, <1>7, <1>8
  <2>3. Due(p)[u] = DueAt(p, f) /\ At(p, u) = f
    BY <2>2, <1>9, DueIs
  <2> QED
    BY <2>1, <2>3 DEF f
<1> HIDE DEF n
<1>12. k \in Nat /\ k # 0 /\ k - 1 \in 0 .. n /\ k - 1 < k /\ k \in 0 .. n /\ q[k].wait \in Int
  BY <1>1, <1>2
<1>13. \A i \in 0 .. n : DueAt(q, i) \in Int /\ DueAt(p, i) \in Int
  BY <1>8, <1>9, DueInt DEF n
<1>14. ASSUME NEW i \in 0 .. n, i < k PROVE DueAt(p, i) = DueAt(q, i)
  <2>1. i \in Nat /\ \A f \in 1 .. i : f \in 1 .. n /\ f # k
    BY <1>2, <1>12, <1>14
  <2>2. \A f \in 1 .. i : p[f].wait = q[f].wait
    BY <2>1, <1>7
  <2> QED
    BY <2>1, <2>2, DueAgrees
<1>15. DueAt(p, k) = DueAt(q, k) + (s - q[k].wait)
  <2>1. DueAt(p, k) = DueAt(p, k - 1) + p[k].wait /\ DueAt(q, k) = DueAt(q, k - 1) + q[k].wait
    BY <1>12, DueNext
  <2>2. DueAt(p, k - 1) = DueAt(q, k - 1) /\ p[k].wait = s
    BY <1>1, <1>7, <1>12, <1>14
  <2> QED
    BY <2>1, <2>2, <1>12, <1>13
<1>16. ASSUME NEW i \in 1 .. n, i >= k PROVE DueAt(p, i) = DueAt(q, i) + (s - q[k].wait)
  <2> DEFINE m == i - k
  <2>1. m \in Nat /\ k + m = i /\ i \in 0 .. n
    BY <1>2, <1>12, <1>16
  <2>2. Alike(p, k, q, k, m)
    <3>1. k + m <= Len(p) /\ k + m <= Len(q)
      BY <2>1, <1>8 DEF n
    <3>2. ASSUME NEW f \in 1 .. m PROVE p[k + f].wait = q[k + f].wait
      <4>1. k + f \in 1 .. n /\ k + f # k
        BY <2>1, <1>2, <1>12
      <4> QED
        BY <4>1, <1>7
    <3> QED
      BY <3>1, <3>2 DEF Alike
  <2> HIDE DEF m
  <2>3. k \in 0 .. Len(p) /\ k \in 0 .. Len(q)
    BY <1>8, <1>12 DEF n
  <2>4. DueAt(p, k + m) - DueAt(p, k) = DueAt(q, k + m) - DueAt(q, k)
    BY <2>1, <2>2, <2>3, <1>9, DueFollows
  <2>5. DueAt(p, i) - DueAt(p, k) = DueAt(q, i) - DueAt(q, k)
    BY <2>1, <2>4
  <2>6. DueAt(p, i) \in Int /\ DueAt(q, i) \in Int /\ DueAt(q, k) \in Int
    BY <2>1, <1>12, <1>13
  <2> QED
    BY <2>5, <2>6, <1>12, <1>15
<1>17. ASSUME NEW u \in Timers(q)
       PROVE  Due(p)[u] = Due(q)[u] + (IF At(q, u) < k THEN 0 ELSE s - q[k].wait)
  <2> DEFINE f == At(q, u)
  <2>1. f \in 1 .. n /\ Due(q)[u] = DueAt(q, f) /\ Due(p)[u] = DueAt(p, f)
    BY <1>11
  <2> HIDE DEF f
  <2>2. f \in 0 .. n /\ DueAt(q, f) \in Int
    BY <2>1, <1>2, <1>13
  <2>3. Due(p)[u] = Due(q)[u] + (IF f < k THEN 0 ELSE s - q[k].wait)
    <3>1. CASE f < k
      BY <2>1, <2>2, <3>1, <1>14
    <3>2. CASE ~(f < k)
      <4>1. f >= k
        BY <2>1, <3>2, <1>2, <1>12
      <4> QED
        BY <2>1, <3>2, <4>1, <1>16
    <3> QED
      BY <3>1, <3>2
  <2> QED
    BY <2>3 DEF f
<1>18. SortedBut(q, t) => SortedBut(p, t)
  <2>1. DOMAIN p = 1 .. n
    BY <1>5
  <2> QED
    BY <2>1, <1>1, <1>2, <1>7 DEF SortedBut
<1>19. k # 1 => p[1] = q[1]
  BY <1>1, <1>2, <1>5
<1> QED
  BY <1>1, <1>7, <1>8, <1>9, <1>10, <1>11, <1>17, <1>18, <1>19 DEF p, k, n, SetWait

\* A timer of a sorted queue gets a new time: the timers after it move by what it gets
\* more or less than it had.
LEMMA ResetDue ==
  ASSUME NEW T, NEW q \in Queue(T), NEW t \in Timers(q), NEW s \in Nat, Sorted(q)
  PROVE  /\ Reset(q, t, s) \in Queue(T) /\ Timers(Reset(q, t, s)) = Timers(q)
         /\ Sorted(Reset(q, t, s))
         /\ Waiting(q) /\ s > 0 => Waiting(Reset(q, t, s))
         /\ Due(Reset(q, t, s))[t] = s
         /\ \A u \in Timers(q) \ {t} :
              Due(Reset(q, t, s))[u] = Due(q)[u] + (IF At(q, u) < At(q, t) THEN 0 ELSE s - q[At(q, t)].wait)
<1> DEFINE q1 == SetWait(q, t, s)
           q2 == Delete(q1, t)
           p == Insert(q2, t, s)
<1>1. Reset(q, t, s) = p
  BY DEF Reset, SetWait
<1>2. t \in T /\ SortedBut(q, t)
  BY DueType DEF Sorted, SortedBut
<1>3. /\ q1 \in Queue(T) /\ Timers(q1) = Timers(q) /\ \A u \in Timers(q) : At(q1, u) = At(q, u)
      /\ q1[At(q, t)].wait = s /\ Len(q1) = Len(q) /\ SortedBut(q1, t)
      /\ \A u \in Timers(q) : Due(q1)[u] = Due(q)[u] + (IF At(q, u) < At(q, t) THEN 0 ELSE s - q[At(q, t)].wait)
      /\ At(q, t) # 1 => q1[1] = q[1]
  BY <1>2, SetDue
<1> HIDE DEF q1
<1>4. t \in Timers(q1) /\ q1[At(q1, t)].wait = s
  BY <1>3
<1>5. /\ q2 \in Queue(T) /\ Timers(q2) = Timers(q) \ {t}
      /\ \A u \in Timers(q) \ {t} : Due(q2)[u] = Due(q1)[u] + 0
  <2>1. \A u \in Timers(q1) \ {t} :
          Due(q2)[u] = Due(q1)[u] + (IF At(q1, u) < At(q1, t) \/ q1[At(q1, t)].wait >= 0
                                     THEN 0 ELSE -q1[At(q1, t)].wait)
    BY <1>3, <1>4, DeleteDue
  <2>2. q2 \in Queue(T) /\ Timers(q2) = Timers(q1) \ {t}
    BY <1>3, <1>4, DeleteDue
  <2> QED
    BY <2>1, <2>2, <1>3, <1>4
<1>6. Sorted(q2) /\ (Waiting(q1) => Waiting(q2))
  BY <1>3, <1>4, DeleteSorted
<1> HIDE DEF q2
<1>7. /\ p \in Queue(T) /\ Timers(p) = Timers(q2) \cup {t} /\ Due(p)[t] = s
      /\ \A u \in Timers(q2) : Due(p)[u] = Due(q2)[u]
  BY <1>2, <1>5, InsertDue
<1>8. /\ Sorted(p) /\ Len(p) > 0
      /\ \/ Len(q2) > 0 /\ p[1] = q2[1]
         \/ p[1].timer = t /\ p[1].wait = s
  BY <1>2, <1>5, <1>6, InsertSorted
<1> HIDE DEF p
<1>9. Waiting(q) /\ s > 0 => Waiting(p)
  <2> SUFFICES ASSUME Waiting(q), s > 0 PROVE Waiting(p)
    OBVIOUS
  <2>1. Waiting(q1)
    <3>1. CASE At(q, t) = 1
      BY <3>1, <1>3 DEF Waiting
    <3>2. CASE At(q, t) # 1
      BY <3>2, <1>3 DEF Waiting
    <3> QED
      BY <3>1, <3>2
  <2> QED
    BY <2>1, <1>6, <1>8 DEF Waiting
<1>10. \A u \in Timers(q) \ {t} :
         Due(p)[u] = Due(q)[u] + (IF At(q, u) < At(q, t) THEN 0 ELSE s - q[At(q, t)].wait)
  <2>1. \A u \in Timers(q1) : Due(q1)[u] \in Int
    BY <1>3, DueType
  <2> QED
    BY <2>1, <1>3, <1>5, <1>7
<1> QED
  BY <1>1, <1>3, <1>5, <1>7, <1>8, <1>9, <1>10

\* A timer that fires is put back: when it was overdue, the timers after it are put off.
LEMMA AgainDue ==
  ASSUME NEW T, NEW q \in Queue(T), NEW t \in Timers(q), SortedBut(q, t), NEW s \in Nat, s > 0
  PROVE  /\ Insert(Delete(q, t), t, s) \in Queue(T)
         /\ Timers(Insert(Delete(q, t), t, s)) = Timers(q)
         /\ Sorted(Insert(Delete(q, t), t, s))
         /\ Early(q, t) => Early(Insert(Delete(q, t), t, s), After(q, t))
         /\ Due(Insert(Delete(q, t), t, s))[t] = s
         /\ \A u \in Timers(q) \ {t} :
              Due(Insert(Delete(q, t), t, s))[u] =
                Due(q)[u] + (IF At(q, u) < At(q, t) \/ q[At(q, t)].wait >= 0
                             THEN 0 ELSE -q[At(q, t)].wait)
<1> DEFINE q2 == Delete(q, t)
           p == Insert(q2, t, s)
<1>1. t \in T
  BY DueType
<1>2. /\ q2 \in Queue(T) /\ Timers(q2) = Timers(q) \ {t}
      /\ \A u \in Timers(q) \ {t} :
           Due(q2)[u] = Due(q)[u] + (IF At(q, u) < At(q, t) \/ q[At(q, t)].wait >= 0
                                     THEN 0 ELSE -q[At(q, t)].wait)
  BY DeleteDue
<1>3. Sorted(q2) /\ (Early(q, t) => Early(q2, After(q, t)))
  BY DeleteSorted
<1> HIDE DEF q2
<1>4. /\ p \in Queue(T) /\ Timers(p) = Timers(q2) \cup {t} /\ Due(p)[t] = s
      /\ \A u \in Timers(q2) : Due(p)[u] = Due(q2)[u]
  BY <1>1, <1>2, InsertDue
<1>5. /\ Sorted(p) /\ Len(p) > 0
      /\ \/ Len(q2) > 0 /\ p[1] = q2[1]
         \/ p[1].timer = t /\ p[1].wait = s
  BY <1>1, <1>2, <1>3, InsertSorted
<1> HIDE DEF p
<1>6. Early(q2, After(q, t)) => Early(p, After(q, t))
  BY <1>5 DEF Early, Waiting
<1> QED
  BY <1>2, <1>3, <1>4, <1>5, <1>6 DEF p, q2

\* A queue is as long as it has timers.
LEMMA LengthIs ==
  ASSUME NEW T, NEW q \in Queue(T)
  PROVE  IsFiniteSet(Timers(q)) /\ Cardinality(Timers(q)) = Len(q)
<1> DEFINE n == Len(q)
           f == [i \in 1 .. n |-> q[i].timer]
<1>1. /\ n \in Nat /\ \A i, j \in 1 .. n : q[i].timer = q[j].timer => i = j
      /\ Timers(q) = {q[i].timer : i \in 1 .. n}
  BY QueueType
<1> HIDE DEF n
<1>2. IsFiniteSet(1 .. n) /\ Cardinality(1 .. n) = n
  <2>1. 1 \in Int /\ n \in Int /\ (1 > n => n = 0)
    BY <1>1
  <2>2. IsFiniteSet(1 .. n) /\ Cardinality(1 .. n) = IF 1 > n THEN 0 ELSE n - 1 + 1
    BY <2>1, FS_Interval
  <2> QED
    BY <2>1, <2>2
<1>3. f \in Bijection(1 .. n, Timers(q))
  BY <1>1 DEF Bijection, Injection, Surjection, IsInjective
<1>4. ExistsBijection(1 .. n, Timers(q))
  BY <1>3 DEF ExistsBijection
<1> QED
  BY <1>2, <1>4, FS_Bijection DEF n

=============================================================================
