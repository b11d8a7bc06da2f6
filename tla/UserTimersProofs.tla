-------------------------- MODULE UserTimersProofs --------------------------
(***************************************************************************)
(* The timers of a user, for any times and lags: the queue is in order, a  *)
(* silent user is logged off and one who is left alone is saved within a   *)
(* bound, and no timer fires before its time is over.                      *)
(***************************************************************************)
EXTENDS MCUserTimers, TimerQueueProofs

\* The timers of a user.
T == TimerName
\* The times that a timer may have.
Secs == Nat \ {0}
\* The most that update_timers() can be late.
L == MaxLag - 1

\* What the timer that fires is late, as a negative number.
Late == IF at # "none" /\ Wait < 0 THEN Wait ELSE 0

\* The types of the variables, left having the timers of the queue.
Typed ==
  /\ conn \in {"login", "motd", "online", "locked", "wait_close", "wait_close2", "closed"}
  /\ span \in {LoginTime, IdleTime, LockTime}
  /\ restart \in 0 .. 10
  /\ action \in {"login", "user"}
  /\ silence \in Nat
  /\ unsaved \in 0 .. SaveTime + 2 * MaxLag
  /\ touched \in BOOLEAN
  /\ left \in [Timers(queue) -> Nat]

\* The queue is in order, but the timer that fires may be late; it is the first then.
Queued ==
  /\ queue \in Queue(T)
  /\ at \in Timers(queue) \cup {"none"}
  /\ SortedBut(queue, at) /\ Early(queue, at)
  /\ at # "none" => Wait >= -L /\ (Wait < 0 => At(queue, at) = 1)

\* The timers that a user has, and what the idle timer does.
Stage ==
  /\ conn \in {"login", "motd"} => Timers(queue) = {"idle"}
  /\ conn \in {"online", "locked"} => Timers(queue) = {"idle", "save"}
  /\ conn = "wait_close" => Timers(queue) \subseteq {"idle", "save"}
  /\ conn = "wait_close2" => Timers(queue) = {"logout"}
  /\ conn = "closed" => Timers(queue) = {}
  /\ conn = "login" => action = "login"
  /\ conn \in {"motd", "online", "locked"} =>
       action = "user" /\ restart \in 8 .. 10 /\ span \in {IdleTime, LockTime}

\* The lag of every late save and of every warning.
Lags(saves, r) == L * (saves + (10 - r))

\* The lags that the warnings may have added to the time of the next save.
Saving ==
  conn \in {"online", "locked"} /\ ~touched =>
    unsaved + Due(queue)["save"] <= SaveTime + Lags(0, restart)

\* The time of the idle timer and of its warnings that is over.
Gone(r) == CASE r = 10 -> 0 [] r = 9 -> Minute [] OTHER -> Minute + Idling
Past == span + Gone(restart) - Due(queue)["idle"]

\* Since the idle timer was reset, the given number of saves was late.
Behind(saves) ==
  /\ "save" \in Timers(queue) => saves * SaveTime <= Past + Due(queue)["save"]
  /\ saves * SaveTime <= Past + Late + SaveTime
  /\ silence <= Past + Lags(saves, restart)

\* The bound of SilenceBounded.
InTime == silence <= span + Minute + Idling
                       + (MaxLag - 1) * (4 + (span + Minute + Idling) \div SaveTime)

\* Where a user is who has logged in.
User == {"motd", "online", "locked"}

\* A silent user is on his way out.
Silence ==
  /\ conn = "login" => silence + Due(queue)["idle"] <= span
  /\ conn \in User => \E saves \in Nat : Behind(saves)
  /\ conn = "wait_close" => InTime

\* The inductive invariant.
IInv == Typed /\ Queued /\ Stage /\ Saving /\ Silence

\* The constants are such times.
LEMMA Positive ==
  /\ LoginTime \in Secs /\ IdleTime \in Secs /\ LockTime \in Secs /\ SaveTime \in Secs
  /\ Minute \in Secs /\ Idling \in Secs /\ LogoutTime \in Secs /\ MaxLag \in Secs /\ L \in Nat
  BY DurationAssumption DEF Durations, Secs, L

\* The timers are not none.
LEMMA Names == "none" \notin T /\ "idle" \in T /\ "save" \in T /\ "logout" \in T
  BY DEF T, TimerName

\* What a new time for the idle timer does to the queue.
SetTo(p, q, s) ==
  /\ p \in Queue(T) /\ Timers(p) = Timers(q) /\ Sorted(p) /\ Waiting(p)
  /\ Due(p)["idle"] = s
  /\ \A u \in Timers(q) : Due(p)[u] >= 0
  /\ \A u \in Timers(q) : Due(p)[u] >= Due(q)[u] \/ Due(p)[u] >= s

\* Reset does this.
LEMMA SetIdleIs ==
  ASSUME NEW q \in Queue(T), Sorted(q), Waiting(q), "idle" \in Timers(q), NEW s \in Secs
  PROVE  SetTo(SetIdle(q, s), q, s)
<1> DEFINE p == Reset(q, "idle", s)
           w == q[At(q, "idle")].wait
<1>1. s \in Nat /\ s > 0 /\ SortedBut(q, "idle")
  BY DEF Secs, Sorted, SortedBut
<1>2. /\ p \in Queue(T) /\ Timers(p) = Timers(q) /\ Sorted(p) /\ Waiting(p)
      /\ Due(p)["idle"] = s
      /\ \A u \in Timers(q) \ {"idle"} :
           Due(p)[u] = Due(q)[u] + (IF At(q, u) < At(q, "idle") THEN 0 ELSE s - w)
  BY <1>1, ResetDue
<1>3. w \in Nat /\ Due(q)["idle"] >= w
  BY DueSorted
<1> HIDE DEF p, w
<1>4. \A u \in Timers(q) : Due(p)[u] \in Int /\ Due(q)[u] \in Int
  BY <1>2, DueType
<1>5. ASSUME NEW u \in Timers(q) PROVE Due(p)[u] >= 0
  <2>1. p[At(p, u)].wait \in Nat /\ Due(p)[u] >= p[At(p, u)].wait
    BY <1>2, DueSorted
  <2> QED
    BY <1>4, <2>1
<1>6. ASSUME NEW u \in Timers(q), u # "idle" PROVE Due(p)[u] >= Due(q)[u] \/ Due(p)[u] >= s
  <2>1. CASE At(q, u) < At(q, "idle")
    BY <1>2, <1>4, <1>6, <2>1
  <2>2. CASE ~(At(q, u) < At(q, "idle"))
    <3>1. /\ At(q, u) \in 1 .. Len(q) /\ At(q, "idle") \in 1 .. Len(q) /\ Len(q) \in Nat
          /\ q[At(q, u)].timer = u /\ q[At(q, "idle")].timer = "idle"
      BY AtTimer, QueueType
    <3>2. At(q, u) # At(q, "idle")
      BY <1>6, <3>1
    <3>3. At(q, u) > At(q, "idle")
      BY <2>2, <3>1, <3>2
    <3>4. Due(q)[u] >= Due(q)["idle"]
      BY <1>1, <3>3, DueOrder
    <3>5. Due(p)[u] = Due(q)[u] + (s - w)
      BY <1>2, <1>6, <2>2
    <3> QED
      BY <1>1, <1>3, <1>4, <3>4, <3>5
  <2> QED
    BY <2>1, <2>2
<1>7. p = SetIdle(q, s)
  BY DEF p, SetIdle
<1>8. \A u \in Timers(q) : Due(p)[u] >= Due(q)[u] \/ Due(p)[u] >= s
  BY <1>1, <1>2, <1>6
<1> QED
  BY <1>2, <1>5, <1>7, <1>8 DEF SetTo

\* What the handlers find between two rounds.
LEMMA Free ==
  ASSUME IInv, at = "none"
  PROVE  Sorted(queue) /\ Waiting(queue) /\ queue \in Queue(T)
<1>1. queue \in Queue(T) /\ SortedBut(queue, "none") /\ Early(queue, "none")
  BY DEF IInv, Queued
<1>2. DOMAIN queue = 1 .. Len(queue) /\ Len(queue) \in Nat
      /\ \A i \in 1 .. Len(queue) : queue[i].timer # "none"
  BY <1>1, QueueType, Names
<1>3. Sorted(queue)
  BY <1>1, <1>2 DEF Sorted, SortedBut
<1>4. ASSUME Len(queue) > 0 PROVE queue[1].timer # "none"
  BY <1>2, <1>4
<1> QED
  BY <1>1, <1>3, <1>4 DEF Early, Waiting

\* A timer is not overdue by more than the one that fires.
LEMMA DueLate ==
  ASSUME IInv
  PROVE  /\ Late \in Int /\ Late <= 0 /\ Late >= -L
         /\ at # "none" => /\ at \in Timers(queue) /\ Wait \in Int
                           /\ Wait < 0 => Due(queue)[at] = Wait
         /\ \A u \in Timers(queue) : Due(queue)[u] \in Int /\ Due(queue)[u] >= Late
<1>1. queue \in Queue(T) /\ SortedBut(queue, at)
  BY DEF IInv, Queued
<1>2. ASSUME at # "none"
      PROVE at \in Timers(queue) /\ Wait \in Int /\ Wait >= -L /\ (Wait < 0 => At(queue, at) = 1)
  <2>1. at \in Timers(queue) /\ Wait >= -L /\ (Wait < 0 => At(queue, at) = 1)
    BY <1>2 DEF IInv, Queued
  <2>2. At(queue, at) \in 1 .. Len(queue)
    BY <1>1, <2>1, AtTimer
  <2>3. queue[At(queue, at)].wait \in Int
    BY <1>1, <2>2, QueueType
  <2> QED
    BY <2>1, <2>3 DEF Wait
<1>3. Late \in Int /\ Late <= 0 /\ Late >= -L
  BY <1>2, Positive DEF Late
<1>4. \A u \in Timers(queue) : Due(queue)[u] \in Int
  BY <1>1, DueType
<1>5. CASE at = "none"
  <2>1. Sorted(queue)
    BY <1>5, Free
  <2>2. ASSUME NEW u \in Timers(queue) PROVE Due(queue)[u] >= 0
    <3>1. queue[At(queue, u)].wait \in Nat /\ Due(queue)[u] >= queue[At(queue, u)].wait
      BY <1>1, <2>1, DueSorted
    <3> QED
      BY <1>4, <3>1
  <2>3. Late = 0
    BY <1>5 DEF Late
  <2> QED
    BY <1>3, <1>4, <1>5, <2>2, <2>3
<1>6. CASE at # "none"
  <2> DEFINE b == DueAt(queue, At(queue, at) - 1)
  <2>1. at \in Timers(queue) /\ Wait \in Int /\ Wait >= -L /\ (Wait < 0 => At(queue, at) = 1)
    BY <1>2, <1>6
  <2>2. /\ b >= 0 /\ Due(queue)[at] = b + Wait
        /\ \A u \in Timers(queue) : At(queue, u) < At(queue, at) => Due(queue)[u] >= 0
        /\ \A u \in Timers(queue) : At(queue, u) > At(queue, at) => Due(queue)[u] >= Due(queue)[at]
    BY <1>1, <2>1, DueOrder DEF Wait
  <2>3. b \in Int
    <3>1. At(queue, at) - 1 \in 0 .. Len(queue)
      BY <1>1, <2>1, AtTimer, QueueType
    <3> QED
      BY <1>1, <3>1, DueInt
  <2>4. Wait < 0 => b = 0
    <3>1. Wait < 0 => b = DueAt(queue, 0)
      BY <2>1
    <3>2. DueAt(queue, 0) = 0
      BY DueNext
    <3> QED
      BY <3>1, <3>2
  <2> HIDE DEF b
  <2>5. Late = IF Wait < 0 THEN Wait ELSE 0
    BY <1>6 DEF Late
  <2>6. Due(queue)[at] >= Late /\ (Wait < 0 => Due(queue)[at] = Wait)
    BY <2>1, <2>2, <2>3, <2>4, <2>5
  <2>7. ASSUME NEW u \in Timers(queue) PROVE Due(queue)[u] >= Late
    <3>1. /\ At(queue, u) \in 1 .. Len(queue) /\ At(queue, at) \in 1 .. Len(queue)
            /\ Len(queue) \in Nat
          /\ queue[At(queue, u)].timer = u /\ queue[At(queue, at)].timer = at
      BY <1>1, <2>1, AtTimer, QueueType
    <3>2. CASE At(queue, u) < At(queue, at)
      BY <1>3, <1>4, <2>2, <3>2
    <3>3. CASE At(queue, u) > At(queue, at)
      <4>1. Due(queue)[u] >= Due(queue)[at]
        BY <2>2, <3>3
      <4> QED
        BY <1>3, <1>4, <2>1, <2>6, <4>1
    <3>4. CASE At(queue, u) = At(queue, at)
      <4>1. u = at
        BY <3>1, <3>4
      <4> QED
        BY <2>6, <4>1
    <3> QED
      BY <3>1, <3>2, <3>3, <3>4
  <2> QED
    BY <1>3, <1>4, <2>1, <2>6, <2>7
<1> QED
  BY <1>5, <1>6

\* A timer fires, and is put back or dropped.
LEMMA Fired ==
  ASSUME IInv, NEW t \in T, Fires(t),
         \/ queue' = Delete(queue, t)
         \/ \E s \in Secs : queue' = Insert(Delete(queue, t), t, s)
  PROVE  /\ t \in Timers(queue) /\ at = t /\ at' = After(queue, t) /\ at' # t
         /\ queue' \in Queue(T) /\ Sorted(queue') /\ Early(queue', at')
         /\ Wait \in Int /\ Wait <= 0 /\ Late = Wait
         /\ Due(queue)[t] >= Wait /\ (Wait < 0 => Due(queue)[t] = Wait)
         /\ \A u \in Timers(queue) \ {t} : u \in Timers(queue') /\ Due(queue')[u] = Due(queue)[u] - Late
         /\ queue' = Delete(queue, t) => Timers(queue') = Timers(queue) \ {t}
         /\ \A s \in Secs : queue' = Insert(Delete(queue, t), t, s) =>
              Timers(queue') = Timers(queue) /\ Due(queue')[t] = s
<1>1. /\ queue \in Queue(T) /\ SortedBut(queue, t) /\ Early(queue, t)
      /\ at = t /\ Wait <= 0 /\ at' = After(queue, t) /\ at # "none"
  BY Names DEF IInv, Queued, Fires
<1>2. /\ t \in Timers(queue) /\ Wait \in Int /\ (Wait < 0 => Due(queue)[t] = Wait) /\ Due(queue)[t] >= Late
      /\ \A u \in Timers(queue) : Due(queue)[u] \in Int
  BY <1>1, DueLate
<1>3. at' # t
  BY <1>1, <1>2, AfterIs, Names
<1>4. Late = Wait
  BY <1>1, <1>2 DEF Late
<1>5. ASSUME NEW u \in Timers(queue) \ {t}
      PROVE  (IF At(queue, u) < At(queue, t) \/ queue[At(queue, t)].wait >= 0
              THEN 0 ELSE -queue[At(queue, t)].wait) = -Late
  <2>1. queue[At(queue, t)].wait = Wait
    BY <1>1 DEF Wait
  <2>2. Wait < 0 => ~(At(queue, u) < At(queue, t))
    <3>1. At(queue, u) \in 1 .. Len(queue)
      BY <1>1, AtTimer
    <3>2. Wait < 0 => At(queue, t) = 1
      BY <1>1 DEF IInv, Queued
    <3> QED
      BY <3>1, <3>2
  <2> QED
    BY <1>1, <1>2, <1>4, <2>1, <2>2
<1>6. CASE queue' = Delete(queue, t)
  <2>1. /\ queue' \in Queue(T) /\ Timers(queue') = Timers(queue) \ {t}
        /\ \A u \in Timers(queue) \ {t} :
             Due(queue')[u] = Due(queue)[u] + (IF At(queue, u) < At(queue, t) \/ queue[At(queue, t)].wait >= 0
                                               THEN 0 ELSE -queue[At(queue, t)].wait)
    BY <1>1, <1>2, <1>6, DeleteDue
  <2>2. Sorted(queue') /\ Early(queue', at')
    BY <1>1, <1>2, <1>6, DeleteSorted
  <2>3. \A u \in Timers(queue) \ {t} : Due(queue')[u] = Due(queue)[u] - Late
    <3> TAKE u \in Timers(queue) \ {t}
    <3>1. Due(queue')[u] = Due(queue)[u] + (-Late)
      BY <1>5, <2>1
    <3> QED
      BY <1>1, <1>2, <1>4, <3>1
  <2>4. ASSUME NEW s \in Secs, queue' = Insert(Delete(queue, t), t, s)
        PROVE  FALSE
    <3>1. Timers(queue') = Timers(queue)
      BY <1>1, <1>2, <2>4, AgainDue DEF Secs
    <3> QED
      BY <1>2, <2>1, <3>1
  <2> QED
    BY <1>1, <1>2, <1>3, <1>4, <2>1, <2>2, <2>3, <2>4
<1>7. ASSUME NEW r \in Secs, queue' = Insert(Delete(queue, t), t, r) PROVE
         /\ queue' \in Queue(T) /\ Sorted(queue') /\ Early(queue', at')
         /\ Timers(queue') = Timers(queue)
         /\ \A u \in Timers(queue) \ {t} : Due(queue')[u] = Due(queue)[u] - Late
         /\ \A s \in Secs : queue' = Insert(Delete(queue, t), t, s) => Due(queue')[t] = s
  <2>1. \A s \in Secs : s \in Nat /\ s > 0
    BY DEF Secs
  <2>2. /\ queue' \in Queue(T) /\ Timers(queue') = Timers(queue) /\ Sorted(queue')
          /\ Early(queue', at')
        /\ \A u \in Timers(queue) \ {t} :
             Due(queue')[u] = Due(queue)[u] + (IF At(queue, u) < At(queue, t) \/ queue[At(queue, t)].wait >= 0
                                               THEN 0 ELSE -queue[At(queue, t)].wait)
    BY <1>1, <1>2, <1>7, <2>1, AgainDue
  <2>3. \A u \in Timers(queue) \ {t} : Due(queue')[u] = Due(queue)[u] - Late
    <3> TAKE u \in Timers(queue) \ {t}
    <3>1. Due(queue')[u] = Due(queue)[u] + (-Late)
      BY <1>5, <2>2
    <3> QED
      BY <1>1, <1>2, <1>4, <3>1
  <2>4. \A s \in Secs : queue' = Insert(Delete(queue, t), t, s) => Due(queue')[t] = s
    BY <1>1, <1>2, <2>1, AgainDue
  <2> QED
    BY <2>2, <2>3, <2>4
<1>8. CASE \E s \in Secs : queue' = Insert(Delete(queue, t), t, s)
  <2>1. Timers(queue') = Timers(queue) /\ queue' # Delete(queue, t)
    <3>1. Timers(queue') = Timers(queue)
      BY <1>7, <1>8
    <3>2. queue' = Delete(queue, t) => Timers(queue') = Timers(queue) \ {t}
      BY <1>1, <1>2, DeleteDue
    <3> QED
      BY <1>2, <3>1, <3>2
  <2> QED
    BY <1>1, <1>2, <1>3, <1>4, <1>7, <1>8, <2>1
<1> QED
  BY <1>6, <1>8

\* One save or warning more is one lag more.
LEMMA LagsAre ==
  ASSUME NEW n \in Nat, NEW r \in 8 .. 10
  PROVE  /\ Lags(n, r) \in Nat /\ Lags(n + 1, r) = Lags(n, r) + L
         /\ Lags(n, r) <= L * (n + 2)
         /\ r # 8 => Lags(n, r - 1) = Lags(n, r) + L
<1> DEFINE m == n + (10 - r)
<1>1. m \in Nat /\ m <= n + 2 /\ n + 2 \in Nat
  OBVIOUS
<1>2. n + 1 + (10 - r) = m + 1 /\ n + (10 - (r - 1)) = m + 1
  OBVIOUS
<1> HIDE DEF m
<1>3. L * m \in Nat /\ L * (m + 1) = L * m + L
  BY <1>1, Positive
<1>4. L * m <= L * (n + 2)
  <2>1. PICK k \in Nat : n + 2 = m + k
    <3>1. (n + 2) - m \in Nat /\ n + 2 = m + ((n + 2) - m)
      BY <1>1
    <3> QED
      BY <3>1
  <2>2. L * (m + k) = L * m + L * k /\ L * k \in Nat
    BY <1>1, Positive
  <2> QED
    BY <1>3, <2>1, <2>2
<1>5. Lags(n, r) = L * m /\ Lags(n + 1, r) = L * (m + 1) /\ Lags(n, r - 1) = L * (m + 1)
  BY <1>2 DEF Lags, m
<1> QED
  BY <1>3, <1>4, <1>5

\* The time that the warnings stand.
LEMMA GoneIs ==
  /\ Gone(10) = 0 /\ Gone(9) = Minute /\ Gone(8) = Minute + Idling
  /\ \A r \in 8 .. 10 : Gone(r) \in Nat /\ Gone(r) <= Minute + Idling
<1>1. Gone(10) = 0 /\ Gone(9) = Minute /\ Gone(8) = Minute + Idling
  BY DEF Gone
<1>2. Minute \in Nat /\ Idling \in Nat
  BY Positive DEF Secs
<1>3. ASSUME NEW r \in 8 .. 10 PROVE Gone(r) \in Nat /\ Gone(r) <= Minute + Idling
  <2>1. r = 8 \/ r = 9 \/ r = 10
    OBVIOUS
  <2>2. CASE r = 8
    BY <1>1, <1>2, <2>2
  <2>3. CASE r = 9
    BY <1>1, <1>2, <2>3
  <2>4. CASE r = 10
    BY <1>1, <1>2, <2>4
  <2> QED
    BY <2>1, <2>2, <2>3, <2>4
<1> QED
  BY <1>1, <1>3

\* How many times b fit into a, and once more.
LEMMA DivBound ==
  ASSUME NEW a \in Nat, NEW b \in Secs, NEW n \in Nat, n * b <= a + b
  PROVE  n <= 1 + (a \div b) /\ a \div b \in Nat
<1> DEFINE q == a \div b
<1>1. b \in Nat /\ b > 0
  BY DEF Secs
<1>2. q \in Nat /\ a < (q + 1) * b
  <2>1. q \in Int /\ a = b * q + (a % b) /\ a % b \in 0 .. b - 1
    BY <1>1
  <2> HIDE DEF q
  <2>2. (q + 1) * b = b * q + b
    BY <1>1, <2>1
  <2>3. a < (q + 1) * b
    BY <1>1, <2>1, <2>2
  <2>4. q >= 0
    <3> SUFFICES ASSUME q + 1 <= 0 PROVE FALSE
      BY <2>1
    <3>1. (q + 1) * b <= 0
      BY <1>1, <2>1
    <3>2. (q + 1) * b \in Int
      BY <1>1, <2>1
    <3> QED
      BY <2>3, <3>1, <3>2
  <2> QED
    BY <2>1, <2>3, <2>4
<1> HIDE DEF q
<1>3. n <= 1 + q
  <2> SUFFICES ASSUME n >= q + 2 PROVE FALSE
    BY <1>2
  <2>1. PICK k \in Nat : n = q + 2 + k
    <3>1. n - (q + 2) \in Nat /\ n = q + 2 + (n - (q + 2))
      BY <1>2
    <3> QED
      BY <3>1
  <2>2. n * b = (q + 1) * b + b + k * b
    <3>1. (q + 2 + k) * b = (q + 1) * b + b + k * b
      BY <1>1, <1>2
    <3> QED
      BY <2>1, <3>1
  <2>3. k * b \in Nat /\ (q + 1) * b \in Nat
    BY <1>1, <1>2
  <2>4. n * b \in Int
    BY <1>1
  <2> QED
    BY <1>1, <1>2, <2>2, <2>3, <2>4
<1> QED
  BY <1>2, <1>3 DEF q

\* A user who is silent is never late by more than all lags together.
LEMMA UserInTime ==
  ASSUME IInv, conn \in {"login"} \cup User
  PROVE  InTime
<1> DEFINE a == span + Minute + Idling
           q == a \div SaveTime
<1>1. /\ span \in Nat /\ Minute \in Nat /\ Idling \in Nat /\ SaveTime \in Secs
        /\ SaveTime \in Nat /\ L \in Nat
      /\ silence \in Nat /\ a \in Nat
  BY Positive DEF IInv, Typed, Secs
<1>2. InTime <=> silence <= a + L * (4 + q)
  BY DEF InTime, L
<1> HIDE DEF a, q
<1>3. "idle" \in Timers(queue)
  BY DEF IInv, Stage, User
<1>4. Due(queue)["idle"] \in Int /\ Due(queue)["idle"] >= Late /\ Late \in Int /\ Late >= -L
        /\ Late <= 0
  BY <1>3, DueLate
<1>5. a = span + Minute + Idling
  BY DEF a
<1>6. CASE conn = "login"
  <2>1. silence <= a + L
    BY <1>1, <1>4, <1>5, <1>6 DEF IInv, Silence
  <2>2. 0 * SaveTime <= a + SaveTime
    BY <1>1
  <2>3. q \in Nat
    BY <1>1, <2>2, DivBound DEF q
  <2>4. L * (4 + q) = L + L * (3 + q) /\ L * (3 + q) \in Nat
    BY <1>1, <2>3
  <2> QED
    BY <1>1, <1>2, <2>1, <2>4
<1>7. CASE conn \in User
  <2>1. restart \in 8 .. 10
    BY <1>7 DEF IInv, Stage, User
  <2>2. PICK n \in Nat : Behind(n)
    BY <1>7 DEF IInv, Silence
  <2>3. n * SaveTime <= Past + Late + SaveTime /\ silence <= Past + Lags(n, restart)
    BY <2>2 DEF Behind
  <2>4. Gone(restart) \in Nat /\ Gone(restart) <= Minute + Idling
    BY <2>1, GoneIs
  <2>5. Past = span + Gone(restart) - Due(queue)["idle"]
    BY DEF Past
  <2>6. Past \in Int /\ Past + Late <= a
    BY <1>1, <1>4, <1>5, <2>4, <2>5
  <2>7. n * SaveTime <= a + SaveTime
    <3>1. n * SaveTime \in Nat
      BY <1>1
    <3> QED
      BY <1>1, <1>4, <2>3, <2>6, <3>1
  <2>8. n <= 1 + q /\ q \in Nat
    BY <1>1, <2>7, DivBound DEF q
  <2>9. Lags(n, restart) \in Nat /\ Lags(n, restart) <= L * (n + 2)
    BY <2>1, LagsAre
  <2>10. PICK k \in Nat : 1 + q = n + k
    <3>1. (1 + q) - n \in Nat /\ 1 + q = n + ((1 + q) - n)
      BY <2>8
    <3> QED
      BY <3>1
  <2>11. L * (4 + q) = L * (n + 2) + L * k + L
    <3>1. 4 + q = n + 2 + k + 1
      BY <2>8, <2>10
    <3>2. L * (n + 2 + k + 1) = L * (n + 2) + L * k + L
      BY <1>1
    <3> QED
      BY <3>1, <3>2
  <2>12. L * (n + 2) \in Nat /\ L * k \in Nat
    BY <1>1
  <2>13. silence <= a + L + L * (n + 2)
    BY <1>1, <1>4, <2>3, <2>6, <2>9, <2>12
  <2> QED
    BY <1>1, <1>2, <2>11, <2>12, <2>13
<1> QED
  BY <1>6, <1>7

\* What a queue in order is to the loop.
LEMMA InOrderNow ==
  ASSUME queue' \in Queue(T), at' \in Timers(queue') \cup {"none"}, Sorted(queue'), Early(queue', at')
  PROVE  Queued' /\ Late' = 0
<1>1. SortedBut(queue', at')
  BY DEF Sorted, SortedBut
<1>2. ASSUME at' # "none" PROVE queue'[At(queue', at')].wait \in Nat
  BY <1>2, DueSorted
<1>3. at' # "none" => Wait' >= -L /\ ~(Wait' < 0)
  BY <1>2, Positive DEF Wait
<1> QED
  BY <1>1, <1>3 DEF Queued, Late

\* A handler that resets the idle timer.
LEMMA HandlesStep ==
  ASSUME IInv, NEW q \in Queue(T), Sorted(q), Waiting(q), Timers(q) = Timers(queue),
         "idle" \in Timers(queue), NEW s \in Secs, Handles(q, s)
  PROVE  /\ SetTo(queue', q, s) /\ Timers(queue') = Timers(queue) /\ Queued'
         /\ left' \in [Timers(queue') -> Nat]
         /\ restart' \in 8 .. 10 => Behind(0)'
<1>1. /\ at = "none" /\ queue' = SetIdle(q, s) /\ span' = s /\ SetLeft("idle", s)
      /\ silence' = 0 /\ touched' = TRUE /\ at' = "none"
  BY DEF Handles
<1>2. SetTo(queue', q, s)
  BY <1>1, SetIdleIs
<1>3. queue' \in Queue(T) /\ Timers(queue') = Timers(queue) /\ Sorted(queue')
        /\ Waiting(queue') /\ Due(queue')["idle"] = s
  BY <1>2 DEF SetTo
<1>4. Queued' /\ Late' = 0
  BY <1>1, <1>3, InOrderNow DEF Early
<1>5. left' \in [Timers(queue') -> Nat]
  BY <1>1, <1>3 DEF SetLeft, IInv, Typed, Secs
<1>6. restart' \in 8 .. 10 => Past' = Gone(restart')
  <2>1. Past' = s + Gone(restart') - s
    BY <1>1, <1>3 DEF Past
  <2> QED
    BY <2>1, GoneIs DEF Secs
<1>7. ASSUME restart' \in 8 .. 10 PROVE Behind(0)'
  <2>1. Gone(restart') \in Nat /\ Lags(0, restart') \in Nat /\ SaveTime \in Nat
    BY <1>7, GoneIs, LagsAre, Positive DEF Secs
  <2>2. "save" \in Timers(queue') => Due(queue')["save"] >= 0 /\ Due(queue')["save"] \in Int
    BY <1>2, <1>3, DueType DEF SetTo
  <2>3. 0 * SaveTime = 0
    BY <2>1
  <2>4. "save" \in Timers(queue') => 0 * SaveTime <= Past' + Due(queue')["save"]
    BY <1>6, <1>7, <2>1, <2>2, <2>3
  <2>5. 0 * SaveTime <= Past' + Late' + SaveTime
    BY <1>4, <1>6, <1>7, <2>1, <2>3
  <2>6. silence' <= Past' + Lags(0, restart')
    BY <1>1, <1>6, <1>7, <2>1
  <2> QED
    BY <2>4, <2>5, <2>6 DEF Behind
<1> QED
  BY <1>2, <1>3, <1>4, <1>5, <1>6, <1>7

\* A handler after which nothing is known of the saves.
LEMMA HandlesInv ==
  ASSUME IInv, NEW q \in Queue(T), Sorted(q), Waiting(q), Timers(q) = Timers(queue),
         "idle" \in Timers(queue), NEW s \in {LoginTime, IdleTime, LockTime}, Handles(q, s),
         restart' \in 8 .. 10, action' \in {"login", "user"},
         conn' \in {"login"} \cup User, Stage'
  PROVE  IInv'
<1>1. s \in Secs
  BY Positive
<1>2. /\ SetTo(queue', q, s) /\ Timers(queue') = Timers(queue) /\ Queued'
      /\ left' \in [Timers(queue') -> Nat] /\ Behind(0)'
  BY <1>1, HandlesStep
<1>3. span' = s /\ silence' = 0 /\ touched' = TRUE /\ unsaved' = unsaved
  BY DEF Handles
<1>4. Typed'
  BY <1>2, <1>3 DEF IInv, Typed, User
<1>5. Saving'
  BY <1>3 DEF Saving
<1>6. Due(queue')["idle"] = s
  BY <1>2 DEF SetTo
<1>7. Silence'
  <2>1. silence' + Due(queue')["idle"] <= span'
    BY <1>1, <1>3, <1>6 DEF Secs
  <2>2. conn' # "wait_close"
    BY DEF User
  <2>3. \E n \in Nat : Behind(n)'
    BY <1>2
  <2> QED
    BY <2>1, <2>2, <2>3 DEF Silence
<1> QED
  BY <1>2, <1>4, <1>5, <1>7 DEF IInv

\* A user starts with the login timer.
LEMMA InitInv == Init => IInv
<1> SUFFICES ASSUME Init PROVE IInv
  OBVIOUS
<1> DEFINE q == Insert(<< >>, "idle", LoginTime)
<1>1. << >> \in Queue(T) /\ Timers(<< >>) = {} /\ Sorted(<< >>) /\ Len(<< >>) = 0
  BY EmptyQueue
<1>2. "idle" \in T /\ LoginTime \in Nat /\ LoginTime > 0
  BY Positive, Names DEF Secs
<1>3. q \in Queue(T) /\ Timers(q) = {} \cup {"idle"} /\ Due(q)["idle"] = LoginTime
  BY <1>1, <1>2, InsertDue
<1>4. Sorted(q) /\ (\/ Len(<< >>) > 0
                    \/ q[1].timer = "idle" /\ q[1].wait = LoginTime)
  BY <1>1, <1>2, InsertSorted
<1>5. Waiting(q)
  BY <1>1, <1>2, <1>4 DEF Waiting
<1>6. /\ queue = q /\ conn = "login" /\ span = LoginTime /\ restart = 0 /\ action = "login"
      /\ at = "none" /\ silence = 0 /\ unsaved = 0 /\ touched = FALSE
      /\ left = [t \in {"idle"} |-> LoginTime]
  BY DEF Init
<1> HIDE DEF q
<1>7. Typed
  <2>1. left \in [Timers(queue) -> Nat]
    BY <1>2, <1>3, <1>6
  <2>2. 0 \in 0 .. SaveTime + 2 * MaxLag
    BY Positive DEF Secs
  <2>3. silence \in Nat /\ unsaved \in 0 .. SaveTime + 2 * MaxLag /\ restart \in 0 .. 10
    <3>1. silence = 0 /\ unsaved = 0 /\ restart = 0
      BY <1>6
    <3> QED
      BY <2>2, <3>1
  <2>4. touched \in BOOLEAN
    BY <1>6
  <2>5. conn = "login" /\ span = LoginTime /\ action = "login"
    BY <1>6
  <2> QED
    BY <2>1, <2>3, <2>5, <2>4 DEF Typed
<1>8. Queued
  BY <1>3, <1>4, <1>5, <1>6 DEF Queued, Early, Sorted, SortedBut
<1>9. Stage /\ Saving
  BY <1>3, <1>6, Names DEF Stage, Saving
<1>10. Silence
  BY <1>2, <1>3, <1>6 DEF Silence, User
<1> QED
  BY <1>7, <1>8, <1>9, <1>10 DEF IInv

\* Time passes.
LEMMA SecondInv == IInv /\ Second => IInv'
<1> SUFFICES ASSUME IInv, Second PROVE IInv'
  OBVIOUS
<1>1. PICK d \in 1 .. MaxLag :
        /\ queue' = Elapse(queue, d)
        /\ silence' = silence + d
        /\ unsaved' = IF "save" \in Timers(queue) THEN Cap(unsaved + d) ELSE unsaved
        /\ left' = [t \in DOMAIN left |-> IF left[t] > d THEN left[t] - d ELSE 0]
  BY DEF Second
<1>2. /\ conn \notin {"wait_close", "closed"} /\ at = "none" /\ at' = queue[1].timer
      /\ UNCHANGED <<conn, span, restart, action, touched>>
  BY DEF Second
<1>3. queue \in Queue(T) /\ Sorted(queue) /\ Waiting(queue)
  BY <1>2, Free
<1>4. d \in Nat /\ d > 0 /\ d <= L + 1 /\ d \in Int /\ L \in Nat
  BY Positive DEF L, Secs
<1>5. Len(queue) \in Nat /\ Len(queue) > 0
  <2>1. PICK u : u \in Timers(queue)
    BY <1>2 DEF IInv, Typed, Stage
  <2>2. At(queue, u) \in 1 .. Len(queue) /\ Len(queue) \in Nat
    BY <1>3, <2>1, AtTimer, QueueType
  <2> QED
    BY <2>2
<1>6. /\ queue' \in Queue(T) /\ Timers(queue') = Timers(queue)
      /\ \A u \in Timers(queue) : Due(queue')[u] = Due(queue)[u] - d
      /\ Len(queue') = Len(queue)
      /\ \A i \in 1 .. Len(queue) : /\ queue'[i].timer = queue[i].timer
                                    /\ queue'[i].wait = IF i = 1 THEN queue[i].wait - d ELSE queue[i].wait
  BY <1>1, <1>3, <1>4, ElapseDue
<1>7. 1 \in 1 .. Len(queue)
  BY <1>5
<1>8. queue[1].wait > 0 /\ queue[1].wait \in Int
  BY <1>3, <1>5, <1>7, QueueType DEF Waiting
<1>9. at' \in Timers(queue) /\ queue'[1].timer = at' /\ At(queue', at') = 1 /\ at' # "none"
  <2>1. at' \in Timers(queue) /\ queue'[1].timer = at'
    BY <1>2, <1>3, <1>6, <1>7, DueIs
  <2>2. At(queue', at') = 1
    BY <1>6, <1>7, <2>1, AtTimer
  <2>3. at' # "none"
    BY <1>3, <2>1, DueType, Names
  <2> QED
    BY <2>1, <2>2, <2>3
<1>10. Wait' \in Int /\ Wait' >= -L
  <2>1. Wait' = queue[1].wait - d
    BY <1>6, <1>7, <1>9 DEF Wait
  <2> QED
    BY <1>4, <1>8, <2>1
<1>11. Queued'
  <2>1. SortedBut(queue', at')
    <3>1. DOMAIN queue' = 1 .. Len(queue) /\ DOMAIN queue = 1 .. Len(queue)
      BY <1>3, <1>6, QueueType
    <3>2. ASSUME NEW i \in 1 .. Len(queue), queue'[i].timer # at' PROVE queue'[i].wait >= 0
      <4>1. i # 1
        BY <1>9, <3>2
      <4> QED
        BY <1>3, <1>6, <3>1, <4>1 DEF Sorted
    <3> QED
      BY <3>1, <3>2 DEF SortedBut
  <2>2. Early(queue', at')
    BY <1>5, <1>6, <1>9 DEF Early
  <2> QED
    BY <1>6, <1>9, <1>10, <2>1, <2>2 DEF Queued
<1>12. Stage'
  BY <1>2, <1>6 DEF IInv, Stage
<1>13. unsaved' \in 0 .. SaveTime + 2 * MaxLag /\ ("save" \in Timers(queue) => unsaved' <= unsaved + d)
  <2>1. SaveTime \in Nat /\ MaxLag \in Nat /\ unsaved \in 0 .. SaveTime + 2 * MaxLag
    BY Positive DEF Secs, IInv, Typed
  <2>2. Cap(unsaved + d) \in 0 .. SaveTime + 2 * MaxLag /\ Cap(unsaved + d) <= unsaved + d
    BY <1>4, <2>1 DEF Cap
  <2> QED
    BY <1>1, <2>1, <2>2
<1>14. Typed'
  <2>1. silence' \in Nat
    BY <1>1, <1>4 DEF IInv, Typed
  <2>2. left' \in [Timers(queue') -> Nat]
    BY <1>1, <1>4, <1>6 DEF IInv, Typed
  <2> QED
    BY <1>2, <1>13, <2>1, <2>2 DEF IInv, Typed
<1>15. \A u \in Timers(queue) : Due(queue)[u] \in Int /\ Due(queue)[u] >= Late
  BY DueLate
<1>16. Saving'
  <2> SUFFICES ASSUME conn \in {"online", "locked"}, touched = FALSE
               PROVE  unsaved' + Due(queue')["save"] <= SaveTime + Lags(0, restart)
    BY <1>2 DEF Saving, IInv, Typed
  <2>1. "save" \in Timers(queue) /\ unsaved + Due(queue)["save"] <= SaveTime + Lags(0, restart)
    BY DEF IInv, Stage, Saving
  <2>2. restart \in 8 .. 10
    BY DEF IInv, Stage
  <2>3. Lags(0, restart) \in Nat /\ SaveTime \in Nat
    BY <2>2, LagsAre, Positive DEF Secs
  <2> QED
    BY <1>4, <1>6, <1>13, <1>15, <2>1, <2>3 DEF IInv, Typed
<1>17. conn = "login" => silence' + Due(queue')["idle"] <= span'
  <2> SUFFICES ASSUME conn = "login" PROVE silence + d + (Due(queue)["idle"] - d) <= span
    BY <1>1, <1>2, <1>6 DEF IInv, Stage
  <2>1. "idle" \in Timers(queue) /\ silence + Due(queue)["idle"] <= span
    BY DEF IInv, Stage, Silence
  <2>2. span \in Nat /\ silence \in Nat
    BY Positive DEF IInv, Typed, Secs
  <2> QED
    BY <1>4, <1>15, <2>1, <2>2
<1>18. ASSUME conn \in User PROVE \E n \in Nat : Behind(n)'
  <2>1. PICK n \in Nat : Behind(n)
    BY <1>18 DEF IInv, Silence
  <2>2. restart \in 8 .. 10 /\ "idle" \in Timers(queue)
    BY <1>18 DEF IInv, Stage, User
  <2>3. span \in Nat /\ silence \in Nat /\ Lags(n, restart) \in Nat /\ Gone(restart) \in Nat
          /\ SaveTime \in Nat
    BY <2>2, LagsAre, GoneIs, Positive DEF IInv, Typed, Secs
  <2>4. Past = span + Gone(restart) - Due(queue)["idle"]
          /\ Past' = span + Gone(restart) - (Due(queue)["idle"] - d)
    BY <1>2, <1>6, <2>2 DEF Past
  <2>5. Past \in Int /\ Past' = Past + d
    BY <1>4, <1>15, <2>2, <2>3, <2>4
  <2>6. Late \in Int /\ Late <= 0 /\ Late' \in Int /\ Late' + d \in Nat
    <3>1. Late \in Int /\ Late <= 0
      BY DueLate
    <3>2. Wait' + d \in Nat
      <4>1. Wait' = queue[1].wait - d
        BY <1>6, <1>7, <1>9 DEF Wait
      <4> QED
        BY <1>4, <1>8, <4>1
    <3>3. Late' = IF Wait' < 0 THEN Wait' ELSE 0
      BY <1>9 DEF Late
    <3>4. (Late' = Wait') \/ (Late' = 0)
      BY <3>3
    <3>5. Late' \in Int
      BY <1>10, <3>4
    <3>6. Late' + d \in Nat
      BY <1>4, <3>2, <3>4
    <3> QED
      BY <3>1, <3>5, <3>6
  <2>7. n * SaveTime \in Nat
    BY <2>3
  <2>8. /\ "save" \in Timers(queue) => n * SaveTime <= Past + Due(queue)["save"]
        /\ n * SaveTime <= Past + Late + SaveTime
        /\ silence <= Past + Lags(n, restart)
    BY <2>1 DEF Behind
  <2>9. "save" \in Timers(queue') => n * SaveTime <= Past' + Due(queue')["save"]
    BY <1>4, <1>6, <1>15, <2>5, <2>7, <2>8
  <2>10. n * SaveTime <= Past' + Late' + SaveTime
    <3> DEFINE m == n * SaveTime
    <3>1. m \in Nat /\ m <= Past + Late + SaveTime
      BY <2>7, <2>8
    <3> HIDE DEF m
    <3>2. Past' \in Int
      BY <1>4, <2>5
    <3>3. \A p, l, k, e \in Int, t \in Nat : l <= 0 /\ k + e \in Nat /\ m <= p + l + t => m <= (p + e) + k + t
      BY <3>1
    <3>4. m <= Past' + Late' + SaveTime
      BY <1>4, <2>3, <2>5, <2>6, <3>1, <3>3
    <3> QED
      BY <3>4 DEF m
  <2>11. silence' <= Past' + Lags(n, restart')
    BY <1>1, <1>2, <1>4, <2>3, <2>5, <2>8
  <2> QED
    BY <2>9, <2>10, <2>11 DEF Behind
<1>19. Silence'
  BY <1>2, <1>17, <1>18 DEF Silence
<1> QED
  BY <1>11, <1>12, <1>14, <1>16, <1>19 DEF IInv

\* A key or a break that resets the idle timer.
LEMMA HandlersInv == IInv /\ (Key \/ DisplayMotd \/ Lock \/ LockBreak \/ Unlock) => IInv'
<1> SUFFICES ASSUME IInv, Key \/ DisplayMotd \/ Lock \/ LockBreak \/ Unlock PROVE IInv'
  OBVIOUS
<1>1. at = "none" /\ "idle" \in Timers(queue) /\ span \in {LoginTime, IdleTime, LockTime}
        /\ Stage /\ Typed
  BY DEF IInv, Stage, Typed, Key, DisplayMotd, Lock, LockBreak, Unlock, Handles
<1>2. queue \in Queue(T) /\ Sorted(queue) /\ Waiting(queue)
  BY <1>1, Free
<1>3. LoginTime \in Secs /\ IdleTime \in Secs /\ LockTime \in Secs
  BY Positive
<1>4. SetTo(SetIdle(queue, span), queue, span)
  BY <1>1, <1>2, <1>3, SetIdleIs
<1> DEFINE q == SetIdle(queue, span)
<1>5. q \in Queue(T) /\ Sorted(q) /\ Waiting(q) /\ Timers(q) = Timers(queue)
  BY <1>4 DEF SetTo
<1> HIDE DEF q
<1>6. ASSUME NEW p \in Queue(T), Sorted(p), Waiting(p), Timers(p) = Timers(queue),
             NEW s \in {LoginTime, IdleTime, LockTime}, Handles(p, s)
      PROVE  Timers(queue') = Timers(queue) /\ span' = s
  BY <1>1, <1>3, <1>6, HandlesStep DEF Handles
<1>7. CASE Key
  <2>1. Handles(queue, span) /\ restart' = 10 /\ conn' = conn /\ action' = action
          /\ conn \in {"login", "motd", "online"}
    BY <1>7 DEF Key
  <2>2. Timers(queue') = Timers(queue) /\ span' = span
    BY <1>1, <1>2, <1>6, <2>1
  <2>3. Stage'
    BY <1>1, <2>1, <2>2 DEF Stage
  <2> QED
    BY <1>1, <1>2, <2>1, <2>3, HandlesInv DEF User, Typed
<1>8. CASE DisplayMotd
  <2>1. Handles(q, IdleTime) /\ restart' = 10 /\ action' = "user" /\ conn = "login"
          /\ conn' = "motd"
    BY <1>8 DEF DisplayMotd, q
  <2>2. Timers(queue') = Timers(queue) /\ span' = IdleTime
    BY <1>5, <1>6, <2>1
  <2>3. Stage'
    BY <1>1, <2>1, <2>2 DEF Stage
  <2> QED
    BY <1>1, <1>5, <2>1, <2>3, HandlesInv DEF User
<1>9. CASE Lock
  <2>1. Handles(q, LockTime) /\ restart' = 10 /\ action' = action /\ conn = "online"
          /\ conn' = "locked"
    BY <1>9 DEF Lock, q
  <2>2. Timers(queue') = Timers(queue) /\ span' = LockTime
    BY <1>5, <1>6, <2>1
  <2>3. Stage'
    BY <1>1, <2>1, <2>2 DEF Stage
  <2> QED
    BY <1>1, <1>5, <2>1, <2>3, HandlesInv DEF User, Typed
<1>10. CASE LockBreak
  <2>1. Handles(queue, LockTime) /\ restart' = restart /\ action' = action /\ conn = "locked"
          /\ conn' = conn
    BY <1>10 DEF LockBreak
  <2>2. Timers(queue') = Timers(queue) /\ span' = LockTime
    BY <1>2, <1>6, <2>1
  <2>3. Stage' /\ restart' \in 8 .. 10
    BY <1>1, <2>1, <2>2 DEF Stage
  <2> QED
    BY <1>1, <1>2, <2>1, <2>3, HandlesInv DEF User, Typed
<1>11. CASE Unlock
  <2>1. Handles(queue, IdleTime) /\ restart' = restart /\ action' = action /\ conn = "locked"
          /\ conn' = "online"
    BY <1>11 DEF Unlock
  <2>2. Timers(queue') = Timers(queue) /\ span' = IdleTime
    BY <1>2, <1>6, <2>1
  <2>3. Stage' /\ restart' \in 8 .. 10
    BY <1>1, <2>1, <2>2 DEF Stage
  <2> QED
    BY <1>1, <1>2, <2>1, <2>3, HandlesInv DEF User, Typed
<1> QED
  BY <1>7, <1>8, <1>9, <1>10, <1>11

\* The queue of a user who goes online.
LEMMA GoOnlineStep ==
  ASSUME IInv, GoOnline
  PROVE  /\ queue' \in Queue(T) /\ Sorted(queue') /\ Waiting(queue')
         /\ Timers(queue') = {"idle", "save"}
         /\ Due(queue')["idle"] = span /\ Due(queue')["save"] = SaveTime
<1> DEFINE q == SetIdle(queue, span)
<1>1. at = "none" /\ Timers(queue) = {"idle"} /\ span \in Secs
        /\ queue' = Insert(q, "save", SaveTime)
  BY Positive DEF GoOnline, IInv, Stage, Typed
<1>2. queue \in Queue(T) /\ Sorted(queue) /\ Waiting(queue)
  BY <1>1, Free
<1>3. SetTo(q, queue, span)
  BY <1>1, <1>2, SetIdleIs
<1>4. q \in Queue(T) /\ Timers(q) = {"idle"} /\ Sorted(q) /\ Waiting(q) /\ Due(q)["idle"] = span
  BY <1>1, <1>3 DEF SetTo
<1> HIDE DEF q
<1>5. "save" \in T /\ "save" \notin Timers(q) /\ SaveTime \in Nat /\ SaveTime > 0
  BY <1>4, Names, Positive DEF Secs
<1>6. /\ queue' \in Queue(T) /\ Timers(queue') = Timers(q) \cup {"save"}
      /\ Due(queue')["save"] = SaveTime /\ \A u \in Timers(q) : Due(queue')[u] = Due(q)[u]
  BY <1>1, <1>4, <1>5, InsertDue
<1>7. /\ Sorted(queue') /\ Len(queue') > 0
      /\ \/ Len(q) > 0 /\ queue'[1] = q[1]
         \/ queue'[1].timer = "save" /\ queue'[1].wait = SaveTime
  BY <1>1, <1>4, <1>5, InsertSorted
<1>8. Waiting(queue')
  BY <1>4, <1>5, <1>7 DEF Waiting
<1> QED
  BY <1>4, <1>6, <1>7, <1>8

\* All times start anew.
LEMMA GoOnlineInv == IInv /\ GoOnline => IInv'
<1> SUFFICES ASSUME IInv, GoOnline PROVE IInv'
  OBVIOUS
<1>1. /\ queue' \in Queue(T) /\ Sorted(queue') /\ Waiting(queue')
      /\ Timers(queue') = {"idle", "save"}
      /\ Due(queue')["idle"] = span /\ Due(queue')["save"] = SaveTime
  BY GoOnlineStep
<1>2. /\ conn = "motd" /\ conn' = "online" /\ at = "none" /\ restart' = 10
      /\ silence' = 0 /\ unsaved' = 0 /\ touched' = FALSE
      /\ left' = [t \in {"idle", "save"} |-> IF t = "idle" THEN span ELSE SaveTime]
      /\ UNCHANGED <<span, action, at>>
  BY DEF GoOnline
<1>3. Typed /\ Stage /\ span \in Nat /\ SaveTime \in Nat /\ L \in Nat
  BY Positive DEF IInv, Typed, Secs
<1>4. Queued' /\ Late' = 0
  BY <1>1, <1>2, InOrderNow DEF Early
<1>5. Typed'
  <2>1. left' \in [Timers(queue') -> Nat]
    BY <1>1, <1>2, <1>3
  <2>2. unsaved' \in 0 .. SaveTime + 2 * MaxLag
    BY <1>2, Positive DEF Secs
  <2>3. restart' \in 0 .. 10 /\ silence' \in Nat
    BY <1>2
  <2>4. touched' \in BOOLEAN
    BY <1>2
  <2> QED
    BY <1>2, <1>3, <2>1, <2>2, <2>3, <2>4 DEF Typed
<1>6. Stage'
  BY <1>1, <1>2, <1>3 DEF Stage
<1>7. Gone(10) = 0 /\ Lags(0, 10) \in Nat
  BY GoneIs, LagsAre
<1>8. Saving'
  <2>1. unsaved' + Due(queue')["save"] <= SaveTime + Lags(0, restart')
    BY <1>1, <1>2, <1>3, <1>7
  <2> QED
    BY <2>1 DEF Saving
<1>9. Past' = 0
  <2>1. Past' = span + 0 - span
    BY <1>1, <1>2, <1>7 DEF Past
  <2> QED
    BY <1>3, <2>1
<1>10. Behind(0)'
  <2>1. 0 * SaveTime <= Past' + Due(queue')["save"]
    BY <1>1, <1>3, <1>9
  <2>2. 0 * SaveTime <= Past' + Late' + SaveTime
    BY <1>3, <1>4, <1>9
  <2>3. silence' <= Past' + Lags(0, restart')
    BY <1>2, <1>7, <1>9
  <2> QED
    BY <2>1, <2>2, <2>3 DEF Behind
<1>11. Silence'
  <2>1. 0 \in Nat
    OBVIOUS
  <2> QED
    BY <1>2, <1>10, <2>1 DEF Silence
<1> QED
  BY <1>4, <1>5, <1>6, <1>8, <1>11 DEF IInv

\* Who closes was in time.
LEMMA CloseInv == IInv /\ (Close \/ WaitClose) => IInv'
<1>1. ASSUME IInv, Close PROVE IInv'
  <2>1. /\ conn \in {"login"} \cup User /\ conn' = "wait_close"
        /\ UNCHANGED <<queue, span, restart, action, at, silence, unsaved, touched, left>>
    BY <1>1 DEF Close, User
  <2>2. InTime
    BY <1>1, <2>1, UserInTime
  <2>3. Typed'
    BY <1>1, <2>1 DEF IInv, Typed
  <2>4. Queued'
    BY <1>1, <2>1 DEF IInv, Queued, Wait
  <2>5. Stage'
    BY <1>1, <2>1 DEF IInv, Stage, User
  <2>6. Saving'
    BY <2>1 DEF Saving
  <2>7. Silence'
    BY <2>1, <2>2 DEF Silence, User, InTime
  <2> QED
    BY <2>3, <2>4, <2>5, <2>6, <2>7 DEF IInv
<1>2. ASSUME IInv, WaitClose PROVE IInv'
  <2>1. /\ conn' = "wait_close2" /\ queue' = Insert(<< >>, "logout", LogoutTime) /\ at = "none"
        /\ left' = [t \in {"logout"} |-> LogoutTime]
        /\ UNCHANGED <<span, restart, action, at, silence, unsaved, touched>>
    BY <1>2 DEF WaitClose
  <2>2. << >> \in Queue(T) /\ Timers(<< >>) = {} /\ Sorted(<< >>) /\ Len(<< >>) = 0
    BY EmptyQueue
  <2>3. "logout" \in T /\ LogoutTime \in Nat /\ LogoutTime > 0
    BY Positive, Names DEF Secs
  <2>4. queue' \in Queue(T) /\ Timers(queue') = {} \cup {"logout"}
    BY <2>1, <2>2, <2>3, InsertDue
  <2>5. Sorted(queue') /\ (\/ Len(<< >>) > 0
                           \/ queue'[1].timer = "logout" /\ queue'[1].wait = LogoutTime)
    BY <2>1, <2>2, <2>3, InsertSorted
  <2>6. Waiting(queue')
    BY <2>2, <2>3, <2>5 DEF Waiting
  <2>7. Queued'
    BY <2>1, <2>4, <2>5, <2>6, InOrderNow DEF Early
  <2>8. Typed'
    <3>1. left' \in [Timers(queue') -> Nat]
      BY <2>1, <2>3, <2>4
    <3> QED
      BY <1>2, <2>1, <3>1 DEF IInv, Typed
  <2>9. Stage' /\ Saving' /\ Silence'
    BY <2>1, <2>4 DEF Stage, Saving, Silence, User
  <2> QED
    BY <2>7, <2>8, <2>9 DEF IInv
<1> QED
  BY <1>1, <1>2

\* When the loop is over no timer is due.
LEMMA DoneInv == IInv /\ Done => IInv'
<1> SUFFICES ASSUME IInv, Done PROVE IInv'
  OBVIOUS
<1>1. /\ at # "none" /\ Wait > 0 /\ at' = "none"
      /\ UNCHANGED <<conn, queue, span, restart, action, silence, unsaved, touched, left>>
  BY DEF Done
<1>2. queue \in Queue(T) /\ at \in Timers(queue) /\ SortedBut(queue, at) /\ Early(queue, at)
  BY <1>1 DEF IInv, Queued
<1>3. Wait \in Int /\ At(queue, at) \in 1 .. Len(queue) /\ Len(queue) \in Nat
  BY <1>1, <1>2, DueLate, AtTimer, QueueType
<1>4. Sorted(queue)
  <2>1. DOMAIN queue = 1 .. Len(queue)
    BY <1>2, QueueType
  <2>2. ASSUME NEW i \in 1 .. Len(queue) PROVE queue[i].wait >= 0
    <3>1. CASE queue[i].timer = at
      <4>1. At(queue, at) = i
        BY <1>2, <3>1, AtTimer
      <4>2. queue[i].wait = Wait
        BY <4>1 DEF Wait
      <4> QED
        BY <1>1, <1>3, <4>2
    <3>2. CASE queue[i].timer # at
      BY <1>2, <2>1, <3>2 DEF SortedBut
    <3> QED
      BY <3>1, <3>2
  <2> QED
    BY <2>1, <2>2 DEF Sorted
<1>5. Waiting(queue)
  <2>1. CASE Len(queue) > 0 /\ queue[1].timer = at
    <3>1. 1 \in 1 .. Len(queue)
      BY <1>3, <2>1
    <3>2. At(queue, at) = 1
      BY <1>2, <2>1, <3>1, AtTimer
    <3> QED
      BY <1>1, <3>2 DEF Waiting, Wait
  <2> QED
    BY <1>2, <2>1 DEF Early
<1>6. Queued' /\ Late' = 0
  BY <1>1, <1>2, <1>4, <1>5, InOrderNow DEF Early
<1>7. ~(Late < 0) /\ Late \in Int /\ Late <= 0
  BY <1>1, <1>3, DueLate DEF Late
<1>8. Late = Late'
  <2>1. Late = 0
    BY <1>7
  <2> QED
    BY <1>6, <2>1
<1>9. Typed' /\ Stage' /\ Saving'
  BY <1>1 DEF IInv, Typed, Stage, Saving
<1>10. \A n \in Nat : Behind(n) => Behind(n)'
  <2>1. Past' = Past
    BY <1>1 DEF Past
  <2> QED
    BY <1>1, <1>8, <2>1 DEF Behind
<1>11. Silence'
  BY <1>1, <1>10 DEF IInv, Silence, InTime
<1> QED
  BY <1>6, <1>9, <1>11 DEF IInv

\* What the loop does to the times when a timer fires.
LEMMA FiredTypes ==
  ASSUME IInv, NEW t \in T, Fires(t), NEW s \in Secs,
         \/ queue' = Delete(queue, t) /\ NoneLeft(t)
         \/ queue' = Insert(Delete(queue, t), t, s) /\ SetLeft(t, s)
  PROVE  Queued' /\ Late' = 0 /\ left' \in [Timers(queue') -> Nat]
<1>1. DOMAIN left = Timers(queue) /\ left \in [Timers(queue) -> Nat] /\ s \in Nat
  BY DEF IInv, Typed, Secs
<1>2. t \in Timers(queue) /\ at' = After(queue, t) /\ at' # t /\ queue' \in Queue(T)
        /\ Sorted(queue') /\ Early(queue', at')
      /\ queue \in Queue(T)
  BY Fired DEF IInv, Queued
<1>3. at' \in (Timers(queue) \ {t}) \cup {"none"}
  BY <1>2, AfterIs
<1>4. CASE queue' = Delete(queue, t) /\ NoneLeft(t)
  <2>1. Timers(queue') = Timers(queue) \ {t}
    BY <1>4, Fired
  <2>2. Queued' /\ Late' = 0
    BY <1>2, <1>3, <2>1, InOrderNow
  <2> QED
    BY <1>1, <1>4, <2>1, <2>2 DEF NoneLeft
<1>5. CASE queue' = Insert(Delete(queue, t), t, s) /\ SetLeft(t, s)
  <2>1. Timers(queue') = Timers(queue)
    BY <1>5, Fired
  <2>2. Queued' /\ Late' = 0
    BY <1>2, <1>3, <2>1, InOrderNow
  <2> QED
    BY <1>1, <1>2, <1>5, <2>1, <2>2 DEF SetLeft
<1> QED
  BY <1>4, <1>5

\* A warning.
LEMMA WarningInv ==
  ASSUME IInv, Fires("idle"), action = "user", NEW s \in Secs, Warning(s),
         restart \in {9, 10}, Gone(restart - 1) = Gone(restart) + s,
         UNCHANGED <<span, action, silence, unsaved, touched>>
  PROVE  IInv'
<1>1. Typed /\ Stage /\ Saving /\ Silence
  BY DEF IInv
<1>2. /\ queue' = Insert(Delete(queue, "idle"), "idle", s) /\ SetLeft("idle", s)
      /\ restart' = restart - 1 /\ conn' = conn
  BY DEF Warning, PutBack
<1>3. Queued' /\ Late' = 0 /\ left' \in [Timers(queue') -> Nat]
  BY <1>2, FiredTypes, Names
<1>4. /\ "idle" \in Timers(queue) /\ Wait \in Int /\ Late = Wait /\ Wait <= 0
      /\ Due(queue)["idle"] >= Late
      /\ Timers(queue') = Timers(queue) /\ Due(queue')["idle"] = s
      /\ \A u \in Timers(queue) \ {"idle"} : Due(queue')[u] = Due(queue)[u] - Late
  BY <1>2, Fired, Names
<1>5. Typed'
  BY <1>1, <1>2, <1>3 DEF Typed
<1>6. Stage'
  BY <1>1, <1>2, <1>4 DEF Stage
<1>7. Late \in Int /\ Late <= 0 /\ Late >= -L /\ \A u \in Timers(queue) : Due(queue)[u] \in Int
  BY DueLate
<1>8. span \in Nat /\ SaveTime \in Nat /\ unsaved \in Nat /\ silence \in Nat /\ s \in Nat
        /\ L \in Nat /\ Minute \in Nat /\ Idling \in Nat
  BY <1>1, Positive DEF Typed, Secs
<1>9. \A n \in Nat : Lags(n, restart) \in Nat /\ Lags(n, restart') = Lags(n, restart) + L
  BY <1>2, LagsAre
<1>10. Saving'
  <2> SUFFICES ASSUME conn \in {"online", "locked"}, ~touched
               PROVE  unsaved + Due(queue')["save"] <= SaveTime + Lags(0, restart')
    BY <1>2 DEF Saving
  <2>1. "save" \in Timers(queue) \ {"idle"}
          /\ unsaved + Due(queue)["save"] <= SaveTime + Lags(0, restart)
    BY <1>1 DEF Stage, Saving
  <2>2. Due(queue')["save"] = Due(queue)["save"] - Late /\ Due(queue)["save"] \in Int
    BY <1>4, <1>7, <2>1
  <2>3. Lags(0, restart) \in Nat /\ Lags(0, restart') = Lags(0, restart) + L
    BY <1>9
  <2> QED
    BY <1>7, <1>8, <2>1, <2>2, <2>3
<1>11. ASSUME conn \in User PROVE \E n \in Nat : Behind(n)'
  <2>1. PICK n \in Nat : Behind(n)
    BY <1>1, <1>11 DEF Silence
  <2>2. /\ "save" \in Timers(queue) => n * SaveTime <= Past + Due(queue)["save"]
        /\ n * SaveTime <= Past + Late + SaveTime
        /\ silence <= Past + Lags(n, restart)
    BY <2>1 DEF Behind
  <2>3. Past = span + Gone(restart) - Due(queue)["idle"] /\ Past' = span + Gone(restart') - s
    BY <1>4 DEF Past
  <2>4. Gone(restart) \in Nat /\ Gone(restart') = Gone(restart) + s
    BY <1>2, GoneIs
  <2>5. PICK p \in Int : Past' = p /\ p >= Past + Late /\ Past \in Int
    <3>1. Past' \in Int /\ Past' >= Past + Late /\ Past \in Int
      BY <1>4, <1>7, <1>8, <2>3, <2>4
    <3> QED
      BY <3>1
  <2> DEFINE m == n * SaveTime
  <2>6. m \in Nat
    BY <1>8
  <2>7. /\ "save" \in Timers(queue) => m <= Past + Due(queue)["save"]
        /\ m <= Past + Late + SaveTime
    BY <2>2
  <2> HIDE DEF m
  <2>8. ASSUME "save" \in Timers(queue) PROVE m <= Past' + Due(queue')["save"]
    <3>1. Due(queue')["save"] = Due(queue)["save"] - Late /\ Due(queue)["save"] \in Int
      BY <1>4, <1>7, <2>8
    <3> QED
      BY <1>7, <2>5, <2>6, <2>7, <2>8, <3>1
  <2>9. m <= Past' + Late' + SaveTime
    <3>1. m <= p + SaveTime /\ p + SaveTime = p + 0 + SaveTime
      BY <1>7, <1>8, <2>5, <2>6, <2>7
    <3> QED
      BY <1>3, <2>5, <3>1
  <2>10. silence' <= Past' + Lags(n, restart')
    <3>1. Lags(n, restart) \in Nat /\ Lags(n, restart') = Lags(n, restart) + L
      BY <1>9
    <3> QED
      BY <1>7, <1>8, <2>2, <2>5, <3>1
  <2> QED
    BY <1>4, <2>8, <2>9, <2>10 DEF Behind, m
<1>12. Silence'
  <2>1. conn # "login"
    BY <1>1 DEF Stage
  <2>2. InTime' = InTime
    BY DEF InTime
  <2> QED
    BY <1>1, <1>2, <1>11, <2>1, <2>2 DEF Silence
<1> QED
  BY <1>3, <1>5, <1>6, <1>10, <1>12 DEF IInv

\* The idle timer ends the session; it may fire again before that is done.
LEMMA EndInv ==
  ASSUME IInv, Fires("idle"), action = "login" \/ restart < 9, conn' = "wait_close",
         restart' = IF restart > 0 THEN restart - 1 ELSE 0,
         \/ queue' = Delete(queue, "idle") /\ NoneLeft("idle")
         \/ PutBack(span),
         UNCHANGED <<span, action, silence, unsaved, touched>>
  PROVE  IInv'
<1>1. span \in Secs /\ Typed /\ Stage /\ Silence
  BY Positive DEF IInv, Typed
<1>2. Queued' /\ left' \in [Timers(queue') -> Nat]
  BY <1>1, FiredTypes, Names DEF PutBack
<1>3. "idle" \in Timers(queue) /\ (Timers(queue') = Timers(queue) \/ Timers(queue') = Timers(queue) \ {"idle"})
  BY <1>1, Fired, Names DEF PutBack
<1>4. InTime
  <2>1. conn \in {"login", "wait_close"} \cup User
    BY <1>1, <1>3 DEF Typed, Stage, User
  <2>2. conn \in {"login"} \cup User => InTime
    BY UserInTime
  <2> QED
    BY <1>1, <2>1, <2>2 DEF Silence
<1>5. Typed'
  <2>1. restart' \in 0 .. 10
    BY <1>1 DEF Typed
  <2> QED
    BY <1>1, <1>2, <2>1 DEF Typed
<1>6. Stage'
  BY <1>1, <1>3 DEF Stage, Typed
<1>7. Saving'
  BY DEF Saving
<1>8. Silence'
  BY <1>4 DEF Silence, InTime, User
<1> QED
  BY <1>2, <1>5, <1>6, <1>7, <1>8 DEF IInv

\* The idle timer warns or ends the session.
LEMMA FireIdleInv == IInv /\ FireIdle => IInv'
<1> SUFFICES ASSUME IInv, FireIdle PROVE IInv'
  OBVIOUS
<1>1. Fires("idle") /\ UNCHANGED <<span, action, silence, unsaved, touched>> /\ Minute \in Secs
        /\ Idling \in Secs
  BY Positive DEF FireIdle
<1>2. CASE action = "user" /\ restart = 10 /\ Warning(Minute)
  <2>1. Gone(restart - 1) = Gone(restart) + Minute
    BY <1>1, <1>2, GoneIs DEF Secs
  <2>2. restart \in {9, 10} /\ action = "user" /\ Warning(Minute)
    BY <1>2
  <2> QED
    BY <1>1, <2>1, <2>2, WarningInv
<1>3. CASE action = "user" /\ restart = 9 /\ Warning(Idling)
  <2>1. Gone(restart - 1) = Gone(restart) + Idling
    BY <1>1, <1>3, GoneIs DEF Secs
  <2>2. restart \in {9, 10} /\ action = "user" /\ Warning(Idling)
    BY <1>3
  <2> QED
    BY <1>1, <2>1, <2>2, WarningInv
<1>4. CASE /\ action = "login" \/ restart < 9
           /\ conn' = "wait_close"
           /\ restart' = IF restart > 0 THEN restart - 1 ELSE 0
           /\ \/ queue' = Delete(queue, "idle") /\ NoneLeft("idle")
              \/ PutBack(span)
  BY <1>1, <1>4, EndInv
<1> QED
  BY <1>2, <1>3, <1>4 DEF FireIdle

\* The logout timer was the last one.
LEMMA FireLogoutInv == IInv /\ FireLogout => IInv'
<1> SUFFICES ASSUME IInv, FireLogout PROVE IInv'
  OBVIOUS
<1>1. /\ Fires("logout") /\ conn' = "closed" /\ queue' = Delete(queue, "logout")
        /\ NoneLeft("logout")
      /\ UNCHANGED <<span, restart, action, silence, unsaved, touched>> /\ "logout" \in T
      /\ 1 \in Secs
  BY Names DEF FireLogout, Secs
<1>2. Queued' /\ left' \in [Timers(queue') -> Nat]
  BY <1>1, FiredTypes
<1>3. "logout" \in Timers(queue) /\ Timers(queue') = Timers(queue) \ {"logout"}
  BY <1>1, Fired
<1>4. Timers(queue') = {}
  BY <1>3 DEF IInv, Stage, Typed
<1>5. Typed' /\ Stage' /\ Saving' /\ Silence'
  BY <1>1, <1>2, <1>4 DEF IInv, Typed, Stage, Saving, Silence, User
<1> QED
  BY <1>2, <1>5 DEF IInv

\* The timer of periodic saving starts anew; if it was late, that is one save more.
LEMMA FireSaveInv == IInv /\ FireSave => IInv'
<1> SUFFICES ASSUME IInv, FireSave PROVE IInv'
  OBVIOUS
<1>1. Typed /\ Stage /\ Silence
  BY DEF IInv
<1>2. /\ Fires("save") /\ queue' = Insert(Delete(queue, "save"), "save", SaveTime)
      /\ unsaved' = 0 /\ touched' = FALSE /\ SetLeft("save", SaveTime)
      /\ UNCHANGED <<conn, span, restart, action, silence>> /\ "save" \in T /\ SaveTime \in Secs
  BY Names, Positive DEF FireSave
<1>3. Queued' /\ Late' = 0 /\ left' \in [Timers(queue') -> Nat]
  BY <1>2, FiredTypes
<1>4. /\ "save" \in Timers(queue) /\ Wait \in Int /\ Late = Wait /\ Wait <= 0
      /\ Wait < 0 => Due(queue)["save"] = Wait
      /\ Timers(queue') = Timers(queue) /\ Due(queue')["save"] = SaveTime
      /\ \A u \in Timers(queue) \ {"save"} : Due(queue')[u] = Due(queue)[u] - Late
  BY <1>2, Fired
<1>5. span \in Nat /\ SaveTime \in Nat /\ silence \in Nat /\ L \in Nat
  BY <1>1, Positive DEF Typed, Secs
<1>6. Typed'
  <2>1. 0 \in 0 .. SaveTime + 2 * MaxLag
    BY Positive DEF Secs
  <2>2. unsaved' \in 0 .. SaveTime + 2 * MaxLag
    BY <1>2, <2>1
  <2>3. touched' \in BOOLEAN
    BY <1>2
  <2> QED
    BY <1>1, <1>2, <1>3, <2>2, <2>3 DEF Typed
<1>7. Stage'
  BY <1>1, <1>2, <1>4 DEF Stage
<1>8. Late \in Int /\ Late <= 0 /\ Late >= -L /\ \A u \in Timers(queue) : Due(queue)[u] \in Int
  BY DueLate
<1>9. conn \in User \cup {"wait_close"} /\ (conn \in User => restart \in 8 .. 10)
  BY <1>1, <1>4 DEF Typed, Stage, User
<1>10. Saving'
  <2> SUFFICES ASSUME conn \in {"online", "locked"}
               PROVE  unsaved' + Due(queue')["save"] <= SaveTime + Lags(0, restart')
    BY <1>2 DEF Saving
  <2>1. Lags(0, restart) \in Nat
    BY <1>9, LagsAre DEF User
  <2>2. 0 + SaveTime <= SaveTime + Lags(0, restart)
    BY <1>5, <2>1
  <2> QED
    BY <1>2, <1>4, <2>2
<1>11. ASSUME conn \in User PROVE \E n \in Nat : Behind(n)'
  <2>1. "idle" \in Timers(queue) \ {"save"} /\ restart \in 8 .. 10
    BY <1>1, <1>11 DEF Stage, User
  <2>2. PICK n \in Nat : Behind(n)
    BY <1>1, <1>11 DEF Silence
  <2>3. /\ n * SaveTime <= Past + Due(queue)["save"]
        /\ n * SaveTime <= Past + Late + SaveTime
        /\ silence <= Past + Lags(n, restart)
    BY <1>4, <2>2 DEF Behind
  <2>4. Gone(restart) \in Nat /\ Lags(n, restart) \in Nat
          /\ Lags(n + 1, restart) = Lags(n, restart) + L
    BY <2>1, GoneIs, LagsAre
  <2>5. Past = span + Gone(restart) - Due(queue)["idle"]
          /\ Past' = span + Gone(restart) - (Due(queue)["idle"] - Late)
    BY <1>2, <1>4, <2>1 DEF Past
  <2>6. Due(queue)["idle"] \in Int
    BY <1>8, <2>1
  <2>7. Past \in Int /\ Past' \in Int /\ Past' = Past + Late
    BY <1>5, <1>8, <2>4, <2>5, <2>6
  <2>8. n * SaveTime \in Nat /\ (n + 1) * SaveTime = n * SaveTime + SaveTime
    BY <1>5
  <2> DEFINE m == n * SaveTime
             k == (n + 1) * SaveTime
  <2>9. m \in Nat /\ k = m + SaveTime /\ m <= Past + Due(queue)["save"]
          /\ m <= Past + Late + SaveTime
    BY <2>3, <2>8
  <2> HIDE DEF m, k
  <2>10. CASE Wait < 0
    <3>1. k <= Past + Late + SaveTime
      BY <1>4, <1>5, <1>8, <2>7, <2>9, <2>10
    <3>2. k <= Past' + SaveTime /\ k <= Past' + 0 + SaveTime
      BY <1>5, <1>8, <2>7, <3>1
    <3>3. "save" \in Timers(queue') => k <= Past' + Due(queue')["save"]
      BY <1>4, <3>2
    <3>4. k <= Past' + Late' + SaveTime
      BY <1>3, <3>2
    <3>5. silence' <= Past' + Lags(n + 1, restart')
      <4>1. silence <= Past + Late + (Lags(n, restart) + L)
        BY <1>5, <1>8, <2>3, <2>4, <2>7
      <4> QED
        BY <1>2, <2>4, <2>7, <4>1
    <3>6. Behind(n + 1)'
      BY <3>3, <3>4, <3>5 DEF Behind, k
    <3> QED
      BY <3>6
  <2>11. CASE ~(Wait < 0)
    <3>1. Wait = 0
      BY <1>4, <2>11
    <3>2. Past' = Past
      BY <1>4, <2>7, <3>1
    <3>3. m <= Past + SaveTime
      BY <1>4, <1>5, <1>8, <2>7, <2>9, <3>1
    <3>4. m <= Past' + SaveTime /\ m <= Past' + 0 + SaveTime
      BY <1>5, <2>7, <3>2, <3>3
    <3>5. "save" \in Timers(queue') => m <= Past' + Due(queue')["save"]
      BY <1>4, <3>4
    <3>6. m <= Past' + Late' + SaveTime
      BY <1>3, <3>4
    <3>7. silence' <= Past' + Lags(n, restart')
      BY <1>2, <2>3, <3>2
    <3>8. Behind(n)'
      BY <3>5, <3>6, <3>7 DEF Behind, m
    <3> QED
      BY <3>8
  <2> QED
    BY <2>10, <2>11
<1>12. Silence'
  <2>1. InTime' = InTime
    BY <1>2 DEF InTime
  <2>2. conn # "login"
    BY <1>9 DEF User
  <2> QED
    BY <1>1, <1>2, <1>11, <2>1, <2>2 DEF Silence
<1> QED
  BY <1>3, <1>6, <1>7, <1>10, <1>12 DEF IInv

\* IInv is inductive.
LEMMA NextInv == IInv /\ [Next]_vars => IInv'
<1>1. IInv /\ UNCHANGED vars => IInv'
  BY DEF vars, IInv, Typed, Queued, Wait, Stage, Saving, Silence, Behind, Past, Late, InTime
<1> QED
  BY <1>1, HandlersInv, GoOnlineInv, CloseInv, SecondInv, DoneInv, FireIdleInv, FireSaveInv,
     FireLogoutInv DEF Next

\* QueueSorted is a part of it.
LEMMA InvSorted == IInv => QueueSorted
<1> SUFFICES ASSUME IInv PROVE QueueSorted
  OBVIOUS
<1>1. queue \in Queue(T) /\ Typed /\ at \in Timers(queue) \cup {"none"}
  BY DEF IInv, Queued
<1>2. queue \in Seq([timer : TimerName, wait : Int]) /\ Cardinality(Timers(queue)) = Len(queue)
  BY <1>1, LengthIs DEF Queue, T
<1>3. at \in TimerName \cup {"none"}
  BY <1>1, DueType DEF T
<1>4. TypeOK
  BY <1>1, <1>2, <1>3 DEF TypeOK, Typed
<1> QED
  BY <1>4, Free DEF QueueSorted

\* Between two rounds the next save is still to come.
LEMMA InvSaved == IInv => SavedUnlessTouched
<1> SUFFICES ASSUME IInv, at = "none", conn \in {"online", "locked"}, ~touched
             PROVE  unsaved < SaveTime + 2 * (MaxLag - 1)
  BY DEF SavedUnlessTouched
<1>1. queue \in Queue(T) /\ Sorted(queue) /\ Waiting(queue) /\ "save" \in Timers(queue)
        /\ restart \in 8 .. 10
  BY Free DEF IInv, Stage
<1>2. unsaved + Due(queue)["save"] <= SaveTime + Lags(0, restart)
  BY DEF IInv, Saving
<1>3. Due(queue)["save"] \in Int /\ Due(queue)["save"] > 0
  <2> DEFINE k == At(queue, "save")
  <2>1. k \in 1 .. Len(queue) /\ Len(queue) \in Nat
    BY <1>1, AtTimer, QueueType
  <2>2. /\ queue[k].wait \in Nat /\ DueAt(queue, k - 1) >= 0
        /\ Due(queue)["save"] = DueAt(queue, k - 1) + queue[k].wait /\ Due(queue)["save"] \in Int
    BY <1>1, DueSorted, DueType
  <2> HIDE DEF k
  <2>3. CASE k = 1
    <3>1. queue[k].wait > 0
      BY <1>1, <2>1, <2>3 DEF Waiting
    <3>2. DueAt(queue, k - 1) = 0
      BY <2>3, DueNext
    <3> QED
      BY <2>2, <3>1, <3>2
  <2>4. CASE k # 1
    <3>1. 1 \in 1 .. Len(queue) /\ 1 < k
      BY <2>1, <2>4
    <3>2. queue[1].timer \in Timers(queue) /\ At(queue, queue[1].timer) = 1
      BY <1>1, <3>1, DueIs
    <3>3. Due(queue)[queue[1].timer] <= DueAt(queue, k - 1)
            /\ Due(queue)[queue[1].timer] >= queue[1].wait
          /\ Due(queue)[queue[1].timer] \in Int /\ queue[1].wait \in Nat
      <4>1. SortedBut(queue, "save")
        BY <1>1 DEF Sorted, SortedBut
      <4>2. Due(queue)[queue[1].timer] <= DueAt(queue, k - 1)
        BY <1>1, <3>1, <3>2, <4>1, DueOrder DEF k
      <4>3. Due(queue)[queue[1].timer] >= queue[1].wait /\ queue[1].wait \in Nat
        BY <1>1, <3>2, DueSorted
      <4>4. Due(queue)[queue[1].timer] \in Int
        BY <1>1, <3>2, DueType
      <4> QED
        BY <4>2, <4>3, <4>4
    <3>4. queue[1].wait > 0
      BY <1>1, <2>1, <3>1 DEF Waiting
    <3>5. DueAt(queue, k - 1) \in Int
      <4>1. k - 1 \in 0 .. Len(queue)
        BY <2>1
      <4> QED
        BY <1>1, <4>1, DueInt
    <3>6. DueAt(queue, k - 1) > 0
      BY <3>3, <3>4, <3>5
    <3> QED
      BY <2>2, <3>5, <3>6
  <2> QED
    BY <2>3, <2>4
<1>4. Lags(0, restart) \in Nat /\ Lags(0, restart) <= L * (0 + 2)
  BY <1>1, LagsAre
<1>5. L * (0 + 2) = 2 * (MaxLag - 1) /\ L * (0 + 2) \in Nat
  BY Positive DEF L, Secs
<1>6. unsaved \in Nat /\ SaveTime \in Nat
  BY Positive DEF IInv, Typed, Secs
<1> HIDE DEF L
<1>7. unsaved < SaveTime + L * (0 + 2)
  BY <1>2, <1>3, <1>4, <1>5, <1>6
<1> QED
  BY <1>5, <1>7

\* So is the end of the warnings.
LEMMA InvSilent == IInv => SilenceBounded
<1> SUFFICES ASSUME IInv, conn \notin {"wait_close2", "closed"} PROVE InTime
  BY DEF SilenceBounded, InTime
<1>1. conn = "wait_close" \/ conn \in {"login"} \cup User
  BY DEF IInv, Typed, User
<1> QED
  BY <1>1, UserInTime DEF IInv, Silence

\* IInv is an invariant.
LEMMA Invariant == Spec => []IInv
<1>1. Init => IInv
  BY InitInv
<1>2. IInv /\ [Next]_vars => IInv'
  BY NextInv
<1> QED
  BY <1>1, <1>2, PTL DEF Spec

\* add_Timer, remove_Timer, set_Timer and update_timerqueue keep the queue in order, with
\* every timer on it once, whatever fires or is set.
THEOREM SortedQueue == Spec => []QueueSorted
<1>1. IInv => QueueSorted
  BY InvSorted
<1> QED
  BY <1>1, Invariant, PTL

\* A user whose idle timer was not touched since the last save is saved (save_timeout)
\* within SaveTime and the two lags that the warnings may add.
THEOREM Saved == Spec => []SavedUnlessTouched
<1>1. IInv => SavedUnlessTouched
  BY InvSaved
<1> QED
  BY <1>1, Invariant, PTL

\* A user who is silent is logged off (user_timeout) after the timeout, the warnings and a
\* bounded number of lags, whatever the timer of periodic saving does.
THEOREM Silent == Spec => []SilenceBounded
<1>1. IInv => SilenceBounded
  BY InvSilent
<1> QED
  BY <1>1, Invariant, PTL

-----------------------------------------------------------------------------
\* Ties are history.
LEMMA TiedIsSpec == TiedSpec => Spec
<1>1. [Next /\ tied' = (tied \/ Tie)]_<<vars, tied>> => [Next]_vars
  OBVIOUS
<1> QED
  BY <1>1, PTL DEF TiedSpec, Spec

\* Until a tie no timer is due before its time is over.
OnTime ==
  /\ \A t \in Timers(queue) : left[t] = 0 \/ left[t] <= Due(queue)[t]
  /\ at # "none" /\ Wait <= 0 => Due(queue)[at] <= 0
  /\ "save" \in Timers(queue) => left["save"] <= SaveTime

\* OnTime, until a tie.
TInv == tied \in BOOLEAN /\ (tied \/ OnTime)

\* A reset of the idle timer never brings the save forward.
Patient == SaveTime <= IdleTime /\ SaveTime <= LockTime

\* A step of Deadlines.
Step == [deadlines!Next]_deadlines!vars

\* What a handler does to the deadlines.
LEMMA HandlesSet ==
  ASSUME Patient, IInv, OnTime, NEW q \in Queue(T), Sorted(q), Waiting(q), Timers(q) = Timers(queue),
         "idle" \in Timers(queue), NEW s \in Secs, Handles(q, s),
         "save" \in Timers(queue) =>
            s >= SaveTime /\ (left["save"] = 0 \/ left["save"] <= Due(q)["save"]),
         conn \in {"login"} \cup User
  PROVE  OnTime' /\ Step
<1>1. SetTo(queue', q, s) /\ Timers(queue') = Timers(queue)
  BY HandlesStep
<1>2. at = "none" /\ at' = "none" /\ SetLeft("idle", s)
  BY DEF Handles
<1>3. DOMAIN left = Timers(queue) /\ left \in [Timers(queue) -> Nat] /\ s \in Nat /\ s > 0
        /\ SaveTime \in Nat
  BY Positive DEF IInv, Typed, Secs
<1>4. left' = [u \in Timers(queue) |-> IF u = "idle" THEN s ELSE left[u]]
  BY <1>2, <1>3 DEF SetLeft
<1>5. Timers(queue) \subseteq {"idle", "save"}
  BY DEF IInv, Stage, User
<1>6. "save" \in Timers(queue) => /\ left'["save"] = left["save"]
                                  /\ left["save"] <= SaveTime /\ left["save"] \in Nat
  BY <1>3, <1>4 DEF OnTime
<1>7. OnTime'
  <2>1. ASSUME NEW t \in Timers(queue') PROVE left'[t] = 0 \/ left'[t] <= Due(queue')[t]
    <3>1. CASE t = "idle"
      BY <1>1, <1>3, <1>4, <3>1 DEF SetTo
    <3>2. CASE t = "save"
      <4>1. "save" \in Timers(queue)
        BY <1>1, <2>1, <3>2
      <4>2. Due(queue')["save"] >= Due(q)["save"] \/ Due(queue')["save"] >= s
        BY <1>1, <4>1 DEF SetTo
      <4>3. Due(queue')["save"] \in Int /\ Due(q)["save"] \in Int
        BY <1>1, <4>1, DueType DEF SetTo
      <4>4. left["save"] = 0 \/ left["save"] <= Due(queue')["save"]
        BY <1>3, <1>6, <4>1, <4>2, <4>3
      <4> QED
        BY <1>6, <3>2, <4>1, <4>4
    <3> QED
      BY <1>1, <1>5, <3>1, <3>2
  <2>2. "save" \in Timers(queue') => left'["save"] <= SaveTime
    BY <1>1, <1>6
  <2> QED
    BY <1>2, <2>1, <2>2 DEF OnTime
<1>8. deadlines!Set({"idle"})
  BY <1>2, <1>3, <1>4 DEF deadlines!Set, deadlines!Given, deadlines!Active
<1>9. {"idle"} \in SUBSET TimerName
  BY DEF TimerName
<1> QED
  BY <1>7, <1>8, <1>9 DEF Step, deadlines!Next

\* Every handler that resets the idle timer,
LEMMA HandlersTimely ==
  Patient /\ IInv /\ OnTime /\ (Key \/ DisplayMotd \/ Lock \/ LockBreak \/ Unlock) => OnTime' /\ Step
<1> SUFFICES ASSUME Patient, IInv, OnTime, Key \/ DisplayMotd \/ Lock \/ LockBreak \/ Unlock
             PROVE  OnTime' /\ Step
  OBVIOUS
<1>1. at = "none" /\ "idle" \in Timers(queue) /\ span \in {LoginTime, IdleTime, LockTime}
        /\ Stage /\ Typed
  BY DEF IInv, Stage, Typed, Key, DisplayMotd, Lock, LockBreak, Unlock, Handles
<1>2. queue \in Queue(T) /\ Sorted(queue) /\ Waiting(queue)
  BY <1>1, Free
<1>3. LoginTime \in Secs /\ IdleTime \in Secs /\ LockTime \in Secs /\ SaveTime \in Nat
        /\ IdleTime >= SaveTime /\ LockTime >= SaveTime
  BY Positive DEF Secs, Patient
<1>4. SetTo(SetIdle(queue, span), queue, span)
  BY <1>1, <1>2, <1>3, SetIdleIs
<1> DEFINE q == SetIdle(queue, span)
<1>5. q \in Queue(T) /\ Sorted(q) /\ Waiting(q) /\ Timers(q) = Timers(queue)
      /\ \A u \in Timers(queue) : Due(q)[u] >= Due(queue)[u] \/ Due(q)[u] >= span
  BY <1>4 DEF SetTo
<1> HIDE DEF q
<1>6. "save" \in Timers(queue) => /\ left["save"] = 0 \/ left["save"] <= Due(queue)["save"]
                                  /\ left["save"] <= SaveTime
  BY DEF OnTime
<1>7. CASE Key
  <2>1. Handles(queue, span) /\ conn \in {"login"} \cup User
    BY <1>7 DEF Key, User
  <2>2. "save" \in Timers(queue) => span >= SaveTime
    <3>1. "save" \in Timers(queue) => span \in {IdleTime, LockTime}
      BY <1>1, <1>7 DEF Key, Stage
    <3> QED
      BY <1>3, <3>1
  <2> QED
    BY <1>1, <1>2, <1>3, <1>6, <2>1, <2>2, HandlesSet
<1>8. CASE DisplayMotd
  <2>1. Handles(q, IdleTime) /\ conn \in {"login"} \cup User /\ "save" \notin Timers(queue)
    BY <1>1, <1>8 DEF DisplayMotd, q, User, Stage
  <2> QED
    BY <1>1, <1>3, <1>5, <2>1, HandlesSet
<1>9. CASE Lock
  <2>1. Handles(q, LockTime) /\ conn \in {"login"} \cup User /\ span \in {IdleTime, LockTime}
          /\ "save" \in Timers(queue)
    BY <1>1, <1>9 DEF Lock, q, User, Stage
  <2>2. Due(q)["save"] \in Int /\ Due(queue)["save"] \in Int /\ left["save"] \in Nat
          /\ span \in Nat
    BY <1>1, <1>2, <1>3, <1>5, <2>1, DueType DEF Typed, Secs
  <2>3. Due(q)["save"] >= Due(queue)["save"] \/ Due(q)["save"] >= span
    BY <1>5, <2>1
  <2>4. span >= SaveTime
    BY <1>3, <2>1
  <2>5. left["save"] = 0 \/ left["save"] <= Due(q)["save"]
    BY <1>3, <1>6, <2>1, <2>2, <2>3, <2>4
  <2> QED
    BY <1>1, <1>3, <1>5, <2>1, <2>5, HandlesSet
<1>10. CASE LockBreak
  <2>1. Handles(queue, LockTime) /\ conn \in {"login"} \cup User
    BY <1>10 DEF LockBreak, User
  <2> QED
    BY <1>1, <1>2, <1>3, <1>6, <2>1, HandlesSet
<1>11. CASE Unlock
  <2>1. Handles(queue, IdleTime) /\ conn \in {"login"} \cup User
    BY <1>11 DEF Unlock, User
  <2> QED
    BY <1>1, <1>2, <1>3, <1>6, <2>1, HandlesSet
<1> QED
  BY <1>7, <1>8, <1>9, <1>10, <1>11

\* the one that adds the timer of periodic saving,
LEMMA GoOnlineTimely == IInv /\ GoOnline => OnTime' /\ Step
<1> SUFFICES ASSUME IInv, GoOnline PROVE OnTime' /\ Step
  OBVIOUS
<1>1. /\ Timers(queue') = {"idle", "save"} /\ Due(queue')["idle"] = span
        /\ Due(queue')["save"] = SaveTime
  BY GoOnlineStep
<1>2. /\ at = "none" /\ at' = "none" /\ DOMAIN left = {"idle"}
      /\ left' = [t \in {"idle", "save"} |-> IF t = "idle" THEN span ELSE SaveTime]
  BY DEF GoOnline, IInv, Typed, Stage
<1>3. span \in Nat /\ span > 0 /\ SaveTime \in Nat /\ SaveTime > 0
  BY Positive DEF IInv, Typed, Secs
<1>4. OnTime'
  BY <1>1, <1>2, <1>3 DEF OnTime
<1>5. deadlines!Set({"idle", "save"})
  BY <1>2, <1>3 DEF deadlines!Set, deadlines!Given, deadlines!Active
<1>6. {"idle", "save"} \in SUBSET TimerName
  BY DEF TimerName
<1> QED
  BY <1>4, <1>5, <1>6 DEF Step, deadlines!Next

\* the end of a session or of the loop,
LEMMA CloseTimely == IInv /\ OnTime /\ (Close \/ WaitClose \/ Done) => OnTime' /\ Step
<1>1. ASSUME IInv, OnTime, Close PROVE OnTime' /\ Step
  <2>1. UNCHANGED <<left, at, queue>>
    BY <1>1 DEF Close
  <2>2. UNCHANGED deadlines!vars
    BY <2>1 DEF deadlines!vars
  <2> QED
    BY <1>1, <2>1, <2>2 DEF OnTime, Wait, Step
<1>2. ASSUME IInv, OnTime, WaitClose PROVE OnTime' /\ Step
  <2>1. queue' = Insert(<< >>, "logout", LogoutTime) /\ at = "none" /\ at' = "none"
          /\ left' = [t \in {"logout"} |-> LogoutTime]
    BY <1>2 DEF WaitClose
  <2>2. << >> \in Queue(T) /\ Timers(<< >>) = {} /\ "logout" \in T /\ LogoutTime \in Nat
          /\ LogoutTime > 0
    BY EmptyQueue, Positive, Names DEF Secs
  <2>3. Timers(queue') = {} \cup {"logout"} /\ Due(queue')["logout"] = LogoutTime
    BY <2>1, <2>2, InsertDue
  <2>4. OnTime'
    BY <2>1, <2>2, <2>3 DEF OnTime
  <2>5. deadlines!Only("logout") /\ "logout" \in TimerName
    BY <2>1, <2>2 DEF deadlines!Only, TimerName
  <2> QED
    BY <2>4, <2>5 DEF Step, deadlines!Next
<1>3. ASSUME IInv, OnTime, Done PROVE OnTime' /\ Step
  <2>1. at # "none" /\ at' = "none" /\ UNCHANGED <<queue, left>>
    BY <1>3 DEF Done
  <2>2. OnTime'
    BY <1>3, <2>1 DEF OnTime
  <2>3. deadlines!Stop
    BY <2>1 DEF deadlines!Stop
  <2> QED
    BY <2>2, <2>3 DEF Step, deadlines!Next
<1> QED
  BY <1>1, <1>2, <1>3

\* The timer after t is due its own time after t.
LEMMA AfterDue ==
  ASSUME NEW q \in Queue(T), NEW t \in Timers(q), After(q, t) # "none"
  PROVE  /\ After(q, t) \in Timers(q)
         /\ q[At(q, After(q, t))].wait \in Int
         /\ Due(q)[After(q, t)] = Due(q)[t] + q[At(q, After(q, t))].wait
<1> DEFINE k == At(q, t)
<1>1. k \in 1 .. Len(q) /\ Len(q) \in Nat
  BY AtTimer, QueueType
<1>2. k # Len(q) /\ After(q, t) = q[k + 1].timer
  BY DEF After
<1>3. k + 1 \in 1 .. Len(q)
  BY <1>1, <1>2
<1>4. q[k].timer = t
  BY AtTimer
<1> HIDE DEF k
<1> DEFINE n == k + 1
<1>5. n \in 1 .. Len(q) /\ n \in Nat /\ n # 0 /\ n - 1 = k
  BY <1>1, <1>3
<1>6. After(q, t) = q[n].timer
  BY <1>2
<1> HIDE DEF n
<1>7. q[n].timer \in Timers(q) /\ At(q, q[n].timer) = n /\ Due(q)[q[n].timer] = DueAt(q, n)
  BY <1>5, DueIs
<1>8. Due(q)[t] = DueAt(q, k)
  BY <1>1, <1>4, DueIs
<1>9. DueAt(q, n) = DueAt(q, k) + q[n].wait
  <2>1. DueAt(q, n) = DueAt(q, n - 1) + q[n].wait
    BY <1>5, DueNext
  <2> QED
    BY <1>5, <2>1
<1>10. q[n].wait \in Int
  BY <1>5, QueueType
<1> QED
  BY <1>6, <1>7, <1>8, <1>9, <1>10

\* A timer that fires does so when its time is over.
LEMMA FireTimely ==
  ASSUME IInv, OnTime, NEW t \in T, Fires(t), NEW s \in Secs, t = "save" => s <= SaveTime,
         \/ queue' = Delete(queue, t) /\ NoneLeft(t)
         \/ queue' = Insert(Delete(queue, t), t, s) /\ SetLeft(t, s),
         ~Tie
  PROVE  OnTime' /\ Step
<1>1. /\ t \in Timers(queue) /\ at = t /\ at' = After(queue, t) /\ at' # t
      /\ queue' \in Queue(T) /\ Sorted(queue')
      /\ Wait \in Int /\ Wait <= 0 /\ Late = Wait
      /\ Wait < 0 => Due(queue)[t] = Wait
      /\ \A u \in Timers(queue) \ {t} : u \in Timers(queue') /\ Due(queue')[u] = Due(queue)[u] - Late
  BY Fired
<1>2. t # "none" /\ queue \in Queue(T) /\ SortedBut(queue, t) /\ DOMAIN left = Timers(queue)
      /\ left \in [Timers(queue) -> Nat] /\ s \in Nat /\ s > 0
  BY <1>1, Names DEF IInv, Queued, Typed, Secs
<1>3. \A u \in Timers(queue) : Due(queue)[u] \in Int
  BY <1>2, DueType
<1>4. Due(queue)[t] <= 0 /\ left[t] = 0
  <2>1. Due(queue)[t] <= 0
    BY <1>1, <1>2 DEF OnTime
  <2>2. left[t] = 0 \/ left[t] <= Due(queue)[t]
    BY <1>1 DEF OnTime
  <2>3. left[t] \in Nat /\ Due(queue)[t] \in Int
    BY <1>1, <1>2, <1>3
  <2> QED
    BY <2>1, <2>2, <2>3
<1>5. ASSUME at' # "none", Wait' <= 0 PROVE Due(queue')[at'] <= 0
  <2> DEFINE u == at'
             w == queue[At(queue, u)].wait
  <2>1. u \in Timers(queue) \ {t} /\ w \in Int /\ Due(queue)[u] = Due(queue)[t] + w
    BY <1>1, <1>2, <1>5, AfterDue
  <2>2. w >= 0
    <3>1. At(queue, u) \in DOMAIN queue /\ queue[At(queue, u)].timer = u
      BY <1>2, <2>1, AtTimer, QueueType
    <3> QED
      BY <1>2, <2>1, <3>1 DEF SortedBut
  <2>3. queue'[At(queue', u)].wait \in Nat
    BY <1>1, <2>1, DueSorted
  <2>4. queue'[At(queue', u)].wait = 0
    <3>1. queue'[At(queue', u)].wait <= 0
      BY <1>5 DEF Wait
    <3> QED
      BY <2>3, <3>1
  <2>5. ~(w > 0)
    <3>1. "none" \notin {at, at'} /\ at' # at
      BY <1>1, <1>2, <1>5
    <3> QED
      BY <2>4, <3>1 DEF Tie
  <2>6. Due(queue')[u] = Due(queue)[u] - Late
    BY <1>1, <2>1
  <2> HIDE DEF u, w
  <2>7. w = 0
    BY <2>1, <2>2, <2>5
  <2>8. Due(queue)[u] = Due(queue)[t]
    BY <1>1, <1>3, <2>1, <2>7
  <2>9. Due(queue)[t] \in Int
    BY <1>1, <1>3
  <2>10. Due(queue)[t] - Late <= 0
    BY <1>1, <1>4, <2>9
  <2>11. Due(queue')[u] <= 0
    BY <2>6, <2>8, <2>10
  <2> QED
    BY <2>11 DEF u
<1>6. \A u \in Timers(queue) \ {t} : left[u] = 0 \/ left[u] <= Due(queue')[u]
  <2> TAKE u \in Timers(queue) \ {t}
  <2>1. left[u] = 0 \/ left[u] <= Due(queue)[u]
    BY DEF OnTime
  <2>2. Due(queue')[u] = Due(queue)[u] - Late /\ Due(queue)[u] \in Int /\ left[u] \in Nat
    BY <1>1, <1>2, <1>3
  <2> QED
    BY <1>1, <2>1, <2>2
<1>7. CASE queue' = Delete(queue, t) /\ NoneLeft(t)
  <2>1. Timers(queue') = Timers(queue) \ {t}
    BY <1>7, Fired
  <2>2. left' = [u \in Timers(queue) \ {t} |-> left[u]]
    BY <1>2, <1>7 DEF NoneLeft
  <2>3. OnTime'
    <3>1. \A u \in Timers(queue') : left'[u] = 0 \/ left'[u] <= Due(queue')[u]
      BY <1>6, <2>1, <2>2
    <3>2. "save" \in Timers(queue') => left'["save"] <= SaveTime
      BY <2>1, <2>2 DEF OnTime
    <3> QED
      BY <1>5, <3>1, <3>2 DEF OnTime
  <2>4. deadlines!Fire(t)
    BY <1>1, <1>2, <1>4, <2>2 DEF deadlines!Fire, deadlines!Active
  <2> QED
    BY <2>3, <2>4 DEF Step, deadlines!Next, T
<1>8. CASE queue' = Insert(Delete(queue, t), t, s) /\ SetLeft(t, s)
  <2>1. Timers(queue') = Timers(queue) /\ Due(queue')[t] = s
    BY <1>8, Fired
  <2>2. left' = [u \in Timers(queue) |-> IF u = t THEN s ELSE left[u]]
    <3>1. Timers(queue) \cup {t} = Timers(queue)
      BY <1>1
    <3> QED
      BY <1>2, <1>8, <3>1 DEF SetLeft
  <2>3. OnTime'
    <3>1. \A u \in Timers(queue') : left'[u] = 0 \/ left'[u] <= Due(queue')[u]
      <4> TAKE u \in Timers(queue')
      <4>1. CASE u = t
        BY <1>1, <1>2, <2>1, <2>2, <4>1
      <4>2. CASE u # t
        BY <1>6, <2>1, <2>2, <4>2
      <4> QED
        BY <4>1, <4>2
    <3>2. "save" \in Timers(queue') => left'["save"] <= SaveTime
      BY <2>1, <2>2 DEF OnTime
    <3> QED
      BY <1>5, <3>1, <3>2 DEF OnTime
  <2>4. deadlines!Fire(t)
    <3>1. deadlines!Given({t})
      BY <1>1, <1>2, <2>2 DEF deadlines!Given, deadlines!Active
    <3> QED
      BY <1>1, <1>2, <1>4, <3>1 DEF deadlines!Fire, deadlines!Active
  <2> QED
    BY <2>3, <2>4 DEF Step, deadlines!Next, T
<1> QED
  BY <1>7, <1>8

\* all the timers that fire,
LEMMA FiresTimely == IInv /\ OnTime /\ ~Tie /\ (FireIdle \/ FireSave \/ FireLogout) => OnTime' /\ Step
<1> SUFFICES ASSUME IInv, OnTime, ~Tie, FireIdle \/ FireSave \/ FireLogout PROVE OnTime' /\ Step
  OBVIOUS
<1>1. span \in Secs /\ Minute \in Secs /\ Idling \in Secs /\ SaveTime \in Secs
        /\ SaveTime <= SaveTime
      /\ "idle" \in T /\ "save" \in T /\ "logout" \in T
  <2>1. LoginTime \in Secs /\ IdleTime \in Secs /\ LockTime \in Secs /\ Minute \in Secs
          /\ Idling \in Secs /\ SaveTime \in Secs
    BY Positive
  <2> QED
    BY <2>1, Names DEF IInv, Typed, Secs
<1>2. CASE FireIdle
  <2>1. Fires("idle")
    BY <1>2 DEF FireIdle
  <2>2. \/ queue' = Delete(queue, "idle") /\ NoneLeft("idle")
        \/ \E s \in Secs : queue' = Insert(Delete(queue, "idle"), "idle", s) /\ SetLeft("idle", s)
    BY <1>1, <1>2 DEF FireIdle, Warning, PutBack
  <2> QED
    BY <1>1, <2>1, <2>2, FireTimely
<1>3. CASE FireSave
  BY <1>1, <1>3, FireTimely DEF FireSave
<1>4. CASE FireLogout
  BY <1>1, <1>4, FireTimely DEF FireLogout
<1> QED
  BY <1>2, <1>3, <1>4

\* the time that passes,
LEMMA SecondTimely == IInv /\ OnTime /\ Second => OnTime' /\ Step
<1> SUFFICES ASSUME IInv, OnTime, Second PROVE OnTime' /\ Step
  OBVIOUS
<1>1. PICK d \in 1 .. MaxLag :
        /\ queue' = Elapse(queue, d)
        /\ left' = [t \in DOMAIN left |-> IF left[t] > d THEN left[t] - d ELSE 0]
  BY DEF Second
<1>2. conn \notin {"wait_close", "closed"} /\ at = "none" /\ at' = queue[1].timer
  BY DEF Second
<1>3. queue \in Queue(T) /\ Sorted(queue) /\ Waiting(queue) /\ DOMAIN left = Timers(queue)
        /\ left \in [Timers(queue) -> Nat]
  BY <1>2, Free DEF IInv, Typed
<1>4. d \in Nat /\ d > 0 /\ d \in Int /\ SaveTime \in Nat
  BY Positive DEF Secs
<1>5. Len(queue) \in Nat /\ 1 \in 1 .. Len(queue)
  <2>1. PICK u : u \in Timers(queue)
    BY <1>2 DEF IInv, Typed, Stage
  <2>2. At(queue, u) \in 1 .. Len(queue) /\ Len(queue) \in Nat
    BY <1>3, <2>1, AtTimer, QueueType
  <2> QED
    BY <2>2
<1>6. /\ queue' \in Queue(T) /\ Timers(queue') = Timers(queue)
      /\ \A u \in Timers(queue) : Due(queue')[u] = Due(queue)[u] - d
      /\ Len(queue') = Len(queue)
      /\ \A i \in 1 .. Len(queue) : queue'[i].timer = queue[i].timer
  BY <1>1, <1>3, <1>4, ElapseDue
<1>7. at' \in Timers(queue) /\ at' # "none" /\ Due(queue')[at'] = Wait'
  <2>1. 1 \in 1 .. Len(queue') /\ queue'[1].timer = at'
    BY <1>2, <1>5, <1>6
  <2>2. at' \in Timers(queue') /\ At(queue', at') = 1 /\ Due(queue')[at'] = DueAt(queue', 1)
    BY <1>6, <2>1, DueIs
  <2>3. DueAt(queue', 1) = 0 + queue'[1].wait
    <3>1. 1 \in Nat /\ 1 # 0 /\ 1 - 1 = 0
      OBVIOUS
    <3>2. DueAt(queue', 1) = DueAt(queue', 1 - 1) + queue'[1].wait /\ DueAt(queue', 0) = 0
      BY <3>1, DueNext
    <3> QED
      BY <3>1, <3>2
  <2>4. queue'[1].wait \in Int /\ Wait' = queue'[1].wait
    BY <1>6, <2>1, <2>2, QueueType DEF Wait
  <2>5. at' # "none"
    BY <1>6, <2>2, DueType, Names
  <2> QED
    BY <1>6, <2>2, <2>3, <2>4, <2>5
<1>8. ASSUME NEW t \in Timers(queue') PROVE left'[t] = 0 \/ left'[t] <= Due(queue')[t]
  <2>1. t \in Timers(queue) /\ Due(queue')[t] = Due(queue)[t] - d /\ Due(queue)[t] \in Int
          /\ left[t] \in Nat
    BY <1>3, <1>6, <1>8, DueType
  <2>2. left[t] = 0 \/ left[t] <= Due(queue)[t]
    BY <2>1 DEF OnTime
  <2>3. left'[t] = IF left[t] > d THEN left[t] - d ELSE 0
    BY <1>1, <1>3, <2>1
  <2> QED
    BY <1>4, <2>1, <2>2, <2>3
<1>9. ASSUME "save" \in Timers(queue') PROVE left'["save"] <= SaveTime
  <2>1. /\ left["save"] \in Nat /\ left["save"] <= SaveTime
        /\ left'["save"] = IF left["save"] > d THEN left["save"] - d ELSE 0
    BY <1>1, <1>3, <1>6, <1>9 DEF OnTime
  <2> QED
    BY <1>4, <2>1
<1>10. OnTime'
  BY <1>7, <1>8, <1>9 DEF OnTime
<1>11. deadlines!Pass
  BY <1>1, <1>2, <1>7 DEF deadlines!Pass, deadlines!Active
<1> QED
  BY <1>10, <1>11 DEF Step, deadlines!Next

\* and the start: all of them are steps of Deadlines.
LEMMA InitTimely == Init => OnTime /\ deadlines!Init
<1> SUFFICES ASSUME Init PROVE OnTime /\ deadlines!Init
  OBVIOUS
<1>1. queue = Insert(<< >>, "idle", LoginTime) /\ at = "none"
        /\ left = [t \in {"idle"} |-> LoginTime]
  BY DEF Init
<1>2. << >> \in Queue(T) /\ Timers(<< >>) = {} /\ "idle" \in T /\ LoginTime \in Nat
        /\ LoginTime > 0
  BY EmptyQueue, Positive, Names DEF Secs
<1>3. Timers(queue) = {} \cup {"idle"} /\ Due(queue)["idle"] = LoginTime
  BY <1>1, <1>2, InsertDue
<1>4. OnTime
  BY <1>1, <1>2, <1>3 DEF OnTime
<1>5. left \in [{"idle"} -> Nat \ {0}] /\ {"idle"} \in SUBSET TimerName
  BY <1>1, <1>2 DEF TimerName
<1> QED
  BY <1>1, <1>4, <1>5 DEF deadlines!Init

\* A step keeps TInv and is one of Deadlines, or ends in a tie.
LEMMA NextTimely ==
  ASSUME Patient
  PROVE  IInv /\ TInv /\ [Next /\ tied' = (tied \/ Tie)]_<<vars, tied>> => TInv' /\ (tied' \/ Step)
<1> SUFFICES ASSUME IInv, TInv, [Next /\ tied' = (tied \/ Tie)]_<<vars, tied>>
             PROVE TInv' /\ (tied' \/ Step)
  OBVIOUS
<1>1. CASE Next /\ tied' = (tied \/ Tie)
  <2>1. CASE tied \/ Tie
    BY <1>1, <2>1 DEF TInv
  <2>2. CASE ~tied /\ ~Tie
    <3>1. OnTime /\ Next
      BY <1>1, <2>2 DEF TInv
    <3>2. OnTime' /\ Step
      BY <2>2, <3>1, HandlersTimely, GoOnlineTimely, CloseTimely, SecondTimely, FiresTimely
         DEF Next
    <3>3. tied' \in BOOLEAN
      BY <1>1
    <3> QED
      BY <3>2, <3>3 DEF TInv
  <2> QED
    BY <2>1, <2>2
<1>2. CASE UNCHANGED <<vars, tied>>
  <2>1. UNCHANGED <<queue, left, at, tied>>
    BY <1>2 DEF vars
  <2>2. UNCHANGED deadlines!vars
    BY <2>1 DEF deadlines!vars
  <2>3. TInv'
    BY <2>1 DEF TInv, OnTime, Wait
  <2> QED
    BY <2>2, <2>3 DEF Step
<1> QED
  BY <1>1, <1>2

\* The queue implements the deadlines of its timers, when saving is not less frequent
\* than the idle timer and the lock fire: set_Timer brings the timers after it forward.
THEOREM NotEarly == SaveTime <= IdleTime /\ SaveTime <= LockTime => (TiedSpec => NeverEarly)
<1> SUFFICES ASSUME Patient PROVE TiedSpec => NeverEarly
  BY DEF Patient
<1>1. tied = FALSE /\ Init => TInv /\ deadlines!Init
  BY InitTimely DEF TInv
<1>2. IInv /\ TInv /\ [Next /\ tied' = (tied \/ Tie)]_<<vars, tied>>
        => TInv' /\ [tied' \/ Step]_<<vars, tied>>
  BY NextTimely
<1> QED
  BY <1>1, <1>2, TiedIsSpec, Invariant, PTL DEF TiedSpec, NeverEarly, Step

=============================================================================
