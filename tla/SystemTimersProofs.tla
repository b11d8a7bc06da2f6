------------------------- MODULE SystemTimersProofs -------------------------
(***************************************************************************)
(* The shutdown, the reboot and the cache timer, for any times and lags:   *)
(* the users are told the real time, nobody comes in at the end, everyone  *)
(* is logged off first unless there is no last screen, and nothing but a   *)
(* Sysop, a signal or a late timer puts the end off.                       *)
(***************************************************************************)
EXTENDS SystemTimers, TimerQueueProofs

\* The timers of the system.
T == TimerName

\* The stage of a timer is one it can be in.
Typed ==
  /\ restart \in [Down -> {0} \cup 6 .. 10]
  /\ online \in BOOLEAN
  /\ exit \in Down \cup {"no"}
  /\ unseen \subseteq Down

\* The timers that run are on the queue, and the loop looks at one of them.
Queued ==
  /\ queue \in Queue(T)
  /\ Timers(queue) = {"cache"} \cup {k \in Down : Running(k)}
  /\ at \in Timers(queue) \cup {"none"}

\* The queue is in order, but the timer that the loop looks at may be late; nothing is
\* due when the loop is over.
Started == exit = "no" => SortedBut(queue, at) /\ Early(queue, at)

\* The last stage of a timer has come only when everyone was logged off, if there was a
\* last screen; and once everyone was, some timer is in it and takes no longer than the
\* last screen.  What the timer that fires is late counts, for the others lose it.
Closing ==
  /\ \A k \in Down : restart[k] = 6 => ~online \/ k \in unseen
  /\ exit # "no" => ~online \/ exit \in unseen
  /\ exit = "no" /\ ~online =>
       \E k \in Down : restart[k] = 6 /\ Due(queue)[k] + Late <= ViewTime

\* The inductive invariant.
IInv == Typed /\ Queued /\ Started /\ Closing

\* The times that a timer may have.
Secs == Nat \ {0}

\* The constants are such times.
LEMMA Positive ==
  /\ SignalTime \in Secs /\ Stage1 \in Secs /\ Stage2 \in Secs /\ Stage3 \in Secs
  /\ ViewTime \in Secs /\ CacheTime \in Secs /\ Shut \in Secs /\ SysopTimes \subseteq Secs
  /\ MaxLag \in Secs
  BY DurationAssumption DEF Durations, Secs

\* The timers are not none.
LEMMA Names ==
  /\ "none" \notin T /\ "cache" \in T /\ "cache" \notin Down
  /\ \A k \in Down : k \in T /\ k # "cache" /\ k # "none" /\ k # "no"
  BY DEF T, TimerName, Down

\* The system starts with its cache timer.
LEMMA InitInv == Init => IInv
<1> SUFFICES ASSUME Init PROVE IInv
  OBVIOUS
<1> DEFINE q == Insert(<< >>, "cache", CacheTime)
<1>1. << >> \in Queue(T) /\ Timers(<< >>) = {} /\ Sorted(<< >>) /\ Waiting(<< >>)
        /\ Len(<< >>) = 0
  BY EmptyQueue
<1>2. "cache" \in T /\ CacheTime \in Nat /\ CacheTime > 0
  BY Positive, Names DEF Secs
<1>3. q \in Queue(T) /\ Timers(q) = {} \cup {"cache"}
  BY <1>1, <1>2, InsertDue
<1>4. Sorted(q) /\ (\/ Len(<< >>) > 0
                    \/ q[1].timer = "cache" /\ q[1].wait = CacheTime)
  BY <1>1, <1>2, InsertSorted
<1>5. Waiting(q)
  BY <1>1, <1>2, <1>4 DEF Waiting
<1>6. queue = q /\ restart = [k \in Down |-> 0] /\ at = "none" /\ online = TRUE /\ exit = "no"
        /\ unseen = {}
  BY DEF Init
<1> HIDE DEF q
<1>7. Typed /\ Closing
  BY <1>6 DEF Typed, Closing
<1>8. Queued
  BY <1>3, <1>6 DEF Queued, Running
<1>9. Started
  BY <1>4, <1>5, <1>6 DEF Started, Early, Sorted, SortedBut
<1> QED
  BY <1>7, <1>8, <1>9 DEF IInv

\* What the end of the loop finds.
LEMMA FreeWaits ==
  ASSUME IInv, Free
  PROVE  Waiting(queue) /\ Len(queue) \in Nat /\ Len(queue) > 0 /\ queue[1].wait > 0
          /\ queue[1].wait \in Int /\ Sorted(queue) /\ Late = 0
<1>1. queue \in Queue(T) /\ "cache" \in Timers(queue)
  BY DEF IInv, Queued
<1>2. Len(queue) \in Nat /\ At(queue, "cache") \in 1 .. Len(queue)
  BY <1>1, AtTimer, QueueType
<1>3. 1 \in 1 .. Len(queue) /\ Len(queue) > 0
  BY <1>2
<1>4. queue[1].timer \in T /\ queue[1].wait \in Int
  BY <1>1, <1>3, QueueType
<1>5. Waiting(queue)
  BY <1>4, Names DEF IInv, Started, Early, Free
<1>6. Sorted(queue)
  <2>1. \A i \in 1 .. Len(queue) : queue[i].timer \in T
    BY <1>1, QueueType
  <2>2. DOMAIN queue = 1 .. Len(queue) /\ SortedBut(queue, "none")
    BY <1>1, QueueType DEF IInv, Started, Free
  <2> QED
    BY <2>1, <2>2, Names DEF Sorted, SortedBut
<1>7. Late = 0
  BY DEF Late, Free
<1> QED
  BY <1>2, <1>3, <1>4, <1>5, <1>6, <1>7 DEF Waiting

\* A timer that is set or made.
LEMMA ArmStep ==
  ASSUME IInv, Free, NEW k \in Down, NEW s \in Secs, Arm(k, s)
  PROVE  /\ restart' = [restart EXCEPT ![k] = 10]
         /\ queue' \in Queue(T) /\ Timers(queue') = Timers(queue) \cup {k}
         /\ Sorted(queue') /\ Waiting(queue')
         /\ \A u \in Timers(queue) \ {k} :
              ~Running(k) \/ At(queue, u) < At(queue, k) => Due(queue')[u] = Due(queue)[u]
         /\ unseen' = unseen \ {k}
<1>1. queue \in Queue(T) /\ Sorted(queue) /\ Waiting(queue) /\ s \in Nat /\ s > 0 /\ k \in T
  BY FreeWaits, Names DEF IInv, Queued, Secs
<1>2. k \in Timers(queue) <=> Running(k)
  BY Names DEF IInv, Queued
<1>3. restart' = [restart EXCEPT ![k] = 10] /\ unseen' = unseen \ {k}
  BY DEF Arm
<1>4. CASE Running(k)
  <2>1. queue' = Reset(queue, k, s) /\ k \in Timers(queue)
    BY <1>2, <1>4 DEF Arm
  <2>2. /\ queue' \in Queue(T) /\ Timers(queue') = Timers(queue) /\ Sorted(queue')
          /\ Waiting(queue')
        /\ \A u \in Timers(queue) \ {k} :
             Due(queue')[u] = Due(queue)[u] + (IF At(queue, u) < At(queue, k) THEN 0 ELSE s - queue[At(queue, k)].wait)
    BY <1>1, <2>1, ResetDue
  <2>3. \A u \in Timers(queue) : Due(queue)[u] \in Int
    BY <1>1, DueType
  <2> QED
    BY <1>3, <1>4, <2>1, <2>2, <2>3
<1>5. CASE ~Running(k)
  <2>1. queue' = Insert(queue, k, s) /\ k \notin Timers(queue)
    BY <1>2, <1>5 DEF Arm
  <2>2. /\ queue' \in Queue(T) /\ Timers(queue') = Timers(queue) \cup {k}
        /\ \A u \in Timers(queue) : Due(queue')[u] = Due(queue)[u]
    BY <1>1, <2>1, InsertDue
  <2>3. /\ Sorted(queue') /\ Len(queue') > 0
        /\ \/ Len(queue) > 0 /\ queue'[1] = queue[1]
           \/ queue'[1].timer = k /\ queue'[1].wait = s
    BY <1>1, <2>1, InsertSorted
  <2>4. Waiting(queue')
    BY <1>1, <2>3 DEF Waiting
  <2> QED
    BY <1>3, <2>2, <2>3, <2>4
<1> QED
  BY <1>4, <1>5

\* A timer that fires is put back, and puts the others off by what it is late.
LEMMA AgainStep ==
  ASSUME IInv, NEW t \in T, NEW s \in Secs, Fires(t), Again(t, s)
  PROVE  /\ queue' \in Queue(T) /\ Timers(queue') = Timers(queue) /\ Sorted(queue')
         /\ at' \in Timers(queue') \cup {"none"} /\ Early(queue', at') /\ Late' = 0
         /\ Due(queue')[t] = s /\ t \in Timers(queue) /\ Due(queue)[t] + Late >= 0
         /\ Late \in Nat
         /\ \A u \in Timers(queue) \ {t} : Due(queue')[u] <= Due(queue)[u] + Late
<1>1. /\ queue \in Queue(T) /\ SortedBut(queue, t) /\ s \in Nat /\ s > 0
      /\ Early(queue, t) /\ exit = "no" /\ at = t /\ at' = After(queue, t)
      /\ queue' = Insert(Delete(queue, t), t, s)
  BY DEF IInv, Queued, Started, Fires, Again, Secs
<1>2. t \in Timers(queue) /\ t # "none"
  BY <1>1, Names DEF IInv, Queued
<1> DEFINE w == queue[At(queue, t)].wait
           b == DueAt(queue, At(queue, t) - 1)
<1>3. w \in Int /\ b \in Int
  <2>1. At(queue, t) \in 1 .. Len(queue) /\ Len(queue) \in Nat
    BY <1>1, <1>2, AtTimer, QueueType
  <2>2. At(queue, t) - 1 \in 0 .. Len(queue)
    BY <2>1
  <2> QED
    BY <1>1, <2>1, <2>2, QueueType, DueInt
<1>4. Late = IF w < 0 THEN -w ELSE 0
  BY <1>1, <1>2 DEF Late, Wait
<1>5. b >= 0 /\ Due(queue)[t] = b + w
  BY <1>1, <1>2, DueOrder
<1>6. /\ queue' \in Queue(T) /\ Timers(queue') = Timers(queue) /\ Sorted(queue')
      /\ Early(queue', at') /\ Due(queue')[t] = s
      /\ \A u \in Timers(queue) \ {t} :
           Due(queue')[u] = Due(queue)[u] + (IF At(queue, u) < At(queue, t) \/ w >= 0
                                             THEN 0 ELSE -w)
  BY <1>1, <1>2, AgainDue
<1>7. at' \in Timers(queue') \cup {"none"}
  BY <1>1, <1>2, <1>6, AfterIs
<1> HIDE DEF w, b
<1>8. \A u \in Timers(queue) : Due(queue)[u] \in Int
  BY <1>1, DueType
<1>9. \A u \in Timers(queue) \ {t} : Due(queue')[u] <= Due(queue)[u] + Late
  BY <1>3, <1>4, <1>6, <1>8
<1>10. Late \in Nat /\ Due(queue)[t] + Late >= 0
  BY <1>3, <1>4, <1>5
<1>11. Late' = 0
  <2> SUFFICES ASSUME at' # "none" PROVE ~(queue'[At(queue', at')].wait < 0)
    BY DEF Late, Wait
  <2>1. queue'[At(queue', at')].wait \in Nat
    BY <1>6, <1>7, DueSorted
  <2> QED
    BY <2>1
<1> QED
  BY <1>2, <1>6, <1>7, <1>9, <1>10, <1>11

\* A timer in its last stage whose time is nearly over stays there, whatever else is done.
LEMMA NextInv == IInv /\ [Next]_vars => IInv'
<1> SUFFICES ASSUME IInv, [Next]_vars PROVE IInv'
  OBVIOUS
<1>1. Typed /\ Queued /\ Started /\ Closing
  BY DEF IInv
<1>2. ASSUME NEW k \in Down, NEW s \in Secs, Free, Arm(k, s), UNCHANGED <<at, online, exit>>,
             online \/ (s = SignalTime /\ ~LeftAlone(k))
      PROVE  IInv'
  <2>1. /\ restart' = [restart EXCEPT ![k] = 10]
        /\ queue' \in Queue(T) /\ Timers(queue') = Timers(queue) \cup {k}
        /\ Sorted(queue') /\ Waiting(queue')
        /\ \A u \in Timers(queue) \ {k} :
             ~Running(k) \/ At(queue, u) < At(queue, k) => Due(queue')[u] = Due(queue)[u]
        /\ unseen' = unseen \ {k} /\ Late = 0 /\ Late' = 0 /\ Sorted(queue)
    BY <1>2, ArmStep, FreeWaits DEF Free, Late
  <2>2. Typed'
    BY <1>1, <1>2, <2>1 DEF Typed
  <2>3. \A j \in Down : restart'[j] = IF j = k THEN 10 ELSE restart[j]
    BY <1>1, <1>2, <2>1 DEF Typed
  <2>4. Timers(queue') = {"cache"} \cup {j \in Down : restart'[j] # 0}
    BY <1>1, <1>2, <2>1, <2>3 DEF Queued, Running
  <2>5. Queued'
    BY <1>1, <1>2, <2>1, <2>4 DEF Queued, Running
  <2>6. Started'
    BY <1>2, <2>1 DEF Started, Early, Sorted, SortedBut
  <2>7. ASSUME exit = "no", ~online
        PROVE \E j \in Down : restart'[j] = 6 /\ Due(queue')[j] + Late' <= ViewTime
    <3>0. PICK j \in Down : restart[j] = 6 /\ Due(queue)[j] + Late <= ViewTime
      BY <1>1, <2>7 DEF Closing
    <3>2. queue \in Queue(T) /\ Sorted(queue) /\ j \in Timers(queue)
      BY <1>1, <2>1, <3>0 DEF Queued, Running
    <3>1. restart[j] = 6 /\ Due(queue)[j] <= ViewTime
      BY <2>1, <3>0, <3>2, DueType
    <3>3. /\ queue[At(queue, j)].wait \in Nat /\ Due(queue)[j] >= queue[At(queue, j)].wait
          /\ Due(queue)[j] \in Int
      BY <3>2, DueSorted, DueType
    <3>4. j # k
      <4>1. queue[At(queue, j)].wait <= SignalTime
        BY <3>1, <3>3, Positive, ViewAssumption DEF Secs
      <4>2. LeftAlone(j)
        BY <3>1, <4>1 DEF LeftAlone, Running
      <4> QED
        BY <4>2, <1>2, <2>7
    <3>5. ~Running(k) \/ At(queue, j) < At(queue, k)
      <4> SUFFICES ASSUME Running(k) PROVE At(queue, j) < At(queue, k)
        OBVIOUS
      <4>1. queue[At(queue, k)].wait > SignalTime /\ k \in Timers(queue) /\ SortedBut(queue, j)
        <5>1. k \in Timers(queue)
          BY <1>1 DEF Queued
        <5>2. queue[At(queue, k)].wait \in Nat
          BY <3>2, <5>1, DueSorted
        <5>3. ~(queue[At(queue, k)].wait <= SignalTime)
          BY <1>2, <2>7 DEF LeftAlone
        <5> QED
          BY <3>2, <5>1, <5>2, <5>3, Positive DEF Secs, Sorted, SortedBut
      <4>2. At(queue, j) \in 1 .. Len(queue) /\ At(queue, k) \in 1 .. Len(queue)
              /\ Len(queue) \in Nat
            /\ queue[At(queue, j)].timer = j /\ queue[At(queue, k)].timer = k
        BY <3>2, <4>1, AtTimer, QueueType
      <4>3. At(queue, j) # At(queue, k)
        BY <3>4, <4>2
      <4>4. ASSUME At(queue, k) < At(queue, j) PROVE FALSE
        <5>1. Due(queue)[k] <= DueAt(queue, At(queue, j) - 1)
              /\ Due(queue)[j] = DueAt(queue, At(queue, j) - 1) + queue[At(queue, j)].wait
          BY <3>2, <4>1, <4>4, DueOrder
        <5>2. Due(queue)[k] >= queue[At(queue, k)].wait /\ Due(queue)[k] \in Int
                /\ queue[At(queue, k)].wait \in Nat
          BY <3>2, <4>1, DueSorted, DueType
        <5>3. At(queue, j) - 1 \in 0 .. Len(queue)
          BY <4>2
        <5>4. DueAt(queue, At(queue, j) - 1) \in Int
          BY <3>2, <5>3, DueInt
        <5>5. DueAt(queue, At(queue, j) - 1) <= Due(queue)[j]
          BY <3>3, <5>1, <5>4
        <5>6. Due(queue)[j] > SignalTime
          BY <3>3, <4>1, <5>1, <5>2, <5>4, <5>5, Positive DEF Secs
        <5> QED
          BY <3>1, <3>3, <5>6, Positive, ViewAssumption DEF Secs
      <4> QED
        BY <4>2, <4>3, <4>4
    <3>6. Due(queue')[j] = Due(queue)[j]
      BY <2>1, <3>2, <3>4, <3>5
    <3>7. Due(queue')[j] + Late' <= ViewTime
      BY <2>1, <3>1, <3>3, <3>6
    <3> QED
      BY <2>3, <3>1, <3>4, <3>7
  <2>8. Closing'
    BY <1>1, <1>2, <2>1, <2>3, <2>7 DEF Closing, Free
  <2> QED
    BY <2>2, <2>5, <2>6, <2>8 DEF IInv
<1>3. ASSUME NEW k \in Down, NEW s \in SysopTimes, Sysop(k, s) PROVE IInv'
  BY <1>2, <1>3, Positive DEF Sysop
<1>4. ASSUME NEW k \in Down, Signal(k) PROVE IInv'
  BY <1>2, <1>4, Positive DEF Signal
<1>5. ASSUME NEW k \in Down, Cancel(k) PROVE IInv'
  <2>1. /\ Free /\ online /\ Running(k) /\ queue' = Delete(queue, k)
        /\ restart' = [restart EXCEPT ![k] = 0] /\ UNCHANGED <<at, online, exit>>
        /\ unseen' = unseen \ {k}
    BY <1>5 DEF Cancel
  <2>2. queue \in Queue(T) /\ Sorted(queue) /\ Waiting(queue) /\ k \in Timers(queue)
          /\ SortedBut(queue, k)
    BY <1>1, <2>1, FreeWaits DEF Queued, Sorted, SortedBut
  <2>3. /\ queue' \in Queue(T) /\ Timers(queue') = Timers(queue) \ {k}
        /\ Sorted(queue') /\ Waiting(queue')
    BY <2>1, <2>2, DeleteDue, DeleteSorted
  <2>4. Typed'
    BY <1>1, <2>1 DEF Typed
  <2>5. \A j \in Down : restart'[j] = IF j = k THEN 0 ELSE restart[j]
    BY <1>1, <2>1 DEF Typed
  <2>6. Timers(queue') = {"cache"} \cup {j \in Down : restart'[j] # 0}
    BY <1>1, <2>3, <2>5, Names DEF Queued, Running
  <2>7. Queued'
    BY <1>1, <2>1, <2>3, <2>6 DEF Queued, Running, Free
  <2>8. Started'
    BY <2>3 DEF Started, Early, Sorted, SortedBut
  <2>9. Closing'
    BY <1>1, <2>1, <2>5 DEF Closing, Free
  <2> QED
    BY <2>4, <2>7, <2>8, <2>9 DEF IInv
<1>6. ASSUME NEW d \in 1 .. MaxLag, Round(d) PROVE IInv'
  <2>1. /\ Free /\ queue' = Elapse(queue, d) /\ at' = queue[1].timer
        /\ UNCHANGED <<restart, online, exit, unseen>>
    BY <1>6 DEF Round
  <2>2. queue \in Queue(T) /\ d \in Nat
    BY <1>1, Positive DEF Queued, Secs
  <2>3. Len(queue) \in Nat /\ Len(queue) > 0 /\ queue[1].wait > 0 /\ queue[1].wait \in Int
          /\ Sorted(queue) /\ Late = 0
    BY <2>1, FreeWaits
  <2>4. /\ queue' \in Queue(T) /\ Timers(queue') = Timers(queue)
        /\ \A u \in Timers(queue) : Due(queue')[u] = Due(queue)[u] - d
        /\ Len(queue') = Len(queue)
        /\ \A i \in 1 .. Len(queue) : /\ queue'[i].timer = queue[i].timer
                                      /\ queue'[i].wait = IF i = 1 THEN queue[i].wait - d ELSE queue[i].wait
    BY <2>1, <2>2, ElapseDue
  <2>5. 1 \in 1 .. Len(queue)
    BY <2>3
  <2>6. at' \in Timers(queue) /\ queue'[1].timer = at' /\ At(queue', at') = 1
    BY <2>1, <2>2, <2>4, <2>5, DueIs
  <2>7. SortedBut(queue', at')
    <3>1. DOMAIN queue' = 1 .. Len(queue) /\ DOMAIN queue = 1 .. Len(queue)
      BY <2>2, <2>4, QueueType
    <3>2. \A i \in 1 .. Len(queue) : queue[i].wait >= 0
      BY <2>3, <3>1 DEF Sorted
    <3>3. \A i \in 1 .. Len(queue) : i # 1 => queue'[i].wait >= 0
      BY <2>4, <3>2
    <3>4. \A i \in 1 .. Len(queue) : queue'[i].timer # at' => i # 1
      BY <2>6
    <3> QED
      BY <3>1, <3>3, <3>4 DEF SortedBut
  <2>8. Queued'
    BY <1>1, <2>1, <2>4, <2>6 DEF Queued, Running
  <2>9. Started'
    BY <2>3, <2>4, <2>6, <2>7 DEF Started, Early
  <2>10. Late' \in Nat /\ Late' <= d
    <3>1. Wait' = queue[1].wait - d
      BY <2>4, <2>5, <2>6 DEF Wait
    <3>2. Late' = IF Wait' < 0 THEN -Wait' ELSE 0
      BY <2>1, <2>5, <2>2, QueueType, Names DEF Late
    <3> QED
      BY <2>2, <2>3, <3>1, <3>2
  <2>11. Closing'
    <3>1. ASSUME exit = "no", ~online
          PROVE \E j \in Down : restart[j] = 6 /\ Due(queue')[j] + Late' <= ViewTime
      <4>1. PICK j \in Down : restart[j] = 6 /\ Due(queue)[j] + Late <= ViewTime
        BY <1>1, <3>1 DEF Closing
      <4>2. j \in Timers(queue) /\ Due(queue)[j] \in Int
        BY <1>1, <4>1, <2>2, DueType DEF Queued, Running
      <4>3. Due(queue')[j] + Late' <= ViewTime
        BY <2>2, <2>3, <2>4, <2>10, <4>1, <4>2, Positive DEF Secs
      <4> QED
        BY <4>1, <4>3
    <3> QED
      BY <1>1, <2>1, <3>1 DEF Closing
  <2>12. Typed'
    BY <1>1, <2>1 DEF Typed
  <2> QED
    BY <2>8, <2>9, <2>11, <2>12 DEF IInv
<1>7. CASE Done
  <2>1. at # "none" /\ Wait > 0 /\ at' = "none"
          /\ UNCHANGED <<queue, restart, online, exit, unseen>>
    BY <1>7 DEF Done
  <2>2. queue \in Queue(T) /\ at \in Timers(queue)
    BY <1>1, <2>1 DEF Queued
  <2>3. queue[At(queue, at)].wait \in Int
    BY <2>2, AtTimer, QueueType
  <2>4. Started'
    <3> SUFFICES ASSUME exit = "no" PROVE Waiting(queue) /\ SortedBut(queue, at')
      BY <2>1 DEF Started, Early
    <3>1. Waiting(queue)
      <4>1. CASE Len(queue) > 0 /\ queue[1].timer = at
        <5>1. 1 \in 1 .. Len(queue)
          BY <2>2, <4>1, QueueType
        <5>2. At(queue, at) = 1
          BY <2>2, <4>1, <5>1, AtTimer
        <5> QED
          BY <2>1, <5>2 DEF Waiting, Wait
      <4> QED
        BY <1>1, <4>1 DEF Started, Early
    <3>2. DOMAIN queue = 1 .. Len(queue)
      BY <2>2, QueueType
    <3>3. ASSUME NEW i \in 1 .. Len(queue) PROVE queue[i].wait >= 0
      <4>1. CASE queue[i].timer = at
        <5>1. At(queue, at) = i
          BY <2>2, <4>1, AtTimer
        <5> QED
          BY <2>1, <2>3, <5>1 DEF Wait
      <4> QED
        BY <1>1, <3>2, <4>1 DEF Started, SortedBut
    <3> QED
      BY <3>1, <3>2, <3>3 DEF SortedBut
  <2>5. Late = 0 /\ Late' = 0
    BY <2>1, <2>3 DEF Late, Wait
  <2>6. Queued' /\ Typed'
    BY <1>1, <2>1 DEF Queued, Running, Typed
  <2>7. Closing'
    BY <1>1, <2>1, <2>5 DEF Closing
  <2> QED
    BY <2>4, <2>6, <2>7 DEF IInv
<1>8. ASSUME NEW t \in T, NEW s \in Secs, Fires(t), Again(t, s), exit' = exit,
             \/ UNCHANGED <<restart, online, unseen>> /\ t = "cache"
             \/ /\ t \in Down /\ restart[t] > 7
                /\ restart' = [restart EXCEPT ![t] = @ - 1] /\ UNCHANGED <<online, unseen>>
             \/ /\ t \in Down /\ restart[t] = 7
                /\ restart' = [restart EXCEPT ![t] = @ - 1] /\ s = ViewTime
                /\ \/ online' = FALSE /\ unseen' = unseen
                   \/ online' = online /\ unseen' = unseen \cup {t}
      PROVE  IInv'
  <2>1. /\ queue' \in Queue(T) /\ Timers(queue') = Timers(queue) /\ Sorted(queue')
        /\ at' \in Timers(queue') \cup {"none"} /\ Early(queue', at') /\ Late' = 0
        /\ Due(queue')[t] = s /\ t \in Timers(queue) /\ Late \in Nat
        /\ \A u \in Timers(queue) \ {t} : Due(queue')[u] <= Due(queue)[u] + Late
    BY <1>8, AgainStep
  <2>2. exit = "no"
    BY <1>8 DEF Fires
  <2>3. restart' \in [Down -> {0} \cup 6 .. 10]
    BY <1>1, <1>8 DEF Typed
  <2>4. Typed'
    BY <1>1, <1>8, <2>3 DEF Typed
  <2>5. \A j \in Down : restart'[j] = 0 <=> restart[j] = 0
    BY <1>1, <1>8 DEF Typed
  <2>6. Queued'
    BY <1>1, <2>1, <2>5 DEF Queued, Running
  <2>7. Started'
    BY <2>1 DEF Started, Sorted, SortedBut
  <2>8. \A j \in Down : j # t => restart'[j] = restart[j]
    BY <1>1, <1>8 DEF Typed
  <2>9. unseen \subseteq unseen' /\ (~online => ~online')
    BY <1>1, <1>8 DEF Typed
  <2>10. ASSUME NEW j \in Down, restart'[j] = 6 PROVE ~online' \/ j \in unseen'
    <3>1. CASE j # t
      BY <1>1, <2>8, <2>9, <2>10, <3>1 DEF Closing
    <3>2. CASE j = t
      <4>1. restart[t] = 7
        BY <1>1, <1>8, <2>10, <3>2, Names DEF Typed
      <4> QED
        BY <1>8, <3>2, <4>1, Names
    <3> QED
      BY <3>1, <3>2
  <2>11. ASSUME ~online'
         PROVE \E j \in Down : restart'[j] = 6 /\ Due(queue')[j] + Late' <= ViewTime
    <3>1. CASE t \in Down /\ restart[t] = 7
      <4>1. restart'[t] = 6 /\ s = ViewTime
        BY <1>1, <1>8, <3>1, Names DEF Typed
      <4> QED
        BY <2>1, <3>1, <4>1, Positive DEF Secs
    <3>2. CASE ~(t \in Down /\ restart[t] = 7)
      <4>1. ~online
        BY <1>8, <2>11, <3>2
      <4>2. PICK j \in Down : restart[j] = 6 /\ Due(queue)[j] + Late <= ViewTime
        BY <1>1, <2>2, <4>1 DEF Closing
      <4>3. j # t /\ j \in Timers(queue)
        BY <1>1, <1>8, <3>2, <4>2, Names DEF Queued, Running
      <4>4. Due(queue)[j] \in Int /\ Due(queue')[j] \in Int
        BY <1>1, <2>1, <4>3, DueType DEF Queued
      <4>5. Due(queue')[j] + Late' <= ViewTime
        BY <2>1, <4>2, <4>3, <4>4, Positive DEF Secs
      <4> QED
        BY <2>8, <4>2, <4>3, <4>5
    <3> QED
      BY <3>1, <3>2
  <2>12. Closing'
    BY <1>8, <2>2, <2>10, <2>11 DEF Closing
  <2> QED
    BY <2>4, <2>6, <2>7, <2>12 DEF IInv
<1>9. CASE FireCache
  BY <1>8, <1>9, Positive, Names DEF FireCache
<1>10. ASSUME NEW k \in Down, Announce(k) PROVE IInv'
  <2>1. PICK s \in Secs : Again(k, s) /\ restart[k] > 7
          /\ restart' = [restart EXCEPT ![k] = @ - 1]
    BY <1>10, Positive DEF Announce, Stage
  <2>2. Fires(k) /\ UNCHANGED <<online, exit, unseen>> /\ k \in T
    BY <1>10, Names DEF Announce
  <2> QED
    BY <1>8, <2>1, <2>2
<1>11. ASSUME NEW k \in Down, LogOff(k) PROVE IInv'
  <2>1. /\ Again(k, ViewTime) /\ restart[k] = 7 /\ restart' = [restart EXCEPT ![k] = @ - 1]
        /\ Fires(k) /\ exit' = exit /\ k \in T /\ ViewTime \in Secs
        /\ \/ online' = FALSE /\ unseen' = unseen
           \/ online' = online /\ unseen' = unseen \cup {k}
    BY <1>11, Positive, Names DEF LogOff, Stage
  <2> QED
    BY <1>8, <2>1
<1>12. ASSUME NEW k \in Down, Exit(k) PROVE IInv'
  <2>1. Fires(k) /\ restart[k] = 6 /\ exit' = k
          /\ UNCHANGED <<queue, restart, online, unseen>>
    BY <1>12 DEF Exit
  <2>2. queue \in Queue(T) /\ k \in Timers(queue) /\ at' \in Timers(queue) \cup {"none"}
    BY <1>1, <2>1, AfterIs, Names DEF Queued, Fires
  <2>3. exit' # "no" /\ (~online \/ k \in unseen)
    BY <1>1, <2>1, Names DEF Closing
  <2>4. Typed'
    BY <1>1, <2>1 DEF Typed
  <2>5. Queued'
    BY <1>1, <2>1, <2>2 DEF Queued, Running
  <2>6. Started' /\ Closing'
    BY <1>1, <2>1, <2>3 DEF Started, Closing
  <2> QED
    BY <2>4, <2>5, <2>6 DEF IInv
<1>13. CASE UNCHANGED vars
  BY <1>1, <1>13 DEF vars, IInv, Typed, Queued, Running, Started, Closing, Late, Wait
<1> QED
  BY <1>3, <1>4, <1>5, <1>6, <1>7, <1>9, <1>10, <1>11, <1>12, <1>13 DEF Next

\* DueAt is what is left of the stage, and the stages to come are in the sum.
LEMMA InvTold == IInv => ToldInTime
<1> SUFFICES ASSUME IInv PROVE ToldInTime
  OBVIOUS
<1>1. queue \in Queue(T) /\ Typed
  BY DEF IInv, Queued
<1>2. TypeOK
  <2>1. queue \in Seq([timer : TimerName, wait : Int]) /\ Cardinality(Timers(queue)) = Len(queue)
    BY <1>1, LengthIs DEF Queue, T
  <2>2. at \in TimerName \cup {"none"}
    BY <1>1, DueType DEF IInv, Queued, T
  <2> QED
    BY <2>1, <2>2, <1>1 DEF TypeOK, IInv, Queued, Typed
<1>3. ASSUME NEW k \in Down, Free, Running(k)
      PROVE  TimeToDD(k) = Left(k) - (IF restart[k] = 8 THEN DueAt(queue, At(queue, k) - 1) ELSE 0)
  <2>1. k \in Timers(queue)
    BY <1>3 DEF IInv, Queued
  <2> DEFINE own == queue[At(queue, k)].wait
             before == DueAt(queue, At(queue, k) - 1)
  <2>2. own \in Nat /\ before >= 0 /\ Due(queue)[k] = before + own
    BY <1>1, <1>3, <2>1, FreeWaits, DueSorted
  <2>3. before \in Int
    <3>1. At(queue, k) - 1 \in 0 .. Len(queue)
      BY <1>1, <2>1, AtTimer, QueueType
    <3> QED
      BY <1>1, <3>1, DueInt
  <2> HIDE DEF own, before
  <2>4. /\ TimeToDD(k) = CASE restart[k] = 10 -> before + own + Stage1 + Stage2 + Stage3
                           [] restart[k] = 9  -> before + own + Stage2 + Stage3
                           [] restart[k] = 8  -> own + Stage3
                           [] OTHER           -> before + own
        /\ Left(k) = (before + own) + (CASE restart[k] = 10 -> Stage1 + Stage2 + Stage3
                                         [] restart[k] = 9  -> Stage2 + Stage3
                                         [] restart[k] = 8  -> Stage3
                                         [] OTHER           -> 0)
        /\ before = DueAt(queue, At(queue, k) - 1)
    BY <2>2 DEF TimeToDD, Left, own, before
  <2>5. CASE restart[k] = 10
    BY <2>2, <2>3, <2>4, <2>5, Positive DEF Secs
  <2>6. CASE restart[k] = 9
    BY <2>2, <2>3, <2>4, <2>6, Positive DEF Secs
  <2>7. CASE restart[k] = 8
    BY <2>2, <2>3, <2>4, <2>7, Positive DEF Secs
  <2>8. CASE restart[k] \notin {8, 9, 10}
    <3>1. TimeToDD(k) = before + own /\ Left(k) = (before + own) + 0
      BY <2>4, <2>8
    <3> QED
      BY <3>1, <2>2, <2>3, <2>8
  <2> QED
    BY <2>5, <2>6, <2>7, <2>8
<1> QED
  BY <1>2, <1>3 DEF ToldInTime

\* The timer of the last stage is due too soon for anyone to come in.
LEMMA InvNobody == IInv => NobodyComesIn
<1> SUFFICES ASSUME IInv, Free, ~online PROVE Refuses
  BY DEF NobodyComesIn
<1>1. queue \in Queue(T) /\ Sorted(queue) /\ Late = 0
  BY FreeWaits DEF IInv, Queued
<1>0. PICK k \in Down : restart[k] = 6 /\ Due(queue)[k] + Late <= ViewTime
  BY DEF IInv, Closing, Free
<1>3. k \in Timers(queue) /\ Running(k)
  BY <1>0 DEF IInv, Queued, Running
<1>2. restart[k] = 6 /\ Due(queue)[k] <= ViewTime
  BY <1>0, <1>1, <1>3, DueType
<1>4. Due(queue)[k] = DueAt(queue, At(queue, k) - 1) + queue[At(queue, k)].wait
        /\ Due(queue)[k] \in Int
  BY <1>1, <1>3, DueSorted, DueType
<1>5. TimeToDD(k) = DueAt(queue, At(queue, k) - 1) + queue[At(queue, k)].wait
  BY <1>2 DEF TimeToDD
<1>6. TimeToDD(k) < Shut
  BY <1>2, <1>4, <1>5, Positive, ViewAssumption DEF Secs
<1> QED
  BY <1>3, <1>6 DEF Refuses

\* That is a part of Closing.
LEMMA InvLogged == IInv => LoggedOffFirst
  BY DEF IInv, Closing, LoggedOffFirst

\* No other action moves the deadline of a timer but by time, and by what the timer that
\* fires is late; and a stage that ends leaves exactly the stages after it.
LEMMA StepPuts ==
  IInv /\ [Next]_vars =>
    [~SetsRunning => \A k \in Down : restart'[k] > 6 /\ Running(k) => Left(k)' <= Left(k) + Late]_vars
<1> SUFFICES ASSUME IInv, Next, ~SetsRunning, NEW k \in Down, restart'[k] > 6, Running(k)
             PROVE  Left(k)' <= Left(k) + Late
  BY DEF NotPutOff
<1> DEFINE Stages(r) == CASE r = 10 -> Stage1 + Stage2 + Stage3
                          [] r = 9  -> Stage2 + Stage3
                          [] r = 8  -> Stage3
                          [] OTHER  -> 0
<1>1. /\ queue \in Queue(T) /\ k \in Timers(queue) /\ Due(queue)[k] \in Int /\ Typed
      /\ Timers(queue) = {"cache"} \cup {j \in Down : Running(j)}
  BY DueType DEF IInv, Queued
<1>2. Left(k) = Due(queue)[k] + Stages(restart[k])
        /\ Left(k)' = Due(queue')[k] + Stages(restart'[k])
  BY DEF Left
<1>3. Stages(10) = Stage1 + Stage2 + Stage3 /\ Stages(9) = Stage2 + Stage3
        /\ Stages(8) = Stage3 /\ Stages(7) = 0
  OBVIOUS
<1>4. \A r : Stages(r) \in Int
  <2> TAKE r
  <2>1. CASE r = 10
    BY <2>1, Positive DEF Secs
  <2>2. CASE r = 9
    BY <2>2, Positive DEF Secs
  <2>3. CASE r = 8
    BY <2>3, Positive DEF Secs
  <2>4. CASE r # 8 /\ r # 9 /\ r # 10
    BY <2>4
  <2> QED
    BY <2>1, <2>2, <2>3, <2>4
<1> HIDE DEF Stages
<1>0. Late \in Nat
  <2>1. ASSUME at # "none" PROVE Wait \in Int
    <3>1. at \in Timers(queue)
      BY <2>1 DEF IInv, Queued
    <3> QED
      BY <1>1, <3>1, AtTimer, QueueType DEF Wait
  <2> QED
    BY <2>1 DEF Late
<1>5. ASSUME Due(queue')[k] \in Int, Due(queue')[k] <= Due(queue)[k] + Late,
             restart'[k] = restart[k]
      PROVE  Left(k)' <= Left(k) + Late
  BY <1>0, <1>1, <1>2, <1>4, <1>5
<1>6. ASSUME NEW j \in Down, NEW s \in Secs, Free, Arm(j, s), ~Running(j)
      PROVE Left(k)' <= Left(k) + Late
  <2>1. k # j /\ k \in Timers(queue) \ {j}
    BY <1>1, <1>6
  <2>2. restart'[k] = restart[k] /\ Due(queue')[k] = Due(queue)[k]
    <3>1. /\ restart' = [restart EXCEPT ![j] = 10]
          /\ \A u \in Timers(queue) \ {j} :
               ~Running(j) \/ At(queue, u) < At(queue, j) => Due(queue')[u] = Due(queue)[u]
      BY <1>6, ArmStep
    <3> QED
      BY <1>1, <1>6, <2>1, <3>1 DEF Typed
  <2> QED
    BY <1>0, <1>1, <2>2, <1>5
<1>7. ASSUME NEW j \in Down, NEW s \in SysopTimes, Sysop(j, s) PROVE Left(k)' <= Left(k) + Late
  <2>1. ~Running(j)
    BY <1>7 DEF SetsRunning
  <2> QED
    BY <1>6, <1>7, <2>1, Positive DEF Sysop
<1>8. ASSUME NEW j \in Down, Signal(j) PROVE Left(k)' <= Left(k) + Late
  <2>1. ~Running(j)
    BY <1>8 DEF SetsRunning
  <2> QED
    BY <1>6, <1>8, <2>1, Positive DEF Signal
<1>9. ASSUME NEW j \in Down, Cancel(j) PROVE Left(k)' <= Left(k) + Late
  <2>1. Running(j) /\ queue' = Delete(queue, j) /\ restart' = [restart EXCEPT ![j] = 0]
    BY <1>9 DEF Cancel
  <2>2. k # j /\ restart'[k] = restart[k]
    BY <1>1, <2>1 DEF Typed
  <2>3. j \in Timers(queue) /\ queue[At(queue, j)].wait \in Nat
    <3>1. j \in Timers(queue)
      BY <1>1, <2>1
    <3>2. Sorted(queue)
      BY <1>9, FreeWaits DEF Cancel
    <3> QED
      BY <1>1, <3>1, <3>2, DueSorted
  <2>4. Due(queue')[k] = Due(queue)[k] + (IF At(queue, k) < At(queue, j) \/ queue[At(queue, j)].wait >= 0
                                          THEN 0 ELSE -queue[At(queue, j)].wait)
    BY <1>1, <2>1, <2>2, <2>3, DeleteDue
  <2>5. Due(queue')[k] = Due(queue)[k]
    BY <1>1, <2>3, <2>4
  <2> QED
    BY <1>0, <1>1, <2>2, <2>5, <1>5
<1>10. ASSUME NEW d \in 1 .. MaxLag, Round(d) PROVE Left(k)' <= Left(k) + Late
  <2>1. queue' = Elapse(queue, d) /\ restart' = restart /\ d \in Nat
    BY <1>10, Positive DEF Round, Secs
  <2>2. Due(queue')[k] = Due(queue)[k] - d
    BY <1>1, <2>1, ElapseDue
  <2> QED
    BY <1>0, <1>1, <2>1, <2>2, <1>5
<1>11. CASE Done
  BY <1>0, <1>1, <1>11, <1>5 DEF Done
<1>12. CASE FireCache
  <2>1. "cache" \in T /\ CacheTime \in Secs /\ Fires("cache") /\ Again("cache", CacheTime)
          /\ restart' = restart
    BY <1>12, Positive, Names DEF FireCache
  <2>2. Due(queue')[k] <= Due(queue)[k] + Late /\ queue' \in Queue(T) /\ k \in Timers(queue')
    BY <1>1, <2>1, AgainStep, Names
  <2>3. Due(queue')[k] \in Int
    BY <2>2, DueType
  <2> QED
    BY <2>1, <2>2, <2>3, <1>5
<1>13. ASSUME NEW j \in Down, NEW s \in Secs, Fires(j), Stage(j, s),
              restart[j] = 7 \/ s + Stages(restart[j] - 1) = Stages(restart[j])
       PROVE  Left(k)' <= Left(k) + Late
  <2>1. j \in T /\ Again(j, s) /\ restart' = [restart EXCEPT ![j] = @ - 1]
    BY <1>13, Names DEF Stage
  <2>2. /\ Due(queue')[j] = s /\ Due(queue)[j] + Late >= 0
        /\ \A u \in Timers(queue) \ {j} : Due(queue')[u] <= Due(queue)[u] + Late
        /\ queue' \in Queue(T) /\ k \in Timers(queue')
    BY <1>1, <1>13, <2>1, AgainStep
  <2>3. CASE k # j
    <3>1. restart'[k] = restart[k] /\ Due(queue')[k] <= Due(queue)[k] + Late
      BY <1>1, <2>1, <2>2, <2>3 DEF Typed
    <3>2. Due(queue')[k] \in Int
      BY <2>2, DueType
    <3> QED
      BY <3>1, <3>2, <1>5
  <2>4. CASE k = j
    <3>1. restart'[k] = restart[k] - 1 /\ restart[k] \in Int
      BY <1>1, <2>1, <2>4 DEF Typed
    <3>2. restart[k] # 7
      BY <3>1
    <3>3. Left(k)' = s + Stages(restart[k] - 1)
      BY <1>2, <2>2, <2>4, <3>1
    <3>4. s + Stages(restart[k] - 1) = Stages(restart[k])
      BY <1>13, <2>4, <3>2
    <3> QED
      BY <1>0, <1>1, <1>2, <1>4, <2>2, <2>4, <3>3, <3>4
  <2> QED
    BY <2>3, <2>4
<1>14. ASSUME NEW j \in Down, Announce(j) PROVE Left(k)' <= Left(k) + Late
  <2>1. Fires(j)
    BY <1>14 DEF Announce
  <2>2. PICK s \in Secs :
          /\ Stage(j, s)
          /\ \/ restart[j] = 10 /\ s = Stage1
             \/ restart[j] = 9 /\ s = Stage2
             \/ restart[j] = 8 /\ s = Stage3
    BY <1>14, Positive DEF Announce
  <2>3. s + Stages(restart[j] - 1) = Stages(restart[j])
    <3>1. Stage1 \in Secs /\ Stage2 \in Secs /\ Stage3 \in Secs
      BY Positive
    <3>2. CASE restart[j] = 10 /\ s = Stage1
      BY <3>1, <3>2, <1>3 DEF Secs
    <3>3. CASE restart[j] = 9 /\ s = Stage2
      BY <3>1, <3>3, <1>3 DEF Secs
    <3>4. CASE restart[j] = 8 /\ s = Stage3
      BY <3>1, <3>4, <1>3 DEF Secs
    <3> QED
      BY <2>2, <3>2, <3>3, <3>4
  <2> QED
    BY <2>1, <2>2, <2>3, <1>13
<1>15. ASSUME NEW j \in Down, LogOff(j) PROVE Left(k)' <= Left(k) + Late
  BY <1>13, <1>15, Positive DEF LogOff
<1>16. ASSUME NEW j \in Down, Exit(j) PROVE Left(k)' <= Left(k) + Late
  BY <1>0, <1>1, <1>5, <1>16 DEF Exit
<1> QED
  BY <1>7, <1>8, <1>9, <1>10, <1>11, <1>12, <1>14, <1>15, <1>16 DEF Next

\* IInv is an invariant.
LEMMA Invariant == Spec => []IInv
<1>1. Init => IInv
  BY InitInv
<1>2. IInv /\ [Next]_vars => IInv'
  BY NextInv
<1> QED
  BY <1>1, <1>2, PTL DEF Spec

\* The time that the users are told is the time until they are logged off, but for the
\* stage of the last 30 seconds (time_to_dd, timeout.c).
THEOREM Told == Spec => []ToldInTime
<1>1. IInv => ToldInTime
  BY InvTold
<1> QED
  BY <1>1, Invariant, PTL

\* Once everyone was logged off nobody can log in any more (ConnUser.c).
THEOREM Nobody == Spec => []NobodyComesIn
<1>1. IInv => NobodyComesIn
  BY InvNobody
<1> QED
  BY <1>1, Invariant, PTL

\* The program ends only after everyone was logged off, unless the last screen could not
\* be loaded (shutdown_timeout, reboot_timeout).
THEOREM LoggedOff == Spec => []LoggedOffFirst
<1>1. IInv => LoggedOffFirst
  BY InvLogged
<1> QED
  BY <1>1, Invariant, PTL

\* Whatever is done to other timers, the end is put off by no more than one of them is late.
THEOREM PutOff == Spec => NotPutOff
<1>1. IInv /\ [Next]_vars =>
    [~SetsRunning => \A k \in Down : restart'[k] > 6 /\ Running(k) => Left(k)' <= Left(k) + Late]_vars
  BY StepPuts
<1> QED
  BY <1>1, Invariant, PTL DEF Spec, NotPutOff

=============================================================================
