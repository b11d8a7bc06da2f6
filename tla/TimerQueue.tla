----------------------------- MODULE TimerQueue -----------------------------
(***************************************************************************)
(* The timer queues of bbs100.  A queue is a list of timers in the order   *)
(* in which they fire; each keeps the seconds it fires after the one       *)
(* before it ("the timerqueue works with 'relative' time").  Every User    *)
(* has a queue, and the system has one.                                    *)
(***************************************************************************)
EXTENDS Integers, Sequences

\* An element of a queue: a timer, and its sleeptime.
Entry(t, s) == [timer |-> t, wait |-> s]

\* The seconds until the i-th timer fires.
DueAt(q, i) ==
  LET sum[j \in 0 .. i] == IF j = 0 THEN 0 ELSE sum[j - 1] + q[j].wait
  IN  sum[i]

Timers(q) == {q[i].timer : i \in DOMAIN q}
At(q, t) == CHOOSE i \in DOMAIN q : q[i].timer = t

\* The deadlines of all timers of a queue.
Due(q) == [t \in Timers(q) |-> DueAt(q, At(q, t))]

\* Mutant of Insert: the new timer goes to the end.
InsertLast(q, t, sleep) == Append(q, Entry(t, sleep - DueAt(q, Len(q))))

\* The first timer of q fires s seconds later, and with it all others.
Shift(q, s) ==
  [i \in DOMAIN q |-> Entry(q[i].timer, q[i].wait + (IF i = 1 THEN s ELSE 0))]

\* Before the first timer that is not due earlier than in s seconds.
Place(q, s) ==
  CHOOSE k \in 1 .. Len(q) + 1 : /\ \A i \in 1 .. k - 1 : DueAt(q, i) < s
                                 /\ k = Len(q) + 1 \/ DueAt(q, k) >= s

\* add_Timer: t goes before the first timer that is not due earlier.
Insert(q, t, sleep) ==
  LET s == IF sleep < 0 THEN 0 ELSE sleep
      k == Place(q, s)
      r == s - DueAt(q, k - 1)
  IN  SubSeq(q, 1, k - 1) \o <<Entry(t, r)>> \o Shift(SubSeq(q, k, Len(q)), -r)

\* Mutant of Delete: the time t still had is lost.
DeleteDrops(q, t) ==
  LET k == At(q, t)
  IN  SubSeq(q, 1, k - 1) \o SubSeq(q, k + 1, Len(q))

\* remove_Timer: the time t still had goes to the timer after it.
Delete(q, t) ==
  LET k == At(q, t)
      r == IF q[k].wait > 0 THEN q[k].wait ELSE 0
  IN  SubSeq(q, 1, k - 1) \o Shift(SubSeq(q, k + 1, Len(q)), r)

\* set_Timer: t has its new time already when it is removed.
Reset(q, t, sleep) == Insert(Delete([q EXCEPT ![At(q, t)].wait = sleep], t), t, sleep)

\* The timer after t, or "none".
After(q, t) == IF At(q, t) = Len(q) THEN "none" ELSE q[At(q, t) + 1].timer

\* Mutant of Elapse: a lag counts for one second.
ElapseTick(q, d) == IF q = << >> THEN q ELSE [q EXCEPT ![1].wait = @ - 1]

\* update_timerqueue: the seconds that passed are taken from the first timer.
Elapse(q, d) == Shift(q, -d)

\* Timers fire in order, and none is overdue.
Sorted(q) == \A i \in DOMAIN q : q[i].wait >= 0

=============================================================================
