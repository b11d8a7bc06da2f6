---------------------------- MODULE SystemTimers ----------------------------
(***************************************************************************)
(* The timers of the system: the reboot and the shutdown, which run in     *)
(* stages, and the expiry of the file cache, standing for every timer that *)
(* restarts for ever (the other is the log rotation).  Sysops and signals  *)
(* set and cancel them between two rounds of update_timers().              *)
(***************************************************************************)
EXTENDS TimerQueue, FiniteSets

CONSTANTS
  SysopTimes,     \* the seconds a Sysop may choose
  SignalTime,     \* four minutes: what SIGQUIT and SIGABRT set
  Stage1, Stage2, Stage3,   \* the seconds between the announcements
  ViewTime,       \* the seconds to view the last screen
  CacheTime,      \* PARAM_CACHE_TIMEOUT
  MaxDue,         \* bound: no timer is set while one is further away than this
  MaxLag,         \* bound: the seconds between two rounds of update_timers()
  Shut            \* below this nobody may connect (10 seconds)

Durations == {SignalTime, Stage1, Stage2, Stage3, ViewTime, CacheTime, Shut, MaxDue, MaxLag}

ASSUME DurationAssumption == Durations \cup SysopTimes \subseteq Nat \ {0}

\* The last screen is shorter than both: 2 seconds.
ASSUME ViewAssumption == ViewTime < Shut /\ ViewTime <= SignalTime

Down == {"reboot", "shutdown"}
TimerName == Down \cup {"cache"}

VARIABLES
  queue,    \* timerq
  restart,  \* reboot_timer->restart and shutdown_timer->restart, 0 for NULL
  at,       \* the timer update_timerqueue() looks at, "none" outside the loop
  online,   \* TRUE while somebody may be online
  exit,     \* what the program exited for
  unseen    \* history: the timers whose last screen could not be loaded

vars == <<queue, restart, at, online, exit, unseen>>

Running(k) == restart[k] # 0

Init ==
  /\ queue = Insert(<< >>, "cache", CacheTime)
  /\ restart = [k \in Down |-> 0]
  /\ at = "none" /\ online = TRUE /\ exit = "no" /\ unseen = {}

Free == at = "none" /\ exit = "no"

\* The timer k is set to s seconds, made anew when there is none.
Arm(k, s) ==
  /\ DueAt(queue, Len(queue)) <= MaxDue
  /\ restart' = [restart EXCEPT ![k] = 10]
  /\ queue' = IF Running(k) THEN Reset(queue, k, s) ELSE Insert(queue, k, s)
  /\ unseen' = unseen \ {k}

\* state_reboot_password, state_shutdown_password: the Sysop was asked for the
\* time while no timer ran; by now another Sysop or a signal may have set one.
Sysop(k, s) ==
  /\ Free /\ online
  /\ Arm(k, s)
  /\ UNCHANGED <<at, online, exit>>

Cancel(k) ==
  /\ Free /\ online /\ Running(k)
  /\ restart' = [restart EXCEPT ![k] = 0]
  /\ queue' = Delete(queue, k)
  /\ unseen' = unseen \ {k}
  /\ UNCHANGED <<at, online, exit>>

\* A timer that runs is left alone when its relative time is four minutes at most.
LeftAlone(k) == Running(k) /\ queue[At(queue, k)].wait <= SignalTime

\* sig_reboot (SIGQUIT) and sig_shutdown (SIGABRT).
Signal(k) ==
  /\ Free
  /\ ~LeftAlone(k)
  /\ Arm(k, SignalTime)
  /\ UNCHANGED <<at, online, exit>>

\* update_timers: d seconds have passed since the last round.
Round(d) ==
  /\ Free
  /\ queue' = Elapse(queue, d)
  /\ at' = queue[1].timer
  /\ UNCHANGED <<restart, online, exit, unseen>>

Wait == queue[At(queue, at)].wait

\* The timer the loop looks at is not due.
Done ==
  /\ at # "none" /\ Wait > 0
  /\ at' = "none"
  /\ UNCHANGED <<queue, restart, online, exit, unseen>>

Fires(t) == exit = "no" /\ at = t /\ Wait <= 0 /\ at' = After(queue, t)

Again(t, s) == queue' = Insert(Delete(queue, t), t, s)

FireCache ==
  /\ Fires("cache")
  /\ Again("cache", CacheTime)
  /\ UNCHANGED <<restart, online, exit, unseen>>

\* The next stage of k is s seconds away.
Stage(k, s) == Again(k, s) /\ restart' = [restart EXCEPT ![k] = @ - 1]

\* Mutant of Announce: the announcement of the last seconds is missed.
AnnounceLess(k) ==
  /\ Fires(k)
  /\ \/ restart[k] = 10 /\ Stage(k, Stage1 + Stage2)
     \/ restart[k] \in {8, 9} /\ Stage(k, Stage3)
  /\ UNCHANGED <<online, exit, unseen>>

\* reboot_timeout, shutdown_timeout: one minute, 30 seconds, 5 seconds to go.
Announce(k) ==
  /\ Fires(k)
  /\ \/ restart[k] = 10 /\ Stage(k, Stage1)
     \/ restart[k] = 9 /\ Stage(k, Stage2)
     \/ restart[k] = 8 /\ Stage(k, Stage3)
  /\ UNCHANGED <<online, exit, unseen>>

\* Mutant of LogOff: it is the last thing it does.
LogOffLast(k) ==
  /\ Fires(k) /\ restart[k] = 7
  /\ restart' = [restart EXCEPT ![k] = 0]
  /\ queue' = Delete(queue, k)
  /\ online' = FALSE
  /\ UNCHANGED <<exit, unseen>>

\* Everyone is logged off, when the last screen can be loaded: without it nobody is,
\* and the stage goes on all the same.
LogOff(k) ==
  /\ Fires(k) /\ restart[k] = 7
  /\ Stage(k, ViewTime)
  /\ \/ online' = FALSE /\ unseen' = unseen
     \/ unseen' = unseen \cup {k} /\ online' = online
  /\ UNCHANGED exit

\* Mutant of Exit: the program exits when everyone should be logged off.
ExitEarly(k) ==
  /\ Fires(k) /\ restart[k] \in {6, 7}
  /\ exit' = k
  /\ UNCHANGED <<queue, restart, online, unseen>>

Exit(k) ==
  /\ Fires(k) /\ restart[k] = 6
  /\ exit' = k
  /\ UNCHANGED <<queue, restart, online, unseen>>

Next ==
  \/ \E d \in 1 .. MaxLag : Round(d)
  \/ Done \/ FireCache
  \/ \E k \in Down :
       \/ \E s \in SysopTimes : Sysop(k, s)
       \/ Cancel(k) \/ Signal(k) \/ Announce(k) \/ LogOff(k) \/ Exit(k)

Spec == Init /\ [][Next]_vars

\* Mutant of TimeToDD: the loop over the queue goes one timer too far.
TimeToDDTwice(k) ==
  LET i == At(queue, k)
      own == queue[i].wait
      before == DueAt(queue, i)
  IN  CASE restart[k] = 10 -> before + own + Stage1 + Stage2 + Stage3
        [] restart[k] = 9  -> before + own + Stage2 + Stage3
        [] restart[k] = 8  -> own + Stage3
        [] OTHER           -> before + own

\* time_to_dd: the seconds to the reboot that users are told.
TimeToDD(k) ==
  LET i == At(queue, k)
      own == queue[i].wait
      before == DueAt(queue, i - 1)
  IN  CASE restart[k] = 10 -> before + own + Stage1 + Stage2 + Stage3
        [] restart[k] = 9  -> before + own + Stage2 + Stage3
        [] restart[k] = 8  -> own + Stage3
        [] OTHER           -> before + own

\* ConnUser_accept turns everyone away in the last seconds.
Refuses == \E k \in Down : Running(k) /\ TimeToDD(k) < Shut

-----------------------------------------------------------------------------
TypeOK ==
  /\ queue \in Seq([timer : TimerName, wait : Int])
  /\ Cardinality(Timers(queue)) = Len(queue)
  /\ Timers(queue) = {"cache"} \cup {k \in Down : Running(k)}
  /\ restart \in [Down -> {0} \cup 6 .. 10]
  /\ at \in TimerName \cup {"none"}
  /\ online \in BOOLEAN
  /\ exit \in Down \cup {"no"}
  /\ unseen \subseteq Down

\* The seconds until everyone is logged off.
Left(k) == Due(queue)[k] +
  (CASE restart[k] = 10 -> Stage1 + Stage2 + Stage3
     [] restart[k] = 9  -> Stage2 + Stage3
     [] restart[k] = 8  -> Stage3
     [] OTHER           -> 0)

\* Users are told exactly the time there is, whatever other timers are before it on the
\* queue; but for the stage of the last 30 seconds, where time_to_dd() loses what is
\* before it (secs = t->sleeptime + 5) and users are told at most that time.
ToldInTime ==
  /\ TypeOK
  /\ \A k \in Down : Free /\ Running(k) =>
       TimeToDD(k) = Left(k) - (IF restart[k] = 8 THEN DueAt(queue, At(queue, k) - 1) ELSE 0)

\* Timers that come, go, restart or change stage never put off a reboot: only
\* setting a timer that runs does that (set_Timer), and a timer that fires late, by as
\* much as it is late.
SetsRunning ==
  \E k \in Down : Running(k) /\ (Signal(k) \/ \E s \in SysopTimes : Sysop(k, s))

Late == IF at # "none" /\ Wait < 0 THEN -Wait ELSE 0

NotPutOff ==
  [][~SetsRunning =>
       \A k \in Down : restart'[k] > 6 /\ Running(k) => Left(k)' <= Left(k) + Late]_vars

\* Once everyone was logged off nobody comes in any more, whatever else signals
\* set while the last screen stands.
NobodyComesIn == Free /\ ~online => Refuses

\* The program only exits when everyone was logged off before, or the last screen of
\* the timer that it exits for could not be loaded.
LoggedOffFirst == exit # "no" => ~online \/ exit \in unseen

=============================================================================
