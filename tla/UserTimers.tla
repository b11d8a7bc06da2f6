----------------------------- MODULE UserTimers -----------------------------
(***************************************************************************)
(* The timers of one user: the idle timer, which is the login timer until  *)
(* the message of the day, the timer of periodic saving, and the timer of  *)
(* the logout screen.  Time passes in update_timers(), which the main loop *)
(* calls between the handlers; the loop over the timers that are due is    *)
(* modelled step by step, and nothing else runs in between.                *)
(***************************************************************************)
EXTENDS TimerQueue, FiniteSets

CONSTANTS
  LoginTime, IdleTime, LockTime, SaveTime,  \* the timeouts
  Minute, Idling,       \* how long the first and the second warning stand
  LogoutTime,           \* how long the logout screen stands
  MaxLag                \* seconds that may pass between two update_timers()

Durations == {LoginTime, IdleTime, LockTime, SaveTime, Minute, Idling, LogoutTime, MaxLag}

ASSUME DurationAssumption == Durations \subseteq Nat \ {0}

TimerName == {"idle", "save", "logout"}

VARIABLES
  conn,     \* where the user is: login, motd, online, locked, or closing
  queue,    \* usr->timerq
  span,     \* usr->idle_timer->maxtime
  restart,  \* usr->idle_timer->restart
  action,   \* usr->idle_timer->action: login_timeout or user_timeout
  at,       \* the timer update_timerqueue() looks at, "none" outside the loop
  silence,  \* history: seconds since the user reset the idle timer
  unsaved,  \* history: seconds since the last save, up to SaveTime + 2 * MaxLag
  touched,  \* history: the idle timer was set since the last save
  left      \* history: the seconds each timer still has of the time it was set to

vars == <<conn, queue, span, restart, action, at, silence, unsaved, touched, left>>

Init ==
  /\ conn = "login"
  /\ queue = Insert(<< >>, "idle", LoginTime)
  /\ span = LoginTime /\ restart = 0 /\ action = "login"
  /\ at = "none" /\ silence = 0 /\ unsaved = 0 /\ touched = FALSE
  /\ left = [t \in {"idle"} |-> LoginTime]

\* The timer t has s seconds from now on; it has none.
SetLeft(t, s) == left' = [u \in DOMAIN left \cup {t} |-> IF u = t THEN s ELSE left[u]]
NoneLeft(t) == left' = [u \in DOMAIN left \ {t} |-> left[u]]

\* A handler sets the idle timer to a whole maxtime.
SetIdle(q, s) == Reset(q, "idle", s)

\* The end of a handler that resets the idle timer, q being the queue so far.
Handles(q, s) ==
  /\ at = "none"
  /\ queue' = SetIdle(q, s) /\ span' = s
  /\ SetLeft("idle", s)
  /\ silence' = 0 /\ touched' = TRUE
  /\ UNCHANGED <<at, unsaved>>

\* A key of a user who is not locked.
Key ==
  /\ conn \in {"login", "motd", "online"}
  /\ restart' = 10
  /\ Handles(queue, span)
  /\ UNCHANGED <<conn, action>>

\* The last key of the login: the idle timer gets user_timeout.
DisplayMotd ==
  /\ conn = "login" /\ conn' = "motd"
  /\ restart' = 10 /\ action' = "user"
  /\ Handles(SetIdle(queue, span), IdleTime)

\* A key at the message of the day; the timer of periodic saving is added.
GoOnline ==
  /\ conn = "motd" /\ conn' = "online"
  /\ at = "none"
  /\ restart' = 10
  /\ queue' = Insert(SetIdle(queue, span), "save", SaveTime)
  /\ silence' = 0 /\ unsaved' = 0 /\ touched' = FALSE
  /\ left' = [t \in {"idle", "save"} |-> IF t = "idle" THEN span ELSE SaveTime]
  /\ UNCHANGED <<span, action, at>>

\* The key that locks the terminal.
Lock ==
  /\ conn = "online" /\ conn' = "locked"
  /\ restart' = 10
  /\ Handles(SetIdle(queue, span), LockTime)
  /\ UNCHANGED action

\* Keys of a locked user do not count, but a break does.
LockBreak ==
  /\ conn = "locked"
  /\ Handles(queue, LockTime)
  /\ UNCHANGED <<conn, restart, action>>

Unlock ==
  /\ conn = "locked" /\ conn' = "online"
  /\ Handles(queue, IdleTime)
  /\ UNCHANGED <<restart, action>>

\* close_connection for another reason than a timer.
Close ==
  /\ conn \in {"login", "motd", "online", "locked"} /\ at = "none"
  /\ conn' = "wait_close"
  /\ UNCHANGED <<queue, span, restart, action, at, silence, unsaved, touched, left>>

\* ConnUser_wait_close: only the logout timer is left.
WaitClose ==
  /\ conn = "wait_close" /\ at = "none"
  /\ conn' = "wait_close2"
  /\ queue' = Insert(<< >>, "logout", LogoutTime)
  /\ left' = [t \in {"logout"} |-> LogoutTime]
  /\ UNCHANGED <<span, restart, action, at, silence, unsaved, touched>>

Cap(n) == IF n > SaveTime + 2 * MaxLag THEN SaveTime + 2 * MaxLag ELSE n

\* update_timers: the main loop has closed what was to be closed before it.
Second ==
  /\ conn \notin {"wait_close", "closed"} /\ at = "none"
  /\ \E d \in 1 .. MaxLag :
       /\ queue' = Elapse(queue, d)
       /\ silence' = silence + d
       /\ unsaved' = IF "save" \in Timers(queue) THEN Cap(unsaved + d) ELSE unsaved
       /\ left' = [t \in DOMAIN left |-> IF left[t] > d THEN left[t] - d ELSE 0]
  /\ at' = queue[1].timer
  /\ UNCHANGED <<conn, span, restart, action, touched>>

Wait == queue[At(queue, at)].wait

\* The timer the loop looks at is not due.
Done ==
  /\ at # "none" /\ Wait > 0
  /\ at' = "none"
  /\ UNCHANGED <<conn, queue, span, restart, action, silence, unsaved, touched, left>>

Fires(t) == at = t /\ Wait <= 0 /\ at' = After(queue, t)

\* The idle timer is put back with s seconds.
PutBack(s) ==
  /\ queue' = Insert(Delete(queue, "idle"), "idle", s)
  /\ SetLeft("idle", s)

\* Mutant of Warning: the count is set back and the warnings go on.
WarningAgain(s) ==
  /\ restart' = 10
  /\ PutBack(s)
  /\ UNCHANGED conn

\* A firing of the idle timer that leaves it s seconds.
Warning(s) ==
  /\ restart' = restart - 1
  /\ PutBack(s)
  /\ UNCHANGED conn

\* login_timeout, or the first warning, the second, the end of user_timeout.
FireIdle ==
  /\ Fires("idle")
  /\ \/ /\ action = "user" /\ restart = 10
        /\ Warning(Minute)
     \/ /\ action = "user" /\ restart = 9
        /\ Warning(Idling)
     \/ /\ action = "login" \/ restart < 9
        /\ conn' = "wait_close"
        /\ restart' = IF restart > 0 THEN restart - 1 ELSE 0
        /\ \/ /\ restart' = 0
              /\ queue' = Delete(queue, "idle")
              /\ NoneLeft("idle")
           \/ restart' > 0 /\ PutBack(span)
  /\ UNCHANGED <<span, action, silence, unsaved, touched>>

FireSave ==
  /\ Fires("save")
  /\ queue' = Insert(Delete(queue, "save"), "save", SaveTime)
  /\ unsaved' = 0 /\ touched' = FALSE
  /\ SetLeft("save", SaveTime)
  /\ UNCHANGED <<conn, span, restart, action, silence>>

\* close_logout; the timer is destroyed.
FireLogout ==
  /\ Fires("logout")
  /\ conn' = "closed"
  /\ queue' = Delete(queue, "logout")
  /\ NoneLeft("logout")
  /\ UNCHANGED <<span, restart, action, silence, unsaved, touched>>

Next ==
  \/ Key \/ DisplayMotd \/ GoOnline \/ Lock \/ LockBreak \/ Unlock \/ Close
  \/ WaitClose \/ Second \/ Done \/ FireIdle \/ FireSave \/ FireLogout

Spec == Init /\ [][Next]_vars

-----------------------------------------------------------------------------
TypeOK ==
  /\ conn \in {"login", "motd", "online", "locked", "wait_close", "wait_close2", "closed"}
  /\ queue \in Seq([timer : TimerName, wait : Int])
  /\ Cardinality(Timers(queue)) = Len(queue)
  /\ span \in {LoginTime, IdleTime, LockTime}
  /\ restart \in 0 .. 10
  /\ action \in {"login", "user"}
  /\ at \in TimerName \cup {"none"}
  /\ silence \in Nat
  /\ unsaved \in 0 .. SaveTime + 2 * MaxLag
  /\ touched \in BOOLEAN
  /\ left \in [Timers(queue) -> Nat]

\* Every timer is on the queue at most once; between two rounds none is overdue, and
\* the relative times are such that the queue is in the order of the deadlines.
QueueSorted == TypeOK /\ (at = "none" => Sorted(queue))

\* However the timers of the queue disturb each other, a user who is silent is
\* logged off in time: the timeout, the two warnings, and one lag for every
\* timer that fires before.
SilenceBounded ==
  conn \notin {"wait_close2", "closed"} =>
    silence <= span + Minute + Idling
                 + (MaxLag - 1) * (4 + (span + Minute + Idling) \div SaveTime)

\* A user whose idle timer was left alone since the last save is saved in time, but
\* for the lags of the two warnings, which put the save off.
SavedUnlessTouched ==
  at = "none" /\ conn \in {"online", "locked"} /\ ~touched =>
    unsaved < SaveTime + 2 * (MaxLag - 1)

\* The deadlines of the timers, while no timer is firing.
deadlines == INSTANCE Deadlines WITH Timer <- TimerName, firing <- at # "none"

\* A timer is put back at the deadline of the one after it, which fires at once.
Tie == "none" \notin {at, at'} /\ at' # at /\ queue[At(queue, at')].wait > 0
                                        /\ queue'[At(queue', at')].wait = 0

\* The first warning comes after the idle timeout (DEFAULT_IDLE_TIMEOUT).
IdleInTime ==
  [][FireIdle /\ action = "user" /\ restart = 10 /\ conn = "online" =>
       silence >= IdleTime]_vars

=============================================================================
