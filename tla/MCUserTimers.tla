---------------------------- MODULE MCUserTimers ----------------------------
(* The timers of UserTimers, and whether one was ever put back at the deadline *)
(* of the one after it.                                                        *)
EXTENDS UserTimers

VARIABLE tied   \* what the queue does is no longer held against the deadlines

TiedSpec ==
  /\ tied = FALSE /\ Init
  /\ [][Next /\ tied' = (tied \/ Tie)]_<<vars, tied>>

\* The queue implements the deadlines of its timers, whatever is done to the
\* others, until a timer is put back at the deadline of the one after it.
NeverEarly ==
  deadlines!Init /\ [][tied' \/ [deadlines!Next]_deadlines!vars]_<<vars, tied>>

=============================================================================
