----------------------------- MODULE Deadlines ------------------------------
(***************************************************************************)
(* What a timer queue promises: a timer that is set for a number of        *)
(* seconds fires when they are over or later, and what happens to other    *)
(* timers does not matter to it.                                           *)
(***************************************************************************)
EXTENDS Integers

CONSTANTS Timer, MaxLag

VARIABLES
  left,    \* the seconds that each timer that is set still has
  firing   \* TRUE while the timers that are due fire

vars == <<left, firing>>

Active == DOMAIN left

\* The timers of T get a time, and no others.
Given(T) ==
  /\ DOMAIN left' = Active \cup T
  /\ \A t \in T : left'[t] > 0
  /\ \A t \in Active \ T : left'[t] = left[t]

Init == ~firing /\ \E T \in SUBSET Timer : left \in [T -> Nat \ {0}]

\* The loop looks at the clock.
Pass ==
  /\ ~firing /\ firing'
  /\ \E d \in 1 .. MaxLag :
       left' = [t \in Active |-> IF left[t] > d THEN left[t] - d ELSE 0]

\* A timer whose time is over fires; it is set again, or it is gone.
Fire(t) ==
  /\ firing /\ t \in Active /\ left[t] = 0
  /\ Given({t}) \/ left' = [u \in Active \ {t} |-> left[u]]

Stop == firing /\ ~firing' /\ UNCHANGED left

Set(T) == ~firing /\ ~firing' /\ Given(T)

\* All timers are thrown away but for one.
Only(t) == ~firing /\ ~firing' /\ DOMAIN left' = {t} /\ left'[t] > 0

Next ==
  \/ Pass \/ Stop
  \/ \E t \in Timer : Fire(t) \/ Only(t)
  \/ \E T \in SUBSET Timer : Set(T)

Spec == Init /\ [][Next]_vars

=============================================================================
