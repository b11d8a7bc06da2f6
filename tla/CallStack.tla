----------------------------- MODULE CallStack -----------------------------
(***************************************************************************)
(* The call stack of a connection.  A session is a record that has, among  *)
(* others, the fields stack, the return addresses (names of state          *)
(* functions) and the arguments pushed between them, the top first, and    *)
(* key, what the function on top is called with: "init" and "prompt" are   *)
(* pending calls, "wait" means that it sits until a key comes.  The calls  *)
(* that C nests are made one after the other: a handler ends with the      *)
(* call, so that nothing is left to do when it returns.                    *)
(***************************************************************************)
EXTENDS Sequences, Naturals

Top(s) == Head(s.stack)

\* What the code does when no function is left to call: from then on the keys
\* of this connection are ignored.
Empty(s) == s.stack = << >>

Push(s, f) == [s EXCEPT !.stack = <<f>> \o @]

\* Callx with INIT_STATE
Call(s, f) == [Push(s, f) EXCEPT !.key = "init"]

\* Move: replace the current level, call nothing
Move(s, f) == [s EXCEPT !.stack = <<f>> \o Tail(@)]

Jump(s, f) == [Move(s, f) EXCEPT !.key = "init"]

Pop(s) == IF Empty(s) THEN s ELSE [s EXCEPT !.stack = Tail(@)]

\* Retx: leave this level and call the one below, if there is any.
RetX(s, k) == LET p == Pop(s) IN [p EXCEPT !.key = IF Empty(p) THEN "wait" ELSE k]

Ret(s) == RetX(s, "init")

Current(s) == [s EXCEPT !.key = "init"]

Wait(s) == [s EXCEPT !.key = "wait"]

\* PUSH_ARG: the handler pushes itself on top of it.
PushArg(s, a) == [s EXCEPT !.stack = <<a>> \o @]

\* PopArg takes the element below the return address, whatever that is.
PopArg(s) ==
  IF Len(s.stack) < 2 THEN s
  ELSE [s EXCEPT !.stack = <<Head(@)>> \o Tail(Tail(@))]

PeekArg(s) == IF Len(s.stack) < 2 THEN "none" ELSE s.stack[2]

=============================================================================
