-------------------------------- MODULE XMsg --------------------------------
(***************************************************************************)
(* eXpress messages between the users who are online.  A message goes to   *)
(* its recipients one by one, in a loop that other users' handlers run in  *)
(* between.  Who is busy or has messages on hold gets it later, in order;  *)
(* who is not may be put to writing an answer by its arrival alone.  Emotes*)
(* and feelings travel as messages do.                                     *)
(***************************************************************************)
EXTENDS Naturals, FiniteSets, SequencesExt

CONSTANTS
  User,
  FollowUp,     \* the users in follow-up mode
  HoldBusy,     \* the users who page through what was held
  Helper,       \* the users who are available to help
  Leaver,       \* the users who log off, and come back
  Buddy,        \* the users who are told of the comings and goings of others
  HaveMailroom, \* PARAM_HAVE_MAILROOM
  MaxHistory,   \* PARAM_MAX_HISTORY
  MaxSent,      \* how many messages are sent
  MaxTold       \* how many notifications are held back, by whomever

ASSUME XMsgAssumption ==
  /\ FollowUp \union HoldBusy \union Helper \union Leaver \union Buddy \subseteq User
  /\ HaveMailroom \in BOOLEAN
  /\ MaxHistory \in Nat \ {0} /\ MaxSent \in Nat /\ MaxTold \in Nat

Frame == {"room", "x_prompt", "edit", "question", "loop", "mail_ask", "history",
          "held", "held_move", "away", "logout", "lock"}

NoMsg == 0      \* the NULL of a pointer to a message

VARIABLES
  us,     \* what a session keeps, for each user
  sent,   \* the number of messages sent so far
  told,   \* the number of notifications held back so far
  wild    \* the program has used memory that it does not own

vars == <<us, sent, told, wild>>

Id == 1 .. MaxSent + MaxTold

MsgOf == [id : Id, from : User, kind : {"x", "question", "oneshot"}]

Fresh == [online |-> TRUE, stack |-> <<"room">>, flags |-> {}, to |-> {}, todo |-> {},
          send |-> << >>, held |-> << >>, hist |-> << >>, held_p |-> NoMsg, hist_p |-> NoMsg,
          arrived |-> << >>, taken |-> << >>]

Away == [Fresh EXCEPT !.online = FALSE, !.stack = << >>]

Top(r) == IF r.stack = << >> THEN "none" ELSE Head(r.stack)

IdsOf(s) == [i \in 1 .. Len(s) |-> s[i].id]

\* The messages of s, without the notifications.
Mails(s) ==
  LET upto[i \in 0 .. Len(s)] ==
        IF i = 0 THEN << >>
        ELSE IF s[i].kind = "oneshot" THEN upto[i - 1] ELSE Append(upto[i - 1], s[i])
  IN  upto[Len(s)]

IsBusy(r) == "busy" \in r.flags
OnHold(r) == "hold" \in r.flags

\* A frame on top of the stack; its INIT_STATE sets the flags fs.
Calls(r, f, fs) == [r EXCEPT !.stack = <<f>> \o @, !.flags = @ \union fs]
Becomes(r, f, fs) == Calls([r EXCEPT !.stack = Tail(@)], f, fs)

Writing == {"busy", "sending"}

-----------------------------------------------------------------------------
(* The lists of messages of one user.                                      *)

\* Mutant of Remember: whoever pages through the history loses his place.
RememberAnyhow(r, m) ==
  LET h == Append(r.hist, m)
  IN  [r EXCEPT !.hist = IF Len(h) > MaxHistory THEN Tail(h) ELSE h]

\* Into the history; expire_history drops the first, unless it is being looked at.
Remember(r, m) ==
  LET h == Append(r.hist, m)
  IN  [r EXCEPT !.hist = IF r.hist_p # Head(h).id /\ Len(h) > MaxHistory THEN Tail(h) ELSE h]

Receive(r, m) == [Remember(r, m) EXCEPT !.taken = Append(@, m.id)]

ReceiveAll(r, s) ==
  LET upto[i \in 0 .. Len(s)] == IF i = 0 THEN r ELSE Receive(upto[i - 1], s[i])
  IN  upto[Len(s)]

AutoReply(u, m) == u \in FollowUp \/ (m.kind = "question" /\ u \in Helper)

\* do_reply_x to one person.
ReplyTo(r, v) == Calls([r EXCEPT !.to = {v}], "edit", Writing)

\* The held messages that are displayed: up to one that is answered at once.
Displayed(u, s, held) ==
  LET stops == {i \in DOMAIN held : /\ held[i].kind # "oneshot"
                                    /\ AutoReply(u, held[i]) /\ s[held[i].from].online}
  IN  IF stops = {} THEN Len(held) ELSE CHOOSE i \in stops : \A j \in stops : i <= j

Spew(u, s, r) ==
  LET n    == Displayed(u, s, r.held)
      last == r.held[n]
      seen == ReceiveAll([r EXCEPT !.held = SubSeq(@, n + 1, Len(@))],
                         Mails(SubSeq(r.held, 1, n)))
  IN  IF last.kind # "oneshot" /\ AutoReply(u, last) /\ s[last.from].online
        THEN ReplyTo(seen, last.from) ELSE seen

\* held_history_prompt: the notifications before the place are skipped backwards.
PlaceInHeld(r) ==
  LET start == IF r.held_p = NoMsg THEN 1
               ELSE CHOOSE i \in DOMAIN r.held : r.held[i].id = r.held_p
      shown == {i \in 1 .. start : r.held[i].kind # "oneshot"}
  IN  IF shown = {} THEN NoMsg
      ELSE r.held[CHOOSE i \in shown : \A j \in shown : j <= i].id

\* The prompt displays the notifications and forgets them; without a place it returns.
HeldPrompt(r) ==
  LET p     == PlaceInHeld(r)
      clean == [r EXCEPT !.held = Mails(@)]
      At(q) == Calls([clean EXCEPT !.held_p = q], "held", {"busy"})
  IN  IF p # NoMsg THEN At(p)
      ELSE IF OnHold(r) \/ clean.held = << >> THEN [clean EXCEPT !.held_p = NoMsg]
      ELSE At(Head(clean.held).id)

\* Mutant of RoomPrompt: what was held waits for the next one.
RoomPromptOnly(u, s, r) == [r EXCEPT !.flags = @ \ Writing, !.to = {}]

\* state_room_prompt and PrintPrompt.  The recipients, who are offered again the
\* next time, are forgotten here: any others may be entered instead.
RoomPrompt(u, s, r) ==
  LET idle == [r EXCEPT !.flags = @ \ Writing, !.to = {}]
  IN  CASE OnHold(r) \/ r.held = << >> -> idle
        [] ~OnHold(r) /\ r.held # << >> /\ u \in HoldBusy -> HeldPrompt(idle)
        [] OTHER -> Spew(u, s, idle)

\* RET to the room prompt, or to one of the prompts above it.
Ret(u, s, r) ==
  LET below == [r EXCEPT !.stack = Tail(@)]
  IN  IF Top(below) = "room" THEN RoomPrompt(u, s, below)
      ELSE [below EXCEPT !.flags = @ \union {"busy"}]

-----------------------------------------------------------------------------
(* Sending.                                                                *)

\* Mutant of HoldsBack: who has messages on hold gets them when he is not busy.
HoldsBackBusy(r) == IsBusy(r)

HoldsBack(r) == IsBusy(r) \/ OnHold(r)

\* recvMsg; refused when v has an enemy in u or does not want multi messages, as he
\* may have decided meanwhile.
RecvMsg(s, v, u, m, refused) ==
  LET r == [s[v] EXCEPT !.arrived = Append(@, m.id)]
  IN  IF v = u THEN s
      ELSE IF refused \/ "locked" \in r.flags THEN [s EXCEPT ![u].to = @ \ {v}]
      ELSE IF HoldsBack(r) THEN [s EXCEPT ![v] = [r EXCEPT !.held = Append(@, m)]]
      ELSE [s EXCEPT ![v] = IF AutoReply(v, m) THEN ReplyTo(Receive(r, m), u) ELSE Receive(r, m)]

Open(s, v) == s[v].online /\ "locked" \notin s[v].flags

\* check_recipients leaves these, or fewer: a user may not want to be written to.
Checked(u, s) == {v \in s[u].to : v = u \/ Open(s, v)}

\* Mutant of SendTo: the loop does not go on when a recipient is gone.
SendToOrStop(u, s, v) ==
  IF Open(s, v) THEN {RecvMsg([s EXCEPT ![u].todo = @ \ {v}], v, u, s[u].send[1], FALSE)}
  ELSE {[s EXCEPT ![u].flags = @ \union {"stuck"}]}

\* One step of loop_send_msg, to v.
SendTo(u, s, v) ==
  LET t == [s EXCEPT ![u].todo = @ \ {v}]
      not == IF HaveMailroom
               THEN [t EXCEPT ![u] = Calls([t[u] EXCEPT !.to = @ \ {v}], "mail_ask", {"busy"})]
             ELSE [t EXCEPT ![u].flags = @ \union {"stuck"}]
  IN  CASE v = u -> {t}
        [] v # u /\ ~Open(s, v) -> {not}
        [] OTHER -> {not} \union {RecvMsg(t, v, u, s[u].send[1], refused) : refused \in BOOLEAN}

LoopStep(u, s) ==
  IF s[u].todo = {} THEN {[s EXCEPT ![u] = Ret(u, s, [@ EXCEPT !.send = << >>])]}
  ELSE UNION {SendTo(u, s, v) : v \in s[u].todo}

\* Tell() to the users who want to know what u does.
ToldLater(u, s) == {v \in Buddy \ {u} : s[v].online /\ HoldsBack(s[v])}

Notify(u, s) ==
  LET m == [id |-> MaxSent + told + 1, from |-> u, kind |-> "oneshot"]
  IN  [v \in User |-> IF v \in ToldLater(u, s) THEN [s[v] EXCEPT !.held = Append(@, m)] ELSE s[v]]

Notified(u) ==
  IF ToldLater(u, us) = {} THEN UNCHANGED told ELSE told < MaxTold /\ told' = told + 1

-----------------------------------------------------------------------------
(* The handlers.                                                           *)

Init ==
  /\ us = [u \in User |-> Fresh]
  /\ sent = 0 /\ told = 0 /\ wild = FALSE

At(u, f) == ~wild /\ us[u].online /\ Top(us[u]) = f

\* The handler of u leaves him with r, and nothing else.
Leaves(u, r) == us' = [us EXCEPT ![u] = r] /\ UNCHANGED <<sent, told, wild>>

\* enter_recipients, and edit_recipients as far as it matters: whom to send to.
EnterRecipients(u) ==
  /\ At(u, "room") /\ ~OnHold(us[u])
  /\ \E R \in (SUBSET {v \in User : us[v].online}) \ {{}} :
       Leaves(u, Calls([us[u] EXCEPT !.to = R], "x_prompt", {"busy"}))

XPrompt(u) ==
  /\ At(u, "x_prompt")
  /\ \E R \in SUBSET Checked(u, us) :
       LET r == [us[u] EXCEPT !.to = R]
       IN  Leaves(u, IF R = {} THEN Ret(u, us, r) ELSE Becomes(r, "edit", Writing))

Abort(u) ==
  /\ \E f \in {"x_prompt", "edit", "question", "held_move", "away", "logout"} : At(u, f)
  /\ LET r == [us[u] EXCEPT !.flags = @ \ {"sending"}]
     IN  Leaves(u, Ret(u, us, IF Top(r) = "held_move" THEN [r EXCEPT !.held = Mails(@)] ELSE r))

\* The end of state_edit_x, and the first step of the loop it calls.
EditReturn(u) ==
  /\ At(u, "edit") /\ sent < MaxSent
  /\ sent' = sent + 1
  /\ LET m == [id |-> sent + 1, from |-> u, kind |-> "x"]
         r == Remember([us[u] EXCEPT !.flags = @ \ {"sending"}], m)
         s == [us EXCEPT ![u] = [Becomes(r, "loop", {}) EXCEPT !.send = <<m>>, !.todo = r.to]]
     IN  us' \in LoopStep(u, s)
  /\ UNCHANGED <<told, wild>>

\* The main loop goes on with a connection that is looping.
LoopSendMsg(u) ==
  /\ At(u, "loop") /\ "stuck" \notin us[u].flags
  /\ us' \in LoopStep(u, us)
  /\ UNCHANGED <<sent, told, wild>>

\* The mail is sent, or it is not: the loop goes on after both.
MailSendMsg(u) ==
  /\ At(u, "mail_ask")
  /\ Leaves(u, [us[u] EXCEPT !.stack = Tail(@)])

AskQuestion(u) ==
  /\ At(u, "room") /\ ~OnHold(us[u])
  /\ \E v \in Helper \ {u} : us[v].online
  /\ Leaves(u, Calls(us[u], "question", Writing))

\* The end of state_edit_question; the helper may have changed, or be gone.
QuestionReturn(u) ==
  /\ At(u, "question") /\ sent < MaxSent
  /\ LET r == [us[u] EXCEPT !.flags = @ \ {"sending"}]
         m == [id |-> sent + 1, from |-> u, kind |-> "question"]
         s == [us EXCEPT ![u] = Remember(r, m)]
     IN  \/ /\ \A v \in Helper \ {u} : ~us[v].online
            /\ us' = [us EXCEPT ![u] = Ret(u, us, r)] /\ UNCHANGED sent
         \/ /\ sent' = sent + 1
            /\ \E v \in Helper \ {u}, refused \in BOOLEAN :
                 /\ us[v].online
                 /\ LET t == RecvMsg(s, v, u, m, refused)
                    IN  us' = [t EXCEPT ![u] = Ret(u, t, @)]
  /\ UNCHANGED <<told, wild>>

\* reply_x: to the last message of another that is remembered.
ReplyX(u) ==
  /\ At(u, "room") /\ ~OnHold(us[u])
  /\ LET others == {i \in DOMAIN us[u].hist : us[u].hist[i].from # u}
     IN  /\ others # {}
         /\ LET i == CHOOSE i \in others : \A j \in others : j <= i
                v == us[u].hist[i].from
            IN  /\ Open(us, v)
                /\ Leaves(u, ReplyTo(us[u], v))

\* The history prompt: hist_p is at the last message.
History(u) ==
  /\ At(u, "room") /\ us[u].hist # << >>
  /\ Leaves(u, Calls([us[u] EXCEPT !.hist_p = Last(us[u].hist).id], "history", {"busy"}))

Position(ids, p) == CHOOSE i \in DOMAIN ids : ids[i] = p

\* Back and next; past either end the prompt is left.
Neighbours(ids, p) ==
  {IF i \in DOMAIN ids THEN ids[i] ELSE NoMsg : i \in {Position(ids, p) - 1, Position(ids, p) + 1}}

HistoryStep(u) ==
  /\ At(u, "history")
  /\ \E p \in Neighbours(IdsOf(us[u].hist), us[u].hist_p) :
       LET r == [us[u] EXCEPT !.hist_p = p]
       IN  Leaves(u, IF p = NoMsg THEN Ret(u, us, [r EXCEPT !.flags = @ \ {"busy"}]) ELSE r)

\* The keys that ask for a number.  A busy user's history does not change meanwhile.
HistoryNumber(u) ==
  /\ At(u, "history")
  /\ \E p \in Range(IdsOf(us[u].hist)) : Leaves(u, [us[u] EXCEPT !.hist_p = p])

\* r replies to the sender, or to everybody else the message went to as well.
Replies(u, r) ==
  \E c \in SUBSET Checked(u, [us EXCEPT ![u].to = User]) :
    LET f == IF Cardinality(c) = 1 THEN "edit" ELSE "x_prompt"
    IN  Leaves(u, IF c = {} THEN [r EXCEPT !.to = c]
                  ELSE Calls([r EXCEPT !.to = c], f, IF f = "edit" THEN Writing ELSE {"busy"}))

HistoryReply(u) == At(u, "history") /\ ~OnHold(us[u]) /\ Replies(u, us[u])

HistoryQuit(u) ==
  /\ At(u, "history")
  /\ Leaves(u, Ret(u, us, [us[u] EXCEPT !.flags = @ \ {"busy"}]))

\* Exit_Held_History: all of it is history now.
ExitHeld(u, r) ==
  LET all  == Mails(r.held)
      done == [r EXCEPT !.hist = @ \o all, !.taken = @ \o IdsOf(all), !.held = << >>,
                        !.held_p = NoMsg, !.flags = @ \ {"busy", "hold"}]
  IN  /\ IF OnHold(r) THEN Notified(u) ELSE UNCHANGED told
      /\ LET s == IF OnHold(r) THEN Notify(u, us) ELSE us
         IN  us' = [s EXCEPT ![u] = Ret(u, s, done)]
      /\ UNCHANGED <<sent, wild>>

HeldStep(u) ==
  /\ At(u, "held")
  /\ LET r == [us[u] EXCEPT !.held = Mails(@)]
     IN  \E p \in Neighbours(IdsOf(r.held), r.held_p) :
           IF p = NoMsg THEN ExitHeld(u, r) ELSE Leaves(u, [r EXCEPT !.held_p = p])

\* Here a number is asked for as well, but what is held changes.
AskNumber(u) ==
  At(u, "held") /\ Leaves(u, Calls([us[u] EXCEPT !.held = Mails(@)], "held_move", {"busy"}))

\* The place may be a notification that came in while the number was asked for:
\* the prompt forgets the notifications, and displays the place.
HeldMove(u) ==
  /\ At(u, "held_move")
  /\ \E p \in Range(IdsOf(us[u].held)) :
       LET r == [us[u] EXCEPT !.held = Mails(@), !.held_p = p]
       IN  /\ us' = [us EXCEPT ![u] = Ret(u, us, r)]
           /\ wild' = (p \notin Range(IdsOf(r.held)))
  /\ UNCHANGED <<sent, told>>

HeldReply(u) ==
  At(u, "held") /\ ~OnHold(us[u]) /\ Replies(u, [us[u] EXCEPT !.held = Mails(@)])

HeldQuit(u) == At(u, "held") /\ ExitHeld(u, [us[u] EXCEPT !.held = Mails(@)])

\* Ctrl-B at the room prompt: messages are put on hold, or not held any longer.
Hold(u) ==
  /\ At(u, "room") /\ ~OnHold(us[u])
  /\ Notified(u)
  /\ LET s == Notify(u, us)
         r == [s[u] EXCEPT !.flags = @ \union {"hold"}]
     IN  \E q \in {RoomPrompt(u, s, r), Calls(r, "away", {"busy"})} : us' = [s EXCEPT ![u] = q]
  /\ UNCHANGED <<sent, wild>>

Unhold(u) ==
  /\ At(u, "room") /\ OnHold(us[u])
  /\ IF us[u].held # << >>
       THEN Leaves(u, HeldPrompt(us[u]))
     ELSE /\ Notified(u)
          /\ LET s == Notify(u, us)
             IN  us' = [s EXCEPT ![u].flags = @ \ {"hold"}]
          /\ UNCHANGED <<sent, wild>>

Lock(u) ==
  /\ At(u, "room") /\ Notified(u)
  /\ us' = [Notify(u, us) EXCEPT ![u] = Calls(@, "lock", {"busy", "locked"})]
  /\ UNCHANGED <<sent, wild>>

Unlock(u) ==
  /\ At(u, "lock") /\ Notified(u)
  /\ LET s == Notify(u, us)
     IN  us' = [s EXCEPT ![u] = Ret(u, s, [s[u] EXCEPT !.flags = @ \ {"busy", "locked"}])]
  /\ UNCHANGED <<sent, wild>>

Logout(u) == u \in Leaver /\ At(u, "room") /\ Leaves(u, Calls(us[u], "logout", {"busy"}))

\* Held messages are mailed if their sender is online.  The mail is freed with
\* the name of its recipient, which is no memory of its own.
LogoutYes(u) ==
  /\ At(u, "logout") /\ Notified(u)
  /\ wild' = \E i \in DOMAIN us[u].held :
               us[u].held[i].kind # "oneshot" /\ us[us[u].held[i].from].online
  /\ us' = [Notify(u, us) EXCEPT ![u] = Away]
  /\ UNCHANGED sent

\* close_connection for any other reason: what was held is lost.
Disconnect(u) ==
  /\ u \in Leaver /\ ~wild /\ us[u].online /\ Notified(u)
  /\ us' = [Notify(u, us) EXCEPT ![u] = Away]
  /\ UNCHANGED <<sent, wild>>

LogIn(u) ==
  /\ ~wild /\ ~us[u].online /\ Notified(u)
  /\ us' = [Notify(u, us) EXCEPT ![u] = Fresh]
  /\ UNCHANGED <<sent, wild>>

Handler(u) ==
  \/ EnterRecipients(u) \/ XPrompt(u) \/ Abort(u) \/ EditReturn(u) \/ MailSendMsg(u)
  \/ AskQuestion(u) \/ QuestionReturn(u) \/ ReplyX(u)
  \/ History(u) \/ HistoryStep(u) \/ HistoryNumber(u) \/ AskNumber(u) \/ HistoryReply(u) \/ HistoryQuit(u)
  \/ HeldStep(u) \/ HeldMove(u) \/ HeldReply(u) \/ HeldQuit(u)
  \/ Hold(u) \/ Unhold(u) \/ Lock(u) \/ Unlock(u)
  \/ Logout(u) \/ LogoutYes(u) \/ Disconnect(u) \/ LogIn(u)

Next == \E u \in User : Handler(u) \/ LoopSendMsg(u)

Spec == Init /\ [][Next]_vars

\* The main loop does not pass over a connection that is looping.
LiveSpec == Spec /\ \A u \in User : WF_vars(LoopSendMsg(u))

-----------------------------------------------------------------------------
TypeOK ==
  /\ sent \in 0 .. MaxSent /\ told \in 0 .. MaxTold /\ wild \in BOOLEAN
  /\ \A u \in User :
       /\ us[u].online \in BOOLEAN
       /\ us[u].stack \in Seq(Frame)
       /\ us[u].flags \subseteq {"busy", "sending", "hold", "locked", "stuck"}
       /\ us[u].to \union us[u].todo \subseteq User
       /\ Range(us[u].held) \union Range(us[u].hist) \union Range(us[u].send) \subseteq MsgOf
       /\ {us[u].held_p, us[u].hist_p} \subseteq 0 .. MaxSent + MaxTold
       /\ Range(us[u].arrived) \union Range(us[u].taken) \subseteq 1 .. MaxSent

(* What came for a user is what he has got, and after it what is held for *)
(* him, in the order of arrival: nothing is lost, doubled or overtaken.   *)
InOrder == \A u \in User : us[u].arrived = us[u].taken \o IdsOf(Mails(us[u].held))

(* Nobody sits at his prompt, open to messages, with messages held back;  *)
(* and who is not at his prompt is busy, so that nobody's message can put *)
(* him into another state.                                                *)
BusyUnlessPrompted ==
  \A u \in User : us[u].online =>
    IF Top(us[u]) = "room" THEN ~IsBusy(us[u]) /\ (us[u].held = << >> \/ OnHold(us[u]))
    ELSE IsBusy(us[u])

(* The messages are where they may be, and the place in the history is    *)
(* one that is still there.                                               *)
PlaceInHistory ==
  TypeOK /\ \A u \in User : us[u].hist_p # NoMsg => us[u].hist_p \in Range(IdsOf(us[u].hist))

(* A message that is being sent gets to the end of its list of recipients,*)
(* or its sender is asked what to do with it.                             *)
LoopEnds == \A u \in User : Top(us[u]) = "loop" ~> (wild \/ Top(us[u]) # "loop")

(* There is a maximum number of remembered messages.                      *)
HistoryBounded == \A u \in User : Len(us[u].hist) <= MaxHistory

(* Only memory that the program owns is read or freed.                    *)
OwnMemory == ~wild

=============================================================================
