----------------------------- MODULE PostMenus -----------------------------
(***************************************************************************)
(* Entering, replying to, forwarding, deleting and undeleting a message.   *)
(* The flags of a room (read-only, subjects, anonymous), who accepts mail  *)
(* and what is typed are free choices of the environment.                  *)
(***************************************************************************)
EXTENDS Menus

\* enter_the_message writes into new_message, and asks for the subject or the text.
EnterTheMessage(s) ==
  IF s.draft = "none" THEN {Harm(s, "null_message")}
  ELSE {Call(s, "enter_subject"), EditText(s, "save_message", "abort_message")}

\* enter_message: refused, or begun.  The prompts of a recipient's name wait for
\* a key at once.
EnterMessage(s) ==
  LET d == [s EXCEPT !.draft = s.room] IN
  {Current(s)} \cup
  (IF s.room = "mail" THEN {EnterName(d, "enter_mail_recipients")}
   ELSE {Call(d, "post_as_anon")} \cup EnterTheMessage(d))

\* 'r' in state_room_prompt: the subject of a reply is given.
Reply(s) == EditText([s EXCEPT !.draft = s.room], "save_message", "abort_message")

\* 'f' in state_room_prompt
Forward(s) ==
  LET d == [s EXCEPT !.draft = s.room] IN
  IF s.room = "mail" THEN EnterName(d, "enter_forward_recipients")
  ELSE Call(d, "forward_room")

\* The anonymous name, or none, is put in new_message before the text is asked for.
StatePostAsAnon(u) ==
  LET s == us[u] IN
  \/ Asks(u, "post_as_anon")
  \/ Keyed(u, "post_as_anon") /\ Do(u, {Ret(s), Jump(s, "enter_anonymous")}
                                        \cup EnterTheMessage(Pop(s)))

\* It looks for the message each time it is called.
StateEnterAnonymous(u) ==
  LET s == us[u] IN
  \/ /\ Called(u, "enter_anonymous", "init")
     /\ Do(u, {IF s.draft = "none" THEN Ret(s) ELSE Wait(s)})
  \/ /\ Keyed(u, "enter_anonymous")
     /\ Do(u, {Ret(s)} \cup (IF s.draft = "none" THEN {} ELSE EnterTheMessage(Pop(s))))

StateEnterMailRecipients(u) ==
  LET s == us[u] IN
  \/ Asks(u, "enter_mail_recipients")
  \/ /\ Keyed(u, "enter_mail_recipients")
     /\ Do(u, {Ret(s), EnterName(s, "recipients_err")}
              \cup (IF s.draft = "none" THEN {} ELSE EnterTheMessage(Pop(s))))

\* A wrong name was entered; after a key the prompt is as it was, and not called.
StateRecipientsErr(u) ==
  \/ Asks(u, "recipients_err")
  \/ Keyed(u, "recipients_err") /\ Do(u, {Wait(Pop(us[u]))})

\* A subject is stored in new_message; an empty one is not.
StateEnterSubject(u) ==
  LET s == us[u]
      Text == EditText(Pop(s), "save_message", "abort_message")
  IN
  \/ Asks(u, "enter_subject")
  \/ /\ Keyed(u, "enter_subject")
     /\ Do(u, {Ret(s), Text, IF s.draft = "none" THEN Harm(s, "null_message") ELSE Text})

StateEditText(u) ==
  LET s == us[u] IN
  \/ Called(u, "edit_text", "init") /\ Do(u, {Wait(FreeText(s))})
  \/ Keyed(u, "edit_text") /\ Do(u, {Jump(s, "save_text")})

\* save takes the abort function off and returns to the save function.
StateSaveText(u) ==
  LET s == us[u] IN
  \/ Asks(u, "save_text")
  \/ /\ Keyed(u, "save_text")
     /\ Do(u, {Jump(s, "abort_text"), Wait(Move(s, "edit_text")), Ret(Pop(s))})

\* Yes: both are taken off, and the abort function is jumped to.
StateAbortText(u) ==
  LET s == us[u]
      Aborted == LET p == Pop(s) IN Jump(Pop(p), Top(p))
  IN
  \/ Asks(u, "abort_text")
  \/ Keyed(u, "abort_text") /\ Do(u, {Aborted, Jump(s, "save_text")})

AbortMessage(u) == Called(u, "abort_message", "init") /\ Do(u, {Ret(FreeText(us[u]))})

\* save_message_room: mail is sent in a loop; a message that is empty, or may not
\* be posted any more, is thrown away; one that was posted stays in new_message.
SaveMessageRoom(u, s, r) ==
  LET NotPosted == Ret([s EXCEPT !.draft = "none"]) IN
  IF s.draft = "none" THEN Do(u, {Ret(s)})
  ELSE IF r = "mail" THEN Do(u, {NotPosted, Jump(FreeText(s), "loop_send_mail")})
  ELSE IF KickedFrom(u, r) /\ ~s.sysop THEN
    \* goto_room calls this handler again, which returns, and then it returns itself
    /\ CanEnter(u, s.room, "lobby")
    /\ us' = [us EXCEPT ![u] = Ret(Pop(Entered(s, "lobby")))]
    /\ Walk(u, s.room, "lobby")
    /\ UNCHANGED rooms
  ELSE Do(u, {NotPosted, Ret(FreeText(s))})

SaveMessage(u) ==
  /\ Called(u, "save_message", "init")
  /\ SaveMessageRoom(u, us[u], us[u].room)

\* One call of the loop per recipient, other users' handlers between them; at
\* the end mainloop returns from it.
LoopSendMail(u) ==
  LET s == us[u] IN
  \/ /\ Called(u, "loop_send_mail", "init")
     /\ Do(u, {IF s.draft = "none" THEN Ret(s) ELSE Wait(s)})
  \/ Keyed(u, "loop_send_mail") /\ Do(u, {s, Ret(s)})

\* Forwarded mail: state_dummy is there for the loop to take its place.
StateEnterForwardRecipients(u) ==
  LET s == us[u]
      d == Push(Push(FreeText(s), "return_forward"), "dummy")
  IN
  \/ Asks(u, "enter_forward_recipients")
  \/ /\ Keyed(u, "enter_forward_recipients")
     /\ \/ Do(u, {Ret(s)})
        \/ s.draft # "none" /\ SaveMessageRoom(u, d, "mail")

\* Forwarded to another room, that is not read-only for the user, or to a Mail>.
StateForwardRoom(u) ==
  LET s == us[u]
      d == Push(Push(FreeText(s), "return_forward"), "dummy")
  IN
  \/ Asks(u, "forward_room")
  \/ /\ Keyed(u, "forward_room")
     /\ \/ Do(u, {Ret(s)})
        \/ \E r \in Room \ {s.room} :
             /\ Exists(r) /\ (KickedFrom(u, r) => s.sysop)
             /\ IF s.draft = "none" THEN Do(u, {Harm(s, "null_message")})
                ELSE SaveMessageRoom(u, d, r)

StateReturnForward(u) == Called(u, "return_forward", "init") /\ Do(u, {Ret(Pop(us[u]))})

\* state_delete_msg and state_undelete_msg, named f: message is marked and saved,
\* the sender's own mail in a loop.
Marks(u, f, loop) ==
  LET s == us[u] IN
  \/ Asks(u, f)
  \/ /\ Keyed(u, f)
     /\ \/ Do(u, {Ret(s)})
        \/ ~s.read /\ Do(u, {Harm(s, "null_message")})
        \/ s.read /\ s.room = "mail" /\ Do(u, {Jump(s, loop)})

StateDeleteMsg(u) == Marks(u, "delete_msg", "loop_delete_mail")
StateUndeleteMsg(u) == Marks(u, "undelete_msg", "loop_undelete_mail")

\* A message without recipients is returned from at once.
LoopDeleteMail(u) ==
  LET s == us[u] IN
  \/ Called(u, "loop_delete_mail", "init") /\ Do(u, {Ret(s), Wait(s)})
  \/ Keyed(u, "loop_delete_mail") /\ Do(u, {s, Ret(s)})

LoopUndeleteMail(u) ==
  LET s == us[u] IN
  \/ Called(u, "loop_undelete_mail", "init") /\ Do(u, {Ret(s), Wait(s)})
  \/ Keyed(u, "loop_undelete_mail") /\ Do(u, {s, Ret(s)})

Posting(u) ==
  \/ StatePostAsAnon(u) \/ StateEnterAnonymous(u) \/ StateEnterMailRecipients(u)
  \/ StateRecipientsErr(u) \/ StateEnterSubject(u) \/ StateEditText(u)
  \/ StateSaveText(u) \/ StateAbortText(u) \/ AbortMessage(u) \/ SaveMessage(u)
  \/ LoopSendMail(u) \/ StateEnterForwardRecipients(u) \/ StateForwardRoom(u)
  \/ StateReturnForward(u) \/ StateDeleteMsg(u) \/ StateUndeleteMsg(u)
  \/ LoopDeleteMail(u) \/ LoopUndeleteMail(u)

=============================================================================
