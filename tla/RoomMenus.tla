----------------------------- MODULE RoomMenus -----------------------------
(***************************************************************************)
(* The room prompt, from which everything is called, going from room to    *)
(* room, zapping, and the making of a new room; and the composition with   *)
(* the menus of PostMenus and RoomConfigMenus.  Chat rooms and Home> rooms *)
(* are left out; direct messages are in XMsg.                              *)
(***************************************************************************)
EXTENDS PostMenus, RoomConfigMenus

\* PrintPrompt: what is not going to be used any more is freed.
\* A draft that was not saved may stay; the next one replaces it.
PrintPrompt(s) ==
  Wait([s EXCEPT !.pager = "closed", !.draft = "none", !.by = @ \ {"boss", "thrown"}])

\* readMsg, called from the room prompt through a level of its own: the message is
\* read and paged; or it is the last one that is left, and not read; or it is not
\* there, or was none, while curr_msg has its number.
ReadMsg(s) ==
  LET p == Push(s, "room_prompt") IN
  {ReadText([Pop(p) EXCEPT !.read = TRUE, !.by = @ \ {"missing"}]), Ret(p),
   Ret([p EXCEPT !.read = FALSE, !.by = @ \cup {"missing"}])}

\* known_rooms, room_info, who_list, ... : a text is made and paged.
Lists(s) == {ReadText(s)}

\* Ctrl-L: the away reason is asked for first, unless the user does not want that.
Lock(s) == {Call(Push(s, "lock_password"), "ask_away_reason"), Call(s, "lock_password")}

\* fun_common: an aide of this room becomes one; 'A' is for aides and Sysops.
RoomConfigKey(u, s) ==
  LET a == [s EXCEPT !.aide = @ \/ IsAide(u, s.room)] IN
  IF {"edit", "config", "appoint", "rule"} \cap s.habit # {} /\ s.room \in Configured /\ (s.sysop \/ a.aide)
  THEN {Call(a, "room_config_menu")} ELSE {}

\* '$': privileges are dropped, or asked for.
PrivilegeKey(u, s) ==
  IF s.sysop THEN IF "config" \in s.habit THEN {DropSysopPrivs(u, s)} ELSE {}
  ELSE IF u \in Sysops /\ s.habit # {} THEN {Call(s, "su_prompt")} ELSE {}

\* The password is wrong, or right; who is not in su_passwd any longer is told so.
StateSuPrompt(u) ==
  LET s == us[u] IN
  \/ Asks(u, "su_prompt")
  \/ /\ Keyed(u, "su_prompt")
     /\ \/ Do(u, {Ret(s)})
        \/ u \in Sysops /\ Do(u, {Ret([s EXCEPT !.sysop = TRUE])})

\* '@'
AideKey(u, s) ==
  IF s.sysop \/ IsAide(u, s.room) THEN {[s EXCEPT !.aide = ~@]} ELSE {}

\* Mutant of MessageKeys: message is not looked at.
UnreadKeys(s) == {Call(s, "delete_msg"), ReadText(Push(s, "undelete_msg")), Reply(s), Forward(s)}

\* The keys that need a message that was read.
MessageKeys(s) ==
  IF ~s.read THEN {}
  ELSE {Call(s, "delete_msg"), ReadText(Push(s, "undelete_msg")), Reply(s), Forward(s)}

\* No message is read any more: curr_msg is -1 again.
StopReading(s) ==
  IF s.read \/ "missing" \in s.by THEN {[s EXCEPT !.read = FALSE, !.by = @ \ {"missing"}]} ELSE {}

\* '(' looks at curr_msg, and takes the message for granted; it is harmless only in a room
\* that is still empty.
ParentKey(s) == IF "missing" \in s.by THEN {s, Harm(s, "null_message")} ELSE ReadMsg(s)

StateRoomPrompt(u) ==
  LET s == us[u] IN
  \/ Called(u, "room_prompt", "init") /\ Do(u, {PrintPrompt(s)})
  \/ /\ Keyed(u, "room_prompt")
     /\ \/ Do(u, RoomConfigKey(u, s) \cup PrivilegeKey(u, s))
        \/ {"post", "edit"} \cap s.habit # {} /\ Do(u, {Call(s, "boss")})
        \/ "edit" \in s.habit /\ Do(u, AideKey(u, s))
        \/ "post" \in s.habit /\ Do(u, EnterMessage(s) \cup ReadMsg(s) \cup MessageKeys(s)
                                          \cup StopReading(s) \cup ParentKey(s))
        \/ "post" \in s.habit /\ Do(u, Lists(s) \cup Lock(s)
             \cup {Call(s, f) : f \in {"jump_room", "zap_prompt", "zapall_prompt"}})

\* 'm' goes to Mail> first, and then enters a message there, whatever goto_room called.
MailAnywhere(u) ==
  LET s == us[u]
      e == PrintPrompt(Entered(s, "mail"))
  IN
  /\ Keyed(u, "room_prompt") /\ "post" \in s.habit /\ s.room # "mail"
  /\ \E t \in EnterMessage(e) : us' = [us EXCEPT ![u] = t]
  /\ Walk(u, s.room, "mail")
  /\ UNCHANGED rooms

\* Mutant of NextRoom: room_access is not asked.
NextAnyRoom(u) ==
  /\ Keyed(u, "room_prompt")
  /\ \E r \in Room \ {us[u].room} : Exists(r) /\ GotoRoom(u, us[u], r)

Walks(s) == s.habit \cap {"walk", "post", "edit", "config", "appoint", "rule"} # {}

\* next_unread_room and skip_room find a room that the user may enter.
NextRoom(u) ==
  /\ Keyed(u, "room_prompt")
  /\ \E r \in Room \ {us[u].room} :
       /\ Exists(r) /\ ~KickedFrom(u, r) /\ Walks(us[u])
       /\ r = "mail" => "post" \in us[u].habit
       /\ GotoRoom(u, us[u], r)

\* A room by name; a Sysop may enter a room he was kicked from.
StateJumpRoom(u) ==
  LET s == us[u] IN
  \/ Asks(u, "jump_room")
  \/ /\ Keyed(u, "jump_room")
     /\ \/ Do(u, {Ret(s)})
        \/ \E r \in Room \ {s.room} :
             /\ Exists(r) /\ (KickedFrom(u, r) => s.sysop /\ r # "mail")
             /\ GotoRoom(u, Pop(s), r)

\* Not the Lobby, Mail>, or a room one is aide of.
StateZapPrompt(u) ==
  LET s == us[u] IN
  \/ /\ Called(u, "zap_prompt", "init")
     /\ Do(u, {IF s.room \in {"lobby", "mail"} \/ IsAide(u, s.room) THEN Ret(s) ELSE Wait(s)})
  \/ /\ Keyed(u, "zap_prompt")
     /\ \/ Do(u, {Ret(s)})
        \/ \E r \in Room \ {s.room} :
             /\ Exists(r) /\ ~KickedFrom(u, r)
             /\ GotoRoom(u, Pop(s), r)

\* Rooms one is aide of are not zapped, and neither are the Lobby and Mail>.
StateZapallPrompt(u) ==
  LET s == us[u] IN
  \/ Asks(u, "zapall_prompt")
  \/ /\ Keyed(u, "zapall_prompt")
     /\ \/ Do(u, {Ret(s)})
        \/ GotoRoom(u, Pop(s), "lobby")

\* state_create_room: the Sysop, who goes on as s in the config menu of the new
\* room, is in it without having gone there.
CreateRoom(u, s) ==
  /\ ~rooms["club"].alive
  /\ us' = [us EXCEPT ![u] =
              [s EXCEPT !.room = "club", !.edited = TRUE, !.by = @ \cup {"created"}]]
  /\ rooms' = [rooms EXCEPT !["club"] = [NewRoom EXCEPT !.owed = {u}]]
  /\ UNCHANGED listed

Walking(u) ==
  \/ StateRoomPrompt(u) \/ MailAnywhere(u) \/ NextRoom(u) \/ StateJumpRoom(u)
  \/ StateZapPrompt(u) \/ StateZapallPrompt(u) \/ StateSuPrompt(u)

\* Without the Sysop menu of SysopMenus: a room is made from the room prompt.
MakeRoom(u) ==
  /\ Keyed(u, "room_prompt") /\ "rule" \in us[u].habit /\ us[u].sysop
  /\ CreateRoom(u, Call(us[u], "room_config_menu"))

Next ==
  \E u \in User :
    /\ Turn(u)
    /\ Walking(u) \/ MakeRoom(u) \/ Posting(u) \/ RoomConfig(u) \/ Shared(u) \/ LogoutUser(u)

Spec == Init /\ [][Next]_vars

------------------------------------------------------------------------------
\* Nothing that was freed, NULL or no function is used, unless another user's
\* handler or the boss screen got in between: a message is missed only after a
\* kick, and at the room prompt by who went to one that was not there; a freed text is
\* paged only after a kick or from under the boss screen, and only a kick under the
\* boss screen calls an argument (state_boss, goto_room, '(' in state_room_prompt).
HarmHasACause ==
  \A u \in User : LET s == us[u] IN
    /\ s.harm = "null_message" =>
         "thrown" \in s.by \/ ("missing" \in s.by /\ s.stack # << >> /\ Top(s) = "room_prompt")
    /\ s.harm = "freed_text" => s.by \cap {"boss", "thrown"} # {}
    /\ s.harm = "raw_frame" => {"boss", "thrown"} \subseteq s.by

\* A user is on the who-is-inside list of the room he is in, once, and on no
\* other; except in the Lobby after his room was deleted, and except a Sysop who
\* made a room (enter_room, leave_room, delete_room, state_create_roomname).
ListedInRoom ==
  \A u \in User, r \in Public : LET s == us[u] IN
    s.by \cap {"moved", "created"} = {} =>
      listed[r][u] = IF s.online /\ s.room = r THEN 1 ELSE 0

\* A message that is being entered is for the room its user is in, whatever
\* others did in the meantime, unless they deleted the room (goto_room destroys
\* new_message, delete_room does not; save_message posts in curr_room).
DraftHere ==
  \A u \in User : LET s == us[u] IN
    s.online /\ s.draft # "none" => s.draft = s.room \/ "moved" \in s.by

\* Whoever was kicked out of a room is not in it, but for Sysops; not counting the
\* Lobby, which is where everybody is put that is not let in elsewhere, and which a
\* kickout prompt left open over the deletion of its room kicks from, too
\* (state_kickout_prompt, state_jump_room, next_unread_room).
KickedStayOut ==
  \A u \in User \ Sysops :
    us[u].online => us[u].room = "lobby" \/ ~KickedFrom(u, us[u].room)

\* Room aide privileges are those of the room the user is in, also when they were
\* taken away while he was somewhere else or in a menu (state_assign_roomaide,
\* enter_room, room_config_menu); a deleted room's aide keeps them in the Lobby.
AideOfThisRoom ==
  \A u \in User : LET s == us[u] IN
    s.online /\ s.aide /\ ~s.sysop => IsAide(u, s.room) \/ "moved" \in s.by

\* Who changes a room remembers to save it, from that key on and until it is saved, and
\* goes nowhere before that, unless thrown out or hung up on (RTF_ROOM_EDITED,
\* save_Room).  Not so the size of the room, which is marked by another flag.
EditsKept ==
  [][\A u \in User, r \in Public :
       /\ u \notin rooms[r].owed \/ (us[u].edited /\ us[u].room = r)
       /\ u \in rooms'[r].owed /\ us'[u].online
       => us'[u].edited /\ (us'[u].room = r \/ "thrown" \in us'[u].by)]_vars

=============================================================================
