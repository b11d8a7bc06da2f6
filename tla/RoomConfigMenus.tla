-------------------------- MODULE RoomConfigMenus --------------------------
(***************************************************************************)
(* The room config menu and its prompts, for the aides of a room and for   *)
(* Sysops.  What a change is does not matter here; that it must be saved,  *)
(* and what it does to other users, does.  The menu is left to save it.    *)
(***************************************************************************)
EXTENDS Menus

\* RTF_ROOM_EDITED: the menu saves the room when it is left.  owed remembers who
\* has changed something that is not saved yet.
Owe(u, r) == IF r \in Public THEN [rooms EXCEPT ![r].owed = @ \cup {u}] ELSE rooms

\* save_Room writes all of it.
SaveRoom(r) ==
  IF r \in Public THEN [rooms EXCEPT ![r] = [@ EXCEPT !.owed = {}, !.unsaved = FALSE]] ELSE rooms

\* A change of the room was made by u, who goes on as s.
Changed(u, s) ==
  /\ us' = [us EXCEPT ![u] = [s EXCEPT !.edited = TRUE]]
  /\ rooms' = Owe(u, s.room)
  /\ UNCHANGED listed

\* Sysops may change more than aides may.
ConfigPrompts(s) ==
  (IF "edit" \in s.habit THEN {"change_roominfo"} ELSE {})
  \cup (IF "config" \in s.habit THEN {"choose_category", "change_roomname"} ELSE {})
  \cup (IF s.sysop /\ "config" \in s.habit
        THEN {"reset_creation_date", "remove_all_posts"} ELSE {})
  \cup (IF s.sysop THEN {"delete_room"} ELSE {})

ConfigNames(s) ==
  (IF "config" \in s.habit THEN {"invite_prompt"} ELSE {})
  \cup (IF "rule" \notin s.habit \/ s.room \in {"lobby", "mail"} THEN {} ELSE {"kickout_prompt"})
  \cup (IF s.sysop /\ "appoint" \in s.habit THEN {"assign_roomaide"} ELSE {})

\* Mutant of LeaveConfig: the flag is cleared before it is looked at.
LeaveUnsaved(u, s) ==
  /\ us' = [us EXCEPT ![u] = Ret([s EXCEPT !.edited = FALSE])]
  /\ UNCHANGED <<rooms, listed>>

\* Leaving: save what was edited, in the room he is in now; no aide any more if
\* he was unassigned.
LeaveConfig(u, s) ==
  LET left == Ret([s EXCEPT !.edited = FALSE, !.aide = @ /\ IsAide(u, s.room)]) IN
  /\ us' = [us EXCEPT ![u] = left]
  /\ rooms' = IF s.edited THEN SaveRoom(s.room) ELSE rooms
  /\ UNCHANGED listed

\* 'm' sets RTF_ROOM_RESIZED, whatever is then answered.
SizeKey(s) ==
  IF s.sysop /\ "config" \in s.habit THEN {Call([s EXCEPT !.resized = TRUE], "max_messages")} ELSE {}

\* resize_Room with the number that read_lines is by now, of the room he is in by now:
\* the limit changes, or it is not another one.  No RTF_ROOM_EDITED is set.
Resized(s) ==
  {rooms} \cup (IF s.resized /\ s.room \in Public THEN {[rooms EXCEPT ![s.room].unsaved = TRUE]} ELSE {})

StateRoomConfigMenu(u) ==
  LET s == us[u] IN
  \/ /\ Called(u, "room_config_menu", "init")
     /\ us' = [us EXCEPT ![u] = ReadMenu([s EXCEPT !.resized = FALSE])]
     /\ rooms' \in Resized(s)
     /\ UNCHANGED listed
  \/ Called(u, "room_config_menu", "prompt") /\ Do(u, {Wait(s)})
  \/ /\ Keyed(u, "room_config_menu")
     /\ \/ LeaveConfig(u, s)
        \/ s.sysop /\ "config" \in s.habit /\ LeaveConfig(u, DropSysopPrivs(u, s))   \* '$'
        \/ "edit" \in s.habit /\ Changed(u, Current(s))               \* the flags, '1' to '7'
        \/ Do(u, {Call(s, f) : f \in ConfigPrompts(s)} \cup SizeKey(s))
        \/ Do(u, {EnterName(s, f) : f \in ConfigNames(s)})
        \/ "edit" \in s.habit /\ Do(u, {Call(s, "boss")})
        \/ "config" \in s.habit                                 \* help_roomconfig
           /\ Do(u, {ReadText(Push(FreeText(s), "press_any_key"))})

\* A number out of the list that is printed first, or none.
StateChooseCategory(u) ==
  LET s == us[u] IN
  \/ Called(u, "choose_category", "init") /\ Do(u, {ReadMenu(s)})
  \/ Called(u, "choose_category", "prompt") /\ Do(u, {Wait(s)})
  \/ /\ Keyed(u, "choose_category")
     /\ Do(u, {Ret(s)}) \/ Changed(u, Ret(s))

StateChangeRoominfo(u) ==
  LET s == us[u] IN
  \/ Asks(u, "change_roominfo")
  \/ /\ Keyed(u, "change_roominfo")
     /\ Do(u, {Ret(s), Call(s, "boss"), ReadText(Push(FreeText(s), "press_any_key")),
               EditText(s, "save_roominfo", "abort_roominfo"),
               Call(FreeText(s), "download_text")})

\* The whole room is saved at once.
SaveRoominfo(u) ==
  LET s == us[u] IN
  /\ Called(u, "save_roominfo", "init")
  /\ us' = [us EXCEPT ![u] = Ret([FreeText(s) EXCEPT !.edited = FALSE])]
  /\ rooms' = SaveRoom(s.room)
  /\ UNCHANGED listed

AbortRoominfo(u) == Called(u, "abort_roominfo", "init") /\ Do(u, {Ret(FreeText(us[u]))})

\* Invited, uninvited, or invited instead of kicked.
StateInvitePrompt(u) ==
  LET s == us[u] IN
  \/ Asks(u, "invite_prompt")
  \/ /\ Keyed(u, "invite_prompt")
     /\ \/ Do(u, {Ret(s)})
        \/ Changed(u, Ret(s))
        \/ \E v \in Targets[u] :
             /\ KickedFrom(v, s.room)
             /\ us' = [us EXCEPT ![u] = [Ret(s) EXCEPT !.edited = TRUE]]
             /\ rooms' = [Owe(u, s.room) EXCEPT ![s.room].kicked = @ \ {v}]
             /\ UNCHANGED listed

\* v is dropped off in the Lobby by u's handler: goto_room calls the function on
\* top of v's stack, and does not look whether there is one.
DropOff(u, v, s) ==
  LET Thrown(t) == [t EXCEPT !.by = @ \cup {"thrown"},
                             !.harm = IF Empty(t) THEN "no_frame" ELSE @]
  IN
  IF v # u /\ us[v].online /\ us[v].room = s.room
  THEN /\ CanEnter(v, s.room, "lobby")
       /\ \E t \in Arrive(us[v], "lobby") :
            us' = [us EXCEPT ![v] = Thrown(t), ![u] = s]
       /\ Walk(v, s.room, "lobby")
  ELSE us' = [us EXCEPT ![u] = s] /\ UNCHANGED listed

\* The Lobby and Mail> are refused by INIT_STATE only.
StateKickoutPrompt(u) ==
  LET s == us[u]
      t == [Ret(s) EXCEPT !.edited = TRUE]
  IN
  \/ /\ Called(u, "kickout_prompt", "init")
     /\ Do(u, {IF s.room \in {"lobby", "mail"} THEN Ret(s) ELSE Wait(s)})
  \/ /\ Keyed(u, "kickout_prompt")
     /\ \/ Do(u, {Ret(s)})
        \/ \E v \in Targets[u] \ {u} :
             /\ s.room \in Public
             /\ IsAide(v, s.room) => s.sysop
             /\ IF KickedFrom(v, s.room)
                THEN /\ us' = [us EXCEPT ![u] = t]
                     /\ rooms' = [Owe(u, s.room) EXCEPT ![s.room].kicked = @ \ {v}]
                     /\ UNCHANGED listed
                ELSE /\ DropOff(u, v, t)
                     /\ rooms' = [Owe(u, s.room) EXCEPT ![s.room].kicked = @ \cup {v}]

\* Only a Sysop unassigns; the user loses the flag when in the room.
StateAssignRoomaide(u) ==
  LET s == us[u]
      t == [Ret(s) EXCEPT !.edited = TRUE]
      Unaide(v) == IF v # u /\ us[v].room = s.room
                   THEN [us EXCEPT ![u] = t, ![v].aide = FALSE] ELSE [us EXCEPT ![u] = t]
  IN
  \/ Asks(u, "assign_roomaide")
  \/ /\ Keyed(u, "assign_roomaide")
     /\ \/ Do(u, {Ret(s)})
        \/ \E v \in Targets[u] :
             /\ s.room \in Public
             /\ UNCHANGED listed
             /\ IF IsAide(v, s.room)
                THEN /\ s.sysop
                     /\ us' = Unaide(v)
                     /\ rooms' = [Owe(u, s.room) EXCEPT ![s.room].aides = @ \ {v}]
                ELSE /\ us' = [us EXCEPT ![u] = t]
                     /\ rooms' = [Owe(u, s.room) EXCEPT ![s.room].aides = @ \cup {v}]

StateChangeRoomname(u) ==
  LET s == us[u] IN
  \/ Asks(u, "change_roomname")
  \/ Keyed(u, "change_roomname") /\ (Do(u, {Ret(s)}) \/ Changed(u, Ret(s)))

\* change_int_param on read_lines, which marks the parameters (see AllMenus) and not the
\* room; the menu resizes when it is called again.
StateMaxMessages(u) ==
  \/ Asks(u, "max_messages")
  \/ Keyed(u, "max_messages") /\ Do(u, {Ret(us[u])})

StateResetCreationDate(u) ==
  LET s == us[u] IN
  \/ /\ Called(u, "reset_creation_date", "init")
     /\ Do(u, {IF s.room = "mail" THEN Ret(s) ELSE Wait(s)})
  \/ Keyed(u, "reset_creation_date") /\ (Do(u, {Ret(s)}) \/ Changed(u, Ret(s)))

\* Everybody in the room is put before its first message again, which makes the
\* room prompt forget the message that was read; the room prompt's choice.
StateRemoveAllPosts(u) ==
  LET s == us[u] IN
  \/ /\ Called(u, "remove_all_posts", "init")
     /\ Do(u, {IF s.room = "mail" THEN Ret(s) ELSE Wait(s)})
  \/ Keyed(u, "remove_all_posts") /\ Do(u, {Ret(s)})

\* delete_room: those inside are in the Lobby now, without having gone there; the
\* aide flag that is cleared is the one of the user who deletes.
DeleteRoom(u, s, r) ==
  LET Moved(v) == IF us[v].online /\ us[v].room = r
                  THEN [us[v] EXCEPT !.room = "lobby", !.by = @ \cup {"moved"}]
                  ELSE us[v]
      t == Ret([Moved(u) EXCEPT !.aide = FALSE])
  IN
  IF s.sysop /\ r = "club"
  THEN /\ us' = [v \in User |-> IF v = u THEN t ELSE Moved(v)]
       /\ rooms' = [rooms EXCEPT ![r] = DeadRoom]
       /\ listed' = [listed EXCEPT ![r] = [v \in User |-> 0]]
  ELSE Do(u, {Ret(s)})

StateDeleteRoom(u) ==
  LET s == us[u] IN
  \/ Asks(u, "delete_room")
  \/ Keyed(u, "delete_room") /\ (Do(u, {Ret(s)}) \/ DeleteRoom(u, s, s.room))

RoomConfig(u) ==
  \/ StateRoomConfigMenu(u) \/ StateChooseCategory(u) \/ StateChangeRoominfo(u)
  \/ SaveRoominfo(u) \/ AbortRoominfo(u) \/ StateInvitePrompt(u) \/ StateKickoutPrompt(u)
  \/ StateAssignRoomaide(u) \/ StateChangeRoomname(u) \/ StateMaxMessages(u)
  \/ StateResetCreationDate(u) \/ StateRemoveAllPosts(u) \/ StateDeleteRoom(u)

=============================================================================
