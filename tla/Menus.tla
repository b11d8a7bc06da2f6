------------------------------- MODULE Menus -------------------------------
(***************************************************************************)
(* What the handlers of all the menus share: the sessions, the rooms and   *)
(* who is inside them, going to another room, the pager, and the boss      *)
(* screen.  One handler runs at a time, from a key to the next wait; but   *)
(* the handler of one user may send another user to the Lobby, and so call *)
(* whatever function is on top of that user's stack once more.             *)
(***************************************************************************)
EXTENDS CallStack, FiniteSets

CONSTANTS
  User,
  Sysops,        \* who is in su_passwd
  Habits,        \* bound: what the users may have come for, see Session
  Targets,       \* bound: whose names a user types at the prompts of the room config menu
  Configured,    \* bound: the rooms whose config menu is entered
  MaxEntries,    \* bound: entries of one user on one who-is-inside list
  MaxStack       \* bound: no menu is entered from a stack this deep

\* To walk about; to post; to edit a room's info and flags, or to config what is
\* rarely changed of it; to appoint its aides; to rule: make and delete rooms and kick
\* users out.  The others are menus of Sysops and of the user's own account, see
\* SysopMenus and AccountMenus; to boss: use the boss key there.
Interest ==
  {"walk", "post", "edit", "config", "appoint", "rule", "boss", "users", "wrappers",
   "categories", "feelings", "files", "logs", "boot", "params", "account",
   "terminal", "zone", "friends", "feel"}

ASSUME MenusAssumption ==
  /\ Sysops \subseteq User /\ Targets \in [User -> SUBSET User]
  /\ Habits \subseteq [User -> SUBSET Interest]
  /\ MaxEntries \in Nat \ {0} /\ MaxStack \in Nat \ {0}

Public == {"lobby", "club"}      \* the Lobby, and a room that comes and goes
Room == Public \cup {"mail"}     \* and each user's own Mail>

\* The state functions, of all the menus
Function ==
  {"abort_feeling", "abort_message", "abort_profile", "abort_roominfo", "abort_text",
   "add_category", "add_enemy", "add_feeling", "add_friend", "add_override", "add_wrapper",
   "ask_away_reason", "assign_roomaide", "banish_user", "boss", "categories_menu",
   "change_address", "change_city", "change_country", "change_email", "change_password",
   "change_phone", "change_realname", "change_roominfo", "change_roomname", "change_state",
   "change_street", "change_su_passwd", "change_symbols", "change_www", "change_zipcode",
   "choose_category", "choose_feeling", "comment_wrapper", "config_address", "config_anon",
   "config_colors", "config_doing", "config_files_menu", "config_height", "config_menu",
   "config_options", "config_password", "config_profile", "config_reminder", "config_symbols",
   "config_terminal", "config_timezone", "config_vanity", "config_who", "config_width",
   "config_xmsg_header", "coredump_yesno", "create_room", "custom_colors",
   "custom_symbol_colors", "default_room", "delete_msg", "delete_room", "delete_room_name",
   "delete_room_yesno", "disconnect_user", "disconnect_yesno", "download_feeling",
   "download_text", "dummy", "edit_quicklist", "edit_text", "edit_wrapper", "enemylist_prompt",
   "enter_anonymous", "enter_forward_recipients", "enter_mail_recipients", "enter_subject",
   "features_menu", "feelings_menu", "feelings_prompt", "forward_room", "friendlist_prompt",
   "help_files", "help_menu", "int_param", "invite_prompt", "ipaddr_wrapper", "ipmask_wrapper",
   "jump_room", "kickout_prompt", "lock_password", "log_menu", "long_profile",
   "loop_delete_mail", "loop_ping", "loop_send_mail", "loop_send_msg", "loop_undelete_mail",
   "malloc_status", "max_messages", "maximums_menu", "nologin_yesno", "nuke_user", "nuke_yesno",
   "octal_param", "old_logs_files", "old_logs_month", "old_logs_year", "override_menu",
   "param_cache_timeout", "param_cached", "param_logfile", "parameters_menu", "ping_prompt",
   "post_as_anon", "press_any_key", "quicklist_prompt", "reboot_password", "reboot_time",
   "recipients_err", "remove_all_posts", "remove_category", "remove_enemy", "remove_feeling",
   "remove_feeling_yesno", "remove_friend", "remove_override", "reset_creation_date",
   "return_forward", "return_menu", "room_config_menu", "room_prompt", "save_feeling",
   "save_message", "save_profile", "save_roominfo", "save_text", "screen_action",
   "screens_menu", "scroll_find_prompt", "scroll_findback_prompt", "scroll_text",
   "scroll_text_notfound", "short_profile", "shutdown_password", "shutdown_time",
   "string_param", "strings_menu", "su_passwd", "su_prompt", "sysop_menu", "system_config_menu",
   "tz_city", "tz_continent", "uncache_file", "undelete_msg", "upload_abort", "upload_save",
   "view_feeling", "view_logs", "zap_prompt", "zapall_prompt"}

\* What lies on the stack and is no return address.
Args == {"flags", "number", "list", "people"}

\* The functions that take an argument off, which lies right under them
Takers(a) ==
  CASE a = "flags" -> {"boss"}
    [] a = "number" -> {"edit_wrapper", "ipaddr_wrapper", "ipmask_wrapper", "comment_wrapper",
                        "reboot_password", "shutdown_password", "edit_quicklist",
                        "custom_colors", "custom_symbol_colors"}
    [] a = "list" -> {"old_logs_year", "old_logs_month", "old_logs_files", "feelings_menu",
                      "add_feeling", "remove_feeling", "view_feeling", "download_feeling",
                      "feelings_prompt", "choose_feeling", "tz_continent", "tz_city"}
    [] a = "people" -> {"loop_send_msg"}

\* What a stack is made of
Frame == Function \cup Args

VARIABLES
  us,       \* the sessions, by user
  rooms,    \* the public rooms
  listed    \* the who-is-inside lists: how often a user is on them

vars == <<us, rooms, listed>>

\* A session: draft is the room new_message was begun in ("none" for NULL),
\* read whether message is not NULL, pager whether scroll points into the text
\* it was made from ("stale": that text was freed), harm what went wrong, and by
\* what other users or the boss screen did to the session since it was last at
\* the room prompt ("created" and "moved" stay for longer), and that it is "missing"
\* a message: curr_msg has a number, and message is NULL.  edited and resized are
\* RTF_ROOM_EDITED and RTF_ROOM_RESIZED.  The habit bounds the instance: which of the
\* menus' keys, that are without effect on one another, a user presses.
Session ==
  [habit : SUBSET Interest, online : BOOLEAN,
   stack : Seq(Frame), key : {"init", "prompt", "wait"},
   room : Room, sysop : BOOLEAN, aide : BOOLEAN, edited : BOOLEAN, resized : BOOLEAN,
   draft : Room \cup {"none"}, read : BOOLEAN,
   pager : {"closed", "open", "stale"},
   harm : {"none", "null_message", "freed_text", "raw_frame", "no_frame"},
   by : SUBSET {"boss", "thrown", "moved", "created", "missing"}]

\* owed: who changed the room's configuration since it was last saved, not counting its
\* size; unsaved: its size was changed since
RoomInfo == [alive : BOOLEAN, aides : SUBSET User, kicked : SUBSET User, owed : SUBSET User,
             unsaved : BOOLEAN]

TypeOK ==
  /\ us \in [User -> Session]
  /\ rooms \in [Public -> RoomInfo]
  /\ listed \in [Public -> [User -> 0 .. MaxEntries]]

NewRoom == [alive |-> TRUE, aides |-> {}, kicked |-> {}, owed |-> {}, unsaved |-> FALSE]
DeadRoom == [NewRoom EXCEPT !.alive = FALSE]

NewSession(h) ==
  [habit |-> h, online |-> TRUE, stack |-> <<"room_prompt">>, key |-> "init",
   room |-> "lobby", sysop |-> FALSE, aide |-> FALSE, edited |-> FALSE, resized |-> FALSE,
   draft |-> "none", read |-> FALSE, pager |-> "closed", harm |-> "none", by |-> {}]

Init ==
  /\ \E h \in Habits : us = [u \in User |-> NewSession(h[u])]
  /\ \E club \in {NewRoom, DeadRoom} : rooms = [r \in Public |-> IF r = "club" THEN club ELSE NewRoom]
  /\ listed = [r \in Public |-> [u \in User |-> IF r = "lobby" THEN 1 ELSE 0]]

------------------------------------------------------------------------------
Pending(s) == s.online /\ ~Empty(s) /\ s.key # "wait"

\* The program stops at the first harm; otherwise keys are read when nothing is pending.
Running == \A v \in User : us[v].harm = "none"
Quiet == Running /\ \A v \in User : ~Pending(us[v])

\* What is pending is called before a key is read.  Bound: whoever has come for nothing
\* presses no key, and stays until another disconnects him.
Turn(u) == us[u].online /\ (Pending(us[u]) \/ (Quiet /\ us[u].habit # {}))

\* The function f of user u, on top of his stack, is called with k, or waits for a key.
Called(u, f, k) ==
  us[u].key = k /\ us[u].stack # << >> /\ Top(us[u]) = f /\ us[u].online /\ Running
Keyed(u, f) ==
  us[u].key = "wait" /\ us[u].stack # << >> /\ Top(us[u]) = f /\ us[u].online /\ Quiet

Do(u, outcomes) ==
  /\ \E s \in outcomes : us' = [us EXCEPT ![u] = s]
  /\ UNCHANGED <<rooms, listed>>

Harm(s, h) == Wait([s EXCEPT !.harm = h])

\* A function that has nothing to do for INIT_STATE but ask its question.
Asks(u, f) == Called(u, f, "init") /\ Do(u, {Wait(us[u])})

Shallow(s) == Len(s.stack) < MaxStack

\* in_StringList(room_aides, usr->name); nobody is aide of a Mail> room here.
IsAide(u, r) == r \in Public /\ u \in rooms[r].aides

\* room_access() < 0 for the name in the room; the Mail> room is one's own.
KickedFrom(u, r) == r \in Public /\ u \in rooms[r].kicked

Exists(r) == r \in Public => rooms[r].alive

\* free_StringIO(usr->text) under a pager
FreeText(s) == IF s.pager = "open" THEN [s EXCEPT !.pager = "stale"] ELSE s

\* setup_read_text and read_text
ReadText(s) == Call([s EXCEPT !.pager = "open"], "scroll_text")

\* read_menu: come back to the menu with INIT_PROMPT.
ReadMenu(s) == ReadText(Push(s, "return_menu"))

\* edit_text(usr, save, abort)
EditText(s, save, abort) == Call(Push(Push(s, save), abort), "edit_text")

\* enter_name and enter_recipients: a level that is not called before a key comes
EnterName(s, f) == Wait(Push(s, f))

\* drop_sysop_privs: not an aide any more either, unless assigned here.
DropSysopPrivs(u, s) == [s EXCEPT !.sysop = FALSE, !.aide = @ /\ IsAide(u, s.room)]

------------------------------------------------------------------------------
\* leave_room: off the list of the room he is in, if he is on it.
LeaveList(l, u, r) ==
  IF r \in Public /\ l[r][u] > 0 THEN [l EXCEPT ![r][u] = @ - 1] ELSE l

\* enter_room
EnterList(l, u, r) == IF r \in Public THEN [l EXCEPT ![r][u] = @ + 1] ELSE l

\* Mutant of Walk: leave_room is not called.
WalkOn(u, from, to) == listed' = EnterList(listed, u, to)

Walk(u, from, to) == listed' = EnterList(LeaveList(listed, u, from), u, to)

CanEnter(u, from, to) ==
  to \in Public => LeaveList(listed, u, from)[to][u] < MaxEntries

\* Mutants of Entered: new_message is not destroyed; the aide flag is not reset.
EnteredWithDraft(s, r) ==
  [FreeText(s) EXCEPT !.room = r, !.read = FALSE, !.aide = FALSE, !.by = @ \ {"moved", "missing"}]

EnteredAsAide(s, r) ==
  [FreeText(s) EXCEPT !.room = r, !.draft = "none", !.read = FALSE, !.by = @ \ {"moved", "missing"}]

\* What goto_room and enter_room do to the session.
Entered(s, r) ==
  [FreeText(s) EXCEPT !.room = r, !.draft = "none", !.read = FALSE, !.aide = FALSE,
                      !.by = @ \ {"moved", "missing"}]

\* The first time in a room its info is read; everybody has been in the Lobby.
Arrive(s, r) ==
  {Current(Entered(s, r))} \cup (IF r = "club" THEN {ReadText(Entered(s, r))} ELSE {})

\* goto_room(usr, r), s being the session of u at that call
GotoRoom(u, s, r) ==
  /\ CanEnter(u, s.room, r)
  /\ \E t \in Arrive(s, r) : us' = [us EXCEPT ![u] = t]
  /\ Walk(u, s.room, r)
  /\ UNCHANGED rooms

LoggedOut(s) == [s EXCEPT !.online = FALSE, !.stack = << >>]

\* logout_user, at any time: a hangup, an idle timeout or the logout prompt.
LogoutUser(u) ==
  /\ Quiet /\ us[u].online
  /\ us' = [us EXCEPT ![u] = LoggedOut(@)]
  /\ listed' = LeaveList(listed, u, us[u].room)
  /\ UNCHANGED rooms

------------------------------------------------------------------------------
\* The user is at state_scroll_text.
StateScrollText(u) ==
  LET s == us[u]
      Over == Ret([s EXCEPT !.pager = "closed"])
  IN
  \/ /\ Called(u, "scroll_text", "init")
     /\ Do(u, {IF s.pager = "closed" THEN Ret(s) ELSE Wait(s)})
  \/ /\ Keyed(u, "scroll_text")
     /\ \/ s.pager = "stale" /\ Do(u, {Harm(s, "freed_text")})
        \/ Shallow(s) /\ "post" \in s.habit
           /\ Do(u, {Call(s, f) : f \in {"boss", "scroll_find_prompt", "scroll_findback_prompt"}})
        \/ Do(u, {Over})

\* state_scroll_find_prompt: found, or nothing to find, or not found
StateScrollFindPrompt(u) ==
  LET s == us[u] IN
  \/ Asks(u, "scroll_find_prompt")
  \/ /\ Keyed(u, "scroll_find_prompt")
     /\ Do(u, IF s.pager = "stale" THEN {Harm(s, "freed_text")}
              ELSE {Ret(s), Call(Move(s, "scroll_text"), "scroll_text_notfound")})

StateScrollFindbackPrompt(u) ==
  LET s == us[u] IN
  \/ Asks(u, "scroll_findback_prompt")
  \/ /\ Keyed(u, "scroll_findback_prompt")
     /\ Do(u, IF s.pager # "open" THEN {Harm(s, "freed_text")}
              ELSE {Ret(s), Call(Move(s, "scroll_text"), "scroll_text_notfound")})

StateScrollTextNotfound(u) ==
  LET s == us[u] IN
  \/ Asks(u, "scroll_text_notfound")
  \/ /\ Keyed(u, "scroll_text_notfound")
     /\ Do(u, {IF s.pager = "stale" THEN Harm(s, "freed_text") ELSE Ret(s)})

StateReturnMenu(u) == Called(u, "return_menu", "init") /\ Do(u, {RetX(us[u], "prompt")})

StatePressAnyKey(u) ==
  \/ Asks(u, "press_any_key")
  \/ Keyed(u, "press_any_key") /\ Do(u, {Ret(us[u])})

\* state_download_text: all of it, page by page, or no more of it
StateDownloadText(u) ==
  LET s == us[u] IN
  \/ Called(u, "download_text", "init") /\ Do(u, {Wait(s), Jump(s, "press_any_key")})
  \/ Keyed(u, "download_text") /\ Do(u, {Ret(s), Jump(s, "press_any_key")})

\* Mutant of StateBoss: the flags are not taken off again.
StateBossNoPop(u) ==
  \/ Called(u, "boss", "init") /\ Do(u, {Wait(Push(PushArg(Pop(us[u]), "flags"), "boss"))})
  \/ Keyed(u, "boss") /\ Do(u, {Ret(us[u])})

\* state_boss: INIT pushes the user's flags below itself, and loads the boss
\* screen, if there is one, where the text was; exit takes the flags off again.
StateBoss(u) ==
  LET s == us[u]
      p == Wait(Push(PushArg(Pop(s), "flags"), "boss"))
  IN
  \/ /\ Called(u, "boss", "init")
     /\ Do(u, {[t EXCEPT !.by = @ \cup {"boss"}] : t \in {p, FreeText(p)}})
  \/ Keyed(u, "boss") /\ Do(u, {Ret(PopArg(s))})

StateAskAwayReason(u) ==
  \/ Asks(u, "ask_away_reason")
  \/ Keyed(u, "ask_away_reason") /\ Do(u, {Ret(us[u])})

StateLockPassword(u) ==
  \/ Asks(u, "lock_password")
  \/ Keyed(u, "lock_password") /\ Do(u, {Ret(us[u])})

\* An argument where a return address belongs is called.
CallArgument(u) ==
  /\ Running /\ Pending(us[u]) /\ Top(us[u]) \in Args
  /\ Do(u, {Harm(us[u], "raw_frame")})

Shared(u) ==
  \/ StateScrollText(u) \/ StateScrollFindPrompt(u) \/ StateScrollFindbackPrompt(u)
  \/ StateScrollTextNotfound(u) \/ StateReturnMenu(u) \/ StatePressAnyKey(u)
  \/ StateDownloadText(u) \/ StateBoss(u) \/ StateAskAwayReason(u)
  \/ StateLockPassword(u) \/ CallArgument(u)

=============================================================================
