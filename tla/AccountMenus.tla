---------------------------- MODULE AccountMenus ----------------------------
(***************************************************************************)
(* What a user may change of his own account: the config menu and the ones *)
(* below it, the lists of friends and enemies, the help menu; and sending  *)
(* a feeling, which is chosen out of a list that Sysops edit.              *)
(***************************************************************************)
EXTENDS ParamMenus

\* RTF_CONFIG_EDITED
EditsConfig(u, s, d) == Takes(u, s, Touch(d, "config")) /\ sys' = Owing(u, "config")

\* change_config, and others like it: the line is stored, or it is as it was.
ChangeConfig(u, f) == Question(u, f) \/ (Keyed(u, f) /\ EditsConfig(u, Ret(us[u]), desk[u]))

\* An option of the menu f is toggled, and the menu is shown again.
Toggle(u, f) == Keyed(u, f) /\ EditsConfig(u, Current(us[u]), desk[u])

ConfigCalls(s) ==
  (IF "account" \in s.habit
   THEN {"config_address", "config_profile", "config_doing", "config_xmsg_header",
         "config_reminder", "config_anon", "config_password", "config_who",
         "config_options", "quicklist_prompt"} ELSE {})
  \cup (IF "terminal" \in s.habit THEN {"config_terminal"} ELSE {})
  \cup (IF "zone" \in s.habit THEN {"config_timezone"} ELSE {})
  \cup (IF "friends" \in s.habit THEN {"friendlist_prompt", "enemylist_prompt"} ELSE {})

StateConfigMenu(u) ==
  LET s == us[u] IN
  \/ Menu(u, "config_menu")
  \/ /\ Keyed(u, "config_menu")
     /\ \/ Leave(u, Ret(s), "config")
        \/ s.sysop /\ Leave(u, Ret(DropSysopPrivs(u, s)), "config")             \* '$'
        \/ Does(u, {ShowFile(s)} \cup {Call(s, f) : f \in ConfigCalls(s)})

StateConfigAddress(u) ==
  LET s == us[u] IN
  \/ Menu(u, "config_address")
  \/ Keyed(u, "config_address") /\ Does(u, {Ret(s)} \cup {Call(s, f) :
       f \in {"change_realname", "change_address", "change_phone", "change_email", "change_www"}})
  \/ Toggle(u, "config_address")

\* Five lines, one after the other; a break is the end of one of them only.
StateChangeAddress(u) ==
  LET s == us[u] IN
  /\ Called(u, "change_address", "init")
  /\ Does(u, {[s EXCEPT !.stack = <<"change_street", "change_city", "change_zipcode",
                                   "change_state", "change_country">> \o Tail(@)]})

StateChangeLine(u) ==
  \E f \in {"change_realname", "change_street", "change_city", "change_zipcode",
            "change_state", "change_country", "change_phone", "change_email", "change_www"} :
    ChangeConfig(u, f)

StateConfigProfile(u) ==
  LET s == us[u] IN
  \/ Asking(u, "config_profile")
  \/ Keyed(u, "config_profile") /\ Does(u, {Ret(s), Current(s), ShowFile(s),
       EditText(s, "save_profile", "abort_profile"), Call(FreeText(s), "download_text"),
       Call(s, "config_vanity")} \cup Boss(s))

\* Mutant of SaveProfile: the user is not saved.
SaveProfileLater(u) ==
  /\ Called(u, "save_profile", "init")
  /\ TakesOnly(u, Ret(us[u]), [desk[u] EXCEPT !.dirty = @ \ {"config"}])

\* All of the user is saved at once.
SaveProfile(u) ==
  /\ Called(u, "save_profile", "init")
  /\ Takes(u, Ret(us[u]), [desk[u] EXCEPT !.dirty = @ \ {"config"}])
  /\ sys' = [sys EXCEPT !.owed["config"] = @ \ {u}]

AbortProfile(u) == Called(u, "abort_profile", "init") /\ Does(u, {Ret(FreeText(us[u]))})

\* state_config_vanity, _doing, _xmsg_header, _reminder, and _anon
StateConfigLine(u) ==
  \E f \in {"config_vanity", "config_doing", "config_xmsg_header", "config_reminder",
            "config_anon"} : ChangeConfig(u, f)

StateConfigPassword(u) ==
  LET s == us[u] IN
  \/ Asking(u, "config_password")
  \/ Keyed(u, "config_password") /\ Does(u, {Ret(s), Jump(s, "change_password")})

StateChangePassword(u) ==
  \/ NewPassword(u, "change_password")
  \/ /\ Keyed(u, "change_password") /\ desk[u].passwd # "none"
     /\ EditsConfig(u, Ret(us[u]), FreePasswd(desk[u]))

StateQuicklistPrompt(u) ==
  LET s == us[u] IN
  \/ Menu(u, "quicklist_prompt")
  \/ /\ Keyed(u, "quicklist_prompt")
     /\ Does(u, {Ret(s), EnterName(PushArg(s, "number"), "edit_quicklist")})

\* A function that takes its argument off, and has changed something or not
WithNumber(u, f) ==
  LET s == Ret(PopArg(us[u])) IN
  \/ Asking(u, f)
  \/ Keyed(u, f) /\ Does(u, {s})
  \/ Keyed(u, f) /\ EditsConfig(u, s, desk[u])

StateEditQuicklist(u) == WithNumber(u, "edit_quicklist")

------------------------------------------------------------------------------
\* Terminals that know no colors have no menus for them.  's' chooses whether
\* symbols are colored.
StateConfigTerminal(u) ==
  LET s == us[u]
      d == desk[u]
  IN
  \/ Menu(u, "config_terminal")
  \/ Toggle(u, "config_terminal")
  \/ /\ Keyed(u, "config_terminal")
     /\ \/ Does(u, {Ret(s), Call(s, "config_width"), Call(s, "config_colors")})
        \/ ~d.plain /\ Does(u, {Call(s, "config_symbols")})
        \/ EditsConfig(u, Current(s), [d EXCEPT !.plain = ~@, !.chose = ~@])

\* The height is asked for if the width was left alone, or is good.
StateConfigWidth(u) ==
  LET s == us[u] IN
  \/ Question(u, "config_width")
  \/ Keyed(u, "config_width") /\ Does(u, {Jump(s, "config_height")})
  \/ Keyed(u, "config_width") /\ EditsConfig(u, Jump(s, "config_height"), desk[u])

StateConfigHeight(u) == ChangeConfig(u, "config_height")

\* The default colors are set without being flagged.
StateConfigColors(u) ==
  LET s == us[u] IN
  \/ Menu(u, "config_colors")
  \/ /\ Keyed(u, "config_colors")
     /\ Does(u, {Ret(s), Call(PushArg(s, "number"), "custom_colors")})

StateCustomColors(u) == WithNumber(u, "custom_colors")

\* Mutant of ShowSymbols: the flag is not cleared again.
ShowSymbolsPlain(u) == TakesOnly(u, ReadMenu(us[u]), [desk[u] EXCEPT !.plain = TRUE])

\* DONT_AUTO_COLOR is set to print them, and then cleared.
ShowSymbols(u) == TakesOnly(u, ReadMenu(us[u]), [desk[u] EXCEPT !.plain = FALSE])

StateConfigSymbols(u) ==
  LET s == us[u] IN
  \/ Called(u, "config_symbols", "init") /\ ShowSymbols(u)
  \/ Called(u, "config_symbols", "prompt") /\ Does(u, {Wait(s)})
  \/ /\ Keyed(u, "config_symbols")
     /\ Does(u, {Ret(s), Current(s), Call(s, "change_symbols"),
                 Call(PushArg(s, "number"), "custom_symbol_colors")} \cup Boss(s))

StateCustomSymbolColors(u) == WithNumber(u, "custom_symbol_colors")

\* The flag is set while the symbols are typed.  It is cleared by a key that has
\* the code of a result of edit_line, which the last key need not be.
StateChangeSymbols(u) ==
  LET s == us[u]
      d == desk[u]
  IN
  \/ /\ Called(u, "change_symbols", "init")
     /\ TakesOnly(u, Wait(s), [d EXCEPT !.plain = TRUE])
  \/ /\ Keyed(u, "change_symbols")
     /\ \E p \in {FALSE, d.plain} :
          \/ TakesOnly(u, Ret(s), [d EXCEPT !.plain = p])
          \/ EditsConfig(u, Ret(s), [d EXCEPT !.plain = p])

\* Whether enemies are shown changes without being flagged.
StateConfigWho(u) ==
  \/ Menu(u, "config_who")
  \/ Toggle(u, "config_who")
  \/ Keyed(u, "config_who") /\ Does(u, {Ret(us[u])})

\* Who blocks his friends has them taken off the override list.
StateConfigOptions(u) ==
  LET s == us[u]
      d == desk[u]
  IN
  \/ Menu(u, "config_options")
  \/ Toggle(u, "config_options")
  \/ /\ Keyed(u, "config_options")
     /\ \/ Does(u, {Ret(s), Call(s, "default_room")})
        \/ EditsConfig(u, Current(s), [d EXCEPT !.override = @ \ d.friends])

StateDefaultRoom(u) == ChangeConfig(u, "default_room")

\* The list of continents may not be there.
StateConfigTimezone(u) ==
  LET s == us[u] IN
  \/ Menu(u, "config_timezone")
  \/ Toggle(u, "config_timezone")
  \/ /\ Keyed(u, "config_timezone")
     /\ Does(u, {Ret(s), Call(PushArg(s, "list"), "tz_continent")})

StateTzContinent(u) ==
  LET s == us[u] IN
  \/ Menu(u, "tz_continent")
  \/ /\ Keyed(u, "tz_continent")
     /\ \/ Does(u, {Ret(PopArg(s))})
        \/ TakesOnly(u, Call(PushArg(s, "list"), "tz_city"), [desk[u] EXCEPT !.name = "zone"])

\* Mutant of TzReturn: the argument of the city is left there.
TzReturnLess(s) == Ret(PopArg(Pop(s)))

\* state_tz_return: out of the city and of the continent, each with its argument
TzReturn(s) == Ret(PopArg(Pop(PopArg(s))))

\* The zone is loaded, or it is not there; it is not flagged as a change.
StateTzCity(u) ==
  LET s == us[u]
      Nameless == [desk[u] EXCEPT !.name = "none"]
  IN
  IF desk[u].name = "none"
  THEN /\ \E k \in {"init", "prompt"} : Called(u, "tz_city", k) \/ Keyed(u, "tz_city")
       /\ Does(u, {Ret(PopArg(s))})
  ELSE \/ Menu(u, "tz_city")
       \/ Keyed(u, "tz_city") /\ TakesOnly(u, Ret(PopArg(s)), Nameless)
       \/ Keyed(u, "tz_city") /\ TakesOnly(u, TzReturn(s), Nameless)

------------------------------------------------------------------------------
\* One list of users; a full one is not added to, and the others are jumped to.
ListMenu(u, f, L, add, remove, others) ==
  LET s == us[u] IN
  \/ Menu(u, f)
  \/ /\ Keyed(u, f)
     /\ Does(u, {Ret(s)} \cup {Jump(s, g) : g \in others}
                \cup (IF Cardinality(L) < MaxFriends THEN {EnterName(s, add)} ELSE {})
                \cup (IF L # {} THEN {EnterName(s, remove)} ELSE {}))

StateFriendlistPrompt(u) ==
  ListMenu(u, "friendlist_prompt", desk[u].friends, "add_friend", "remove_friend",
           {"enemylist_prompt", "override_menu"})

StateEnemylistPrompt(u) ==
  ListMenu(u, "enemylist_prompt", desk[u].enemies, "add_enemy", "remove_enemy",
           {"friendlist_prompt", "override_menu"})

\* 'c' clears the list.
StateOverrideMenu(u) ==
  \/ ListMenu(u, "override_menu", desk[u].override, "add_override", "remove_override",
              {"friendlist_prompt", "enemylist_prompt"})
  \/ /\ Keyed(u, "override_menu") /\ desk[u].override # {}
     /\ TakesOnly(u, Current(us[u]), [desk[u] EXCEPT !.override = {}])

\* A name is entered that is no good, or another user's, and the lists are as in one
\* of desks.
Names(u, f, desks) ==
  \/ Question(u, f)
  \/ Keyed(u, f) /\ \E d \in desks : TakesOnly(u, Ret(us[u]), d)

\* An enemy is moved over.
Befriend(d, v) == [d EXCEPT !.friends = @ \cup {v}, !.enemies = @ \ {v}]
Shun(d, v) == [d EXCEPT !.enemies = @ \cup {v}, !.friends = @ \ {v}]

Others(u) == User \ {u}

StateAddFriend(u) ==
  Names(u, "add_friend", {Befriend(desk[u], v) : v \in Others(u) \ desk[u].friends})

StateRemoveFriend(u) ==
  Names(u, "remove_friend", {[desk[u] EXCEPT !.friends = @ \ {v}] : v \in desk[u].friends})

StateAddEnemy(u) ==
  Names(u, "add_enemy", {Shun(desk[u], v) : v \in Others(u) \ desk[u].enemies})

StateRemoveEnemy(u) ==
  Names(u, "remove_enemy", {[desk[u] EXCEPT !.enemies = @ \ {v}] : v \in desk[u].enemies})

StateAddOverride(u) ==
  Names(u, "add_override", {[desk[u] EXCEPT !.override = @ \cup {v}] :
    v \in Others(u) \ (desk[u].override \cup desk[u].enemies)})

StateRemoveOverride(u) ==
  Names(u, "remove_override", {[desk[u] EXCEPT !.override = @ \ {v}] : v \in desk[u].override})

StateHelpMenu(u) ==
  \/ Menu(u, "help_menu")
  \/ Keyed(u, "help_menu") /\ Does(u, {Ret(us[u]), ShowFile(us[u])})

------------------------------------------------------------------------------
\* '*': the list that is read now is used when the recipients are known.
StateFeelingsPrompt(u) ==
  LET s == us[u] IN
  \/ Asking(u, "feelings_prompt")
  \/ Keyed(u, "feelings_prompt") /\ Does(u, {Ret(PopArg(s)), Jump(s, "choose_feeling")})

\* Mutant of Reread: the new list is not shown.
RereadUnseen(u) == TakesOnly(u, us[u], [desk[u] EXCEPT !.list = sys.feelings, !.fresh = TRUE])

\* feelings_generation is another: the list is read, and shown, again.
Reread(u) == TakesOnly(u, Current(us[u]), [desk[u] EXCEPT !.list = sys.feelings])

\* Number i of the list that was shown is chosen out of the list that is there.
Chooses(u, s, i) ==
  TakesOnly(u, s, [desk[u] EXCEPT !.list = {}, !.fresh = FALSE,
    !.missed = Missed(desk[u], i, Sorted(desk[u].list)[i])])

\* The file of the feeling may have gone.
StateChooseFeeling(u) ==
  LET s == us[u]
      d == desk[u]
      Out == Ret(PopArg(s))
  IN
  \/ /\ Called(u, "choose_feeling", "init")
     /\ TakesOnly(u, ReadMenu(s), [Shows(d, Sorted(d.list)) EXCEPT !.fresh = TRUE])
  \/ Called(u, "choose_feeling", "prompt") /\ Does(u, {Wait(s)})
  \/ /\ Keyed(u, "choose_feeling")
     /\ \/ TakesOnly(u, Out, [Forgets(d) EXCEPT !.list = {}, !.fresh = FALSE])
        \/ ~d.fresh /\ Reread(u)
        \/ d.fresh /\ \E i \in 1 .. Cardinality(d.list) :
             \/ Chooses(u, Out, i)
             \/ Chooses(u, Call(PushArg(Pop(PopArg(s)), "people"), "loop_send_msg"), i)

\* One call of the loop per recipient; see XMsg.
LoopSendMsg(u) ==
  LET s == us[u] IN
  \/ Asking(u, "loop_send_msg")
  \/ Keyed(u, "loop_send_msg") /\ Does(u, {s, Ret(PopArg(s))})

\* The profile is made of that of a user who is online, or of his file; or there is
\* no such user.
StateProfile(u) ==
  LET s == us[u] IN
  \E f \in {"long_profile", "short_profile"} :
    Question(u, f) \/ (Keyed(u, f) /\ Does(u, {ReadText(FreeText(Pop(s)))}))

StatePingPrompt(u) ==
  Question(u, "ping_prompt") \/ (Keyed(u, "ping_prompt") /\ Does(u, {Jump(us[u], "loop_ping")}))

LoopPing(u) ==
  \/ Asking(u, "loop_ping")
  \/ Keyed(u, "loop_ping") /\ Does(u, {us[u], Ret(us[u])})

\* fun_common and state_room_prompt: the keys that call menus.  'X' forgets who
\* may override it.
CommonCalls(s) ==
  (IF s.sysop /\ s.habit \cap SysopInterest # {} THEN {Call(s, "sysop_menu")} ELSE {})
  \cup (IF s.habit \cap {"account", "terminal", "zone", "friends"} # {} THEN {Call(s, "config_menu")} ELSE {})
  \cup (IF "account" \in s.habit
        THEN {Call(s, "config_who"), Call(s, "config_doing"), Call(s, "help_menu"),
              EnterName(s, "long_profile"), EnterName(s, "short_profile"),
              EnterName(s, "ping_prompt")} ELSE {})
  \cup (IF "friends" \in s.habit
        THEN {Call(s, f) : f \in {"friendlist_prompt", "enemylist_prompt", "override_menu"}} ELSE {})

FunCommon(u) ==
  LET s == us[u]
      d == desk[u]
  IN
  /\ Keyed(u, "room_prompt")
  /\ \/ Does(u, CommonCalls(s))
     \/ "friends" \in s.habit /\ TakesOnly(u, s, [d EXCEPT !.override = {}])
     \/ /\ "feel" \in s.habit /\ sys.feelings # {}
        /\ TakesOnly(u, EnterName(PushArg(s, "list"), "feelings_prompt"),
                     [d EXCEPT !.list = sys.feelings])

Account(u) ==
  \/ StateConfigMenu(u) \/ StateConfigAddress(u) \/ StateChangeAddress(u) \/ StateChangeLine(u)
  \/ StateConfigProfile(u) \/ SaveProfile(u) \/ AbortProfile(u) \/ StateConfigLine(u)
  \/ StateConfigPassword(u) \/ StateChangePassword(u) \/ StateQuicklistPrompt(u)
  \/ StateEditQuicklist(u) \/ StateConfigTerminal(u) \/ StateConfigWidth(u)
  \/ StateConfigHeight(u) \/ StateConfigColors(u) \/ StateCustomColors(u)
  \/ StateConfigSymbols(u) \/ StateCustomSymbolColors(u) \/ StateChangeSymbols(u)
  \/ StateConfigWho(u) \/ StateConfigOptions(u) \/ StateDefaultRoom(u)
  \/ StateConfigTimezone(u) \/ StateTzContinent(u) \/ StateTzCity(u)
  \/ StateFriendlistPrompt(u) \/ StateEnemylistPrompt(u) \/ StateOverrideMenu(u)
  \/ StateAddFriend(u) \/ StateRemoveFriend(u) \/ StateAddEnemy(u) \/ StateRemoveEnemy(u)
  \/ StateAddOverride(u) \/ StateRemoveOverride(u) \/ StateHelpMenu(u)
  \/ StateFeelingsPrompt(u) \/ StateChooseFeeling(u) \/ LoopSendMsg(u)
  \/ StateProfile(u) \/ StatePingPrompt(u) \/ LoopPing(u) \/ FunCommon(u)

=============================================================================
