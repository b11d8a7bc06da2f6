----------------------------- MODULE SysopMenus -----------------------------
(***************************************************************************)
(* The Sysop menu, and what it does to users, rooms, categories, wrappers  *)
(* and the program itself.  When the program reboots is in SystemTimers;   *)
(* here the timer runs or not as the environment likes.                    *)
(***************************************************************************)
EXTENDS Desks
LOCAL INSTANCE SequencesExt

\* The functions that are called from the menu, and those a name is typed for.
SysopCalls(s) ==
  (IF "rule" \in s.habit THEN {"create_room", "delete_room_name"} ELSE {})
  \cup (IF "users" \in s.habit THEN {"banish_user"} ELSE {})
  \cup (IF "files" \in s.habit THEN {"screens_menu"} ELSE {})
  \cup (IF "logs" \in s.habit THEN {"view_logs"} ELSE {})
  \cup (IF "categories" \in s.habit THEN {"categories_menu"} ELSE {})
  \cup (IF "params" \in s.habit THEN {"parameters_menu"} ELSE {})
  \cup (IF "boot" \in s.habit
        THEN {"uncache_file", "malloc_status", "su_passwd", "reboot_time",
              "shutdown_time", "coredump_yesno", "nologin_yesno"} ELSE {})

SysopNames(s) == IF "users" \in s.habit THEN {"disconnect_user", "nuke_user"} ELSE {}

\* A timer that runs is cancelled, and logins are allowed again, at once.
SysopToggles(s) == IF "boot" \in s.habit THEN {Current(s)} ELSE {}

\* 'w' forgets that a wrapper was edited before.  The list of feelings is read here.
StateSysopMenu(u) ==
  LET s == us[u] IN
  \/ Menu(u, "sysop_menu")
  \/ /\ Keyed(u, "sysop_menu")
     /\ \/ Does(u, {Ret(s), ShowFile(s)} \cup SysopToggles(s))
        \/ "rule" \in s.habit /\ Does(u, {Ret(DropSysopPrivs(u, s))})           \* '$'
        \/ Does(u, {Call(s, f) : f \in SysopCalls(s)} \cup {EnterName(s, f) : f \in SysopNames(s)})
        \/ /\ "wrappers" \in s.habit
           /\ TakesOnly(u, Call(s, "add_wrapper"), [desk[u] EXCEPT !.dirty = @ \ {"wrapper"}])
        \/ /\ "feelings" \in s.habit
           /\ Does(u, {Call(PushArg(s, "list"), "feelings_menu"), Current(s)})

\* Refused, or made, and config'ed at once.
StateCreateRoom(u) ==
  \/ Asking(u, "create_room")
  \/ Keyed(u, "create_room") /\ Does(u, {Ret(us[u])})
  \/ /\ Keyed(u, "create_room")
     /\ CreateRoom(u, Jump(us[u], "room_config_menu")) /\ UNCHANGED <<desk, sys>>

StateDeleteRoomName(u) ==
  LET s == us[u] IN
  \/ Asking(u, "delete_room_name")
  \/ Keyed(u, "delete_room_name") /\ Does(u, {Ret(s), Call(Pop(s), "delete_room_yesno")})

\* The room is looked up again.
StateDeleteRoomYesno(u) ==
  \/ Question(u, "delete_room_yesno")
  \/ /\ Keyed(u, "delete_room_yesno")
     /\ \E r \in Public : rooms[r].alive /\ DeleteRoom(u, us[u], r)
     /\ UNCHANGED <<desk, sys>>

------------------------------------------------------------------------------
\* close_connection(v), by the handler of u, who goes on as s
CloseOther(u, v, s) ==
  /\ us' = [us EXCEPT ![u] = s, ![v] = LoggedOut(@)]
  /\ listed' = LeaveList(listed, v, us[v].room)
  /\ desk' = [desk EXCEPT ![u].typed = "none", ![v] = Cleared(@)]
  /\ sys' = [sys EXCEPT !.owed["config"] = @ \ {v}]
  /\ UNCHANGED rooms

Untyped(u, s) == TakesOnly(u, s, [desk[u] EXCEPT !.typed = "none"])

\* The name is in edit_buf, for the next function.
Types(u, v, f) == TakesOnly(u, Call(Pop(us[u]), f), [desk[u] EXCEPT !.typed = v])

StateDisconnectUser(u) ==
  \/ Asking(u, "disconnect_user")
  \/ Keyed(u, "disconnect_user") /\ Does(u, {Ret(us[u])})
  \/ /\ Keyed(u, "disconnect_user")
     /\ \E v \in User \ {u} : us[v].online /\ Types(u, v, "disconnect_yesno")

\* Whoever has left, and Sysops, are not disconnected.
StateDisconnectYesno(u) ==
  LET v == desk[u].typed IN
  \/ Asking(u, "disconnect_yesno")
  \/ /\ Keyed(u, "disconnect_yesno")
     /\ \/ Untyped(u, Ret(us[u]))
        \/ us[v].online /\ v \notin Sysops /\ CloseOther(u, v, Ret(us[u]))

\* Not oneself, and no Sysop; the user need not be online.
StateNukeUser(u) ==
  \/ Asking(u, "nuke_user")
  \/ Keyed(u, "nuke_user") /\ Does(u, {Ret(us[u])})
  \/ /\ Keyed(u, "nuke_user")
     /\ \E v \in User \ (Sysops \cup {u}) : Types(u, v, "nuke_yesno")

StateNukeYesno(u) ==
  LET v == desk[u].typed IN
  \/ Asking(u, "nuke_yesno")
  \/ /\ Keyed(u, "nuke_yesno")
     /\ \/ Untyped(u, Ret(us[u]))
        \/ us[v].online /\ CloseOther(u, v, Ret(us[u]))

\* INIT_STATE takes the place of itself by a prompt for a name.
StateBanishUser(u) ==
  LET s == us[u] IN
  \/ Called(u, "banish_user", "init") /\ Does(u, {EnterName(Pop(s), "banish_user")})
  \/ Keyed(u, "banish_user") /\ Does(u, {Ret(s), Current(s)})

------------------------------------------------------------------------------
\* Lists are printed in order, and numbers are given of what is printed.
Sorted(S) ==
  CHOOSE q \in [1 .. Cardinality(S) -> S] : \A i, j \in DOMAIN q : i < j => q[i] < q[j]

\* u changes the list, goes on as s with d, and the others in the menu f do not
\* see it.
Changes(u, s, d, f) ==
  /\ us' = [us EXCEPT ![u] = s]
  /\ desk' = [v \in User |-> IF v = u THEN d
              ELSE [desk[v] EXCEPT !.stale = @ \/ On(v, f)]]
  /\ UNCHANGED <<rooms, listed>>

\* Leaving writes the categories, if one was added or removed.
StateCategoriesMenu(u) ==
  LET s == us[u]
      d == desk[u]
  IN
  \/ /\ Called(u, "categories_menu", "init")
     /\ TakesOnly(u, ReadMenu(s), Shows(d, Sorted(sys.categories)))
  \/ Called(u, "categories_menu", "prompt") /\ Does(u, {Wait(s)})
  \/ /\ Keyed(u, "categories_menu")
     /\ \/ Does(u, {Current(s), Call(s, "add_category")} \cup Boss(s))
        \/ sys.categories # {} /\ Does(u, {Call(s, "remove_category")})
        \/ Leave(u, Ret(s), "category")

\* An existing category is refused.
StateAddCategory(u) ==
  \/ Question(u, "add_category")
  \/ /\ Keyed(u, "add_category")
     /\ \E c \in Item \ sys.categories :
          /\ Changes(u, Ret(us[u]), Touch(desk[u], "category"), "categories_menu")
          /\ sys' = [Owing(u, "category") EXCEPT !.categories = @ \cup {c}]

\* By its number in the list as it is now; it is taken from the rooms, too.
StateRemoveCategory(u) ==
  \/ Question(u, "remove_category")
  \/ /\ Keyed(u, "remove_category")
     /\ \E i \in 1 .. Cardinality(sys.categories) :
          LET c == Sorted(sys.categories)[i]
              d == [Touch(desk[u], "category") EXCEPT !.missed = Missed(desk[u], i, c)]
          IN /\ Changes(u, Ret(us[u]), d, "categories_menu")
             /\ sys' = [Owing(u, "category") EXCEPT !.categories = @ \ {c}]

------------------------------------------------------------------------------
\* Number n of the list that was printed is the wrapper at index n - 2.
Chosen(d, n) == [d EXCEPT !.index = n - 2, !.missed = Missed(d, n - 1, sys.wrappers[n - 1])]

\* The list is numbered from 2; number 1 makes a new wrapper.  The index of the
\* wrapper to edit is pushed.
StateAddWrapper(u) ==
  LET s == us[u]
      d == desk[u]
      Edit == Call(PushArg(s, "number"), "edit_wrapper")
  IN
  \/ /\ Called(u, "add_wrapper", "init")
     /\ TakesOnly(u, ReadMenu(s), Shows(d, sys.wrappers))
  \/ Called(u, "add_wrapper", "prompt") /\ Does(u, {Wait(s)})
  \/ /\ Keyed(u, "add_wrapper")
     /\ \/ TakesOnly(u, Ret(s), Forgets(d))
        \/ Does(u, {Current(s)})
        \/ \E w \in Item \ {sys.wrappers[i] : i \in DOMAIN sys.wrappers} :
             /\ Changes(u, Edit, [Touch(d, "wrapper") EXCEPT !.index = Len(sys.wrappers)],
                        "add_wrapper")
             /\ sys' = [sys EXCEPT !.wrappers = Append(@, w)]
        \/ \E n \in 2 .. Len(sys.wrappers) + 1 : TakesOnly(u, Edit, Chosen(d, n))

\* state_edit_wrapper, state_ipaddr_wrapper, ... look for the wrapper by its index.
Found(u) == desk[u].index < Len(sys.wrappers)
Wrapper(u) == sys.wrappers[desk[u].index + 1]

\* A change of the wrapper at the index; the menu shows one.
Edits(u, s) ==
  TakesOnly(u, s, [Touch(desk[u], "wrapper") EXCEPT !.missed = Missed(desk[u], 1, Wrapper(u))])

\* Somebody removed it: also INIT_STATE and INIT_PROMPT find out.
StateEditWrapperGone(u) ==
  /\ \/ \E k \in {"init", "prompt"} : Called(u, "edit_wrapper", k)
     \/ Keyed(u, "edit_wrapper")
  /\ ~Found(u)
  /\ TakesOnly(u, Ret(PopArg(us[u])), Forgets(desk[u]))

StateEditWrapper(u) ==
  LET s == us[u]
      d == desk[u]
      Out == Ret(PopArg(s))
      Prompts == {"ipaddr_wrapper", "ipmask_wrapper", "comment_wrapper"}
  IN
  \/ StateEditWrapperGone(u)
  \/ /\ Called(u, "edit_wrapper", "init") /\ Found(u)
     /\ TakesOnly(u, ReadMenu(s), Shows(d, <<Wrapper(u)>>))
  \/ Called(u, "edit_wrapper", "prompt") /\ Found(u) /\ Does(u, {Wait(s)})
  \/ /\ Keyed(u, "edit_wrapper") /\ Found(u)
     /\ \/ Does(u, {Current(s)} \cup Boss(s) \cup {Call(PushArg(s, "number"), f) : f \in Prompts})
        \/ Edits(u, Current(s))                                   \* 'a' and 't'
        \/ TakesOnly(u, Out, [Forgets(d) EXCEPT !.dirty = @ \ {"wrapper"}])   \* all are saved
        \/ /\ Changes(u, Out, [Touch(d, "wrapper") EXCEPT !.missed = Missed(d, 1, Wrapper(u)),
                      !.shown = << >>, !.index = 0], "add_wrapper")
           /\ sys' = [sys EXCEPT !.wrappers = RemoveAt(@, d.index + 1)]

\* The prompts of edit_wrapper take the index off, and look for the wrapper, when
\* the line is complete.
WrapperPrompt(u, f) ==
  \/ Asking(u, f)
  \/ /\ Keyed(u, f)
     /\ \/ Does(u, {Ret(PopArg(us[u]))})
        \/ Found(u) /\ Edits(u, Ret(PopArg(us[u])))

StateIpaddrWrapper(u) == WrapperPrompt(u, "ipaddr_wrapper")
StateIpmaskWrapper(u) == WrapperPrompt(u, "ipmask_wrapper")
StateCommentWrapper(u) == WrapperPrompt(u, "comment_wrapper")

------------------------------------------------------------------------------
\* The time is pushed for the password prompt, named f, that follows.
TimePrompt(u, f, next) ==
  LET s == us[u] IN
  \/ Asking(u, f)
  \/ Keyed(u, f) /\ Does(u, {Ret(s), Call(PushArg(Pop(s), "number"), next)})

\* Whoever is not in su_passwd any more is taken out of the Sysop menu; but
\* su_passwd is only read when the program starts.
PasswordPrompt(u, f) == Asking(u, f) \/ (Keyed(u, f) /\ Does(u, {Ret(PopArg(us[u]))}))

StateRebootTime(u) == TimePrompt(u, "reboot_time", "reboot_password")
StateRebootPassword(u) == PasswordPrompt(u, "reboot_password")
StateShutdownTime(u) == TimePrompt(u, "shutdown_time", "shutdown_password")
StateShutdownPassword(u) == PasswordPrompt(u, "shutdown_password")

StateCoredumpYesno(u) == Question(u, "coredump_yesno")
StateNologinYesno(u) == Question(u, "nologin_yesno")
StateUncacheFile(u) == Question(u, "uncache_file")

StateMallocStatus(u) ==
  LET s == us[u] IN
  \/ Called(u, "malloc_status", "init") /\ Does(u, {ReadMenu(s)})
  \/ Called(u, "malloc_status", "prompt") /\ Does(u, {Wait(s)})
  \/ Keyed(u, "malloc_status") /\ Does(u, {Ret(s)})

StateSuPasswd(u) ==
  LET s == us[u] IN
  \/ Asking(u, "su_passwd")
  \/ Keyed(u, "su_passwd") /\ Does(u, {Ret(s), Jump(s, "change_su_passwd")})

\* INIT_STATE frees what TMP_PASSWD was: "const" is no memory of its own.
FreePasswd(d) == [d EXCEPT !.passwd = "none", !.freed = @ \/ d.passwd = "const"]

\* The new password is typed twice; between the two nothing is called.  A break, or
\* an empty line, leaves the first one where it is.
NewPassword(u, f) ==
  LET s == us[u]
      d == desk[u]
  IN
  \/ Called(u, f, "init") /\ TakesOnly(u, Wait(s), FreePasswd(d))
  \/ /\ Keyed(u, f)
     /\ \/ Does(u, {Ret(s), Current(s)})
        \/ d.passwd = "none" /\ TakesOnly(u, s, [d EXCEPT !.passwd = "heap"])
        \/ d.passwd # "none" /\ TakesOnly(u, Ret(s), FreePasswd(d))

StateChangeSuPasswd(u) == NewPassword(u, "change_su_passwd")

Sysop(u) ==
  \/ StateSysopMenu(u) \/ StateCreateRoom(u) \/ StateDeleteRoomName(u)
  \/ StateDeleteRoomYesno(u) \/ StateDisconnectUser(u) \/ StateDisconnectYesno(u)
  \/ StateNukeUser(u) \/ StateNukeYesno(u) \/ StateBanishUser(u)
  \/ StateCategoriesMenu(u) \/ StateAddCategory(u) \/ StateRemoveCategory(u)
  \/ StateAddWrapper(u) \/ StateEditWrapper(u) \/ StateIpaddrWrapper(u)
  \/ StateIpmaskWrapper(u) \/ StateCommentWrapper(u) \/ StateRebootTime(u)
  \/ StateRebootPassword(u) \/ StateShutdownTime(u) \/ StateShutdownPassword(u)
  \/ StateCoredumpYesno(u) \/ StateNologinYesno(u) \/ StateUncacheFile(u)
  \/ StateMallocStatus(u) \/ StateSuPasswd(u) \/ StateChangeSuPasswd(u)

=============================================================================
