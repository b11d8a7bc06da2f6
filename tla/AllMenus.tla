------------------------------ MODULE AllMenus ------------------------------
(***************************************************************************)
(* All the menus together: users at the room prompt, Sysops in the Sysop   *)
(* menu and users who configure their account, on the stacks, rooms and    *)
(* lists that they share.                                                  *)
(***************************************************************************)
EXTENDS AccountMenus

\* What is done in the rooms does not touch what is edited in these menus.
AtRooms(u) ==
  /\ Walking(u) \/ Posting(u) \/ RoomConfig(u) \/ Shared(u)
  /\ UNCHANGED <<desk, sys>>

\* Except that change_int_param marks the parameters, also when it was the size of a room
\* that was given: to be saved when the menu of parameters is left.
GiveSize(u) ==
  /\ Keyed(u, "max_messages")
  /\ TakesOnly(u, Ret(us[u]), Touch(desk[u], "param"))

AllNext ==
  \E u \in User :
    /\ Turn(u)
    /\ AtRooms(u) \/ GiveSize(u) \/ Sysop(u) \/ Files(u) \/ Params(u) \/ Account(u) \/ HangUp(u)

AllSpec == DeskInit /\ [][AllNext]_deskVars

------------------------------------------------------------------------------
\* Every argument on a stack lies under a function that takes it off, and every such
\* function finds its own argument under it (PUSH_ARG, POP_ARG and PEEK_ARG all over
\* state_sysop.c and state_config.c), unless the user was thrown out under the boss
\* screen.
ArgumentsFit ==
  \A u \in User : LET s == us[u] IN
    {"boss", "thrown"} \subseteq s.by \/
    \A a \in Args :
      /\ \A i \in 1 .. Len(s.stack) :
           s.stack[i] = a => i > 1 /\ s.stack[i - 1] \in Takers(a)
      /\ \A i \in 1 .. Len(s.stack) :
           s.stack[i] \in Takers(a) \ {"boss"} => i < Len(s.stack) /\ s.stack[i + 1] = a

\* What is removed, edited or sent by its number is what was shown with that number,
\* unless another Sysop has changed the list since it was shown (state_add_wrapper,
\* state_edit_wrapper, state_remove_category, state_choose_feeling).
HitsWhatIsShown == \A u \in User : desk[u].missed => desk[u].stale

\* In which menu what is edited is saved
Saver(k) ==
  CASE k = "param" -> "parameters_menu" [] k = "category" -> "categories_menu"
    [] k = "config" -> "config_menu"

\* Who changed something that is still to be saved, and is in the menu that saves it
\* or in one below it, has the flag that it must be saved, whatever was saved or read
\* again by him or by others meanwhile (RTF_PARAM_EDITED, RTF_CATEGORY_EDITED,
\* RTF_CONFIG_EDITED).
EditsRemembered ==
  \A u \in User, k \in Edited :
    u \in sys.owed[k] /\ On(u, Saver(k)) => k \in desk[u].dirty

\* The types.  Nobody is a friend and an enemy, or one's own; and the lists are not longer than
\* they may be, although the room for one more is looked for before its name is typed.
DeskTypeOK ==
  /\ TypeOK /\ desk \in [User -> Desk] /\ sys \in System
  /\ \A u \in User : LET d == desk[u] IN
       /\ d.friends \cap d.enemies = {}
       /\ u \notin d.friends \cup d.enemies \cup d.override
       /\ \A L \in {d.friends, d.enemies, d.override} : Cardinality(L) <= MaxFriends

\* The temporary buffers are what the functions on the stack take them for:
\* tmpbuf[TMP_NAME], that the files, the feelings and the time zones share, is not set
\* without any of them; and the constant that screen_menu puts into tmpbuf[TMP_PASSWD]
\* is not freed, except when its user is logged out in front of it.
BuffersFit ==
  /\ DeskTypeOK
  /\ \A u \in User : LET n == desk[u].name IN
       /\ n = "file" <=> On(u, "screen_action")
       /\ n = "feeling" <=> On(u, "save_feeling") \/ On(u, "abort_feeling")
                            \/ On(u, "remove_feeling_yesno")
       /\ n = "zone" <=> On(u, "tz_city")
       /\ desk[u].freed => ~us[u].online

\* Symbols are colored as the user wants it, except while he types which symbols
\* are (USR_DONT_AUTO_COLOR, that the symbols menu sets for a moment).
ColorsChosen ==
  \A u \in User : LET d == desk[u] IN
    us[u].online => \/ d.plain = d.chose
                    \/ On(u, "change_symbols")
                    \/ Called(u, "config_symbols", "init")

=============================================================================
