------------------------------- MODULE Desks -------------------------------
(***************************************************************************)
(* What a user has in hand while in the menus of Sysops and of his own     *)
(* account, besides the stack: what he edited and must still save, the     *)
(* temporary buffers that are passed from handler to handler, and the list *)
(* he was shown and gives numbers of.  And what all users share that these *)
(* menus edit: the wrappers, the categories and the feelings.              *)
(***************************************************************************)
EXTENDS RoomMenus

CONSTANTS
  MaxItems,     \* bound: how many wrappers, categories and feelings there are
  MaxFriends    \* PARAM_MAX_FRIEND and PARAM_MAX_ENEMY

ASSUME DesksAssumption == MaxItems \in Nat \ {0} /\ MaxFriends \in Nat

Item == 1 .. MaxItems
Edited == {"param", "category", "config"}

\* What one may have come for to the Sysop menu
SysopInterest ==
  {"rule", "users", "wrappers", "categories", "feelings", "files", "logs", "boot", "params"}

VARIABLES
  desk,     \* what the users have in hand
  sys       \* what the menus edit, for everybody

deskVars == <<us, rooms, listed, desk, sys>>

\* dirty: the RTF_*_EDITED flags; name and passwd: what tmpbuf[TMP_NAME] and
\* tmpbuf[TMP_PASSWD] point to; freed: the last one was a constant, and was freed;
\* typed: the name in edit_buf; index: the number on the stack; shown: the list
\* that was printed; stale: somebody else has changed it since; missed: something
\* else than what was shown was chosen or changed; list: the DirList of feelings,
\* fresh: its generation is the current one; plain: DONT_AUTO_COLOR, chose: as the
\* user wants it.
Desk ==
  [dirty : SUBSET (Edited \cup {"wrapper"}),
   name : {"none", "file", "feeling", "zone"}, passwd : {"none", "const", "heap"},
   freed : BOOLEAN, typed : User \cup {"none"},
   index : 0 .. MaxItems, shown : UNION {[1 .. n -> Item] : n \in 0 .. MaxItems},
   stale : BOOLEAN, missed : BOOLEAN,
   list : SUBSET Item, fresh : BOOLEAN, plain : BOOLEAN, chose : BOOLEAN,
   friends : SUBSET User, enemies : SUBSET User, override : SUBSET User]

\* owed: who has changed something that was not saved since
System ==
  [wrappers : UNION {[1 .. n -> Item] : n \in 0 .. MaxItems},
   categories : SUBSET Item, feelings : SUBSET Item,
   owed : [Edited -> SUBSET User]]

EmptyDesk ==
  [dirty |-> {}, name |-> "none", passwd |-> "none", freed |-> FALSE, typed |-> "none",
   index |-> 0, shown |-> << >>, stale |-> FALSE, missed |-> FALSE, list |-> {},
   fresh |-> FALSE, plain |-> FALSE, chose |-> FALSE,
   friends |-> {}, enemies |-> {}, override |-> {}]

DeskInit ==
  /\ desk = [u \in User |-> EmptyDesk]
  /\ sys = [wrappers |-> <<1>>, categories |-> {1}, feelings |-> {1},
            owed |-> [k \in Edited |-> {}]]
  /\ Init /\ Exists("club")

------------------------------------------------------------------------------
\* Handlers that leave the desk alone
Does(u, outcomes) == Do(u, outcomes) /\ UNCHANGED <<desk, sys>>

\* u goes on as s, with d in hand.
Takes(u, s, d) ==
  /\ us' = [us EXCEPT ![u] = s] /\ desk' = [desk EXCEPT ![u] = d]
  /\ UNCHANGED <<rooms, listed>>

TakesOnly(u, s, d) == Takes(u, s, d) /\ UNCHANGED sys

On(u, f) == \E i \in 1 .. Len(us[u].stack) : us[u].stack[i] = f

\* The boss key of the menus
Boss(s) == IF "boss" \in s.habit THEN {Call(s, "boss")} ELSE {}

\* What all menus do alike: INIT_STATE pages the menu, INIT_PROMPT prompts, and
\* Ctrl-L and the boss key.
Menu(u, f) ==
  \/ Called(u, f, "init") /\ Does(u, {ReadMenu(us[u])})
  \/ Called(u, f, "prompt") /\ Does(u, {Wait(us[u])})
  \/ Keyed(u, f) /\ Does(u, {Current(us[u])} \cup Boss(us[u]))

\* A question of which the answer does not matter here
Question(u, f) ==
  \/ Called(u, f, "init") /\ Does(u, {Wait(us[u])})
  \/ Keyed(u, f) /\ Does(u, {Ret(us[u])})

Asking(u, f) == Called(u, f, "init") /\ Does(u, {Wait(us[u])})

\* load_screen or load_StringIO, and the text is paged
ShowFile(s) == ReadText(Push(FreeText(s), "press_any_key"))

\* Something of kind k was changed, to be saved when its menu is left.
Touch(d, k) == [d EXCEPT !.dirty = @ \cup {k}]
Owing(u, k) == [sys EXCEPT !.owed[k] = @ \cup {u}]

\* A list is shown, or none any more; numbers are given of what is shown.
Shows(d, q) == [d EXCEPT !.shown = q, !.stale = FALSE, !.missed = FALSE]
Forgets(d) == [Shows(d, << >>) EXCEPT !.index = 0]

\* The i-th entry is x now; was it when the list was shown?
Missed(d, i, x) == ~(i \in DOMAIN d.shown /\ d.shown[i] = x)

\* u leaves the menu in which k is edited as s: all of k is written, or the user is
\* told that it could not be.  What is his own is his own to save.
Leave(u, s, k) ==
  /\ Takes(u, s, [Forgets(desk[u]) EXCEPT !.dirty = @ \ {k}])
  /\ \/ k \notin desk[u].dirty /\ UNCHANGED sys
     \/ k \in desk[u].dirty /\ \E saved \in {{u}, IF k = "config" THEN {u} ELSE User} :
          sys' = [sys EXCEPT !.owed[k] = @ \ saved]

\* The desk of somebody who is logged out: destroy_User frees the buffers, after
\* save_User wrote what is his own.
Cleared(d) ==
  [EmptyDesk EXCEPT !.freed = d.passwd = "const", !.plain = d.plain, !.chose = d.chose,
                    !.friends = d.friends, !.enemies = d.enemies]

HangUp(u) ==
  /\ LogoutUser(u)
  /\ desk' = [desk EXCEPT ![u] = Cleared(@)]
  /\ sys' = [sys EXCEPT !.owed["config"] = @ \ {u}]

=============================================================================
