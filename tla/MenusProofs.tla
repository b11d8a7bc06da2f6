----------------------------- MODULE MenusProofs -----------------------------
(****************************************************************************)
(* What holds of every session of the menus: what may lie on what on its    *)
(* call stack, what a function on top of it may rely on, and that the       *)
(* helpers of CallStack.c (CALL, PUSH, POP, JMP, MOVE, RET) and the pager   *)
(* keep that; and what follows for the rooms' menus: the safety properties  *)
(* of RoomMenus, for any users, Sysops, habits, targets and rooms, and for  *)
(* stacks of any depth.                                                     *)
(*                                                                          *)
(* The inductive invariant is IInv. A session is Good: Sound (its stack     *)
(* Fits), PagerKept, FlagsKept, Idle and Caused. From a session that is     *)
(* Ready the function on top may call, push, jump or return; the lemmas     *)
(* Ready... say which session that makes. A lemma ...Kept is about a        *)
(* handler of Menus, PostMenus, RoomConfigMenus or RoomMenus; a handler     *)
(* that changes a second session (a kick out, the deletion of a room) has   *)
(* an operator for what it does to that session.                            *)
(****************************************************************************)
EXTENDS RoomMenus, TLAPS, SequenceTheorems, FiniteSetTheorems

\* What is on a stack, in any order
Levels(q) == {q[i] : i \in 1 .. Len(q)}

\* A sequence with an element put on top of it
LEMMA ConsSeq ==
  ASSUME NEW S, NEW f \in S, NEW q \in Seq(S)
  PROVE  /\ <<f>> \o q \in Seq(S) /\ <<f>> \o q # << >>
         /\ Head(<<f>> \o q) = f /\ Tail(<<f>> \o q) = q
         /\ Levels(<<f>> \o q) = {f} \cup Levels(q)
<1> DEFINE p == <<f>> \o q
<1>1. p \in Seq(S) /\ Len(q) \in Nat /\ Len(p) = Len(q) + 1 /\ p[1] = f
      /\ \A i \in 1 .. Len(q) : p[i + 1] = q[i]
  OBVIOUS
<1> HIDE DEF p
<1>2. p # << >> /\ Head(p) = f
  BY <1>1
<1>3. Tail(p) \in Seq(S) /\ Len(Tail(p)) = Len(q) /\ \A i \in 1 .. Len(q) : Tail(p)[i] = q[i]
  BY <1>1, <1>2, HeadTailProperties
<1>4. Tail(p) = q
  BY <1>1, <1>3, SeqEqual
<1>5. Levels(p) = {f} \cup Levels(q)
  <2>1. \A i \in 1 .. Len(q) : i + 1 \in 1 .. Len(p) /\ p[i + 1] = q[i]
    BY <1>1
  <2>2. \A i \in 1 .. Len(p) : i = 1 \/ (i - 1 \in 1 .. Len(q) /\ p[i] = q[i - 1])
    <3> TAKE i \in 1 .. Len(p)
    <3> SUFFICES ASSUME i # 1 PROVE i - 1 \in 1 .. Len(q) /\ p[i] = q[i - 1]
      OBVIOUS
    <3>1. i - 1 \in 1 .. Len(q) /\ (i - 1) + 1 = i
      BY <1>1
    <3>2. p[(i - 1) + 1] = q[i - 1]
      BY <1>1, <3>1
    <3> QED
      BY <3>1, <3>2
  <2>3. 1 \in 1 .. Len(p)
    BY <1>1
  <2>4. ASSUME NEW x \in Levels(p) PROVE x \in {f} \cup Levels(q)
    BY <1>1, <2>2, <2>4 DEF Levels
  <2>5. ASSUME NEW x \in {f} \cup Levels(q) PROVE x \in Levels(p)
    BY <1>1, <2>1, <2>3, <2>5 DEF Levels
  <2> QED
    BY <2>4, <2>5
<1> QED
  BY <1>1, <1>2, <1>4, <1>5 DEF p

\* A sequence that is not empty, and what is under its top
LEMMA TailSeq ==
  ASSUME NEW S, NEW q \in Seq(S), q # << >>
  PROVE  /\ Head(q) \in S /\ Tail(q) \in Seq(S)
         /\ q = <<Head(q)>> \o Tail(q)
         /\ Levels(q) = {Head(q)} \cup Levels(Tail(q))
<1>1. Len(q) \in Nat \ {0} /\ Head(q) = q[1]
  BY EmptySeq
<1>2. Head(q) \in S /\ Tail(q) \in Seq(S) /\ Len(Tail(q)) = Len(q) - 1
      /\ \A i \in 1 .. Len(q) - 1 : Tail(q)[i] = q[i + 1]
  BY <1>1, HeadTailProperties
<1> DEFINE p == <<Head(q)>> \o Tail(q)
<1>3. p \in Seq(S) /\ Len(p) = Len(Tail(q)) + 1 /\ p[1] = Head(q)
      /\ \A i \in 1 .. Len(Tail(q)) : p[i + 1] = Tail(q)[i]
  BY <1>2
<1> HIDE DEF p
<1>4. Len(p) = Len(q)
  BY <1>1, <1>2, <1>3
<1>5. ASSUME NEW i \in 1 .. Len(p) PROVE p[i] = q[i]
  <2>1. CASE i = 1
    BY <1>1, <1>3, <2>1
  <2>2. CASE i # 1
    <3>1. i - 1 \in 1 .. Len(Tail(q)) /\ (i - 1) + 1 = i
      BY <1>1, <1>2, <1>4, <2>2
    <3>2. p[(i - 1) + 1] = Tail(q)[i - 1] /\ Tail(q)[i - 1] = q[(i - 1) + 1]
      BY <1>1, <1>2, <1>3, <3>1
    <3> QED
      BY <3>1, <3>2
  <2> QED
    BY <2>1, <2>2
<1>6. p = q
  BY <1>3, <1>4, <1>5, SeqEqual
<1>7. Levels(p) = {Head(q)} \cup Levels(Tail(q))
  BY <1>2, ConsSeq DEF p
<1> QED
  BY <1>2, <1>6, <1>7 DEF p

\* What is under the i-th element from the top
Rest(q, i) == SubSeq(q, i + 1, Len(q))

\* The length and the elements of what is under the i-th element
LEMMA RestSeq ==
  ASSUME NEW S, NEW q \in Seq(S), NEW i \in Nat \ {0}, i <= Len(q)
  PROVE  Rest(q, i) \in Seq(S) /\ Len(Rest(q, i)) = Len(q) - i
         /\ \A j \in 1 .. Len(q) - i : Rest(q, i)[j] = q[i + j]
<1>1. Len(q) \in Nat /\ \A j \in i + 1 .. Len(q) : q[j] \in S
  BY ElementOfSeq
<1>2. /\ SubSeq(q, i + 1, Len(q)) \in Seq(S)
      /\ Len(SubSeq(q, i + 1, Len(q))) = IF i + 1 <= Len(q) THEN Len(q) - (i + 1) + 1 ELSE 0
      /\ \A j \in 1 .. Len(q) - (i + 1) + 1 : SubSeq(q, i + 1, Len(q))[j] = q[i + 1 + j - 1]
  BY <1>1, SubSeqProperties, Z3
<1> DEFINE r == SubSeq(q, i + 1, Len(q))
<1> HIDE DEF r
<1>3. Len(r) = Len(q) - i
  BY <1>1, <1>2 DEF r
<1>4. ASSUME NEW j \in 1 .. Len(q) - i PROVE r[j] = q[i + j]
  <2>1. j \in 1 .. Len(q) - (i + 1) + 1 /\ i + 1 + j - 1 = i + j
    BY <1>1
  <2> QED
    BY <1>2, <2>1 DEF r
<1> QED
  BY <1>2, <1>3, <1>4 DEF Rest, r

\* What is under an element does not change when the top is taken off.
LEMMA RestTail ==
  ASSUME NEW S, NEW q \in Seq(S), q # << >>
  PROVE  /\ Rest(q, 1) = Tail(q)
         /\ \A i \in 1 .. Len(Tail(q)) : Rest(q, i + 1) = Rest(Tail(q), i)
<1>1. Len(q) \in Nat \ {0} /\ Tail(q) \in Seq(S) /\ Len(Tail(q)) = Len(q) - 1
      /\ \A i \in 1 .. Len(q) - 1 : Tail(q)[i] = q[i + 1]
  BY EmptySeq, HeadTailProperties
<1>2. Rest(q, 1) = Tail(q)
  BY TailIsSubSeq DEF Rest
<1>3. ASSUME NEW i \in 1 .. Len(Tail(q)) PROVE Rest(q, i + 1) = Rest(Tail(q), i)
  <2> DEFINE a == Rest(q, i + 1)
             b == Rest(Tail(q), i)
  <2>0. i \in Nat \ {0} /\ i + 1 \in Nat \ {0} /\ i + 1 <= Len(q) /\ i <= Len(Tail(q))
    BY <1>1
  <2>1. a \in Seq(S) /\ Len(a) = Len(q) - (i + 1)
        /\ \A j \in 1 .. Len(q) - (i + 1) : a[j] = q[i + 1 + j]
    BY <2>0, RestSeq
  <2>2. b \in Seq(S) /\ Len(b) = Len(Tail(q)) - i
        /\ \A j \in 1 .. Len(Tail(q)) - i : b[j] = Tail(q)[i + j]
    <3>1. Tail(q) \in Seq(S)
      BY <1>1
    <3> QED
      BY <2>0, <3>1, RestSeq
  <2> HIDE DEF a, b
  <2>3. Len(a) = Len(b)
    BY <1>1, <2>0, <2>1, <2>2
  <2>4. ASSUME NEW j \in 1 .. Len(a) PROVE a[j] = b[j]
    <3>1. i + j \in 1 .. Len(q) - 1 /\ (i + j) + 1 = i + 1 + j
      BY <1>1, <2>0, <2>1
    <3>2. b[j] = Tail(q)[i + j] /\ a[j] = q[i + 1 + j]
      BY <2>1, <2>2, <2>3
    <3>3. Tail(q)[i + j] = q[(i + j) + 1]
      BY <1>1, <3>1
    <3> QED
      BY <3>1, <3>2, <3>3
  <2>5. a = b
    BY <2>1, <2>2, <2>3, <2>4, SeqEqual
  <2> QED
    BY <2>5 DEF a, b
<1> QED
  BY <1>2, <1>3

------------------------------------------------------------------------------
\* What may lie on what: the top of a stack, or "none"
First(q) == IF q = << >> THEN "none" ELSE Head(q)

\* Functions that are never below the top: they call nothing, or, as state_boss does,
\* put something below themselves.
Never == {"scroll_find_prompt", "scroll_findback_prompt", "dummy", "boss"}

Finders == {"scroll_find_prompt", "scroll_findback_prompt", "scroll_text_notfound"}

\* Functions that are called from the room prompt only, or from the Sysop menu
OnPrompt ==
  {"jump_room", "zap_prompt", "zapall_prompt", "su_prompt", "room_config_menu",
   "post_as_anon", "enter_anonymous", "enter_mail_recipients", "enter_subject",
   "save_message", "enter_forward_recipients", "forward_room", "delete_msg", "undelete_msg"}

ConfigPrompt ==
  {"choose_category", "change_roominfo", "change_roomname", "max_messages",
   "reset_creation_date", "remove_all_posts", "delete_room", "invite_prompt",
   "kickout_prompt", "assign_roomaide"}

\* The functions of the editor, that lie on those which save and abort the text
Editors == {"edit_text", "save_text", "abort_text"}
Aborts == {"abort_message", "abort_roominfo", "upload_abort", "abort_profile", "abort_feeling"}
SaveOf(f) ==
  CASE f = "abort_message" -> "save_message"
    [] f = "abort_roominfo" -> "save_roominfo"
    [] f = "upload_abort" -> "upload_save"
    [] f = "abort_profile" -> "save_profile"
    [] f = "abort_feeling" -> "save_feeling"

\* The lists of users that one may edit, and the prompts that make them longer
ListMenus == {"friendlist_prompt", "enemylist_prompt", "override_menu"}
ListNames == {"add_friend", "add_enemy", "add_override"}

\* Called from the Sysop menu, or in the place of what was
OfSysop ==
  {"create_room", "disconnect_user", "disconnect_yesno", "nuke_user", "nuke_yesno",
   "screens_menu", "categories_menu", "parameters_menu", "add_wrapper", "feelings_menu",
   "su_passwd", "change_su_passwd"}

\* Called from the list of feelings, or in the place of what was
OfFeelings ==
  {"add_feeling", "remove_feeling", "view_feeling", "download_feeling", "save_feeling",
   "remove_feeling_yesno", "abort_feeling"}

OfWrapper == {"ipaddr_wrapper", "ipmask_wrapper", "comment_wrapper"}
OfConfig == {"config_timezone", "config_terminal", "config_password", "change_password"}

\* The functions of which it matters what is below them
Desked ==
  {"sysop_menu", "config_menu", "feelings_prompt", "choose_feeling", "help_files",
   "screen_action", "add_category", "remove_category", "edit_wrapper", "abort_feeling",
   "tz_continent", "tz_city", "config_symbols", "change_symbols",
   "create_room", "disconnect_user", "disconnect_yesno", "nuke_user", "nuke_yesno",
   "screens_menu", "categories_menu", "parameters_menu", "add_wrapper", "feelings_menu",
   "su_passwd", "change_su_passwd", "add_feeling", "remove_feeling", "view_feeling",
   "download_feeling", "save_feeling", "remove_feeling_yesno", "ipaddr_wrapper",
   "ipmask_wrapper", "comment_wrapper", "config_timezone", "config_terminal",
   "config_password", "change_password", "friendlist_prompt", "enemylist_prompt",
   "override_menu", "add_friend", "add_enemy", "add_override"}

\* And what may be below them
Ground(f) ==
  CASE f \in {"sysop_menu", "config_menu", "feelings_prompt", "choose_feeling"} ->
         {"room_prompt", "list"}
    [] f \in OfSysop -> {"room_prompt", "sysop_menu", "list"}
    [] f = "help_files" -> {"room_prompt", "sysop_menu", "screens_menu"}
    [] f = "screen_action" -> {"room_prompt", "sysop_menu", "screens_menu", "help_files"}
    [] f \in {"add_category", "remove_category"} ->
         {"room_prompt", "sysop_menu", "categories_menu"}
    [] f = "edit_wrapper" -> {"room_prompt", "sysop_menu", "add_wrapper", "number"}
    [] f \in OfWrapper ->
         {"room_prompt", "sysop_menu", "add_wrapper", "edit_wrapper", "number"}
    [] f \in OfFeelings -> {"room_prompt", "sysop_menu", "feelings_menu", "list"}
    [] f \in OfConfig -> {"room_prompt", "config_menu"}
    [] f = "tz_continent" -> {"room_prompt", "config_menu", "config_timezone", "list"}
    [] f = "tz_city" ->
         {"room_prompt", "config_menu", "config_timezone", "tz_continent", "list"}
    [] f = "config_symbols" -> {"room_prompt", "config_menu", "config_terminal"}
    [] f = "change_symbols" ->
         {"room_prompt", "config_menu", "config_terminal", "config_symbols"}
    [] f \in ListMenus -> {"room_prompt", "config_menu"}
    [] f \in ListNames -> {"room_prompt", "config_menu"} \cup ListMenus

\* The functions that have an argument under them
Taking == UNION {Takers(a) : a \in Args}

\* The functions that another function put something under
Bound == Taking \cup Editors

\* Where a function may be called that asks nothing of what it lies on
Plain(f) ==
  f \notin OnPrompt \cup ConfigPrompt \cup Finders \cup Editors \cup (Taking \ {"boss"})
          \cup {"room_prompt", "recipients_err", "dummy", "return_forward"} \cup Desked

\* f may lie on the stack q.
Lies(f, q) ==
  /\ First(q) \notin Never
  /\ First(q) \in Args => f \in Takers(First(q)) \/ (f = "flags" /\ First(q) = "flags")
  /\ \A a \in Args : f \in Takers(a) \ {"boss"} => First(q) = a
  /\ f = "room_prompt" => Levels(q) = {}
  /\ f \in OnPrompt => Levels(q) \subseteq {"room_prompt", "sysop_menu"}
  /\ f \in ConfigPrompt => "room_config_menu" \in Levels(q)
  /\ f = "recipients_err" => First(q) = "enter_mail_recipients"
  /\ f \in Finders => First(q) = "scroll_text"
  /\ f = "dummy" => First(q) = "return_forward"
  /\ f = "return_forward" => First(q) \in {"forward_room", "enter_forward_recipients"}
  /\ f \in Desked => Levels(q) \subseteq Ground(f)
  /\ f = "create_room" => First(q) = "sysop_menu"
  /\ f = "change_symbols" => First(q) = "config_symbols"
  /\ f \in {"add_category", "remove_category"} => First(q) = "categories_menu"
  /\ f = "edit_wrapper" => First(Tail(q)) = "add_wrapper"
  /\ f \in {"ipaddr_wrapper", "ipmask_wrapper", "comment_wrapper"} =>
       First(Tail(q)) = "edit_wrapper"
  /\ f = "tz_city" => First(Tail(q)) = "tz_continent"
  /\ f \in Editors => First(q) \in Aborts /\ First(Tail(q)) = SaveOf(First(q))

\* The i-th element from the top lies where it may, or is kept by the editor for later.
LiesAt(q, i) ==
  (i > 1 /\ q[i - 1] \in Editors /\ q[i] \notin Editors) \/ Lies(q[i], Rest(q, i))

Fits(q) == \A i \in 1 .. Len(q) : LiesAt(q, i)

Calm(s) == s.by \cap {"boss", "thrown"} = {}
Both(s) == {"boss", "thrown"} \subseteq s.by

\* A message that was begun or read is there as long as a function needs it, unless
\* its user was thrown out.
DraftKept(s) ==
  /\ "thrown" \notin s.by =>
       LET L == Levels(s.stack) IN
       /\ {"post_as_anon", "enter_subject"} \cap L # {} => s.draft # "none"
       /\ "forward_room" \in L => s.draft # "none" \/ "return_forward" \in L
       /\ {"delete_msg", "undelete_msg"} \cap L # {} => s.read
  /\ s.draft # "none" => s.draft = s.room \/ "moved" \in s.by
  /\ "sysop_menu" \in Levels(s.stack) => s.draft = "none"

\* The aide of another room does not make one without being a Sysop: whoever drops his
\* privileges in the config menu of a room he made is back in the Sysop menu.
Made(s) ==
  LET L == Levels(s.stack) IN
  "sysop_menu" \in L /\ s.aide /\ (~s.sysop \/ "room_config_menu" \in L)
    => s.room = "club" \/ "moved" \in s.by

\* What holds of a session whatever the function on top is called with
Sound(s) ==
  /\ s \in Session /\ Fits(s.stack) /\ DraftKept(s) /\ Made(s)
  /\ s.edited => "room_config_menu" \in Levels(s.stack)

\* The text under the pager is there, unless the boss screen or a kick was in between.
PagerKept(s) ==
  LET f == First(s.stack) IN
  Calm(s) =>
    /\ s.pager # "stale"
    /\ s.pager = "open" => f \in Finders \cup {"scroll_text"} \/ (f = "boss" /\ s.key = "init")
    /\ (f = "scroll_text" /\ s.key = "wait") \/ f = "scroll_findback_prompt" => s.pager = "open"

\* The flags are on the stack only under a boss screen that has been shown, unless
\* its user was thrown out.
FlagsKept(s) ==
  LET q == s.stack IN
  /\ First(q) \in Args => First(q) = "flags"
  /\ "flags" \in Levels(q) => "boss" \in s.by
  /\ "flags" \in Levels(q) /\ ~Both(s) =>
       First(q) = "boss" /\ s.key # "init" /\ "flags" \notin Levels(Tail(Tail(q)))
  /\ First(q) = "boss" /\ s.key # "init" => First(Tail(q)) = "flags"

\* At the room prompt no message is begun.
Idle(s) == First(s.stack) = "room_prompt" /\ s.key = "wait" => s.draft = "none"

Caused(s) ==
  /\ s.harm = "null_message" =>
       "thrown" \in s.by \/ ("missing" \in s.by /\ First(s.stack) = "room_prompt")
  /\ s.harm = "freed_text" => s.by \cap {"boss", "thrown"} # {}
  /\ s.harm = "raw_frame" => Both(s)

Good(s) == Sound(s) /\ PagerKept(s) /\ FlagsKept(s) /\ Idle(s) /\ Caused(s)

\* A session from which a function may be called or returned from: its handler has
\* nothing of the pager and the boss screen left to take care of.
Ready(s) ==
  /\ Sound(s) /\ s.harm = "none" /\ First(s.stack) \notin Never \cup Args
  /\ Calm(s) => s.pager = "closed"
  /\ "flags" \in Levels(s.stack) => Both(s)

\* What f needs to be called
Needs(f, s) ==
  /\ f \in {"post_as_anon", "enter_subject", "forward_room"} => s.draft # "none"
  /\ f \in {"delete_msg", "undelete_msg"} => s.read
  /\ f = "sysop_menu" => s.draft = "none" /\ s.sysop /\ "room_config_menu" \notin Levels(s.stack)
  /\ f = "room_config_menu" => "sysop_menu" \notin Levels(s.stack) \/ s.room = "club"

\* t differs from s in the stack and the key only, and has f on top of q.
Same(s, t) ==
  /\ t.habit = s.habit /\ t.online = s.online /\ t.room = s.room /\ t.sysop = s.sysop
  /\ t.aide = s.aide /\ t.edited = s.edited /\ t.draft = s.draft /\ t.read = s.read
  /\ t.pager = s.pager /\ t.harm = s.harm /\ t.by = s.by

LaidOn(t, f, q) ==
  /\ t.stack # << >> /\ First(t.stack) = f /\ Tail(t.stack) = q
  /\ Levels(t.stack) = {f} \cup Levels(q)

\* t is, for everybody else, the same session as s.
Stays(s, t) ==
  /\ t.online = s.online /\ t.room = s.room /\ t.sysop = s.sysop /\ t.aide = s.aide
  /\ t.edited = s.edited /\ t.by \cap {"moved", "created"} = s.by \cap {"moved", "created"}

\* Where the elements under the top lie does not depend on it, unless it is the editor.
LEMMA FitsTail ==
  ASSUME NEW S, NEW q \in Seq(S), q # << >>
  PROVE  /\ LiesAt(q, 1) <=> Lies(Head(q), Tail(q))
         /\ \A i \in 1 .. Len(Tail(q)) :
              LiesAt(q, i + 1) <=> \/ i = 1 /\ Head(q) \in Editors /\ q[2] \notin Editors
                                   \/ LiesAt(Tail(q), i)
<1>1. /\ Len(q) \in Nat \ {0} /\ Tail(q) \in Seq(S) /\ Len(Tail(q)) = Len(q) - 1
      /\ q[1] = Head(q)
      /\ \A i \in 1 .. Len(q) - 1 : Tail(q)[i] = q[i + 1]
  BY EmptySeq, HeadTailProperties
<1>2. Rest(q, 1) = Tail(q) /\ \A i \in 1 .. Len(Tail(q)) : Rest(q, i + 1) = Rest(Tail(q), i)
  BY RestTail
<1>3. LiesAt(q, 1) <=> Lies(Head(q), Tail(q))
  <2>1. Lies(q[1], Rest(q, 1)) <=> Lies(Head(q), Tail(q))
    BY <1>1, <1>2, Zenon
  <2>2. LiesAt(q, 1) <=> Lies(q[1], Rest(q, 1))
    BY DEF LiesAt
  <2> QED
    BY <2>1, <2>2
<1>4. ASSUME NEW i \in 1 .. Len(Tail(q))
      PROVE  LiesAt(q, i + 1) <=> \/ i = 1 /\ Head(q) \in Editors /\ q[2] \notin Editors
                                  \/ LiesAt(Tail(q), i)
  <2>1. i \in Nat \ {0} /\ i + 1 > 1 /\ (i + 1) - 1 = i /\ Tail(q)[i] = q[i + 1]
        /\ Rest(q, i + 1) = Rest(Tail(q), i)
    BY <1>1, <1>2
  <2>2. LiesAt(q, i + 1) <=> \/ q[i] \in Editors /\ q[i + 1] \notin Editors
                             \/ Lies(q[i + 1], Rest(q, i + 1))
    BY <2>1 DEF LiesAt
  <2>3. CASE i = 1
    <3>1. LiesAt(Tail(q), i) <=> Lies(q[i + 1], Rest(q, i + 1))
      BY <2>1, <2>3 DEF LiesAt
    <3> QED
      BY <1>1, <2>2, <2>3, <3>1
  <2>4. CASE i # 1
    <3>1. i > 1 /\ i - 1 \in 1 .. Len(q) - 1 /\ (i - 1) + 1 = i
      BY <1>1, <2>1, <2>4
    <3>2. Tail(q)[i - 1] = q[(i - 1) + 1]
      BY <1>1, <3>1
    <3>3. LiesAt(Tail(q), i) <=> \/ q[i] \in Editors /\ q[i + 1] \notin Editors
                                 \/ Lies(q[i + 1], Rest(q, i + 1))
      BY <2>1, <3>1, <3>2 DEF LiesAt
    <3> QED
      BY <2>2, <2>4, <3>3
  <2> QED
    BY <2>3, <2>4
<1> QED
  BY <1>3, <1>4

\* A stack fits when its top lies where it may and the rest fits; under the editor, it is
\* what is under the frame below it.
LEMMA FitsIs ==
  ASSUME NEW S, NEW q \in Seq(S), q # << >>
  PROVE  /\ Fits(q) => Lies(Head(q), Tail(q)) /\ (Head(q) \notin Editors => Fits(Tail(q)))
         /\ Lies(Head(q), Tail(q)) /\ Fits(Tail(q)) => Fits(q)
<1>1. Len(q) \in Nat \ {0} /\ Len(Tail(q)) = Len(q) - 1
  BY EmptySeq, HeadTailProperties
<1>2. /\ LiesAt(q, 1) <=> Lies(Head(q), Tail(q))
      /\ \A i \in 1 .. Len(Tail(q)) :
           LiesAt(q, i + 1) <=> \/ i = 1 /\ Head(q) \in Editors /\ q[2] \notin Editors
                                \/ LiesAt(Tail(q), i)
  BY FitsTail
<1>3. 1 \in 1 .. Len(q) /\ \A i \in 1 .. Len(Tail(q)) : i + 1 \in 1 .. Len(q)
  BY <1>1
<1>4. ASSUME NEW i \in 1 .. Len(q) PROVE i = 1 \/ \E j \in 1 .. Len(Tail(q)) : i = j + 1
  <2> SUFFICES ASSUME i # 1 PROVE i - 1 \in 1 .. Len(Tail(q)) /\ i = (i - 1) + 1
    OBVIOUS
  <2> QED
    BY <1>1
<1>5. Fits(q) => Lies(Head(q), Tail(q)) /\ (Head(q) \notin Editors => Fits(Tail(q)))
  BY <1>2, <1>3 DEF Fits
<1>6. Lies(Head(q), Tail(q)) /\ Fits(Tail(q)) => Fits(q)
  BY <1>2, <1>4 DEF Fits
<1> QED
  BY <1>5, <1>6

\* What is under the frame that the editor keeps fits.
LEMMA FitsKept ==
  ASSUME NEW S, NEW q \in Seq(S), q # << >>, Head(q) \in Editors,
         Tail(q) # << >>, Head(Tail(q)) \notin Editors
  PROVE  /\ Fits(q) => Fits(Tail(Tail(q)))
         /\ Lies(Head(q), Tail(q)) /\ Fits(Tail(Tail(q))) => Fits(q)
<1> DEFINE r == Tail(q)
<1>1. /\ Len(q) \in Nat \ {0} /\ r \in Seq(S) /\ Len(r) \in Nat \ {0}
      /\ Len(r) = Len(q) - 1 /\ Len(Tail(r)) = Len(r) - 1
  BY EmptySeq, HeadTailProperties
<1>2. /\ LiesAt(q, 1) <=> Lies(Head(q), Tail(q))
      /\ \A i \in 1 .. Len(r) :
           LiesAt(q, i + 1) <=> \/ i = 1 /\ Head(q) \in Editors /\ q[2] \notin Editors
                                \/ LiesAt(r, i)
  BY FitsTail
<1>3. \A i \in 1 .. Len(Tail(r)) : LiesAt(r, i + 1) <=> LiesAt(Tail(r), i)
  BY <1>1, FitsTail
<1> HIDE DEF r
<1>4. ASSUME NEW i \in 1 .. Len(Tail(r))
      PROVE  /\ LiesAt(q, (i + 1) + 1) <=> LiesAt(Tail(r), i)
             /\ (i + 1) + 1 \in 1 .. Len(q)
  <2>1. i + 1 \in 1 .. Len(r) /\ i + 1 # 1 /\ (i + 1) + 1 \in 1 .. Len(q)
    BY <1>1
  <2> QED
    BY <1>2, <1>3, <2>1
<1>5. Fits(q) => Fits(Tail(r))
  BY <1>4 DEF Fits
<1>6. ASSUME Lies(Head(q), Tail(q)), Fits(Tail(r)), NEW i \in 1 .. Len(q) PROVE LiesAt(q, i)
  <2>1. CASE i = 1
    BY <1>2, <1>6, <2>1
  <2>2. CASE i = 2
    <3>1. 1 \in 1 .. Len(r) /\ i = 1 + 1
      BY <1>1, <2>2
    <3> QED
      BY <1>2, <3>1
  <2>3. CASE i # 1 /\ i # 2
    <3>1. i - 2 \in 1 .. Len(Tail(r)) /\ i = ((i - 2) + 1) + 1
      BY <1>1, <2>3
    <3>2. LiesAt(Tail(r), i - 2)
      BY <1>6, <3>1 DEF Fits
    <3> QED
      BY <1>4, <3>1, <3>2
  <2> QED
    BY <2>1, <2>2, <2>3
<1>7. Lies(Head(q), Tail(q)) /\ Fits(Tail(r)) => Fits(q)
  BY <1>6 DEF Fits
<1> QED
  BY <1>5, <1>7 DEF r

\* The stack of a connection that was closed, or whose last function returned
LEMMA EmptyFits == Fits(<< >>) /\ Levels(<< >>) = {} /\ First(<< >>) = "none"
<1>1. Levels(<< >>) = {} /\ Len(<< >>) = 0
  BY DEF Levels
<1> QED
  BY <1>1 DEF Fits, First

\* The functions that take an argument, listed
LEMMA TakersAre ==
  /\ \A a \in Args : \A f : f \in Takers(a) => f \in Taking
  /\ Taking = {"boss", "edit_wrapper", "ipaddr_wrapper", "ipmask_wrapper", "comment_wrapper",
               "reboot_password", "shutdown_password", "edit_quicklist",
               "custom_colors", "custom_symbol_colors",
               "old_logs_year", "old_logs_month", "old_logs_files", "feelings_menu",
               "add_feeling", "remove_feeling", "view_feeling", "download_feeling",
               "feelings_prompt", "choose_feeling", "tz_continent", "tz_city",
               "loop_send_msg"}
  /\ Bound = Taking \cup {"edit_text", "save_text", "abort_text"}
<1>1. \A a \in Args : \A f : f \in Takers(a) => f \in Taking
  BY DEF Taking
<1>2. Taking = Takers("flags") \cup Takers("number") \cup Takers("list") \cup Takers("people")
  BY DEF Taking, Args
<1>3. /\ Takers("flags") = {"boss"}
      /\ Takers("number") =
           {"edit_wrapper", "ipaddr_wrapper", "ipmask_wrapper", "comment_wrapper",
            "reboot_password", "shutdown_password", "edit_quicklist",
            "custom_colors", "custom_symbol_colors"}
      /\ Takers("list") =
           {"old_logs_year", "old_logs_month", "old_logs_files", "feelings_menu",
            "add_feeling", "remove_feeling", "view_feeling", "download_feeling",
            "feelings_prompt", "choose_feeling", "tz_continent", "tz_city"}
      /\ Takers("people") = {"loop_send_msg"}
  BY DEF Takers
<1>4. Bound = Taking \cup {"edit_text", "save_text", "abort_text"}
  BY DEF Bound, Editors
<1> QED
  BY <1>1, <1>2, <1>3, <1>4

\* A function that asks nothing of its place may be called from any function that calls.
LEMMA PlainLies ==
  ASSUME NEW f, Plain(f), NEW q, First(q) \notin Never \cup Args
  PROVE  Lies(f, q)
BY DEF Plain, Desked, Lies, Taking

\* The frames that the proofs name are frames.
LEMMA Named == \A f \in
  {"room_prompt", "boss", "scroll_text", "scroll_find_prompt", "scroll_findback_prompt",
   "scroll_text_notfound", "return_menu", "press_any_key", "download_text", "ask_away_reason",
   "lock_password", "edit_text", "save_text", "abort_text", "abort_message", "save_message",
   "abort_roominfo", "save_roominfo", "recipients_err", "dummy", "return_forward",
   "loop_send_mail", "loop_delete_mail", "loop_undelete_mail", "flags"}
  \cup OnPrompt \cup ConfigPrompt \cup Aborts \cup {SaveOf(a) : a \in Aborts} : f \in Frame
BY DEF OnPrompt, ConfigPrompt, Aborts, SaveOf, Frame, Function, Args

\* What may be below the functions of these menus, one by one
LEMMA GroundIs ==
  /\ \A f \in {"sysop_menu", "config_menu", "feelings_prompt", "choose_feeling"} :
       Ground(f) = {"room_prompt", "list"}
  /\ \A f \in OfSysop : Ground(f) = {"room_prompt", "sysop_menu", "list"}
  /\ \A f \in OfFeelings : Ground(f) = {"room_prompt", "sysop_menu", "feelings_menu", "list"}
  /\ \A f \in OfWrapper :
       Ground(f) = {"room_prompt", "sysop_menu", "add_wrapper", "edit_wrapper", "number"}
  /\ \A f \in OfConfig \cup ListMenus : Ground(f) = {"room_prompt", "config_menu"}
  /\ \A f \in ListNames :
       Ground(f) = {"room_prompt", "config_menu", "friendlist_prompt", "enemylist_prompt",
                    "override_menu"}
  /\ \A f \in {"add_category", "remove_category"} :
       Ground(f) = {"room_prompt", "sysop_menu", "categories_menu"}
  /\ Ground("help_files") = {"room_prompt", "sysop_menu", "screens_menu"}
  /\ Ground("screen_action") = {"room_prompt", "sysop_menu", "screens_menu", "help_files"}
  /\ Ground("edit_wrapper") = {"room_prompt", "sysop_menu", "add_wrapper", "number"}
  /\ Ground("tz_continent") = {"room_prompt", "config_menu", "config_timezone", "list"}
  /\ Ground("tz_city") =
       {"room_prompt", "config_menu", "config_timezone", "tz_continent", "list"}
  /\ Ground("config_symbols") = {"room_prompt", "config_menu", "config_terminal"}
  /\ Ground("change_symbols") =
       {"room_prompt", "config_menu", "config_terminal", "config_symbols"}
<1> USE DEF OfSysop, OfFeelings, OfWrapper, OfConfig, ListMenus, ListNames
<1>1. \A f \in {"sysop_menu", "config_menu", "feelings_prompt", "choose_feeling"} :
        Ground(f) = {"room_prompt", "list"}
  BY DEF Ground
<1>2. \A f \in OfSysop : Ground(f) = {"room_prompt", "sysop_menu", "list"}
  BY DEF Ground
<1>3. \A f \in OfFeelings : Ground(f) = {"room_prompt", "sysop_menu", "feelings_menu", "list"}
  BY DEF Ground
<1>4. \A f \in OfWrapper :
        Ground(f) = {"room_prompt", "sysop_menu", "add_wrapper", "edit_wrapper", "number"}
  BY DEF Ground
<1>5. \A f \in OfConfig \cup ListMenus : Ground(f) = {"room_prompt", "config_menu"}
  BY DEF Ground
<1>6. \A f \in ListNames :
        Ground(f) = {"room_prompt", "config_menu", "friendlist_prompt", "enemylist_prompt",
                     "override_menu"}
  BY DEF Ground
<1>7. \A f \in {"add_category", "remove_category"} :
        Ground(f) = {"room_prompt", "sysop_menu", "categories_menu"}
  BY DEF Ground
<1>8. /\ Ground("help_files") = {"room_prompt", "sysop_menu", "screens_menu"}
      /\ Ground("screen_action") = {"room_prompt", "sysop_menu", "screens_menu", "help_files"}
      /\ Ground("edit_wrapper") = {"room_prompt", "sysop_menu", "add_wrapper", "number"}
  BY DEF Ground
<1>9. /\ Ground("tz_continent") = {"room_prompt", "config_menu", "config_timezone", "list"}
      /\ Ground("tz_city") =
           {"room_prompt", "config_menu", "config_timezone", "tz_continent", "list"}
      /\ Ground("config_symbols") = {"room_prompt", "config_menu", "config_terminal"}
      /\ Ground("change_symbols") =
           {"room_prompt", "config_menu", "config_terminal", "config_symbols"}
  BY DEF Ground
<1> QED
  BY <1>1, <1>2, <1>3, <1>4, <1>5, <1>6, <1>7, <1>8, <1>9

\* ConsSeq and FitsIs, for the stacks of sessions
LEMMA Above ==
  ASSUME NEW q \in Seq(Frame), NEW f \in Frame
  PROVE  /\ <<f>> \o q \in Seq(Frame) /\ <<f>> \o q # << >>
         /\ First(<<f>> \o q) = f /\ Head(<<f>> \o q) = f /\ Tail(<<f>> \o q) = q
         /\ Levels(<<f>> \o q) = {f} \cup Levels(q)
         /\ Fits(q) /\ Lies(f, q) => Fits(<<f>> \o q)
<1>1. /\ <<f>> \o q \in Seq(Frame) /\ <<f>> \o q # << >>
      /\ Head(<<f>> \o q) = f /\ Tail(<<f>> \o q) = q
      /\ Levels(<<f>> \o q) = {f} \cup Levels(q)
  BY ConsSeq
<1>2. Fits(q) /\ Lies(f, q) => Fits(<<f>> \o q)
  BY <1>1, FitsIs
<1> QED
  BY <1>1, <1>2 DEF First

\* TailSeq and FitsIs, for the stacks of sessions
LEMMA Below ==
  ASSUME NEW q \in Seq(Frame), q # << >>
  PROVE  /\ Head(q) \in Frame /\ Tail(q) \in Seq(Frame)
         /\ First(q) = Head(q) /\ q = <<Head(q)>> \o Tail(q)
         /\ Levels(q) = {First(q)} \cup Levels(Tail(q))
         /\ Fits(q) => Lies(First(q), Tail(q)) /\ (First(q) \notin Editors => Fits(Tail(q)))
<1>1. /\ Head(q) \in Frame /\ Tail(q) \in Seq(Frame)
      /\ q = <<Head(q)>> \o Tail(q)
      /\ Levels(q) = {Head(q)} \cup Levels(Tail(q))
  BY TailSeq
<1>2. Fits(q) => Lies(Head(q), Tail(q)) /\ (Head(q) \notin Editors => Fits(Tail(q)))
  BY FitsIs
<1> QED
  BY <1>1, <1>2 DEF First

\* What Push does to a session
LEMMA PushFacts ==
  ASSUME NEW s \in Session, NEW f \in Frame
  PROVE  /\ Push(s, f) \in Session /\ Push(s, f).stack = <<f>> \o s.stack
         /\ Push(s, f).key = s.key /\ Same(s, Push(s, f)) /\ LaidOn(Push(s, f), f, s.stack)
         /\ Fits(s.stack) /\ Lies(f, s.stack) => Fits(Push(s, f).stack)
<1>1. s.stack \in Seq(Frame)
  BY DEF Session
<1>2. Push(s, f).stack = <<f>> \o s.stack
  BY DEF Push, Session
<1>3. <<f>> \o s.stack \in Seq(Frame)
  BY <1>1, Above
<1>4. LaidOn(Push(s, f), f, s.stack)
  BY <1>1, <1>2, Above DEF LaidOn
<1>5. Fits(s.stack) /\ Lies(f, s.stack) => Fits(Push(s, f).stack)
  BY <1>1, <1>2, Above
<1>6. Push(s, f) \in Session /\ Push(s, f).key = s.key /\ Same(s, Push(s, f))
  BY <1>3 DEF Push, Same, Session
<1> QED
  BY <1>2, <1>4, <1>5, <1>6

\* What Call does to a session
LEMMA CallFacts ==
  ASSUME NEW s \in Session, NEW f \in Frame
  PROVE  /\ Call(s, f) \in Session /\ Call(s, f).stack = <<f>> \o s.stack
         /\ Call(s, f).key = "init" /\ Same(s, Call(s, f)) /\ LaidOn(Call(s, f), f, s.stack)
         /\ Fits(s.stack) /\ Lies(f, s.stack) => Fits(Call(s, f).stack)
<1>1. /\ Push(s, f) \in Session /\ Push(s, f).stack = <<f>> \o s.stack
      /\ Same(s, Push(s, f)) /\ LaidOn(Push(s, f), f, s.stack)
      /\ Fits(s.stack) /\ Lies(f, s.stack) => Fits(Push(s, f).stack)
  BY PushFacts
<1> HIDE DEF Session
<1>2. Call(s, f) = [Push(s, f) EXCEPT !.key = "init"]
  BY DEF Call
<1>3. Call(s, f) \in Session /\ Call(s, f).stack = Push(s, f).stack /\ Call(s, f).key = "init"
  BY <1>1, <1>2 DEF Session
<1>4. Same(Push(s, f), Call(s, f))
  BY <1>1, <1>2 DEF Session, Same
<1> QED
  BY <1>1, <1>3, <1>4 DEF Same, LaidOn

\* What Pop does to a session
LEMMA PopFacts ==
  ASSUME NEW s \in Session, s.stack # << >>
  PROVE  /\ Pop(s) \in Session /\ Pop(s).stack = Tail(s.stack)
         /\ Pop(s).key = s.key /\ Same(s, Pop(s))
<1>1. s.stack \in Seq(Frame)
  BY DEF Session
<1>2. Tail(s.stack) \in Seq(Frame)
  BY <1>1, Below
<1> QED
  BY <1>2 DEF Pop, Empty, Session, Same

\* JMP is a call from below the function that jumps.
LEMMA JumpIsCall ==
  ASSUME NEW s \in Session, s.stack # << >>, NEW f
  PROVE  Jump(s, f) = Call(Pop(s), f)
BY DEF Jump, Move, Call, Pop, Push, Empty, Session

\* What waiting for a key does to a session
LEMMA WaitFacts ==
  ASSUME NEW s \in Session
  PROVE  /\ Wait(s) \in Session /\ Wait(s).stack = s.stack /\ Wait(s).key = "wait"
         /\ Same(s, Wait(s))
BY DEF Wait, Session, Same

\* What calling the function on top once more does to a session
LEMMA CurrentFacts ==
  ASSUME NEW s \in Session
  PROVE  /\ Current(s) \in Session /\ Current(s).stack = s.stack /\ Current(s).key = "init"
         /\ Same(s, Current(s))
BY DEF Current, Session, Same

\* RET calls what is below, or leaves a session without a function to call.
LEMMA RetFacts ==
  ASSUME NEW s \in Session, s.stack # << >>, NEW k \in {"init", "prompt"}
  PROVE  RetX(s, k) = IF Tail(s.stack) = << >> THEN Wait(Pop(s))
                      ELSE [Pop(s) EXCEPT !.key = k]
<1>1. Pop(s) \in Session /\ Pop(s).stack = Tail(s.stack)
  BY PopFacts
<1> QED
  BY <1>1 DEF RetX, Empty, Wait

\* A session that is ready stays so when a level is pushed where it may lie.
LEMMA ReadyPush ==
  ASSUME NEW s, Ready(s), NEW f \in Frame, f \notin Never \cup Args,
         Lies(f, s.stack), Needs(f, s)
  PROVE  Ready(Push(s, f)) /\ Same(s, Push(s, f)) /\ LaidOn(Push(s, f), f, s.stack)
<1> DEFINE t == Push(s, f)
<1>1. /\ t \in Session /\ t.stack = <<f>> \o s.stack
      /\ Same(s, t) /\ LaidOn(t, f, s.stack)
  BY PushFacts DEF Ready, Sound
<1>2. Fits(t.stack)
  <2>1. s.stack \in Seq(Frame) /\ Fits(s.stack)
    BY DEF Ready, Sound, Session
  <2> QED
    BY <1>1, <2>1, Above
<1> HIDE DEF t
<1>3. DraftKept(t) /\ Made(t) /\ (t.edited => "room_config_menu" \in Levels(t.stack))
  BY <1>1 DEF Ready, Sound, DraftKept, Made, Needs, Same, LaidOn
<1>4. /\ t.harm = "none" /\ First(t.stack) \notin Never \cup Args
      /\ Calm(t) => t.pager = "closed"
      /\ "flags" \in Levels(t.stack) => Both(t)
  BY <1>1 DEF Ready, Same, LaidOn, Calm, Both, Args
<1>5. Ready(t)
  BY <1>1, <1>2, <1>3, <1>4 DEF Ready, Sound
<1> QED
  BY <1>1, <1>5 DEF t

\* The function on top may be called with either of the init keys.
LEMMA ReadyKey ==
  ASSUME NEW s, Ready(s), NEW k \in {"init", "prompt"}
  PROVE  Good([s EXCEPT !.key = k]) /\ Same(s, [s EXCEPT !.key = k])
<1> DEFINE t == [s EXCEPT !.key = k]
<1>1. t \in Session /\ t.stack = s.stack /\ t.key = k /\ Same(s, t)
  <2>1. s \in Session
    BY DEF Ready, Sound
  <2> QED
    BY <2>1 DEF Session, Same
<1> HIDE DEF t
<1>2. Sound(t)
  BY <1>1 DEF Ready, Sound, DraftKept, Made, Same
<1>3. PagerKept(t)
  BY <1>1 DEF Ready, PagerKept, Same, Calm, Never
<1>4. FlagsKept(t)
  BY <1>1 DEF Ready, FlagsKept, Same, Both, Never
<1>5. Idle(t) /\ Caused(t)
  BY <1>1 DEF Ready, Idle, Caused, Same
<1> QED
  BY <1>1, <1>2, <1>3, <1>4, <1>5 DEF Good, t

\* It may be called once more.
LEMMA ReadyCurrent ==
  ASSUME NEW s, Ready(s)
  PROVE  Good(Current(s)) /\ Same(s, Current(s))
BY ReadyKey DEF Current

\* It may wait for a key, the pager and a room prompt with a draft excepted.
LEMMA ReadyWait ==
  ASSUME NEW s, Ready(s), First(s.stack) # "scroll_text",
         First(s.stack) = "room_prompt" => s.draft = "none"
  PROVE  Good(Wait(s)) /\ Same(s, Wait(s))
<1> DEFINE t == Wait(s)
<1>1. t \in Session /\ t.stack = s.stack /\ t.key = "wait" /\ Same(s, t)
  BY WaitFacts DEF Ready, Sound
<1> HIDE DEF t
<1>2. Sound(t)
  BY <1>1 DEF Ready, Sound, DraftKept, Made, Same
<1>3. PagerKept(t)
  BY <1>1 DEF Ready, PagerKept, Same, Calm, Never
<1>4. FlagsKept(t)
  BY <1>1 DEF Ready, FlagsKept, Same, Both, Never
<1>5. Idle(t) /\ Caused(t)
  BY <1>1 DEF Ready, Idle, Caused, Same
<1> QED
  BY <1>1, <1>2, <1>3, <1>4, <1>5 DEF Good, t

\* A level may be left that took no argument and owes no saving of the room.
LEMMA ReadyPop ==
  ASSUME NEW s, Ready(s), s.stack # << >>, First(s.stack) \notin Bound \cup {"return_forward"},
         s.edited => First(s.stack) # "room_config_menu"
  PROVE  Ready(Pop(s)) /\ Same(s, Pop(s)) /\ Pop(s).stack = Tail(s.stack)
<1> DEFINE t == Pop(s)
<1>1. t \in Session /\ t.stack = Tail(s.stack) /\ Same(s, t)
  BY PopFacts DEF Ready, Sound
<1>2. /\ Fits(t.stack) /\ Lies(First(s.stack), t.stack)
      /\ Levels(s.stack) = {First(s.stack)} \cup Levels(t.stack)
  <2>1. s.stack \in Seq(Frame) /\ Fits(s.stack)
    BY DEF Ready, Sound, Session
  <2> QED
    BY <1>1, <2>1, Below DEF Bound
<1> HIDE DEF t
<1>3. DraftKept(t) /\ Made(t) /\ (t.edited => "room_config_menu" \in Levels(t.stack))
  BY <1>1, <1>2 DEF Ready, Sound, DraftKept, Made, Same
<1>4. /\ t.harm = "none" /\ First(t.stack) \notin Never \cup Args
  BY <1>1, <1>2, TakersAre DEF Ready, Same, Lies, Desked, Args
<1>5. /\ Calm(t) => t.pager = "closed"
      /\ "flags" \in Levels(t.stack) => Both(t)
  BY <1>1, <1>2 DEF Ready, Same, Calm, Both
<1> QED
  BY <1>1, <1>2, <1>3, <1>4, <1>5 DEF Ready, Sound, t

\* Such a level may return, with either of the init keys.
LEMMA ReadyRetX ==
  ASSUME NEW s, Ready(s), s.stack # << >>,
         First(s.stack) \notin Bound \cup {"return_forward"},
         s.edited => First(s.stack) # "room_config_menu", NEW k \in {"init", "prompt"}
  PROVE  Good(RetX(s, k)) /\ Same(s, RetX(s, k))
<1>1. Ready(Pop(s)) /\ Same(s, Pop(s)) /\ Pop(s).stack = Tail(s.stack)
  BY ReadyPop
<1>2. RetX(s, k) = IF Tail(s.stack) = << >> THEN Wait(Pop(s)) ELSE [Pop(s) EXCEPT !.key = k]
  BY RetFacts DEF Ready, Sound
<1>3. CASE Tail(s.stack) = << >>
  <2>1. First(Pop(s).stack) = "none"
    BY <1>1, <1>3 DEF First
  <2>2. Good(Wait(Pop(s))) /\ Same(Pop(s), Wait(Pop(s)))
    BY <1>1, <2>1, ReadyWait
  <2> QED
    BY <1>1, <1>2, <1>3, <2>2 DEF Same
<1>4. CASE Tail(s.stack) # << >>
  <2> DEFINE t == [Pop(s) EXCEPT !.key = k]
  <2>1. Good(t) /\ Same(Pop(s), t)
    BY <1>1, ReadyKey
  <2>2. RetX(s, k) = t
    BY <1>2, <1>4
  <2> HIDE DEF t
  <2> QED
    BY <1>1, <2>1, <2>2 DEF Same
<1> QED
  BY <1>3, <1>4

\* It may return with INIT_STATE.
LEMMA ReadyRet ==
  ASSUME NEW s, Ready(s), s.stack # << >>,
         First(s.stack) \notin Bound \cup {"return_forward"},
         s.edited => First(s.stack) # "room_config_menu"
  PROVE  Good(Ret(s)) /\ Same(s, Ret(s))
BY ReadyRetX DEF Ret

\* To be called, unlike to be lain upon, the boss screen is no exception.
LEMMA ReadyCall ==
  ASSUME NEW s, Ready(s), NEW f \in Frame, f \notin Finders \cup Args,
         Lies(f, s.stack), Needs(f, s)
  PROVE  Good(Call(s, f)) /\ Same(s, Call(s, f))
<1> DEFINE t == Call(s, f)
<1>1. /\ t \in Session /\ t.stack = <<f>> \o s.stack /\ t.key = "init"
      /\ Same(s, t) /\ LaidOn(t, f, s.stack)
  BY CallFacts DEF Ready, Sound
<1>2. Fits(t.stack)
  <2>1. s.stack \in Seq(Frame) /\ Fits(s.stack)
    BY DEF Ready, Sound, Session
  <2> QED
    BY <1>1, <2>1, Above
<1> HIDE DEF t
<1>3. DraftKept(t) /\ Made(t) /\ (t.edited => "room_config_menu" \in Levels(t.stack))
  BY <1>1 DEF Ready, Sound, DraftKept, Made, Needs, Same, LaidOn
<1>4. PagerKept(t)
  BY <1>1 DEF Ready, PagerKept, Same, LaidOn, Calm, Finders
<1>5. FlagsKept(t)
  BY <1>1 DEF Ready, FlagsKept, Same, LaidOn, Both, Never, Args
<1>6. Idle(t) /\ Caused(t)
  BY <1>1 DEF Ready, Idle, Caused, Same
<1>7. Sound(t)
  BY <1>1, <1>2, <1>3 DEF Sound
<1> QED
  BY <1>1, <1>4, <1>5, <1>6, <1>7 DEF Good, t

\* It may jump to a function that may lie on what is below it.
LEMMA ReadyJump ==
  ASSUME NEW s, Ready(s), s.stack # << >>, First(s.stack) \notin Bound \cup {"return_forward"},
         s.edited => First(s.stack) # "room_config_menu",
         NEW f \in Frame, f \notin Finders \cup Args, Lies(f, Tail(s.stack)), Needs(f, s)
  PROVE  Good(Jump(s, f)) /\ Same(s, Jump(s, f))
<1>1. Ready(Pop(s)) /\ Same(s, Pop(s)) /\ Pop(s).stack = Tail(s.stack)
  BY ReadyPop
<1>2. Jump(s, f) = Call(Pop(s), f)
  BY JumpIsCall DEF Ready, Sound
<1>3. Needs(f, Pop(s))
  <2>1. Levels(Pop(s).stack) \subseteq Levels(s.stack)
    <3>1. s.stack \in Seq(Frame)
      BY DEF Ready, Sound, Session
    <3>2. Levels(s.stack) = {First(s.stack)} \cup Levels(Tail(s.stack))
      BY <3>1, Below
    <3> QED
      BY <1>1, <3>2
  <2> QED
    BY <1>1, <2>1 DEF Needs, Same
<1>4. Good(Call(Pop(s), f)) /\ Same(Pop(s), Call(Pop(s), f))
  BY <1>1, <1>3, ReadyCall
<1> QED
  BY <1>1, <1>2, <1>4 DEF Same

\* A change of the stack and the key only is nothing to other users.
LEMMA SameStays == ASSUME NEW s, NEW t, Same(s, t) PROVE Stays(s, t)
BY DEF Same, Stays

\* What free_StringIO(usr->text) does to a session
LEMMA FreeFacts ==
  ASSUME NEW s \in Session
  PROVE  /\ FreeText(s) \in Session /\ FreeText(s).stack = s.stack /\ FreeText(s).key = s.key
         /\ Same(s, [FreeText(s) EXCEPT !.pager = s.pager])
         /\ FreeText(s).pager = IF s.pager = "open" THEN "stale" ELSE s.pager
BY DEF FreeText, Session, Same

\* The text may be freed while the pager is not on top.
LEMMA ReadyFree ==
  ASSUME NEW s, Ready(s)
  PROVE  /\ Ready(FreeText(s)) /\ Stays(s, FreeText(s)) /\ FreeText(s).stack = s.stack
         /\ FreeText(s).draft = s.draft /\ FreeText(s).read = s.read
<1> DEFINE t == FreeText(s)
<1>1. /\ t \in Session /\ t.stack = s.stack
      /\ t.pager = IF s.pager = "open" THEN "stale" ELSE s.pager
      /\ t.habit = s.habit /\ t.online = s.online /\ t.room = s.room /\ t.sysop = s.sysop
      /\ t.aide = s.aide /\ t.edited = s.edited /\ t.draft = s.draft /\ t.read = s.read
      /\ t.harm = s.harm /\ t.by = s.by
  <2>1. s \in Session
    BY DEF Ready, Sound
  <2> QED
    BY <2>1 DEF FreeText, Session
<1> HIDE DEF t
<1>2. Ready(t)
  BY <1>1 DEF Ready, Sound, DraftKept, Made, Calm, Both
<1> QED
  BY <1>1, <1>2 DEF Stays, t

\* A text may be paged from any function that may call one.
LEMMA ReadyReadText ==
  ASSUME NEW s, Ready(s)
  PROVE  Good(ReadText(s)) /\ Stays(s, ReadText(s))
<1> DEFINE p == [s EXCEPT !.pager = "open"]
           t == Call(p, "scroll_text")
<1>1. s \in Session /\ s.stack \in Seq(Frame) /\ Fits(s.stack)
  BY DEF Ready, Sound, Session
<1>2. /\ p \in Session /\ p.stack = s.stack /\ p.pager = "open"
      /\ p.habit = s.habit /\ p.online = s.online /\ p.room = s.room /\ p.sysop = s.sysop
      /\ p.aide = s.aide /\ p.edited = s.edited /\ p.draft = s.draft /\ p.read = s.read
      /\ p.harm = s.harm /\ p.by = s.by
  BY <1>1 DEF Session
<1> HIDE DEF p
<1>3. /\ t \in Session /\ t.stack = <<"scroll_text">> \o s.stack /\ t.key = "init"
      /\ Same(p, t) /\ LaidOn(t, "scroll_text", s.stack)
  BY <1>2, CallFacts, Named
<1>4. Fits(t.stack)
  <2>1. Plain("scroll_text")
    BY TakersAre DEF Plain, Desked, OnPrompt, ConfigPrompt, Finders, Editors
  <2>2. Lies("scroll_text", s.stack)
    BY <2>1, PlainLies DEF Ready
  <2> QED
    BY <1>1, <1>3, <2>2, Above, Named
<1> HIDE DEF t
<1>5. Sound(t)
  BY <1>2, <1>3, <1>4 DEF Ready, Sound, DraftKept, Made, Same, LaidOn
<1>6. PagerKept(t)
  BY <1>2, <1>3 DEF PagerKept, Same, LaidOn
<1>7. FlagsKept(t)
  BY <1>2, <1>3 DEF Ready, FlagsKept, Same, LaidOn, Both, Args
<1>8. Idle(t) /\ Caused(t)
  BY <1>2, <1>3 DEF Ready, Idle, Caused, Same, LaidOn
<1>9. Good(t) /\ Stays(s, t)
  BY <1>2, <1>3, <1>5, <1>6, <1>7, <1>8 DEF Good, Same, Stays
<1> QED
  BY <1>9 DEF t, p, ReadText

\* So may a menu.
LEMMA ReadyReadMenu ==
  ASSUME NEW s, Ready(s)
  PROVE  Good(ReadMenu(s)) /\ Stays(s, ReadMenu(s))
<1>1. Lies("return_menu", s.stack)
  <2>1. Plain("return_menu")
    BY TakersAre DEF Plain, Desked, OnPrompt, ConfigPrompt, Finders, Editors
  <2> QED
    BY <2>1, PlainLies DEF Ready
<1>2. Ready(Push(s, "return_menu")) /\ Same(s, Push(s, "return_menu"))
  BY <1>1, ReadyPush, Named DEF Never, Args, Needs
<1>3. /\ Good(ReadText(Push(s, "return_menu")))
      /\ Stays(Push(s, "return_menu"), ReadText(Push(s, "return_menu")))
  BY <1>2, ReadyReadText
<1> QED
  BY <1>2, <1>3 DEF ReadMenu, Stays, Same

\* On the functions that save and abort what is edited, those of the editor may lie.
LEMMA ReadyEditor ==
  ASSUME NEW p, Ready(p), NEW abort \in Aborts, First(p.stack) = SaveOf(abort), NEW f \in Editors,
         NEW t \in Session, Same(p, t), t.stack = <<f>> \o (<<abort>> \o p.stack)
  PROVE  Ready(t) /\ First(t.stack) = f /\ Levels(t.stack) = {f, abort} \cup Levels(p.stack)
<1> DEFINE q == <<abort>> \o p.stack
           w == <<f>> \o q
<1>1. p \in Session /\ p.stack \in Seq(Frame) /\ Fits(p.stack) /\ abort \in Frame /\ f \in Frame
  BY Named DEF Ready, Sound, Session, Editors
<1>2. /\ q \in Seq(Frame) /\ q # << >> /\ First(q) = abort /\ Head(q) = abort
      /\ Tail(q) = p.stack /\ Levels(q) = {abort} \cup Levels(p.stack)
  BY <1>1, Above
<1> HIDE DEF q
<1>3. /\ w \in Seq(Frame) /\ w # << >> /\ First(w) = f /\ Head(w) = f
      /\ Tail(w) = q /\ Levels(w) = {f} \cup Levels(q)
  BY <1>1, <1>2, Above
<1> HIDE DEF w
<1>4. Lies(f, q)
  BY <1>2, TakersAre DEF Lies, Desked, Editors, Aborts, Never, Args, OnPrompt, ConfigPrompt, Finders
<1>5. abort \notin Editors
  BY DEF Aborts, Editors
<1>6. Fits(w)
  BY <1>1, <1>2, <1>3, <1>4, <1>5, FitsKept
<1>7. t.stack = w /\ f \notin Never \cup Args /\ Needs(f, p) /\ Needs(abort, p)
  BY DEF w, q, Editors, Aborts, Never, Args, Needs
<1>8. Levels(t.stack) = {f, abort} \cup Levels(p.stack)
  BY <1>2, <1>3, <1>7
<1>9. DraftKept(t) /\ Made(t) /\ (t.edited => "room_config_menu" \in Levels(t.stack))
  BY <1>8 DEF Ready, Sound, DraftKept, Made, Same, Editors, Aborts
<1>10. /\ t.harm = "none" /\ First(t.stack) \notin Never \cup Args
       /\ Calm(t) => t.pager = "closed"
       /\ "flags" \in Levels(t.stack) => Both(t)
  BY <1>3, <1>7, <1>8 DEF Ready, Same, Calm, Both, Args, Aborts
<1> QED
  BY <1>3, <1>6, <1>7, <1>8, <1>9, <1>10 DEF Ready, Sound

\* The editor is called with the pair of functions that save and abort what is edited.
LEMMA ReadyEditText ==
  ASSUME NEW s, Ready(s), NEW abort \in Aborts, Lies(SaveOf(abort), s.stack)
  PROVE  LET t == EditText(s, SaveOf(abort), abort) IN
         /\ Good(t) /\ Stays(s, t)
         /\ Levels(t.stack) = {"edit_text", abort, SaveOf(abort)} \cup Levels(s.stack)
<1> DEFINE save == SaveOf(abort)
           p == Push(s, save)
           r == Push(p, abort)
           t == Call(r, "edit_text")
<1> HIDE DEF save, p, r, t
<1>1. /\ save \in {"save_message", "save_roominfo", "upload_save", "save_profile", "save_feeling"}
      /\ save \in Frame /\ abort \in Frame /\ "edit_text" \in Frame
  BY Named DEF Aborts, SaveOf, save
<1>2. Ready(p) /\ Same(s, p) /\ LaidOn(p, save, s.stack)
  BY <1>1, ReadyPush DEF Never, Args, Needs, p, save
<1>3. r \in Session /\ r.stack = <<abort>> \o p.stack /\ Same(p, r)
  BY <1>1, <1>2, PushFacts DEF r, Ready, Sound
<1>4. t \in Session /\ t.stack = <<"edit_text">> \o r.stack /\ Same(r, t) /\ t.key = "init"
  BY <1>1, <1>3, CallFacts DEF t
<1>5. Ready(t) /\ Levels(t.stack) = {"edit_text", abort} \cup Levels(p.stack)
  <2>1. /\ Same(p, t) /\ t.stack = <<"edit_text">> \o (<<abort>> \o p.stack)
        /\ First(p.stack) = SaveOf(abort) /\ "edit_text" \in Editors
    BY <1>2, <1>3, <1>4 DEF LaidOn, Same, Editors, save
  <2> QED
    BY <1>2, <1>4, <2>1, ReadyEditor
<1>6. Current(t) = t
  BY <1>4 DEF Current, Session
<1>7. Good(t) /\ Stays(s, t)
  BY <1>2, <1>3, <1>4, <1>5, <1>6, ReadyCurrent DEF Same, Stays
<1>8. Levels(t.stack) = {"edit_text", abort, save} \cup Levels(s.stack)
  BY <1>2, <1>5 DEF LaidOn
<1> QED
  BY <1>7, <1>8 DEF EditText, p, r, t, save

------------------------------------------------------------------------------
\* The rooms, the lists of who is inside, and the privileges, as they are to a session
\* s of u
Placed(s, u) ==
  /\ "moved" \in s.by => s.room = "lobby" \/ "created" \in s.by
  /\ "created" \notin s.by =>
       \A r \in Public :
         listed[r][u] = IF s.online /\ s.room = r /\ "moved" \notin s.by THEN 1 ELSE 0
  /\ s.sysop => u \in Sysops
  /\ s.online =>
       /\ Exists(s.room)
       /\ s.aide /\ ~s.sysop => IsAide(u, s.room) \/ "moved" \in s.by
       /\ s.room = "club" /\ KickedFrom(u, "club") => u \in Sysops

\* The inductive invariant of the rooms' menus
IInv ==
  /\ TypeOK /\ rooms["lobby"].alive
  /\ \A u \in User : Placed(us[u], u) /\ Caused(us[u]) /\ (us[u].online => Good(us[u]))

\* What a step does to somebody who changes his room, or has done so and not saved it
EditsKeptStep ==
  \A u \in User, r \in Public :
    /\ u \notin rooms[r].owed \/ (us[u].edited /\ us[u].room = r)
    /\ u \in rooms'[r].owed /\ us'[u].online
    => us'[u].edited /\ (us'[u].room = r \/ "thrown" \in us'[u].by)

Kept == IInv' /\ EditsKeptStep

\* What the invariant says of a session whose function on top is called
LEMMA CalledFacts ==
  ASSUME IInv, NEW u \in User, NEW f, NEW k, Called(u, f, k)
  PROVE  /\ us[u] \in Session /\ us[u].online /\ us[u].key = k /\ us[u].harm = "none"
         /\ us[u].stack # << >> /\ First(us[u].stack) = f /\ Good(us[u])
<1>1. us[u] \in Session /\ (us[u].online => Good(us[u]))
  BY DEF IInv, TypeOK
<1> QED
  BY <1>1 DEF Called, Running, Top, First

\* What the invariant says of a session whose function on top gets a key
LEMMA KeyedFacts ==
  ASSUME IInv, NEW u \in User, NEW f, Keyed(u, f)
  PROVE  /\ us[u] \in Session /\ us[u].online /\ us[u].key = "wait" /\ us[u].harm = "none"
         /\ us[u].stack # << >> /\ First(us[u].stack) = f /\ Good(us[u])
<1>1. us[u] \in Session /\ (us[u].online => Good(us[u]))
  BY DEF IInv, TypeOK
<1> QED
  BY <1>1 DEF Keyed, Quiet, Running, Top, First

\* What lies under the top of a stack
LEMMA TopFits ==
  ASSUME NEW s, s \in Session, Fits(s.stack), s.stack # << >>
  PROVE  /\ Lies(First(s.stack), Tail(s.stack))
         /\ First(s.stack) \notin Editors => Fits(Tail(s.stack))
         /\ Levels(s.stack) = {First(s.stack)} \cup Levels(Tail(s.stack))
<1>1. s.stack \in Seq(Frame)
  BY DEF Session
<1> QED
  BY <1>1, Below

\* A session in which nothing has gone wrong is ready when the function on top leaves
\* the pager and the boss screen alone.
LEMMA GoodReady ==
  ASSUME NEW s, Good(s), s.harm = "none", s.stack # << >>,
         First(s.stack) \notin Never \cup Args \cup Finders \cup {"scroll_text"}
  PROVE  Ready(s)
<1>1. s \in Session /\ s.pager \in {"closed", "open", "stale"}
  BY DEF Good, Sound, Session
<1>2. Calm(s) => s.pager = "closed"
  BY <1>1 DEF Good, PagerKept, Never
<1>3. "flags" \in Levels(s.stack) => Both(s)
  BY <1>1 DEF Good, FlagsKept, Never
<1> QED
  BY <1>1, <1>2, <1>3 DEF Good, Ready

\* GoodReady, of a function that is called
LEMMA CalledReady ==
  ASSUME IInv, NEW u \in User, NEW f, NEW k, Called(u, f, k),
         f \notin Never \cup Args \cup Finders \cup {"scroll_text"}
  PROVE  /\ Ready(us[u]) /\ us[u].stack # << >> /\ First(us[u].stack) = f
         /\ Lies(f, Tail(us[u].stack)) /\ us[u].online /\ us[u].key = k
         /\ Levels(us[u].stack) = {f} \cup Levels(Tail(us[u].stack))
BY CalledFacts, GoodReady, TopFits DEF Good, Sound

\* GoodReady, of a function that gets a key
LEMMA KeyedReady ==
  ASSUME IInv, NEW u \in User, NEW f, Keyed(u, f),
         f \notin Never \cup Args \cup Finders \cup {"scroll_text"}
  PROVE  /\ Ready(us[u]) /\ us[u].stack # << >> /\ First(us[u].stack) = f
         /\ Lies(f, Tail(us[u].stack)) /\ us[u].online /\ us[u].key = "wait"
         /\ Levels(us[u].stack) = {f} \cup Levels(Tail(us[u].stack))
BY KeyedFacts, GoodReady, TopFits DEF Good, Sound

\* Who stays where he is is placed as he was.
LEMMA PlacedStays ==
  ASSUME NEW s, NEW t, NEW u, Stays(s, t), Placed(s, u)
  PROVE  Placed(t, u)
BY DEF Placed, Stays

\* A handler that touches only its own user's session, which remains where it is
LEMMA DoKept ==
  ASSUME IInv, NEW u \in User, NEW S, Do(u, S), us[u].online,
         \A t \in S : Good(t) /\ Stays(us[u], t)
  PROVE  Kept
<1>1. PICK t \in S : us' = [us EXCEPT ![u] = t]
  BY DEF Do
<1>2. Good(t) /\ Stays(us[u], t) /\ t \in Session
  BY DEF Good, Sound
<1>3. us \in [User -> Session] /\ us' \in [User -> Session]
  BY <1>1, <1>2 DEF IInv, TypeOK
<1>4. \A v \in User : us'[v] = IF v = u THEN t ELSE us[v]
  BY <1>1, <1>3
<1>5. UNCHANGED <<rooms, listed>>
  BY DEF Do
<1>6. TypeOK' /\ rooms'["lobby"].alive
  BY <1>3, <1>5 DEF TypeOK, IInv
<1>7. ASSUME NEW v \in User
      PROVE  Placed(us[v], v)' /\ Caused(us[v])' /\ (us[v].online => Good(us[v]))'
  <2>1. Placed(us'[v], v)
    BY <1>2, <1>4, PlacedStays DEF IInv
  <2>2. Placed(us[v], v)'
    BY <1>5, <2>1 DEF Placed, Exists, IsAide, KickedFrom
  <2>3. Caused(us[v])' /\ (us[v].online => Good(us[v]))'
    BY <1>2, <1>4 DEF IInv, Good
  <2> QED
    BY <2>2, <2>3
<1>8. IInv'
  BY <1>6, <1>7 DEF IInv
<1>9. EditsKeptStep
  BY <1>2, <1>4, <1>5 DEF EditsKeptStep, Stays
<1> QED
  BY <1>8, <1>9 DEF Kept

------------------------------------------------------------------------------
\* A harm that has its cause leaves a session as good as it was.
LEMMA HarmGood ==
  ASSUME NEW s, Good(s), s.harm = "none", s.key = "wait" \/ First(s.stack) = "flags",
         NEW h \in {"null_message", "freed_text", "raw_frame"},
         h = "null_message" =>
           "thrown" \in s.by \/ ("missing" \in s.by /\ First(s.stack) = "room_prompt"),
         h = "freed_text" => ~Calm(s),
         h = "raw_frame" => Both(s)
  PROVE  Good(Harm(s, h)) /\ Stays(s, Harm(s, h))
<1> DEFINE t == Harm(s, h)
<1>1. /\ t \in Session /\ t.stack = s.stack /\ t.key = "wait" /\ t.harm = h
      /\ t.habit = s.habit /\ t.online = s.online /\ t.room = s.room /\ t.sysop = s.sysop
      /\ t.aide = s.aide /\ t.edited = s.edited /\ t.draft = s.draft /\ t.read = s.read
      /\ t.pager = s.pager /\ t.by = s.by
  <2>1. s \in Session
    BY DEF Good, Sound
  <2> QED
    BY <2>1 DEF Harm, Wait, Session
<1> HIDE DEF t
<1>2. Sound(t)
  BY <1>1 DEF Good, Sound, DraftKept, Made
<1>3. PagerKept(t)
  BY <1>1 DEF Good, PagerKept, Calm
<1>4. FlagsKept(t)
  BY <1>1 DEF Good, FlagsKept, Both
<1>5. Idle(t) /\ Caused(t)
  BY <1>1 DEF Good, Idle, Caused, Calm, Both
<1> QED
  BY <1>1, <1>2, <1>3, <1>4, <1>5 DEF Good, Stays, t

\* A handler that only asks its question preserves the invariant.
LEMMA AsksKept ==
  ASSUME IInv, NEW u \in User, NEW f, Asks(u, f),
         f \notin Never \cup Args \cup Finders \cup {"scroll_text", "room_prompt"}
  PROVE  Kept
<1>1. Called(u, f, "init") /\ Do(u, {Wait(us[u])})
  BY DEF Asks
<1>2. Ready(us[u]) /\ First(us[u].stack) = f /\ us[u].online
  BY <1>1, CalledReady
<1>3. Good(Wait(us[u])) /\ Stays(us[u], Wait(us[u]))
  BY <1>2, ReadyWait, SameStays
<1> QED
  BY <1>1, <1>2, <1>3, DoKept

\* What a function of the pager makes of a session
LEMMA PagerGood ==
  ASSUME NEW s, Good(s), s.harm = "none", First(s.stack) \in Finders \cup {"scroll_text"},
         NEW t \in Session, Same(s, t), Fits(t.stack),
         First(t.stack) \in Finders \cup {"scroll_text", "boss"},
         \A x : x \notin Finders \cup {"scroll_text", "boss"} =>
           (x \in Levels(t.stack) <=> x \in Levels(s.stack)),
         First(t.stack) = "boss" => t.key = "init",
         (First(t.stack) = "scroll_text" /\ t.key = "wait")
           \/ First(t.stack) = "scroll_findback_prompt" => (Calm(s) => s.pager = "open")
  PROVE  Good(t) /\ Stays(s, t)
<1>1. \A x \in {"post_as_anon", "enter_subject", "forward_room", "return_forward", "delete_msg",
               "undelete_msg", "room_config_menu", "flags", "sysop_menu"} :
        x \in Levels(t.stack) <=> x \in Levels(s.stack)
  BY DEF Finders
<1>2. Sound(t)
  BY <1>1 DEF Good, Sound, DraftKept, Made, Same
<1>3. PagerKept(t)
  BY DEF Good, PagerKept, Same, Calm
<1>4. FlagsKept(t)
  BY <1>1 DEF Good, FlagsKept, Same, Both, Finders, Args
<1>5. Idle(t) /\ Caused(t)
  BY DEF Good, Idle, Caused, Same, Finders
<1> QED
  BY <1>2, <1>3, <1>4, <1>5, SameStays DEF Good

\* state_scroll_text preserves the invariant.
LEMMA StateScrollTextKept ==
  ASSUME IInv, NEW u \in User, StateScrollText(u)
  PROVE  Kept
<1> DEFINE s == us[u]
           Over == Ret([s EXCEPT !.pager = "closed"])
<1>1. CASE /\ Called(u, "scroll_text", "init")
           /\ Do(u, {IF s.pager = "closed" THEN Ret(s) ELSE Wait(s)})
  <2>1. /\ s \in Session /\ s.online /\ s.key = "init" /\ s.harm = "none"
        /\ s.stack # << >> /\ First(s.stack) = "scroll_text" /\ Good(s)
    BY <1>1, CalledFacts
  <2> HIDE DEF s
  <2>2. CASE s.pager = "closed"
    <3>1. Ready(s)
      BY <2>1, <2>2 DEF Good, Ready, FlagsKept, Never, Args
    <3>2. Good(Ret(s)) /\ Same(s, Ret(s))
      BY <2>1, <3>1, ReadyRet, TakersAre
    <3>3. Do(u, {Ret(s)})
      BY <1>1, <2>2
    <3> QED
      BY <2>1, <3>2, <3>3, DoKept, SameStays DEF s
  <2>3. CASE s.pager # "closed"
    <3>1. /\ Wait(s) \in Session /\ Wait(s).stack = s.stack /\ Wait(s).key = "wait"
          /\ Same(s, Wait(s))
      BY <2>1, WaitFacts
    <3>2. Calm(s) => s.pager = "open"
      BY <2>1, <2>3 DEF Good, PagerKept, Session
    <3>3. Fits(s.stack)
      BY <2>1 DEF Good, Sound
    <3>4. Good(Wait(s)) /\ Stays(s, Wait(s))
      BY <2>1, <3>1, <3>2, <3>3, PagerGood DEF Finders
    <3>5. Do(u, {Wait(s)})
      BY <1>1, <2>3
    <3> QED
      BY <2>1, <3>4, <3>5, DoKept DEF s
  <2> QED
    BY <2>2, <2>3
<1>2. ASSUME Keyed(u, "scroll_text")
      PROVE  /\ s \in Session /\ s.online /\ s.key = "wait" /\ s.harm = "none"
             /\ s.stack # << >> /\ First(s.stack) = "scroll_text" /\ Good(s) /\ Fits(s.stack)
  BY <1>2, KeyedFacts DEF Good, Sound
<1>3. CASE Keyed(u, "scroll_text") /\ s.pager = "stale" /\ Do(u, {Harm(s, "freed_text")})
  <2>1. Good(Harm(s, "freed_text")) /\ Stays(s, Harm(s, "freed_text"))
    BY <1>2, <1>3, HarmGood DEF Good, PagerKept
  <2> QED
    BY <1>2, <1>3, <2>1, DoKept
<1>4. CASE /\ Keyed(u, "scroll_text")
           /\ Do(u, {Call(s, f) : f \in {"boss", "scroll_find_prompt", "scroll_findback_prompt"}})
  <2>1. ASSUME NEW f \in {"boss", "scroll_find_prompt", "scroll_findback_prompt"}
        PROVE  Good(Call(s, f)) /\ Stays(s, Call(s, f))
    <3> DEFINE t == Call(s, f)
    <3>1. f \in Frame
      BY Named
    <3>2. /\ t \in Session /\ t.stack = <<f>> \o s.stack /\ t.key = "init"
          /\ Same(s, t) /\ LaidOn(t, f, s.stack)
          /\ Lies(f, s.stack) => Fits(t.stack)
      BY <1>2, <1>4, <3>1, CallFacts
    <3> HIDE DEF t
    <3>3. Lies(f, s.stack)
      BY <1>2, <1>4, TakersAre
         DEF Lies, Desked, Finders, Never, Args, OnPrompt, ConfigPrompt, Editors
    <3>4. Fits(t.stack)
      BY <3>2, <3>3
    <3>5. Calm(s) => s.pager = "open"
      BY <1>2, <1>4 DEF Good, PagerKept
    <3>6. Good(t) /\ Stays(s, t)
      BY <1>2, <1>4, <3>2, <3>4, <3>5, PagerGood DEF Finders, LaidOn
    <3> QED
      BY <3>6 DEF t
  <2> QED
    BY <1>2, <1>4, <2>1, DoKept
<1>5. CASE Keyed(u, "scroll_text") /\ Do(u, {Over})
  <2> DEFINE p == [s EXCEPT !.pager = "closed"]
  <2>1. /\ p \in Session /\ p.stack = s.stack /\ p.pager = "closed"
        /\ p.habit = s.habit /\ p.online = s.online /\ p.room = s.room /\ p.sysop = s.sysop
        /\ p.aide = s.aide /\ p.edited = s.edited /\ p.draft = s.draft /\ p.read = s.read
        /\ p.harm = s.harm /\ p.by = s.by
    BY <1>2, <1>5 DEF Session
  <2> HIDE DEF p
  <2>2. Ready(p)
    BY <1>2, <1>5, <2>1 DEF Good, Ready, Sound, DraftKept, Made, FlagsKept, Both, Never, Args
  <2>3. Good(Ret(p)) /\ Same(p, Ret(p))
    BY <1>2, <1>5, <2>1, <2>2, ReadyRet, TakersAre
  <2>4. Good(Over) /\ Stays(s, Over)
    BY <2>1, <2>3 DEF Same, Stays, p
  <2> QED
    BY <1>2, <1>5, <2>4, DoKept
<1> QED
  BY <1>1, <1>3, <1>4, <1>5 DEF StateScrollText

\* The results of the functions that search in a text
LEMMA FinderKept ==
  ASSUME IInv, NEW u \in User, NEW f \in Finders, Keyed(u, f)
  PROVE  LET s == us[u]
             t == Call(Move(s, "scroll_text"), "scroll_text_notfound")
         IN  /\ Good(Ret(s)) /\ Stays(s, Ret(s))
             /\ Good(t) /\ Stays(s, t)
             /\ us[u].pager # "open" /\ (f = "scroll_findback_prompt" \/ us[u].pager = "stale") =>
                  Good(Harm(s, "freed_text")) /\ Stays(s, Harm(s, "freed_text"))
<1> DEFINE s == us[u]
           q == Tail(s.stack)
           m == Push(Pop(s), "scroll_text")
           t == Call(m, "scroll_text_notfound")
<1>1. /\ s \in Session /\ s.online /\ s.key = "wait" /\ s.harm = "none"
      /\ s.stack # << >> /\ First(s.stack) = f /\ Good(s) /\ Fits(s.stack)
  BY KeyedFacts DEF Good, Sound
<1> HIDE DEF s
<1>2. /\ Lies(f, q) /\ Fits(q) /\ Levels(s.stack) = {f} \cup Levels(q)
      /\ q \in Seq(Frame) /\ First(q) = "scroll_text"
  <2>1. s.stack \in Seq(Frame) /\ f \notin Editors
    BY <1>1 DEF Session, Editors, Finders
  <2> QED
    BY <1>1, <2>1, Below DEF Lies
<1>3. q # << >>
  BY <1>2 DEF First
<1>4. Pop(s) \in Session /\ Pop(s).stack = q /\ Same(s, Pop(s))
  BY <1>1, PopFacts
<1> HIDE DEF q
<1>5. Good(Ret(s)) /\ Stays(s, Ret(s))
  <2>1. Ret(s) = Current(Pop(s))
    BY <1>1, <1>3, RetFacts DEF Ret, Current, q
  <2>2. /\ Current(Pop(s)) \in Session /\ Current(Pop(s)).stack = q
        /\ Current(Pop(s)).key = "init" /\ Same(Pop(s), Current(Pop(s)))
    BY <1>4, CurrentFacts
  <2> DEFINE r == Current(Pop(s))
  <2>3. Same(s, r)
    BY <1>4, <2>2 DEF Same
  <2> HIDE DEF r
  <2>4. Good(r) /\ Stays(s, r)
    BY <1>1, <1>2, <2>2, <2>3, PagerGood DEF r, Finders
  <2> QED
    BY <2>1, <2>4 DEF r
<1>6. /\ m \in Session /\ m.stack = <<"scroll_text">> \o q /\ m.key = s.key
      /\ Same(Pop(s), m) /\ LaidOn(m, "scroll_text", q) /\ Fits(m.stack)
  <2>1. Lies("scroll_text", q)
    <3>1. Plain("scroll_text")
      BY TakersAre DEF Plain, Desked, OnPrompt, ConfigPrompt, Finders, Editors
    <3> QED
      BY <1>2, <3>1, PlainLies DEF Never, Args
  <2>2. "scroll_text" \in Frame
    BY Named
  <2>3. Fits(<<"scroll_text">> \o q)
    BY <1>2, <2>1, <2>2, Above
  <2>4. /\ m \in Session /\ m.stack = <<"scroll_text">> \o q /\ m.key = Pop(s).key
        /\ Same(Pop(s), m) /\ LaidOn(m, "scroll_text", q)
    BY <1>4, <2>2, PushFacts
  <2>5. Pop(s).key = s.key
    BY <1>1, PopFacts
  <2> QED
    BY <2>3, <2>4, <2>5
<1> HIDE DEF m
<1>7. Good(t) /\ Stays(s, t)
  <2>1. Lies("scroll_text_notfound", m.stack)
    BY <1>6, TakersAre DEF LaidOn, Lies, Desked, Never, Args, OnPrompt, ConfigPrompt, Finders, Editors
  <2>2. "scroll_text_notfound" \in Frame /\ m.stack \in Seq(Frame)
    BY <1>6, Named DEF Session
  <2>3. /\ t \in Session /\ t.stack = <<"scroll_text_notfound">> \o m.stack /\ t.key = "init"
        /\ Same(m, t) /\ LaidOn(t, "scroll_text_notfound", m.stack)
    BY <1>6, <2>2, CallFacts
  <2>4. Fits(<<"scroll_text_notfound">> \o m.stack)
    BY <1>6, <2>1, <2>2, Above
  <2> HIDE DEF t
  <2>5. Fits(t.stack) /\ Same(s, t)
    BY <1>4, <1>6, <2>3, <2>4 DEF Same
  <2>6. Levels(t.stack) = {"scroll_text_notfound", "scroll_text"} \cup Levels(q)
    BY <1>6, <2>3 DEF LaidOn
  <2>7. Good(t) /\ Stays(s, t)
    BY <1>1, <1>2, <2>3, <2>5, <2>6, PagerGood DEF LaidOn, Finders
  <2> QED
    BY <2>7
<1>8. Call(Move(s, "scroll_text"), "scroll_text_notfound") = t
  BY <1>1 DEF t, m, Move, Push, Pop, Empty, Session
<1>9. ASSUME s.pager # "open", f = "scroll_findback_prompt" \/ s.pager = "stale"
      PROVE  Good(Harm(s, "freed_text")) /\ Stays(s, Harm(s, "freed_text"))
  <2>1. ~Calm(s)
    BY <1>1, <1>9 DEF Good, PagerKept
  <2> QED
    BY <1>1, <2>1, HarmGood
<1> QED
  BY <1>5, <1>7, <1>8, <1>9 DEF s

\* The questions of the functions that search in a text
LEMMA FinderAsksKept ==
  ASSUME IInv, NEW u \in User, NEW f \in Finders, Asks(u, f)
  PROVE  Kept
<1> DEFINE s == us[u]
<1>1. Called(u, f, "init") /\ Do(u, {Wait(s)})
  BY DEF Asks
<1>2. /\ s \in Session /\ s.online /\ s.key = "init" /\ s.harm = "none"
      /\ s.stack # << >> /\ First(s.stack) = f /\ Good(s)
  BY <1>1, CalledFacts
<1> HIDE DEF s
<1>3. /\ Wait(s) \in Session /\ Wait(s).stack = s.stack /\ Wait(s).key = "wait"
      /\ Same(s, Wait(s))
  BY <1>2, WaitFacts
<1>4. /\ Fits(s.stack)
      /\ f = "scroll_findback_prompt" => (Calm(s) => s.pager = "open")
  BY <1>2 DEF Good, Sound, PagerKept
<1>5. Good(Wait(s)) /\ Stays(s, Wait(s))
  BY <1>2, <1>3, <1>4, PagerGood DEF Finders
<1> QED
  BY <1>1, <1>2, <1>5, DoKept DEF s

\* The functions that search in a text preserve the invariant.
LEMMA FindersKept ==
  ASSUME IInv, NEW u \in User,
         StateScrollFindPrompt(u) \/ StateScrollFindbackPrompt(u) \/ StateScrollTextNotfound(u)
  PROVE  Kept
<1> DEFINE s == us[u]
           t == Call(Move(s, "scroll_text"), "scroll_text_notfound")
<1>1. CASE \E f \in Finders : Asks(u, f)
  BY <1>1, FinderAsksKept
<1>2. ASSUME NEW f \in Finders, Keyed(u, f)
      PROVE  /\ Good(Ret(s)) /\ Stays(s, Ret(s)) /\ s.online
             /\ Good(t) /\ Stays(s, t)
             /\ s.pager # "open" /\ (f = "scroll_findback_prompt" \/ s.pager = "stale") =>
                  Good(Harm(s, "freed_text")) /\ Stays(s, Harm(s, "freed_text"))
  BY <1>2, FinderKept, KeyedFacts
<1> HIDE DEF t
<1>3. CASE StateScrollFindPrompt(u)
  <2> SUFFICES ASSUME Keyed(u, "scroll_find_prompt"),
                      Do(u, IF s.pager = "stale" THEN {Harm(s, "freed_text")} ELSE {Ret(s), t})
               PROVE  Kept
    BY <1>1, <1>3 DEF StateScrollFindPrompt, Finders, t
  <2>1. /\ Good(Ret(s)) /\ Stays(s, Ret(s)) /\ s.online /\ Good(t) /\ Stays(s, t)
        /\ s.pager = "stale" => Good(Harm(s, "freed_text")) /\ Stays(s, Harm(s, "freed_text"))
    BY <1>2 DEF Finders
  <2> QED
    BY <2>1, DoKept
<1>4. CASE StateScrollFindbackPrompt(u)
  <2> SUFFICES ASSUME Keyed(u, "scroll_findback_prompt"),
                      Do(u, IF s.pager # "open" THEN {Harm(s, "freed_text")} ELSE {Ret(s), t})
               PROVE  Kept
    BY <1>1, <1>4 DEF StateScrollFindbackPrompt, Finders, t
  <2>1. /\ Good(Ret(s)) /\ Stays(s, Ret(s)) /\ s.online /\ Good(t) /\ Stays(s, t)
        /\ s.pager # "open" => Good(Harm(s, "freed_text")) /\ Stays(s, Harm(s, "freed_text"))
    BY <1>2 DEF Finders
  <2> QED
    BY <2>1, DoKept
<1>5. CASE StateScrollTextNotfound(u)
  <2> SUFFICES ASSUME Keyed(u, "scroll_text_notfound"),
                      Do(u, {IF s.pager = "stale" THEN Harm(s, "freed_text") ELSE Ret(s)})
               PROVE  Kept
    BY <1>1, <1>5 DEF StateScrollTextNotfound, Finders
  <2>1. /\ Good(Ret(s)) /\ Stays(s, Ret(s)) /\ s.online
        /\ s.pager = "stale" => Good(Harm(s, "freed_text")) /\ Stays(s, Harm(s, "freed_text"))
    BY <1>2 DEF Finders
  <2> QED
    BY <2>1, DoKept
<1> QED
  BY <1>3, <1>4, <1>5

\* A handler that only returns preserves the invariant.
LEMMA ReturnsKept ==
  ASSUME IInv, NEW u \in User, NEW f, Keyed(u, f), Do(u, {Ret(us[u])}),
         f \notin Never \cup Args \cup Finders \cup Bound
                   \cup {"scroll_text", "return_forward", "room_config_menu"}
  PROVE  Kept
<1>1. Ready(us[u]) /\ us[u].stack # << >> /\ First(us[u].stack) = f /\ us[u].online
  BY KeyedReady
<1>2. Good(Ret(us[u])) /\ Stays(us[u], Ret(us[u]))
  BY <1>1, ReadyRet, SameStays
<1> QED
  BY <1>1, <1>2, DoKept

\* state_boss preserves the invariant.
LEMMA StateBossKept ==
  ASSUME IInv, NEW u \in User, StateBoss(u)
  PROVE  Kept
<1> DEFINE s == us[u]
           q == Tail(s.stack)
           a == Push(Pop(s), "flags")
           b == Push(a, "boss")
           p == Wait(b)
           x == PopArg(s)
<1>1. CASE /\ Called(u, "boss", "init")
           /\ Do(u, {[t EXCEPT !.by = @ \cup {"boss"}] : t \in {p, FreeText(p)}})
  <2>1. /\ s \in Session /\ s.online /\ s.key = "init" /\ s.harm = "none"
        /\ s.stack # << >> /\ First(s.stack) = "boss" /\ Good(s)
    BY <1>1, CalledFacts
  <2>2. /\ Lies("boss", q) /\ Fits(q) /\ Levels(s.stack) = {"boss"} \cup Levels(q)
        /\ q \in Seq(Frame)
    <3>1. s.stack \in Seq(Frame) /\ Fits(s.stack) /\ "boss" \notin Editors
      BY <2>1 DEF Session, Good, Sound, Editors
    <3> QED
      BY <2>1, <3>1, Below
  <2>3. Pop(s) \in Session /\ Pop(s).stack = q /\ Same(s, Pop(s))
    BY <2>1, PopFacts
  <2> HIDE DEF s, q
  <2>4. /\ a \in Session /\ a.stack = <<"flags">> \o q
        /\ Same(Pop(s), a) /\ LaidOn(a, "flags", q) /\ Fits(a.stack)
    <3>1. Lies("flags", q)
      <4>1. First(q) \in Args => First(q) = "flags"
        BY <2>2, TakersAre DEF Lies, Desked, Args, Takers
      <4>2. "flags" \notin Bound
        BY TakersAre
      <4> QED
        BY <2>2, <4>1, <4>2, TakersAre DEF Lies, Desked, OnPrompt, ConfigPrompt, Finders, Editors
    <3> QED
      BY <2>2, <2>3, <3>1, PushFacts, Named
  <2> HIDE DEF a
  <2>5. /\ b \in Session /\ b.stack = <<"boss">> \o a.stack
        /\ Same(a, b) /\ LaidOn(b, "boss", a.stack) /\ Fits(b.stack)
    <3>1. Lies("boss", a.stack)
      BY <2>4 DEF LaidOn, Lies, Desked, Never, Args, Takers, OnPrompt, ConfigPrompt, Finders, Editors
    <3> QED
      BY <2>4, <3>1, PushFacts, Named
  <2> HIDE DEF b
  <2>6. /\ p \in Session /\ p.stack = b.stack /\ p.key = "wait" /\ Same(s, p)
    BY <2>3, <2>4, <2>5, WaitFacts DEF Same
  <2>7. /\ First(p.stack) = "boss" /\ First(Tail(p.stack)) = "flags"
        /\ Tail(Tail(p.stack)) = q /\ Levels(p.stack) = {"boss", "flags"} \cup Levels(q)
        /\ Fits(p.stack)
    BY <2>4, <2>5, <2>6 DEF LaidOn
  <2> HIDE DEF p
  <2>8. ASSUME NEW g \in {"closed", "open", "stale"},
               NEW t, t = [[p EXCEPT !.pager = g] EXCEPT !.by = @ \cup {"boss"}]
        PROVE  Good(t) /\ Stays(s, t)
    <3>1. /\ t \in Session /\ t.stack = p.stack /\ t.key = "wait" /\ t.pager = g
          /\ t.habit = s.habit /\ t.online = s.online /\ t.room = s.room /\ t.sysop = s.sysop
          /\ t.aide = s.aide /\ t.edited = s.edited /\ t.draft = s.draft /\ t.read = s.read
          /\ t.harm = s.harm /\ t.by = s.by \cup {"boss"}
      BY <2>6, <2>8 DEF Session, Same
    <3>2. Sound(t)
      BY <2>1, <2>2, <2>7, <3>1 DEF Good, Sound, DraftKept, Made
    <3>3. PagerKept(t)
      BY <3>1 DEF PagerKept, Calm
    <3>4. FlagsKept(t)
      BY <2>1, <2>2, <2>7, <3>1 DEF Good, FlagsKept, Both, Args
    <3>5. Idle(t) /\ Caused(t)
      BY <2>1, <2>7, <3>1 DEF Idle, Caused
    <3> QED
      BY <3>1, <3>2, <3>3, <3>4, <3>5 DEF Good, Stays
  <2>9. /\ p = [p EXCEPT !.pager = p.pager] /\ p.pager \in {"closed", "open", "stale"}
        /\ \E g \in {"closed", "open", "stale"} : FreeText(p) = [p EXCEPT !.pager = g]
    BY <2>6 DEF FreeText, Session
  <2>10. ASSUME NEW t \in {[t EXCEPT !.by = @ \cup {"boss"}] : t \in {p, FreeText(p)}}
         PROVE  Good(t) /\ Stays(s, t)
    <3>1. PICK r \in {p, FreeText(p)} : t = [r EXCEPT !.by = @ \cup {"boss"}]
      OBVIOUS
    <3>2. PICK g \in {"closed", "open", "stale"} : r = [p EXCEPT !.pager = g]
      BY <2>9
    <3> QED
      BY <2>8, <3>1, <3>2
  <2> QED
    BY <1>1, <2>1, <2>10, DoKept DEF s, p, b, a, PushArg, Push
<1>2. CASE Keyed(u, "boss") /\ Do(u, {Ret(x)})
  <2> DEFINE z == Tail(q)
  <2>1. /\ s \in Session /\ s.online /\ s.key = "wait" /\ s.harm = "none"
        /\ s.stack # << >> /\ First(s.stack) = "boss" /\ Good(s)
    BY <1>2, KeyedFacts
  <2>2. /\ Lies("boss", q) /\ Fits(q) /\ Levels(s.stack) = {"boss"} \cup Levels(q)
        /\ q \in Seq(Frame)
    <3>1. s.stack \in Seq(Frame) /\ Fits(s.stack) /\ "boss" \notin Editors
      BY <2>1 DEF Session, Good, Sound, Editors
    <3> QED
      BY <2>1, <3>1, Below
  <2> HIDE DEF s
  <2>3. First(q) = "flags" /\ q # << >> /\ "boss" \in s.by
    <3>1. First(q) = "flags"
      BY <2>1 DEF Good, FlagsKept
    <3>2. q # << >>
      BY <3>1 DEF First
    <3>3. "flags" \in Levels(s.stack)
      BY <2>2, <3>1, <3>2, Below
    <3> QED
      BY <2>1, <3>1, <3>2, <3>3 DEF Good, FlagsKept
  <2>4. /\ Lies("flags", z) /\ Fits(z) /\ Levels(q) = {"flags"} \cup Levels(z)
        /\ z \in Seq(Frame)
    BY <2>2, <2>3, Below DEF Editors
  <2>5. "flags" \in Levels(z) => Both(s)
    BY <2>1, <2>2, <2>4 DEF Good, FlagsKept
  <2>6. Ret(x) = IF z = << >> THEN [s EXCEPT !.stack = z, !.key = "wait"]
                 ELSE [s EXCEPT !.stack = z, !.key = "init"]
    <3>1. PopArg(s) = [s EXCEPT !.stack = <<Head(s.stack)>> \o z]
      <4>1. s.stack \in Seq(Frame) /\ q = Tail(s.stack)
        BY <2>1 DEF Session
      <4>2. ~(Len(s.stack) < 2)
        BY <2>1, <2>3, <4>1, EmptySeq, HeadTailProperties
      <4> QED
        BY <4>2 DEF PopArg
    <3>2. /\ <<Head(s.stack)>> \o z # << >> /\ Tail(<<Head(s.stack)>> \o z) = z
      <4>1. s.stack \in Seq(Frame)
        BY <2>1 DEF Session
      <4>2. Head(s.stack) \in Frame
        BY <2>1, <4>1, Below
      <4> QED
        BY <2>4, <4>2, Above
    <3>3. x.stack = <<Head(s.stack)>> \o z /\ x = [s EXCEPT !.stack = <<Head(s.stack)>> \o z]
      BY <2>1, <3>1 DEF Session
    <3>4. Pop(x) = [x EXCEPT !.stack = z]
      BY <3>2, <3>3 DEF Pop, Empty
    <3>5. Pop(x) = [s EXCEPT !.stack = z]
      BY <2>1, <3>3, <3>4 DEF Session
    <3> HIDE DEF x, q, z
    <3>6. [s EXCEPT !.stack = z].stack = z
      BY <2>1 DEF Session
    <3> QED
      BY <2>1, <3>5, <3>6 DEF Ret, RetX, Empty, Session
  <2> DEFINE k == IF z = << >> THEN "wait" ELSE "init"
             t == [s EXCEPT !.stack = z, !.key = k]
  <2>7. Ret(x) = t
    BY <2>6
  <2>8. /\ t \in Session /\ t.stack = z /\ t.key = k /\ Same(s, t)
    BY <2>1, <2>4 DEF Session, Same
  <2>9. k = "wait" => First(z) = "none"
    BY DEF First
  <2>10. First(z) \notin Never /\ (First(z) \in Args => First(z) = "flags")
    <3>1. "flags" \notin Bound
      BY TakersAre
    <3> QED
      BY <2>4, <3>1, TakersAre DEF Lies
  <2> HIDE DEF t, z, q, x, k
  <2>11. Sound(t)
    BY <2>1, <2>2, <2>4, <2>8 DEF Good, Sound, DraftKept, Made, Same
  <2>12. PagerKept(t)
    BY <2>3, <2>8 DEF PagerKept, Calm, Same
  <2>13. FlagsKept(t)
    BY <2>3, <2>5, <2>8, <2>10 DEF FlagsKept, Both, Same, Never
  <2>14. Idle(t) /\ Caused(t)
    <3>1. k \in {"wait", "init"} /\ (First(z) = "room_prompt" => k = "init")
      BY <2>9 DEF k
    <3> QED
      BY <2>1, <2>8, <3>1 DEF Idle, Caused, Same
  <2>15. Good(Ret(x)) /\ Stays(s, Ret(x))
    BY <2>7, <2>8, <2>11, <2>12, <2>13, <2>14, SameStays DEF Good
  <2> QED
    BY <1>2, <2>1, <2>15, DoKept DEF s, x
<1> QED
  BY <1>1, <1>2 DEF StateBoss, PushArg, Push

\* An argument is called only with the boss screen and a kick to blame.
LEMMA CallArgumentKept ==
  ASSUME IInv, NEW u \in User, CallArgument(u)
  PROVE  Kept
<1> DEFINE s == us[u]
<1>1. s \in Session /\ s.online /\ s.harm = "none" /\ s.stack # << >> /\ First(s.stack) \in Args
  BY DEF CallArgument, Pending, Running, Empty, Top, First, IInv, TypeOK
<1>2. Good(s)
  BY <1>1 DEF IInv
<1>3. First(s.stack) = "flags" /\ Both(s)
  <2>1. First(s.stack) = "flags"
    BY <1>1, <1>2 DEF Good, FlagsKept
  <2>2. "flags" \in Levels(s.stack)
    <3>1. s.stack \in Seq(Frame)
      BY <1>1 DEF Session
    <3> QED
      BY <1>1, <2>1, <3>1, Below
  <2> QED
    BY <1>2, <2>1, <2>2 DEF Good, FlagsKept
<1>4. Good(Harm(s, "raw_frame")) /\ Stays(s, Harm(s, "raw_frame"))
  BY <1>1, <1>2, <1>3, HarmGood
<1> QED
  BY <1>1, <1>4, DoKept DEF CallArgument

\* The handlers that all menus share preserve the invariant.
LEMMA SharedKept ==
  ASSUME IInv, NEW u \in User, Shared(u)
  PROVE  Kept
<1> DEFINE s == us[u]
<1>1. ASSUME NEW f \in {"press_any_key", "ask_away_reason", "lock_password"}
      PROVE  /\ Asks(u, f) => Kept
             /\ Keyed(u, f) /\ Do(u, {Ret(s)}) => Kept
  BY AsksKept, ReturnsKept, TakersAre DEF Never, Args, Finders
<1>2. CASE StateReturnMenu(u)
  <2>1. Called(u, "return_menu", "init") /\ Do(u, {RetX(s, "prompt")})
    BY <1>2 DEF StateReturnMenu
  <2>2. Ready(s) /\ s.stack # << >> /\ First(s.stack) = "return_menu" /\ s.online
    BY <2>1, CalledReady DEF Never, Args, Finders
  <2>3. Good(RetX(s, "prompt")) /\ Stays(s, RetX(s, "prompt"))
    BY <2>2, ReadyRetX, SameStays, TakersAre
  <2> QED
    BY <2>1, <2>2, <2>3, DoKept
<1>3. CASE StateDownloadText(u)
  <2>1. /\ Ready(s) /\ s.stack # << >> /\ First(s.stack) = "download_text" /\ s.online
        /\ Lies("download_text", Tail(s.stack))
    BY <1>3, CalledReady, KeyedReady DEF StateDownloadText, Never, Args, Finders
  <2>2. Good(Ret(s)) /\ Stays(s, Ret(s)) /\ Good(Wait(s)) /\ Stays(s, Wait(s))
    BY <2>1, ReadyRet, ReadyWait, SameStays, TakersAre
  <2>3. Lies("press_any_key", Tail(s.stack))
    BY <2>1, TakersAre DEF Lies, Desked, OnPrompt, ConfigPrompt, Finders, Editors
  <2>4. Good(Jump(s, "press_any_key")) /\ Stays(s, Jump(s, "press_any_key"))
    BY <2>1, <2>3, ReadyJump, SameStays, TakersAre, Named DEF Finders, Args, Needs
  <2> QED
    BY <1>3, <2>1, <2>2, <2>4, DoKept DEF StateDownloadText
<1>4. CASE StateAskAwayReason(u) \/ StateLockPassword(u) \/ StatePressAnyKey(u)
  BY <1>1, <1>4 DEF StateAskAwayReason, StateLockPassword, StatePressAnyKey
<1> QED
  BY <1>2, <1>3, <1>4, StateScrollTextKept, FindersKept, StateBossKept, CallArgumentKept DEF Shared

(****************************************************************************)
(* The handlers of the rooms' menus                                         *)
(****************************************************************************)

\* The stack has nothing on it but what the room prompt and the Sysop menu are.
Bare(q) == Levels(q) \subseteq {"room_prompt", "sysop_menu"}

\* On a bare stack any function of the prompts may be called; no room is being edited.
LEMMA BareFacts ==
  ASSUME NEW s, Ready(s), Bare(s.stack)
  PROVE  /\ First(s.stack) \in {"room_prompt", "sysop_menu", "none"} /\ ~s.edited
         /\ \A f \in OnPrompt : Lies(f, s.stack)
<1>1. s.stack \in Seq(Frame)
  BY DEF Ready, Sound, Session
<1>2. s.stack # << >> => First(s.stack) \in Levels(s.stack)
  BY <1>1, Below
<1>3. First(s.stack) \in {"room_prompt", "sysop_menu", "none"}
  BY <1>2 DEF Bare, First
<1>4. ~s.edited
  BY DEF Ready, Sound, Bare
<1>5. ASSUME NEW f \in OnPrompt PROVE Lies(f, s.stack)
  BY <1>3, TakersAre DEF Lies, Desked, Bare, Args, Never, OnPrompt, ConfigPrompt, Finders, Editors
<1> QED
  BY <1>3, <1>4, <1>5

\* Under a function that is called from the prompts the stack is bare.
LEMMA OnPromptBare ==
  ASSUME NEW s, Ready(s), s.stack # << >>, First(s.stack) \in OnPrompt
  PROVE  Bare(Tail(s.stack))
<1>1. s \in Session /\ Fits(s.stack)
  BY DEF Ready, Sound
<1> QED
  BY <1>1, TopFits DEF Lies, Desked, Bare

\* Of the functions on the prompts all may be left for what is below them.
LEMMA OnPromptPop ==
  ASSUME NEW s, Ready(s), s.stack # << >>,
         First(s.stack) \in OnPrompt \ {"room_config_menu"}
  PROVE  /\ Ready(Pop(s)) /\ Stays(s, Pop(s)) /\ Pop(s).stack = Tail(s.stack)
         /\ Bare(Pop(s).stack) /\ Pop(s).draft = s.draft /\ Pop(s).by = s.by
         /\ Good(Ret(s)) /\ Stays(s, Ret(s))
<1>1. First(s.stack) \notin Bound \cup {"return_forward"} /\ First(s.stack) # "room_config_menu"
  BY TakersAre DEF OnPrompt
<1>2. Ready(Pop(s)) /\ Same(s, Pop(s)) /\ Pop(s).stack = Tail(s.stack)
  BY <1>1, ReadyPop
<1>3. Good(Ret(s)) /\ Same(s, Ret(s))
  BY <1>1, ReadyRet
<1>4. Bare(Tail(s.stack))
  BY OnPromptBare
<1> QED
  BY <1>2, <1>3, <1>4, SameStays DEF Same

\* A message that is NULL is used after a kick, or at the room prompt by who went to it.
LEMMA ReadyHarm ==
  ASSUME NEW s, Ready(s),
         "thrown" \in s.by \/ ("missing" \in s.by /\ First(s.stack) = "room_prompt"),
         First(s.stack) # "scroll_text",
         First(s.stack) = "room_prompt" => s.draft = "none"
  PROVE  Good(Harm(s, "null_message")) /\ Stays(s, Harm(s, "null_message"))
<1> DEFINE w == Wait(s)
<1>1. Good(w) /\ Same(s, w)
  BY ReadyWait
<1>2. w.harm = "none" /\ w.key = "wait" /\ w.by = s.by /\ w.stack = s.stack
  BY <1>1 DEF Ready, Same, Wait, Sound, Session
<1>3. Harm(w, "null_message") = Harm(s, "null_message")
  BY DEF Harm, Wait, Ready, Sound, Session
<1> HIDE DEF w
<1>4. Good(Harm(w, "null_message")) /\ Stays(w, Harm(w, "null_message"))
  BY <1>1, <1>2, HarmGood
<1> QED
  BY <1>1, <1>3, <1>4 DEF Same, Stays

\* enter_the_message may be called with a message, or after a kick.
LEMMA ReadyEnterTheMessage ==
  ASSUME NEW s, Ready(s), Bare(s.stack), s.draft = "none" => "thrown" \in s.by,
         NEW t \in EnterTheMessage(s)
  PROVE  Good(t) /\ Stays(s, t)
<1>1. /\ First(s.stack) \in {"room_prompt", "sysop_menu", "none"}
      /\ Lies("enter_subject", s.stack) /\ Lies("save_message", s.stack)
  BY BareFacts DEF OnPrompt
<1>2. CASE s.draft = "none"
  BY <1>1, <1>2, ReadyHarm DEF EnterTheMessage
<1>3. CASE s.draft # "none" /\ t = Call(s, "enter_subject")
  BY <1>1, <1>3, ReadyCall, SameStays, Named DEF Finders, Args, Needs, OnPrompt
<1>4. CASE s.draft # "none" /\ t = EditText(s, "save_message", "abort_message")
  <2>1. "abort_message" \in Aborts /\ SaveOf("abort_message") = "save_message"
    BY DEF Aborts, SaveOf
  <2> QED
    BY <1>1, <1>4, <2>1, ReadyEditText
<1> QED
  BY <1>2, <1>3, <1>4 DEF EnterTheMessage

\* A message may be begun from any stack but that of the Sysop menu.
LEMMA ReadyDraft ==
  ASSUME NEW s, Ready(s), "sysop_menu" \notin Levels(s.stack)
  PROVE  LET d == [s EXCEPT !.draft = s.room]
         IN  Ready(d) /\ Stays(s, d) /\ d.stack = s.stack /\ d.draft # "none"
<1> DEFINE d == [s EXCEPT !.draft = s.room]
<1>1. /\ d \in Session /\ d.stack = s.stack /\ d.draft = s.room /\ d.draft # "none"
      /\ d.habit = s.habit /\ d.online = s.online /\ d.room = s.room /\ d.sysop = s.sysop
      /\ d.aide = s.aide /\ d.edited = s.edited /\ d.read = s.read
      /\ d.pager = s.pager /\ d.harm = s.harm /\ d.by = s.by
  <2>1. s \in Session
    BY DEF Ready, Sound
  <2> QED
    BY <2>1 DEF Session, Room, Public
<1> HIDE DEF d
<1>2. Ready(d)
  BY <1>1 DEF Ready, Sound, DraftKept, Made, Calm, Both
<1>3. Stays(s, d)
  BY <1>1 DEF Stays
<1> QED
  BY <1>1, <1>2, <1>3 DEF d

\* A message may be dropped when no function needs it.
LEMMA ReadyNoDraft ==
  ASSUME NEW s, Ready(s), {"post_as_anon", "enter_subject"} \cap Levels(s.stack) = {},
         "forward_room" \in Levels(s.stack) => "return_forward" \in Levels(s.stack)
  PROVE  LET d == [s EXCEPT !.draft = "none"]
         IN  Ready(d) /\ Stays(s, d) /\ d.stack = s.stack
<1> DEFINE d == [s EXCEPT !.draft = "none"]
<1>1. /\ d \in Session /\ d.stack = s.stack /\ d.draft = "none"
      /\ d.habit = s.habit /\ d.online = s.online /\ d.room = s.room /\ d.sysop = s.sysop
      /\ d.aide = s.aide /\ d.edited = s.edited /\ d.read = s.read
      /\ d.pager = s.pager /\ d.harm = s.harm /\ d.by = s.by
  <2>1. s \in Session
    BY DEF Ready, Sound
  <2> QED
    BY <2>1 DEF Session
<1> HIDE DEF d
<1>2. Ready(d)
  BY <1>1 DEF Ready, Sound, DraftKept, Made, Calm, Both
<1>3. Stays(s, d)
  BY <1>1 DEF Stays
<1> QED
  BY <1>1, <1>2, <1>3 DEF d

\* A message may be read or forgotten when no function needs it.
LEMMA ReadyRead ==
  ASSUME NEW s, Ready(s), NEW b \in BOOLEAN,
         {"delete_msg", "undelete_msg"} \cap Levels(s.stack) = {}
  PROVE  LET d == [s EXCEPT !.read = b]
         IN  Ready(d) /\ Stays(s, d) /\ d.stack = s.stack /\ d.draft = s.draft
<1> DEFINE d == [s EXCEPT !.read = b]
<1>1. /\ d \in Session /\ d.stack = s.stack /\ d.read = b
      /\ d.habit = s.habit /\ d.online = s.online /\ d.room = s.room /\ d.sysop = s.sysop
      /\ d.aide = s.aide /\ d.edited = s.edited /\ d.draft = s.draft
      /\ d.pager = s.pager /\ d.harm = s.harm /\ d.by = s.by
  <2>1. s \in Session
    BY DEF Ready, Sound
  <2> QED
    BY <2>1 DEF Session
<1> HIDE DEF d
<1>2. Ready(d)
  BY <1>1 DEF Ready, Sound, DraftKept, Made, Calm, Both
<1>3. Stays(s, d)
  BY <1>1 DEF Stays
<1> QED
  BY <1>1, <1>2, <1>3 DEF d

\* state_post_as_anon preserves the invariant.
LEMMA StatePostAsAnonKept ==
  ASSUME IInv, NEW u \in User, StatePostAsAnon(u)
  PROVE  Kept
<1> DEFINE s == us[u]
<1>1. CASE Asks(u, "post_as_anon")
  BY <1>1, AsksKept DEF Never, Args, Finders
<1>2. CASE /\ Keyed(u, "post_as_anon")
           /\ Do(u, {Ret(s), Jump(s, "enter_anonymous")} \cup EnterTheMessage(Pop(s)))
  <2>1. Ready(s) /\ s.stack # << >> /\ First(s.stack) = "post_as_anon" /\ s.online
        /\ Levels(s.stack) = {"post_as_anon"} \cup Levels(Tail(s.stack))
    BY <1>2, KeyedReady DEF Never, Args, Finders
  <2> HIDE DEF s
  <2>2. /\ Ready(Pop(s)) /\ Stays(s, Pop(s)) /\ Pop(s).stack = Tail(s.stack)
        /\ Bare(Pop(s).stack) /\ Pop(s).draft = s.draft /\ Pop(s).by = s.by
        /\ Good(Ret(s)) /\ Stays(s, Ret(s))
    BY <2>1, OnPromptPop DEF OnPrompt
  <2>3. s.draft = "none" => "thrown" \in s.by
    BY <2>1 DEF Ready, Sound, DraftKept, Made
  <2>4. \A t \in EnterTheMessage(Pop(s)) : Good(t) /\ Stays(s, t)
    BY <2>2, <2>3, ReadyEnterTheMessage DEF Stays
  <2>5. Good(Jump(s, "enter_anonymous")) /\ Stays(s, Jump(s, "enter_anonymous"))
    <3>1. Lies("enter_anonymous", Tail(s.stack))
      BY <2>2, BareFacts DEF OnPrompt
    <3> QED
      BY <2>1, <3>1, ReadyJump, SameStays, TakersAre, Named DEF Finders, Args, Needs, OnPrompt
  <2> QED
    BY <1>2, <2>1, <2>2, <2>4, <2>5, DoKept DEF s
<1> QED
  BY <1>1, <1>2 DEF StatePostAsAnon

\* state_enter_anonymous preserves the invariant.
LEMMA StateEnterAnonymousKept ==
  ASSUME IInv, NEW u \in User, StateEnterAnonymous(u)
  PROVE  Kept
<1> DEFINE s == us[u]
           P == IF s.draft = "none" THEN {} ELSE EnterTheMessage(Pop(s))
<1>1. /\ Ready(s) /\ s.stack # << >> /\ First(s.stack) = "enter_anonymous" /\ s.online
  BY CalledReady, KeyedReady DEF StateEnterAnonymous, Never, Args, Finders
<1> HIDE DEF s
<1>2. /\ Ready(Pop(s)) /\ Stays(s, Pop(s)) /\ Bare(Pop(s).stack) /\ Pop(s).draft = s.draft
      /\ Good(Ret(s)) /\ Stays(s, Ret(s))
  BY <1>1, OnPromptPop DEF OnPrompt
<1>3. Good(Wait(s)) /\ Stays(s, Wait(s))
  BY <1>1, ReadyWait, SameStays
<1>4. \A t \in P : Good(t) /\ Stays(s, t)
  BY <1>2, ReadyEnterTheMessage DEF Stays
<1> HIDE DEF P
<1>5. Do(u, {IF s.draft = "none" THEN Ret(s) ELSE Wait(s)}) \/ Do(u, {Ret(s)} \cup P)
  BY DEF StateEnterAnonymous, s, P
<1> QED
  BY <1>1, <1>2, <1>3, <1>4, <1>5, DoKept DEF s

\* state_enter_mail_recipients preserves the invariant.
LEMMA StateEnterMailRecipientsKept ==
  ASSUME IInv, NEW u \in User, StateEnterMailRecipients(u)
  PROVE  Kept
<1> DEFINE s == us[u]
           P == IF s.draft = "none" THEN {} ELSE EnterTheMessage(Pop(s))
           p == Push(s, "recipients_err")
<1>1. CASE Asks(u, "enter_mail_recipients")
  BY <1>1, AsksKept DEF Never, Args, Finders
<1>2. CASE /\ Keyed(u, "enter_mail_recipients")
           /\ Do(u, {Ret(s), Wait(p)} \cup P)
  <2>1. Ready(s) /\ s.stack # << >> /\ First(s.stack) = "enter_mail_recipients" /\ s.online
    BY <1>2, KeyedReady DEF Never, Args, Finders
  <2> HIDE DEF s
  <2>2. /\ Ready(Pop(s)) /\ Stays(s, Pop(s)) /\ Bare(Pop(s).stack) /\ Pop(s).draft = s.draft
        /\ Good(Ret(s)) /\ Stays(s, Ret(s))
    BY <2>1, OnPromptPop DEF OnPrompt
  <2>3. \A t \in P : Good(t) /\ Stays(s, t)
    BY <2>2, ReadyEnterTheMessage DEF Stays
  <2>4. Lies("recipients_err", s.stack)
    BY <2>1, TakersAre DEF Lies, Desked, Never, Args, OnPrompt, ConfigPrompt, Finders, Editors
  <2>5. Ready(p) /\ Same(s, p) /\ LaidOn(p, "recipients_err", s.stack)
    BY <2>1, <2>4, ReadyPush, Named DEF Never, Args, Needs
  <2>6. Good(Wait(p)) /\ Stays(s, Wait(p))
    BY <2>5, ReadyWait DEF LaidOn, Same, Stays
  <2> HIDE DEF P, p
  <2> QED
    BY <1>2, <2>1, <2>2, <2>3, <2>6, DoKept DEF s
<1> QED
  BY <1>1, <1>2 DEF StateEnterMailRecipients, EnterName

\* state_recipients_err preserves the invariant.
LEMMA StateRecipientsErrKept ==
  ASSUME IInv, NEW u \in User, StateRecipientsErr(u)
  PROVE  Kept
<1> DEFINE s == us[u]
<1>1. CASE Asks(u, "recipients_err")
  BY <1>1, AsksKept DEF Never, Args, Finders
<1>2. CASE Keyed(u, "recipients_err") /\ Do(u, {Wait(Pop(s))})
  <2>1. /\ Ready(s) /\ s.stack # << >> /\ First(s.stack) = "recipients_err" /\ s.online
        /\ First(Tail(s.stack)) = "enter_mail_recipients"
    BY <1>2, KeyedReady DEF Never, Args, Finders, Lies
  <2> HIDE DEF s
  <2>2. Ready(Pop(s)) /\ Same(s, Pop(s)) /\ Pop(s).stack = Tail(s.stack)
    BY <2>1, ReadyPop, TakersAre
  <2>3. Good(Wait(Pop(s))) /\ Stays(s, Wait(Pop(s)))
    BY <2>1, <2>2, ReadyWait DEF Same, Stays
  <2> QED
    BY <1>2, <2>1, <2>3, DoKept DEF s
<1> QED
  BY <1>1, <1>2 DEF StateRecipientsErr

\* state_enter_subject preserves the invariant.
LEMMA StateEnterSubjectKept ==
  ASSUME IInv, NEW u \in User, StateEnterSubject(u)
  PROVE  Kept
<1> DEFINE s == us[u]
           Text == EditText(Pop(s), "save_message", "abort_message")
<1>1. CASE Asks(u, "enter_subject")
  BY <1>1, AsksKept DEF Never, Args, Finders
<1>2. CASE /\ Keyed(u, "enter_subject")
           /\ Do(u, {Ret(s), Text, IF s.draft = "none" THEN Harm(s, "null_message") ELSE Text})
  <2>1. /\ Ready(s) /\ s.stack # << >> /\ First(s.stack) = "enter_subject" /\ s.online
        /\ Levels(s.stack) = {"enter_subject"} \cup Levels(Tail(s.stack))
    BY <1>2, KeyedReady DEF Never, Args, Finders
  <2> HIDE DEF s
  <2>2. /\ Ready(Pop(s)) /\ Stays(s, Pop(s)) /\ Bare(Pop(s).stack) /\ Pop(s).draft = s.draft
        /\ Good(Ret(s)) /\ Stays(s, Ret(s))
    BY <2>1, OnPromptPop DEF OnPrompt
  <2>3. Good(Text) /\ Stays(s, Text)
    <3>1. "abort_message" \in Aborts /\ SaveOf("abort_message") = "save_message"
      BY DEF Aborts, SaveOf
    <3>2. Lies("save_message", Pop(s).stack)
      BY <2>2, BareFacts DEF OnPrompt
    <3> QED
      BY <2>2, <3>1, <3>2, ReadyEditText DEF Stays
  <2>4. s.draft = "none" => "thrown" \in s.by
    BY <2>1 DEF Ready, Sound, DraftKept, Made
  <2>5. s.draft = "none" => Good(Harm(s, "null_message")) /\ Stays(s, Harm(s, "null_message"))
    BY <2>1, <2>4, ReadyHarm
  <2> HIDE DEF Text
  <2> QED
    BY <1>2, <2>1, <2>2, <2>3, <2>5, DoKept DEF s
<1> QED
  BY <1>1, <1>2 DEF StateEnterSubject

\* MOVE is a push from below the function that moves.
LEMMA MoveIsPush ==
  ASSUME NEW s \in Session, s.stack # << >>, NEW f
  PROVE  Move(s, f) = Push(Pop(s), f)
BY DEF Move, Pop, Push, Empty, Session

\* A function of the editor may go to another, and leave what saves what is edited.
LEMMA EditorFacts ==
  ASSUME NEW s, Ready(s), s.stack # << >>, First(s.stack) \in Editors
  PROVE  LET p == Pop(Pop(s))
             a == First(Tail(s.stack))
         IN  /\ s \in Session /\ Tail(s.stack) # << >> /\ a \in Aborts /\ Pop(s).stack = Tail(s.stack)
             /\ Ready(p) /\ Same(s, p) /\ First(p.stack) = SaveOf(a)
             /\ p.stack = Tail(Tail(s.stack)) /\ Pop(s) \in Session
             /\ \A f \in Editors :
                  /\ Good(Jump(s, f)) /\ Stays(s, Jump(s, f))
                  /\ Good(Wait(Move(s, f))) /\ Stays(s, Wait(Move(s, f)))
<1> DEFINE o == Pop(s)
           p == Pop(o)
           a == First(o.stack)
<1>1. s \in Session /\ s.stack \in Seq(Frame) /\ Fits(s.stack)
  BY DEF Ready, Sound, Session
<1>2. /\ o \in Session /\ o.stack = Tail(s.stack) /\ Same(s, o) /\ o.stack \in Seq(Frame)
  BY <1>1, PopFacts DEF Session
<1>3. /\ Lies(First(s.stack), o.stack) /\ Levels(s.stack) = {First(s.stack)} \cup Levels(o.stack)
      /\ First(s.stack) = Head(s.stack)
  BY <1>1, <1>2, TopFits DEF First
<1> HIDE DEF o
<1>4. a \in Aborts /\ First(Tail(o.stack)) = SaveOf(a) /\ a # "none"
  BY <1>3 DEF Lies, Aborts
<1>5. o.stack # << >> /\ Head(o.stack) = a /\ a \notin Editors
  BY <1>4 DEF First, Aborts, Editors
<1>6. /\ p \in Session /\ p.stack = Tail(o.stack) /\ Same(o, p)
      /\ Levels(o.stack) = {a} \cup Levels(p.stack) /\ o.stack = <<a>> \o p.stack
  BY <1>2, <1>5, PopFacts, Below
<1> HIDE DEF p, a
<1>7. Fits(p.stack)
  BY <1>1, <1>2, <1>3, <1>5, <1>6, FitsKept
<1>8. Same(s, p) /\ First(p.stack) = SaveOf(a)
  BY <1>2, <1>4, <1>6 DEF Same
<1>9. Ready(p)
  <2>1. Levels(s.stack) = {First(s.stack), a} \cup Levels(p.stack)
    BY <1>3, <1>6
  <2>2. /\ First(s.stack) \in {"edit_text", "save_text", "abort_text"}
        /\ a \in {"abort_message", "abort_roominfo", "upload_abort", "abort_profile", "abort_feeling"}
    BY <1>4 DEF Editors, Aborts
  <2>3. DraftKept(p) /\ Made(p) /\ (p.edited => "room_config_menu" \in Levels(p.stack))
    BY <1>8, <2>1, <2>2 DEF Ready, Sound, DraftKept, Made, Same
  <2>4. First(p.stack) \in {"save_message", "save_roominfo", "upload_save", "save_profile",
                            "save_feeling"}
    BY <1>4, <1>8 DEF SaveOf, Aborts
  <2>5. /\ p.harm = "none" /\ First(p.stack) \notin Never \cup Args
        /\ Calm(p) => p.pager = "closed"
        /\ "flags" \in Levels(p.stack) => Both(p)
    BY <1>8, <2>1, <2>4 DEF Ready, Same, Calm, Both, Never, Args
  <2> QED
    BY <1>6, <1>7, <2>3, <2>5 DEF Ready, Sound
<1>10. ASSUME NEW f \in Editors
       PROVE  /\ Good(Jump(s, f)) /\ Stays(s, Jump(s, f))
              /\ Good(Wait(Move(s, f))) /\ Stays(s, Wait(Move(s, f)))
  <2> DEFINE t == Push(o, f)
  <2>1. t \in Session /\ t.stack = <<f>> \o o.stack /\ Same(o, t)
    BY <1>2, PushFacts, Named DEF Editors
  <2>2. Jump(s, f) = Current(t) /\ Move(s, f) = t
    BY <1>1, JumpIsCall, MoveIsPush DEF o, Call, Current
  <2> HIDE DEF t
  <2>3. Same(p, t) /\ t.stack = <<f>> \o (<<a>> \o p.stack)
    BY <1>6, <2>1 DEF Same
  <2>4. Ready(t) /\ First(t.stack) = f
    <3>1. a \in Aborts /\ First(p.stack) = SaveOf(a) /\ Ready(p) /\ t \in Session
      BY <1>4, <1>8, <1>9, <2>1
    <3> QED
      BY <2>3, <3>1, ReadyEditor, Zenon
  <2>5. Same(s, t)
    BY <1>2, <2>1 DEF Same
  <2>6. f # "scroll_text" /\ f # "room_prompt"
    BY DEF Editors
  <2>7. /\ Good(Current(t)) /\ Same(t, Current(t)) /\ Good(Wait(t)) /\ Same(t, Wait(t))
    BY <2>4, <2>6, ReadyCurrent, ReadyWait
  <2> QED
    BY <2>2, <2>5, <2>7 DEF Same, Stays
<1> QED
  BY <1>1, <1>2, <1>4, <1>5, <1>6, <1>8, <1>9, <1>10 DEF o, p, a

\* The functions of the editor preserve the invariant.
LEMMA EditorKept ==
  ASSUME IInv, NEW u \in User, StateEditText(u) \/ StateSaveText(u) \/ StateAbortText(u)
  PROVE  Kept
<1> DEFINE s == us[u]
           o == Pop(s)
           p == Pop(o)
           a == First(o.stack)
<1>1. CASE Asks(u, "save_text") \/ Asks(u, "abort_text")
  BY <1>1, AsksKept DEF Never, Args, Finders
<1>2. CASE Called(u, "edit_text", "init") /\ Do(u, {Wait(FreeText(s))})
  <2>1. /\ Ready(s) /\ s.stack # << >> /\ First(s.stack) = "edit_text" /\ s.online
    BY <1>2, CalledReady DEF Never, Args, Finders
  <2>2. Ready(FreeText(s)) /\ Stays(s, FreeText(s)) /\ FreeText(s).stack = s.stack
    BY <2>1, ReadyFree
  <2>3. Good(Wait(FreeText(s))) /\ Stays(s, Wait(FreeText(s)))
    BY <2>1, <2>2, ReadyWait DEF Same, Stays
  <2> QED
    BY <1>2, <2>1, <2>3, DoKept
<1>3. ASSUME NEW f \in Editors, Keyed(u, f)
      PROVE  /\ s \in Session /\ s.online /\ o \in Session /\ o.stack # << >> /\ a \in Aborts
             /\ Ready(p) /\ Same(s, p) /\ First(p.stack) = SaveOf(a) /\ p.stack = Tail(o.stack)
             /\ \A g \in Editors :
                  /\ Good(Jump(s, g)) /\ Stays(s, Jump(s, g))
                  /\ Good(Wait(Move(s, g))) /\ Stays(s, Wait(Move(s, g)))
  <2>1. Ready(s) /\ s.stack # << >> /\ First(s.stack) = f /\ s.online
    BY <1>3, KeyedReady DEF Editors, Never, Args, Finders
  <2> QED
    BY <2>1, EditorFacts
<1>4. CASE Keyed(u, "edit_text") /\ Do(u, {Jump(s, "save_text")})
  BY <1>3, <1>4, DoKept DEF Editors
<1>5. ASSUME NEW f \in Editors, Keyed(u, f)
      PROVE  /\ p.stack # << >> /\ First(p.stack) # "scroll_text" /\ First(p.stack) # "room_prompt"
             /\ First(p.stack) \notin Bound \cup {"return_forward", "room_config_menu"}
  <2>1. a \in Aborts /\ First(p.stack) = SaveOf(a)
    BY <1>3, <1>5
  <2> HIDE DEF p, a
  <2>2. First(p.stack) \in {"save_message", "save_roominfo", "upload_save", "save_profile",
                            "save_feeling"}
    BY <2>1 DEF SaveOf, Aborts
  <2> QED
    BY <2>2, TakersAre DEF First
<1>6. ASSUME NEW f \in Editors, Keyed(u, f)
      PROVE  Good(Ret(o)) /\ Stays(s, Ret(o))
  <2>1. Ready(p) /\ Same(s, p) /\ o \in Session /\ o.stack # << >> /\ p.stack = Tail(o.stack)
        /\ p.stack # << >>
    BY <1>3, <1>5, <1>6
  <2> HIDE DEF o
  <2>2. Ret(o) = Current(p)
    BY <2>1, RetFacts DEF Ret, Current
  <2> HIDE DEF p
  <2> QED
    BY <2>1, <2>2, ReadyCurrent DEF Same, Stays
<1>7. CASE /\ Keyed(u, "save_text")
           /\ Do(u, {Jump(s, "abort_text"), Wait(Move(s, "edit_text")), Ret(o)})
  <2>1. \A t \in {Jump(s, "abort_text"), Wait(Move(s, "edit_text")), Ret(o)} :
          Good(t) /\ Stays(s, t)
    BY <1>3, <1>6, <1>7 DEF Editors
  <2> QED
    BY <1>3, <1>7, <2>1, DoKept DEF Editors
<1>8. ASSUME Keyed(u, "abort_text")
      PROVE  Good(Jump(p, Top(o))) /\ Stays(s, Jump(p, Top(o)))
  <2>1. /\ Ready(p) /\ Same(s, p) /\ p.stack # << >> /\ a \in Aborts /\ First(p.stack) = SaveOf(a)
        /\ First(p.stack) \notin Bound \cup {"return_forward", "room_config_menu"}
        /\ o.stack # << >>
    BY <1>3, <1>5, <1>8 DEF Editors
  <2>2. Top(o) = a
    BY <2>1 DEF Top, First
  <2> HIDE DEF o, p, a
  <2>3. Ready(Pop(p)) /\ Pop(p).stack = Tail(p.stack) /\ p \in Session
    BY <2>1, ReadyPop DEF Ready, Sound
  <2>4. Lies(a, Tail(p.stack))
    <3>1. CASE a # "abort_feeling"
      <4>1. Plain(a)
        BY <2>1, <3>1, TakersAre DEF Aborts, Plain, Desked, OnPrompt, ConfigPrompt, Finders, Editors
      <4> QED
        BY <2>3, <4>1, PlainLies DEF Ready
    <3>2. CASE a = "abort_feeling"
      <4>1. First(p.stack) = "save_feeling"
        BY <2>1, <3>2 DEF SaveOf
      <4>2. Lies("save_feeling", Tail(p.stack))
        BY <2>1, <2>3, <4>1, TopFits DEF Ready, Sound
      <4>3. Ground("abort_feeling") = Ground("save_feeling")
        BY GroundIs DEF OfFeelings
      <4> QED
        BY <3>2, <4>2, <4>3, TakersAre DEF Lies, Desked, Editors, OnPrompt, ConfigPrompt, Finders, Args
    <3> QED
      BY <3>1, <3>2
  <2>5. a \in Frame /\ a \notin Finders \cup Args /\ Needs(a, p)
    BY <2>1, Named DEF Aborts, Finders, Args, Needs
  <2>6. Good(Jump(p, a)) /\ Same(p, Jump(p, a))
    BY <2>1, <2>4, <2>5, ReadyJump
  <2> QED
    BY <2>1, <2>2, <2>6 DEF Same, Stays
<1>9. CASE Keyed(u, "abort_text") /\ Do(u, {Jump(p, Top(o)), Jump(s, "save_text")})
  <2>1. \A t \in {Jump(p, Top(o)), Jump(s, "save_text")} : Good(t) /\ Stays(s, t)
    BY <1>3, <1>8, <1>9 DEF Editors
  <2> QED
    BY <1>3, <1>9, <2>1, DoKept DEF Editors
<1> QED
  BY <1>1, <1>2, <1>4, <1>7, <1>9 DEF StateEditText, StateSaveText, StateAbortText

------------------------------------------------------------------------------
\* What leave_room does to the list of who is inside
LEMMA LeaveListFacts ==
  ASSUME NEW l \in [Public -> [User -> 0 .. MaxEntries]], NEW u \in User, NEW r \in Room
  PROVE  /\ LeaveList(l, u, r) \in [Public -> [User -> 0 .. MaxEntries]]
         /\ \A x \in Public, v \in User :
              LeaveList(l, u, r)[x][v] =
                IF x = r /\ v = u /\ l[x][v] > 0 THEN l[x][v] - 1 ELSE l[x][v]
<1>1. MaxEntries \in Nat
  BY MenusAssumption
<1>2. CASE ~(r \in Public /\ l[r][u] > 0)
  BY <1>2 DEF LeaveList
<1>3. CASE r \in Public /\ l[r][u] > 0
  <2> DEFINE m == [l EXCEPT ![r][u] = @ - 1]
  <2>1. LeaveList(l, u, r) = m
    BY <1>3 DEF LeaveList
  <2>2. l[r] \in [User -> 0 .. MaxEntries] /\ l[r][u] - 1 \in 0 .. MaxEntries
    BY <1>1, <1>3
  <2>3. m = [l EXCEPT ![r] = [l[r] EXCEPT ![u] = l[r][u] - 1]]
    BY <1>3
  <2>4. m \in [Public -> [User -> 0 .. MaxEntries]]
    BY <1>3, <2>2, <2>3
  <2>5. \A x \in Public, v \in User :
          m[x][v] = IF x = r /\ v = u THEN l[x][v] - 1 ELSE l[x][v]
    BY <1>3, <2>2, <2>3
  <2> HIDE DEF m
  <2> QED
    BY <1>3, <2>1, <2>4, <2>5
<1> QED
  BY <1>2, <1>3

\* What enter_room does to the list of who is inside
LEMMA EnterListFacts ==
  ASSUME NEW l \in [Public -> [User -> 0 .. MaxEntries]], NEW u \in User, NEW r \in Room,
         r \in Public => l[r][u] < MaxEntries
  PROVE  /\ EnterList(l, u, r) \in [Public -> [User -> 0 .. MaxEntries]]
         /\ \A x \in Public, v \in User :
              EnterList(l, u, r)[x][v] = IF x = r /\ v = u THEN l[x][v] + 1 ELSE l[x][v]
<1>1. MaxEntries \in Nat
  BY MenusAssumption
<1>2. CASE r \notin Public
  BY <1>2 DEF EnterList
<1>3. CASE r \in Public
  <2> DEFINE m == [l EXCEPT ![r][u] = @ + 1]
  <2>1. EnterList(l, u, r) = m
    BY <1>3 DEF EnterList
  <2>2. l[r] \in [User -> 0 .. MaxEntries] /\ l[r][u] + 1 \in 0 .. MaxEntries
    BY <1>1, <1>3
  <2>3. m = [l EXCEPT ![r] = [l[r] EXCEPT ![u] = l[r][u] + 1]]
    BY <1>3
  <2>4. m \in [Public -> [User -> 0 .. MaxEntries]]
    BY <1>3, <2>2, <2>3
  <2>5. \A x \in Public, v \in User :
          m[x][v] = IF x = r /\ v = u THEN l[x][v] + 1 ELSE l[x][v]
    BY <1>3, <2>2, <2>3
  <2> HIDE DEF m
  <2> QED
    BY <2>1, <2>4, <2>5
<1> QED
  BY <1>2, <1>3

\* Who goes from the room he is in to another
LEMMA WalkFacts ==
  ASSUME TypeOK, NEW u \in User, NEW r \in Room, Placed(us[u], u), us[u].online,
         CanEnter(u, us[u].room, r), Walk(u, us[u].room, r)
  PROVE  /\ listed' \in [Public -> [User -> 0 .. MaxEntries]]
         /\ \A x \in Public, v \in User \ {u} : listed'[x][v] = listed[x][v]
         /\ "created" \notin us[u].by =>
              \A x \in Public : listed'[x][u] = IF x = r THEN 1 ELSE 0
<1> DEFINE f == us[u].room
           l == LeaveList(listed, u, f)
<1>1. f \in Room /\ listed \in [Public -> [User -> 0 .. MaxEntries]]
  BY DEF TypeOK, Session
<1> HIDE DEF f
<1>2. /\ l \in [Public -> [User -> 0 .. MaxEntries]]
      /\ \A x \in Public, v \in User :
           l[x][v] = IF x = f /\ v = u /\ listed[x][v] > 0 THEN listed[x][v] - 1 ELSE listed[x][v]
  BY <1>1, LeaveListFacts
<1>3. listed' = EnterList(l, u, r) /\ (r \in Public => l[r][u] < MaxEntries)
  BY DEF Walk, CanEnter, f
<1> HIDE DEF l
<1>4. /\ listed' \in [Public -> [User -> 0 .. MaxEntries]]
      /\ \A x \in Public, v \in User :
           listed'[x][v] = IF x = r /\ v = u THEN l[x][v] + 1 ELSE l[x][v]
  BY <1>2, <1>3, EnterListFacts
<1>5. \A x \in Public, v \in User \ {u} : listed'[x][v] = listed[x][v]
  BY <1>2, <1>4
<1>6. ASSUME "created" \notin us[u].by, NEW x \in Public
      PROVE  listed'[x][u] = IF x = r THEN 1 ELSE 0
  <2>1. listed[x][u] = IF f = x /\ "moved" \notin us[u].by THEN 1 ELSE 0
    BY <1>6 DEF Placed, f
  <2>2. l[x][u] = 0
    BY <1>2, <2>1
  <2> QED
    BY <1>4, <2>2
<1> QED
  BY <1>4, <1>5, <1>6

\* Who goes to another room, and may be there, preserves the invariant.
LEMMA MoveKept ==
  ASSUME IInv, NEW u \in User, us[u].online, ~us[u].edited, NEW r \in Room, Exists(r),
         r = "club" /\ KickedFrom(u, "club") => u \in Sysops,
         CanEnter(u, us[u].room, r), Walk(u, us[u].room, r), UNCHANGED rooms,
         NEW t, us' = [us EXCEPT ![u] = t], Good(t), t.online, t.room = r, ~t.aide,
         t.sysop = us[u].sysop, "moved" \notin t.by,
         "created" \in t.by <=> "created" \in us[u].by
  PROVE  Kept
<1>1. t \in Session /\ us \in [User -> Session]
  BY DEF Good, Sound, IInv, TypeOK
<1>2. us' \in [User -> Session] /\ \A v \in User : us'[v] = IF v = u THEN t ELSE us[v]
  BY <1>1
<1>3. TypeOK /\ Placed(us[u], u)
  BY DEF IInv
<1>4. /\ listed' \in [Public -> [User -> 0 .. MaxEntries]]
      /\ \A x \in Public, v \in User \ {u} : listed'[x][v] = listed[x][v]
      /\ "created" \notin us[u].by =>
           \A x \in Public : listed'[x][u] = IF x = r THEN 1 ELSE 0
  BY <1>3, WalkFacts
<1>5. TypeOK' /\ rooms'["lobby"].alive
  BY <1>2, <1>4 DEF TypeOK, IInv
<1>6. ASSUME NEW v \in User
      PROVE  Placed(us[v], v)' /\ Caused(us[v])' /\ (us[v].online => Good(us[v]))'
  <2>1. CASE v = u
    <3>1. Placed(us[v], v)'
      BY <1>2, <1>3, <1>4, <2>1 DEF Placed, Exists, IsAide, KickedFrom
    <3> QED
      BY <1>2, <2>1, <3>1 DEF Good
  <2>2. CASE v # u
    <3>1. Placed(us[v], v) /\ Caused(us[v]) /\ (us[v].online => Good(us[v])) /\ us'[v] = us[v]
      BY <1>2, <2>2 DEF IInv
    <3>2. \A x \in Public : listed'[x][v] = listed[x][v]
      BY <1>4, <2>2
    <3>3. Placed(us[v], v)'
      BY <3>1, <3>2 DEF Placed, Exists, IsAide, KickedFrom
    <3> QED
      BY <3>1, <3>3
  <2> QED
    BY <2>1, <2>2
<1>7. EditsKeptStep
  BY <1>2 DEF EditsKeptStep
<1> QED
  BY <1>5, <1>6, <1>7 DEF IInv, Kept

\* enter_room, for a session that is at the room prompt again
LEMMA ReadyEntered ==
  ASSUME NEW s, Ready(s), Bare(s.stack), NEW r \in Room
  PROVE  LET t == Entered(s, r)
         IN  /\ Ready(t) /\ t.stack = s.stack /\ t.room = r /\ t.draft = "none" /\ ~t.read
             /\ ~t.aide /\ t.online = s.online /\ t.sysop = s.sysop
             /\ t.by = s.by \ {"moved", "missing"}
<1> DEFINE t == Entered(s, r)
<1>1. /\ t \in Session /\ t.stack = s.stack /\ t.room = r /\ t.draft = "none" /\ ~t.read
      /\ ~t.aide /\ t.online = s.online /\ t.sysop = s.sysop
             /\ t.by = s.by \ {"moved", "missing"}
      /\ t.edited = s.edited /\ t.harm = s.harm
      /\ t.pager = IF s.pager = "open" THEN "stale" ELSE s.pager
  <2>1. s \in Session
    BY DEF Ready, Sound
  <2> QED
    BY <2>1 DEF Entered, FreeText, Session
<1> HIDE DEF t
<1>2. Ready(t)
  BY <1>1 DEF Ready, Sound, DraftKept, Made, Calm, Both, Bare
<1> QED
  BY <1>1, <1>2 DEF t

\* goto_room preserves the invariant, from a session that is ready for it.
LEMMA GotoRoomKept ==
  ASSUME IInv, NEW u \in User, us[u].online, NEW s, Ready(s), Stays(us[u], s), Bare(s.stack),
         NEW r \in Room, Exists(r), r = "club" /\ KickedFrom(u, "club") => u \in Sysops,
         GotoRoom(u, s, r)
  PROVE  Kept
<1>1. s.room = us[u].room /\ s.online /\ s.sysop = us[u].sysop /\ ~us[u].edited
      /\ ("created" \in s.by <=> "created" \in us[u].by)
  BY BareFacts DEF Stays
<1> DEFINE e == Entered(s, r)
<1>2. /\ Ready(e) /\ e.stack = s.stack /\ e.room = r
      /\ ~e.aide /\ e.online = s.online /\ e.sysop = s.sysop /\ e.by = s.by \ {"moved", "missing"}
  BY ReadyEntered
<1>3. PICK t \in Arrive(s, r) : us' = [us EXCEPT ![u] = t]
  BY DEF GotoRoom
<1>4. t = Current(e) \/ t = ReadText(e)
  BY <1>3 DEF Arrive
<1> HIDE DEF e
<1>5. Good(t) /\ Stays(e, t)
  BY <1>2, <1>4, ReadyCurrent, ReadyReadText, SameStays
<1>6. CanEnter(u, us[u].room, r) /\ Walk(u, us[u].room, r) /\ UNCHANGED rooms
  BY <1>1 DEF GotoRoom
<1>7. /\ t.online /\ t.room = r /\ ~t.aide /\ t.sysop = us[u].sysop /\ "moved" \notin t.by
      /\ "created" \in t.by <=> "created" \in us[u].by
  BY <1>1, <1>2, <1>5 DEF Stays
<1> QED
  BY <1>1, <1>3, <1>5, <1>6, <1>7, MoveKept

------------------------------------------------------------------------------
\* A function returns to what is ready below it, whatever it is itself.
LEMMA ReadyLand ==
  ASSUME NEW s \in Session, s.stack # << >>, Ready(Pop(s))
  PROVE  Good(Ret(s)) /\ Same(Pop(s), Ret(s))
<1> DEFINE p == Pop(s)
<1>1. p.stack = Tail(s.stack)
  BY PopFacts
<1>2. Ret(s) = IF Tail(s.stack) = << >> THEN Wait(p) ELSE Current(p)
  BY RetFacts DEF Ret, Current
<1> HIDE DEF p
<1>3. CASE Tail(s.stack) = << >>
  <2>1. First(p.stack) = "none"
    BY <1>1, <1>3 DEF First
  <2>2. Ready(p)
    BY DEF p
  <2>3. Good(Wait(p)) /\ Same(p, Wait(p))
    BY <2>1, <2>2, ReadyWait
  <2> QED
    BY <1>2, <1>3, <2>3 DEF p
<1>4. CASE Tail(s.stack) # << >>
  <2>1. Ready(p)
    BY DEF p
  <2>2. Good(Current(p)) /\ Same(p, Current(p))
    BY <2>1, ReadyCurrent
  <2> QED
    BY <1>2, <1>4, <2>2 DEF p
<1> QED
  BY <1>3, <1>4

\* save_message_room, called by a function that lies on what is ready
LEMMA PostKept ==
  ASSUME IInv, NEW u \in User, us[u].online, NEW s \in Session, s.stack # << >>,
         Ready(Pop(s)), Stays(us[u], Pop(s)),
         {"post_as_anon", "enter_subject"} \cap Levels(Tail(s.stack)) = {},
         "forward_room" \in Levels(Tail(s.stack)) => "return_forward" \in Levels(Tail(s.stack)),
         NEW r \in Room, r # "mail" /\ KickedFrom(u, r) => s.sysop \/ s.draft = "none",
         SaveMessageRoom(u, s, r)
  PROVE  Kept
<1> DEFINE p == Pop(s)
           n == [s EXCEPT !.draft = "none"]
           f == FreeText(s)
<1>1. p.stack = Tail(s.stack) /\ First(p.stack) \notin Never \cup Args
  BY PopFacts DEF Ready
<1>2. /\ n \in Session /\ n.stack = s.stack /\ Pop(n) = [p EXCEPT !.draft = "none"]
      /\ f \in Session /\ f.stack = s.stack /\ Pop(f) = FreeText(p)
  <2>1. n \in Session /\ n.stack = s.stack /\ Pop(n) = [p EXCEPT !.draft = "none"]
    BY DEF Pop, Empty, Session
  <2>2. f \in Session /\ f.stack = s.stack
    BY FreeFacts
  <2>3. CASE s.pager = "open"
    BY <2>3 DEF FreeText, Pop, Empty, Session
  <2>4. CASE s.pager # "open"
    <3>1. p.pager = s.pager
      BY PopFacts DEF Same
    <3>2. f = s /\ FreeText(p) = p
      BY <2>4, <3>1 DEF FreeText
    <3> QED
      BY <2>1, <2>2, <3>2
  <2> QED
    BY <2>1, <2>2, <2>3, <2>4
<1> HIDE DEF p, n, f
<1>3. Good(Ret(s)) /\ Stays(us[u], Ret(s))
  BY ReadyLand DEF Same, Stays
<1>4. Ready(Pop(n)) /\ Stays(p, Pop(n))
  BY <1>1, <1>2, ReadyNoDraft DEF p
<1>5. Good(Ret(n)) /\ Stays(us[u], Ret(n))
  BY <1>2, <1>4, ReadyLand DEF Same, Stays, p
<1>6. Ready(Pop(f)) /\ Stays(p, Pop(f)) /\ Pop(f).stack = p.stack
  BY <1>2, ReadyFree DEF p
<1>7. Good(Ret(f)) /\ Stays(us[u], Ret(f))
  BY <1>2, <1>6, ReadyLand DEF Same, Stays, p
<1>8. Good(Jump(f, "loop_send_mail")) /\ Stays(us[u], Jump(f, "loop_send_mail"))
  <2> DEFINE g == Pop(f)
             t == Call(g, "loop_send_mail")
  <2>1. Plain("loop_send_mail")
    BY TakersAre DEF Plain, Desked, OnPrompt, ConfigPrompt, Finders, Editors
  <2>2. Lies("loop_send_mail", g.stack)
    BY <1>1, <1>6, <2>1, PlainLies
  <2>3. Ready(g) /\ Stays(p, g)
    BY <1>6
  <2>4. Jump(f, "loop_send_mail") = t
    BY <1>2, JumpIsCall
  <2> HIDE DEF g
  <2>5. Good(t) /\ Same(g, t)
    BY <2>2, <2>3, ReadyCall, Named DEF Finders, Args, Needs
  <2>6. Stays(us[u], g)
    BY <2>3 DEF Stays, p
  <2> HIDE DEF t
  <2> QED
    BY <2>4, <2>5, <2>6 DEF Same, Stays
<1>9. \/ Do(u, {Ret(s)})
      \/ Do(u, {Ret(n), Jump(f, "loop_send_mail")})
      \/ Do(u, {Ret(n), Ret(f)})
  BY DEF SaveMessageRoom, n, f
<1> QED
  BY <1>3, <1>5, <1>7, <1>8, <1>9, DoKept

\* The message is not posted: its user was kicked out, and is put in the Lobby.
LEMMA NotPostedKept ==
  ASSUME IInv, NEW u \in User, Called(u, "save_message", "init"), ~us[u].sysop,
         CanEnter(u, us[u].room, "lobby"), Walk(u, us[u].room, "lobby"), UNCHANGED rooms,
         us' = [us EXCEPT ![u] = Ret(Pop(Entered(us[u], "lobby")))]
  PROVE  Kept
<1> DEFINE s == us[u]
           e == Entered(Pop(s), "lobby")
<1>1. Ready(s) /\ s.stack # << >> /\ First(s.stack) = "save_message" /\ s.online
  BY CalledReady DEF Never, Args, Finders
<1>2. Ready(Pop(s)) /\ Stays(s, Pop(s)) /\ Bare(Pop(s).stack)
  BY <1>1, OnPromptPop DEF OnPrompt
<1>3. ~s.edited
  BY <1>2, BareFacts DEF Stays
<1>4. "lobby" \in Room /\ Exists("lobby")
  BY DEF Room, Public, Exists, IInv
<1>5. /\ Ready(e) /\ e.stack = Pop(s).stack /\ e.room = "lobby"
      /\ ~e.aide /\ e.online = s.online /\ e.sysop = s.sysop /\ e.by = Pop(s).by \ {"moved", "missing"}
  BY <1>2, <1>4, ReadyEntered DEF Stays
<1>6. Pop(Entered(s, "lobby")) = e
  <2>1. s \in Session
    BY <1>1 DEF Ready, Sound
  <2> QED
    BY <1>1, <2>1 DEF Entered, FreeText, Pop, Empty, Session
<1> HIDE DEF e
<1>7. Good(Ret(e)) /\ Same(e, Ret(e))
  <2>1. First(e.stack) \in {"room_prompt", "sysop_menu", "none"} /\ ~e.edited
    BY <1>2, <1>5, BareFacts
  <2>2. CASE e.stack = << >>
    <3>1. Ret(e) = Wait(e)
      BY <2>2 DEF Ret, RetX, Pop, Empty, Wait
    <3>2. First(e.stack) = "none"
      BY <2>2 DEF First
    <3>3. Good(Wait(e)) /\ Same(e, Wait(e))
      BY <1>5, <3>2, ReadyWait
    <3> QED
      BY <3>1, <3>3
  <2>3. CASE e.stack # << >>
    <3>1. "none" \notin Bound /\ First(e.stack) \notin Bound
      BY <2>1, TakersAre
    <3> QED
      BY <1>5, <2>1, <2>3, <3>1, ReadyRet
  <2> QED
    BY <2>2, <2>3
<1> DEFINE t == Ret(e)
<1>8. us' = [us EXCEPT ![u] = t]
  BY <1>6
<1>9. /\ Good(t) /\ t.online /\ t.room = "lobby" /\ ~t.aide /\ t.sysop = s.sysop
      /\ "moved" \notin t.by /\ ("created" \in t.by <=> "created" \in s.by)
  BY <1>1, <1>2, <1>5, <1>7 DEF Same, Stays
<1> HIDE DEF t
<1> QED
  BY <1>1, <1>3, <1>4, <1>8, <1>9, MoveKept

\* Saving a message preserves the invariant.
LEMMA SaveMessageKept ==
  ASSUME IInv, NEW u \in User, SaveMessage(u)
  PROVE  Kept
<1> DEFINE s == us[u]
<1>1. /\ Ready(s) /\ s.stack # << >> /\ First(s.stack) = "save_message" /\ s.online
      /\ Called(u, "save_message", "init")
  BY CalledReady DEF SaveMessage, Never, Args, Finders
<1>2. Ready(Pop(s)) /\ Stays(s, Pop(s)) /\ Bare(Tail(s.stack)) /\ Pop(s).stack = Tail(s.stack)
  BY <1>1, OnPromptPop DEF OnPrompt
<1>3. SaveMessageRoom(u, s, s.room) /\ s \in Session /\ s.room \in Room
  BY <1>1 DEF SaveMessage, Ready, Sound, Session
<1>4. CASE s.room # "mail" /\ KickedFrom(u, s.room) /\ ~s.sysop /\ s.draft # "none"
  BY <1>1, <1>3, <1>4, NotPostedKept DEF SaveMessageRoom
<1>5. CASE s.room # "mail" /\ KickedFrom(u, s.room) => s.sysop \/ s.draft = "none"
  BY <1>1, <1>2, <1>3, <1>5, PostKept DEF Bare
<1> QED
  BY <1>4, <1>5
\* The functions that forward lay state_return_forward and state_dummy upon themselves.
LEMMA ForwardFacts ==
  ASSUME NEW s, Ready(s), s.stack # << >>,
         First(s.stack) \in {"forward_room", "enter_forward_recipients"}
  PROVE  LET d == Push(Push(FreeText(s), "return_forward"), "dummy")
         IN  /\ d \in Session /\ d.stack # << >> /\ d.sysop = s.sysop /\ d.draft = s.draft
             /\ Ready(Pop(d)) /\ Stays(s, Pop(d))
             /\ {"post_as_anon", "enter_subject"} \cap Levels(Tail(d.stack)) = {}
             /\ "return_forward" \in Levels(Tail(d.stack))
<1> DEFINE g == FreeText(s)
           p == Push(g, "return_forward")
           d == Push(p, "dummy")
<1>1. /\ Ready(g) /\ Stays(s, g) /\ g.stack = s.stack /\ g.draft = s.draft
  BY ReadyFree
<1>2. /\ Bare(Tail(s.stack))
      /\ Levels(s.stack) = {First(s.stack)} \cup Levels(Tail(s.stack))
  BY OnPromptBare, TopFits DEF OnPrompt, Ready, Sound
<1> HIDE DEF g
<1>3. Lies("return_forward", g.stack)
  BY <1>1, TakersAre DEF Lies, Desked, Never, Args, OnPrompt, ConfigPrompt, Finders, Editors
<1>4. Ready(p) /\ Same(g, p) /\ LaidOn(p, "return_forward", g.stack)
  BY <1>1, <1>3, ReadyPush, Named DEF Never, Args, Needs
<1> HIDE DEF p
<1>5. /\ d \in Session /\ d.stack = <<"dummy">> \o p.stack
      /\ Same(p, d) /\ LaidOn(d, "dummy", p.stack)
  BY <1>4, PushFacts, Named DEF Ready, Sound
<1>6. Pop(d) = p
  <2>1. p \in Session
    BY <1>4 DEF Ready, Sound
  <2>2. d.stack # << >> /\ Tail(d.stack) = p.stack
    BY <1>5 DEF LaidOn
  <2>3. Pop(d) = [d EXCEPT !.stack = p.stack]
    BY <2>2 DEF Pop, Empty
  <2> QED
    BY <2>1, <2>3 DEF Push, Session
<1> HIDE DEF d
<1>7. Tail(d.stack) = p.stack /\ Levels(p.stack) = {"return_forward"} \cup Levels(s.stack)
  BY <1>1, <1>4, <1>5 DEF LaidOn
<1>8. d \in Session /\ d.stack # << >> /\ d.sysop = s.sysop /\ d.draft = s.draft
  BY <1>1, <1>4, <1>5 DEF Same, Stays, LaidOn
<1>9. Ready(Pop(d)) /\ Stays(s, Pop(d))
  BY <1>1, <1>4, <1>6 DEF Same, Stays
<1>10. {"post_as_anon", "enter_subject"} \cap Levels(Tail(d.stack)) = {}
  BY <1>2, <1>7 DEF Bare
<1> QED
  BY <1>7, <1>8, <1>9, <1>10 DEF d, p, g

\* state_enter_forward_recipients preserves the invariant.
LEMMA StateEnterForwardRecipientsKept ==
  ASSUME IInv, NEW u \in User, StateEnterForwardRecipients(u)
  PROVE  Kept
<1> DEFINE s == us[u]
           d == Push(Push(FreeText(s), "return_forward"), "dummy")
<1>1. CASE Asks(u, "enter_forward_recipients")
  BY <1>1, AsksKept DEF Never, Args, Finders
<1>2. ASSUME Keyed(u, "enter_forward_recipients")
      PROVE  /\ Ready(s) /\ s.stack # << >> /\ First(s.stack) = "enter_forward_recipients"
             /\ s.online
  BY <1>2, KeyedReady DEF Never, Args, Finders
<1>3. CASE Keyed(u, "enter_forward_recipients") /\ Do(u, {Ret(s)})
  BY <1>2, <1>3, OnPromptPop, DoKept DEF OnPrompt
<1>4. CASE Keyed(u, "enter_forward_recipients") /\ SaveMessageRoom(u, d, "mail")
  <2>1. /\ d \in Session /\ d.stack # << >>
        /\ Ready(Pop(d)) /\ Stays(s, Pop(d))
        /\ {"post_as_anon", "enter_subject"} \cap Levels(Tail(d.stack)) = {}
        /\ "return_forward" \in Levels(Tail(d.stack))
    BY <1>2, <1>4, ForwardFacts
  <2> HIDE DEF d
  <2>2. "mail" \in Room
    BY DEF Room
  <2> QED
    BY <1>2, <1>4, <2>1, <2>2, PostKept
<1> QED
  BY <1>1, <1>3, <1>4 DEF StateEnterForwardRecipients

\* state_forward_room preserves the invariant.
LEMMA StateForwardRoomKept ==
  ASSUME IInv, NEW u \in User, StateForwardRoom(u)
  PROVE  Kept
<1> DEFINE s == us[u]
           d == Push(Push(FreeText(s), "return_forward"), "dummy")
<1>1. CASE Asks(u, "forward_room")
  BY <1>1, AsksKept DEF Never, Args, Finders
<1>2. ASSUME Keyed(u, "forward_room")
      PROVE  /\ Ready(s) /\ s.stack # << >> /\ First(s.stack) = "forward_room" /\ s.online
             /\ Levels(s.stack) = {"forward_room"} \cup Levels(Tail(s.stack))
  BY <1>2, KeyedReady DEF Never, Args, Finders
<1>3. CASE Keyed(u, "forward_room") /\ Do(u, {Ret(s)})
  BY <1>2, <1>3, OnPromptPop, DoKept DEF OnPrompt
<1>4. ASSUME Keyed(u, "forward_room"), NEW r \in Room, KickedFrom(u, r) => s.sysop,
             IF s.draft = "none" THEN Do(u, {Harm(s, "null_message")})
             ELSE SaveMessageRoom(u, d, r)
      PROVE  Kept
  <2>1. CASE s.draft = "none"
    <3>1. "return_forward" \notin Levels(s.stack)
      <4>1. Bare(Tail(s.stack))
        BY <1>2, <1>4, OnPromptBare DEF OnPrompt
      <4> QED
        BY <1>2, <1>4, <4>1 DEF Bare
    <3>2. "thrown" \in s.by
      BY <1>2, <1>4, <2>1, <3>1 DEF Ready, Sound, DraftKept, Made
    <3>3. Good(Harm(s, "null_message")) /\ Stays(s, Harm(s, "null_message"))
      BY <1>2, <1>4, <3>2, ReadyHarm
    <3> QED
      BY <1>2, <1>4, <2>1, <3>3, DoKept
  <2>2. CASE s.draft # "none"
    <3>1. /\ d \in Session /\ d.stack # << >> /\ d.sysop = s.sysop
          /\ Ready(Pop(d)) /\ Stays(s, Pop(d))
          /\ {"post_as_anon", "enter_subject"} \cap Levels(Tail(d.stack)) = {}
          /\ "return_forward" \in Levels(Tail(d.stack))
      BY <1>2, <1>4, ForwardFacts
    <3>2. SaveMessageRoom(u, d, r)
      BY <1>4, <2>2
    <3> HIDE DEF d
    <3> QED
      BY <1>2, <1>4, <3>1, <3>2, PostKept
  <2> QED
    BY <2>1, <2>2
<1> QED
  BY <1>1, <1>3, <1>4 DEF StateForwardRoom

\* state_return_forward preserves the invariant.
LEMMA StateReturnForwardKept ==
  ASSUME IInv, NEW u \in User, StateReturnForward(u)
  PROVE  Kept
<1> DEFINE s == us[u]
           p == Pop(s)
           b == Pop(p)
<1>1. /\ Ready(s) /\ s.stack # << >> /\ First(s.stack) = "return_forward" /\ s.online
      /\ Lies("return_forward", Tail(s.stack))
      /\ Levels(s.stack) = {"return_forward"} \cup Levels(Tail(s.stack))
      /\ Do(u, {Ret(p)})
  BY CalledReady DEF StateReturnForward, Never, Args, Finders
<1> HIDE DEF s
<1>2. s \in Session /\ Fits(s.stack)
  BY <1>1 DEF Ready, Sound
<1>3. p \in Session /\ p.stack = Tail(s.stack) /\ Same(s, p)
  BY <1>1, <1>2, PopFacts
<1>4. First(p.stack) \in {"forward_room", "enter_forward_recipients"} /\ Fits(p.stack)
  BY <1>1, <1>2, <1>3, TopFits DEF Lies, Editors
<1> HIDE DEF p
<1>5. p.stack # << >>
  BY <1>4 DEF First
<1>6. b \in Session /\ b.stack = Tail(p.stack) /\ Same(p, b)
  BY <1>3, <1>5, PopFacts
<1>7. /\ Lies(First(p.stack), Tail(p.stack)) /\ Fits(Tail(p.stack))
      /\ Levels(p.stack) = {First(p.stack)} \cup Levels(Tail(p.stack))
  BY <1>3, <1>4, <1>5, TopFits DEF Editors
<1>8. Bare(b.stack)
  BY <1>4, <1>6, <1>7 DEF Lies, Desked, OnPrompt, Bare
<1> HIDE DEF b
<1>9. Same(s, b) /\ Fits(b.stack) /\ Levels(b.stack) \subseteq Levels(s.stack)
      /\ ~s.edited
  BY <1>1, <1>3, <1>4, <1>6, <1>7, <1>8 DEF Same, Ready, Sound, Bare
<1>10. Sound(b)
  BY <1>1, <1>6, <1>8, <1>9 DEF Ready, Sound, DraftKept, Made, Same, Bare
<1>11. First(b.stack) \notin Never \cup Args
  <2>1. b.stack # << >> => First(b.stack) \in Levels(b.stack)
    BY <1>6, <1>9, TopFits
  <2> QED
    BY <1>8, <2>1 DEF Bare, First, Never, Args
<1>12. Ready(b)
  BY <1>1, <1>9, <1>10, <1>11 DEF Ready, Same, Calm, Both
<1>13. Good(Ret(p)) /\ Same(b, Ret(p))
  BY <1>3, <1>5, <1>12, ReadyLand DEF b
<1>14. Good(Ret(p)) /\ Stays(s, Ret(p))
  BY <1>9, <1>13 DEF Same, Stays
<1> QED
  BY <1>1, <1>14, DoKept DEF s

\* Deleting and undeleting a message preserve the invariant.
LEMMA MarksKept ==
  ASSUME IInv, NEW u \in User, NEW f \in {"delete_msg", "undelete_msg"},
         NEW loop \in {"loop_delete_mail", "loop_undelete_mail"}, Marks(u, f, loop)
  PROVE  Kept
<1> DEFINE s == us[u]
<1>1. CASE Asks(u, f)
  BY <1>1, AsksKept DEF Never, Args, Finders
<1>2. ASSUME Keyed(u, f)
      PROVE  /\ Ready(s) /\ s.stack # << >> /\ First(s.stack) = f /\ s.online
             /\ Levels(s.stack) = {f} \cup Levels(Tail(s.stack))
  BY <1>2, KeyedReady DEF Never, Args, Finders
<1>3. CASE Keyed(u, f) /\ Do(u, {Ret(s)})
  BY <1>2, <1>3, OnPromptPop, DoKept DEF OnPrompt
<1>4. CASE Keyed(u, f) /\ ~s.read /\ Do(u, {Harm(s, "null_message")})
  <2>1. "thrown" \in s.by
    BY <1>2, <1>4 DEF Ready, Sound, DraftKept, Made
  <2>2. Good(Harm(s, "null_message")) /\ Stays(s, Harm(s, "null_message"))
    BY <1>2, <1>4, <2>1, ReadyHarm
  <2> QED
    BY <1>2, <1>4, <2>2, DoKept
<1>5. CASE Keyed(u, f) /\ Do(u, {Jump(s, loop)})
  <2>1. /\ Ready(Pop(s)) /\ Pop(s).stack = Tail(s.stack)
    BY <1>2, <1>5, OnPromptPop DEF OnPrompt
  <2>2. Plain(loop)
    BY TakersAre DEF Plain, Desked, OnPrompt, ConfigPrompt, Finders, Editors
  <2>3. Lies(loop, Tail(s.stack))
    BY <2>1, <2>2, PlainLies DEF Ready
  <2>4. Good(Jump(s, loop)) /\ Same(s, Jump(s, loop))
    BY <1>2, <1>5, <2>3, ReadyJump, TakersAre, Named DEF Finders, Args, Needs
  <2> QED
    BY <1>2, <1>5, <2>4, DoKept, SameStays
<1> QED
  BY <1>1, <1>3, <1>4, <1>5 DEF Marks

\* The loops over the recipients of a mail
LEMMA LoopKept ==
  ASSUME IInv, NEW u \in User,
         NEW f \in {"loop_send_mail", "loop_delete_mail", "loop_undelete_mail"},
         \/ Called(u, f, "init") /\ Do(u, {Ret(us[u]), Wait(us[u])})
         \/ Called(u, f, "init")
            /\ Do(u, {IF us[u].draft = "none" THEN Ret(us[u]) ELSE Wait(us[u])})
         \/ Keyed(u, f) /\ Do(u, {us[u], Ret(us[u])})
  PROVE  Kept
<1> DEFINE s == us[u]
<1>1. Ready(s) /\ s.stack # << >> /\ First(s.stack) = f /\ s.online /\ Good(s)
  BY CalledReady, KeyedReady, CalledFacts, KeyedFacts DEF Never, Args, Finders
<1>2. Good(Ret(s)) /\ Stays(s, Ret(s)) /\ Good(Wait(s)) /\ Stays(s, Wait(s))
  BY <1>1, ReadyRet, ReadyWait, SameStays, TakersAre
<1>3. Stays(s, s)
  BY DEF Stays
<1> QED
  BY <1>1, <1>2, <1>3, DoKept

\* Aborting a message preserves the invariant.
LEMMA AbortMessageKept ==
  ASSUME IInv, NEW u \in User, AbortMessage(u)
  PROVE  Kept
<1> DEFINE s == us[u]
<1>1. /\ Ready(s) /\ s.stack # << >> /\ First(s.stack) = "abort_message" /\ s.online
      /\ Do(u, {Ret(FreeText(s))})
  BY CalledReady DEF AbortMessage, Never, Args, Finders
<1>2. Ready(FreeText(s)) /\ Stays(s, FreeText(s)) /\ FreeText(s).stack = s.stack
  BY <1>1, ReadyFree
<1>3. Good(Ret(FreeText(s))) /\ Same(FreeText(s), Ret(FreeText(s)))
  BY <1>1, <1>2, ReadyRet, TakersAre
<1>4. Stays(s, Ret(FreeText(s)))
  BY <1>2, <1>3 DEF Same, Stays
<1> QED
  BY <1>1, <1>3, <1>4, DoKept

\* The handlers of PostMenus preserve the invariant.
LEMMA PostingKept ==
  ASSUME IInv, NEW u \in User, Posting(u)
  PROVE  Kept
<1>1. CASE StateDeleteMsg(u) \/ StateUndeleteMsg(u)
  BY <1>1, MarksKept DEF StateDeleteMsg, StateUndeleteMsg
<1>2. CASE LoopSendMail(u) \/ LoopDeleteMail(u) \/ LoopUndeleteMail(u)
  BY <1>2, LoopKept DEF LoopSendMail, LoopDeleteMail, LoopUndeleteMail
<1> QED
  BY <1>1, <1>2, StatePostAsAnonKept, StateEnterAnonymousKept, StateEnterMailRecipientsKept,
     StateRecipientsErrKept, StateEnterSubjectKept, EditorKept, AbortMessageKept,
     SaveMessageKept, StateEnterForwardRecipientsKept, StateForwardRoomKept,
     StateReturnForwardKept DEF Posting
------------------------------------------------------------------------------
\* In the rooms R nobody owes what he does not owe yet, but for u in r.
Owing(R, u, r) ==
  \A w \in User, x \in Public : w \in R[x].owed => w \in rooms[x].owed \/ (w = u /\ x = r)

\* What RTF_ROOM_EDITED owes, and save_Room
LEMMA OweFacts ==
  ASSUME TypeOK, NEW u \in User, NEW r \in Room
  PROVE  /\ Owe(u, r) \in [Public -> RoomInfo] /\ SaveRoom(r) \in [Public -> RoomInfo]
         /\ \A x \in Public :
              /\ Owe(u, r)[x].alive = rooms[x].alive /\ Owe(u, r)[x].aides = rooms[x].aides
              /\ Owe(u, r)[x].kicked = rooms[x].kicked
              /\ SaveRoom(r)[x].alive = rooms[x].alive /\ SaveRoom(r)[x].aides = rooms[x].aides
              /\ SaveRoom(r)[x].kicked = rooms[x].kicked
              /\ x = r => SaveRoom(r)[x].owed = {}
              /\ SaveRoom(r)[x].owed \subseteq rooms[x].owed
         /\ Owing(Owe(u, r), u, r)
<1>1. rooms \in [Public -> RoomInfo]
  BY DEF TypeOK
<1>2. CASE r \notin Public
  BY <1>1, <1>2 DEF Owe, SaveRoom, Owing
<1>3. CASE r \in Public
  <2>1. rooms[r].owed \cup {u} \in SUBSET User /\ {} \in SUBSET User
    BY <1>1, <1>3 DEF RoomInfo
  <2>2. Owe(u, r) = [rooms EXCEPT ![r].owed = rooms[r].owed \cup {u}]
    BY <1>3 DEF Owe
  <2> DEFINE X == rooms[r].owed \cup {u}
             Y == [rooms[r] EXCEPT !.owed = {}, !.unsaved = FALSE]
  <2>3. SaveRoom(r) = [rooms EXCEPT ![r] = Y]
    BY <1>3 DEF SaveRoom
  <2>4. X \in SUBSET User
    BY <2>1
  <2>5. Owe(u, r) = [rooms EXCEPT ![r].owed = X]
    BY <2>2
  <2>8. /\ Y \in RoomInfo /\ Y.alive = rooms[r].alive /\ Y.aides = rooms[r].aides
        /\ Y.kicked = rooms[r].kicked /\ Y.owed = {}
    BY <1>1, <1>3 DEF RoomInfo
  <2>9. X \subseteq rooms[r].owed \cup {u}
    OBVIOUS
  <2> HIDE DEF X, Y
  <2>6. /\ Owe(u, r) \in [Public -> RoomInfo]
        /\ \A x \in Public :
             /\ Owe(u, r)[x].alive = rooms[x].alive /\ Owe(u, r)[x].aides = rooms[x].aides
             /\ Owe(u, r)[x].kicked = rooms[x].kicked
             /\ Owe(u, r)[x].owed = IF x = r THEN X ELSE rooms[x].owed
    BY <1>1, <1>3, <2>4, <2>5 DEF RoomInfo
  <2>7. /\ SaveRoom(r) \in [Public -> RoomInfo]
        /\ \A x \in Public :
             /\ SaveRoom(r)[x].alive = rooms[x].alive /\ SaveRoom(r)[x].aides = rooms[x].aides
             /\ SaveRoom(r)[x].kicked = rooms[x].kicked
             /\ SaveRoom(r)[x].owed = IF x = r THEN {} ELSE rooms[x].owed
    BY <1>1, <1>3, <2>3, <2>8
  <2>10. Owing(Owe(u, r), u, r)
    BY <2>6, <2>9 DEF Owing
  <2> QED
    BY <2>6, <2>7, <2>10
<1> QED
  BY <1>2, <1>3

\* Who is no aide any more has nothing on his stack that needs one.
LEMMA GoodAide ==
  ASSUME NEW s, Good(s), NEW b \in BOOLEAN, b => s.aide
  PROVE  Good([s EXCEPT !.aide = b])
<1> DEFINE t == [s EXCEPT !.aide = b]
<1>1. /\ t \in Session /\ t.stack = s.stack /\ t.key = s.key /\ t.room = s.room
      /\ t.edited = s.edited /\ t.draft = s.draft /\ t.read = s.read
      /\ t.pager = s.pager /\ t.harm = s.harm /\ t.by = s.by /\ t.aide = b /\ t.sysop = s.sysop
  <2>1. s \in Session
    BY DEF Good, Sound
  <2> QED
    BY <2>1 DEF Session
<1> HIDE DEF t
<1>2. Sound(t)
  BY <1>1 DEF Good, Sound, DraftKept, Made
<1>3. PagerKept(t) /\ FlagsKept(t)
  BY <1>1 DEF Good, PagerKept, FlagsKept, Calm, Both
<1>4. Idle(t) /\ Caused(t)
  BY <1>1 DEF Good, Idle, Caused, Both
<1> QED
  BY <1>2, <1>3, <1>4 DEF Good, t

\* RTF_ROOM_EDITED may be set while the config menu is on the stack.
LEMMA GoodEdited ==
  ASSUME NEW s, Good(s), NEW b \in BOOLEAN, b => "room_config_menu" \in Levels(s.stack)
  PROVE  LET t == [s EXCEPT !.edited = b]
         IN  /\ Good(t) /\ t.stack = s.stack /\ t.online = s.online /\ t.room = s.room
             /\ t.sysop = s.sysop /\ t.aide = s.aide /\ t.by = s.by /\ t.edited = b
             /\ t.harm = s.harm
<1> DEFINE t == [s EXCEPT !.edited = b]
<1>1. /\ t \in Session /\ t.stack = s.stack /\ t.key = s.key /\ t.room = s.room
      /\ t.edited = b /\ t.draft = s.draft /\ t.read = s.read
      /\ t.pager = s.pager /\ t.harm = s.harm /\ t.by = s.by
      /\ t.online = s.online /\ t.sysop = s.sysop /\ t.aide = s.aide
  <2>1. s \in Session
    BY DEF Good, Sound
  <2> QED
    BY <2>1 DEF Session
<1> HIDE DEF t
<1>2. Sound(t)
  BY <1>1 DEF Good, Sound, DraftKept, Made
<1>3. PagerKept(t) /\ FlagsKept(t)
  BY <1>1 DEF Good, PagerKept, FlagsKept, Calm, Both
<1>4. Idle(t) /\ Caused(t)
  BY <1>1 DEF Good, Idle, Caused, Both
<1> QED
  BY <1>1, <1>2, <1>3, <1>4 DEF Good, t

\* What the config menu does to its room: nobody is moved, and at most somebody else's
\* aide flag is cleared.
LEMMA ConfigKept ==
  ASSUME IInv, NEW u \in User, us[u].online, us' \in [User -> Session], UNCHANGED listed,
         \A w \in User \ {u} : us'[w] = us[w] \/ us'[w] = [us[w] EXCEPT !.aide = FALSE],
         NEW t, us'[u] = t, Good(t), t.online, t.room = us[u].room, t.sysop => us[u].sysop,
         t.by \cap {"moved", "created"} = us[u].by \cap {"moved", "created"},
         rooms' \in [Public -> RoomInfo],
         \A x \in Public : rooms'[x].alive = rooms[x].alive,
         t.aide /\ ~t.sysop =>
           (t.room \in Public /\ u \in rooms'[t.room].aides) \/ "moved" \in t.by,
         \A w \in User \ {u}, x \in Public :
           us'[w].room = x /\ us'[w].aide /\ w \in rooms[x].aides => w \in rooms'[x].aides,
         \A w \in User :
           us[w].online /\ us[w].room = "club" /\ w \in rooms'["club"].kicked =>
             w \in rooms["club"].kicked \/ w \in Sysops,
         us[u].edited =>
           t.edited \/ \A x \in Public : x = t.room => rooms'[x].owed = {},
         \A w \in User, x \in Public :
           w \in rooms'[x].owed => w \in rooms[x].owed \/ (w = u /\ t.edited /\ x = t.room)
  PROVE  Kept
<1>1. TypeOK' /\ rooms'["lobby"].alive
  BY DEF TypeOK, IInv, Public
<1>2. us \in [User -> Session]
  BY DEF TypeOK, IInv
<1>3. "club" \in Public
  BY DEF Public
<1>4. ASSUME NEW v \in User
      PROVE  Placed(us[v], v)' /\ Caused(us[v])' /\ (us[v].online => Good(us[v]))'
  <2>1. CASE v = u
    <3>1. Placed(us[u], u)
      BY DEF IInv
    <3>2. Placed(us[v], v)'
      BY <1>3, <2>1, <3>1 DEF Placed, Exists, IsAide, KickedFrom
    <3> QED
      BY <2>1, <3>2 DEF Good
  <2>2. CASE v # u
    <3> DEFINE y == us'[v]
    <3>1. Placed(us[v], v) /\ Caused(us[v]) /\ (us[v].online => Good(us[v]))
      BY DEF IInv
    <3>2. y = us[v] \/ y = [us[v] EXCEPT !.aide = FALSE]
      BY <2>2
    <3>3. us[v] \in Session /\ us[v].aide \in BOOLEAN /\ FALSE \in BOOLEAN
      BY <1>2 DEF Session
    <3>4. us[v].online => Good(y)
      <4>1. us[v].online => Good([us[v] EXCEPT !.aide = FALSE])
        BY <3>1, <3>3, GoodAide
      <4> QED
        BY <3>1, <3>2, <4>1
    <3>5. /\ y.online = us[v].online /\ y.room = us[v].room /\ y.sysop = us[v].sysop
          /\ y.by = us[v].by /\ y.harm = us[v].harm /\ (y.aide => us[v].aide)
          /\ y.stack = us[v].stack
      BY <3>2, <3>3 DEF Session
    <3>6. Caused(y)
      BY <3>1, <3>5 DEF Caused, Both
    <3>7. \A x \in Public : y.room = x /\ y.aide /\ v \in rooms[x].aides => v \in rooms'[x].aides
      BY <2>2
    <3> HIDE DEF y
    <3>8. /\ y.online => (y.room \in Public => rooms'[y.room].alive)
      BY <3>1, <3>5 DEF Placed, Exists
    <3>9. y.online => (y.aide /\ ~y.sysop =>
             (y.room \in Public /\ v \in rooms'[y.room].aides) \/ "moved" \in y.by)
      BY <3>1, <3>5, <3>7 DEF Placed, IsAide
    <3>10. y.online /\ y.room = "club" /\ v \in rooms'["club"].kicked => v \in Sysops
      BY <1>3, <3>1, <3>5 DEF Placed, KickedFrom
    <3>11. /\ "moved" \in y.by => y.room = "lobby" \/ "created" \in y.by
           /\ "created" \notin y.by =>
                \A r \in Public :
                  listed'[r][v] = IF y.online /\ y.room = r /\ "moved" \notin y.by THEN 1 ELSE 0
           /\ y.sysop => v \in Sysops
      BY <3>1, <3>5 DEF Placed
    <3>12. Placed(us[v], v)'
      BY <3>8, <3>9, <3>10, <3>11 DEF Placed, Exists, IsAide, KickedFrom, y
    <3> QED
      BY <3>4, <3>5, <3>6, <3>12 DEF y
  <2> QED
    BY <2>1, <2>2
<1>5. EditsKeptStep
  <2> SUFFICES ASSUME NEW v \in User, NEW r \in Public,
                      v \notin rooms[r].owed \/ (us[v].edited /\ us[v].room = r),
                      v \in rooms'[r].owed
               PROVE  us'[v].edited /\ us'[v].room = r
    BY DEF EditsKeptStep
  <2>1. CASE v = u
    BY <2>1
  <2>2. CASE v # u
    <3>1. us[v] \in Session /\ (us'[v] = us[v] \/ us'[v] = [us[v] EXCEPT !.aide = FALSE])
      BY <1>2, <2>2
    <3> QED
      BY <3>1 DEF Session
  <2> QED
    BY <2>1, <2>2
<1> QED
  BY <1>1, <1>4, <1>5 DEF IInv, Kept
\* A prompt of the config menu is left for what is below it, which is the menu or what
\* lies on the menu.
LEMMA ConfigPromptFacts ==
  ASSUME NEW s, Ready(s), s.stack # << >>, First(s.stack) \in ConfigPrompt
  PROVE  /\ Good(Ret(s)) /\ Same(s, Ret(s)) /\ Ret(s).stack = Tail(s.stack)
         /\ "room_config_menu" \in Levels(Tail(s.stack))
<1>1. s \in Session /\ Fits(s.stack)
  BY DEF Ready, Sound
<1>2. Lies(First(s.stack), Tail(s.stack))
  BY <1>1, TopFits
<1>3. First(s.stack) \notin Bound \cup {"return_forward", "room_config_menu"}
  BY TakersAre DEF ConfigPrompt
<1>4. Good(Ret(s)) /\ Same(s, Ret(s))
  BY <1>3, ReadyRet
<1>5. Ret(s).stack = Tail(s.stack)
  <2>1. Pop(s) \in Session /\ Pop(s).stack = Tail(s.stack)
    BY <1>1, PopFacts
  <2>2. Ret(s) = IF Tail(s.stack) = << >> THEN Wait(Pop(s)) ELSE Current(Pop(s))
    BY <1>1, RetFacts DEF Ret, Current
  <2> QED
    BY <2>1, <2>2, WaitFacts, CurrentFacts
<1> QED
  BY <1>2, <1>4, <1>5 DEF Lies

\* A change of the room that neither kicks anybody out nor unassigns an aide, by a user
\* who goes on as t
LEMMA EditKept ==
  ASSUME IInv, NEW u \in User, us[u].online, NEW t, Good(t), t.online, t.edited,
         t.room = us[u].room, t.sysop = us[u].sysop, t.aide = us[u].aide, t.by = us[u].by,
         us' = [us EXCEPT ![u] = t], UNCHANGED listed,
         rooms' \in [Public -> RoomInfo],
         \A x \in Public : /\ rooms'[x].alive = rooms[x].alive
                           /\ rooms[x].aides \subseteq rooms'[x].aides
                           /\ rooms'[x].kicked \subseteq rooms[x].kicked,
         Owing(rooms', u, t.room)
  PROVE  Kept
<1>1. us \in [User -> Session] /\ t \in Session /\ Placed(us[u], u)
  BY DEF IInv, TypeOK, Good, Sound
<1>2. /\ us' \in [User -> Session] /\ us'[u] = t
      /\ \A w \in User \ {u} : us'[w] = us[w]
  BY <1>1
<1>3. t.aide /\ ~t.sysop => (t.room \in Public /\ u \in rooms'[t.room].aides) \/ "moved" \in t.by
  BY <1>1 DEF Placed, IsAide
<1>4. "club" \in Public
  BY DEF Public
<1>5. \A w \in User, x \in Public :
        w \in rooms'[x].owed => w \in rooms[x].owed \/ (w = u /\ t.edited /\ x = t.room)
  BY DEF Owing
<1> QED
  BY <1>2, <1>3, <1>4, <1>5, ConfigKept

\* A change of the room that must be saved, and what u's session is after it
LEMMA ChangeKept ==
  ASSUME IInv, NEW u \in User, us[u].online, NEW s, Good(s), Same(us[u], s),
         "room_config_menu" \in Levels(s.stack),
         us' = [us EXCEPT ![u] = [s EXCEPT !.edited = TRUE]], UNCHANGED listed,
         rooms' \in [Public -> RoomInfo],
         \A x \in Public : /\ rooms'[x].alive = rooms[x].alive
                           /\ rooms[x].aides \subseteq rooms'[x].aides
                           /\ rooms'[x].kicked \subseteq rooms[x].kicked,
         Owing(rooms', u, s.room)
  PROVE  Kept
<1> DEFINE t == [s EXCEPT !.edited = TRUE]
<1>1. /\ Good(t) /\ t.online = s.online /\ t.room = s.room /\ t.sysop = s.sysop
      /\ t.aide = s.aide /\ t.by = s.by /\ t.edited
  BY GoodEdited
<1>2. us' = [us EXCEPT ![u] = t]
  OBVIOUS
<1> HIDE DEF t
<1>3. /\ t.online /\ t.room = us[u].room /\ t.sysop = us[u].sysop /\ t.aide = us[u].aide
      /\ t.by = us[u].by /\ Owing(rooms', u, t.room)
  BY <1>1 DEF Same
<1> QED
  BY <1>1, <1>2, <1>3, EditKept

\* A change that is to be saved preserves the invariant.
LEMMA ChangedKept ==
  ASSUME IInv, NEW u \in User, us[u].online, NEW s, Good(s), Same(us[u], s),
         "room_config_menu" \in Levels(s.stack), Changed(u, s)
  PROVE  Kept
<1>1. TypeOK /\ s.room \in Room
  BY DEF IInv, Good, Sound, Session
<1>2. /\ Owe(u, s.room) \in [Public -> RoomInfo]
      /\ \A x \in Public :
           /\ Owe(u, s.room)[x].alive = rooms[x].alive /\ Owe(u, s.room)[x].aides = rooms[x].aides
           /\ Owe(u, s.room)[x].kicked = rooms[x].kicked
      /\ Owing(Owe(u, s.room), u, s.room)
  BY <1>1, OweFacts
<1> QED
  BY <1>2, ChangeKept DEF Changed

\* The room is saved, or nothing was changed: the flag is cleared.
LEMMA SavedKept ==
  ASSUME IInv, NEW u \in User, us[u].online, NEW t, Good(t), t.online, t.room = us[u].room,
         t.sysop => us[u].sysop, t.aide => us[u].aide,
         t.aide /\ ~t.sysop => IsAide(u, t.room) \/ "moved" \in t.by,
         t.by \cap {"moved", "created"} = us[u].by \cap {"moved", "created"},
         us' = [us EXCEPT ![u] = t], UNCHANGED listed,
         rooms' = SaveRoom(t.room) \/ (rooms' = rooms /\ ~us[u].edited)
  PROVE  Kept
<1>1. TypeOK /\ t.room \in Room /\ t \in Session /\ us \in [User -> Session]
      /\ rooms \in [Public -> RoomInfo]
  BY DEF IInv, TypeOK, Good, Sound, Session
<1>2. /\ us' \in [User -> Session] /\ us'[u] = t
      /\ \A w \in User \ {u} : us'[w] = us[w]
  BY <1>1
<1>3. /\ rooms' \in [Public -> RoomInfo]
      /\ \A x \in Public :
           /\ rooms'[x].alive = rooms[x].alive /\ rooms'[x].aides = rooms[x].aides
           /\ rooms'[x].kicked = rooms[x].kicked /\ rooms'[x].owed \subseteq rooms[x].owed
      /\ us[u].edited => \A x \in Public : x = t.room => rooms'[x].owed = {}
  BY <1>1, OweFacts
<1>4. t.aide /\ ~t.sysop => (t.room \in Public /\ u \in rooms'[t.room].aides) \/ "moved" \in t.by
  BY <1>3 DEF IsAide
<1>5. "club" \in Public
  BY DEF Public
<1> QED
  BY <1>2, <1>3, <1>4, <1>5, ConfigKept

\* Leaving the config menu preserves the invariant.
LEMMA LeaveConfigKept ==
  ASSUME IInv, NEW u \in User, Keyed(u, "room_config_menu"), NEW s,
         s = us[u] \/ s = DropSysopPrivs(u, us[u]), LeaveConfig(u, s)
  PROVE  Kept
<1> DEFINE o == us[u]
           b == s.aide /\ IsAide(u, s.room)
           x == [s EXCEPT !.edited = FALSE, !.aide = b]
           t == Ret(x)
<1>1. Ready(o) /\ o.stack # << >> /\ First(o.stack) = "room_config_menu" /\ o.online
  BY KeyedReady DEF Never, Args, Finders
<1> HIDE DEF o
<1>2. o \in Session
  BY <1>1 DEF Ready, Sound
<1>3. /\ s \in Session /\ s.stack = o.stack /\ s.key = o.key /\ s.room = o.room
      /\ s.edited = o.edited /\ s.draft = o.draft /\ s.read = o.read /\ s.pager = o.pager
      /\ s.harm = o.harm /\ s.by = o.by /\ s.online = o.online /\ (s.sysop => o.sysop)
      /\ (s.aide => o.aide)
  <2>1. CASE s = o
    BY <1>2, <2>1
  <2>2. CASE s = DropSysopPrivs(u, o)
    <3> DEFINE c == o.aide /\ IsAide(u, o.room)
    <3>1. s = [o EXCEPT !.sysop = FALSE, !.aide = c]
      BY <2>2 DEF DropSysopPrivs
    <3>2. c \in BOOLEAN /\ (c => o.aide)
      BY <1>2 DEF Session
    <3> HIDE DEF c
    <3> QED
      BY <1>2, <3>1, <3>2 DEF Session
  <2> QED
    BY <2>1, <2>2 DEF o
<1>4. x = [s EXCEPT !.edited = FALSE, !.aide = @ /\ IsAide(u, s.room)] /\ b \in BOOLEAN
  BY <1>3 DEF Session
<1>5. b => s.aide /\ IsAide(u, s.room)
  OBVIOUS
<1> HIDE DEF b
<1>6. /\ x \in Session /\ x.stack = o.stack /\ x.key = o.key /\ x.room = o.room
      /\ ~x.edited /\ x.draft = o.draft /\ x.read = o.read /\ x.pager = o.pager
      /\ x.harm = o.harm /\ x.by = o.by /\ x.online = o.online /\ x.sysop = s.sysop /\ x.aide = b
  BY <1>3, <1>4 DEF Session
<1>7. us' = [us EXCEPT ![u] = t] /\ UNCHANGED listed
      /\ rooms' = IF s.edited THEN SaveRoom(s.room) ELSE rooms
  BY <1>4 DEF LeaveConfig
<1> HIDE DEF x
<1>8. Ready(x)
  <2>1. "room_config_menu" \in Levels(o.stack)
    BY <1>1, TopFits DEF Ready, Sound
  <2>2. Made(x)
    BY <1>1, <1>3, <1>5, <1>6, <2>1 DEF Ready, Sound, Made
  <2> QED
    BY <1>1, <1>6, <2>2 DEF Ready, Sound, DraftKept, Calm, Both
<1>9. Good(t) /\ Same(x, t)
  BY <1>1, <1>6, <1>8, ReadyRet, TakersAre
<1> HIDE DEF t
<1>10. /\ t.online /\ t.room = o.room /\ (t.sysop => o.sysop) /\ (t.aide => o.aide)
       /\ (t.aide => IsAide(u, t.room))
       /\ t.by = o.by
  BY <1>1, <1>3, <1>5, <1>6, <1>9 DEF Same
<1>11. rooms' = SaveRoom(t.room) \/ (rooms' = rooms /\ ~o.edited)
  BY <1>3, <1>7, <1>10
<1> QED
  BY <1>1, <1>7, <1>9, <1>10, <1>11, SavedKept DEF o

\* The help of a menu: a text that is paged before a key brings the menu back
LEMMA HelpFacts ==
  ASSUME NEW s, Ready(s)
  PROVE  LET t == ReadText(Push(FreeText(s), "press_any_key"))
         IN  Good(t) /\ Stays(s, t)
<1> DEFINE g == FreeText(s)
           p == Push(g, "press_any_key")
<1>1. Ready(g) /\ Stays(s, g)
  BY ReadyFree
<1> HIDE DEF g
<1>2. Plain("press_any_key")
  BY TakersAre DEF Plain, Desked, OnPrompt, ConfigPrompt, Finders, Editors
<1>3. Lies("press_any_key", g.stack)
  BY <1>1, <1>2, PlainLies DEF Ready
<1>4. Ready(p) /\ Same(g, p)
  BY <1>1, <1>3, ReadyPush, Named DEF Never, Args, Needs
<1> HIDE DEF p
<1>5. Good(ReadText(p)) /\ Stays(p, ReadText(p))
  BY <1>4, ReadyReadText
<1>6. Stays(s, ReadText(p))
  BY <1>1, <1>4, <1>5 DEF Same, Stays
<1> QED
  BY <1>5, <1>6 DEF p, g

\* The boss screen, and other functions that ask nothing of what they lie on
LEMMA ReadyCallPlain ==
  ASSUME NEW s, Ready(s), NEW f \in Frame, Plain(f), f \notin Args, f # "sysop_menu"
  PROVE  Good(Call(s, f)) /\ Stays(s, Call(s, f))
<1>1. Lies(f, s.stack)
  BY PlainLies DEF Ready
<1>2. f \notin Finders /\ Needs(f, s)
  BY DEF Plain, Desked, Needs, OnPrompt
<1> QED
  BY <1>1, <1>2, ReadyCall, SameStays

\* Functions that ask nothing of what they lie on
LEMMA Plains ==
  \A f \in {"boss", "press_any_key", "download_text", "lock_password", "ask_away_reason",
            "save_roominfo", "abort_roominfo"} :
    Plain(f) /\ f \in Frame /\ f \notin Args /\ f # "sysop_menu"
BY TakersAre, Named DEF Plain, Desked, OnPrompt, ConfigPrompt, Finders, Editors, Args

\* RTF_ROOM_RESIZED does not matter to a session.
LEMMA ReadyResized ==
  ASSUME NEW s, Ready(s), NEW b \in BOOLEAN
  PROVE  LET d == [s EXCEPT !.resized = b]
         IN  Ready(d) /\ Same(s, d) /\ d.stack = s.stack
<1> DEFINE d == [s EXCEPT !.resized = b]
<1>1. d \in Session /\ d.stack = s.stack /\ Same(s, d)
  <2>1. s \in Session
    BY DEF Ready, Sound
  <2> QED
    BY <2>1 DEF Session, Same
<1> HIDE DEF d
<1>2. Ready(d)
  BY <1>1 DEF Ready, Sound, DraftKept, Made, Calm, Both, Same
<1> QED
  BY <1>1, <1>2 DEF d

\* The room may be another one in its size: that is not saved, and nothing else is changed.
LEMMA ResizeKept ==
  ASSUME IInv, NEW u \in User, us[u].online, NEW t, Good(t), Stays(us[u], t),
         us' = [us EXCEPT ![u] = t], rooms' \in Resized(us[u]), UNCHANGED listed
  PROVE  Kept
<1>1. /\ us \in [User -> Session] /\ t \in Session /\ rooms \in [Public -> RoomInfo]
      /\ Placed(us[u], u)
  BY DEF IInv, TypeOK, Good, Sound
<1>2. /\ us' \in [User -> Session] /\ us'[u] = t
      /\ \A w \in User \ {u} : us'[w] = us[w]
  BY <1>1
<1>3. /\ rooms' \in [Public -> RoomInfo]
      /\ \A x \in Public :
           /\ rooms'[x].alive = rooms[x].alive /\ rooms'[x].aides = rooms[x].aides
           /\ rooms'[x].kicked = rooms[x].kicked /\ rooms'[x].owed = rooms[x].owed
  <2>1. CASE rooms' = rooms
    BY <1>1, <2>1
  <2>2. ASSUME NEW r \in Public, rooms' = [rooms EXCEPT ![r].unsaved = TRUE]
        PROVE  /\ rooms' \in [Public -> RoomInfo]
               /\ \A x \in Public :
                    /\ rooms'[x].alive = rooms[x].alive /\ rooms'[x].aides = rooms[x].aides
                    /\ rooms'[x].kicked = rooms[x].kicked /\ rooms'[x].owed = rooms[x].owed
    BY <1>1, <2>2 DEF RoomInfo
  <2> QED
    BY <2>1, <2>2 DEF Resized
<1>4. t.aide /\ ~t.sysop => (t.room \in Public /\ u \in rooms'[t.room].aides) \/ "moved" \in t.by
  BY <1>1, <1>3 DEF Placed, Stays, IsAide
<1>5. "club" \in Public
  BY DEF Public
<1>6. /\ t.online /\ t.room = us[u].room /\ (t.sysop => us[u].sysop) /\ t.edited = us[u].edited
      /\ t.by \cap {"moved", "created"} = us[u].by \cap {"moved", "created"}
  BY DEF Stays
<1> QED
  BY <1>2, <1>3, <1>4, <1>5, <1>6, ConfigKept

\* state_room_config_menu preserves the invariant.
LEMMA StateRoomConfigMenuKept ==
  ASSUME IInv, NEW u \in User, StateRoomConfigMenu(u)
  PROVE  Kept
<1> DEFINE s == us[u]
<1>1. /\ Ready(s) /\ s.stack # << >> /\ First(s.stack) = "room_config_menu" /\ s.online
      /\ Levels(s.stack) = {"room_config_menu"} \cup Levels(Tail(s.stack))
  BY CalledReady, KeyedReady DEF StateRoomConfigMenu, Never, Args, Finders
<1>2. CASE /\ us' = [us EXCEPT ![u] = ReadMenu([s EXCEPT !.resized = FALSE])]
           /\ rooms' \in Resized(s) /\ UNCHANGED listed
  <2> DEFINE x == [s EXCEPT !.resized = FALSE]
  <2>1. Ready(x) /\ Same(s, x)
    BY <1>1, ReadyResized
  <2> HIDE DEF x
  <2>2. Good(ReadMenu(x)) /\ Stays(s, ReadMenu(x))
    BY <2>1, ReadyReadMenu DEF Same, Stays
  <2>3. us' = [us EXCEPT ![u] = ReadMenu(x)]
    BY <1>2 DEF x
  <2> QED
    BY <1>1, <1>2, <2>2, <2>3, ResizeKept
<1>3. CASE Do(u, {Wait(s)})
  BY <1>1, <1>3, ReadyWait, SameStays, DoKept
<1>4. CASE /\ Keyed(u, "room_config_menu")
           /\ (LeaveConfig(u, s) \/ LeaveConfig(u, DropSysopPrivs(u, s)))
  BY <1>4, LeaveConfigKept
<1>5. CASE Changed(u, Current(s))
  <2>1. Good(Current(s)) /\ Same(s, Current(s))
    BY <1>1, ReadyCurrent
  <2>2. Current(s).stack = s.stack
    BY <1>1, CurrentFacts DEF Ready, Sound
  <2> QED
    BY <1>1, <1>5, <2>1, <2>2, ChangedKept
<1>6. ASSUME NEW f \in ConfigPrompt
      PROVE  /\ Good(Call(s, f)) /\ Stays(s, Call(s, f))
             /\ LET c == Call([s EXCEPT !.resized = TRUE], f) IN Good(c) /\ Stays(s, c)
             /\ Good(EnterName(s, f)) /\ Stays(s, EnterName(s, f))
  <2>1. Lies(f, s.stack)
    BY <1>1, TakersAre DEF Lies, Desked, Never, Args, OnPrompt, ConfigPrompt, Finders, Editors
  <2>2. f \in Frame /\ f \notin Never \cup Finders \cup Args /\ Needs(f, s)
    BY Named DEF ConfigPrompt, Never, Finders, Args, Needs
  <2>3. Good(Call(s, f)) /\ Stays(s, Call(s, f))
    BY <1>1, <2>1, <2>2, ReadyCall, SameStays
  <2>8. LET c == Call([s EXCEPT !.resized = TRUE], f) IN Good(c) /\ Stays(s, c)
    <3> DEFINE x == [s EXCEPT !.resized = TRUE]
    <3>1. Ready(x) /\ Same(s, x) /\ x.stack = s.stack
      BY <1>1, ReadyResized
    <3> HIDE DEF x
    <3>2. Needs(f, x)
      BY <2>2, <3>1 DEF Needs, Same
    <3>3. Good(Call(x, f)) /\ Same(x, Call(x, f))
      BY <2>1, <2>2, <3>1, <3>2, ReadyCall
    <3> QED
      BY <3>1, <3>3 DEF x, Same, Stays
  <2> DEFINE p == Push(s, f)
  <2>4. Ready(p) /\ Same(s, p) /\ LaidOn(p, f, s.stack)
    BY <1>1, <2>1, <2>2, ReadyPush
  <2> HIDE DEF p
  <2>5. f # "scroll_text" /\ f # "room_prompt"
    BY DEF ConfigPrompt
  <2>6. Good(Wait(p)) /\ Same(p, Wait(p))
    BY <2>4, <2>5, ReadyWait DEF LaidOn
  <2>7. Good(EnterName(s, f)) /\ Stays(s, EnterName(s, f))
    BY <2>4, <2>6 DEF EnterName, p, Same, Stays
  <2> QED
    BY <2>3, <2>7, <2>8
<1>7. CASE Do(u, {Call(s, f) : f \in ConfigPrompts(s)} \cup SizeKey(s))
  <2>1. ConfigPrompts(s) \subseteq ConfigPrompt /\ "max_messages" \in ConfigPrompt
    BY DEF ConfigPrompts, ConfigPrompt
  <2>2. \A t \in {Call(s, f) : f \in ConfigPrompts(s)} \cup SizeKey(s) : Good(t) /\ Stays(s, t)
    BY <1>6, <2>1 DEF SizeKey
  <2> QED
    BY <1>1, <1>7, <2>2, DoKept
<1>8. CASE Do(u, {EnterName(s, f) : f \in ConfigNames(s)})
  <2>1. ConfigNames(s) \subseteq ConfigPrompt
    BY DEF ConfigNames, ConfigPrompt
  <2>2. \A t \in {EnterName(s, f) : f \in ConfigNames(s)} : Good(t) /\ Stays(s, t)
    BY <1>6, <2>1
  <2> QED
    BY <1>1, <1>8, <2>2, DoKept
<1>9. CASE Do(u, {Call(s, "boss")})
  BY <1>1, <1>9, ReadyCallPlain, Plains, DoKept
<1>10. CASE Do(u, {ReadText(Push(FreeText(s), "press_any_key"))})
  BY <1>1, <1>10, HelpFacts, DoKept
<1> QED
  BY <1>2, <1>3, <1>4, <1>5, <1>7, <1>8, <1>9, <1>10 DEF StateRoomConfigMenu
\* What the prompts of the config menu have in common: INIT_STATE asks, or returns at
\* once, and a key returns without a change, or with one.
LEMMA PromptKept ==
  ASSUME IInv, NEW u \in User, NEW f \in ConfigPrompt, Called(u, f, "init") \/ Keyed(u, f),
         \/ Do(u, {Wait(us[u])}) \/ Do(u, {Ret(us[u])}) \/ Changed(u, Ret(us[u]))
         \/ \E b \in BOOLEAN : Do(u, {IF b THEN Ret(us[u]) ELSE Wait(us[u])})
  PROVE  Kept
<1> DEFINE s == us[u]
<1>1. f \notin Never \cup Args \cup Finders \cup {"scroll_text", "room_prompt"}
  BY DEF ConfigPrompt, Never, Args, Finders
<1>2. Ready(s) /\ s.stack # << >> /\ First(s.stack) = f /\ s.online
  BY <1>1, CalledReady, KeyedReady
<1>3. /\ Good(Ret(s)) /\ Same(s, Ret(s)) /\ Ret(s).stack = Tail(s.stack)
      /\ "room_config_menu" \in Levels(Tail(s.stack))
  BY <1>2, ConfigPromptFacts
<1>4. Good(Wait(s)) /\ Stays(s, Wait(s)) /\ Stays(s, Ret(s))
  BY <1>1, <1>2, <1>3, ReadyWait, SameStays
<1>5. CASE Changed(u, Ret(s))
  BY <1>2, <1>3, <1>5, ChangedKept
<1>6. CASE \E b \in BOOLEAN : Do(u, {IF b THEN Ret(s) ELSE Wait(s)})
  BY <1>2, <1>3, <1>4, <1>6, DoKept
<1>7. CASE Do(u, {Wait(s)}) \/ Do(u, {Ret(s)})
  BY <1>2, <1>3, <1>4, <1>7, DoKept
<1> QED
  BY <1>5, <1>6, <1>7

\* The plainest prompts of the config menu preserve the invariant.
LEMMA PromptsKept ==
  ASSUME IInv, NEW u \in User,
         \/ StateChangeRoomname(u) \/ StateMaxMessages(u) \/ StateResetCreationDate(u)
         \/ StateRemoveAllPosts(u)
  PROVE  Kept
<1>1. CASE StateChangeRoomname(u)
  BY <1>1, PromptKept DEF StateChangeRoomname, Asks, ConfigPrompt
<1>2. CASE StateMaxMessages(u)
  BY <1>2, PromptKept DEF StateMaxMessages, Asks, ConfigPrompt
<1>3. CASE StateResetCreationDate(u)
  <2> DEFINE b == us[u].room = "mail"
  <2>1. b \in BOOLEAN
    OBVIOUS
  <2>2. \/ Called(u, "reset_creation_date", "init")
           /\ Do(u, {IF b THEN Ret(us[u]) ELSE Wait(us[u])})
        \/ Keyed(u, "reset_creation_date") /\ (Do(u, {Ret(us[u])}) \/ Changed(u, Ret(us[u])))
    BY <1>3 DEF StateResetCreationDate
  <2> HIDE DEF b
  <2> QED
    BY <2>1, <2>2, PromptKept DEF ConfigPrompt
<1>4. CASE StateRemoveAllPosts(u)
  <2> DEFINE b == us[u].room = "mail"
  <2>1. b \in BOOLEAN
    OBVIOUS
  <2>2. \/ Called(u, "remove_all_posts", "init") /\ Do(u, {IF b THEN Ret(us[u]) ELSE Wait(us[u])})
        \/ Keyed(u, "remove_all_posts") /\ Do(u, {Ret(us[u])})
    BY <1>4 DEF StateRemoveAllPosts
  <2> HIDE DEF b
  <2> QED
    BY <2>1, <2>2, PromptKept DEF ConfigPrompt
<1> QED
  BY <1>1, <1>2, <1>3, <1>4

\* state_choose_category preserves the invariant.
LEMMA StateChooseCategoryKept ==
  ASSUME IInv, NEW u \in User, StateChooseCategory(u)
  PROVE  Kept
<1> DEFINE s == us[u]
<1>1. CASE Called(u, "choose_category", "init") /\ Do(u, {ReadMenu(s)})
  <2>1. Ready(s) /\ s.online
    BY <1>1, CalledReady DEF Never, Args, Finders
  <2> QED
    BY <1>1, <2>1, ReadyReadMenu, DoKept
<1>2. CASE Called(u, "choose_category", "prompt") /\ Do(u, {Wait(s)})
  <2>1. Ready(s) /\ s.online /\ First(s.stack) = "choose_category"
    BY <1>2, CalledReady DEF Never, Args, Finders
  <2> QED
    BY <1>2, <2>1, ReadyWait, SameStays, DoKept
<1>3. CASE Keyed(u, "choose_category") /\ (Do(u, {Ret(s)}) \/ Changed(u, Ret(s)))
  BY <1>3, PromptKept DEF ConfigPrompt
<1> QED
  BY <1>1, <1>2, <1>3 DEF StateChooseCategory

\* state_change_roominfo preserves the invariant.
LEMMA StateChangeRoominfoKept ==
  ASSUME IInv, NEW u \in User, StateChangeRoominfo(u)
  PROVE  Kept
<1> DEFINE s == us[u]
           S == {Ret(s), Call(s, "boss"), ReadText(Push(FreeText(s), "press_any_key")),
                 EditText(s, "save_roominfo", "abort_roominfo"), Call(FreeText(s), "download_text")}
<1>1. CASE Asks(u, "change_roominfo")
  BY <1>1, AsksKept DEF Never, Args, Finders
<1>2. CASE Keyed(u, "change_roominfo") /\ Do(u, S)
  <2>1. Ready(s) /\ s.stack # << >> /\ First(s.stack) = "change_roominfo" /\ s.online
    BY <1>2, KeyedReady DEF Never, Args, Finders
  <2>2. Good(Ret(s)) /\ Stays(s, Ret(s))
    BY <2>1, ConfigPromptFacts, SameStays DEF ConfigPrompt
  <2>3. Good(Call(s, "boss")) /\ Stays(s, Call(s, "boss"))
    BY <2>1, ReadyCallPlain, Plains
  <2>4. LET t == ReadText(Push(FreeText(s), "press_any_key")) IN Good(t) /\ Stays(s, t)
    BY <2>1, HelpFacts
  <2>5. LET t == EditText(s, "save_roominfo", "abort_roominfo") IN Good(t) /\ Stays(s, t)
    <3>1. "abort_roominfo" \in Aborts /\ SaveOf("abort_roominfo") = "save_roominfo"
      BY DEF Aborts, SaveOf
    <3>2. Lies("save_roominfo", s.stack)
      BY <2>1, Plains, PlainLies DEF Ready
    <3> QED
      BY <2>1, <3>1, <3>2, ReadyEditText
  <2>6. LET t == Call(FreeText(s), "download_text") IN Good(t) /\ Stays(s, t)
    <3>1. Ready(FreeText(s)) /\ Stays(s, FreeText(s))
      BY <2>1, ReadyFree
    <3> QED
      BY <3>1, ReadyCallPlain, Plains DEF Stays
  <2> QED
    BY <1>2, <2>1, <2>2, <2>3, <2>4, <2>5, <2>6, DoKept
<1> QED
  BY <1>1, <1>2 DEF StateChangeRoominfo

\* save_roominfo preserves the invariant.
LEMMA SaveRoominfoKept ==
  ASSUME IInv, NEW u \in User, SaveRoominfo(u)
  PROVE  Kept
<1> DEFINE s == us[u]
           g == FreeText(s)
           x == [g EXCEPT !.edited = FALSE]
           t == Ret(x)
<1>1. /\ Ready(s) /\ s.stack # << >> /\ First(s.stack) = "save_roominfo" /\ s.online
      /\ us' = [us EXCEPT ![u] = t] /\ rooms' = SaveRoom(s.room) /\ UNCHANGED listed
  BY CalledReady DEF SaveRoominfo, Never, Args, Finders
<1>2. Ready(g) /\ Stays(s, g) /\ g.stack = s.stack
  BY <1>1, ReadyFree
<1> HIDE DEF g
<1>3. /\ x \in Session /\ x.stack = g.stack /\ x.key = g.key /\ x.room = g.room
      /\ ~x.edited /\ x.draft = g.draft /\ x.read = g.read /\ x.pager = g.pager
      /\ x.harm = g.harm /\ x.by = g.by /\ x.online = g.online /\ x.sysop = g.sysop
      /\ x.aide = g.aide
  <2>1. g \in Session
    BY <1>2 DEF Ready, Sound
  <2> QED
    BY <2>1 DEF Session
<1> HIDE DEF x
<1>4. Ready(x)
  BY <1>2, <1>3 DEF Ready, Sound, DraftKept, Made, Calm, Both
<1>5. Good(t) /\ Same(x, t)
  BY <1>1, <1>2, <1>3, <1>4, ReadyRet, TakersAre
<1> HIDE DEF t
<1>6. /\ t.online /\ t.room = s.room /\ t.sysop = s.sysop /\ t.aide = s.aide
      /\ t.by \cap {"moved", "created"} = s.by \cap {"moved", "created"}
  BY <1>1, <1>2, <1>3, <1>5 DEF Same, Stays
<1>7. t.aide /\ ~t.sysop => IsAide(u, t.room) \/ "moved" \in t.by
  <2>1. Placed(s, u)
    BY DEF IInv
  <2> QED
    BY <1>1, <1>6, <2>1 DEF Placed
<1> QED
  BY <1>1, <1>5, <1>6, <1>7, SavedKept

\* abort_roominfo preserves the invariant.
LEMMA AbortRoominfoKept ==
  ASSUME IInv, NEW u \in User, AbortRoominfo(u)
  PROVE  Kept
<1> DEFINE s == us[u]
<1>1. /\ Ready(s) /\ s.stack # << >> /\ First(s.stack) = "abort_roominfo" /\ s.online
      /\ Do(u, {Ret(FreeText(s))})
  BY CalledReady DEF AbortRoominfo, Never, Args, Finders
<1>2. Ready(FreeText(s)) /\ Stays(s, FreeText(s)) /\ FreeText(s).stack = s.stack
  BY <1>1, ReadyFree
<1>3. Good(Ret(FreeText(s))) /\ Same(FreeText(s), Ret(FreeText(s)))
  BY <1>1, <1>2, ReadyRet, TakersAre
<1>4. Stays(s, Ret(FreeText(s)))
  BY <1>2, <1>3 DEF Same, Stays
<1> QED
  BY <1>1, <1>3, <1>4, DoKept
------------------------------------------------------------------------------
\* Of a room that is being changed, who is kicked or aide of it is set, too.
WithKicked(u, r, X) == [Owe(u, r) EXCEPT ![r].kicked = X]
WithAides(u, r, X) == [Owe(u, r) EXCEPT ![r].aides = X]

\* WithKicked, room by room
LEMMA OweKicked ==
  ASSUME TypeOK, NEW u \in User, NEW r \in Public, NEW X \in SUBSET User
  PROVE  /\ WithKicked(u, r, X) \in [Public -> RoomInfo]
         /\ \A x \in Public :
              /\ WithKicked(u, r, X)[x].alive = rooms[x].alive
              /\ WithKicked(u, r, X)[x].aides = rooms[x].aides
              /\ WithKicked(u, r, X)[x].kicked = IF x = r THEN X ELSE rooms[x].kicked
         /\ Owing(WithKicked(u, r, X), u, r)
<1> DEFINE R == Owe(u, r)
           k == WithKicked(u, r, X)
<1>1. /\ R \in [Public -> RoomInfo]
      /\ \A x \in Public : R[x].alive = rooms[x].alive /\ R[x].aides = rooms[x].aides
                           /\ R[x].kicked = rooms[x].kicked
      /\ Owing(R, u, r)
  BY OweFacts DEF Room
<1>2. k = [R EXCEPT ![r].kicked = X]
  BY DEF WithKicked
<1> HIDE DEF R, k
<1>3. k \in [Public -> RoomInfo]
  BY <1>1, <1>2 DEF RoomInfo
<1>4. R[r] \in RoomInfo
  BY <1>1
<1>5. \A x \in Public : k[x] = IF x = r THEN [R[r] EXCEPT !.kicked = X] ELSE R[x]
  BY <1>1, <1>2
<1>6. \A x \in Public : k[x].alive = R[x].alive /\ k[x].aides = R[x].aides
                        /\ k[x].kicked = IF x = r THEN X ELSE R[x].kicked
  BY <1>4, <1>5 DEF RoomInfo
<1>7. \A x \in Public : k[x].owed = R[x].owed
  BY <1>1, <1>4, <1>5 DEF RoomInfo
<1>8. Owing(k, u, r)
  BY <1>1, <1>7 DEF Owing
<1> QED
  BY <1>1, <1>3, <1>6, <1>8 DEF k

\* WithAides, room by room
LEMMA OweAides ==
  ASSUME TypeOK, NEW u \in User, NEW r \in Public, NEW X \in SUBSET User
  PROVE  /\ WithAides(u, r, X) \in [Public -> RoomInfo]
         /\ \A x \in Public :
              /\ WithAides(u, r, X)[x].alive = rooms[x].alive
              /\ WithAides(u, r, X)[x].kicked = rooms[x].kicked
              /\ WithAides(u, r, X)[x].aides = IF x = r THEN X ELSE rooms[x].aides
         /\ Owing(WithAides(u, r, X), u, r)
<1> DEFINE R == Owe(u, r)
           a == WithAides(u, r, X)
<1>1. /\ R \in [Public -> RoomInfo]
      /\ \A x \in Public : R[x].alive = rooms[x].alive /\ R[x].aides = rooms[x].aides
                           /\ R[x].kicked = rooms[x].kicked
      /\ Owing(R, u, r)
  BY OweFacts DEF Room
<1>2. a = [R EXCEPT ![r].aides = X]
  BY DEF WithAides
<1> HIDE DEF R, a
<1>3. a \in [Public -> RoomInfo]
  BY <1>1, <1>2 DEF RoomInfo
<1>4. R[r] \in RoomInfo
  BY <1>1
<1>5. \A x \in Public : a[x] = IF x = r THEN [R[r] EXCEPT !.aides = X] ELSE R[x]
  BY <1>1, <1>2
<1>6. \A x \in Public : a[x].alive = R[x].alive /\ a[x].kicked = R[x].kicked
                        /\ a[x].aides = IF x = r THEN X ELSE R[x].aides
  BY <1>4, <1>5 DEF RoomInfo
<1>7. \A x \in Public : a[x].owed = R[x].owed
  BY <1>1, <1>4, <1>5 DEF RoomInfo
<1>8. Owing(a, u, r)
  BY <1>1, <1>7 DEF Owing
<1> QED
  BY <1>1, <1>3, <1>6, <1>8 DEF a

\* state_invite_prompt preserves the invariant.
LEMMA StateInvitePromptKept ==
  ASSUME IInv, NEW u \in User, StateInvitePrompt(u)
  PROVE  Kept
<1> DEFINE s == us[u]
<1>1. CASE Asks(u, "invite_prompt")
  BY <1>1, AsksKept DEF Never, Args, Finders
<1>2. CASE Keyed(u, "invite_prompt") /\ (Do(u, {Ret(s)}) \/ Changed(u, Ret(s)))
  BY <1>2, PromptKept DEF ConfigPrompt
<1>3. ASSUME Keyed(u, "invite_prompt"), NEW v \in Targets[u], KickedFrom(v, s.room),
             us' = [us EXCEPT ![u] = [Ret(s) EXCEPT !.edited = TRUE]],
             rooms' = [Owe(u, s.room) EXCEPT ![s.room].kicked = @ \ {v}], UNCHANGED listed
      PROVE  Kept
  <2>1. Ready(s) /\ s.stack # << >> /\ First(s.stack) = "invite_prompt" /\ s.online
    BY <1>3, KeyedReady DEF Never, Args, Finders
  <2>2. /\ Good(Ret(s)) /\ Same(s, Ret(s)) /\ Ret(s).stack = Tail(s.stack)
        /\ "room_config_menu" \in Levels(Tail(s.stack))
    BY <2>1, ConfigPromptFacts DEF ConfigPrompt
  <2> DEFINE X == Owe(u, s.room)[s.room].kicked \ {v}
  <2>3. TypeOK /\ s.room \in Public /\ s.room \in Room
    BY <1>3 DEF IInv, KickedFrom, Room
  <2>4. Owe(u, s.room)[s.room].kicked = rooms[s.room].kicked
    BY <2>3, OweFacts
  <2>5. X \in SUBSET User /\ X \subseteq rooms[s.room].kicked
    BY <2>3, <2>4 DEF TypeOK, RoomInfo
  <2>6. rooms' = WithKicked(u, s.room, X)
    BY <1>3 DEF WithKicked
  <2> HIDE DEF X
  <2>7. /\ rooms' \in [Public -> RoomInfo]
        /\ \A x \in Public :
             /\ rooms'[x].alive = rooms[x].alive /\ rooms'[x].aides = rooms[x].aides
             /\ rooms'[x].kicked = IF x = s.room THEN X ELSE rooms[x].kicked
        /\ Owing(rooms', u, s.room)
    BY <2>3, <2>5, <2>6, OweKicked
  <2>8. \A x \in Public : rooms'[x].kicked \subseteq rooms[x].kicked
    BY <2>5, <2>7
  <2>9. Ret(s).room = s.room
    BY <2>2 DEF Same
  <2> QED
    BY <1>3, <2>1, <2>2, <2>7, <2>8, <2>9, ChangeKept
<1> QED
  BY <1>1, <1>2, <1>3 DEF StateInvitePrompt
\* Who is kicked out is in the Lobby, with the stack that he had; what is on top of it
\* is called once more.
ThrownOut(x) ==
  LET t == Current(Entered(x, "lobby"))
  IN  [t EXCEPT !.by = @ \cup {"thrown"}, !.harm = IF Empty(t) THEN "no_frame" ELSE @]

\* Who is thrown out is in a state that the invariant allows.
LEMMA ThrownGood ==
  ASSUME NEW x, Good(x), x.harm = "none"
  PROVE  LET y == ThrownOut(x)
         IN  /\ Good(y) /\ y.online = x.online /\ y.room = "lobby" /\ ~y.aide
             /\ y.sysop = x.sysop /\ y.edited = x.edited /\ "thrown" \in y.by
             /\ "moved" \notin y.by /\ ("created" \in y.by <=> "created" \in x.by)
<1> DEFINE t == Current(Entered(x, "lobby"))
           h == IF Empty(t) THEN "no_frame" ELSE t.harm
           y == [t EXCEPT !.by = @ \cup {"thrown"}, !.harm = h]
<1>1. ThrownOut(x) = y
  BY DEF ThrownOut
<1>2. x \in Session
  BY DEF Good, Sound
<1>3. /\ t \in Session /\ t.stack = x.stack /\ t.key = "init" /\ t.room = "lobby"
      /\ t.online = x.online /\ ~t.aide /\ t.sysop = x.sysop /\ t.edited = x.edited
      /\ t.draft = "none" /\ t.harm = "none" /\ t.by = x.by \ {"moved", "missing"}
  BY <1>2 DEF Current, Entered, FreeText, Session, Room, Public
<1> HIDE DEF t
<1>4. h \in {"none", "no_frame"}
  BY <1>3
<1> HIDE DEF h
<1>5. /\ y \in Session /\ y.stack = x.stack /\ y.key = "init" /\ y.room = "lobby"
      /\ y.online = x.online /\ ~y.aide /\ y.sysop = x.sysop /\ y.edited = x.edited
      /\ y.draft = "none" /\ y.harm \in {"none", "no_frame"}
      /\ y.by = (x.by \ {"moved", "missing"}) \cup {"thrown"}
  BY <1>3, <1>4 DEF Session
<1> HIDE DEF y
<1>6. Sound(y)
  BY <1>5 DEF Good, Sound, DraftKept, Made
<1>7. PagerKept(y)
  BY <1>5 DEF PagerKept, Calm
<1>8. FlagsKept(y)
  BY <1>5 DEF Good, FlagsKept, Both
<1>9. Idle(y) /\ Caused(y)
  BY <1>5 DEF Idle, Caused
<1> QED
  BY <1>1, <1>5, <1>6, <1>7, <1>8, <1>9 DEF Good

\* What Placed says of the next state
LEMMA PlacedNext ==
  ASSUME NEW v \in User, NEW y, us'[v] = y,
         "moved" \in y.by => y.room = "lobby" \/ "created" \in y.by,
         "created" \notin y.by =>
           \A r \in Public :
             listed'[r][v] = IF y.online /\ y.room = r /\ "moved" \notin y.by THEN 1 ELSE 0,
         y.sysop => v \in Sysops,
         y.online =>
           /\ y.room \in Public => rooms'[y.room].alive
           /\ y.aide /\ ~y.sysop =>
                (y.room \in Public /\ v \in rooms'[y.room].aides) \/ "moved" \in y.by
           /\ y.room = "club" /\ v \in rooms'["club"].kicked => v \in Sysops
  PROVE  Placed(us[v], v)'
BY DEF Placed, Exists, IsAide, KickedFrom

\* Placed is kept for whom nothing changes that it speaks of.
LEMMA PlacedStill ==
  ASSUME NEW v \in User, Placed(us[v], v), NEW y, us'[v] = y, Stays(us[v], y),
         \A r \in Public : listed'[r][v] = listed[r][v],
         \A r \in Public : rooms'[r].alive = rooms[r].alive,
         y.online =>
           /\ \A r \in Public : y.room = r /\ v \in rooms[r].aides => v \in rooms'[r].aides
           /\ y.room = "club" /\ v \in rooms'["club"].kicked =>
                v \in rooms["club"].kicked \/ v \in Sysops
  PROVE  Placed(us[v], v)'
<1>1. "club" \in Public
  BY DEF Public
<1>2. "moved" \in y.by => y.room = "lobby" \/ "created" \in y.by
  BY DEF Placed, Stays
<1>3. "created" \notin y.by =>
        \A r \in Public :
          listed'[r][v] = IF y.online /\ y.room = r /\ "moved" \notin y.by THEN 1 ELSE 0
  BY DEF Placed, Stays
<1>4. y.sysop => v \in Sysops
  BY DEF Placed, Stays
<1>5. ASSUME y.online
      PROVE  /\ y.room \in Public => rooms'[y.room].alive
             /\ y.aide /\ ~y.sysop =>
                  (y.room \in Public /\ v \in rooms'[y.room].aides) \/ "moved" \in y.by
             /\ y.room = "club" /\ v \in rooms'["club"].kicked => v \in Sysops
  BY <1>1, <1>5 DEF Placed, Stays, Exists, IsAide, KickedFrom
<1> QED
  BY <1>2, <1>3, <1>4, <1>5, PlacedNext

\* Kicking out a user, who is in the room or not, preserves the invariant.
LEMMA DropOffKept ==
  ASSUME IInv, NEW u \in User, NEW v \in User, v # u, Running, us[u].online,
         us[u].room \in Public,
         NEW t, Good(t), t.online, t.room = us[u].room, t.sysop = us[u].sysop,
         t.aide = us[u].aide, t.edited,
         t.by \cap {"moved", "created"} = us[u].by \cap {"moved", "created"},
         DropOff(u, v, t),
         NEW X \in SUBSET User, X = rooms[us[u].room].kicked \cup {v},
         rooms' = WithKicked(u, us[u].room, X)
  PROVE  Kept
<1>1. TypeOK /\ us \in [User -> Session] /\ t \in Session
  BY DEF IInv, TypeOK, Good, Sound
<1>2. /\ rooms' \in [Public -> RoomInfo]
      /\ \A x \in Public :
           /\ rooms'[x].alive = rooms[x].alive /\ rooms'[x].aides = rooms[x].aides
           /\ rooms'[x].kicked = IF x = us[u].room THEN X ELSE rooms[x].kicked
      /\ Owing(rooms', u, us[u].room)
  BY <1>1, OweKicked
<1>3. t.aide /\ ~t.sysop => (t.room \in Public /\ u \in rooms[t.room].aides) \/ "moved" \in t.by
  <2>1. Placed(us[u], u)
    BY DEF IInv
  <2> QED
    BY <2>1 DEF Placed, IsAide
<1>4. "club" \in Public /\ "lobby" \in Public /\ "lobby" \in Room /\ "lobby" # "club"
  BY DEF Public, Room
<1>5. /\ \A w \in User : w # v /\ w \in rooms'["club"].kicked => w \in rooms["club"].kicked
      /\ us[u].room # "club" => rooms'["club"].kicked = rooms["club"].kicked
  <2>1. rooms'["club"].kicked = IF "club" = us[u].room THEN X ELSE rooms["club"].kicked
    BY <1>2, <1>4
  <2> QED
    BY <2>1
<1>6. CASE ~(us[v].online /\ us[v].room = us[u].room)
  <2>1. us' = [us EXCEPT ![u] = t] /\ UNCHANGED listed
    BY <1>6 DEF DropOff
  <2>2. us' \in [User -> Session] /\ us'[u] = t /\ \A w \in User \ {u} : us'[w] = us[w]
    BY <1>1, <2>1
  <2>3. \A w \in User : us[w].online /\ us[w].room = "club" /\ w \in rooms'["club"].kicked =>
          w \in rooms["club"].kicked
    BY <1>6, <1>5
  <2>4. t.aide /\ ~t.sysop =>
           (t.room \in Public /\ u \in rooms'[t.room].aides) \/ "moved" \in t.by
    BY <1>2, <1>3
  <2>5. \A x \in Public : rooms'[x].alive = rooms[x].alive
    BY <1>2
  <2>6. \A w \in User \ {u}, x \in Public :
           us'[w].room = x /\ us'[w].aide /\ w \in rooms[x].aides => w \in rooms'[x].aides
    BY <1>2
  <2>7. \A w \in User :
           us[w].online /\ us[w].room = "club" /\ w \in rooms'["club"].kicked =>
             w \in rooms["club"].kicked \/ w \in Sysops
    BY <2>3
  <2>8. \A w \in User \ {u} : us'[w] = us[w] \/ us'[w] = [us[w] EXCEPT !.aide = FALSE]
    BY <2>2
  <2>9. t.sysop => us[u].sysop
    OBVIOUS
  <2>10. us[u].edited => t.edited \/ \A x \in Public : x = t.room => rooms'[x].owed = {}
    OBVIOUS
  <2>11. \A w \in User, x \in Public :
           w \in rooms'[x].owed => w \in rooms[x].owed \/ (w = u /\ t.edited /\ x = t.room)
    BY <1>2 DEF Owing
  <2> QED
    BY <1>2, <2>1, <2>2, <2>4, <2>5, <2>6, <2>7, <2>8, <2>9, <2>10, <2>11, ConfigKept
<1>7. CASE us[v].online /\ us[v].room = us[u].room
  <2> DEFINE y == ThrownOut(us[v])
  <2>1. /\ CanEnter(v, us[v].room, "lobby") /\ Walk(v, us[v].room, "lobby")
        /\ us' = [us EXCEPT ![v] = y, ![u] = t]
    BY <1>4, <1>7 DEF DropOff, Arrive, ThrownOut
  <2>2. Good(us[v]) /\ us[v].harm = "none" /\ Placed(us[v], v)
    BY <1>7 DEF IInv, Running
  <2>3. /\ Good(y) /\ y.online = us[v].online /\ y.room = "lobby" /\ ~y.aide
        /\ y.sysop = us[v].sysop
        /\ y.edited = us[v].edited /\ "thrown" \in y.by /\ "moved" \notin y.by
        /\ "created" \in y.by <=> "created" \in us[v].by
    BY <2>2, ThrownGood
  <2>4. /\ us' \in [User -> Session] /\ us'[u] = t /\ us'[v] = y
        /\ \A w \in User \ {u, v} : us'[w] = us[w]
    BY <1>1, <2>1, <2>3 DEF Good, Sound
  <2>5. /\ listed' \in [Public -> [User -> 0 .. MaxEntries]]
        /\ \A x \in Public, w \in User \ {v} : listed'[x][w] = listed[x][w]
        /\ "created" \notin us[v].by =>
             \A x \in Public : listed'[x][v] = IF x = "lobby" THEN 1 ELSE 0
    BY <1>1, <1>4, <1>7, <2>1, <2>2, WalkFacts
  <2>6. TypeOK' /\ rooms'["lobby"].alive
    BY <1>2, <1>4, <2>4, <2>5 DEF TypeOK, IInv
  <2>7. ASSUME NEW w \in User
        PROVE  Placed(us[w], w)' /\ Caused(us[w])' /\ (us[w].online => Good(us[w]))'
    <3>1. Placed(us[w], w) /\ Caused(us[w]) /\ (us[w].online => Good(us[w]))
      BY DEF IInv
    <3>2. CASE w = u
      <4>1. \A x \in Public : listed'[x][w] = listed[x][w]
        BY <2>5, <3>2
      <4>2. w \in rooms'["club"].kicked => w \in rooms["club"].kicked
        BY <1>5, <3>2
      <4>3. "moved" \in t.by => t.room = "lobby" \/ "created" \in t.by
        BY <3>1, <3>2 DEF Placed
      <4>4. "created" \notin t.by =>
              \A r \in Public :
                listed'[r][u] = IF t.online /\ t.room = r /\ "moved" \notin t.by THEN 1 ELSE 0
        BY <3>1, <3>2, <4>1 DEF Placed
      <4>5. t.sysop => u \in Sysops
        BY <3>1, <3>2 DEF Placed
      <4>6. rooms'[t.room].alive
        BY <1>2, <3>1, <3>2 DEF Placed, Exists
      <4>7. t.aide /\ ~t.sysop =>
              (t.room \in Public /\ u \in rooms'[t.room].aides) \/ "moved" \in t.by
        BY <1>2, <1>3
      <4>8. t.room = "club" /\ u \in rooms'["club"].kicked => u \in Sysops
        BY <1>4, <3>1, <3>2, <4>2 DEF Placed, KickedFrom
      <4>9. Placed(us[u], u)'
        BY <2>4, <4>3, <4>4, <4>5, <4>6, <4>7, <4>8, PlacedNext
      <4> QED
        BY <2>4, <3>2, <4>9 DEF Good
    <3>3. CASE w = v
      <4>1. Placed(us[w], w)'
        <5>1. us'[v] = y /\ (y.sysop => v \in Sysops)
          BY <2>3, <2>4, <3>1, <3>3 DEF Placed
        <5>2. "created" \notin y.by =>
                \A r \in Public :
                  listed'[r][v] = IF y.online /\ y.room = r /\ "moved" \notin y.by THEN 1 ELSE 0
          BY <1>7, <2>3, <2>5
        <5> HIDE DEF y
        <5> QED
          BY <1>4, <2>3, <2>6, <3>3, <5>1, <5>2, PlacedNext
      <4> QED
        BY <2>3, <2>4, <3>3, <4>1 DEF Good
    <3>4. CASE w # u /\ w # v
      <4>1. us'[w] = us[w] /\ \A x \in Public : listed'[x][w] = listed[x][w]
        BY <2>4, <2>5, <3>4
      <4>2. w \in rooms'["club"].kicked => w \in rooms["club"].kicked
        BY <1>5, <3>4
      <4>3. Placed(us[w], w)'
        BY <1>2, <3>1, <4>1, <4>2, PlacedStill DEF Stays
      <4> QED
        BY <3>1, <4>1, <4>3
    <3> QED
      BY <3>2, <3>3, <3>4
  <2>8. EditsKeptStep
    <3> SUFFICES ASSUME NEW w \in User, NEW r \in Public, w \in rooms'[r].owed,
                        w \notin rooms[r].owed \/ (us[w].edited /\ us[w].room = r)
                 PROVE  us'[w].edited /\ (us'[w].room = r \/ "thrown" \in us'[w].by)
      BY DEF EditsKeptStep
    <3>4. (us[w].edited /\ us[w].room = r) \/ (w = u /\ us[u].room = r)
      BY <1>2 DEF Owing
    <3>1. CASE w = u
      BY <2>4, <3>1, <3>4
    <3>2. CASE w = v
      BY <2>3, <2>4, <3>2, <3>4
    <3>3. CASE w # u /\ w # v
      BY <2>4, <3>3, <3>4
    <3> QED
      BY <3>1, <3>2, <3>3
  <2> QED
    BY <2>6, <2>7, <2>8 DEF IInv, Kept
<1> QED
  BY <1>6, <1>7

\* state_kickout_prompt preserves the invariant.
LEMMA StateKickoutPromptKept ==
  ASSUME IInv, NEW u \in User, StateKickoutPrompt(u)
  PROVE  Kept
<1> DEFINE s == us[u]
           t == [Ret(s) EXCEPT !.edited = TRUE]
<1>1. CASE /\ Called(u, "kickout_prompt", "init")
           /\ Do(u, {IF s.room \in {"lobby", "mail"} THEN Ret(s) ELSE Wait(s)})
  <2> DEFINE b == s.room \in {"lobby", "mail"}
  <2>1. b \in BOOLEAN
    OBVIOUS
  <2>2. Called(u, "kickout_prompt", "init") /\ Do(u, {IF b THEN Ret(s) ELSE Wait(s)})
    BY <1>1
  <2> HIDE DEF b
  <2> QED
    BY <2>1, <2>2, PromptKept DEF ConfigPrompt
<1>2. CASE Keyed(u, "kickout_prompt") /\ Do(u, {Ret(s)})
  BY <1>2, PromptKept DEF ConfigPrompt
<1>3. ASSUME Keyed(u, "kickout_prompt"), s.room \in Public
      PROVE  /\ s.online /\ Running
             /\ Good(Ret(s)) /\ Same(s, Ret(s)) /\ "room_config_menu" \in Levels(Ret(s).stack)
             /\ Good(t) /\ t.online /\ t.room = s.room /\ t.sysop = s.sysop /\ t.aide = s.aide
             /\ t.edited /\ t.by = s.by
             /\ TypeOK /\ s.room \in Room
             /\ Owe(u, s.room)[s.room].kicked = rooms[s.room].kicked
             /\ rooms[s.room].kicked \subseteq User
  <2>1. Ready(s) /\ s.stack # << >> /\ First(s.stack) = "kickout_prompt" /\ s.online
    BY <1>3, KeyedReady DEF Never, Args, Finders
  <2>2. /\ Good(Ret(s)) /\ Same(s, Ret(s)) /\ "room_config_menu" \in Levels(Ret(s).stack)
    BY <2>1, ConfigPromptFacts DEF ConfigPrompt
  <2>3. /\ Good(t) /\ t.online = Ret(s).online /\ t.room = Ret(s).room /\ t.sysop = Ret(s).sysop
        /\ t.aide = Ret(s).aide /\ t.by = Ret(s).by /\ t.edited
    BY <2>2, GoodEdited
  <2>4. TypeOK /\ s.room \in Room
    BY <1>3 DEF IInv, Room
  <2>5. Owe(u, s.room)[s.room].kicked = rooms[s.room].kicked
    BY <1>3, <2>4, OweFacts
  <2>6. rooms[s.room].kicked \subseteq User
    BY <1>3, <2>4 DEF TypeOK, RoomInfo
  <2> HIDE DEF t
  <2> QED
    BY <1>3, <2>1, <2>2, <2>3, <2>4, <2>5, <2>6 DEF Keyed, Quiet, Same
<1>4. ASSUME Keyed(u, "kickout_prompt"), NEW v \in Targets[u] \ {u}, s.room \in Public,
             us' = [us EXCEPT ![u] = t],
             rooms' = [Owe(u, s.room) EXCEPT ![s.room].kicked = @ \ {v}], UNCHANGED listed
      PROVE  Kept
  <2>1. /\ s.online /\ Good(Ret(s)) /\ Same(s, Ret(s))
        /\ "room_config_menu" \in Levels(Ret(s).stack) /\ TypeOK
        /\ Owe(u, s.room)[s.room].kicked = rooms[s.room].kicked
        /\ rooms[s.room].kicked \subseteq User
    BY <1>3, <1>4
  <2> DEFINE X == rooms[s.room].kicked \ {v}
  <2>2. rooms' = WithKicked(u, s.room, X) /\ s.room \in Public /\ UNCHANGED listed
    BY <1>4, <2>1 DEF WithKicked
  <2>3. X \in SUBSET User /\ X \subseteq rooms[s.room].kicked
    BY <2>1
  <2>4. us' = [us EXCEPT ![u] = [Ret(s) EXCEPT !.edited = TRUE]]
    BY <1>4
  <2> HIDE DEF X
  <2>5. /\ rooms' \in [Public -> RoomInfo]
        /\ \A x \in Public :
             /\ rooms'[x].alive = rooms[x].alive /\ rooms'[x].aides = rooms[x].aides
             /\ rooms'[x].kicked = IF x = s.room THEN X ELSE rooms[x].kicked
        /\ Owing(rooms', u, s.room)
    BY <2>1, <2>2, <2>3, OweKicked
  <2>6. \A x \in Public : rooms'[x].kicked \subseteq rooms[x].kicked
    BY <2>3, <2>5
  <2>7. Ret(s).room = s.room
    BY <2>1 DEF Same
  <2> QED
    BY <2>1, <2>2, <2>5, <2>6, <2>4, <2>7, ChangeKept
<1>5. ASSUME Keyed(u, "kickout_prompt"), NEW v \in Targets[u] \ {u}, s.room \in Public,
             DropOff(u, v, t),
             rooms' = [Owe(u, s.room) EXCEPT ![s.room].kicked = @ \cup {v}]
      PROVE  Kept
  <2>1. /\ s.online /\ Running
        /\ Good(t) /\ t.online /\ t.room = s.room /\ t.sysop = s.sysop /\ t.aide = s.aide
        /\ t.edited /\ t.by = s.by
        /\ Owe(u, s.room)[s.room].kicked = rooms[s.room].kicked
        /\ rooms[s.room].kicked \subseteq User
    BY <1>3, <1>5
  <2> DEFINE X == rooms[s.room].kicked \cup {v}
  <2>2. rooms' = WithKicked(u, s.room, X)
    BY <1>5, <2>1 DEF WithKicked
  <2>3. v \in User /\ v # u /\ X \in SUBSET User
    BY <2>1, MenusAssumption
  <2>4. X = rooms[s.room].kicked \cup {v}
    OBVIOUS
  <2> HIDE DEF X, t
  <2> QED
    BY <1>5, <2>1, <2>2, <2>3, <2>4, DropOffKept
<1> QED
  BY <1>1, <1>2, <1>4, <1>5 DEF StateKickoutPrompt

\* v, who is in the room or not, is not its aide any more.
LEMMA UnaideKept ==
  ASSUME IInv, NEW u \in User, NEW v \in User, us[u].online, us[u].sysop,
         us[u].room \in Public,
         NEW t, Good(t), t.online, t.room = us[u].room, t.sysop = us[u].sysop, t.edited,
         t.by \cap {"moved", "created"} = us[u].by \cap {"moved", "created"},
         us' = IF v # u /\ us[v].room = us[u].room
               THEN [us EXCEPT ![u] = t, ![v].aide = FALSE] ELSE [us EXCEPT ![u] = t],
         UNCHANGED listed,
         NEW X \in SUBSET User, X = rooms[us[u].room].aides \ {v},
         rooms' = WithAides(u, us[u].room, X)
  PROVE  Kept
<1>1. TypeOK /\ us \in [User -> Session] /\ t \in Session
  BY DEF IInv, TypeOK, Good, Sound
<1>2. /\ rooms' \in [Public -> RoomInfo]
      /\ \A x \in Public :
           /\ rooms'[x].alive = rooms[x].alive /\ rooms'[x].kicked = rooms[x].kicked
           /\ rooms'[x].aides = IF x = us[u].room THEN X ELSE rooms[x].aides
      /\ Owing(rooms', u, us[u].room)
  BY <1>1, OweAides
<1>3. /\ us' \in [User -> Session] /\ us'[u] = t
      /\ \A w \in User \ {u} :
           us'[w] = IF w = v /\ us[v].room = us[u].room THEN [us[w] EXCEPT !.aide = FALSE]
                    ELSE us[w]
  <2>1. CASE v # u /\ us[v].room = us[u].room
    <3> DEFINE y == [us[v] EXCEPT !.aide = FALSE]
    <3>1. y \in Session
      <4>1. us[v] \in Session
        BY <1>1
      <4> QED
        BY <4>1 DEF Session
    <3>2. us' = [us EXCEPT ![u] = t, ![v] = y]
      BY <2>1
    <3> HIDE DEF y
    <3>3. us' \in [User -> Session] /\ us'[u] = t /\ us'[v] = y
          /\ \A w \in User \ {u, v} : us'[w] = us[w]
      BY <1>1, <2>1, <3>1, <3>2
    <3> QED
      BY <2>1, <3>3 DEF y
  <2>2. CASE ~(v # u /\ us[v].room = us[u].room)
    BY <1>1, <2>2
  <2> QED
    BY <2>1, <2>2
<1>4. \A w \in User \ {u} : us'[w] = us[w] \/ us'[w] = [us[w] EXCEPT !.aide = FALSE]
  BY <1>3
<1>5. \A w \in User \ {u}, x \in Public :
         us'[w].room = x /\ us'[w].aide /\ w \in rooms[x].aides => w \in rooms'[x].aides
  <2> SUFFICES ASSUME NEW w \in User \ {u}, NEW x \in Public,
                      us'[w].room = x, us'[w].aide, w \in rooms[x].aides
               PROVE  w \in rooms'[x].aides
    OBVIOUS
  <2>1. CASE w = v /\ us[v].room = us[u].room
    <3>1. us'[w] = [us[w] EXCEPT !.aide = FALSE]
      BY <1>3, <2>1
    <3>2. us[w] \in Session
      BY <1>1
    <3>3. ~[us[w] EXCEPT !.aide = FALSE].aide
      BY <3>2 DEF Session
    <3> QED
      BY <3>1, <3>3
  <2>2. CASE ~(w = v /\ us[v].room = us[u].room)
    <3>1. us'[w] = us[w]
      BY <1>3, <2>2
    <3>2. rooms'[x].aides = IF x = us[u].room THEN X ELSE rooms[x].aides
      BY <1>2
    <3>3. CASE w = v
      <4>1. x # us[u].room
        BY <2>2, <3>1, <3>3
      <4> QED
        BY <3>2, <4>1
    <3>4. CASE w # v
      BY <3>2, <3>4
    <3> QED
      BY <3>3, <3>4
  <2> QED
    BY <2>1, <2>2
<1>6. \A x \in Public : rooms'[x].alive = rooms[x].alive
  BY <1>2
<1>7. \A w \in User :
         us[w].online /\ us[w].room = "club" /\ w \in rooms'["club"].kicked =>
           w \in rooms["club"].kicked \/ w \in Sysops
  BY <1>2 DEF Public
<1>8. \A w \in User, x \in Public :
        w \in rooms'[x].owed => w \in rooms[x].owed \/ (w = u /\ t.edited /\ x = t.room)
  BY <1>2 DEF Owing
<1> QED
  BY <1>2, <1>3, <1>4, <1>5, <1>6, <1>7, <1>8, ConfigKept

\* state_assign_roomaide preserves the invariant.
LEMMA StateAssignRoomaideKept ==
  ASSUME IInv, NEW u \in User, StateAssignRoomaide(u)
  PROVE  Kept
<1> DEFINE s == us[u]
           t == [Ret(s) EXCEPT !.edited = TRUE]
<1>1. CASE Asks(u, "assign_roomaide")
  BY <1>1, AsksKept DEF Never, Args, Finders
<1>2. CASE Keyed(u, "assign_roomaide") /\ Do(u, {Ret(s)})
  BY <1>2, PromptKept DEF ConfigPrompt
<1>3. ASSUME Keyed(u, "assign_roomaide"), s.room \in Public
      PROVE  /\ s.online
             /\ Good(Ret(s)) /\ Same(s, Ret(s)) /\ "room_config_menu" \in Levels(Ret(s).stack)
             /\ Good(t) /\ t.online /\ t.room = s.room /\ t.sysop = s.sysop
             /\ t.edited /\ t.by = s.by
             /\ TypeOK /\ Owe(u, s.room)[s.room].aides = rooms[s.room].aides
             /\ rooms[s.room].aides \subseteq User
  <2>1. Ready(s) /\ s.stack # << >> /\ First(s.stack) = "assign_roomaide" /\ s.online
    BY <1>3, KeyedReady DEF Never, Args, Finders
  <2>2. /\ Good(Ret(s)) /\ Same(s, Ret(s)) /\ "room_config_menu" \in Levels(Ret(s).stack)
    BY <2>1, ConfigPromptFacts DEF ConfigPrompt
  <2>3. /\ Good(t) /\ t.online = Ret(s).online /\ t.room = Ret(s).room /\ t.sysop = Ret(s).sysop
        /\ t.aide = Ret(s).aide /\ t.by = Ret(s).by /\ t.edited
    BY <2>2, GoodEdited
  <2>4. TypeOK /\ s.room \in Room
    BY <1>3 DEF IInv, Room
  <2>5. Owe(u, s.room)[s.room].aides = rooms[s.room].aides
    BY <1>3, <2>4, OweFacts
  <2>6. rooms[s.room].aides \subseteq User
    BY <1>3, <2>4 DEF TypeOK, RoomInfo
  <2> HIDE DEF t
  <2> QED
    BY <2>1, <2>2, <2>3, <2>4, <2>5, <2>6 DEF Same
<1>4. ASSUME Keyed(u, "assign_roomaide"), NEW v \in Targets[u], s.room \in Public,
             UNCHANGED listed, s.sysop,
             us' = IF v # u /\ us[v].room = s.room
                   THEN [us EXCEPT ![u] = t, ![v].aide = FALSE] ELSE [us EXCEPT ![u] = t],
             rooms' = [Owe(u, s.room) EXCEPT ![s.room].aides = @ \ {v}]
      PROVE  Kept
  <2>1. /\ s.online /\ Good(t) /\ t.online /\ t.room = s.room /\ t.sysop = s.sysop
        /\ t.edited /\ t.by = s.by
        /\ Owe(u, s.room)[s.room].aides = rooms[s.room].aides
        /\ rooms[s.room].aides \subseteq User
    BY <1>3, <1>4
  <2> DEFINE X == rooms[s.room].aides \ {v}
  <2>2. rooms' = WithAides(u, s.room, X)
    BY <1>4, <2>1 DEF WithAides
  <2>3. v \in User /\ X \in SUBSET User
    BY <2>1, MenusAssumption
  <2>4. X = rooms[s.room].aides \ {v}
    OBVIOUS
  <2> HIDE DEF X, t
  <2> QED
    BY <1>4, <2>1, <2>2, <2>3, <2>4, UnaideKept
<1>5. ASSUME Keyed(u, "assign_roomaide"), NEW v \in Targets[u], s.room \in Public,
             us' = [us EXCEPT ![u] = t], UNCHANGED listed,
             rooms' = [Owe(u, s.room) EXCEPT ![s.room].aides = @ \cup {v}]
      PROVE  Kept
  <2>1. /\ s.online /\ Good(Ret(s)) /\ Same(s, Ret(s))
        /\ "room_config_menu" \in Levels(Ret(s).stack) /\ TypeOK
        /\ Owe(u, s.room)[s.room].aides = rooms[s.room].aides
        /\ rooms[s.room].aides \subseteq User
    BY <1>3, <1>5
  <2> DEFINE X == rooms[s.room].aides \cup {v}
  <2>2. rooms' = WithAides(u, s.room, X) /\ s.room \in Public /\ UNCHANGED listed
    BY <1>5, <2>1 DEF WithAides
  <2>3. X \in SUBSET User /\ rooms[s.room].aides \subseteq X
    BY <2>1, MenusAssumption
  <2>4. us' = [us EXCEPT ![u] = [Ret(s) EXCEPT !.edited = TRUE]]
    BY <1>5
  <2> HIDE DEF X
  <2>5. /\ rooms' \in [Public -> RoomInfo]
        /\ \A x \in Public :
             /\ rooms'[x].alive = rooms[x].alive /\ rooms'[x].kicked = rooms[x].kicked
             /\ rooms'[x].aides = IF x = s.room THEN X ELSE rooms[x].aides
        /\ Owing(rooms', u, s.room)
    BY <2>1, <2>2, <2>3, OweAides
  <2>6. \A x \in Public : rooms[x].aides \subseteq rooms'[x].aides
    BY <2>3, <2>5
  <2>7. Ret(s).room = s.room
    BY <2>1 DEF Same
  <2> QED
    BY <2>1, <2>2, <2>4, <2>5, <2>6, <2>7, ChangeKept
<1> QED
  BY <1>1, <1>2, <1>4, <1>5 DEF StateAssignRoomaide

\* Whose room was deleted is in the Lobby, without having gone there; and the aide flag
\* of who deletes it is cleared.
MovedOut(x) == [x EXCEPT !.room = "lobby", !.by = @ \cup {"moved"}]

\* What the deletion of his room does to a session
LEMMA MovedFacts ==
  ASSUME NEW x \in Session
  PROVE  /\ MovedOut(x) \in Session /\ MovedOut(x).stack = x.stack /\ MovedOut(x).key = x.key
         /\ MovedOut(x).room = "lobby" /\ MovedOut(x).by = x.by \cup {"moved"}
         /\ MovedOut(x).online = x.online /\ MovedOut(x).sysop = x.sysop
         /\ MovedOut(x).aide = x.aide /\ MovedOut(x).edited = x.edited
         /\ MovedOut(x).draft = x.draft /\ MovedOut(x).read = x.read
         /\ MovedOut(x).pager = x.pager /\ MovedOut(x).harm = x.harm
BY DEF MovedOut, Session, Room, Public

\* It leaves the stack, and a draft that is for no room any more.
LEMMA MovedSound ==
  ASSUME NEW x, Sound(x)
  PROVE  Sound(MovedOut(x))
<1> DEFINE y == MovedOut(x)
<1>1. x \in Session
  BY DEF Sound
<1>2. /\ y \in Session /\ y.stack = x.stack /\ y.by = x.by \cup {"moved"}
      /\ y.edited = x.edited /\ y.draft = x.draft /\ y.read = x.read
  BY <1>1, MovedFacts
<1> HIDE DEF y
<1>3. Sound(y)
  BY <1>2 DEF Sound, DraftKept, Made
<1> QED
  BY <1>3 DEF y

\* It leaves a session as good as it was.
LEMMA MovedGood ==
  ASSUME NEW x, Good(x)
  PROVE  Good(MovedOut(x))
<1> DEFINE y == MovedOut(x)
<1>1. x \in Session /\ Sound(x)
  BY DEF Good, Sound
<1>2. /\ y.stack = x.stack /\ y.key = x.key /\ y.by = x.by \cup {"moved"}
      /\ y.pager = x.pager /\ y.draft = x.draft /\ y.harm = x.harm /\ Sound(y)
  BY <1>1, MovedFacts, MovedSound
<1> HIDE DEF y
<1>3. (Calm(y) <=> Calm(x)) /\ (Both(y) <=> Both(x)) /\ ("boss" \in y.by <=> "boss" \in x.by)
  BY <1>2 DEF Calm, Both
<1>4. PagerKept(y)
  BY <1>2, <1>3 DEF Good, PagerKept
<1>5. FlagsKept(y)
  BY <1>2, <1>3 DEF Good, FlagsKept
<1>6. Idle(y)
  BY <1>2 DEF Good, Idle
<1>7. Caused(y)
  BY <1>2, <1>3 DEF Good, Caused
<1> QED
  BY <1>2, <1>4, <1>5, <1>6, <1>7 DEF Good, y

NoAide(x) == [x EXCEPT !.aide = FALSE]

\* The session of who deletes a room, before his prompt is left: he was in the room, or not.
LEMMA ReadyMoved ==
  ASSUME NEW s, Ready(s), NEW m, m = s \/ m = MovedOut(s)
  PROVE  LET t == NoAide(m) IN
         /\ Ready(t) /\ t.stack = s.stack /\ ~t.aide /\ t.online = s.online
         /\ t.sysop = s.sysop /\ t.edited = s.edited /\ t.room = m.room /\ t.by = m.by
<1> DEFINE t == NoAide(m)
<1>1. s \in Session /\ Sound(s)
  BY DEF Ready, Sound
<1>2. /\ m \in Session /\ Sound(m) /\ m.stack = s.stack
      /\ m.by \cap {"boss", "thrown"} = s.by \cap {"boss", "thrown"}
      /\ m.pager = s.pager /\ m.harm = s.harm /\ m.online = s.online /\ m.sysop = s.sysop
      /\ m.edited = s.edited
  BY <1>1, MovedFacts, MovedSound
<1>3. /\ t \in Session /\ t.stack = m.stack /\ t.by = m.by /\ t.pager = m.pager
      /\ t.harm = m.harm /\ t.edited = m.edited /\ t.draft = m.draft /\ t.read = m.read
      /\ t.room = m.room /\ t.online = m.online /\ t.sysop = m.sysop /\ ~t.aide
  BY <1>2 DEF Session, NoAide
<1> HIDE DEF t
<1>4. Sound(t)
  BY <1>2, <1>3 DEF Sound, DraftKept, Made
<1>5. (Calm(t) <=> Calm(s)) /\ (Both(t) <=> Both(s))
  BY <1>2, <1>3 DEF Calm, Both
<1>6. Ready(t)
  BY <1>2, <1>3, <1>4, <1>5 DEF Ready
<1> QED
  BY <1>2, <1>3, <1>6 DEF t

\* delete_room preserves the invariant, whoever is inside.
LEMMA DeleteRoomKept ==
  ASSUME IInv, NEW u \in User, Ready(us[u]), us[u].stack # << >>, us[u].online,
         First(us[u].stack) \notin Bound \cup {"return_forward", "room_config_menu"},
         NEW r, DeleteRoom(u, us[u], r)
  PROVE  Kept
<1> DEFINE s == us[u]
           M(v) == IF us[v].online /\ us[v].room = "club" THEN MovedOut(us[v]) ELSE us[v]
           x == NoAide(M(u))
           t == Ret(x)
<1>1. CASE ~(s.sysop /\ r = "club")
  <2>1. Good(Ret(s)) /\ Stays(s, Ret(s))
    BY ReadyRet, SameStays
  <2>2. Do(u, {Ret(s)})
    BY <1>1 DEF DeleteRoom
  <2> QED
    BY <2>1, <2>2, DoKept
<1>2. CASE s.sysop /\ r = "club"
  <2>1. /\ us' = [v \in User |-> IF v = u THEN t ELSE M(v)]
        /\ rooms' = [rooms EXCEPT !["club"] = DeadRoom]
        /\ listed' = [listed EXCEPT !["club"] = [v \in User |-> 0]]
    BY <1>2 DEF DeleteRoom, MovedOut, NoAide
  <2>2. TypeOK /\ "club" \in Public /\ "lobby" \in Public /\ "lobby" # "club" /\ "lobby" # "mail"
        /\ \A q \in Public : q = "club" \/ q = "lobby"
    BY DEF IInv, Public
  <2>3. /\ rooms' \in [Public -> RoomInfo] /\ rooms'["club"] = DeadRoom
        /\ rooms'["lobby"] = rooms["lobby"]
    BY <2>1, <2>2 DEF TypeOK, RoomInfo, DeadRoom, NewRoom
  <2>4. /\ listed' \in [Public -> [User -> 0 .. MaxEntries]]
        /\ \A v \in User : listed'["club"][v] = 0 /\ listed'["lobby"][v] = listed["lobby"][v]
    <3>1. [v \in User |-> 0] \in [User -> 0 .. MaxEntries]
      BY MenusAssumption
    <3> QED
      BY <2>1, <2>2, <3>1 DEF TypeOK
  <2>5. /\ Ready(x) /\ x.stack = s.stack /\ ~x.aide /\ x.online /\ x.sysop = s.sysop
        /\ x.edited = s.edited /\ x.room = M(u).room /\ x.by = M(u).by
    <3>1. M(u) = s \/ M(u) = MovedOut(s)
      OBVIOUS
    <3> HIDE DEF M
    <3> QED
      BY <3>1, ReadyMoved
  <2>6. \A v \in User : /\ M(v) \in Session /\ M(v).online = us[v].online
                        /\ M(v).sysop = us[v].sysop /\ M(v).edited = us[v].edited
                        /\ M(v).aide = us[v].aide
                        /\ IF us[v].online /\ us[v].room = "club"
                           THEN M(v).room = "lobby" /\ M(v).by = us[v].by \cup {"moved"}
                           ELSE M(v).room = us[v].room /\ M(v).by = us[v].by
    BY <2>2, MovedFacts DEF TypeOK
  <2>7. \A v \in User : Caused(M(v)) /\ (us[v].online => Good(M(v)))
    <3> SUFFICES ASSUME NEW v \in User
                 PROVE  Caused(M(v)) /\ (us[v].online => Good(M(v)))
      OBVIOUS
    <3>1. Caused(us[v]) /\ (us[v].online => Good(us[v]))
      BY DEF IInv
    <3>2. us[v].online => Good(MovedOut(us[v])) /\ Caused(MovedOut(us[v]))
      BY <3>1, MovedGood DEF Good
    <3> QED
      BY <3>1, <3>2
  <2> HIDE DEF M, x
  <2>8. First(x.stack) # "room_config_menu"
    BY <2>5
  <2>9. Good(t) /\ Same(x, t)
    BY <2>5, <2>8, ReadyRet
  <2> HIDE DEF t
  <2>10. /\ us' \in [User -> Session] /\ us'[u] = t
         /\ \A v \in User \ {u} : us'[v] = M(v)
    BY <2>1, <2>6, <2>9 DEF Good, Sound
  <2>11. TypeOK' /\ rooms'["lobby"].alive
    BY <2>3, <2>4, <2>10 DEF TypeOK, IInv
  <2>12. ASSUME NEW v \in User, NEW y, us'[v] = y, y.online = us[v].online,
                y.sysop = us[v].sysop, y.aide => us[v].aide,
                y.room = M(v).room, y.by = M(v).by
         PROVE  Placed(us[v], v)'
    <3>1. Placed(us[v], v)
      BY DEF IInv
    <3>2. "moved" \in y.by => y.room = "lobby" \/ "created" \in y.by
      BY <2>6, <2>12, <3>1 DEF Placed
    <3>3. "created" \notin y.by =>
            \A q \in Public :
              listed'[q][v] = IF y.online /\ y.room = q /\ "moved" \notin y.by THEN 1 ELSE 0
      <4> SUFFICES ASSUME "created" \notin y.by, NEW q \in Public
                   PROVE  listed'[q][v] = IF y.online /\ y.room = q /\ "moved" \notin y.by
                                          THEN 1 ELSE 0
        OBVIOUS
      <4>1. /\ "created" \notin us[v].by
            /\ \A p \in Public :
                 listed[p][v] = IF us[v].online /\ us[v].room = p /\ "moved" \notin us[v].by
                                THEN 1 ELSE 0
        BY <2>6, <2>12, <3>1 DEF Placed
      <4>2. CASE us[v].online /\ us[v].room = "club"
        BY <2>2, <2>4, <2>6, <2>12, <4>1, <4>2
      <4>3. CASE ~(us[v].online /\ us[v].room = "club")
        <5>1. y.room = us[v].room /\ y.by = us[v].by /\ y.online = us[v].online
          BY <2>6, <2>12, <4>3
        <5>2. CASE q = "club"
          BY <2>4, <4>3, <5>1, <5>2
        <5>3. CASE q = "lobby"
          BY <2>4, <4>1, <5>1, <5>3
        <5> QED
          BY <2>2, <5>2, <5>3
      <4> QED
        BY <4>2, <4>3
    <3>4. y.sysop => v \in Sysops
      BY <2>12, <3>1 DEF Placed
    <3>5. ASSUME y.online
          PROVE  y.room # "club"
      BY <2>2, <2>6, <2>12, <3>5
    <3>6. ASSUME y.online
          PROVE  /\ y.room \in Public => rooms'[y.room].alive
                 /\ y.aide /\ ~y.sysop =>
                      (y.room \in Public /\ v \in rooms'[y.room].aides) \/ "moved" \in y.by
      <4>1. CASE us[v].room = "club"
        BY <2>2, <2>6, <2>11, <2>12, <3>6, <4>1
      <4>2. CASE us[v].room # "club"
        <5>1. y.room = us[v].room /\ y.by = us[v].by
          BY <2>6, <2>12, <4>2
        <5>2. y.room \in Public => rooms'[y.room] = rooms[y.room] /\ y.room = "lobby"
          BY <2>2, <2>3, <4>2, <5>1
        <5> QED
          BY <2>11, <2>12, <3>1, <3>6, <5>1, <5>2 DEF Placed, IsAide
      <4> QED
        BY <4>1, <4>2
    <3> QED
      BY <2>12, <3>2, <3>3, <3>4, <3>5, <3>6, PlacedNext
  <2>13. ASSUME NEW v \in User
         PROVE  Placed(us[v], v)' /\ Caused(us[v])' /\ (us[v].online => Good(us[v]))'
    <3>1. CASE v = u
      <4>1. /\ t.online = us[v].online /\ t.sysop = us[v].sysop /\ ~t.aide
            /\ t.room = M(v).room /\ t.by = M(v).by
        BY <2>5, <2>9, <3>1 DEF Same
      <4>2. Placed(us[v], v)'
        BY <2>10, <2>12, <3>1, <4>1
      <4> QED
        BY <2>9, <2>10, <3>1, <4>2 DEF Good
    <3>2. CASE v # u
      <4>1. Placed(us[v], v)'
        BY <2>6, <2>10, <2>12, <3>2
      <4> QED
        BY <2>6, <2>7, <2>10, <3>2, <4>1
    <3> QED
      BY <3>1, <3>2
  <2>14. EditsKeptStep
    <3> SUFFICES ASSUME NEW w \in User, NEW q \in Public, w \in rooms'[q].owed,
                        w \notin rooms[q].owed \/ (us[w].edited /\ us[w].room = q)
                 PROVE  us'[w].edited /\ us'[w].room = q
      BY DEF EditsKeptStep
    <3>4. q # "club"
      BY <2>3 DEF DeadRoom, NewRoom
    <3>1. q # "club" /\ us[w].edited /\ us[w].room = q
      BY <2>2, <2>3, <3>4
    <3>2. CASE w = u
      BY <2>5, <2>6, <2>9, <2>10, <3>1, <3>2 DEF Same
    <3>3. CASE w # u
      BY <2>6, <2>10, <3>1, <3>3
    <3> QED
      BY <3>2, <3>3
  <2> QED
    BY <2>11, <2>13, <2>14 DEF IInv, Kept
<1> QED
  BY <1>1, <1>2

\* state_delete_room preserves the invariant.
LEMMA StateDeleteRoomKept ==
  ASSUME IInv, NEW u \in User, StateDeleteRoom(u)
  PROVE  Kept
<1>1. CASE Asks(u, "delete_room")
  BY <1>1, AsksKept DEF Never, Args, Finders
<1>2. CASE Keyed(u, "delete_room") /\ Do(u, {Ret(us[u])})
  BY <1>2, PromptKept DEF ConfigPrompt
<1>3. CASE Keyed(u, "delete_room") /\ DeleteRoom(u, us[u], us[u].room)
  <2>1. /\ Ready(us[u]) /\ us[u].stack # << >> /\ First(us[u].stack) = "delete_room"
        /\ us[u].online
    BY <1>3, KeyedReady DEF Never, Args, Finders
  <2>2. "delete_room" \notin Bound
    BY TakersAre
  <2> QED
    BY <1>3, <2>1, <2>2, DeleteRoomKept
<1> QED
  BY <1>1, <1>2, <1>3 DEF StateDeleteRoom

\* The handlers of RoomConfigMenus preserve the invariant.
LEMMA RoomConfigKept ==
  ASSUME IInv, NEW u \in User, RoomConfig(u)
  PROVE  Kept
BY StateRoomConfigMenuKept, StateChooseCategoryKept, StateChangeRoominfoKept,
   SaveRoominfoKept, AbortRoominfoKept, StateInvitePromptKept, StateKickoutPromptKept,
   StateAssignRoomaideKept, PromptsKept, StateDeleteRoomKept DEF RoomConfig

------------------------------------------------------------------------------
\* The room prompt is at the bottom of the stack, and so it is alone there.
LEMMA AtPrompt ==
  ASSUME IInv, NEW u \in User, NEW k, Called(u, "room_prompt", k) \/ Keyed(u, "room_prompt")
  PROVE  /\ Ready(us[u]) /\ us[u].stack # << >> /\ First(us[u].stack) = "room_prompt"
         /\ Levels(us[u].stack) = {"room_prompt"} /\ Bare(us[u].stack)
         /\ us[u].online /\ ~us[u].edited
         /\ Keyed(u, "room_prompt") => us[u].draft = "none" /\ Good(us[u])
<1> DEFINE s == us[u]
<1>1. /\ Ready(s) /\ s.stack # << >> /\ First(s.stack) = "room_prompt"
      /\ Lies("room_prompt", Tail(s.stack)) /\ s.online
      /\ Levels(s.stack) = {"room_prompt"} \cup Levels(Tail(s.stack))
  BY CalledReady, KeyedReady DEF Never, Args, Finders
<1>2. Levels(s.stack) = {"room_prompt"}
  BY <1>1 DEF Lies
<1>3. ~s.edited
  BY <1>1, <1>2 DEF Ready, Sound
<1>4. Keyed(u, "room_prompt") => s.draft = "none" /\ Good(s)
  BY KeyedFacts DEF Good, Idle
<1> QED
  BY <1>1, <1>2, <1>3, <1>4 DEF Bare

\* The privileges of a session do not matter to its stack, but for what was made.
LEMMA ReadyRights ==
  ASSUME NEW s, Ready(s), NEW t \in Session, t.stack = s.stack, t.edited = s.edited,
         t.draft = s.draft, t.read = s.read, t.room = s.room, t.pager = s.pager,
         t.harm = s.harm, t.by = s.by, Made(t)
  PROVE  Ready(t)
<1>1. Sound(t)
  BY DEF Ready, Sound, DraftKept
<1> QED
  BY <1>1 DEF Ready, Calm, Both

\* Nor do they matter to what is called with which key.
LEMMA GoodRights ==
  ASSUME NEW s, Good(s), NEW t \in Session, t.stack = s.stack, t.key = s.key,
         t.edited = s.edited, t.draft = s.draft, t.read = s.read, t.room = s.room,
         t.pager = s.pager, t.harm = s.harm, t.by = s.by, Made(t)
  PROVE  Good(t)
<1>1. Sound(t)
  BY DEF Good, Sound, DraftKept
<1>2. PagerKept(t)
  BY DEF Good, PagerKept, Calm
<1>3. FlagsKept(t)
  BY DEF Good, FlagsKept, Both
<1>4. Idle(t) /\ Caused(t)
  BY DEF Good, Idle, Caused, Both
<1> QED
  BY <1>1, <1>2, <1>3, <1>4 DEF Good

\* A step of one user that changes at most his privileges, the way he may
LEMMA RightsKept ==
  ASSUME IInv, NEW u \in User, NEW S, Do(u, S), us[u].online,
         \A t \in S : /\ Good(t) /\ t.online = us[u].online /\ t.room = us[u].room
                      /\ t.edited = us[u].edited
                      /\ t.by \cap {"moved", "created"} = us[u].by \cap {"moved", "created"}
                      /\ t.sysop => u \in Sysops
                      /\ t.aide /\ ~t.sysop => IsAide(u, t.room) \/ "moved" \in t.by
  PROVE  Kept
<1>1. PICK t \in S : us' = [us EXCEPT ![u] = t]
  BY DEF Do
<1>2. /\ Good(t) /\ t.online = us[u].online /\ t.room = us[u].room
      /\ t.edited = us[u].edited
      /\ t.by \cap {"moved", "created"} = us[u].by \cap {"moved", "created"}
      /\ t.sysop => u \in Sysops
      /\ t.aide /\ ~t.sysop => IsAide(u, t.room) \/ "moved" \in t.by
  BY <1>1
<1>3. us \in [User -> Session] /\ t \in Session
  BY <1>2 DEF IInv, TypeOK, Good, Sound
<1>4. us' \in [User -> Session] /\ us'[u] = t /\ \A w \in User \ {u} : us'[w] = us[w]
  BY <1>1, <1>3
<1>5. rooms' = rooms /\ listed' = listed
  BY DEF Do
<1>6. TypeOK' /\ rooms'["lobby"].alive
  BY <1>4, <1>5 DEF TypeOK, IInv
<1>7. ASSUME NEW w \in User
      PROVE  Placed(us[w], w)' /\ Caused(us[w])' /\ (us[w].online => Good(us[w]))'
  <2>1. Placed(us[w], w) /\ Caused(us[w]) /\ (us[w].online => Good(us[w]))
    BY DEF IInv
  <2>2. CASE w = u
    <3>1. Placed(t, u)
      BY <1>2, <2>1, <2>2 DEF Placed
    <3>2. Placed(us[u], u)'
      BY <1>4, <1>5, <3>1 DEF Placed, Exists, IsAide, KickedFrom
    <3> QED
      BY <1>2, <1>4, <2>2, <3>2 DEF Good
  <2>3. CASE w # u
    BY <1>4, <1>5, <2>1, <2>3 DEF Placed, Exists, IsAide, KickedFrom
  <2> QED
    BY <2>2, <2>3
<1>8. EditsKeptStep
  BY <1>2, <1>4, <1>5 DEF EditsKeptStep
<1> QED
  BY <1>6, <1>7, <1>8 DEF IInv, Kept

\* PrintPrompt
LEMMA ReadyPrint ==
  ASSUME NEW s, Ready(s), First(s.stack) = "room_prompt", Levels(s.stack) = {"room_prompt"}
  PROVE  LET t == PrintPrompt(s)
         IN  /\ Ready(t) /\ Good(t) /\ Stays(s, t) /\ t.stack = s.stack /\ t.draft = "none"
             /\ t.by = s.by \ {"boss", "thrown"}
<1> DEFINE t == PrintPrompt(s)
<1>1. s \in Session /\ Sound(s)
  BY DEF Ready, Sound
<1>2. /\ t \in Session /\ t.stack = s.stack /\ t.key = "wait" /\ t.draft = "none"
      /\ t.pager = "closed" /\ t.by = s.by \ {"boss", "thrown"} /\ t.harm = s.harm
      /\ t.edited = s.edited /\ t.read = s.read /\ t.online = s.online /\ t.room = s.room
      /\ t.sysop = s.sysop /\ t.aide = s.aide
  BY <1>1 DEF PrintPrompt, Wait, Session
<1> HIDE DEF t
<1>3. Sound(t)
  BY <1>1, <1>2 DEF Sound, DraftKept, Made
<1>4. Ready(t)
  BY <1>2, <1>3 DEF Ready
<1>5. PagerKept(t) /\ FlagsKept(t) /\ Idle(t) /\ Caused(t)
  BY <1>2 DEF Ready, PagerKept, FlagsKept, Idle, Caused, Args, Finders
<1> QED
  BY <1>2, <1>3, <1>4, <1>5 DEF Good, Stays, t

\* enter_message, from the room prompt
LEMMA ReadyEnterMessage ==
  ASSUME NEW s, Ready(s), Levels(s.stack) = {"room_prompt"}
  PROVE  \A t \in EnterMessage(s) : Good(t) /\ Stays(s, t)
<1> DEFINE d == [s EXCEPT !.draft = s.room]
           n == EnterName(d, "enter_mail_recipients")
           c == Call(d, "post_as_anon")
<1>1. /\ Ready(d) /\ Stays(s, d) /\ d.stack = s.stack /\ d.draft # "none"
  BY ReadyDraft
<1>2. Bare(d.stack)
  BY <1>1 DEF Bare
<1> HIDE DEF d
<1>3. \A f \in OnPrompt : Lies(f, d.stack)
  BY <1>1, <1>2, BareFacts
<1>4. Good(n) /\ Stays(d, n)
  <2> DEFINE p == Push(d, "enter_mail_recipients")
  <2>1. Ready(p) /\ Same(d, p) /\ First(p.stack) = "enter_mail_recipients"
    BY <1>1, <1>3, Named, ReadyPush DEF Never, Args, OnPrompt, LaidOn, Needs
  <2> HIDE DEF p
  <2>2. Good(Wait(p)) /\ Same(p, Wait(p))
    BY <2>1, ReadyWait
  <2> QED
    BY <2>1, <2>2 DEF EnterName, Same, Stays, p
<1>5. Good(c) /\ Stays(d, c)
  BY <1>1, <1>3, Named, ReadyCall, SameStays DEF Finders, Args, OnPrompt, Needs
<1>6. \A t \in EnterTheMessage(d) : Good(t) /\ Stays(d, t)
  BY <1>1, <1>2, ReadyEnterTheMessage
<1>7. Good(Current(s)) /\ Stays(s, Current(s))
  BY ReadyCurrent, SameStays
<1> HIDE DEF n, c
<1>8. ASSUME NEW t \in EnterMessage(s)
      PROVE  t = Current(s) \/ t = n \/ t = c \/ t \in EnterTheMessage(d)
  BY <1>8 DEF EnterMessage, n, c, d
<1>9. ASSUME NEW t, Stays(d, t)
      PROVE  Stays(s, t)
  BY <1>1, <1>9 DEF Stays
<1> QED
  BY <1>4, <1>5, <1>6, <1>7, <1>8, <1>9

\* Whether there is a message that was to be read does not matter to a session in which
\* nothing went wrong.
LEMMA ReadyMissing ==
  ASSUME NEW s, Ready(s), NEW B \in {s.by \ {"missing"}, s.by \cup {"missing"}}
  PROVE  LET d == [s EXCEPT !.by = B]
         IN  Ready(d) /\ Stays(s, d) /\ d.stack = s.stack /\ d.draft = s.draft /\ d.by = B
<1> DEFINE d == [s EXCEPT !.by = B]
<1>1. /\ d \in Session /\ d.stack = s.stack /\ d.read = s.read /\ d.by = B
      /\ d.habit = s.habit /\ d.online = s.online /\ d.room = s.room /\ d.sysop = s.sysop
      /\ d.aide = s.aide /\ d.edited = s.edited /\ d.draft = s.draft
      /\ d.pager = s.pager /\ d.harm = s.harm
  <2>1. s \in Session
    BY DEF Ready, Sound
  <2> QED
    BY <2>1 DEF Session
<1> HIDE DEF d
<1>2. /\ Calm(d) <=> Calm(s)
      /\ Both(d) <=> Both(s)
      /\ \A b \in {"thrown", "moved", "created"} : b \in d.by <=> b \in s.by
  BY <1>1 DEF Calm, Both
<1>3. Ready(d)
  BY <1>1, <1>2 DEF Ready, Sound, DraftKept, Made
<1>4. Stays(s, d)
  BY <1>1 DEF Stays
<1> QED
  BY <1>1, <1>3, <1>4 DEF d

\* The keys at the room prompt that a message which was read is needed for, or that read
\* one or stop reading
LEMMA MessageKeysGood ==
  ASSUME NEW s, Ready(s), First(s.stack) = "room_prompt", Levels(s.stack) = {"room_prompt"},
         s.draft = "none", Good(s),
         NEW t \in ReadMsg(s) \cup MessageKeys(s) \cup StopReading(s) \cup ParentKey(s)
  PROVE  Good(t) /\ Stays(s, t)
<1> DEFINE d == [s EXCEPT !.draft = s.room]
           k == [s EXCEPT !.by = @ \ {"missing"}]
           m == [s EXCEPT !.by = @ \cup {"missing"}]
           r == [k EXCEPT !.read = TRUE]
           f == [k EXCEPT !.read = FALSE]
           n == [m EXCEPT !.read = FALSE]
           p == Push(s, "room_prompt")
<1>1. /\ Ready(d) /\ Stays(s, d) /\ d.stack = s.stack /\ d.draft # "none"
  BY ReadyDraft
<1>2. /\ Ready(r) /\ Stays(s, r) /\ Ready(f) /\ Stays(s, f) /\ Ready(n) /\ Stays(s, n)
      /\ f.stack = s.stack /\ f.draft = s.draft /\ n.stack = s.stack /\ n.draft = s.draft
  <2>1. /\ Ready(k) /\ Stays(s, k) /\ k.stack = s.stack /\ k.draft = s.draft
        /\ Ready(m) /\ Stays(s, m) /\ m.stack = s.stack /\ m.draft = s.draft
    BY ReadyMissing
  <2>2. /\ {"delete_msg", "undelete_msg"} \cap Levels(k.stack) = {}
        /\ {"delete_msg", "undelete_msg"} \cap Levels(m.stack) = {}
    BY <2>1
  <2> HIDE DEF k, m
  <2>3. /\ Ready(r) /\ Stays(k, r) /\ Ready(f) /\ Stays(k, f) /\ Ready(n) /\ Stays(m, n)
        /\ f.stack = k.stack /\ f.draft = k.draft /\ n.stack = m.stack /\ n.draft = m.draft
    BY <2>1, <2>2, ReadyRead
  <2> HIDE DEF r, f, n
  <2> QED
    BY <2>1, <2>3 DEF Stays
<1>3. s \in Session
  BY DEF Good, Sound
<1>4. /\ Pop(p) = s /\ s.stack # << >>
      /\ Pop([p EXCEPT !.read = FALSE, !.by = @ \cup {"missing"}]) = n
  <2>1. /\ p \in Session /\ p.stack = <<"room_prompt">> \o s.stack /\ p.stack # << >>
        /\ Tail(p.stack) = s.stack
    <3>1. s.stack \in Seq(Frame) /\ "room_prompt" \in Frame
      BY <1>3, Named DEF Session
    <3>2. p \in Session /\ p.stack = <<"room_prompt">> \o s.stack
      BY <1>3, <3>1, PushFacts
    <3> HIDE DEF p
    <3>3. <<"room_prompt">> \o s.stack # << >> /\ Tail(<<"room_prompt">> \o s.stack) = s.stack
      BY <3>1, Above
    <3> QED
      BY <3>2, <3>3
  <2>2. p = [s EXCEPT !.stack = <<"room_prompt">> \o @]
    BY DEF Push
  <2>3. Pop(p) = [p EXCEPT !.stack = s.stack]
    BY <2>1 DEF Pop, Empty
  <2>4. Pop(p) = s
    BY <1>3, <2>2, <2>3 DEF Session
  <2>5. Pop([p EXCEPT !.read = FALSE, !.by = @ \cup {"missing"}]) = n
    <3> DEFINE e == [p EXCEPT !.read = FALSE, !.by = @ \cup {"missing"}]
    <3>1. e.stack = p.stack
      BY <2>1 DEF Session
    <3>2. Pop(e) = [e EXCEPT !.stack = s.stack]
      BY <2>1, <3>1 DEF Pop, Empty
    <3> QED
      BY <1>3, <2>2, <3>2 DEF Session
  <2>6. s.stack # << >>
    BY DEF First
  <2> QED
    BY <2>4, <2>5, <2>6
<1>5. \A g \in OnPrompt : Lies(g, s.stack) /\ Lies(g, d.stack)
  BY <1>1, BareFacts DEF Bare
<1>6. CASE t \in ReadMsg(s)
  <2>1. Good(ReadText(r)) /\ Stays(r, ReadText(r))
    BY <1>2, ReadyReadText
  <2>2. Good(Current(n)) /\ Stays(n, Current(n)) /\ Good(Current(s)) /\ Stays(s, Current(s))
    BY <1>2, ReadyCurrent, SameStays
  <2>3. /\ Ret([p EXCEPT !.read = FALSE, !.by = @ \cup {"missing"}]) = Current(n)
        /\ Ret(p) = Current(s)
    BY <1>2, <1>4 DEF Ret, RetX, Current, Empty
  <2>5. [Pop(p) EXCEPT !.read = TRUE, !.by = @ \ {"missing"}] = r
    BY <1>3, <1>4 DEF Session
  <2>4. t = ReadText(r) \/ t = Current(n) \/ t = Current(s)
    BY <1>6, <2>3, <2>5 DEF ReadMsg
  <2> HIDE DEF r, n, p
  <2> QED
    BY <1>2, <2>1, <2>2, <2>4 DEF Stays
<1>8. CASE t \in StopReading(s)
  <2>1. t = f
    BY <1>3, <1>8 DEF StopReading, Session
  <2>2. f.key = s.key /\ f.pager = s.pager /\ f.by = s.by \ {"missing"} /\ f.harm = "none"
    BY <1>3 DEF Session, Ready
  <2> HIDE DEF f
  <2>3. (Calm(f) <=> Calm(s)) /\ (Both(f) <=> Both(s)) /\ ("boss" \in f.by <=> "boss" \in s.by)
    BY <2>2 DEF Calm, Both
  <2>4. Sound(f)
    BY <1>2 DEF Ready
  <2>5. PagerKept(f) /\ FlagsKept(f) /\ Idle(f) /\ Caused(f)
    BY <1>2, <2>2, <2>3 DEF Good, PagerKept, FlagsKept, Idle, Caused
  <2> QED
    BY <1>2, <2>1, <2>4, <2>5 DEF Good
<1>9. CASE t \in ParentKey(s) \ ReadMsg(s)
  <2>1. "missing" \in s.by /\ (t = s \/ t = Harm(s, "null_message"))
    BY <1>9 DEF ParentKey
  <2>2. CASE t = s
    BY <2>2 DEF Stays
  <2>3. CASE t = Harm(s, "null_message")
    <3>1. Good(t) /\ Stays(s, t)
      BY <2>1, <2>3, ReadyHarm
    <3> QED
      BY <3>1
  <2> QED
    BY <2>1, <2>2, <2>3
<1>7. CASE t \in MessageKeys(s)
  <2>1. s.read
    BY <1>7 DEF MessageKeys
  <2>3. CASE t = Call(s, "delete_msg")
    BY <1>5, <2>1, <2>3, Named, ReadyCall, SameStays DEF Finders, Args, OnPrompt, Needs
  <2>4. CASE t = ReadText(Push(s, "undelete_msg"))
    <3> DEFINE q == Push(s, "undelete_msg")
    <3>1. Ready(q) /\ Same(s, q)
      BY <1>5, <2>1, Named, ReadyPush DEF Never, Args, OnPrompt, Needs
    <3> HIDE DEF q
    <3>2. Good(ReadText(q)) /\ Stays(q, ReadText(q))
      BY <3>1, ReadyReadText
    <3> QED
      BY <2>4, <3>1, <3>2 DEF q, Same, Stays
  <2>5. CASE t = Reply(s)
    <3>1. /\ t = EditText(d, SaveOf("abort_message"), "abort_message")
          /\ "abort_message" \in Aborts /\ SaveOf("abort_message") \in OnPrompt
      BY <2>5 DEF Reply, SaveOf, Aborts, OnPrompt
    <3> HIDE DEF d
    <3>2. Good(t) /\ Stays(d, t)
      BY <1>1, <1>5, <3>1, ReadyEditText
    <3> QED
      BY <1>1, <3>2 DEF Stays
  <2>6. CASE t = Forward(s)
    <3> DEFINE q == Push(d, "enter_forward_recipients")
    <3>1. t = Wait(q) \/ t = Call(d, "forward_room")
      BY <2>6 DEF Forward, EnterName
    <3> HIDE DEF d
    <3>2. Ready(q) /\ Same(d, q) /\ First(q.stack) = "enter_forward_recipients"
      BY <1>1, <1>5, Named, ReadyPush DEF Never, Args, OnPrompt, LaidOn, Needs
    <3> HIDE DEF q
    <3>3. Good(Wait(q)) /\ Same(q, Wait(q))
      BY <3>2, ReadyWait
    <3>4. Good(Call(d, "forward_room")) /\ Same(d, Call(d, "forward_room"))
      BY <1>1, <1>5, Named, ReadyCall DEF Finders, Args, OnPrompt, Needs
    <3> QED
      BY <1>1, <3>1, <3>2, <3>3, <3>4 DEF Same, Stays
  <2> HIDE DEF d
  <2>7. t \in {Call(s, "delete_msg"), ReadText(Push(s, "undelete_msg")), Reply(s), Forward(s)}
    BY <1>7, <2>1 DEF MessageKeys
  <2> QED
    BY <2>3, <2>4, <2>5, <2>6, <2>7
<1> QED
  BY <1>6, <1>7, <1>8, <1>9

\* '$' and '@', and the key that makes an aide of this room one
LEMMA RightsKeysKept ==
  ASSUME IInv, NEW u \in User, Keyed(u, "room_prompt"),
         \/ Do(u, RoomConfigKey(u, us[u]) \cup PrivilegeKey(u, us[u]))
         \/ Do(u, AideKey(u, us[u]))
  PROVE  Kept
<1> DEFINE s == us[u]
           K == RoomConfigKey(u, s) \cup PrivilegeKey(u, s)
           a == [s EXCEPT !.aide = @ \/ IsAide(u, s.room)]
           c == Call(a, "room_config_menu")
           d == DropSysopPrivs(u, s)
           p == Call(s, "su_prompt")
           b == [s EXCEPT !.aide = ~@]
<1>1. /\ Ready(s) /\ Good(s) /\ s.online /\ ~s.edited /\ Bare(s.stack) /\ s \in Session
  BY AtPrompt DEF Good, Sound
<1>0. Levels(s.stack) = {"room_prompt"}
  BY AtPrompt
<1>2. Placed(s, u)
  BY DEF IInv
<1>3. /\ a \in Session /\ a.stack = s.stack /\ a.key = s.key /\ a.edited = s.edited
      /\ a.draft = s.draft /\ a.read = s.read /\ a.room = s.room /\ a.pager = s.pager
      /\ a.harm = s.harm /\ a.by = s.by /\ a.online = s.online /\ a.sysop = s.sysop
      /\ a.aide = (s.aide \/ IsAide(u, s.room))
  BY <1>1 DEF Session, IsAide
<1>4. /\ d \in Session /\ d.stack = s.stack /\ d.key = s.key /\ d.edited = s.edited
      /\ d.draft = s.draft /\ d.read = s.read /\ d.room = s.room /\ d.pager = s.pager
      /\ d.harm = s.harm /\ d.by = s.by /\ d.online = s.online /\ ~d.sysop
      /\ d.aide = (s.aide /\ IsAide(u, s.room))
  BY <1>1 DEF Session, IsAide, DropSysopPrivs
<1>5. /\ b \in Session /\ b.stack = s.stack /\ b.key = s.key /\ b.edited = s.edited
      /\ b.draft = s.draft /\ b.read = s.read /\ b.room = s.room /\ b.pager = s.pager
      /\ b.harm = s.harm /\ b.by = s.by /\ b.online = s.online /\ b.sysop = s.sysop
  BY <1>1 DEF Session
<1> HIDE DEF a, b, d
<1>6. Good(d) /\ Good(b)
  <2>1. Made(d) /\ Made(b)
    BY <1>0, <1>4, <1>5 DEF Made
  <2> QED
    BY <1>1, <1>4, <1>5, <2>1, GoodRights
<1>7. Good(c) /\ Same(a, c)
  <2>1. Ready(a) /\ Needs("room_config_menu", a)
    <3>1. Made(a)
      BY <1>0, <1>3 DEF Made
    <3> QED
      BY <1>0, <1>1, <1>3, <3>1, ReadyRights DEF Needs
  <2>2. Lies("room_config_menu", a.stack)
    BY <1>1, <1>3, BareFacts DEF OnPrompt
  <2> QED
    BY <2>1, <2>2, Named, ReadyCall DEF Finders, Args, OnPrompt
<1>8. Good(p) /\ Same(s, p)
  <2>1. Lies("su_prompt", s.stack)
    BY <1>1, BareFacts DEF OnPrompt
  <2> QED
    BY <1>1, <2>1, Named, ReadyCall DEF Finders, Args, OnPrompt, Needs
<1> HIDE DEF c, p
<1>9. \A t \in K : t = c \/ t = d \/ t = p
  BY DEF RoomConfigKey, PrivilegeKey, a, c, d, p
<1>10. \A t \in AideKey(u, s) : t = b /\ (s.sysop \/ IsAide(u, s.room))
  BY DEF AideKey, b
<1>11. CASE Do(u, K)
  <2>1. \A t \in K : /\ Good(t) /\ t.online = s.online /\ t.room = s.room
                     /\ t.edited = s.edited
                     /\ t.by \cap {"moved", "created"} = s.by \cap {"moved", "created"}
                     /\ t.sysop => u \in Sysops
                     /\ t.aide /\ ~t.sysop => IsAide(u, t.room) \/ "moved" \in t.by
    BY <1>1, <1>2, <1>3, <1>4, <1>6, <1>7, <1>8, <1>9 DEF Placed, Same
  <2> HIDE DEF K
  <2> QED
    BY <1>1, <1>11, <2>1, RightsKept
<1>12. CASE Do(u, AideKey(u, s))
  <2>1. \A t \in AideKey(u, s) :
          /\ Good(t) /\ t.online = s.online /\ t.room = s.room /\ t.edited = s.edited
          /\ t.by \cap {"moved", "created"} = s.by \cap {"moved", "created"}
          /\ t.sysop => u \in Sysops
          /\ t.aide /\ ~t.sysop => IsAide(u, t.room) \/ "moved" \in t.by
    BY <1>1, <1>2, <1>5, <1>6, <1>10 DEF Placed
  <2> QED
    BY <1>1, <1>12, <2>1, RightsKept
<1> QED
  BY <1>11, <1>12

\* state_room_prompt preserves the invariant.
LEMMA StateRoomPromptKept ==
  ASSUME IInv, NEW u \in User, StateRoomPrompt(u)
  PROVE  Kept
<1> DEFINE s == us[u]
           J == {Call(s, f) : f \in {"jump_room", "zap_prompt", "zapall_prompt"}}
           E == EnterMessage(s) \cup ReadMsg(s) \cup MessageKeys(s)
                  \cup StopReading(s) \cup ParentKey(s)
           L == Lists(s) \cup Lock(s) \cup J
<1>1. CASE Called(u, "room_prompt", "init") /\ Do(u, {PrintPrompt(s)})
  <2>1. /\ Ready(s) /\ First(s.stack) = "room_prompt" /\ Levels(s.stack) = {"room_prompt"}
        /\ s.online
    BY <1>1, AtPrompt
  <2>2. Good(PrintPrompt(s)) /\ Stays(s, PrintPrompt(s))
    BY <2>1, ReadyPrint
  <2> QED
    BY <1>1, <2>1, <2>2, DoKept
<1>2. CASE /\ Keyed(u, "room_prompt")
           /\ \/ Do(u, RoomConfigKey(u, s) \cup PrivilegeKey(u, s)) \/ Do(u, AideKey(u, s))
  BY <1>2, RightsKeysKept
<1>3. ASSUME Keyed(u, "room_prompt")
      PROVE  /\ Ready(s) /\ First(s.stack) = "room_prompt" /\ Levels(s.stack) = {"room_prompt"}
             /\ s.online /\ s.draft = "none" /\ Good(s) /\ Bare(s.stack)
  BY <1>3, AtPrompt
<1>4. CASE Keyed(u, "room_prompt") /\ Do(u, {Call(s, "boss")})
  <2>1. Good(Call(s, "boss")) /\ Stays(s, Call(s, "boss"))
    BY <1>3, <1>4, Plains, ReadyCallPlain
  <2> QED
    BY <1>3, <1>4, <2>1, DoKept
<1>5. CASE Keyed(u, "room_prompt") /\ Do(u, E)
  <2>1. \A t \in E : Good(t) /\ Stays(s, t)
    BY <1>3, <1>5, ReadyEnterMessage, MessageKeysGood
  <2> HIDE DEF E
  <2> QED
    BY <1>3, <1>5, <2>1, DoKept
<1>6. CASE Keyed(u, "room_prompt") /\ Do(u, L)
  <2> DEFINE p == Push(s, "lock_password")
             q == Call(p, "ask_away_reason")
  <2>1. Ready(s) /\ s.online
    BY <1>3, <1>6
  <2>2. Good(ReadText(s)) /\ Stays(s, ReadText(s))
    BY <2>1, ReadyReadText
  <2>3. Good(Call(s, "lock_password")) /\ Stays(s, Call(s, "lock_password"))
    BY <2>1, Plains, ReadyCallPlain
  <2>4. Good(q) /\ Stays(s, q)
    <3>1. Lies("lock_password", s.stack)
      BY <2>1, Plains, PlainLies DEF Ready
    <3>2. Ready(p) /\ Same(s, p)
      BY <2>1, <3>1, Plains, ReadyPush DEF Never, Args, Needs
    <3> HIDE DEF p
    <3>3. Good(Call(p, "ask_away_reason")) /\ Stays(p, Call(p, "ask_away_reason"))
      BY <3>2, Plains, ReadyCallPlain
    <3> QED
      BY <3>2, <3>3 DEF Same, Stays
  <2>5. \A t \in J : Good(t) /\ Stays(s, t)
    <3> SUFFICES ASSUME NEW f \in {"jump_room", "zap_prompt", "zapall_prompt"}
                 PROVE  Good(Call(s, f)) /\ Stays(s, Call(s, f))
      OBVIOUS
    <3>1. f \in OnPrompt /\ f \in Frame /\ f \notin Finders \cup Args /\ Needs(f, s)
      BY Named DEF OnPrompt, Finders, Args, Needs
    <3>2. Lies(f, s.stack)
      BY <1>3, <1>6, <3>1, BareFacts
    <3> QED
      BY <2>1, <3>1, <3>2, ReadyCall, SameStays
  <2> HIDE DEF J, q
  <2>6. \A t \in L : t \in J \/ t = ReadText(s) \/ t = Call(s, "lock_password") \/ t = q
    BY DEF Lists, Lock, q
  <2>7. \A t \in L : Good(t) /\ Stays(s, t)
    BY <2>2, <2>3, <2>4, <2>5, <2>6
  <2> HIDE DEF L
  <2> QED
    BY <1>6, <2>1, <2>7, DoKept
<1> QED
  BY <1>1, <1>2, <1>4, <1>5, <1>6 DEF StateRoomPrompt

\* state_su_prompt preserves the invariant.
LEMMA StateSuPromptKept ==
  ASSUME IInv, NEW u \in User, StateSuPrompt(u)
  PROVE  Kept
<1> DEFINE s == us[u]
           d == [s EXCEPT !.sysop = TRUE]
<1>1. CASE Asks(u, "su_prompt")
  BY <1>1, AsksKept DEF Never, Args, Finders
<1>2. CASE Keyed(u, "su_prompt") /\ (Do(u, {Ret(s)}) \/ (u \in Sysops /\ Do(u, {Ret(d)})))
  <2>1. Ready(s) /\ s.stack # << >> /\ First(s.stack) = "su_prompt" /\ s.online
    BY <1>2, KeyedReady DEF Never, Args, Finders
  <2>2. s \in Session /\ Placed(s, u)
    BY <2>1 DEF IInv, Ready, Sound
  <2>3. /\ d \in Session /\ d.stack = s.stack /\ d.edited = s.edited
        /\ d.draft = s.draft /\ d.read = s.read /\ d.room = s.room /\ d.pager = s.pager
        /\ d.harm = s.harm /\ d.by = s.by /\ d.online = s.online /\ d.sysop
    BY <2>2 DEF Session
  <2> HIDE DEF d
  <2>4. Ready(d)
    <3>1. "room_config_menu" \notin Levels(s.stack)
      <4>1. /\ Lies("su_prompt", Tail(s.stack))
            /\ Levels(s.stack) = {"su_prompt"} \cup Levels(Tail(s.stack))
        BY <2>1, TopFits DEF Ready, Sound
      <4> QED
        BY <4>1 DEF Lies, OnPrompt
    <3>2. Made(d)
      BY <2>3, <3>1 DEF Made
    <3> QED
      BY <2>1, <2>3, <3>2, ReadyRights
  <2>5. /\ Good(Ret(s)) /\ Same(s, Ret(s)) /\ Good(Ret(d)) /\ Same(d, Ret(d))
    <3>1. "su_prompt" \notin Bound \cup {"return_forward", "room_config_menu"}
      BY TakersAre
    <3> QED
      BY <2>1, <2>3, <2>4, <3>1, ReadyRet
  <2>6. CASE Do(u, {Ret(s)})
    BY <2>1, <2>5, <2>6, SameStays, DoKept
  <2>7. CASE u \in Sysops /\ Do(u, {Ret(d)})
    <3> DEFINE S == {Ret(d)}
    <3>1. \A t \in S :
            /\ Good(t) /\ t.online = us[u].online /\ t.room = us[u].room
            /\ t.edited = us[u].edited
            /\ t.by \cap {"moved", "created"} = us[u].by \cap {"moved", "created"}
            /\ t.sysop => u \in Sysops
            /\ t.aide /\ ~t.sysop => IsAide(u, t.room) \/ "moved" \in t.by
      BY <2>3, <2>5, <2>7 DEF Same
    <3> HIDE DEF S
    <3>2. Do(u, S)
      BY <2>7 DEF S
    <3>3. us[u].online
      BY <2>1
    <3> QED
      BY <3>1, <3>2, <3>3, RightsKept
  <2> QED
    BY <1>2, <2>6, <2>7
<1> QED
  BY <1>1, <1>2 DEF StateSuPrompt

\* Going to another room, from the room prompt or from a prompt that lies on it
LEMMA NextRoomKept ==
  ASSUME IInv, NEW u \in User, NextRoom(u)
  PROVE  Kept
<1> DEFINE s == us[u]
<1>1. PICK r \in Room \ {s.room} : Exists(r) /\ ~KickedFrom(u, r) /\ GotoRoom(u, s, r)
  BY DEF NextRoom
<1>2. Ready(s) /\ Bare(s.stack) /\ s.online
  BY AtPrompt DEF NextRoom
<1>3. Stays(s, s)
  BY DEF Stays
<1> QED
  BY <1>1, <1>2, <1>3, GotoRoomKept

\* Of the prompts for a room's name: the function is on the room prompt, and is left.
LEMMA RoomNameFacts ==
  ASSUME IInv, NEW u \in User, NEW f \in {"jump_room", "zap_prompt", "zapall_prompt"},
         NEW k, Called(u, f, k) \/ Keyed(u, f)
  PROVE  /\ Ready(us[u]) /\ us[u].online /\ First(us[u].stack) = f
         /\ Ready(Pop(us[u])) /\ Stays(us[u], Pop(us[u])) /\ Bare(Pop(us[u]).stack)
         /\ Good(Ret(us[u])) /\ Stays(us[u], Ret(us[u]))
         /\ Good(Wait(us[u])) /\ Stays(us[u], Wait(us[u]))
<1>1. Ready(us[u]) /\ us[u].stack # << >> /\ First(us[u].stack) = f /\ us[u].online
  BY CalledReady, KeyedReady DEF Never, Args, Finders
<1>2. f \in OnPrompt \ {"room_config_menu"}
  BY DEF OnPrompt
<1> QED
  BY <1>1, <1>2, OnPromptPop, ReadyWait, SameStays

\* state_jump_room preserves the invariant.
LEMMA StateJumpRoomKept ==
  ASSUME IInv, NEW u \in User, StateJumpRoom(u)
  PROVE  Kept
<1> DEFINE s == us[u]
<1>1. CASE Asks(u, "jump_room")
  BY <1>1, AsksKept DEF Never, Args, Finders
<1>2. ASSUME Keyed(u, "jump_room")
      PROVE  /\ s.online /\ Ready(Pop(s)) /\ Stays(s, Pop(s)) /\ Bare(Pop(s).stack)
             /\ Good(Ret(s)) /\ Stays(s, Ret(s)) /\ (s.sysop => u \in Sysops)
  BY <1>2, RoomNameFacts DEF IInv, Placed
<1>3. CASE Keyed(u, "jump_room") /\ Do(u, {Ret(s)})
  BY <1>2, <1>3, DoKept
<1>4. ASSUME Keyed(u, "jump_room"), NEW r \in Room \ {s.room}, Exists(r),
             KickedFrom(u, r) => s.sysop /\ r # "mail", GotoRoom(u, Pop(s), r)
      PROVE  Kept
  BY <1>2, <1>4, GotoRoomKept
<1> QED
  BY <1>1, <1>3, <1>4 DEF StateJumpRoom

\* state_zap_prompt preserves the invariant.
LEMMA StateZapPromptKept ==
  ASSUME IInv, NEW u \in User, StateZapPrompt(u)
  PROVE  Kept
<1> DEFINE s == us[u]
           b == s.room \in {"lobby", "mail"} \/ IsAide(u, s.room)
<1>1. CASE Called(u, "zap_prompt", "init") /\ Do(u, {IF b THEN Ret(s) ELSE Wait(s)})
  <2>1. /\ s.online /\ Good(Ret(s)) /\ Stays(s, Ret(s)) /\ Good(Wait(s)) /\ Stays(s, Wait(s))
    BY <1>1, RoomNameFacts
  <2> HIDE DEF b
  <2> QED
    BY <1>1, <2>1, DoKept
<1>2. ASSUME Keyed(u, "zap_prompt")
      PROVE  /\ s.online /\ Ready(Pop(s)) /\ Stays(s, Pop(s)) /\ Bare(Pop(s).stack)
             /\ Good(Ret(s)) /\ Stays(s, Ret(s))
  BY <1>2, RoomNameFacts
<1>3. CASE Keyed(u, "zap_prompt") /\ Do(u, {Ret(s)})
  BY <1>2, <1>3, DoKept
<1>4. ASSUME Keyed(u, "zap_prompt"), NEW r \in Room \ {s.room}, Exists(r),
             ~KickedFrom(u, r), GotoRoom(u, Pop(s), r)
      PROVE  Kept
  BY <1>2, <1>4, GotoRoomKept
<1> QED
  BY <1>1, <1>3, <1>4 DEF StateZapPrompt

\* state_zapall_prompt preserves the invariant.
LEMMA StateZapallPromptKept ==
  ASSUME IInv, NEW u \in User, StateZapallPrompt(u)
  PROVE  Kept
<1> DEFINE s == us[u]
<1>1. CASE Asks(u, "zapall_prompt")
  BY <1>1, AsksKept DEF Never, Args, Finders
<1>2. ASSUME Keyed(u, "zapall_prompt")
      PROVE  /\ s.online /\ Ready(Pop(s)) /\ Stays(s, Pop(s)) /\ Bare(Pop(s).stack)
             /\ Good(Ret(s)) /\ Stays(s, Ret(s))
  BY <1>2, RoomNameFacts
<1>3. CASE Keyed(u, "zapall_prompt") /\ Do(u, {Ret(s)})
  BY <1>2, <1>3, DoKept
<1>4. CASE Keyed(u, "zapall_prompt") /\ GotoRoom(u, Pop(s), "lobby")
  <2>1. "lobby" \in Room /\ Exists("lobby") /\ "lobby" # "club"
    BY DEF Room, Public, Exists, IInv
  <2> QED
    BY <1>2, <1>4, <2>1, GotoRoomKept
<1> QED
  BY <1>1, <1>3, <1>4 DEF StateZapallPrompt

\* mail_anywhere preserves the invariant.
LEMMA MailAnywhereKept ==
  ASSUME IInv, NEW u \in User, MailAnywhere(u)
  PROVE  Kept
<1> DEFINE s == us[u]
           n == Entered(s, "mail")
           e == PrintPrompt(n)
<1>1. /\ Ready(s) /\ Bare(s.stack) /\ s.online /\ ~s.edited /\ First(s.stack) = "room_prompt"
      /\ Levels(s.stack) = {"room_prompt"}
  BY AtPrompt DEF MailAnywhere
<1>2. "mail" \in Room /\ Exists("mail") /\ "mail" # "club" /\ CanEnter(u, s.room, "mail")
  BY DEF Room, Public, Exists, CanEnter
<1>3. /\ Ready(n) /\ n.stack = s.stack /\ n.room = "mail" /\ ~n.aide /\ n.online
      /\ n.sysop = s.sysop /\ n.by = s.by \ {"moved", "missing"}
  BY <1>1, <1>2, ReadyEntered
<1> HIDE DEF n
<1>4. Ready(e) /\ Stays(n, e) /\ e.stack = n.stack
  BY <1>1, <1>3, ReadyPrint
<1> HIDE DEF e
<1>5. \A t \in EnterMessage(e) : Good(t) /\ Stays(e, t)
  BY <1>1, <1>3, <1>4, ReadyEnterMessage
<1>6. PICK t \in EnterMessage(e) : us' = [us EXCEPT ![u] = t]
  BY DEF MailAnywhere, e, n
<1>7. /\ Good(t) /\ t.online /\ t.room = "mail" /\ ~t.aide /\ t.sysop = s.sysop
      /\ "moved" \notin t.by /\ ("created" \in t.by <=> "created" \in s.by)
  BY <1>3, <1>4, <1>5, <1>6 DEF Stays
<1>8. Walk(u, s.room, "mail") /\ UNCHANGED rooms
  BY DEF MailAnywhere
<1> QED
  BY <1>1, <1>2, <1>6, <1>7, <1>8, MoveKept

\* The handlers of the room prompt preserve the invariant.
LEMMA WalkingKept ==
  ASSUME IInv, NEW u \in User, Walking(u)
  PROVE  Kept
BY StateRoomPromptKept, MailAnywhereKept, NextRoomKept, StateJumpRoomKept,
   StateZapPromptKept, StateZapallPromptKept, StateSuPromptKept DEF Walking

\* A room is made by a Sysop, who is in it and has nothing of a message begun.
LEMMA CreateRoomKept ==
  ASSUME IInv, NEW u \in User, us[u].online, ~us[u].edited,
         us[u].aide /\ ~us[u].sysop => "moved" \in us[u].by,
         NEW s \in Session, Good([s EXCEPT !.room = "club"]), Stays(us[u], s), s.draft = "none",
         "room_config_menu" \in Levels(s.stack), CreateRoom(u, s)
  PROVE  Kept
<1> DEFINE t == [s EXCEPT !.room = "club", !.edited = TRUE, !.by = @ \cup {"created"}]
           C == [NewRoom EXCEPT !.owed = {u}]
<1>1. /\ ~rooms["club"].alive /\ us' = [us EXCEPT ![u] = t]
      /\ rooms' = [rooms EXCEPT !["club"] = C] /\ listed' = listed
  BY DEF CreateRoom
<1> DEFINE o == [s EXCEPT !.room = "club"]
<1>2. TypeOK /\ us \in [User -> Session] /\ Good(o) /\ Sound(o)
  BY DEF IInv, TypeOK, Good
<1>3. /\ t \in Session /\ t.room = "club" /\ t.edited /\ t.by = s.by \cup {"created"}
      /\ t.stack = s.stack /\ t.key = s.key /\ t.draft = s.draft /\ t.read = s.read
      /\ t.pager = s.pager /\ t.harm = s.harm /\ t.online = s.online /\ t.sysop = s.sysop
      /\ t.aide = s.aide
      /\ o.stack = s.stack /\ o.key = s.key /\ o.draft = s.draft /\ o.read = s.read
      /\ o.pager = s.pager /\ o.harm = s.harm /\ o.by = s.by
  BY DEF Session, Room, Public
<1> HIDE DEF t, o
<1>4. (Calm(t) <=> Calm(o)) /\ (Both(t) <=> Both(o)) /\ ("boss" \in t.by <=> "boss" \in o.by)
  BY <1>3 DEF Calm, Both
<1>5. Good(t)
  <2>1. Sound(t)
    BY <1>2, <1>3 DEF Sound, DraftKept, Made
  <2>2. PagerKept(t)
    BY <1>2, <1>3, <1>4 DEF Good, PagerKept
  <2>3. FlagsKept(t)
    BY <1>2, <1>3, <1>4 DEF Good, FlagsKept
  <2>4. Idle(t)
    BY <1>3 DEF Idle
  <2>5. Caused(t)
    BY <1>2, <1>3, <1>4 DEF Good, Caused
  <2> QED
    BY <2>1, <2>2, <2>3, <2>4, <2>5 DEF Good
<1>6. C \in RoomInfo /\ C.alive /\ C.owed = {u}
  BY DEF RoomInfo, NewRoom
<1> HIDE DEF C
<1>7. "club" \in Public /\ "lobby" \in Public /\ "club" # "lobby"
  BY DEF Public
<1>8. /\ rooms' \in [Public -> RoomInfo] /\ rooms'["club"] = C
      /\ \A r \in Public \ {"club"} : rooms'[r] = rooms[r]
  BY <1>1, <1>2, <1>6, <1>7 DEF TypeOK
<1>9. us' \in [User -> Session] /\ us'[u] = t /\ \A w \in User \ {u} : us'[w] = us[w]
  BY <1>1, <1>2, <1>3
<1>10. TypeOK' /\ rooms'["lobby"].alive
  BY <1>1, <1>2, <1>7, <1>8, <1>9 DEF TypeOK, IInv
<1>11. ASSUME NEW w \in User
       PROVE  Placed(us[w], w)' /\ Caused(us[w])' /\ (us[w].online => Good(us[w]))'
  <2>1. Placed(us[w], w) /\ Caused(us[w]) /\ (us[w].online => Good(us[w]))
    BY DEF IInv
  <2>2. CASE w = u
    <3>1. (t.sysop => u \in Sysops) /\ (t.aide /\ ~t.sysop => "moved" \in t.by)
      BY <1>3, <2>1, <2>2 DEF Placed, Stays
    <3>2. u \notin C.kicked
      BY DEF NewRoom, C
    <3>3. Placed(us[u], u)'
      BY <1>3, <1>6, <1>8, <1>9, <3>1, <3>2, PlacedNext
    <3> QED
      BY <1>5, <1>9, <2>2, <3>3 DEF Good
  <2>3. CASE w # u
    <3>1. us[w].online => us[w].room # "club"
      BY <1>1, <1>7, <2>1 DEF Placed, Exists
    <3>2. "moved" \in us[w].by => us[w].room = "lobby" \/ "created" \in us[w].by
      BY <2>1 DEF Placed
    <3>3. "created" \notin us[w].by =>
            \A r \in Public :
              listed'[r][w] = IF us[w].online /\ us[w].room = r /\ "moved" \notin us[w].by
                              THEN 1 ELSE 0
      BY <1>1, <2>1 DEF Placed
    <3>4. us[w].online =>
            /\ us[w].room \in Public => rooms'[us[w].room].alive
            /\ us[w].aide /\ ~us[w].sysop =>
                 (us[w].room \in Public /\ w \in rooms'[us[w].room].aides)
                   \/ "moved" \in us[w].by
      BY <1>8, <2>1, <3>1 DEF Placed, Exists, IsAide
    <3>5. us[w].sysop => w \in Sysops
      BY <2>1 DEF Placed
    <3>6. Placed(us[w], w)'
      BY <1>9, <2>3, <3>1, <3>2, <3>3, <3>4, <3>5, PlacedNext
    <3> QED
      BY <1>9, <2>1, <2>3, <3>6
  <2> QED
    BY <2>2, <2>3
<1>12. EditsKeptStep
  <2> SUFFICES ASSUME NEW w \in User, NEW r \in Public, w \in rooms'[r].owed,
                      w \notin rooms[r].owed \/ (us[w].edited /\ us[w].room = r)
               PROVE  us'[w].edited /\ us'[w].room = r
    BY DEF EditsKeptStep
  <2>1. CASE w = u
    <3>1. r = "club"
      BY <1>8, <2>1
    <3> QED
      BY <1>3, <1>9, <2>1, <3>1
  <2>2. CASE w # u
    <3>1. r # "club" \/ (us[w].edited /\ us[w].room = "club")
      BY <1>6, <1>8, <2>2
    <3>2. us[w].edited /\ us[w].room = r
      BY <1>8, <3>1
    <3> QED
      BY <1>9, <2>2, <3>2
  <2> QED
    BY <2>1, <2>2
<1> QED
  BY <1>10, <1>11, <1>12 DEF IInv, Kept

\* A session as it is in the room that is made
Inside(s) == [s EXCEPT !.room = "club"]

\* Nobody has begun a message when he makes a room, and so he may be inside it at once.
LEMMA ReadyInside ==
  ASSUME NEW s, Ready(s), s.draft = "none"
  PROVE  Ready(Inside(s)) /\ Inside(s).stack = s.stack /\ Inside(s).edited = s.edited
<1>1. /\ Inside(s) \in Session /\ Inside(s).stack = s.stack /\ Inside(s).edited = s.edited
      /\ Inside(s).draft = s.draft /\ Inside(s).read = s.read /\ Inside(s).room = "club"
      /\ Inside(s).pager = s.pager /\ Inside(s).harm = s.harm /\ Inside(s).by = s.by
  <2>1. s \in Session
    BY DEF Ready, Sound
  <2> QED
    BY <2>1 DEF Inside, Session, Room, Public
<1>2. Sound(Inside(s))
  BY <1>1 DEF Ready, Sound, DraftKept, Made
<1> QED
  BY <1>1, <1>2 DEF Ready, Calm, Both

\* Making a room from the room prompt preserves the invariant.
LEMMA MakeRoomKept ==
  ASSUME IInv, NEW u \in User, MakeRoom(u)
  PROVE  Kept
<1> DEFINE s == us[u]
           c == Call(s, "room_config_menu")
<1>1. /\ Ready(s) /\ s.stack # << >> /\ Bare(s.stack) /\ s.online /\ ~s.edited
      /\ s.draft = "none" /\ Levels(s.stack) = {"room_prompt"}
  BY AtPrompt DEF MakeRoom
<1>2. Lies("room_config_menu", s.stack) /\ s \in Session
  BY <1>1, BareFacts DEF OnPrompt, Ready, Sound
<1>3. /\ c \in Session /\ Stays(s, c) /\ c.draft = "none"
      /\ "room_config_menu" \in Levels(c.stack)
  <2>1. "room_config_menu" \in Frame
    BY Named DEF OnPrompt
  <2>2. c \in Session /\ Same(s, c) /\ LaidOn(c, "room_config_menu", s.stack)
    BY <1>2, <2>1, CallFacts
  <2> HIDE DEF c
  <2>3. c.draft = s.draft /\ Levels(c.stack) = {"room_config_menu"} \cup Levels(s.stack)
    BY <2>2 DEF Same, LaidOn
  <2> QED
    BY <1>1, <2>2, <2>3, SameStays
<1>4. Good([c EXCEPT !.room = "club"])
  <2>1. Ready(Inside(s)) /\ Inside(s).stack = s.stack
    BY <1>1, ReadyInside
  <2>2. Good(Call(Inside(s), "room_config_menu"))
    <3>1. Needs("room_config_menu", Inside(s))
      BY <1>1, <2>1 DEF Needs
    <3> QED
      BY <1>2, <2>1, <3>1, Named, ReadyCall DEF Finders, Args, OnPrompt
  <2>3. [c EXCEPT !.room = "club"] = Call(Inside(s), "room_config_menu")
    BY <1>2 DEF Call, Push, Inside, Session
  <2> QED
    BY <2>2, <2>3
<1> HIDE DEF c
<1>5. CreateRoom(u, c) /\ s.sysop
  BY DEF MakeRoom, c
<1> QED
  BY <1>1, <1>3, <1>4, <1>5, CreateRoomKept

\* Logging out, at any time, preserves the invariant.
LEMMA LogoutUserKept ==
  ASSUME IInv, NEW u \in User, LogoutUser(u)
  PROVE  Kept
<1> DEFINE s == us[u]
           t == LoggedOut(s)
<1>1. /\ s.online /\ s.harm = "none" /\ us' = [us EXCEPT ![u] = t]
      /\ listed' = LeaveList(listed, u, s.room) /\ rooms' = rooms
  BY DEF LogoutUser, Quiet, Running
<1>2. TypeOK /\ us \in [User -> Session] /\ s \in Session /\ s.room \in Room
      /\ listed \in [Public -> [User -> 0 .. MaxEntries]]
  BY DEF IInv, TypeOK, Session
<1>3. /\ t \in Session /\ ~t.online /\ t.room = s.room /\ t.harm = s.harm /\ t.by = s.by
      /\ t.sysop = s.sysop
  <2>1. << >> \in Seq(Frame)
    OBVIOUS
  <2> QED
    BY <1>2, <2>1 DEF LoggedOut, Session
<1> HIDE DEF t
<1>4. us' \in [User -> Session] /\ us'[u] = t /\ \A w \in User \ {u} : us'[w] = us[w]
  BY <1>1, <1>2, <1>3
<1>5. /\ listed' \in [Public -> [User -> 0 .. MaxEntries]]
      /\ \A r \in Public, v \in User :
           listed'[r][v] = IF r = s.room /\ v = u /\ listed[r][v] > 0
                           THEN listed[r][v] - 1 ELSE listed[r][v]
  BY <1>1, <1>2, LeaveListFacts
<1>6. TypeOK' /\ rooms'["lobby"].alive
  BY <1>1, <1>2, <1>4, <1>5 DEF TypeOK, IInv
<1>7. ASSUME NEW w \in User
      PROVE  Placed(us[w], w)' /\ Caused(us[w])' /\ (us[w].online => Good(us[w]))'
  <2>1. Placed(us[w], w) /\ Caused(us[w]) /\ (us[w].online => Good(us[w]))
    BY DEF IInv
  <2>2. CASE w = u
    <3>1. "created" \notin t.by =>
            \A r \in Public :
              listed'[r][u] = IF t.online /\ t.room = r /\ "moved" \notin t.by THEN 1 ELSE 0
      <4> SUFFICES ASSUME "created" \notin t.by, NEW r \in Public PROVE listed'[r][u] = 0
        BY <1>3
      <4>1. listed[r][u] = IF s.room = r /\ "moved" \notin s.by THEN 1 ELSE 0
        BY <1>1, <1>3, <2>1, <2>2 DEF Placed
      <4> QED
        BY <1>5, <4>1
    <3>2. Placed(us[u], u)'
      BY <1>3, <1>4, <2>1, <2>2, <3>1, PlacedNext DEF Placed
    <3> QED
      BY <1>1, <1>3, <1>4, <2>2, <3>2 DEF Caused
  <2>3. CASE w # u
    <3>1. us'[w] = us[w] /\ \A r \in Public : listed'[r][w] = listed[r][w]
      BY <1>4, <1>5, <2>3
    <3>2. Placed(us[w], w)'
      BY <1>1, <2>1, <3>1, PlacedStill DEF Stays
    <3> QED
      BY <2>1, <3>1, <3>2
  <2> QED
    BY <2>2, <2>3
<1>8. EditsKeptStep
  BY <1>1, <1>3, <1>4 DEF EditsKeptStep
<1> QED
  BY <1>6, <1>7, <1>8 DEF IInv, Kept

------------------------------------------------------------------------------
\* A session that just logged in
LEMMA NewSessionGood ==
  ASSUME NEW h \in SUBSET Interest
  PROVE  Good(NewSession(h)) /\ Caused(NewSession(h))
<1> DEFINE s == NewSession(h)
<1>1. /\ s.stack = <<"room_prompt">> /\ s.key = "init" /\ s.harm = "none" /\ s.by = {}
      /\ s.draft = "none" /\ s.pager = "closed" /\ ~s.edited
  BY DEF NewSession
<1>2. <<"room_prompt">> = <<"room_prompt">> \o << >> /\ << >> \in Seq(Frame)
  OBVIOUS
<1>3. Lies("room_prompt", << >>)
  BY TakersAre, EmptyFits DEF Lies, Desked, Never, Args, OnPrompt, ConfigPrompt, Finders, Editors
<1>4. /\ s.stack \in Seq(Frame) /\ First(s.stack) = "room_prompt" /\ Fits(s.stack)
      /\ Levels(s.stack) = {"room_prompt"}
  <2>1. "room_prompt" \in Frame
    BY Named
  <2>2. /\ <<"room_prompt">> \o << >> \in Seq(Frame)
        /\ First(<<"room_prompt">> \o << >>) = "room_prompt"
        /\ Fits(<<"room_prompt">> \o << >>)
        /\ Levels(<<"room_prompt">> \o << >>) = {"room_prompt"} \cup Levels(<< >>)
    BY <1>2, <1>3, <2>1, Above, EmptyFits
  <2> QED
    BY <1>1, <1>2, <2>2, EmptyFits
<1>5. s \in Session
  BY <1>4 DEF NewSession, Session, Room, Public
<1> HIDE DEF s
<1>6. Sound(s)
  BY <1>1, <1>4, <1>5 DEF Sound, DraftKept, Made
<1>7. PagerKept(s) /\ FlagsKept(s) /\ Idle(s) /\ Caused(s)
  BY <1>1, <1>4 DEF PagerKept, FlagsKept, Idle, Caused, Args, Finders
<1> QED
  BY <1>6, <1>7 DEF Good, s

\* The invariant holds initially.
LEMMA InitIInv == Init => IInv
<1> SUFFICES ASSUME Init PROVE IInv
  OBVIOUS
<1>1. PICK h \in Habits : us = [u \in User |-> NewSession(h[u])]
  BY DEF Init
<1>2. \A u \in User : us[u] = NewSession(h[u]) /\ h[u] \in SUBSET Interest
  BY <1>1, MenusAssumption
<1>3. \A u \in User : Good(us[u]) /\ Caused(us[u])
  BY <1>2, NewSessionGood
<1>4. "lobby" \in Public /\ "club" \in Public /\ "lobby" # "club"
      /\ "lobby" \in Room
  BY DEF Public, Room
<1>5. NewRoom \in RoomInfo /\ DeadRoom \in RoomInfo /\ NewRoom.alive
  BY DEF NewRoom, DeadRoom, RoomInfo
<1>6. PICK c \in {NewRoom, DeadRoom} :
        rooms = [r \in Public |-> IF r = "club" THEN c ELSE NewRoom]
  BY DEF Init
<1>7. rooms \in [Public -> RoomInfo] /\ rooms["lobby"].alive
  BY <1>4, <1>5, <1>6
<1>8. \A r \in Public, u \in User : listed[r][u] = IF r = "lobby" THEN 1 ELSE 0
  BY DEF Init
<1>9. listed \in [Public -> [User -> 0 .. MaxEntries]]
  <2>1. 0 \in 0 .. MaxEntries /\ 1 \in 0 .. MaxEntries
    BY MenusAssumption
  <2> QED
    BY <2>1 DEF Init
<1>10. TypeOK
  <2>1. us \in [User -> Session]
    BY <1>1, <1>3 DEF Good, Sound
  <2> QED
    BY <1>7, <1>9, <2>1 DEF TypeOK
<1>11. ASSUME NEW u \in User
       PROVE  Placed(us[u], u)
  <2>1. /\ us[u].by = {} /\ us[u].room = "lobby" /\ us[u].online /\ ~us[u].sysop
        /\ ~us[u].aide
    <3>1. us[u] = NewSession(h[u])
      BY <1>2
    <3> QED
      BY <3>1 DEF NewSession
  <2> QED
    BY <1>4, <1>7, <1>8, <2>1 DEF Placed, Exists
<1> QED
  BY <1>3, <1>7, <1>10, <1>11 DEF IInv

\* Every step preserves the invariant, and who edits a room remembers it.
LEMMA NextKept == IInv /\ [Next]_vars => Kept
<1> SUFFICES ASSUME IInv, [Next]_vars PROVE Kept
  OBVIOUS
<1>1. CASE Next
  <2>1. PICK u \in User : \/ Walking(u) \/ MakeRoom(u) \/ Posting(u) \/ RoomConfig(u)
                          \/ Shared(u) \/ LogoutUser(u)
    BY <1>1 DEF Next
  <2> QED
    BY <2>1, WalkingKept, MakeRoomKept, PostingKept, RoomConfigKept, SharedKept,
       LogoutUserKept
<1>2. CASE UNCHANGED vars
  <2>1. us' = us /\ rooms' = rooms /\ listed' = listed
    BY <1>2 DEF vars
  <2>2. TypeOK' /\ rooms'["lobby"].alive
    BY <2>1 DEF IInv, TypeOK
  <2>3. \A u \in User : Placed(us[u], u)' /\ Caused(us[u])' /\ (us[u].online => Good(us[u]))'
    BY <2>1 DEF IInv, Placed, Exists, IsAide, KickedFrom
  <2>4. EditsKeptStep
    BY <2>1 DEF EditsKeptStep
  <2> QED
    BY <2>2, <2>3, <2>4 DEF IInv, Kept
<1> QED
  BY <1>1, <1>2

\* The inductive invariant of the menus holds, for any users and Sysops, any habits,
\* targets and rooms, and stacks of any depth.
THEOREM SpecIInv == Spec => []IInv
<1>1. IInv /\ [Next]_vars => IInv'
  BY NextKept DEF Kept
<1> QED
  BY <1>1, InitIInv, PTL DEF Spec

\* The invariant implies the safety properties.
LEMMA IInvSafe == IInv => HarmHasACause /\ ListedInRoom /\ DraftHere /\ KickedStayOut
                          /\ AideOfThisRoom /\ TypeOK
<1> SUFFICES ASSUME IInv PROVE HarmHasACause /\ ListedInRoom /\ DraftHere /\ KickedStayOut
                               /\ AideOfThisRoom /\ TypeOK
  OBVIOUS
<1>1. \A u \in User : Placed(us[u], u) /\ Caused(us[u]) /\ (us[u].online => Good(us[u]))
  BY DEF IInv
<1>2. HarmHasACause
  <2>1. \A u \in User : First(us[u].stack) = "room_prompt" =>
                          us[u].stack # << >> /\ Top(us[u]) = "room_prompt"
    BY DEF First, Top
  <2> QED
    BY <1>1, <2>1 DEF HarmHasACause, Caused, Both
<1>3. ListedInRoom
  BY <1>1 DEF ListedInRoom, Placed
<1>4. DraftHere
  BY <1>1 DEF DraftHere, Good, Sound, DraftKept, Made
<1>5. KickedStayOut
  <2> SUFFICES ASSUME NEW u \in User \ Sysops, us[u].online, us[u].room # "lobby"
               PROVE  ~KickedFrom(u, us[u].room)
    BY DEF KickedStayOut
  <2>1. Placed(us[u], u)
    BY <1>1
  <2>2. us[u].room \in Public => us[u].room = "club"
    BY DEF Public
  <2> QED
    BY <2>1, <2>2 DEF Placed, KickedFrom
<1>6. AideOfThisRoom
  BY <1>1 DEF AideOfThisRoom, Placed
<1> QED
  BY <1>2, <1>3, <1>4, <1>5, <1>6 DEF IInv

\* The sessions, the rooms and the lists have their types; the Lobby is never deleted.
THEOREM TypeCorrect == Spec => []TypeOK
BY SpecIInv, IInvSafe, PTL

\* A handler uses a message that is NULL only after a kick, or, '(' at the room prompt,
\* when the message that was gone to is not there; a text that was freed (scroll_text) only
\* after a kick or the boss screen; and it calls a number as a function (RET in
\* CallStack.c) only after both.
THEOREM HarmCaused == Spec => []HarmHasACause
BY SpecIInv, IInvSafe, PTL

\* A user who is online is on the list of the room he is in, once, and on no other list:
\* enter_room, leave_room, delete_room and close_connection agree.
THEOREM EverybodyListed == Spec => []ListedInRoom
BY SpecIInv, IInvSafe, PTL

\* A message that is being entered is for the room its user is in, although goto_room
\* does not look at it: only the deletion of that room leaves it behind.
THEOREM DraftsHere == Spec => []DraftHere
BY SpecIInv, IInvSafe, PTL

\* Whoever was kicked out of a room (state_kickout_prompt) is not in it, whichever way
\* he was in or tries to come back (jump, home, next unread room, login); Sysops and
\* the Lobby excepted.
THEOREM KickedOut == Spec => []KickedStayOut
BY SpecIInv, IInvSafe, PTL

\* Who has room aide privileges is aide of the room he is in, though they are taken
\* away by others while he reads, enters or is in the config menu (enter_room,
\* state_assign_roomaide); a deleted room's aide keeps them in the Lobby.
THEOREM AidesHere == Spec => []AideOfThisRoom
BY SpecIInv, IInvSafe, PTL

\* Who changes a room in its config menu has RTF_ROOM_EDITED from that key on and until
\* save_Room, and is in that room until then unless he is thrown out (its size excepted,
\* which is not marked by that flag).
THEOREM EditsAreKept == Spec => EditsKept
<1>1. IInv /\ [Next]_vars => [EditsKeptStep]_vars
  BY NextKept DEF Kept
<1> QED
  BY <1>1, SpecIInv, PTL DEF Spec, EditsKept, EditsKeptStep

=============================================================================
