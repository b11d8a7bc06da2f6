------------------------------ MODULE Session ------------------------------
(***************************************************************************)
(* The life of a user's session in bbs100: a connection is accepted, its   *)
(* user logs in (as a known user, a new user or a guest), goes online,     *)
(* plays, and leaves by logging out, by a timeout, by a dead link, by the  *)
(* Sysop, by another login of the same name or by a reboot.                *)
(*                                                                         *)
(* One process runs everything from one select() loop, so a handler is one *)
(* atomic step; what interleaves is the order of the handlers of different *)
(* sessions.  The loop serves its connections in list order; the module    *)
(* allows any order.  A Slot is a memory slot that holds a User and its    *)
(* Conn while they exist.  Running out of memory is left out.              *)
(***************************************************************************)
EXTENDS Naturals, Sequences, FiniteSets

CONSTANTS
  Slot,         \* the User and Conn structures that can exist at once
  Account,      \* names a person can register
  Guest,        \* sequence of the names given to guests, in the order tried
  MaxAttempts,  \* MAX_LOGIN_ATTEMPTS
  Breakable,    \* accounts whose UserData file may be damaged on disk
  NoName        \* the empty name

GuestName == {Guest[i] : i \in DOMAIN Guest}
Name == Account \cup GuestName

ASSUME NameAssumption ==
  /\ NoName \notin Name
  /\ Guest \in Seq(GuestName)
  /\ Account \cap GuestName = {}
  /\ Breakable \subseteq Account
ASSUME SlotAssumption == IsFiniteSet(Slot)
ASSUME AttemptsAssumption == MaxAttempts \in Nat \ {0}

VARIABLES
  conn,     \* conn->state of the slot's connection, or "free"
  sock,     \* TRUE while conn->sock > 0
  output,   \* TRUE while closing output waits in conn->output
  state,    \* the function on top of the callstack
  name,     \* usr->name
  tmp,      \* usr->tmpbuf[TMP_NAME]
  tries,    \* usr->login_time while it counts the login prompts
  loaded,   \* how much of the profile usr holds
  timer,    \* the timer that ends the session: login, idle or logout timer
  inside,   \* the slots on the inside list of some room
  hash,     \* online_users: the entries with one key, in list order
  disk,     \* what the UserData file of each account holds
  down      \* how far the reboot or shutdown sequence is

who  == <<name, loaded, inside, hash, disk>>
vars == <<conn, sock, output, state, name, tmp, tries, loaded, timer, inside,
          hash, disk, down>>

Closing  == {"wait_close", "wait_close2", "closed"}
InGame   == {"room", "logout"}
StateFn  == {"none", "login", "yesno", "password", "newlogin", "newpass",
             "newagain", "ansi", "text", "motd"} \cup InGame
Idle     == {"idle10", "idle9", "idle8"}
Content  == {"none", "whole", "broken", "part"}

Init ==
  /\ conn = [s \in Slot |-> "free"]
  /\ sock = [s \in Slot |-> FALSE]
  /\ output = [s \in Slot |-> FALSE]
  /\ state = [s \in Slot |-> "none"]
  /\ name = [s \in Slot |-> NoName]
  /\ tmp = [s \in Slot |-> NoName]
  /\ tries = [s \in Slot |-> 0]
  /\ loaded = [s \in Slot |-> "none"]
  /\ timer = [s \in Slot |-> "none"]
  /\ inside = {}
  /\ hash = [n \in Name |-> << >>]
  /\ disk \in {d \in [Account -> {"none", "whole", "broken"}] :
                 \A n \in Account \ Breakable : d[n] # "broken"}
  /\ down = "no"

\* The session is_online(n) finds.  An entry can be stale, its User freed or
\* its slot used again: what the code then does is undefined and not modelled.
Old(n) == IF hash[n] = << >> THEN {} ELSE {Head(hash[n])}

Found(n) == \A u \in Old(n) : name[u] = n

Written(s) == IF loaded[s] = "full" THEN "whole" ELSE "part"

\* What save_User may leave on disk for the slots of C: each save may also fail.
Saves(C, nm) ==
  {d \in [Account -> Content] : \A n \in Account :
     d[n] = disk[n] \/ \E s \in C : nm[s] = n /\ d[n] = Written(s)}

\* Mutant of Logout: remove_OnlineUser is forgotten.
LogoutKeepsEntry(C, nm) ==
  /\ conn' = [s \in Slot |-> IF s \in C THEN "wait_close" ELSE conn[s]]
  /\ output' = [s \in Slot |-> IF s \in C THEN sock'[s] ELSE output[s]]
  /\ name' = [s \in Slot |-> IF s \in C THEN NoName ELSE nm[s]]
  /\ inside' = inside \ C
  /\ UNCHANGED hash

(***************************************************************************)
(* close_connection for every slot of C, where nm holds the names at the   *)
(* call.  logout_user saves a named user, takes the first entry of that    *)
(* name out of the hash, leaves the room and clears the name; a socket     *)
(* that still lives gets some output.                                      *)
(***************************************************************************)
Logout(C, nm) ==
  /\ conn' = [s \in Slot |-> IF s \in C THEN "wait_close" ELSE conn[s]]
  /\ output' = [s \in Slot |-> IF s \in C THEN sock'[s] ELSE output[s]]
  /\ name' = [s \in Slot |-> IF s \in C THEN NoName ELSE nm[s]]
  /\ inside' = inside \ C
  /\ hash' = [n \in Name |->
                SubSeq(hash[n], Cardinality({s \in C : nm[s] = n}) + 1,
                       Len(hash[n]))]

Close(C, nm) == Logout(C, nm) /\ disk' \in Saves(C, nm)

\* A handler that ends the session of s and changes nothing else.
Quit(s) ==
  /\ UNCHANGED <<sock, state, tmp, tries, loaded, down>>
  /\ Close({s}, name)

(***************************************************************************)
(* Input.  ConnUser_process gives a character to the function on top of    *)
(* the callstack and restarts the idle sequence.                           *)
(***************************************************************************)
Serves(s, f) == conn[s] = "established" /\ sock[s] /\ state[s] = f

Input(s, f) ==
  /\ Serves(s, f)
  /\ timer' = [timer EXCEPT ![s] = IF @ \in Idle THEN "idle10" ELSE @]

\* state_display_motd and state_ansi_prompt put user_timeout on the idle timer.
StartIdle(s) == timer' = [timer EXCEPT ![s] = "idle10"]

Go(s, f) == state' = [state EXCEPT ![s] = f]

\* The other session variables of a step that only moves the callstack.
Moving == UNCHANGED <<conn, sock, output, tries, down>>

\* Mutant of LoginPrompt: one attempt too many.
LoginPromptOnceMore(s, nm) ==
  /\ UNCHANGED <<sock, down, conn, output, inside, hash, disk>>
  /\ tries' = [tries EXCEPT ![s] = @ + 1]
  /\ tmp' = [tmp EXCEPT ![s] = NoName]
  /\ Go(s, "login")
  /\ name' = nm

\* INIT_STATE of state_login_prompt: another attempt, or goodbye.  nm holds
\* the names at the call; the last attempt clears the name before it closes.
LoginPrompt(s, nm) ==
  /\ UNCHANGED <<sock, down>>
  /\ \/ /\ tries[s] < MaxAttempts
        /\ tries' = [tries EXCEPT ![s] = @ + 1]
        /\ tmp' = [tmp EXCEPT ![s] = NoName]
        /\ Go(s, "login")
        /\ name' = nm
        /\ UNCHANGED <<conn, output, inside, hash, disk>>
     \/ /\ tries[s] = MaxAttempts
        /\ Close({s}, [nm EXCEPT ![s] = NoName])
        /\ UNCHANGED <<state, tmp, tries>>

Accept(s) ==
  /\ conn[s] = "free" /\ down = "no"
  /\ conn' = [conn EXCEPT ![s] = "established"]
  /\ sock' = [sock EXCEPT ![s] = TRUE]
  /\ Go(s, "login")
  /\ tries' = [tries EXCEPT ![s] = 1]
  /\ timer' = [timer EXCEPT ![s] = "login"]
  /\ UNCHANGED <<output, tmp, down, who>>

(***************************************************************************)
(* The login prompt.                                                       *)
(***************************************************************************)
\* Control-D, the Sysop's name, nologin, or a banished name.
LoginQuit(s) == Input(s, "login") /\ Quit(s)

\* "New": the site may be locked out, or the new user is asked for a name.
LoginNew(s) ==
  /\ Input(s, "login")
  /\ \/ Quit(s)
     \/ Go(s, "newlogin") /\ tmp' = [tmp EXCEPT ![s] = NoName] /\ Moving
        /\ UNCHANGED who

\* A guest gets the first guest name that is not online, if there is one.
LoginGuest(s) ==
  /\ Input(s, "login")
  /\ \/ \E i \in DOMAIN Guest :
          /\ hash[Guest[i]] = << >>
          /\ \A j \in 1 .. i - 1 : hash[Guest[j]] # << >>
          /\ name' = [name EXCEPT ![s] = Guest[i]]
          /\ loaded' = [loaded EXCEPT ![s] = "full"]
          /\ Go(s, "ansi") /\ Moving
          /\ UNCHANGED <<tmp, inside, hash, disk>>
     \/ (\A i \in DOMAIN Guest : hash[Guest[i]] # << >>) /\ Quit(s)

\* No such user: asked to make an account, or prompted again if New is banished.
LoginUnknown(s, n) ==
  /\ Input(s, "login") /\ disk[n] = "none"
  /\ \/ Go(s, "yesno") /\ tmp' = [tmp EXCEPT ![s] = n] /\ Moving /\ UNCHANGED who
     \/ LoginPrompt(s, name) /\ UNCHANGED loaded

\* Mutant of LoginKnown: the password prompt leaves the name load_User set.
LoginKnownNamed(s, n) ==
  /\ Input(s, "login") /\ disk[n] # "none"
  /\ loaded' = [loaded EXCEPT ![s] = "part"]
  /\ name' = [name EXCEPT ![s] = n]
  /\ tmp' = [tmp EXCEPT ![s] = n]
  /\ Go(s, "password") /\ Moving
  /\ UNCHANGED <<inside, hash, disk>>

\* load_User reads the password; the password prompt clears the name again.
LoginKnown(s, n) ==
  /\ Input(s, "login") /\ disk[n] # "none"
  /\ loaded' = [loaded EXCEPT ![s] = "part"]
  /\ name' = [name EXCEPT ![s] = NoName]
  /\ tmp' = [tmp EXCEPT ![s] = n]
  /\ Go(s, "password") /\ Moving
  /\ UNCHANGED <<inside, hash, disk>>

\* load_User fails: it cannot open the file, or it fails after the name line.
LoginLoadFails(s, n) ==
  /\ Input(s, "login") /\ disk[n] # "none"
  /\ \/ LoginPrompt(s, [name EXCEPT ![s] = NoName])
     \/ disk[n] = "broken" /\ LoginPrompt(s, [name EXCEPT ![s] = n])
  /\ loaded' = [loaded EXCEPT ![s] = "part"]

(***************************************************************************)
(* The password prompt of a known user.                                    *)
(***************************************************************************)
PasswordQuit(s) == Input(s, "password") /\ Quit(s)

PasswordWrong(s) ==
  /\ Input(s, "password")
  /\ LoginPrompt(s, name)
  /\ UNCHANGED loaded

\* The full load fails, at the open or after the name line, and the
\* connection is closed.
PasswordLoadFails(s) ==
  /\ Input(s, "password")
  /\ UNCHANGED <<sock, state, tmp, tries, loaded, down>>
  /\ \/ Close({s}, [name EXCEPT ![s] = NoName])
     \/ disk[tmp[s]] = "broken" /\ Close({s}, [name EXCEPT ![s] = tmp[s]])

\* Mutant of PasswordRight: the session that is online is left alone.
PasswordRightBoth(s) ==
  /\ Serves(s, "password") /\ StartIdle(s)
  /\ disk[tmp[s]] \in {"whole", "part"}
  /\ name' = [name EXCEPT ![s] = tmp[s]]
  /\ loaded' = [loaded EXCEPT ![s] = "full"]
  /\ Go(s, "motd") /\ Moving
  /\ UNCHANGED <<tmp, inside, hash, disk>>

\* The profile is read, then an online session of that name is closed, then
\* the session takes the name and reads the message of the day.
PasswordRight(s) ==
  /\ Serves(s, "password") /\ StartIdle(s)
  /\ disk[tmp[s]] \in {"whole", "part"}
  /\ UNCHANGED <<sock, tmp, tries, down>>
  /\ LET n == tmp[s]
     IN  Found(n) /\ Close(Old(n), [name EXCEPT ![s] = n])
  /\ loaded' = [loaded EXCEPT ![s] = "full"]
  /\ Go(s, "motd")

(***************************************************************************)
(* A new account: the question, the name, the password twice.              *)
(***************************************************************************)
YesNoNo(s) ==
  /\ Input(s, "yesno")
  /\ LoginPrompt(s, name)
  /\ UNCHANGED loaded

\* The name is judged: free, in use or not allowed, or banished.  From the
\* question the name is the one typed at the login prompt, and the site may be
\* locked out.
Named(s, n) ==
  \/ /\ disk[n] = "none"
     /\ tmp' = [tmp EXCEPT ![s] = n]
     /\ Go(s, "newpass") /\ Moving /\ UNCHANGED who
  \/ /\ tmp' = [tmp EXCEPT ![s] = NoName]
     /\ Go(s, "newlogin") /\ Moving /\ UNCHANGED who
  \/ Quit(s)

YesNoYes(s) == Input(s, "yesno") /\ Named(s, tmp[s])

NewName(s, n) == Input(s, "newlogin") /\ Named(s, n)

\* An empty name goes back to the login prompt.
NewNameEmpty(s) ==
  /\ Input(s, "newlogin")
  /\ LoginPrompt(s, name)
  /\ UNCHANGED loaded

NewNameBreak(s) == Input(s, "newlogin") /\ Quit(s)

\* A password is taken, or the user gives up and is back at the login prompt.
NewPassword(s) ==
  /\ Input(s, "newpass")
  /\ \/ Go(s, "newagain") /\ UNCHANGED tmp /\ Moving /\ UNCHANGED who
     \/ LoginPrompt(s, name) /\ UNCHANGED loaded

NewAgainBreak(s) == Input(s, "newagain") /\ Quit(s)

\* Another password than the first, or an empty one.
NewAgainWrong(s) ==
  /\ Input(s, "newagain")
  /\ \/ Go(s, "newpass") /\ UNCHANGED tmp /\ Moving /\ UNCHANGED who
     \/ LoginPrompt(s, name) /\ UNCHANGED loaded

\* The same password: the session takes the name, and the profile is saved.
NewAgainRight(s) ==
  /\ Input(s, "newagain")
  /\ name' = [name EXCEPT ![s] = tmp[s]]
  /\ loaded' = [loaded EXCEPT ![s] = "full"]
  /\ disk' \in {disk, [disk EXCEPT ![tmp[s]] = "whole"]}
  /\ Go(s, "ansi") /\ Moving
  /\ UNCHANGED <<tmp, inside, hash>>

(***************************************************************************)
(* From having a name to being online: the terminal question, the text of  *)
(* a first login, the message of the day.                                  *)
(***************************************************************************)
\* With the first login text installed it is read first, else the motd is.
Ansi(s) ==
  /\ Serves(s, "ansi")
  /\ StartIdle(s)
  /\ Go(s, "text") \/ Go(s, "motd")
  /\ Moving /\ UNCHANGED <<tmp, who>>

DisplayMotd(s) ==
  /\ Serves(s, "text")
  /\ StartIdle(s)
  /\ Go(s, "motd") /\ Moving /\ UNCHANGED <<tmp, who>>

\* The user is put in a room and then added to the hash of online users.
GoOnline(s) ==
  /\ Input(s, "motd")
  /\ inside' = inside \cup {s}
  /\ hash' = [hash EXCEPT ![name[s]] = Append(@, s)]
  /\ tmp' = [tmp EXCEPT ![s] = NoName]
  /\ Go(s, "room") /\ Moving
  /\ UNCHANGED <<name, loaded, disk>>

(***************************************************************************)
(* Online.                                                                 *)
(***************************************************************************)
\* Any key that keeps the user in the game.
Play(s) ==
  /\ \E f \in InGame : Input(s, f) /\ \E g \in InGame : Go(s, g)
  /\ Moving /\ UNCHANGED <<tmp, who>>

LogoutYes(s) == Input(s, "logout") /\ Quit(s)

\* The Sysop s disconnects whoever is_online(n) finds.
Disconnect(s, n) ==
  /\ Input(s, "room") /\ name[s] # n /\ hash[n] # << >>
  /\ Found(n) /\ Quit(Head(hash[n]))

\* The Sysop s nukes an account: its session is closed, its files are moved.
Nuke(s, n) ==
  /\ Input(s, "room") /\ name[s] # n /\ disk[n] # "none"
  /\ UNCHANGED <<sock, state, tmp, tries, loaded, down>>
  /\ Found(n) /\ Logout(Old(n), name)
  /\ \E d \in Saves(Old(n), name) : disk' \in {d, [d EXCEPT ![n] = "none"]}

SaveTimeout(s) ==
  /\ conn[s] = "established" /\ state[s] \in InGame
  /\ disk' \in Saves({s}, name)
  /\ UNCHANGED <<conn, sock, output, state, name, tmp, tries, loaded, timer,
                 inside, hash, down>>

(***************************************************************************)
(* How a session ends.                                                     *)
(***************************************************************************)
LoginTimeout(s) ==
  /\ conn[s] # "free" /\ timer[s] = "login"
  /\ timer' = [timer EXCEPT ![s] = "none"]
  /\ Quit(s)

\* Mutant of IdleTimeout: the second warning sets the count back.
IdleTimeoutForever(s) ==
  /\ conn[s] # "free" /\ timer[s] \in {"idle10", "idle9"}
  /\ timer' = [timer EXCEPT ![s] = IF @ = "idle10" THEN "idle9" ELSE "idle10"]
  /\ UNCHANGED <<conn, sock, output, state, tmp, tries, down, who>>

\* Two warnings, and then the idle user is logged off.
IdleTimeout(s) ==
  /\ conn[s] # "free"
  /\ \/ /\ timer[s] \in {"idle10", "idle9"}
        /\ timer' = [timer EXCEPT ![s] =
                       IF @ = "idle10" THEN "idle9" ELSE "idle8"]
        /\ UNCHANGED <<conn, sock, output, state, tmp, tries, down, who>>
     \/ /\ timer[s] = "idle8"
        /\ timer' = [timer EXCEPT ![s] = "none"]
        /\ Quit(s)

\* Mutant of Linkdead: the named user is not logged out.
LinkdeadStays(s) ==
  /\ sock[s]
  /\ sock' = [sock EXCEPT ![s] = FALSE]
  /\ UNCHANGED <<conn, output, state, tmp, tries, timer, down, who>>

\* The socket dies: end of file, or an error on a read, a write or select().
Linkdead(s) ==
  /\ sock[s]
  /\ sock' = [sock EXCEPT ![s] = FALSE]
  /\ \/ name[s] # NoName /\ Close({s}, name)
     \/ name[s] = NoName /\ UNCHANGED <<conn, output, name, inside, hash, disk>>
  /\ UNCHANGED <<state, tmp, tries, loaded, timer, down>>

\* Mutants of WaitClose: no timer is left, or the connection serves again.
WaitCloseNoTimer(s) ==
  /\ conn[s] = "wait_close" /\ sock[s]
  /\ conn' = [conn EXCEPT ![s] = "wait_close2"]
  /\ timer' = [timer EXCEPT ![s] = "none"]
  /\ UNCHANGED <<sock, output, state, tmp, tries, down, who>>

WaitCloseServes(s) ==
  /\ conn[s] = "wait_close" /\ sock[s]
  /\ conn' = [conn EXCEPT ![s] = "established"]
  /\ timer' = [timer EXCEPT ![s] = "logout"]
  /\ UNCHANGED <<sock, output, state, tmp, tries, down, who>>

\* The logout screen stays up for a while: only the logout timer is left.
WaitClose(s) ==
  /\ conn[s] = "wait_close" /\ sock[s]
  /\ conn' = [conn EXCEPT ![s] = "wait_close2"]
  /\ timer' = [timer EXCEPT ![s] = "logout"]
  /\ UNCHANGED <<sock, output, state, tmp, tries, down, who>>

CloseLogout(s) ==
  /\ conn[s] # "free" /\ timer[s] = "logout"
  /\ conn' = [conn EXCEPT ![s] = "closed"]
  /\ timer' = [timer EXCEPT ![s] = "none"]
  /\ output' = [output EXCEPT ![s] = sock[s]]
  /\ UNCHANGED <<sock, state, tmp, tries, down, who>>

Flush(s) ==
  /\ sock[s] /\ output[s] /\ conn[s] \in {"wait_close2", "closed"}
  /\ output' = [output EXCEPT ![s] = FALSE]
  /\ UNCHANGED <<conn, sock, state, tmp, tries, timer, down, who>>

\* remove_Conn and destroy_Conn: the slot is free again.
Destroy(s) ==
  /\ conn' = [conn EXCEPT ![s] = "free"]
  /\ sock' = [sock EXCEPT ![s] = FALSE]
  /\ output' = [output EXCEPT ![s] = FALSE]
  /\ Go(s, "none")
  /\ name' = [name EXCEPT ![s] = NoName]
  /\ tmp' = [tmp EXCEPT ![s] = NoName]
  /\ tries' = [tries EXCEPT ![s] = 0]
  /\ loaded' = [loaded EXCEPT ![s] = "none"]
  /\ timer' = [timer EXCEPT ![s] = "none"]
  /\ hash' = [n \in Name |-> IF n = name[s] /\ hash[n] # << >>
                             THEN Tail(hash[n]) ELSE hash[n]]
  /\ UNCHANGED <<inside, disk, down>>

\* A closed connection whose output is gone; a connection whose socket is dead.
CloseSocket(s) == conn[s] = "closed" /\ sock[s] /\ ~output[s] /\ Destroy(s)

Reap(s) == conn[s] # "free" /\ ~sock[s] /\ Destroy(s)

(***************************************************************************)
(* The reboot (or shutdown) sequence: the last ten seconds, in which no    *)
(* connection is accepted, then everyone is logged off, then the exit.     *)
(***************************************************************************)
Users == {s \in Slot : conn[s] # "free"}

LastSeconds ==
  /\ down = "no" /\ down' = "last"
  /\ UNCHANGED <<conn, sock, output, state, tmp, tries, timer, who>>

\* The Sysop s cancels it.
CancelReboot(s) ==
  /\ Input(s, "room")
  /\ down \in {"last", "off"} /\ down' = "no"
  /\ UNCHANGED <<conn, sock, output, state, tmp, tries, who>>

\* Nobody is closed when the reboot screen cannot be loaded.
LogOffAll ==
  /\ down = "last" /\ down' = "off"
  /\ UNCHANGED <<sock, state, tmp, tries, loaded, timer>>
  /\ \/ Close(Users, name)
     \/ UNCHANGED <<conn, output, name, inside, hash, disk>>

Exit ==
  /\ down = "off" /\ down' = "exit"
  /\ UNCHANGED <<conn, sock, output, state, tmp, tries, timer, who>>

-----------------------------------------------------------------------------
LoginStep(s) ==
  \/ LoginQuit(s) \/ LoginNew(s) \/ LoginGuest(s)
  \/ \E n \in Account : LoginUnknown(s, n) \/ LoginKnown(s, n) \/ LoginLoadFails(s, n)
  \/ PasswordQuit(s) \/ PasswordWrong(s) \/ PasswordLoadFails(s) \/ PasswordRight(s)
  \/ YesNoNo(s) \/ YesNoYes(s)
  \/ \E n \in Account : NewName(s, n)
  \/ NewNameEmpty(s) \/ NewNameBreak(s) \/ NewPassword(s)
  \/ NewAgainBreak(s) \/ NewAgainWrong(s) \/ NewAgainRight(s)
  \/ Ansi(s) \/ DisplayMotd(s) \/ GoOnline(s)

OnlineStep(s) ==
  \/ Play(s) \/ LogoutYes(s)
  \/ \E n \in Name : Disconnect(s, n)
  \/ \E n \in Account : Nuke(s, n)
  \/ CancelReboot(s)

EndStep(s) ==
  \/ LoginTimeout(s) \/ IdleTimeout(s) \/ Linkdead(s) \/ WaitClose(s)
  \/ CloseLogout(s) \/ Flush(s) \/ CloseSocket(s) \/ Reap(s)

Keystroke(s) == LoginStep(s) \/ OnlineStep(s)

Next ==
  /\ down # "exit"
  /\ \/ \E s \in Slot : Accept(s) \/ Keystroke(s) \/ SaveTimeout(s) \/ EndStep(s)
     \/ LastSeconds \/ LogOffAll \/ Exit

Spec == Init /\ [][Next]_vars

-----------------------------------------------------------------------------
TypeOK ==
  /\ conn \in [Slot -> {"free", "established"} \cup Closing]
  /\ sock \in [Slot -> BOOLEAN]
  /\ output \in [Slot -> BOOLEAN]
  /\ state \in [Slot -> StateFn]
  /\ name \in [Slot -> Name \cup {NoName}]
  /\ tmp \in [Slot -> Account \cup {NoName}]
  /\ tries \in [Slot -> 0 .. MaxAttempts]
  /\ loaded \in [Slot -> {"none", "part", "full"}]
  /\ timer \in [Slot -> {"none", "login", "logout"} \cup Idle]
  /\ inside \subseteq Slot
  /\ hash \in [Name -> Seq(Slot)]
  /\ disk \in [Account -> Content]
  /\ down \in {"no", "last", "off", "exit"}

\* A session is online from state_go_online until its connection is closed.
Online(s) == conn[s] = "established" /\ state[s] \in InGame

\* A session whose socket died or whose connection is being closed has been
\* logged out: it has no name, and no room keeps a pointer to its User, which
\* is freed without asking the rooms (destroy_User).
LoggedOutBeforeFreed ==
  \A s \in Slot : conn[s] # "established" \/ ~sock[s] =>
                    name[s] = NoName /\ s \notin inside

\* The hash never keeps more entries of a name than sessions of that name are
\* online, whatever logins overlap: when the last one is gone, so is the name.
NoGhostEntries ==
  \A n \in Name :
    Len(hash[n]) <= Cardinality({s \in Slot : Online(s) /\ name[s] = n})

\* What keeps LoggedOutBeforeFreed inductive: a name to look up is there where
\* it is used, the password prompt has no name, a session has one from the end
\* of its login on, and only named users who went online are in rooms.
Pending == {"ansi", "text", "motd"}

Prompted ==
  \A s \in Slot :
    /\ state[s] \in {"password", "yesno", "newpass", "newagain"} => tmp[s] \in Account
    /\ state[s] = "password" => name[s] = NoName
    /\ conn[s] = "established" /\ state[s] \in Pending \cup InGame => name[s] # NoName
    /\ s \in inside => name[s] # NoName /\ state[s] \in InGame

\* The logout timer only runs for a connection that is being closed: it is the
\* one timer whose handler closes without logging out.
LogoutTimerLast ==
  \A s \in Slot : timer[s] = "logout" => conn[s] # "established"

\* No profile file is overwritten by a session that read only part of it
\* (state_password_prompt clears the name to keep close_connection from that).
NoPartialProfileSaved == \A n \in Account : disk[n] # "part"

\* Once it is being closed a connection never serves its user again; the slot
\* is freed first (reboot may only restart the closing of it).
ClosingIsFinal ==
  [][\A s \in Slot : conn[s] \in Closing => conn'[s] \in Closing \cup {"free"}]_vars

\* A second login of a name closes the session that is online first.
OneSessionPerName ==
  \A s, t \in Slot : Online(s) /\ Online(t) /\ name[s] = name[t] => s = t

-----------------------------------------------------------------------------
\* The main loop comes round to every connection (WaitClose, CloseSocket,
\* Reap), a timer that is left alone fires (CloseLogout), and TCP delivers
\* output or, with SO_KEEPALIVE set by ConnUser_accept, reports an error (Flush).
LiveSpec ==
  /\ Spec
  /\ \A s \in Slot : /\ WF_vars(WaitClose(s)) /\ WF_vars(CloseLogout(s))
                     /\ WF_vars(Flush(s))
                     /\ WF_vars(CloseSocket(s)) /\ WF_vars(Reap(s))

\* A session that is being closed is freed, unless the reboot sequence gets as
\* far as logging everyone off, which starts the closing over and then exits.
ClosingEnds ==
  \A s \in Slot : conn[s] \in Closing ~> conn[s] = "free" \/ down \in {"off", "exit"}

\* The timers of a user who is silent fire one after the other.
IdleSpec ==
  /\ LiveSpec
  /\ \A s \in Slot : WF_vars(LoginTimeout(s)) /\ WF_vars(IdleTimeout(s))

\* A user who types nothing any more does not stay: at every point of the
\* login and of the game some timer runs that ends the session.
SilenceEndsSession ==
  \A s \in Slot : <>[][~Keystroke(s)]_vars =>
                    []<>(conn[s] # "established" \/ down = "exit")

=============================================================================
