# bbs100: a verification project

TLA+ modules that model bbs100, the configurations that check them with TLC,
and theorems about them that TLAPS proves. Paths are relative to the
repository; `Foo.c` without a directory is `src/Foo.c`.

bbs100 is a bulletin board in C. One process serves every user from one
`select()` loop (`mainloop()` in inet.c). There are no threads. A user's
program is a stack of state functions (`CallStack`): every character that
arrives is given to the function on top, which may push, pop or replace
functions. What is hard in this code is therefore never two steps that run at
the same time. It is the *order* of handlers of different users, timers,
signals and child processes, and what a user, a timer or a message still points
to when the handler that set it up returned long ago.

## 1. Inventory

Each row: the state it keeps, its operations, who it talks to, what is hard.

| Component | State | Operations and interactions | Hard, and what makes it correct |
|---|---|---|---|
| **Main loop** (inet.c, Conn.c, ConnUser.c) | `AllConns`, state, socket and output of every connection | accept, process a character, write, close, reap; calls `update_timers()` and `handle_pending_signals()` in every round | a connection is freed after its user is logged out, never serves again once it is closing, and does get freed |
| **Session** (state_login.c, User.c, OnlineUser.c) | `AllUsers`, the name and profile of a user, the hash `online_users`, the inside lists of the rooms, UserData files | login of known, new and guest users; going online; logout by the user, a Sysop, a timer, a dead link, another login, a reboot | two logins of one name that overlap; a profile that loads only half; the hash must find who is online and nobody else; no pointer to a freed User |
| **Timers** (Timer.c, timeout.c) | a queue of relative times per user and one for the system; restart counts | add, remove, set, fire, restart; stages of idle, reboot, shutdown | deadlines that move when other timers come and go; ties; lags; the time users are told |
| **Signals, crash recovery** (Signals.c) | `sig_pending`, signal vectors, the jump buffer, `this_user` | record a signal, handle the pending ones between handlers, jump out of a crash | a signal that is lost or handled twice; a recovery that recovers |
| **Child processes** (Process.c, ConnResolv.c) | process table, pids, death counts | fork, reap on SIGCHLD, restart, give up | one SIGCHLD for two deaths; reaping another child |
| **Rooms and posts** (Room.c, Message.c, Joined.c, state_room.c) | rooms, message list head to tail, files of messages, what each user has read | enter, leave, post, delete, undelete, expire, load, unload, mail | numbers given twice, a `last_read` that outlives its room, expiry against the limit, inside lists |
| **Direct messages** (state_msg.c, BufferedMsg.c, state_history.c) | held messages, history, follow-up, recipients | send, receive, hold, spew, mail to who has left | a message lost or shown twice between busy, hold and logout; a user stuck in follow-up mode |
| **File cache** (CachedFile.c, AtomicFile.c) | hash and FIFO of cached files, dirty and open flags | open, create, close, unlink, rename, evict, expire | what is read is what was written last; a file open twice; failing writes |
| **Call stack and menus** (CallStack.c, state*.c) | the stack of functions and of arguments | call, jump, return, push; every menu | arguments and functions that get out of step |
| **Telnet** (Telnet.c) | parser state, the bytes of a subnegotiation | negotiate, window size, environment | the position in a buffer of bounded size |
| **Host access** (Wrapper.c, access.c) | list of wrappers | match an address, apply to all or new users | the first match decides |
| **Editor, pager** (edit.c, Display.c, util.c) | edit buffer and position, scroll buffer | a key | positions inside buffers |
| **Data structures** (List.c, PList.c, Queue.c, Hash.c, ...) | lists, queues, hashes | add, remove, concatenate, resize | order kept by a resize; the tail of a queue |
| **Memory** (Slub.c, Memory.c) | slabs | allocate, free | counters against free lists |
| **Parameters, small data** (Param.c, edit_param.c, Category.c, Feeling.c) | parameters, categories, feelings, with one "must be saved" flag per Sysop | read, change, save by several Sysops | a change that is never saved; a number of a list that moved |
| **Formatting, logging, tools** | - | reading and writing of text | no protocol |

`PROJECT.json` lists every component with its status and, under `hazards`,
every place in the modelled part where something can go wrong that a test would
hardly reach.

## 2. Modules

| Module | What it is |
|---|---|
| `Session` | the life of a session, from accept to free, with the hash of online users, the rooms' inside lists, the profile files, and the reboot sequence as far as it closes sessions |
| `SessionProofs` | TLAPS proofs about `Session` |
| `MCSession` | small instances of `Session` |
| `SessionCalm` | `Session`, with a watch on whether logins of one name overlapped |
| `MCSessionCalm` | a small instance of `SessionCalm` |
| `TimerQueue` | the operations of Timer.c on a queue, as operators |
| `TimerQueueProofs` | TLAPS lemmas about these operators, and the induction they need |
| `UserTimers` | the timers of one user, on `TimerQueue` |
| `MCUserTimers` | `UserTimers`, with a watch on whether two timers tied |
| `UserTimersProofs` | TLAPS proofs about `UserTimers` and `MCUserTimers` |
| `SystemTimers` | reboot, shutdown and a periodic timer, on `TimerQueue` |
| `SystemTimersProofs` | TLAPS proofs about `SystemTimers` |
| `Deadlines` | the abstract specification of a timer queue |
| `FileCache` | the file cache, with everything that goes through it and past it |
| `FileCacheProofs` | TLAPS proofs about `FileCache` |
| `MCFileCache` | a small instance of `FileCache` |
| `RoomMsg` | the messages of an ordinary room, and what its users have read |
| `MCRoomMsg` | a small instance of `RoomMsg` |
| `FileStore` | the abstract specification of the files behind the cache |
| `XMsg` | direct messages between users: sending, holding, follow-up, histories |
| `MCXMsg` | a small instance of `XMsg` |
| `MessagesProofs` | TLAPS proofs about `XMsg` and `RoomMsg` |
| `CallStack` | the operations of CallStack.c on one session, as operators |
| `Menus` | what all menus share: sessions, rooms, who is inside, the pager, the boss screen; on `CallStack` |
| `PostMenus` | entering, reading, replying to, forwarding and deleting a message, on `Menus` |
| `RoomConfigMenus` | the config menu of a room: info, aides, kicking, removing all posts, deletion; on `PostMenus` |
| `RoomMenus` | the room prompt, going from room to room, zapping; composes the three above into one specification |
| `MenusProofs` | TLAPS proofs about `Menus` and `RoomMenus` |
| `MCRoomMenus` | a small instance of `RoomMenus` |
| `Desks` | what a user of the Sysop and account menus has in hand, and what these menus edit for all; on `RoomMenus` |
| `SysopMenus` | the Sysop menu: categories, wrappers, disconnecting, screens, reboot and shutdown, making rooms (state_sysop.c up to 1880) |
| `SysopFiles` | screens and help files, feelings, old logs (the middle of state_sysop.c) |
| `ParamMenus` | the parameters (the rest of state_sysop.c, edit_param.c) |
| `AccountMenus` | the config menu, terminal, time zone, symbols, friends and enemies, feelings, profile |
| `AllMenus` | composes all menus into one specification |
| `MCAllMenus` | a small instance of `AllMenus` |

### Session

A `Slot` is the memory of one User with its Conn. A handler of the code is one
action, because the process is single-threaded: nothing runs between two
statements of a handler. What interleaves is the order of handlers.

* `conn`, `sock`, `output` are `conn->state`, `conn->sock > 0` and whether
  closing output waits. `state` is the function on top of the call stack:
  the functions of the login one by one, `room` for everything a user can do
  online, `logout` for the logout question. `name`, `tmp`, `tries`, `loaded`
  are `usr->name`, the name kept in `tmpbuf`, the login attempts, and how much
  of the profile the User holds (`part` after `load_User()` for the password,
  or after a failure).
* `hash` keeps the entries of one key of `online_users` in list order:
  `add_Hash` appends, `is_online` and `remove_OnlineUser` take the first. The
  resize of Hash.c keeps the order of one key, so one sequence per name is
  exact.
* `disk` says of each UserData file whether it is whole, damaged, or was
  overwritten with a part of a profile. Every save may also fail.
* `close_connection` is the operator `Close`, used by everything that ends a
  session: it logs out (saves, takes the name out of the hash, leaves the room,
  clears the name) whatever the state of the connection was, as the code does.
* The state of an entry of the hash whose User was freed is undefined in C.
  `Found(n)` cuts such behaviours off where the entry would be used: nothing is
  claimed about what follows a use of freed memory, and `HashExact` (in `SessionCalm`)
  says when it cannot happen.

Left out: running out of memory; failing `crypt()`; a locked terminal (it is in
`UserTimers`); a missing message-of-the-day file; the content of messages.
The loop serves connections in list order; the model allows any order, which
includes it.

### TimerQueue, UserTimers, SystemTimers

A queue is a sequence of entries with a `wait`, the `sleeptime` of Timer.c: the
seconds after the timer before it. `Insert`, `Delete`, `Reset` are `add_Timer`,
`remove_Timer`, `set_Timer`; the last stores the new time *before* it removes,
as the code does. `update_timerqueue()` is modelled step by step: `Second`, or for the
system `Round`, takes the time that passed from the first timer (up to `MaxLag` seconds), then one step per timer, `at` being
the pointer of the loop. `Fires` moves `at` to the timer that followed *before*
the fired one is put back, as `t_next` does. Handlers run only while `at` is
`"none"`, since the loop runs to its end.

`UserTimers` has the idle timer with its three stages and its life as a login
timer, the save timer and the logout timer, with every handler that sets them.
`silence`, `unsaved`, `touched`, `left` are history variables; `unsaved` stops counting at
`SaveTime + 2 * MaxLag`, which is above the bound of `SavedUnlessTouched`. `SystemTimers` has the two
timers that count down to an exit, with what a Sysop and a signal do to them,
the stages of `reboot_timeout()` (`shutdown_timeout()` is the same), and
`time_to_dd()`. Logging everyone off is under the condition that the last screen can be
loaded (timeout.c:125, :167); when it cannot, the stage goes on all the same, and the
history variable `unseen` has the timer. A Sysop may set a timer that runs already: the branch is
commented "never reached any more" (state_sysop.c:1437), but the question for
the password is open while a second Sysop or a signal can set it.

`Deadlines` says what the queue is for: each timer has its own deadline, a timer
may be late but is never early, and setting one makes no other earlier.

### FileCache

The bbs "never keeps files open across states" (CachedFile.c:26), so a use of a
file, from `Fopen()` or `Fcreate()` to `Fclose()`, is one action. Where the code
opens one file while another is open, the effect is that of one use after the
other, since both end in the same handler.

* `fifo` is the list from `fifo_head` to `fifo_tail`, `mem` the hash with the
  contents; `Staying(f)` says which files are in the cache when `f` was used,
  and which one `add_Cache()` expires. `resize_Cache()` keeps files in the order
  of the hash, which the model leaves open.
* Files fall into three classes by how the code handles them. `Data` (users,
  rooms, messages) is read and written through the cache; a `Screen` is read
  through the cache and uploaded past it (`upload_save`); a `Feeling` is read
  through the cache and saved past it, in a state of its own (`AddFeeling`, then
  `SaveFeeling`), so that two Sysops can be at it.
* `dirty` are the files of which `Fclose()` failed: it leaves them open and dirty
  in the cache. `cut` is a history variable for those that `closefile()` reported
  as saved though the disk filled up under its `fclose()`.
* `Fcreate()` does not set the dirty flag, `Fputs()` does; every file is given at
  least one line, so `Write` is always dirty.
* `Expire` may remove any number of files from the end of the FIFO: those whose
  time has passed are at the end, since a use moves a file to the front.

Left out: editing files on the host behind the back of the program, which
README:40 forbids; the content of a temporary file; `trash/`, which is not cached.

`FileStore` is what the callers count on: who reads gets what was saved last, or
what a save that failed has left, until that is forgotten.

### RoomMsg

One ordinary room. `head_msg`, `tail_msg`, `max_msgs` are the fields of the Room;
`file` is its directory: which message is in the file with a number, messages being
counted in the order in which they were posted. `last_read` and `joined` are the
user's `Joined` (`joined`: its generation is the room's), `saved` is `max_msgs` in the room's
own file, `curr_msg` and `message`
those of the User (`RoomUser`: the names of the module are its own, so that one module
of proofs may extend it and `XMsg`); `message` is the copy in memory, which a delete writes back.

* A key at the room prompt is one action, up to the next prompt (`Prompt` drops the
  message when nobody is reading). Entering a message and the question before a
  delete take many keys, but nothing is decided before the last one, so `Save` and
  `Delete` stand for that one.
* `ReadMsg` is `readMsg()` with its early return: when the message is gone and the
  oldest is also the last, the user is moved there without reading it.
* `Renumber` is `room_readroomdir()`. The directory is read in any order; what was
  the least so far is forgotten when it was 0, hence the disjunct `0 \in F`.
* `Restart` gives every user who was online some earlier `last_read`, whatever the
  save timer had saved last, and the room the `max_msgs` that is in its file. `Resize` does not
  save: the menu asks for `RTF_ROOM_EDITED` (state_roomconfig.c:155), which the key for the
  size does not set, and `exit_program()` saves no room. `SaveRoom` is any other change, which
  is saved with all of the room. The generation is taken as saved: its menu sets the flag.
* `posted`, `passed`, `lost`, `stray`, `most` are history variables. `most` is the largest
  limit since the last resize. `passed` are the messages
  that a user has gone past since joining the room. `lost` is a user whose room was
  cleaned out and who has not joined it anew; `stray` says that a file was written
  that is not in the room, which only a restart brings back.

Left out: the mark of a deleted message and who made it; rights to post and to
delete; a save that fails (`OtherKey`); the room is not a chat room, nor Mail>,
whose messages expire when they are read.

### XMsg

A message goes to its recipients one by one in `loop_send_msg()`, which the main
loop calls again for a connection that is `CONN_LOOPING`; the keys of other users
come in between. So `LoopSendMsg` is one recipient, and what it does to him is
all in it: `recvMsg()` displays the message, or holds it, or mails it, or, when the
receiver is in follow-up mode (or a helper who gets a question), puts *him* into
the editor.

* `us[u]` is the session: `stack` and `flags` (busy, hold, sending, locked),
  `to` and `todo` for the recipients given and left, `held` and `hist` with the
  places `held_p` and `hist_p`, pointers into these lists in C. `arrived` and `taken`
  are history variables: what came for the user, and what he was shown.
* `Calls` and `Ret` go through the prompt as the code does: coming back to the room
  prompt drops what is being written and spews or prompts for what was held.
* A notification (`"oneshot"`: somebody logged in, locked, ...) is held like a message,
  but is displayed once and remembered by nobody.
* `wild` is set where the code reads or frees memory it does not own; nothing is
  claimed about what follows. It is there so that the other properties are not
  blamed on it: see "Not runs of their own".

Left out: emotes and feelings, which go the same way; chat rooms; who may be
written to (enemies, `override`); the text.

### The menus

`Session` knows of an online user only that he is at `room`. The menus are what is
under that word: more than two hundred state functions that call, jump to and return to one
another on a stack that also carries their arguments.

* A session has `stack`, top first, with the names of the state functions and, as in
  C, the arguments between them; and `key`, which says whether the function on top
  is called with `INIT_STATE` (`"init"`), with `INIT_PROMPT` (`"prompt"`), or waits
  for a key. One action is one state function, its disjuncts are the keys it tells
  apart. A key is read only when no call is pending for anyone (`Quiet`). A function
  that calls another does so last, so that the pending call may be an action of its
  own, and no other user's key is read before it was made.
* The exception is what makes this hard. A kick calls `goto_room()` on another user's
  session, which calls whatever is on top of *his* stack once more. `RoomConfigMenus`
  models that as the code does, for a user in any state.
* `harm` says what went wrong in C: a null `usr->message`, a pager over freed text,
  an argument called as a function, a stack without a function. The program
  stops there. `by` is a history variable: which of the known causes (the boss
  screen, a kick, a deleted room, a room made) touched the session since, and whether it
  is at a message that is `missing`, its `curr_msg` being a number and `message` NULL. The
  properties say that there is no harm without its cause, and that everything
  else holds for whoever was not touched.
* `edited` and `resized` are `RTF_ROOM_EDITED` and `RTF_ROOM_RESIZED`. A change of a room puts
  the user on its `owed`, whether or not his handler sets the flag; a change of its size is
  kept apart, as `unsaved`, since no handler flags it. `resized` is cleared by nothing but
  the config menu, so that after a kick or a deletion another room is resized (`Resized`).
  The same prompt marks the parameters (`GiveSize` in `AllMenus`), since the code takes the
  number with `change_int_param()`.
* `Desks` has what is passed from handler to handler outside the stack: the flags
  of what must be saved, `tmpbuf[TMP_NAME]` and `tmpbuf[TMP_PASSWD]`, the number
  and the list on the stack; and for the properties the list as it was `shown`,
  whether another Sysop changed it since (`stale`), and whether something other than
  what was shown was hit (`missed`).

What decides nothing here is a free choice: flags of rooms and who is invited, who
takes mail from whom, typed text, the type of terminal, whether a file can be read,
and how far the reboot timers are (`SystemTimers` has them). The message being
written is forgotten at the room prompt, which nothing reads again. Left out: chat and
Home rooms, the who lists, what is only printed; the editor and
the pager are states, without their buffers.

## 3. Runs

| Run | Instance | Shows |
|---|---|---|
| `session` | 2 slots (symmetric), 1 account, 1 guest name, one attempt besides the first | `LoggedOutBeforeFreed`, `NoGhostEntries`, `NoPartialProfileSaved`, `ClosingIsFinal` in every order of events; `ExactWhileCalm`: the hash holds exactly who is online until two logins of one name overlap |
| `session_live` | 2 slots, 1 account, fairness | `ClosingEnds`, `SilenceEndsSession` |
| `session_twice` | as `session`, no guests | **violated**: `OneSessionPerName` |
| `user_timers` | login 3, idle 6, lock 8, save 6, warnings 3 and 3, logout 2 seconds, lag up to 3 | `QueueSorted`, `SilenceBounded`, `SavedUnlessTouched`; `NeverEarly`: until two timers tie, the queue refines `Deadlines` |
| `user_timers_idle` | lag 1 | **violated**: `IdleInTime` |
| `system_timers` | Sysop times 1 and 7, stages 3, 2, 1, cache 5, lag up to 2 | `ToldInTime`: exact, but for one stage; `NotPutOff`, by more than it is late; `NobodyComesIn`; `LoggedOffFirst`, unless the last screen cannot be loaded |
| `file_cache` | 2 files of one user, 1 screen, 1 feeling, 2 contents, cache of at most 2, 1 Sysop (`Alone`), a disk that may be full | `FifoIsCache`, `Coherent`, and the cache implements `FileStore` |
| `room_msg` | 2 users of whom one is a Sysop who does not read, sizes 1 and 2, 3 posts, and a fourth where size 1 is saved | `RoomTypeOK`, `Whole`, `Sized`, `NewIsOffered`, `NothingSkipped` |
| `room_msg_reading` | 2 users, 3 posts | **violated**: `ReadingHasMessage` |
| `xmsg` | 2 users: one in follow-up mode, the other pages through held messages, helps, logs off and is told who comes; history of 1, 2 messages, 1 notification | `InOrder`: nothing is lost, doubled or overtaken; `BusyUnlessPrompted`; `PlaceInHistory`; `LoopEnds` |
| `room_menus` | a Sysop, a user, and a third in the Lobby; the Lobby, one room that comes and goes, Mail>; 5 sets of habits | `ListedInRoom`, `DraftHere`, `KickedStayOut`, `AideOfThisRoom`, `EditsKept`, `HarmHasACause` |
| `all_menus` | two Sysops and a third user, 2 wrappers, 2 categories, 2 feelings, 1 friend at most; 11 pairs of habits, the Sysops symmetric | `ArgumentsFit`, `BuffersFit`, `HitsWhatIsShown`, `EditsRemembered`, `ColorsChosen`, `HarmHasACause` |

The type invariant of a module is in the run's first or broadest invariant
(`FifoIsCache`, `QueueSorted`, `ToldInTime`, `PlaceInHistory`, `BuffersFit`) where it
is not listed as `TypeOK` or `RoomTypeOK`. `room_menus` takes `Menus.TypeOK` from `all_menus`, which
has the same variables and checks it.

Deadlock is not checked where the system stops: the program exits in `Session` and
`SystemTimers`, and at the first harm in the menus; the life of one user ends in
`UserTimers`, everybody may have logged out in the menus, and `XMsg` goes no further than
the first use of memory that is not owned. `FileCache` and `RoomMsg` run with the deadlock check.

**Why the bounds are enough.** Two slots are the least for two logins of one
name, for a login while another session closes, and for a Sysop and a victim;
every property is about at most two sessions and one name; the guest name is a
second one, so that entries of different names meet. `MaxAttempts` is 1,
which still tells another attempt from the last; `session_twice` allows 2, the theorems any. In the timer modules the durations keep the
relations of the defaults that matter: saving is no rarer than the idle and the lock
timeout (5, 10 and 30 minutes, include/Param.h:297), the warnings are shorter, and with a
save timeout that equals the idle timeout and a lag as long as a warning the timers meet in
every order and can be late twice before a save; `user_timers_idle` has the save timeout
at half the idle timeout. A Sysop's time is shorter or longer
than four minutes, the periodic timer falls before and after every stage.
Two files and a cache of two, one or none make every file be the one that is
expired; two contents distinguish what is saved from what was there. With room for
one or two messages and four posts, posts expire messages that a user is at, is
before and is past, in a room that was resized, cleaned out or renumbered; with three
posts no post would expire anything. The state constraint `Bound` keeps the
Sysop, whose reading is that of the other user, from multiplying the states, and leaves
the fourth post to a room that has size one in its file: there it is the second that
expires a message, or one more than a restart allows in a room that was made larger and
not saved (`head_msg - tail_msg` is 3 under a limit of 1, which `Sized` with `max_msgs` for
`most` finds violated).
`MaxDue` bounds how far away timers may be pushed, since two Sysops that take
turns push them for ever.

With a history of one and two messages, every message that is added may push out
the one that is being looked at; with two messages and one recipient who holds them,
one can arrive while the other is held, displayed or answered. Each mode (`FollowUp`,
`HoldBusy`, `Helper`, `Leaver`, `Buddy`) is on for one of the two users, so both the
user with and the user without it are there.

The menus interfere only through a few things: another user's stack and room
(kicks, deletion), the rights of a room, and the shared lists. Keys that touch none
of these are without effect on one another, so `Habits` gives each user the keys of
one or a few menus, and an instance is a set of pairs. In `all_menus` both Sysops are in
the same menu (wrappers, categories, parameters), or in two that meet (one edits the
feelings that the other sends; one disconnects while the other is in the menu of the
reboot), or one is in the menus that only touch his own state, or makes and deletes rooms, or configs
one and its size, or posts. The
two are symmetric, and every pair of habits is there in both orders. In `room_menus` one
user kicks, deletes or appoints while the other posts, edits, configs or walks; `Targets` says
whose names a user types: the Sysop the second user's, and that one the third's, so that a
prompt that the deletion of its room leaves open finds somebody in the Lobby. A user with
no habit presses no key (`Turn`) and waits to be disconnected or kicked. `MaxStack` bounds how
deep a stack may be when another menu is entered, which the boss key would otherwise
do for ever. Lists of two make the first, the
last and the only entry be removed under a Sysop who was shown it.

**Fairness.** `LiveSpec` is weakly fair to what the main loop does in every
round (`WaitClose`, `CloseSocket`, `Reap`), to the logout timer, and to the
network taking output: TCP delivers it, or fails since keep-alive is set, and
either ends the wait. `IdleSpec` adds the login and idle timers. No fairness is
assumed of users or Sysops. In `XMsg` the loop over recipients is weakly fair, since the main
loop does not pass over a connection that is `CONN_LOOPING` (inet.c). `ClosingEnds` excludes the reboot sequence, which starts the
closing over for everyone and then exits.

**What the violations show.**

* `session_twice`: `state_password_prompt` asks `is_online()` when the password
  is right, `state_go_online` adds to the hash after the message of the day. Two
  logins of one name that are both in between do not see each other.
* `user_timers_idle`: `t_next` is taken before the fired timer is put back. When
  that one is due together with `t_next`, `t_next` gets a relative time of 0 and
  fires in the same loop. With the defaults (10 and 5 minutes) this happens to
  everyone who does not press a key for five minutes after the message of the
  day: they are warned, and then logged off, five minutes too early.
* `room_msg_reading`: [-] and [+] in an empty room leave `curr_msg` at 0, which the
  prompt takes for reading. When another user posts, [(] looks at the flags of a
  message that is not there, and the program crashes.

Not runs of their own: `set_Timer()` gives its *new* time to the next timer
(Timer.c:123), so once the idle timer is before the save timer (after an idle
warning, say) every key puts the next save off; `save_feeling()` writes past the
cache, so that with two Sysops who were given the same free name the first feeling
may stay in the cache when the second was saved (state_sysop.c:3012); a room keeps
two messages more than "the maximum number of messages" of README:192, and after a restart
that undoes a resize as many as the larger room had (`Sized` has the exact bound); a message that expired while a user looks at it can be undeleted
all the same, against README:191, and is in the room again after a restart; the first
message after a room was cleaned out gets the number 0 and is never offered
(`NewIsOffered` excepts it). `time_to_dd()` does `return secs = t->sleeptime + 5`
(timeout.c:217), so in the stage of the last 30 seconds users are told too little by what
another timer before it on the queue has left (`ToldInTime` says exactly that, and that
every other stage is told right); when the last screen cannot be loaded nobody is logged off
and the program exits with its users online (timeout.c:125; `LoggedOffFirst` excepts that
timer, and nothing else); with a reboot and a shutdown running, a tie can
end the program before the last screen stood for two seconds (timeout.c:131); and `sig_reboot` compares a *relative* time with four minutes, so
that it leaves a later reboot alone when another timer is before it (README:158
says five minutes). A cache that is resized to nothing and back loses its
expire timer (CachedFile.c:531), which costs memory and nothing else.

Of the session: when `load_User()` fails half way (a damaged file), `usr->name` is set
already, so the close that follows saves what was read over the file
(state_login.c:272); `session` keeps the file whole, and `NoPartialProfileSaved` then
says that no other order of events saves a part.

Of the direct messages (`HistoryBounded` and `OwnMemory` in `XMsg` say what the code
does not keep, and are not checked): `expire_history` drops nothing while the oldest
message is being looked at, and one message at a time later, so that the history stays longer than
`PARAM_MAX_HISTORY` (state_history.c:724); the mail made of held messages at the logout is
freed together with the name of its recipient, which it does not own; what somebody holds from a sender who has left is lost when he logs out.
With `PARAM_HAVE_MAILROOM` off, `loop_send_msg()` neither calls itself again nor anything
else when a recipient has left (state.c:996–1013): the sender is stuck in it. TLC finds
`LoopEnds` violated with `HaveMailroom = FALSE`; `xmsg` runs with it on, and the theorems of
`MessagesProofs` are for either.

Of the rooms:

* `state_create_room` puts the Sysop into the new room without `leave_room()`, so
  he stays on the inside list of the old one, with a pointer to a User that is freed
  when he logs out (state_sysop.c:439); `ListedInRoom` excepts him. Everybody in a
  room that is deleted is on no list (state_roomconfig.c:1178), but keeps the aide flag, except
  for who deleted it; what is left of the config menu then acts on the Lobby.
* `state_sysop_menu` does not ask for the privileges again: [$] in the config menu
  of a room that was just made gives them up and returns to the Sysop menu
  all the same.
* A kick under the boss screen calls the flags that `state_boss()` pushed as a function;
  a kick in the pager leaves it over freed text, a kick while posting leaves a state
  without its message; `save_message_room()` for somebody who was kicked meanwhile
  returns once too often. What a kicked user edited in a room is not saved.
* The question whom to kick out can be left open over the deletion of the room, and is then
  about the Lobby, which it refuses only when it is opened (state_roomconfig.c:768): who
  is named is on the Lobby's list of kicked users, and is put into the Lobby all the
  same. `room_menus` reaches that with its third user; `KickedStayOut` excepts the Lobby.
* [(] follows `usr->message` when only `curr_msg` was looked at (state_room.c:669). `ParentKey`
  takes the message for granted as the code does; `HarmHasACause` says that of all the keys it is
  the only one that finds none without a kick (`room_msg_reading` shows how).
* A change of the number of messages of a room is saved by chance only, together with
  another change, and its flag may resize another room than the one it was asked for
  (state_roomconfig.c:56, :282). `EditsKept` is about everything else that is configured.

Of the Sysop menu: a Sysop who hangs up in the parameters or categories leaves them
unsaved; a wrapper that was removed is not saved when [w] is chosen once more before leaving
(state_sysop.c:196, :1124), nor is the setting of log rotation (:4770); the crash screen
is compared by pointer with a copy and therefore never loaded again (:2122, :2199); who
hangs up in the menu of a screen has a string constant freed (:2010, :2040, User.c:135; `BuffersFit`
excepts it); `su_passwd` is read at the start only; `change_su_passwd` leaves the plain password in
`tmpbuf[TMP_PASSWD]` when it is broken off.

Of the account: friends, enemies, showing enemies, the time zone, default colors and
some keys of the symbols do not set `CONFIG_EDITED`, and are saved only with something else;
who hangs up while typing symbols keeps `DONT_AUTO_COLOR`; the list of `override` may
hold enemies (state_friendlist.c:597), whom it lets through; the list of feelings read at [*] may
be older than the generation that `choose_feeling` took before (state.c:1347).

## 4. Proofs

Each theorem is about every value of the constants that the named assumptions of the
module allow: any users, slots, rooms, files, timeouts, any number of messages, stacks
of any depth. The invariants below are inductive; TLC checked them on small instances
first. A proof has a lemma per handler and lemmas for the operators that handlers share.

### Session

`SessionProofs`, for any finite set of slots, any accounts, any sequence of guest names
and any number of attempts:

* `TypeCorrect`, `LoggedOut`: `[]TypeOK` and `[]LoggedOutBeforeFreed`; a session whose
  connection is closing or whose socket is dead has no name and is in no room.
  `LoggedOutBeforeFreed` is not inductive. `Linkdead` logs out only a *named* user, so a
  session without a name must be in no room; a session gets its name at the password,
  the guest login or the end of the registration, so it must be known what `tmp` holds
  there (`Prompted`). `close_logout` closes without logging out, so the logout timer
  must run only for closing connections (`LogoutTimerLast`). `IInv` is these three and
  the types.
* `ClosingStaysFinal`: the action property `ClosingIsFinal`, from `IInv`.
* `WholeUnlessDamaged`: a part of a profile is only saved over a file that was damaged,
  account by account; `NothingPartialSaved`: `[]NoPartialProfileSaved` when no file is
  (`Breakable = {}`, as in the run `session`). The invariant added is `Whole`: who has
  the name of an undamaged account has read all of it, and its file is whole. The
  hypothesis is needed: `load_User()` that fails half way leaves `usr->name` set, and
  the close saves.
* `NoGhosts`: `[]NoGhostEntries`. The proof counts: entries of a name in the hash are no
  more than sessions of that name, and every handler adds one of each, or takes away no
  more sessions than entries.
* `FoundWhileCalm`: `[]ExactWhileCalm`. Until the logins of one name overlap, the hash
  has exactly who is online. The invariant is `Calm`: names are unique, they are only
  those of sessions past the password, and each name's list is right. Like
  `NothingPartialSaved` it assumes undamaged files: a damaged one leaves a name at a
  session that is at the login prompt again.

### Timers

`TimerQueueProofs` says what the operators of `TimerQueue` do to the *deadlines* `Due`,
which are sums over a sequence: `Insert` puts a timer at its time and leaves the others
(`InsertDue`), `Delete` leaves the others unless the timer is late (`DeleteDue`),
`Elapse` brings all forward (`ElapseDue`), `Reset` moves those after the timer by the
difference of its new to its old relative time (`ResetDue`); all but `Elapse` keep the
queue sorted. Sums are computed by a recursive function, so this needs induction. The
induction theorems of the library take an operator, which the provers cannot
instantiate; `SetInduction` and `SeqInduction` say the same of a *set* and follow from
theorems on finite sets (if k were missing, the numbers below k in the set would be as
many as those without 0). `MessagesProofs` and `FileCacheProofs` use them too.

`SystemTimersProofs`, for any times, stages, lags and period of the cache, with the last
screen shorter than `Shut` and `SignalTime` (`ViewAssumption`: it is 2 seconds in
timeout.c, against 10 and 240):

* `Told`: `[]ToldInTime`; `Nobody`: `[]NobodyComesIn`; `LoggedOff`: `[]LoggedOffFirst`;
  `PutOff`: the action property `NotPutOff`.
* `IInv`: the timers on the queue are the cache's and those that run, in order
  (`Queued`); what is before the timer that the loop looks at has fired (`Started`); a
  timer is in its last stage only after everyone was logged off, unless its last screen
  could not be loaded, and once everyone was logged off one is due
  within `ViewTime` (`Closing`), which is why `NobodyComesIn` holds although a signal
  may set the other timer meanwhile: `sig_reboot` leaves alone what is nearer than four
  minutes.

`UserTimersProofs`, for any timeouts, warnings and lags:

* `SortedQueue`: `[]QueueSorted`; `Saved`: `[]SavedUnlessTouched`; `Silent`:
  `[]SilenceBounded`.
* `IInv`: `Queued` (only the timer that fires may be late, it is the first, and by less
  than a lag); `Stage` (which timers a user has in which state); `Saving` (how long ago
  the last save was plus when the next is due is at most `SaveTime` plus a lag for each
  warning); `Silence`, which counts the late saves: `saves` of them take `saves *
  SaveTime` of the time that is over, and each costs one lag. That is where the bound
  with the quotient of `SilenceBounded` comes from.
* `NotEarly`: `TiedSpec => NeverEarly`. Until two timers tie, every step of the queue is
  one of `Deadlines` or a stutter. The invariant is `OnTime`: a timer has no more time
  left than the queue gives it. It assumes that saving is no rarer than the idle and the
  lock timeout. *That is a finding*: the defaults satisfy it (include/Param.h:297), the
  menu of the parameters does not ask for it. With a longer save timeout, locking or unlocking
  can set the idle timer to less than it had left while the save timer is after it.
  `set_Timer()` hands the *new* time on (Timer.c:123), the save comes forward, and
  `NeverEarly` is false.

The proofs changed the model: in `SavedUnlessTouched` both warnings may be late before
one save, so the bound has two lags; a login timer closes whatever its restart count;
and `Tie` was true of every step that ended the loop, so that `NeverEarly` said too
little.

### File cache

`FileCacheProofs`, for any sets of files and contents and any sizes of the cache, and on
a disk that may be full:

* `CacheCoherent`: `Spec => []Coherent`. A file in the cache is what is on disk, unless
  the last save of it failed.
* `CacheImplementsStore`: `Spec => ImplementsStore`. Everything the cache does is a step
  of `FileStore`, or is not seen.

* `CacheListed`: `Spec => []FifoIsCache`. The FIFO and the hash hold the same files.

The first two assume `Alone`, that one Sysop at a time adds feelings, which the code does not
enforce: without it they are false, as section 3 says. `Coherent` is not inductive. `SaveFeeling` writes past the
cache, so it must be known that the feeling a Sysop is adding is neither in the cache
nor on disk (`Fresh`), and that only `Data` is ever unsaved (`Types`), so that a feeling
that is not on disk is not in the cache either. The inductive invariant is `Types /\
Coherent /\ Fresh`. Most actions have one of two shapes, `Keep` and `Use`, which have a
lemma each; the refinement maps what is saved to `disk` and what a failed save has left
to `Pending`.

`FifoIsCache` needs that the cache is never larger than the parameter, since turning it
on takes its size from there (`Counted`). The part of a list that is kept is a list
(`KeptLists`) because it and the rest together are as long as the list, and neither is
shorter than the files in it are many; that much is by induction over the list.

### Messages of a room

`MessagesProofs`, for any users, any sizes and any number of posts, with every restart
and every message that is written back:

* `RoomTyped`, `RoomWhole`, `RoomSized`: `[]RoomTypeOK`, `[]Whole`, `[]Sized`. The bound of
  `Sized` is two more than `most`, not than `max_msgs`: a restart brings back the limit in
  the room's file and leaves the messages of a resize that nobody saved.
* `RoomNewIsOffered`: `[]NewIsOffered`. `newMsgs()` offers every message that a user in
  step with the room did not go past, or one before it.
* `RoomNothingSkipped`: the action property `NothingSkipped`.

`NewIsOffered` says nothing of messages that are only in memory, but a delete brings
those back, and nothing of where `last_read` is against the head, but a post would then
be behind a reader. The inductive invariant `RoomIInv` has both (`Ahead`): for a user in step with
the room, `last_read` is not after the head, and is before every message not gone past,
in the files and in the memory of every user. A step that goes past the messages up to a
number leaves the others after it only because a message has one number wherever it is
(`Unique`); a restart keeps the head because its file is there (`Ends`). `Had` says that
a message in memory was read, which `NothingSkipped` needs; `Tidy` is what `Whole` and
`Sized` come from. The reading keys are shown to be one of two steps, `Reads` and
`Shows`; the other actions have a lemma each.

### Direct messages

`MessagesProofs`, for any users, modes and sizes of the history:

* `MessagesInOrder`: `[]InOrder`; `NobodyInterrupted`: `[]BusyUnlessPrompted`;
  `PlaceKept`: `[]PlaceInHistory`.
* `IInv` says of every session that it is `Good`: what arrived is what was taken and
  after it the mails among what is held, and the place in the history is there (`Kept`);
  the room prompt is below everything and nothing lies on a prompt that a key leaves at
  once (`Shape`); a loop has a message to send, and the place in the held messages is
  that of a prompt that is on the stack (`Placed`); who is at the room prompt is not
  busy and holds nothing unless he is on hold, and everybody else is busy (`Polite`).
* `Shape` is what makes `Polite` inductive: a handler returns to whatever is below it,
  and only at the room prompt does that clear the flag and spew. The lists are filtered
  (`Mails`) and spewed (`ReceiveAll`) by recursive functions, about which the lemmas are
  proved by `SetInduction` and `SeqInduction`.

### The rooms' menus

`MenusProofs`, for any users, Sysops, habits and targets, and stacks of any depth (but
for the bound `MaxStack` on where menus are entered):

* `HarmCaused`: `[]HarmHasACause`; `EverybodyListed`: `[]ListedInRoom`; `DraftsHere`:
  `[]DraftHere`; `KickedOut`: `[]KickedStayOut`; `AidesHere`: `[]AideOfThisRoom`;
  `EditsAreKept`: the action property `EditsKept`; `TypeCorrect`: `[]TypeOK`.
* `IInv` says of a user `Placed`, how the inside lists, the rights and the lists of
  kicked users agree with his session; and of a session that is online `Good`:
  * `Sound`: everything on the stack lies on what it may lie on (`Fits`, frame by frame
    `Lies`), a message exists as long as something on the stack needs it, and a room
    that was edited has its config menu on the stack;
  * `PagerKept`: the text is there while the pager is, unless the boss screen or a kick
    was in between;
  * `FlagsKept`: raw flags are on the stack only under a boss screen that has been
    shown;
  * `Idle`, no message is begun at the room prompt; `Caused`, no harm without its cause.
* None of the invariants is inductive by itself. What a handler finds under it when it
  returns, many keys later, is what `Fits` keeps; what a function relies on is what
  `Needs` says when it is called. The stack of *another* user is touched by a kick and
  by the deletion of a room only: those handlers have an operator each for what they do
  there.
* The lemmas about `Menus` are in the first part of the module and speak of all state
  functions that lie on a stack, those of the other menus too.

### Only model-checked

* What is about the Sysop's and the account's menus: `ArgumentsFit`, `BuffersFit`,
  `HitsWhatIsShown`, `EditsRemembered`, `ColorsChosen`, and `HarmHasACause` in `AllMenus`. The
  theorems of `MenusProofs` are about `RoomMenus`, without these menus.
* Liveness (`ClosingEnds`, `SilenceEndsSession`, `LoopEnds`): TLAPS has no proof rules
  for fairness and ENABLED here.
* The runs that end in a violation say that something does *not* hold.

## 5. Not modelled, and the plan

Done: `Session`, the timers with `Deadlines`, `FileCache` with `FileStore`,
`RoomMsg`, `XMsg`, and the menus, composed in `RoomMenus` and `AllMenus`.

Not modelled: Telnet.c, edit.c, Display.c and the pager in util.c move positions in buffers
character by character, which a test reaches; Memory.c and Slub.c are taken never to fail;
Hash.c, Queue.c, List.c and PList.c are sequences and sets in the models, which
`Session` keeps in bucket order. Formatting, logging, start-up and the
separate programs have no state that handlers share.

Next:

1. `Signals` and `Process`: pending signals, crash recovery, reaping, composed with
   `SystemTimers`.
2. The Mail> room, whose messages expire when read; chat and Home rooms; the loading
   and unloading of rooms.
3. The hazards without a property: two Sysops who add one feeling
   (state_sysop.c:3012), the resized cache (CachedFile.c:531), two copies of one message
   (state_msg.c:735), the older profile of a second login (state_login.c:272), a signal that
   meets a reboot (Signals.c:378). The first two are settled by the models of today.
4. Proofs about `AllMenus`, on the invariant of `MenusProofs`.
