------------------------------ MODULE RoomMsg -------------------------------
(***************************************************************************)
(* The messages of an ordinary room: files with numbers from tail_msg to   *)
(* head_msg.  Users post, read and delete them, old ones expire, Sysops    *)
(* resize the room and clean it out, and after a restart the numbers come  *)
(* from the names of the files.                                            *)
(***************************************************************************)
EXTENDS Integers

CONSTANTS
  RoomUser, Sysop,
  Sizes,      \* the sizes a Sysop gives the room
  MaxPosts    \* bound: the messages ever posted

ASSUME RoomAssumption ==
  /\ Sysop \subseteq RoomUser
  /\ Sizes \subseteq Nat \ {0} /\ Sizes # {}
  /\ MaxPosts \in Nat

VARIABLES
  head_msg, tail_msg, max_msgs,
  saved,      \* max_msgs in the room's file
  most,       \* history: the largest max_msgs since the last resize
  file,       \* the message in each file: the how manieth that was posted, or None
  at,         \* where the user is
  last_read,  \* j->last_read
  joined,     \* j->generation is that of the room
  curr_msg,
  message,    \* the message in memory, with the number it was read from
  posted,     \* history: the messages posted so far
  passed,     \* history: the messages a user has gone past since joining the room
  lost,       \* history: the room was cleaned out, and the user did not join it anew
  stray       \* history: a file was written that is not in the room, or will not be

limit == <<max_msgs, saved, most>>
room == <<head_msg, tail_msg, limit>>
joins == <<last_read, joined, passed, lost>>
roomVars == <<room, file, at, joins, curr_msg, message, posted, stray>>

Number == 0 .. MaxPosts
None == 0
NoMessage == [number |-> 0, id |-> None]

RoomInit ==
  /\ head_msg = 0 /\ tail_msg = 0 /\ max_msgs \in Sizes /\ saved = max_msgs /\ most = max_msgs
  /\ file = [n \in Number |-> None]
  /\ at = [u \in RoomUser |-> "offline"]
  /\ last_read = [u \in RoomUser |-> 0] /\ joined = [u \in RoomUser |-> TRUE]
  /\ curr_msg = [u \in RoomUser |-> -1] /\ message = [u \in RoomUser |-> NoMessage]
  /\ posted = 0
  /\ passed = [u \in RoomUser |-> {}]
  /\ lost = [u \in RoomUser |-> FALSE] /\ stray = FALSE

\* Mutant of NewMsgs: the last message is not new.
NewMsgsButOne(num) ==
  IF head_msg <= 0 THEN -1
  ELSE IF num < tail_msg THEN tail_msg
  ELSE IF num + 1 >= head_msg THEN -1 ELSE num + 1

\* newMsgs.
NewMsgs(num) ==
  IF head_msg <= 0 THEN -1
  ELSE IF num < tail_msg THEN tail_msg
  ELSE IF num + 1 > head_msg THEN -1 ELSE num + 1

\* The room prompt, which drops the message when none is being read.
Prompt(u, c, m) ==
  /\ curr_msg' = [curr_msg EXCEPT ![u] = c]
  /\ message' = [message EXCEPT ![u] = IF c < 0 THEN NoMessage ELSE m]

\* u goes past the messages up to number n.
Pass(u, n) ==
  /\ last_read' = [last_read EXCEPT ![u] = IF n > @ THEN n ELSE @]
  /\ passed' = [passed EXCEPT ![u] = IF lost[u] THEN {} ELSE
       @ \cup ((1 .. posted) \ {file[k] : k \in {k \in Number : k > n}})]

\* Mutant of ReadMsg: when the message is gone, the newest comes instead.
ReadMsgNewest(u, c, m) ==
  LET n == IF c \in tail_msg .. head_msg THEN c ELSE head_msg
  IN  Pass(u, n) /\ Prompt(u, n, [number |-> n, id |-> file[n]])

\* readMsg: message c, or the oldest when that is gone.  When the oldest is the only
\* one, it is not read, and m stays.
ReadMsg(u, c, m) ==
  LET n == IF c \in tail_msg .. head_msg THEN c ELSE tail_msg
  IN  \/ /\ n # c /\ (n = head_msg \/ head_msg <= 0)
         /\ Prompt(u, n, m) /\ UNCHANGED <<last_read, passed>>
      \/ /\ ~(n # c /\ (n = head_msg \/ head_msg <= 0))
         /\ Pass(u, n) /\ Prompt(u, n, [number |-> n, id |-> file[n]])

Reading(u) == at[u] = "room" /\ UNCHANGED <<room, file, at, joined, posted, lost, stray>>

\* [Space].  When there is nothing new, it may also go to another room, as Leave does.
Space(u) ==
  LET c == IF curr_msg[u] < 0 THEN NewMsgs(last_read[u]) ELSE curr_msg[u] + 1
  IN  /\ Reading(u)
      /\ \/ c \in 0 .. head_msg /\ ReadMsg(u, c, NoMessage)
         \/ /\ c \notin 0 .. head_msg
            /\ Prompt(u, -1, NoMessage) /\ UNCHANGED <<last_read, passed>>

ReadBack(u) ==
  LET c == IF curr_msg[u] < 0 THEN head_msg ELSE curr_msg[u] - 1
  IN  /\ Reading(u) /\ head_msg > 0
      /\ \/ c >= tail_msg /\ ReadMsg(u, c, message[u])
         \/ /\ c < tail_msg
            /\ Prompt(u, -1, NoMessage) /\ UNCHANGED <<last_read, passed>>

ReadAgain(u) ==
  /\ Reading(u) /\ curr_msg[u] >= 0 /\ head_msg > 0
  /\ ReadMsg(u, curr_msg[u], message[u])

\* state_enter_msg_number, and the parent of a reply.
Jump(u, n) ==
  /\ Reading(u)
  /\ n \in tail_msg .. head_msg - 1
  /\ ReadMsg(u, n, message[u])

Clamp(n) ==
  LET h == IF n > head_msg THEN head_msg ELSE n
  IN  IF h < tail_msg THEN tail_msg ELSE h

\* state_enter_minus_msg, state_enter_plus_msg: d messages back or forward.
Walk(u, d) ==
  LET c == IF curr_msg[u] > 0 THEN curr_msg[u] + d
           ELSE head_msg + (IF d < 0 THEN d + 1 ELSE d)
  IN  /\ Reading(u)
      /\ \/ /\ curr_msg[u] > 0 \/ head_msg > 0
            /\ ReadMsg(u, Clamp(c), message[u])
         \/ /\ curr_msg[u] <= 0 /\ head_msg <= 0
            /\ Prompt(u, head_msg, message[u]) /\ UNCHANGED <<last_read, passed>>

\* Any other key, or a message that is not saved after all; [s] stops reading.
OtherKey(u) ==
  /\ Reading(u)
  /\ \/ Prompt(u, curr_msg[u], message[u])
     \/ curr_msg[u] > 0 /\ Prompt(u, -1, NoMessage)
  /\ UNCHANGED <<last_read, passed>>

\* Mutant of Old: one more message may stay.
OldLate == head_msg - tail_msg > max_msgs + 1

\* expire_msg: there is a message to expire.
Old == head_msg - tail_msg > max_msgs

\* save_message_room and newMsg, when the message was entered.
Save(u) ==
  LET n == head_msg + 1
      t == IF Old THEN tail_msg + 1 ELSE tail_msg
  IN  /\ at[u] = "room" /\ posted < MaxPosts /\ n <= MaxPosts
      /\ file' = [k \in Number |-> IF k = n THEN posted + 1
                                   ELSE IF Old /\ k = tail_msg THEN None ELSE file[k]]
      /\ head_msg' = n /\ tail_msg' = IF t <= 0 THEN n ELSE t
      /\ posted' = posted + 1
      /\ stray' = (stray \/ n = 0)
      /\ Prompt(u, curr_msg[u], message[u])
      /\ UNCHANGED <<limit, at, joins>>

\* state_delete_msg, state_undelete_msg: the message that is in memory is saved to the
\* file it was read from, with or without the mark.
Delete(u) ==
  LET m == message[u]
  IN  /\ at[u] = "room" /\ m.id # None
      /\ file' = [file EXCEPT ![m.number] = m.id]
      /\ Prompt(u, curr_msg[u], m)
      /\ stray' = (stray \/ m.number \notin tail_msg .. head_msg)
      /\ UNCHANGED <<room, at, joins, posted>>

\* Joining the room anew begins it from the start.
Join(u, l) ==
  /\ last_read' = [last_read EXCEPT ![u] = IF joined[u] THEN l ELSE 0]
  /\ joined' = [joined EXCEPT ![u] = TRUE]
  /\ lost' = [lost EXCEPT ![u] = @ /\ joined[u]]
  /\ passed' = [passed EXCEPT ![u] = IF joined[u] THEN @ ELSE {}]

\* load_User, which fixes last_read "if too large (room was cleaned out)".
Login(u) ==
  LET l == IF last_read[u] < 0 THEN 0 ELSE last_read[u]
  IN  /\ at[u] = "offline"
      /\ at' = [at EXCEPT ![u] = "elsewhere"]
      /\ Join(u, IF l > head_msg THEN head_msg ELSE l)
      /\ UNCHANGED <<room, file, curr_msg, message, posted, stray>>

\* goto_room and join_room.
Enter(u) ==
  /\ at[u] = "elsewhere"
  /\ at' = [at EXCEPT ![u] = "room"]
  /\ Prompt(u, -1, NoMessage)
  /\ Join(u, last_read[u])
  /\ UNCHANGED <<room, file, posted, stray>>

\* goto_room to another room, and every way to log out.
Leave(u) ==
  /\ \/ at[u] = "room" /\ at' = [at EXCEPT ![u] = "elsewhere"]
     \/ at[u] # "offline" /\ at' = [at EXCEPT ![u] = "offline"]
  /\ Prompt(u, -1, NoMessage)
  /\ UNCHANGED <<room, file, joins, posted, stray>>

\* Mutant of Resize: the room is filled up.
ResizeAlways(u, n) ==
  /\ u \in Sysop /\ at[u] = "room"
  /\ n \in Sizes \ {max_msgs}
  /\ max_msgs' = n /\ most' = n
  /\ tail_msg' = head_msg - n
  /\ file' = [k \in Number |-> IF k \in tail_msg .. tail_msg' - 1 THEN None ELSE file[k]]
  /\ UNCHANGED <<head_msg, saved, at, joins, curr_msg, message, posted, stray>>

\* resize_Room, from the room config menu, which marks the room but does not ask for a
\* save of it: only RTF_ROOM_EDITED does.
Resize(u, n) ==
  /\ u \in Sysop /\ at[u] = "room"
  /\ n \in Sizes \ {max_msgs}
  /\ max_msgs' = n /\ most' = n
  /\ tail_msg' = IF head_msg - tail_msg > n THEN head_msg - n ELSE tail_msg
  /\ file' = [k \in Number |-> IF k \in tail_msg .. tail_msg' - 1 THEN None ELSE file[k]]
  /\ UNCHANGED <<head_msg, saved, at, joins, curr_msg, message, posted, stray>>

\* Another change of the room, or of its info, is saved with all of the room.
SaveRoom(u) ==
  /\ u \in Sysop /\ at[u] = "room" /\ saved # max_msgs
  /\ saved' = max_msgs
  /\ UNCHANGED <<head_msg, tail_msg, max_msgs, most, file, at, joins, curr_msg, message, posted, stray>>

\* remove_all_posts.
CleanOut(u) ==
  /\ u \in Sysop /\ at[u] = "room"
  /\ file' = [k \in Number |-> IF k \in tail_msg .. head_msg THEN None ELSE file[k]]
  /\ head_msg' = -1 /\ tail_msg' = -1
  /\ curr_msg' = [w \in RoomUser |-> -1]
  /\ lost' = [w \in RoomUser |-> TRUE] /\ passed' = [w \in RoomUser |-> {}]
  /\ UNCHANGED <<limit, at, last_read, joined, message, posted, stray>>

\* state_reset_creation_date: everyone has to join the room anew.
ResetCreationDate(u) ==
  /\ u \in Sysop /\ at[u] = "room"
  /\ joined' = [w \in RoomUser |-> FALSE]
  /\ UNCHANGED <<room, file, at, last_read, passed, lost, curr_msg, message, posted, stray>>

\* Mutant of Renumber: the room always begins with the first file that is read.
RenumberFirst ==
  LET F == {n \in Number : file[n] # None}
  IN  \/ F = {} /\ head_msg' = 0 /\ tail_msg' = 0
      \/ /\ head_msg' \in F /\ \A n \in F : n <= head_msg'
         /\ tail_msg' \in F

\* room_readroomdir.  A file 0 that comes in between makes it forget what was least.
Renumber ==
  LET F == {n \in Number : file[n] # None}
  IN  \/ F = {} /\ head_msg' = 0 /\ tail_msg' = 0
      \/ /\ head_msg' \in F /\ \A n \in F : n <= head_msg'
         /\ tail_msg' \in F /\ (0 \in F \/ \A n \in F : tail_msg' <= n)

\* A reboot, or a crash: the room and who was online have what was last saved.
\* (joined is taken as saved: the menu saves the room after the generation changes.)
Restart ==
  /\ Renumber
  /\ max_msgs' = saved /\ most' = IF saved > most THEN saved ELSE most
  /\ at' = [u \in RoomUser |-> "offline"]
  /\ last_read' \in [RoomUser -> -1 .. MaxPosts]
  /\ \A u \in RoomUser :
       /\ last_read'[u] <= last_read[u]
       /\ at[u] = "offline" => last_read'[u] = last_read[u]
  /\ curr_msg' = [u \in RoomUser |-> -1] /\ message' = [u \in RoomUser |-> NoMessage]
  /\ UNCHANGED <<saved, file, joined, passed, lost, posted, stray>>

RoomNext ==
  \/ \E u \in RoomUser :
       \/ Space(u) \/ ReadBack(u) \/ ReadAgain(u) \/ OtherKey(u)
       \/ \E n \in Number : Jump(u, n)
       \/ \E d \in -MaxPosts .. MaxPosts : d # 0 /\ Walk(u, d)
       \/ Save(u) \/ Delete(u)
       \/ Login(u) \/ Enter(u) \/ Leave(u)
       \/ \E n \in Sizes : Resize(u, n)
       \/ SaveRoom(u) \/ CleanOut(u) \/ ResetCreationDate(u)
  \/ Restart

RoomSpec == RoomInit /\ [][RoomNext]_roomVars

-----------------------------------------------------------------------------
RoomTypeOK ==
  /\ head_msg \in -1 .. MaxPosts /\ tail_msg \in -1 .. head_msg
  /\ max_msgs \in Sizes /\ saved \in Sizes /\ most \in Sizes
  /\ file \in [Number -> 0 .. MaxPosts]
  /\ at \in [RoomUser -> {"offline", "elsewhere", "room"}]
  /\ last_read \in [RoomUser -> -1 .. MaxPosts] /\ joined \in [RoomUser -> BOOLEAN]
  /\ curr_msg \in [RoomUser -> -1 .. MaxPosts]
  /\ message \in [RoomUser -> [number : Number, id : 0 .. MaxPosts]]
  /\ posted \in Number
  /\ passed \in [RoomUser -> SUBSET (1 .. MaxPosts)]
  /\ lost \in [RoomUser -> BOOLEAN] /\ stray \in BOOLEAN

\* The files are those from tail to head, whatever expires, however often the room is
\* resized and whenever bbs100 is restarted.
Whole ==
  ~stray => {n \in Number : file[n] # None} = IF head_msg > 0 THEN tail_msg .. head_msg ELSE {}

\* Two more messages than max_msgs may be in the room, and never more: a post expires
\* at most one, and a resize all that are too many.  But a resize that nobody saved is
\* undone by a restart, and the messages of the larger room stay: the bound is then that
\* of the largest limit there was since the last resize.
Sized == ~stray => head_msg - tail_msg <= most + 1

\* A message that a user did not read nor go past is ahead of the user: [Space] comes to
\* it.  After the room was cleaned out that holds for who joined it anew, as the warning
\* in state_remove_all_posts says; but never for a message with the number 0.
NewIsOffered ==
  \A u \in RoomUser, n \in Number \ {0} :
    /\ at[u] # "offline" /\ ~lost[u]
    /\ n \in tail_msg .. head_msg /\ file[n] # None /\ file[n] \notin passed[u]
    => NewMsgs(last_read[u]) \in 0 .. n

\* [Space] goes past no message, whatever was posted and expired since the last one, for
\* who begins to read or has the message that he is at.  (Who walked back in an empty
\* room has none, and when only one message is left readMsg may go there unread.)
AtMessage(u) == message[u].id # None /\ message[u].number = curr_msg[u]
NothingSkipped ==
  [][\A u \in RoomUser : Space(u) /\ (curr_msg[u] < 0 \/ AtMessage(u)) =>
       \A n \in last_read[u] + 1 .. last_read'[u] - 1 : n >= tail_msg => file[n] = None]_roomVars

\* Who is reading has a message: [(] takes it for granted.
ReadingHasMessage ==
  \A u \in RoomUser : curr_msg[u] >= 0 /\ head_msg > 0 => message[u].id # None

=============================================================================
