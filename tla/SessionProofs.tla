--------------------------- MODULE SessionProofs ---------------------------
(* What holds of every session, for any number of slots, accounts and guests. *)
EXTENDS SessionCalm, TLAPS, FiniteSetTheorems, SequenceTheorems

NameOrNone == Name \cup {NoName}

(***************************************************************************)
(* Types.                                                                  *)
(***************************************************************************)
\* Dropping the first k elements of a sequence leaves a sequence.
LEMMA DropType ==
  ASSUME NEW S, NEW q \in Seq(S), NEW k \in Nat
  PROVE  SubSeq(q, k + 1, Len(q)) \in Seq(S)
<1>1. \A i \in k + 1 .. Len(q) : q[i] \in S
  BY ElementOfSeq, Z3
<1> QED
  BY <1>1, SubSeqProperties, Z3

\* close_connection keeps the types.
LEMMA LogoutType ==
  ASSUME TypeOK, NEW C \in SUBSET Slot, NEW nm \in [Slot -> NameOrNone],
         sock' \in [Slot -> BOOLEAN], Logout(C, nm)
  PROVE  /\ conn' \in [Slot -> {"free", "established"} \cup Closing]
         /\ output' \in [Slot -> BOOLEAN]
         /\ name' \in [Slot -> NameOrNone]
         /\ inside' \subseteq Slot
         /\ hash' \in [Name -> Seq(Slot)]
<1>1. \A n \in Name : Cardinality({s \in C : nm[s] = n}) \in Nat
  BY SlotAssumption, FS_Subset, FS_CardinalityType
<1>2. \A n \in Name :
        SubSeq(hash[n], Cardinality({s \in C : nm[s] = n}) + 1, Len(hash[n])) \in Seq(Slot)
  BY <1>1, DropType DEF TypeOK
<1>3. hash' \in [Name -> Seq(Slot)]
  BY <1>2 DEF Logout
<1> QED
  BY <1>3 DEF Logout, TypeOK, Closing, NameOrNone

\* What is on disk keeps its type, whichever of the saves fail.
LEMMA SavesType ==
  ASSUME NEW C, NEW nm, NEW d \in Saves(C, nm)
  PROVE  d \in [Account -> Content]
BY DEF Saves

\* Who is_online() finds is a session.
LEMMA OldType ==
  ASSUME TypeOK, NEW n \in Name
  PROVE  Old(n) \in SUBSET Slot
BY HeadTailProperties DEF Old, TypeOK

\* The shapes most actions are made of keep the types.
LEMMA QuitType ==
  ASSUME TypeOK, NEW s \in Slot, Quit(s),
         timer' \in [Slot -> {"none", "login", "logout"} \cup Idle]
  PROVE  TypeOK'
<1>1. sock' \in [Slot -> BOOLEAN]
  BY DEF Quit, TypeOK
<1>2. name \in [Slot -> NameOrNone] /\ {s} \in SUBSET Slot
  BY DEF TypeOK, NameOrNone
<1>3. Logout({s}, name) /\ disk' \in Saves({s}, name)
  BY DEF Quit, Close
<1> QED
  BY <1>1, <1>2, <1>3, LogoutType, SavesType DEF Quit, TypeOK, NameOrNone

\* A key restarts the idle timer, or leaves the login timer.
LEMMA InputType ==
  ASSUME TypeOK, NEW s \in Slot, NEW f, Input(s, f) \/ StartIdle(s)
  PROVE  timer' \in [Slot -> {"none", "login", "logout"} \cup Idle]
BY DEF TypeOK, Input, StartIdle, Idle

\* So does the login prompt.
LEMMA LoginPromptType ==
  ASSUME TypeOK, NEW s \in Slot, NEW nm \in [Slot -> NameOrNone],
         LoginPrompt(s, nm),
         timer' \in [Slot -> {"none", "login", "logout"} \cup Idle],
         loaded' \in [Slot -> {"none", "part", "full"}]
  PROVE  TypeOK'
<1>1. CASE tries[s] = MaxAttempts /\ Close({s}, [nm EXCEPT ![s] = NoName])
           /\ UNCHANGED <<state, tmp, tries>>
  <2> DEFINE nn == [nm EXCEPT ![s] = NoName]
  <2>1. nn \in [Slot -> NameOrNone] /\ {s} \in SUBSET Slot
    BY DEF NameOrNone
  <2>2. Logout({s}, nn) /\ disk' \in Saves({s}, nn)
    BY <1>1 DEF Close
  <2>3. sock' \in [Slot -> BOOLEAN] /\ down' = down
    BY DEF LoginPrompt, TypeOK
  <2> HIDE DEF nn
  <2> QED
    BY <1>1, <2>1, <2>2, <2>3, LogoutType, SavesType DEF TypeOK, NameOrNone
<1>2. CASE ~(tries[s] = MaxAttempts)
  <2>1. /\ tries[s] < MaxAttempts /\ tries' = [tries EXCEPT ![s] = @ + 1]
        /\ tmp' = [tmp EXCEPT ![s] = NoName] /\ Go(s, "login") /\ name' = nm
        /\ UNCHANGED <<sock, down, conn, output, inside, hash, disk>>
    BY <1>2 DEF LoginPrompt
  <2>2. tries' \in [Slot -> 0 .. MaxAttempts]
    BY <2>1, AttemptsAssumption DEF TypeOK
  <2>3. tmp' \in [Slot -> Account \cup {NoName}] /\ state' \in [Slot -> StateFn]
    BY <2>1 DEF TypeOK, Go, StateFn
  <2> QED
    BY <2>1, <2>2, <2>3 DEF TypeOK, NameOrNone
<1>3. CASE tries[s] = MaxAttempts
  <2>1. ~(tries[s] < MaxAttempts)
    BY <1>3, AttemptsAssumption
  <2> QED
    BY <1>1, <1>3, <2>1 DEF LoginPrompt
<1> QED
  BY <1>2, <1>3

\* Handlers of the login keep the types.
LEMMA LoginStepType ==
  ASSUME TypeOK, Prompted, NEW s \in Slot, LoginStep(s)
  PROVE  TypeOK'
<1>1. CASE LoginQuit(s)
  BY <1>1, QuitType, InputType DEF LoginQuit
<1>2. CASE LoginNew(s)
  <2>1. CASE Quit(s)
    BY <1>2, <2>1, QuitType, InputType DEF LoginNew
  <2> QED
    BY <1>2, <2>1, InputType DEF LoginNew, TypeOK, Go, Moving, who, StateFn
<1>3. CASE LoginGuest(s)
  <2>1. CASE Quit(s)
    BY <1>3, <2>1, QuitType, InputType DEF LoginGuest
  <2>2. CASE ~Quit(s)
    <3>1. PICK i \in DOMAIN Guest :
            /\ name' = [name EXCEPT ![s] = Guest[i]]
            /\ loaded' = [loaded EXCEPT ![s] = "full"]
            /\ Go(s, "ansi") /\ Moving
            /\ UNCHANGED <<tmp, inside, hash, disk>>
      BY <1>3, <2>2 DEF LoginGuest
    <3>2. Guest[i] \in Name
      BY DEF Name, GuestName
    <3> QED
      BY <1>3, <3>1, <3>2, InputType DEF LoginGuest, TypeOK, Go, Moving, StateFn
  <2> QED
    BY <2>1, <2>2
<1>4. ASSUME NEW n \in Account, LoginUnknown(s, n) PROVE TypeOK'
  <2>1. CASE LoginPrompt(s, name) /\ UNCHANGED loaded
    BY <1>4, <2>1, LoginPromptType, InputType DEF LoginUnknown, TypeOK, NameOrNone
  <2> QED
    BY <1>4, <2>1, InputType DEF LoginUnknown, TypeOK, Go, Moving, who, StateFn
<1>5. ASSUME NEW n \in Account, LoginKnown(s, n) PROVE TypeOK'
  BY <1>5, InputType DEF LoginKnown, TypeOK, Go, Moving, StateFn
<1>6. ASSUME NEW n \in Account, LoginLoadFails(s, n) PROVE TypeOK'
  <2>1. PICK m \in {n, NoName} : LoginPrompt(s, [name EXCEPT ![s] = m])
    BY <1>6 DEF LoginLoadFails
  <2>2. [name EXCEPT ![s] = m] \in [Slot -> NameOrNone]
    BY <1>6 DEF TypeOK, NameOrNone, Name
  <2>3. loaded' \in [Slot -> {"none", "part", "full"}]
    BY <1>6 DEF LoginLoadFails, TypeOK
  <2> QED
    BY <1>6, <2>1, <2>2, <2>3, LoginPromptType, InputType DEF LoginLoadFails
<1>7. CASE PasswordQuit(s)
  BY <1>7, QuitType, InputType DEF PasswordQuit
<1>8. CASE PasswordWrong(s) \/ YesNoNo(s) \/ NewNameEmpty(s)
  BY <1>8, LoginPromptType, InputType
     DEF PasswordWrong, YesNoNo, NewNameEmpty, TypeOK, NameOrNone
<1>9. CASE PasswordLoadFails(s)
  <2>1. PICK m \in {tmp[s], NoName} : Close({s}, [name EXCEPT ![s] = m])
    BY <1>9 DEF PasswordLoadFails
  <2> DEFINE nn == [name EXCEPT ![s] = m]
  <2>2. nn \in [Slot -> NameOrNone] /\ {s} \in SUBSET Slot
    BY <1>9 DEF TypeOK, NameOrNone, Name
  <2>3. Logout({s}, nn) /\ disk' \in Saves({s}, nn)
    BY <2>1 DEF Close
  <2>4. sock' \in [Slot -> BOOLEAN] /\ UNCHANGED <<state, tmp, tries, loaded, down>>
    BY <1>9 DEF PasswordLoadFails, TypeOK
  <2> HIDE DEF nn
  <2> QED
    BY <1>9, <2>2, <2>3, <2>4, LogoutType, SavesType, InputType
       DEF PasswordLoadFails, TypeOK, NameOrNone
<1>10. CASE PasswordRight(s)
  <2> DEFINE nn == [name EXCEPT ![s] = tmp[s]]
  <2>1. tmp[s] \in Account
    BY <1>10 DEF Prompted, PasswordRight, Serves
  <2>2. nn \in [Slot -> NameOrNone] /\ Old(tmp[s]) \in SUBSET Slot
    BY <2>1, OldType DEF TypeOK, NameOrNone, Name
  <2>3. Logout(Old(tmp[s]), nn) /\ disk' \in Saves(Old(tmp[s]), nn)
    BY <1>10 DEF PasswordRight, Close
  <2>4. sock' \in [Slot -> BOOLEAN] /\ UNCHANGED <<tmp, tries, down>>
    BY <1>10 DEF PasswordRight, TypeOK
  <2> HIDE DEF nn
  <2> QED
    BY <1>10, <2>2, <2>3, <2>4, LogoutType, SavesType, InputType
       DEF PasswordRight, TypeOK, NameOrNone, Go, StateFn
<1>11. CASE YesNoYes(s)
  <2>1. CASE Quit(s)
    BY <1>11, <2>1, QuitType, InputType DEF YesNoYes
  <2> QED
    BY <1>11, <2>1, InputType
       DEF YesNoYes, Named, TypeOK, Prompted, Input, Serves, Go, Moving, who, StateFn
<1>12. ASSUME NEW n \in Account, NewName(s, n) PROVE TypeOK'
  <2>1. CASE Quit(s)
    BY <1>12, <2>1, QuitType, InputType DEF NewName
  <2> QED
    BY <1>12, <2>1, InputType DEF NewName, Named, TypeOK, Go, Moving, who, StateFn
<1>13. CASE NewNameBreak(s) \/ NewAgainBreak(s)
  BY <1>13, QuitType, InputType DEF NewNameBreak, NewAgainBreak
<1>14. CASE NewPassword(s) \/ NewAgainWrong(s)
  <2>1. CASE LoginPrompt(s, name) /\ UNCHANGED loaded
    BY <1>14, <2>1, LoginPromptType, InputType
       DEF NewPassword, NewAgainWrong, TypeOK, NameOrNone
  <2> QED
    BY <1>14, <2>1, InputType
       DEF NewPassword, NewAgainWrong, TypeOK, Go, Moving, who, StateFn
<1>15. CASE NewAgainRight(s)
  BY <1>15, InputType
     DEF NewAgainRight, TypeOK, Go, Moving, StateFn, Name, Content
<1>16. CASE Ansi(s) \/ DisplayMotd(s)
  BY <1>16, InputType DEF Ansi, DisplayMotd, TypeOK, Go, Moving, who, StateFn
<1>17. CASE GoOnline(s)
  <2>1. \A n \in Name : Append(hash[n], s) \in Seq(Slot)
    BY AppendProperties DEF TypeOK
  <2>2. hash' \in [Name -> Seq(Slot)]
    BY <1>17, <2>1 DEF GoOnline, TypeOK
  <2> QED
    BY <1>17, <2>2, InputType DEF GoOnline, TypeOK, Go, Moving, StateFn, InGame
<1> QED
  BY <1>1, <1>2, <1>3, <1>4, <1>5, <1>6, <1>7, <1>8, <1>9, <1>10, <1>11, <1>12,
     <1>13, <1>14, <1>15, <1>16, <1>17 DEF LoginStep

\* Handlers of the game keep the types.
LEMMA OnlineStepType ==
  ASSUME TypeOK, Prompted, NEW s \in Slot, OnlineStep(s)
  PROVE  TypeOK'
<1>1. CASE Play(s)
  BY <1>1, InputType DEF Play, TypeOK, Go, Moving, who, StateFn
<1>2. CASE LogoutYes(s)
  BY <1>2, QuitType, InputType DEF LogoutYes
<1>3. ASSUME NEW n \in Name, Disconnect(s, n) PROVE TypeOK'
  <2>1. Head(hash[n]) \in Slot
    BY <1>3, HeadTailProperties DEF Disconnect, TypeOK
  <2> QED
    BY <1>3, <2>1, QuitType, InputType DEF Disconnect
<1>4. ASSUME NEW n \in Account, Nuke(s, n) PROVE TypeOK'
  <2>1. Old(n) \in SUBSET Slot /\ name \in [Slot -> NameOrNone]
    BY OldType DEF TypeOK, NameOrNone, Name
  <2>2. PICK d \in Saves(Old(n), name) : disk' \in {d, [d EXCEPT ![n] = "none"]}
    BY <1>4 DEF Nuke
  <2>3. disk' \in [Account -> Content]
    BY <2>2, SavesType DEF Content
  <2>4. sock' \in [Slot -> BOOLEAN] /\ Logout(Old(n), name)
    BY <1>4 DEF Nuke, TypeOK
  <2> QED
    BY <1>4, <2>1, <2>3, <2>4, LogoutType, InputType DEF Nuke, TypeOK, NameOrNone
<1>5. CASE CancelReboot(s)
  BY <1>5, InputType DEF CancelReboot, TypeOK, who
<1> QED
  BY <1>1, <1>2, <1>3, <1>4, <1>5 DEF OnlineStep

\* destroy_Conn and destroy_User keep the types.
LEMMA DestroyType ==
  ASSUME TypeOK, NEW s \in Slot, Destroy(s)
  PROVE  TypeOK'
<1>1. \A n \in Name : hash[n] # << >> => Tail(hash[n]) \in Seq(Slot)
  BY HeadTailProperties DEF TypeOK
<1>2. hash' \in [Name -> Seq(Slot)]
  BY <1>1 DEF Destroy, TypeOK
<1> QED
  BY <1>2, AttemptsAssumption DEF Destroy, TypeOK, Go, StateFn

\* What ends a session keeps the types.
LEMMA EndStepType ==
  ASSUME TypeOK, NEW s \in Slot, EndStep(s)
  PROVE  TypeOK'
<1>1. CASE LoginTimeout(s)
  BY <1>1, QuitType DEF LoginTimeout, TypeOK
<1>2. CASE IdleTimeout(s)
  <2>1. timer' \in [Slot -> {"none", "login", "logout"} \cup Idle]
    BY <1>2 DEF IdleTimeout, TypeOK, Idle
  <2>2. CASE Quit(s)
    BY <2>1, <2>2, QuitType
  <2> QED
    BY <1>2, <2>1, <2>2 DEF IdleTimeout, TypeOK, who
<1>3. CASE Linkdead(s)
  <2>1. sock' \in [Slot -> BOOLEAN]
    BY <1>3 DEF Linkdead, TypeOK
  <2>2. CASE name[s] # NoName
    <3>1. Logout({s}, name) /\ disk' \in Saves({s}, name)
      BY <1>3, <2>2 DEF Linkdead, Close
    <3>2. name \in [Slot -> NameOrNone] /\ {s} \in SUBSET Slot
      BY DEF TypeOK, NameOrNone
    <3> QED
      BY <1>3, <2>1, <3>1, <3>2, LogoutType, SavesType
         DEF Linkdead, TypeOK, NameOrNone
  <2> QED
    BY <1>3, <2>1, <2>2 DEF Linkdead, TypeOK
<1>4. CASE WaitClose(s)
  BY <1>4 DEF WaitClose, TypeOK, Closing, who
<1>5. CASE CloseLogout(s) \/ Flush(s)
  BY <1>5 DEF CloseLogout, Flush, TypeOK, Closing, who
<1>6. CASE CloseSocket(s) \/ Reap(s)
  BY <1>6, DestroyType DEF CloseSocket, Reap
<1> QED
  BY <1>1, <1>2, <1>3, <1>4, <1>5, <1>6 DEF EndStep

\* Accepting a connection, saving, and the reboot keep the types.
LEMMA OtherStepType ==
  ASSUME TypeOK,
         \/ \E s \in Slot : Accept(s) \/ SaveTimeout(s)
         \/ LastSeconds \/ LogOffAll \/ Exit
  PROVE  TypeOK'
<1>1. ASSUME NEW s \in Slot, Accept(s) PROVE TypeOK'
  BY <1>1, AttemptsAssumption DEF Accept, TypeOK, Go, StateFn, who
<1>2. ASSUME NEW s \in Slot, SaveTimeout(s) PROVE TypeOK'
  BY <1>2, SavesType DEF SaveTimeout, TypeOK
<1>3. CASE LastSeconds \/ Exit
  BY <1>3 DEF LastSeconds, Exit, TypeOK, who
<1>4. CASE LogOffAll
  <2>1. CASE Close(Users, name)
    <3>1. Logout(Users, name) /\ disk' \in Saves(Users, name)
      BY <2>1 DEF Close
    <3>2. name \in [Slot -> NameOrNone] /\ Users \in SUBSET Slot
      BY DEF TypeOK, NameOrNone, Users
    <3>3. sock' \in [Slot -> BOOLEAN]
      BY <1>4 DEF LogOffAll, TypeOK
    <3> QED
      BY <1>4, <3>1, <3>2, <3>3, LogoutType, SavesType
         DEF LogOffAll, TypeOK, NameOrNone
  <2> QED
    BY <1>4, <2>1 DEF LogOffAll, TypeOK
<1> QED
  BY <1>1, <1>2, <1>3, <1>4

\* The types hold initially.
LEMMA InitType == Init => TypeOK
<1> SUFFICES ASSUME Init PROVE TypeOK
  OBVIOUS
<1>1. << >> \in Seq(Slot)
  BY EmptySeq
<1>2. disk \in [Account -> Content]
  BY DEF Init, Content
<1> QED
  BY <1>1, <1>2, AttemptsAssumption DEF Init, TypeOK, StateFn

(***************************************************************************)
(* Logged out before freed.                                                *)
(***************************************************************************)
Tidy == Prompted /\ LoggedOutBeforeFreed

\* Closing slots leaves everything tidy.
LEMMA LogoutTidy ==
  ASSUME TypeOK, Tidy, NEW C \in SUBSET Slot, Logout(C, name),
         \A t \in Slot : t \in C \/ sock'[t] = sock[t]
  PROVE  /\ LoggedOutBeforeFreed'
         /\ inside' = inside \ C
         /\ \A t \in Slot : name'[t] = IF t \in C THEN NoName ELSE name[t]
         /\ \A t \in Slot : conn'[t] = IF t \in C THEN "wait_close" ELSE conn[t]
BY DEF Tidy, LoggedOutBeforeFreed, Prompted, Logout, TypeOK

\* A handler that ends a session leaves everything tidy.
LEMMA QuitTidy ==
  ASSUME TypeOK, Tidy, NEW s \in Slot, Quit(s)
  PROVE  Tidy'
<1>1. Logout({s}, name)
  BY DEF Quit, Close
<1>2. /\ LoggedOutBeforeFreed' /\ inside' = inside \ {s}
      /\ \A t \in Slot : name'[t] = IF t = s THEN NoName ELSE name[t]
      /\ \A t \in Slot : conn'[t] = IF t = s THEN "wait_close" ELSE conn[t]
  <2>1. \A t \in Slot : t \in {s} \/ sock'[t] = sock[t]
    BY DEF Quit
  <2>2. {s} \in SUBSET Slot
    OBVIOUS
  <2> QED
    BY <1>1, <2>1, <2>2, LogoutTidy
<1> QED
  BY <1>2 DEF Quit, Tidy, Prompted, TypeOK

\* So does the login prompt, whatever name it is called with.
LEMMA LoginPromptTidy ==
  ASSUME TypeOK, Tidy, NEW s \in Slot, NEW m \in NameOrNone, NEW nm,
         nm = [name EXCEPT ![s] = m],
         conn[s] = "established", sock[s], s \notin inside,
         state[s] # "password" \/ m = NoName,
         LoginPrompt(s, nm)
  PROVE  Tidy'
<1>1. CASE Close({s}, [nm EXCEPT ![s] = NoName]) /\ UNCHANGED <<state, tmp, tries>>
  <2>1. [nm EXCEPT ![s] = NoName] = [name EXCEPT ![s] = NoName]
    BY DEF TypeOK
  <2>2. /\ conn' = [t \in Slot |-> IF t = s THEN "wait_close" ELSE conn[t]]
        /\ name' = [t \in Slot |-> IF t = s THEN NoName ELSE name[t]]
        /\ inside' = inside \ {s} /\ sock' = sock
    BY <1>1, <2>1 DEF Close, Logout, LoginPrompt, TypeOK
  <2>3. LoggedOutBeforeFreed'
    BY <2>2 DEF Tidy, LoggedOutBeforeFreed
  <2>4. Prompted'
    BY <1>1, <2>2 DEF Tidy, Prompted, Pending, InGame
  <2> QED
    BY <2>3, <2>4 DEF Tidy
<1>2. CASE /\ tmp' = [tmp EXCEPT ![s] = NoName] /\ Go(s, "login") /\ name' = nm
           /\ UNCHANGED <<sock, conn, inside>>
  BY <1>2 DEF Tidy, Prompted, LoggedOutBeforeFreed, TypeOK, Go, InGame, Pending
<1> QED
  BY <1>1, <1>2 DEF LoginPrompt

\* A step that leaves connections, names and rooms alone.
LEMMA MovingTidy ==
  ASSUME TypeOK, Tidy, NEW s \in Slot, NEW f, Go(s, f), Moving,
         UNCHANGED <<name, inside>>, conn[s] = "established",
         s \in inside => f \in InGame,
         f \in Pending \cup InGame => name[s] # NoName,
         f \in {"yesno", "newpass", "newagain"} => tmp'[s] \in Account,
         f # "password", \A t \in Slot : t # s => tmp'[t] = tmp[t]
  PROVE  Tidy'
BY DEF Go, Moving, Tidy, Prompted, LoggedOutBeforeFreed, TypeOK

\* A session that is still logging in is in no room.
LEMMA NotInside ==
  ASSUME Tidy, NEW s \in Slot, state[s] \notin InGame
  PROVE  s \notin inside
BY DEF Tidy, Prompted

\* Handlers of the login leave everything tidy.
LEMMA LoginStepTidy ==
  ASSUME TypeOK, Tidy, NEW s \in Slot, LoginStep(s)
  PROVE  Tidy'
<1>1. conn[s] = "established" /\ sock[s] /\ s \notin inside
  BY NotInside
     DEF LoginStep, LoginQuit, LoginNew, LoginGuest, LoginUnknown, LoginKnown,
         LoginLoadFails, PasswordQuit, PasswordWrong, PasswordLoadFails,
         PasswordRight, YesNoNo, YesNoYes, NewName, NewNameEmpty, NewNameBreak,
         NewPassword, NewAgainBreak, NewAgainWrong, NewAgainRight, Ansi,
         DisplayMotd, GoOnline, Input, Serves, InGame
<1>2. CASE Quit(s)
  BY <1>2, QuitTidy
<1>3. ASSUME LoginPrompt(s, name), state[s] # "password" \/ name[s] = NoName
      PROVE  Tidy'
  <2>1. name = [name EXCEPT ![s] = name[s]] /\ name[s] \in NameOrNone
    BY DEF TypeOK, NameOrNone
  <2> QED
    BY <1>1, <1>3, <2>1, LoginPromptTidy
<1>4. CASE LoginQuit(s) \/ LoginNew(s)
  <2>1. CASE ~Quit(s)
    BY <1>1, <1>4, <2>1, MovingTidy
       DEF LoginQuit, LoginNew, who, TypeOK, Pending, InGame
  <2> QED
    BY <1>2, <2>1
<1>5. CASE LoginGuest(s)
  <2>1. CASE ~Quit(s)
    <3>1. PICK i \in DOMAIN Guest :
            /\ name' = [name EXCEPT ![s] = Guest[i]]
            /\ Go(s, "ansi") /\ Moving
            /\ UNCHANGED <<tmp, inside>>
      BY <1>5, <2>1 DEF LoginGuest
    <3>2. Guest[i] # NoName
      BY NameAssumption DEF Name, GuestName
    <3> QED
      BY <1>1, <3>1, <3>2 DEF Go, Moving, Tidy, Prompted, LoggedOutBeforeFreed, TypeOK
  <2> QED
    BY <1>2, <2>1
<1>6. ASSUME NEW n \in Account, LoginUnknown(s, n) PROVE Tidy'
  <2>1. CASE LoginPrompt(s, name)
    BY <1>3, <1>6, <2>1 DEF LoginUnknown, Input, Serves
  <2> QED
    BY <1>1, <1>6, <2>1, MovingTidy
       DEF LoginUnknown, who, TypeOK, Pending, InGame
<1>7. ASSUME NEW n \in Account, LoginKnown(s, n) PROVE Tidy'
  BY <1>1, <1>7
     DEF LoginKnown, Go, Moving, Tidy, Prompted, LoggedOutBeforeFreed, TypeOK,
         Pending, InGame
<1>8. ASSUME NEW n \in Account, LoginLoadFails(s, n) PROVE Tidy'
  <2>1. PICK m \in {n, NoName} : LoginPrompt(s, [name EXCEPT ![s] = m])
    BY <1>8 DEF LoginLoadFails
  <2>2. m \in NameOrNone /\ state[s] # "password"
    BY <1>8 DEF LoginLoadFails, Input, Serves, NameOrNone, Name
  <2> QED
    BY <1>1, <2>1, <2>2, LoginPromptTidy
<1>9. CASE PasswordQuit(s) \/ NewNameBreak(s) \/ NewAgainBreak(s)
  BY <1>2, <1>9 DEF PasswordQuit, NewNameBreak, NewAgainBreak
<1>10. CASE PasswordWrong(s) \/ YesNoNo(s) \/ NewNameEmpty(s)
  BY <1>3, <1>10
     DEF PasswordWrong, YesNoNo, NewNameEmpty, Input, Serves, Tidy, Prompted
<1>11. CASE PasswordLoadFails(s)
  <2>1. PICK m \in {tmp[s], NoName} : Close({s}, [name EXCEPT ![s] = m])
    BY <1>11 DEF PasswordLoadFails
  <2>2. /\ conn' = [t \in Slot |-> IF t = s THEN "wait_close" ELSE conn[t]]
        /\ name' = [t \in Slot |-> IF t = s THEN NoName ELSE name[t]]
        /\ inside' = inside \ {s} /\ UNCHANGED <<sock, state, tmp>>
    BY <1>11, <2>1 DEF PasswordLoadFails, Close, Logout, TypeOK
  <2> QED
    BY <1>1, <2>2 DEF Tidy, LoggedOutBeforeFreed, Prompted
<1>12. CASE PasswordRight(s)
  <2> DEFINE C == Old(tmp[s])
  <2>1. tmp[s] \in Account
    BY <1>12 DEF PasswordRight, Serves, Tidy, Prompted
  <2>2. /\ conn' = [t \in Slot |-> IF t \in C THEN "wait_close" ELSE conn[t]]
        /\ name' = [t \in Slot |-> IF t \in C THEN NoName
                                   ELSE IF t = s THEN tmp[s] ELSE name[t]]
        /\ inside' = inside \ C /\ UNCHANGED <<sock, tmp>> /\ Go(s, "motd")
    BY <1>12 DEF PasswordRight, Close, Logout, TypeOK
  <2>3. tmp[s] # NoName
    BY <2>1, NameAssumption DEF Name
  <2> HIDE DEF C
  <2>4. LoggedOutBeforeFreed'
    BY <1>1, <2>2 DEF Tidy, LoggedOutBeforeFreed
  <2>5. Prompted'
    BY <1>1, <2>2, <2>3 DEF Tidy, Prompted, Go, TypeOK
  <2> QED
    BY <2>4, <2>5 DEF Tidy
<1>13. ASSUME NEW n \in Account, Named(s, n), state[s] # "password" PROVE Tidy'
  <2>1. CASE ~Quit(s)
    BY <1>1, <1>13, <2>1, MovingTidy
       DEF Named, who, TypeOK, Pending, InGame
  <2> QED
    BY <1>2, <2>1
<1>14. CASE YesNoYes(s)
  BY <1>13, <1>14 DEF YesNoYes, Input, Serves, Tidy, Prompted
<1>15. ASSUME NEW n \in Account, NewName(s, n) PROVE Tidy'
  BY <1>13, <1>15 DEF NewName, Input, Serves
<1>16. CASE NewPassword(s) \/ NewAgainWrong(s)
  <2>1. CASE LoginPrompt(s, name)
    BY <1>3, <1>16, <2>1 DEF NewPassword, NewAgainWrong, Input, Serves
  <2>2. tmp[s] \in Account
    BY <1>16 DEF NewPassword, NewAgainWrong, Input, Serves, Tidy, Prompted
  <2> QED
    BY <1>1, <1>16, <2>1, <2>2, MovingTidy
       DEF NewPassword, NewAgainWrong, who, Pending, InGame
<1>17. CASE NewAgainRight(s)
  <2>1. tmp[s] # NoName
    BY <1>17, NameAssumption DEF NewAgainRight, Input, Serves, Tidy, Prompted, Name
  <2> QED
    BY <1>1, <1>17, <2>1
       DEF NewAgainRight, Go, Moving, Tidy, Prompted, LoggedOutBeforeFreed, TypeOK
<1>18. CASE Ansi(s) \/ DisplayMotd(s)
  <2>1. name[s] # NoName
    BY <1>18 DEF Ansi, DisplayMotd, Serves, Tidy, Prompted, Pending
  <2> QED
    BY <1>1, <1>18, <2>1, MovingTidy DEF Ansi, DisplayMotd, who
<1>19. CASE GoOnline(s)
  <2>1. name[s] # NoName
    BY <1>19 DEF GoOnline, Input, Serves, Tidy, Prompted, Pending
  <2> QED
    BY <1>1, <1>19, <2>1
     DEF GoOnline, Go, Moving, Tidy, Prompted, LoggedOutBeforeFreed, TypeOK, InGame
<1> QED
  BY <1>4, <1>5, <1>6, <1>7, <1>8, <1>9, <1>10, <1>11, <1>12, <1>14, <1>15, <1>16,
     <1>17, <1>18, <1>19 DEF LoginStep

\* Handlers of the game leave everything tidy.
LEMMA OnlineStepTidy ==
  ASSUME TypeOK, Tidy, NEW s \in Slot, OnlineStep(s)
  PROVE  Tidy'
<1>1. CASE Play(s)
  BY <1>1 DEF Play, Go, Moving, who, Tidy, Prompted, LoggedOutBeforeFreed, TypeOK,
              Input, Serves, InGame, Pending
<1>2. CASE LogoutYes(s)
  BY <1>2, QuitTidy DEF LogoutYes
<1>3. ASSUME NEW n \in Name, Disconnect(s, n) PROVE Tidy'
  <2>1. Head(hash[n]) \in Slot
    BY <1>3, HeadTailProperties DEF Disconnect, TypeOK
  <2> QED
    BY <1>3, <2>1, QuitTidy DEF Disconnect
<1>4. ASSUME NEW n \in Account, Nuke(s, n) PROVE Tidy'
  <2>1. Old(n) \in SUBSET Slot
    BY OldType DEF Name
  <2>2. Logout(Old(n), name) /\ UNCHANGED <<sock, state, tmp>>
    BY <1>4 DEF Nuke
  <2>3. /\ LoggedOutBeforeFreed' /\ inside' = inside \ Old(n)
        /\ \A t \in Slot : /\ name'[t] = IF t \in Old(n) THEN NoName ELSE name[t]
                           /\ conn'[t] = IF t \in Old(n) THEN "wait_close" ELSE conn[t]
    BY <2>1, <2>2, LogoutTidy
  <2> QED
    BY <2>2, <2>3 DEF Tidy, Prompted
<1>5. CASE CancelReboot(s)
  BY <1>5 DEF CancelReboot, who, Tidy, Prompted, LoggedOutBeforeFreed
<1> QED
  BY <1>1, <1>2, <1>3, <1>4, <1>5 DEF OnlineStep

\* What ends a session leaves everything tidy.
LEMMA EndStepTidy ==
  ASSUME TypeOK, Tidy, LogoutTimerLast, NEW s \in Slot, EndStep(s)
  PROVE  Tidy'
<1>1. CASE Quit(s)
  BY <1>1, QuitTidy
<1>2. CASE LoginTimeout(s) \/ IdleTimeout(s)
  <2>1. CASE ~Quit(s)
    BY <1>2, <2>1
       DEF LoginTimeout, IdleTimeout, who, Tidy, Prompted, LoggedOutBeforeFreed
  <2> QED
    BY <1>1, <2>1
<1>3. CASE Linkdead(s)
  <2>1. CASE name[s] # NoName
    <3>1. {s} \in SUBSET Slot /\ Logout({s}, name) /\ UNCHANGED <<state, tmp>>
          /\ \A t \in Slot : t \in {s} \/ sock'[t] = sock[t]
      BY <1>3, <2>1 DEF Linkdead, Close, TypeOK
    <3>2. /\ LoggedOutBeforeFreed' /\ inside' = inside \ {s}
          /\ \A t \in Slot : /\ name'[t] = IF t = s THEN NoName ELSE name[t]
                             /\ conn'[t] = IF t = s THEN "wait_close" ELSE conn[t]
      BY <3>1, LogoutTidy
    <3> QED
      BY <3>1, <3>2 DEF Tidy, Prompted
  <2>2. CASE name[s] = NoName
    BY <1>3, <2>2 DEF Linkdead, Tidy, Prompted, LoggedOutBeforeFreed, TypeOK
  <2> QED
    BY <2>1, <2>2
<1>4. CASE WaitClose(s) \/ CloseLogout(s) \/ Flush(s)
  BY <1>4 DEF WaitClose, CloseLogout, Flush, who, Tidy, Prompted,
              LoggedOutBeforeFreed, LogoutTimerLast, TypeOK, Pending
<1>5. CASE CloseSocket(s) \/ Reap(s)
  <2>1. Destroy(s) /\ (conn[s] # "established" \/ ~sock[s])
    BY <1>5 DEF CloseSocket, Reap
  <2>2. s \notin inside
    BY <2>1 DEF Tidy, LoggedOutBeforeFreed
  <2> QED
    BY <2>1, <2>2 DEF Destroy, Go, Tidy, Prompted, LoggedOutBeforeFreed, TypeOK,
                      InGame, Pending
<1> QED
  BY <1>2, <1>3, <1>4, <1>5 DEF EndStep

\* Accepting a connection, saving, and the reboot leave everything tidy.
LEMMA OtherStepTidy ==
  ASSUME TypeOK, Tidy,
         \/ \E s \in Slot : Accept(s) \/ SaveTimeout(s)
         \/ LastSeconds \/ LogOffAll \/ Exit
  PROVE  Tidy'
<1>1. ASSUME NEW s \in Slot, Accept(s) PROVE Tidy'
  <2>1. name[s] = NoName /\ s \notin inside
    BY <1>1 DEF Accept, Tidy, LoggedOutBeforeFreed
  <2> QED
    BY <1>1, <2>1 DEF Accept, Go, who, Tidy, Prompted, LoggedOutBeforeFreed, TypeOK,
                      InGame, Pending
<1>2. CASE (\E s \in Slot : SaveTimeout(s)) \/ LastSeconds \/ Exit
  <2>1. UNCHANGED <<conn, sock, state, name, tmp, inside>>
    BY <1>2 DEF SaveTimeout, LastSeconds, Exit, who
  <2> QED
    BY <2>1 DEF Tidy, Prompted, LoggedOutBeforeFreed
<1>3. CASE LogOffAll
  <2>1. CASE Close(Users, name)
    <3>1. Users \in SUBSET Slot /\ Logout(Users, name) /\ UNCHANGED <<sock, state, tmp>>
      BY <1>3, <2>1 DEF LogOffAll, Close, Users
    <3>2. /\ LoggedOutBeforeFreed' /\ inside' = inside \ Users
          /\ \A t \in Slot : /\ name'[t] = IF t \in Users THEN NoName ELSE name[t]
                             /\ conn'[t] = IF t \in Users THEN "wait_close" ELSE conn[t]
      BY <3>1, LogoutTidy
    <3> HIDE DEF Users
    <3> QED
      BY <3>1, <3>2 DEF Tidy, Prompted
  <2> QED
    BY <1>3, <2>1 DEF LogOffAll, Tidy, Prompted, LoggedOutBeforeFreed
<1> QED
  BY <1>1, <1>2, <1>3

(***************************************************************************)
(* The logout timer.                                                       *)
(***************************************************************************)
\* Every step leaves the connections alone, closes some, or closes or frees one,
\* unless it accepts one.
Shuts ==
  \/ conn' = conn
  \/ \E C, nm : Logout(C, nm)
  \/ \E s \in Slot, c \in Closing \cup {"free"} : conn' = [conn EXCEPT ![s] = c]

\* Every step does.
LEMMA ShutsOrAccepts ==
  ASSUME TypeOK, Next
  PROVE  Shuts \/ \E s \in Slot : Accept(s)
<1>1. ASSUME NEW s \in Slot, LoginStep(s) PROVE Shuts
  <2>1. Quit(s) \/ (\E nm : LoginPrompt(s, nm)) => Shuts
    BY DEF Quit, LoginPrompt, Close, Shuts
  <2> QED
    BY <1>1, <2>1
       DEF LoginStep, LoginQuit, LoginNew, LoginGuest, LoginUnknown, LoginKnown,
           LoginLoadFails, PasswordQuit, PasswordWrong, PasswordLoadFails,
           PasswordRight, YesNoNo, YesNoYes, NewName, NewNameEmpty, NewNameBreak,
           NewPassword, NewAgainBreak, NewAgainWrong, NewAgainRight, Ansi,
           DisplayMotd, GoOnline, Named, Moving, Close, Shuts
<1>2. ASSUME NEW s \in Slot, OnlineStep(s) PROVE Shuts
  BY <1>2 DEF OnlineStep, Play, LogoutYes, Disconnect, Nuke, CancelReboot, Quit,
              Moving, Close, Shuts
<1>3. ASSUME NEW s \in Slot, EndStep(s) PROVE Shuts
  BY <1>3 DEF EndStep, LoginTimeout, IdleTimeout, Linkdead, WaitClose, CloseLogout, Flush,
              CloseSocket, Reap, Destroy, Quit, Close, Closing, Shuts
<1>4. ASSUME \/ \E s \in Slot : SaveTimeout(s)
             \/ LastSeconds \/ LogOffAll \/ Exit
      PROVE  Shuts
  BY <1>4 DEF SaveTimeout, LastSeconds, LogOffAll, Exit, Close, Shuts
<1> QED
  BY <1>1, <1>2, <1>3, <1>4 DEF Next, Keystroke

\* Only accepting a connection makes it established.
LEMMA StaysEstablished ==
  ASSUME TypeOK, NEW t \in Slot, conn'[t] = "established", Shuts
  PROVE  conn[t] = "established"
BY DEF Shuts, Logout, TypeOK, Closing

\* WaitClose starts the logout timer for a connection that is being closed, and none
\* of these is established again.
LEMMA LogoutTimer ==
  ASSUME TypeOK, LogoutTimerLast, Next
  PROVE  LogoutTimerLast'
<1> DEFINE Kept == \A t \in Slot : timer'[t] = "logout" => timer[t] = "logout"
<1>1. ASSUME Kept, Shuts PROVE LogoutTimerLast'
  BY <1>1, StaysEstablished DEF LogoutTimerLast
<1>2. ASSUME NEW s \in Slot, NEW f, Input(s, f) \/ StartIdle(s) PROVE Kept
  BY <1>2 DEF Input, StartIdle, TypeOK
<1>3. ASSUME NEW s \in Slot, LoginStep(s) PROVE Kept
  BY <1>2, <1>3
     DEF LoginStep, LoginQuit, LoginNew, LoginGuest, LoginUnknown, LoginKnown,
         LoginLoadFails, PasswordQuit, PasswordWrong, PasswordLoadFails,
         PasswordRight, YesNoNo, YesNoYes, NewName, NewNameEmpty, NewNameBreak,
         NewPassword, NewAgainBreak, NewAgainWrong, NewAgainRight, Ansi,
         DisplayMotd, GoOnline
<1>4. ASSUME NEW s \in Slot, OnlineStep(s) PROVE Kept
  BY <1>2, <1>4 DEF OnlineStep, Play, LogoutYes, Disconnect, Nuke, CancelReboot
<1>5. ASSUME NEW s \in Slot, EndStep(s), ~WaitClose(s) PROVE Kept
  BY <1>5 DEF EndStep, LoginTimeout, IdleTimeout, Linkdead, CloseLogout, Flush,
              CloseSocket, Reap, Destroy, TypeOK
<1>6. ASSUME NEW s \in Slot, WaitClose(s) \/ Accept(s) PROVE LogoutTimerLast'
  BY <1>6 DEF WaitClose, Accept, LogoutTimerLast, TypeOK
<1>7. ASSUME (\E s \in Slot : SaveTimeout(s)) \/ LastSeconds \/ LogOffAll \/ Exit PROVE Kept
  BY <1>7 DEF SaveTimeout, LastSeconds, LogOffAll, Exit
<1> HIDE DEF Kept
<1>8. ASSUME ~(\E s \in Slot : Accept(s) \/ WaitClose(s)) PROVE Kept
  BY <1>3, <1>4, <1>5, <1>7, <1>8 DEF Next, Keystroke
<1> QED
  BY <1>1, <1>6, <1>8, ShutsOrAccepts

(***************************************************************************)
(* The inductive invariant and what it proves.                             *)
(***************************************************************************)
IInv == TypeOK /\ Tidy /\ LogoutTimerLast

\* The invariant holds initially.
LEMMA InitIInv == Init => IInv
<1> SUFFICES ASSUME Init PROVE Tidy /\ LogoutTimerLast
  BY InitType DEF IInv
<1> QED
  BY DEF Init, Tidy, Prompted, LoggedOutBeforeFreed, LogoutTimerLast, InGame, Pending

\* And every step preserves it.
LEMMA NextIInv == IInv /\ [Next]_vars => IInv'
<1> SUFFICES ASSUME TypeOK, Tidy, LogoutTimerLast, [Next]_vars
             PROVE  TypeOK' /\ Tidy' /\ LogoutTimerLast'
  BY DEF IInv
<1>1. Prompted
  BY DEF Tidy
<1>2. CASE UNCHANGED vars
  BY <1>2 DEF vars, TypeOK, Tidy, Prompted, LoggedOutBeforeFreed, LogoutTimerLast
<1>3. ASSUME NEW s \in Slot, LoginStep(s) PROVE TypeOK' /\ Tidy'
  BY <1>1, <1>3, LoginStepType, LoginStepTidy
<1>4. ASSUME NEW s \in Slot, OnlineStep(s) PROVE TypeOK' /\ Tidy'
  BY <1>1, <1>4, OnlineStepType, OnlineStepTidy
<1>5. ASSUME NEW s \in Slot, EndStep(s) PROVE TypeOK' /\ Tidy'
  BY <1>5, EndStepType, EndStepTidy
<1>6. ASSUME \/ \E s \in Slot : Accept(s) \/ SaveTimeout(s)
             \/ LastSeconds \/ LogOffAll \/ Exit
      PROVE  TypeOK' /\ Tidy'
  BY <1>6, OtherStepType, OtherStepTidy
<1>7. CASE Next
  <2>1. TypeOK' /\ Tidy'
    BY <1>3, <1>4, <1>5, <1>6, <1>7 DEF Next, Keystroke
  <2>2. LogoutTimerLast'
    BY <1>7, LogoutTimer
  <2> QED
    BY <2>1, <2>2
<1> QED
  BY <1>2, <1>7

\* Every variable keeps its type, whatever handlers run in whatever order.
THEOREM TypeCorrect == Spec => []TypeOK
<1>1. IInv => TypeOK
  BY DEF IInv
<1> QED
  BY <1>1, InitIInv, NextIInv, PTL DEF Spec

\* A session that is being closed, or whose socket is dead, has no name and is
\* on the inside list of no room: what destroy_User frees is not pointed at by
\* a room, however many sessions, accounts and guests there are.
THEOREM LoggedOut == Spec => []LoggedOutBeforeFreed
<1>1. IInv => LoggedOutBeforeFreed
  BY DEF IInv, Tidy
<1> QED
  BY <1>1, InitIInv, NextIInv, PTL DEF Spec

(***************************************************************************)
(* What follows from it: connections that are being closed.                *)
(***************************************************************************)
\* Once close_connection ran for a connection it never serves its user again, whatever
\* timers, reboots and dead links come after; the slot is freed first.
THEOREM ClosingStaysFinal == Spec => ClosingIsFinal
<1> DEFINE Final == \A s \in Slot : conn[s] \in Closing => conn'[s] \in Closing \cup {"free"}
<1>1. TypeOK /\ [Next]_vars => [Final]_vars
  <2> SUFFICES ASSUME TypeOK, Next PROVE Final
    OBVIOUS
  <2>1. CASE Shuts
    BY <2>1 DEF Shuts, Logout, TypeOK, Closing
  <2>2. ASSUME NEW s \in Slot, Accept(s) PROVE Final
    BY <2>2 DEF Accept, TypeOK, Closing
  <2> QED
    BY <2>1, <2>2, ShutsOrAccepts
<1> QED
  BY <1>1, TypeCorrect, PTL DEF Spec, ClosingIsFinal

(***************************************************************************)
(* Partial profiles.                                                       *)
(***************************************************************************)
\* Who has the name of an account that is not damaged has read all of its profile.
ReadWhole == \A s \in Slot : name[s] \notin Breakable \cup {NoName} => loaded[s] = "full"

\* And such a file is whole.
DiskWhole == \A n \in Account \ Breakable : disk[n] \in {"none", "whole"}

Whole == ReadWhole /\ DiskWhole

\* Saving sessions that have read all of it writes no part of a profile.
LEMMA SavesWhole ==
  ASSUME TypeOK, Whole, NEW C \in SUBSET Slot, NEW nm, NEW d \in Saves(C, nm),
         \A s \in C : nm[s] = name[s] \/ nm[s] = NoName \/ nm[s] \in Breakable
  PROVE  \A n \in Account \ Breakable : d[n] \in {"none", "whole"}
<1> SUFFICES ASSUME NEW n \in Account \ Breakable PROVE d[n] \in {"none", "whole"}
  OBVIOUS
<1>1. CASE d[n] = disk[n]
  BY <1>1 DEF Whole, DiskWhole
<1>2. ASSUME NEW s \in C, nm[s] = n, d[n] = Written(s) PROVE d[n] = "whole"
  <2>1. n # NoName
    BY NameAssumption DEF Name
  <2>2. name[s] = n
    BY <1>2, <2>1
  <2> QED
    BY <1>2, <2>1, <2>2 DEF Whole, ReadWhole, Written
<1> QED
  BY <1>1, <1>2 DEF Saves

\* Names are cleared by Logout, or are as they were.
LEMMA CloseWhole ==
  ASSUME TypeOK, Whole, NEW C \in SUBSET Slot, NEW nm, Logout(C, nm), disk' \in Saves(C, nm),
         \A s \in C : nm[s] = name[s] \/ nm[s] = NoName \/ nm[s] \in Breakable,
         \A s \in Slot \ C : nm[s] = name[s] /\ loaded'[s] = loaded[s]
  PROVE  Whole'
<1>1. DiskWhole'
  BY SavesWhole DEF DiskWhole
<1>2. ReadWhole'
  BY DEF Logout, Whole, ReadWhole
<1> QED
  BY <1>1, <1>2 DEF Whole

\* A handler that ends a session writes no part of a profile.
LEMMA QuitWhole ==
  ASSUME TypeOK, Whole, NEW s \in Slot, Quit(s)
  PROVE  Whole'
<1>1. Logout({s}, name) /\ disk' \in Saves({s}, name) /\ loaded' = loaded
  BY DEF Quit, Close
<1> QED
  BY <1>1, CloseWhole

\* The login prompt, with a name that is not that of a user whose file is whole
LEMMA LoginPromptWhole ==
  ASSUME TypeOK, Whole, NEW s \in Slot, NEW m, m = name[s] \/ m \in Breakable \cup {NoName},
         NEW nm, nm = [name EXCEPT ![s] = m], LoginPrompt(s, nm),
         \A t \in Slot \ {s} : loaded'[t] = loaded[t],
         m \in Breakable \cup {NoName} \/ loaded'[s] = loaded[s]
  PROVE  Whole'
<1>1. CASE Close({s}, [nm EXCEPT ![s] = NoName])
  <2> DEFINE nn == [nm EXCEPT ![s] = NoName]
  <2>1. nn[s] = NoName /\ \A t \in Slot \ {s} : nn[t] = name[t]
    BY DEF TypeOK
  <2>2. Logout({s}, nn) /\ disk' \in Saves({s}, nn)
    BY <1>1 DEF Close
  <2> HIDE DEF nn
  <2> QED
    BY <2>1, <2>2, CloseWhole
<1>2. CASE name' = nm /\ disk' = disk
  BY <1>2 DEF Whole, ReadWhole, DiskWhole, TypeOK
<1> QED
  BY <1>1, <1>2 DEF LoginPrompt

\* Handlers of the login write no part of a profile.
LEMMA LoginStepWhole ==
  ASSUME TypeOK, Prompted, LoggedOutBeforeFreed, Whole, NEW s \in Slot, LoginStep(s)
  PROVE  Whole'
<1>1. CASE Quit(s)
  BY <1>1, QuitWhole
<1>2. ASSUME LoginPrompt(s, name), loaded' = loaded PROVE Whole'
  <2>1. name = [name EXCEPT ![s] = name[s]]
    BY DEF TypeOK
  <2> QED
    BY <1>2, <2>1, LoginPromptWhole
<1>3. ASSUME UNCHANGED <<name, loaded, disk>> PROVE Whole'
  BY <1>3 DEF Whole, ReadWhole, DiskWhole
<1>4. ASSUME NEW n, name' = [name EXCEPT ![s] = n],
             n = NoName \/ loaded' = [loaded EXCEPT ![s] = "full"],
             \A t \in Slot \ {s} : loaded'[t] = loaded[t], disk' = disk
      PROVE  Whole'
  BY <1>4 DEF Whole, ReadWhole, DiskWhole, TypeOK
<1>5. CASE LoginQuit(s) \/ LoginNew(s) \/ PasswordQuit(s) \/ PasswordWrong(s) \/ YesNoNo(s)
           \/ NewNameEmpty(s) \/ NewNameBreak(s) \/ NewPassword(s) \/ NewAgainBreak(s)
           \/ NewAgainWrong(s) \/ Ansi(s) \/ DisplayMotd(s) \/ GoOnline(s)
  BY <1>1, <1>2, <1>3, <1>5
     DEF LoginQuit, LoginNew, PasswordQuit, PasswordWrong, YesNoNo, NewNameEmpty,
         NewNameBreak, NewPassword, NewAgainBreak, NewAgainWrong, Ansi, DisplayMotd,
         GoOnline, who
<1>6. ASSUME NEW n \in Account, LoginUnknown(s, n) PROVE Whole'
  BY <1>2, <1>3, <1>6 DEF LoginUnknown, who
<1>7. CASE YesNoYes(s) \/ \E n \in Account : NewName(s, n)
  BY <1>1, <1>3, <1>7 DEF YesNoYes, NewName, Named, who
<1>8. CASE LoginGuest(s)
  <2>1. CASE ~Quit(s)
    <3>1. PICK i \in DOMAIN Guest :
            /\ name' = [name EXCEPT ![s] = Guest[i]]
            /\ loaded' = [loaded EXCEPT ![s] = "full"]
            /\ disk' = disk
      BY <1>8, <2>1 DEF LoginGuest
    <3> QED
      BY <1>4, <3>1 DEF TypeOK
  <2> QED
    BY <1>1, <2>1
<1>9. ASSUME NEW n \in Account, LoginKnown(s, n) PROVE Whole'
  BY <1>4, <1>9 DEF LoginKnown, TypeOK
<1>10. ASSUME NEW n \in Account, LoginLoadFails(s, n) PROVE Whole'
  <2>1. PICK m \in {n, NoName} : /\ LoginPrompt(s, [name EXCEPT ![s] = m])
                                 /\ m = NoName \/ disk[n] = "broken"
    BY <1>10 DEF LoginLoadFails
  <2>2. m \in Breakable \cup {NoName}
    BY <1>10, <2>1 DEF Whole, DiskWhole
  <2>3. \A t \in Slot \ {s} : loaded'[t] = loaded[t]
    BY <1>10 DEF LoginLoadFails, TypeOK
  <2> QED
    BY <2>1, <2>2, <2>3, LoginPromptWhole
<1>11. CASE PasswordLoadFails(s)
  <2>1. PICK m \in {tmp[s], NoName} : /\ Close({s}, [name EXCEPT ![s] = m])
                                      /\ m = NoName \/ disk[tmp[s]] = "broken"
    BY <1>11 DEF PasswordLoadFails
  <2> DEFINE nn == [name EXCEPT ![s] = m]
  <2>2. tmp[s] \in Account
    BY <1>11 DEF PasswordLoadFails, Input, Serves, Prompted
  <2>3. m \in Breakable \cup {NoName}
    BY <2>1, <2>2 DEF Whole, DiskWhole
  <2>4. nn[s] = m /\ \A t \in Slot \ {s} : nn[t] = name[t]
    BY DEF TypeOK
  <2>5. Logout({s}, nn) /\ disk' \in Saves({s}, nn) /\ loaded' = loaded
    BY <1>11, <2>1 DEF Close, PasswordLoadFails
  <2> HIDE DEF nn
  <2> QED
    BY <2>3, <2>4, <2>5, CloseWhole
<1>12. CASE PasswordRight(s)
  <2> DEFINE C == Old(tmp[s])
             nn == [name EXCEPT ![s] = tmp[s]]
  <2>1. tmp[s] \in Account /\ name[s] = NoName
    BY <1>12 DEF PasswordRight, Serves, Prompted
  <2>2. C \in SUBSET Slot
    BY <2>1, OldType DEF Name
  <2>3. s \notin C
    BY <1>12, <2>1, NameAssumption DEF PasswordRight, Found, Name
  <2>4. nn[s] = tmp[s] /\ \A t \in Slot \ {s} : nn[t] = name[t]
    BY DEF TypeOK
  <2>5. Logout(C, nn) /\ disk' \in Saves(C, nn) /\ loaded' = [loaded EXCEPT ![s] = "full"]
    BY <1>12 DEF Close, PasswordRight
  <2> HIDE DEF C, nn
  <2>6. DiskWhole'
    BY <2>2, <2>3, <2>4, <2>5, SavesWhole DEF DiskWhole
  <2>7. ReadWhole'
    BY <2>2, <2>3, <2>4, <2>5 DEF Logout, Whole, ReadWhole, TypeOK
  <2> QED
    BY <2>6, <2>7 DEF Whole
<1>13. CASE NewAgainRight(s)
  <2>1. name' = [name EXCEPT ![s] = tmp[s]] /\ loaded' = [loaded EXCEPT ![s] = "full"]
        /\ disk' \in {disk, [disk EXCEPT ![tmp[s]] = "whole"]}
    BY <1>13 DEF NewAgainRight
  <2> QED
    BY <2>1 DEF Whole, ReadWhole, DiskWhole, TypeOK
<1> QED
  BY <1>5, <1>6, <1>7, <1>8, <1>9, <1>10, <1>11, <1>12, <1>13 DEF LoginStep

\* Neither do the other handlers.
LEMMA OtherStepWhole ==
  ASSUME TypeOK, Whole,
         \/ \E s \in Slot : Accept(s) \/ OnlineStep(s) \/ SaveTimeout(s) \/ EndStep(s)
         \/ LastSeconds \/ LogOffAll \/ Exit
  PROVE  Whole'
<1>1. ASSUME UNCHANGED <<name, loaded, disk>> PROVE Whole'
  BY <1>1 DEF Whole, ReadWhole, DiskWhole
<1>2. ASSUME NEW s \in Slot, NEW n \in Name, Disconnect(s, n) PROVE Whole'
  <2>1. Head(hash[n]) \in Slot
    BY <1>2, HeadTailProperties DEF Disconnect, TypeOK
  <2> QED
    BY <1>2, <2>1, QuitWhole DEF Disconnect
<1>3. ASSUME NEW s \in Slot, NEW n \in Account, Nuke(s, n) PROVE Whole'
  <2>1. Old(n) \in SUBSET Slot
    BY OldType DEF Name
  <2>2. PICK d \in Saves(Old(n), name) : disk' \in {d, [d EXCEPT ![n] = "none"]}
    BY <1>3 DEF Nuke
  <2>3. DiskWhole'
    BY <2>1, <2>2, SavesWhole, SavesType DEF DiskWhole
  <2>4. ReadWhole'
    BY <1>3, <2>1 DEF Nuke, Logout, Whole, ReadWhole
  <2> QED
    BY <2>3, <2>4 DEF Whole
<1>4. ASSUME NEW s \in Slot, OnlineStep(s) PROVE Whole'
  <2>1. CASE Play(s) \/ CancelReboot(s)
    BY <1>1, <2>1 DEF Play, CancelReboot, who
  <2>2. CASE LogoutYes(s)
    BY <2>2, QuitWhole DEF LogoutYes
  <2> QED
    BY <1>2, <1>3, <1>4, <2>1, <2>2 DEF OnlineStep
<1>5. ASSUME NEW s \in Slot, SaveTimeout(s) PROVE Whole'
  <2>1. disk' \in Saves({s}, name) /\ UNCHANGED <<name, loaded>>
    BY <1>5 DEF SaveTimeout
  <2>2. DiskWhole'
    BY <2>1, SavesWhole DEF DiskWhole
  <2> QED
    BY <2>1, <2>2 DEF Whole, ReadWhole
<1>6. ASSUME NEW s \in Slot, EndStep(s) PROVE Whole'
  <2>1. CASE Quit(s)
    BY <2>1, QuitWhole
  <2>2. CASE Linkdead(s)
    <3>1. CASE name[s] # NoName
      <4>1. Logout({s}, name) /\ disk' \in Saves({s}, name) /\ loaded' = loaded
        BY <2>2, <3>1 DEF Linkdead, Close
      <4> QED
        BY <4>1, CloseWhole
    <3> QED
      BY <1>1, <2>2, <3>1 DEF Linkdead
  <2>3. CASE CloseSocket(s) \/ Reap(s)
    BY <2>3 DEF CloseSocket, Reap, Destroy, Whole, ReadWhole, DiskWhole, TypeOK
  <2>4. CASE (LoginTimeout(s) \/ IdleTimeout(s)) /\ ~Quit(s)
    BY <1>1, <2>4 DEF LoginTimeout, IdleTimeout, who
  <2>5. CASE WaitClose(s) \/ CloseLogout(s) \/ Flush(s)
    BY <1>1, <2>5 DEF WaitClose, CloseLogout, Flush, who
  <2> QED
    BY <1>6, <2>1, <2>2, <2>3, <2>4, <2>5 DEF EndStep
<1>7. ASSUME \/ \E s \in Slot : Accept(s)
             \/ LastSeconds \/ Exit
      PROVE  Whole'
  BY <1>1, <1>7 DEF Accept, LastSeconds, Exit, who
<1>8. CASE LogOffAll
  <2>1. CASE Close(Users, name)
    <3>1. Logout(Users, name) /\ disk' \in Saves(Users, name) /\ loaded' = loaded
      BY <1>8, <2>1 DEF LogOffAll, Close
    <3>2. Users \in SUBSET Slot
      BY DEF Users
    <3> QED
      BY <3>1, <3>2, CloseWhole
  <2> QED
    BY <1>1, <1>8, <2>1 DEF LogOffAll
<1> QED
  BY <1>4, <1>5, <1>6, <1>7, <1>8

\* The profile of an account whose file is not damaged on disk is never overwritten by
\* a session that has read only part of it, whoever else's files are damaged.
THEOREM WholeUnlessDamaged == Spec => [](\A n \in Account \ Breakable : disk[n] # "part")
<1> DEFINE P == \A n \in Account \ Breakable : disk[n] # "part"
           I == IInv /\ Whole
<1>1. Init => I
  <2> SUFFICES ASSUME Init PROVE Whole
    BY InitIInv
  <2>1. \A n \in Account \ Breakable : disk[n] \in {"none", "whole"}
    BY DEF Init
  <2> QED
    BY <2>1 DEF Init, Whole, ReadWhole, DiskWhole
<1>2. I /\ [Next]_vars => I'
  <2> SUFFICES ASSUME IInv, Whole, [Next]_vars PROVE Whole'
    BY NextIInv
  <2>1. TypeOK /\ Prompted /\ LoggedOutBeforeFreed
    BY DEF IInv, Tidy
  <2>2. CASE UNCHANGED vars
    BY <2>2 DEF vars, who, Whole, ReadWhole, DiskWhole
  <2>3. CASE Next
    BY <2>1, <2>3, LoginStepWhole, OtherStepWhole DEF Next, Keystroke
  <2> QED
    BY <2>2, <2>3
<1>3. I => P
  BY DEF Whole, DiskWhole
<1> QED
  BY <1>1, <1>2, <1>3, PTL DEF Spec

\* state_password_prompt clears the name of a session that has read only the password,
\* so that close_connection does not save it: while no file is damaged, no profile is
\* overwritten by a part of it.
THEOREM NothingPartialSaved ==
  ASSUME Breakable = {}
  PROVE  Spec => []NoPartialProfileSaved
<1>1. (\A n \in Account \ Breakable : disk[n] # "part") => NoPartialProfileSaved
  BY DEF NoPartialProfileSaved
<1> QED
  BY <1>1, WholeUnlessDamaged, PTL

(***************************************************************************)
(* The entries of online_users.                                            *)
(***************************************************************************)
\* The sessions of that name that are online
Here(n) == {s \in Slot : Online(s) /\ name[s] = n}

\* A set that loses k of its elements at most is not smaller than by k.
LEMMA LosesAtMost ==
  ASSUME NEW A \in SUBSET Slot, NEW B \in SUBSET Slot, NEW K \in SUBSET Slot,
         A \subseteq B \cup K
  PROVE  /\ Cardinality(A) \in Nat /\ Cardinality(B) \in Nat /\ Cardinality(K) \in Nat
         /\ Cardinality(A) <= Cardinality(B) + Cardinality(K)
<1>1. IsFiniteSet(A) /\ IsFiniteSet(B) /\ IsFiniteSet(K)
  BY SlotAssumption, FS_Subset
<1>2. /\ IsFiniteSet(B \cup K) /\ IsFiniteSet(B \cap K)
      /\ Cardinality(B \cup K) = Cardinality(B) + Cardinality(K) - Cardinality(B \cap K)
  BY <1>1, FS_Union, FS_Subset
<1>3. Cardinality(A) <= Cardinality(B \cup K)
  BY <1>2, FS_Subset
<1>4. /\ Cardinality(A) \in Nat /\ Cardinality(B) \in Nat /\ Cardinality(K) \in Nat
      /\ Cardinality(B \cap K) \in Nat /\ Cardinality(B \cup K) \in Nat
  BY <1>1, <1>2, FS_CardinalityType
<1> QED
  BY <1>2, <1>3, <1>4

\* As long as nobody who is online leaves or loses his name, nothing changes.
LEMMA StillHere ==
  ASSUME TypeOK, NoGhostEntries, hash' = hash,
         \A t \in Slot : Online(t) /\ name[t] # NoName => Online(t)' /\ name'[t] = name[t]
  PROVE  NoGhostEntries'
<1> SUFFICES ASSUME NEW n \in Name PROVE Len(hash'[n]) <= Cardinality(Here(n)')
  BY DEF NoGhostEntries, Here
<1>1. n # NoName
  BY NameAssumption
<1>2. Here(n) \in SUBSET Slot /\ Here(n)' \in SUBSET Slot /\ Here(n) \subseteq Here(n)' \cup {}
  BY <1>1 DEF Here
<1>3. Len(hash[n]) <= Cardinality(Here(n)) /\ Len(hash[n]) \in Nat
  BY LenProperties DEF NoGhostEntries, Here, TypeOK
<1>4. {} \in SUBSET Slot /\ Cardinality({}) = 0
  BY FS_EmptySet
<1>5. /\ Cardinality(Here(n)) \in Nat /\ Cardinality(Here(n)') \in Nat
      /\ Cardinality(Here(n)) <= Cardinality(Here(n)') + Cardinality({})
  BY <1>2, <1>4, LosesAtMost
<1> QED
  BY <1>3, <1>4, <1>5

\* Whoever is logged out takes one entry of his name with him.
LEMMA LogoutNoGhost ==
  ASSUME TypeOK, NoGhostEntries, NEW C \in SUBSET Slot, NEW nm, Logout(C, nm),
         \A t \in C : Online(t) => nm[t] = name[t],
         \A t \in Slot \ C : Online(t) /\ name[t] # NoName =>
           nm[t] = name[t] /\ state'[t] = state[t]
  PROVE  NoGhostEntries'
<1> SUFFICES ASSUME NEW n \in Name PROVE Len(hash'[n]) <= Cardinality(Here(n)')
  BY DEF NoGhostEntries, Here
<1> DEFINE K == {t \in C : nm[t] = n}
<1>1. n # NoName
  BY NameAssumption
<1>2. Here(n) \subseteq Here(n)' \cup K
  BY <1>1 DEF Here, Online, Logout
<1>3. Here(n) \in SUBSET Slot /\ Here(n)' \in SUBSET Slot /\ K \in SUBSET Slot
  BY DEF Here
<1> HIDE DEF K
<1>4. /\ Cardinality(Here(n)) \in Nat /\ Cardinality(Here(n)') \in Nat
      /\ Cardinality(K) \in Nat
      /\ Cardinality(Here(n)) <= Cardinality(Here(n)') + Cardinality(K)
  BY <1>2, <1>3, LosesAtMost
<1>5. Len(hash[n]) <= Cardinality(Here(n)) /\ Len(hash[n]) \in Nat /\ hash[n] \in Seq(Slot)
  BY LenProperties DEF NoGhostEntries, Here, TypeOK
<1>6. hash'[n] = SubSeq(hash[n], Cardinality(K) + 1, Len(hash[n]))
  BY DEF Logout, K
<1>7. \A i \in Cardinality(K) + 1 .. Len(hash[n]) : hash[n][i] \in Slot
  BY <1>4, <1>5, ElementOfSeq, Z3
<1>8. Len(hash'[n]) = IF Cardinality(K) + 1 <= Len(hash[n])
                      THEN Len(hash[n]) - (Cardinality(K) + 1) + 1 ELSE 0
  BY <1>4, <1>5, <1>6, <1>7, SubSeqProperties, Z3
<1> QED
  BY <1>4, <1>5, <1>8

\* A handler that ends a session leaves no entry behind.
LEMMA QuitNoGhost ==
  ASSUME TypeOK, NoGhostEntries, NEW s \in Slot, Quit(s)
  PROVE  NoGhostEntries'
<1>1. Logout({s}, name) /\ state' = state
  BY DEF Quit, Close
<1> QED
  BY <1>1, LogoutNoGhost

\* A session that is not online is given a name, or loses it.
LEMMA ElsewhereNoGhost ==
  ASSUME TypeOK, NoGhostEntries, NEW s \in Slot, ~Online(s), hash' = hash, conn' = conn,
         \A t \in Slot \ {s} : state'[t] = state[t] /\ name'[t] = name[t]
  PROVE  NoGhostEntries'
BY StillHere DEF Online

\* At the login prompt nobody is online.
LEMMA LoginPromptNoGhost ==
  ASSUME TypeOK, NoGhostEntries, NEW s \in Slot, ~Online(s), NEW nm,
         \A t \in Slot \ {s} : nm[t] = name[t], LoginPrompt(s, nm)
  PROVE  NoGhostEntries'
<1>1. CASE Close({s}, [nm EXCEPT ![s] = NoName]) /\ state' = state
  <2> DEFINE nn == [nm EXCEPT ![s] = NoName]
  <2>1. Logout({s}, nn) /\ \A t \in Slot \ {s} : nn[t] = name[t]
    BY <1>1 DEF Close
  <2> HIDE DEF nn
  <2> QED
    BY <1>1, <2>1, LogoutNoGhost
<1>2. CASE Go(s, "login") /\ name' = nm /\ UNCHANGED <<conn, hash>>
  BY <1>2, ElsewhereNoGhost DEF Go, TypeOK
<1> QED
  BY <1>1, <1>2 DEF LoginPrompt

\* Handlers of the login leave no entry behind.
LEMMA LoginStepNoGhost ==
  ASSUME TypeOK, Tidy, NoGhostEntries, NEW s \in Slot, LoginStep(s)
  PROVE  NoGhostEntries'
<1>1. ~Online(s)
  BY DEF LoginStep, LoginQuit, LoginNew, LoginGuest, LoginUnknown, LoginKnown,
         LoginLoadFails, PasswordQuit, PasswordWrong, PasswordLoadFails,
         PasswordRight, YesNoNo, YesNoYes, NewName, NewNameEmpty, NewNameBreak,
         NewPassword, NewAgainBreak, NewAgainWrong, NewAgainRight, Ansi,
         DisplayMotd, GoOnline, Input, Serves, InGame, Online
<1>2. CASE Quit(s)
  BY <1>2, QuitNoGhost
<1>3. CASE LoginPrompt(s, name)
  BY <1>1, <1>3, LoginPromptNoGhost
<1>4. ASSUME NEW f, Go(s, f), Moving, UNCHANGED <<name, hash>> PROVE NoGhostEntries'
  BY <1>1, <1>4, ElsewhereNoGhost DEF Go, Moving, TypeOK
<1>5. ASSUME NEW f, NEW n, Go(s, f), Moving, name' = [name EXCEPT ![s] = n], hash' = hash
      PROVE  NoGhostEntries'
  BY <1>1, <1>5, ElsewhereNoGhost DEF Go, Moving, TypeOK
<1>6. CASE LoginQuit(s) \/ LoginNew(s) \/ PasswordQuit(s) \/ PasswordWrong(s) \/ YesNoNo(s)
           \/ NewNameEmpty(s) \/ NewNameBreak(s) \/ NewPassword(s) \/ NewAgainBreak(s)
           \/ NewAgainWrong(s) \/ Ansi(s) \/ DisplayMotd(s)
  BY <1>2, <1>3, <1>4, <1>6
     DEF LoginQuit, LoginNew, PasswordQuit, PasswordWrong, YesNoNo, NewNameEmpty,
         NewNameBreak, NewPassword, NewAgainBreak, NewAgainWrong, Ansi, DisplayMotd, who
<1>7. ASSUME NEW n \in Account, LoginUnknown(s, n) PROVE NoGhostEntries'
  BY <1>3, <1>4, <1>7 DEF LoginUnknown, who
<1>8. CASE YesNoYes(s) \/ \E n \in Account : NewName(s, n)
  BY <1>2, <1>4, <1>8 DEF YesNoYes, NewName, Named, who
<1>9. CASE LoginGuest(s) \/ (\E n \in Account : LoginKnown(s, n)) \/ NewAgainRight(s)
  BY <1>2, <1>5, <1>9 DEF LoginGuest, LoginKnown, NewAgainRight
<1>10. ASSUME NEW n \in Account, LoginLoadFails(s, n) PROVE NoGhostEntries'
  <2>1. PICK m : LoginPrompt(s, [name EXCEPT ![s] = m])
    BY <1>10 DEF LoginLoadFails
  <2> DEFINE nn == [name EXCEPT ![s] = m]
  <2>2. LoginPrompt(s, nn) /\ \A t \in Slot \ {s} : nn[t] = name[t]
    BY <2>1 DEF TypeOK
  <2> HIDE DEF nn
  <2> QED
    BY <1>1, <2>2, LoginPromptNoGhost
<1>11. CASE PasswordLoadFails(s)
  <2>1. PICK m : Close({s}, [name EXCEPT ![s] = m])
    BY <1>11 DEF PasswordLoadFails
  <2> DEFINE nn == [name EXCEPT ![s] = m]
  <2>2. Logout({s}, nn) /\ state' = state /\ \A t \in Slot \ {s} : nn[t] = name[t]
    BY <1>11, <2>1 DEF Close, PasswordLoadFails, TypeOK
  <2> HIDE DEF nn
  <2> QED
    BY <1>1, <2>2, LogoutNoGhost
<1>12. CASE PasswordRight(s)
  <2> DEFINE C == Old(tmp[s])
             nn == [name EXCEPT ![s] = tmp[s]]
  <2>1. tmp[s] \in Account
    BY <1>12 DEF PasswordRight, Serves, Tidy, Prompted
  <2>2. C \in SUBSET Slot
    BY <2>1, OldType DEF Name
  <2>3. /\ Logout(C, nn) /\ \A t \in Slot \ {s} : nn[t] = name[t] /\ state'[t] = state[t]
    BY <1>12 DEF Close, PasswordRight, Go, TypeOK
  <2> HIDE DEF C, nn
  <2> QED
    BY <1>1, <2>2, <2>3, LogoutNoGhost
<1>13. CASE GoOnline(s)
  <2> SUFFICES ASSUME NEW n \in Name PROVE Len(hash'[n]) <= Cardinality(Here(n)')
    BY DEF NoGhostEntries, Here
  <2>1. /\ hash' = [hash EXCEPT ![name[s]] = Append(@, s)]
        /\ state' = [state EXCEPT ![s] = "room"]
        /\ UNCHANGED <<name, conn>> /\ conn[s] = "established"
    BY <1>13 DEF GoOnline, Go, Moving, Input, Serves
  <2>2. Here(n)' = IF n = name[s] THEN Here(n) \cup {s} ELSE Here(n)
    BY <1>1, <2>1 DEF Here, Online, TypeOK, InGame
  <2>3. s \notin Here(n)
    BY <1>1 DEF Here
  <2>4. IsFiniteSet(Here(n))
    BY SlotAssumption, FS_Subset DEF Here
  <2>5. /\ Cardinality(Here(n)) \in Nat
        /\ Cardinality(Here(n)') = IF n = name[s] THEN Cardinality(Here(n)) + 1
                                   ELSE Cardinality(Here(n))
    BY <2>2, <2>3, <2>4, FS_AddElement, FS_CardinalityType
  <2>6. hash[n] \in Seq(Slot) /\ Len(hash[n]) \in Nat /\ Len(hash[n]) <= Cardinality(Here(n))
    BY LenProperties DEF NoGhostEntries, Here, TypeOK
  <2>7. Len(hash'[n]) = IF n = name[s] THEN Len(hash[n]) + 1 ELSE Len(hash[n])
    BY <2>1, <2>6, AppendProperties DEF TypeOK
  <2> QED
    BY <2>5, <2>6, <2>7
<1> QED
  BY <1>6, <1>7, <1>8, <1>9, <1>10, <1>11, <1>12, <1>13 DEF LoginStep

\* Neither do the other handlers.
LEMMA OtherStepNoGhost ==
  ASSUME TypeOK, Tidy, LogoutTimerLast, NoGhostEntries,
         \/ \E s \in Slot : Accept(s) \/ OnlineStep(s) \/ SaveTimeout(s) \/ EndStep(s)
         \/ LastSeconds \/ LogOffAll \/ Exit
  PROVE  NoGhostEntries'
<1>1. ASSUME UNCHANGED <<conn, state, name, hash>> PROVE NoGhostEntries'
  BY <1>1, StillHere DEF Online
<1>2. ASSUME NEW s \in Slot, ~Online(s) \/ name[s] = NoName,
             \A t \in Slot \ {s} : /\ conn'[t] = conn[t] /\ state'[t] = state[t]
                                   /\ name'[t] = name[t],
             hash' = hash
      PROVE  NoGhostEntries'
  BY <1>2, StillHere DEF Online
<1>3. ASSUME NEW s \in Slot, OnlineStep(s) PROVE NoGhostEntries'
  <2>1. CASE Play(s)
    <3>1. PICK g \in InGame : Go(s, g) /\ UNCHANGED <<conn, name, hash>>
      BY <2>1 DEF Play, Moving, who
    <3>2. Online(s)
      BY <2>1 DEF Play, Input, Serves, Online
    <3> QED
      BY <3>1, <3>2, StillHere DEF Online, Go, TypeOK
  <2>2. CASE LogoutYes(s)
    BY <2>2, QuitNoGhost DEF LogoutYes
  <2>3. ASSUME NEW n \in Name, Disconnect(s, n) PROVE NoGhostEntries'
    <3>1. Head(hash[n]) \in Slot
      BY <2>3, HeadTailProperties DEF Disconnect, TypeOK
    <3> QED
      BY <2>3, <3>1, QuitNoGhost DEF Disconnect
  <2>4. ASSUME NEW n \in Account, Nuke(s, n) PROVE NoGhostEntries'
    <3>1. Old(n) \in SUBSET Slot /\ Logout(Old(n), name) /\ state' = state
      BY <2>4, OldType DEF Name, Nuke
    <3> QED
      BY <3>1, LogoutNoGhost
  <2>5. CASE CancelReboot(s)
    BY <1>1, <2>5 DEF CancelReboot, who
  <2> QED
    BY <1>3, <2>1, <2>2, <2>3, <2>4, <2>5 DEF OnlineStep
<1>4. ASSUME NEW s \in Slot, EndStep(s) PROVE NoGhostEntries'
  <2>1. CASE Quit(s)
    BY <2>1, QuitNoGhost
  <2>2. CASE Linkdead(s)
    <3>1. CASE name[s] # NoName
      <4>1. Logout({s}, name) /\ state' = state
        BY <2>2, <3>1 DEF Linkdead, Close
      <4> QED
        BY <4>1, LogoutNoGhost
    <3> QED
      BY <1>1, <2>2, <3>1 DEF Linkdead
  <2>3. CASE CloseSocket(s) \/ Reap(s)
    <3>1. Destroy(s) /\ name[s] = NoName
      BY <2>3 DEF CloseSocket, Reap, Tidy, LoggedOutBeforeFreed
    <3>2. hash' = hash
      BY <3>1, NameAssumption DEF Destroy, TypeOK
    <3> QED
      BY <1>2, <3>1, <3>2 DEF Destroy, Go, TypeOK
  <2>4. CASE (LoginTimeout(s) \/ IdleTimeout(s)) /\ ~Quit(s)
    BY <1>1, <2>4 DEF LoginTimeout, IdleTimeout, who
  <2>5. CASE WaitClose(s) \/ CloseLogout(s)
    BY <1>2, <2>5 DEF WaitClose, CloseLogout, who, Online, LogoutTimerLast, TypeOK
  <2>6. CASE Flush(s)
    BY <1>1, <2>6 DEF Flush, who
  <2> QED
    BY <1>4, <2>1, <2>2, <2>3, <2>4, <2>5, <2>6 DEF EndStep
<1>5. ASSUME NEW s \in Slot, Accept(s) PROVE NoGhostEntries'
  BY <1>2, <1>5 DEF Accept, who, Go, Online, TypeOK
<1>6. CASE (\E s \in Slot : SaveTimeout(s)) \/ LastSeconds \/ Exit
  BY <1>1, <1>6 DEF SaveTimeout, LastSeconds, Exit, who
<1>7. CASE LogOffAll
  <2>1. CASE Close(Users, name)
    <3>1. Logout(Users, name) /\ state' = state /\ Users \in SUBSET Slot
      BY <1>7, <2>1 DEF LogOffAll, Close, Users
    <3> QED
      BY <3>1, LogoutNoGhost
  <2> QED
    BY <1>1, <1>7, <2>1 DEF LogOffAll
<1> QED
  BY <1>3, <1>4, <1>5, <1>6, <1>7

\* online_users never keeps more entries of a name than sessions of that name are
\* online, in whatever order logins of that name, guests, kicks and dead links come.
THEOREM NoGhosts == Spec => []NoGhostEntries
<1> DEFINE I == IInv /\ NoGhostEntries
<1>1. Init => I
  <2> SUFFICES ASSUME Init, NEW n \in Name
               PROVE  Len(hash[n]) <= Cardinality(Here(n))
    BY InitIInv DEF NoGhostEntries, Here
  <2>1. Len(hash[n]) = 0
    BY DEF Init
  <2>2. Here(n) \in SUBSET Slot
    BY DEF Here
  <2>3. Cardinality(Here(n)) \in Nat
    BY <2>2, LosesAtMost
  <2> QED
    BY <2>1, <2>3
<1>2. I /\ [Next]_vars => I'
  <2> SUFFICES ASSUME IInv, NoGhostEntries, [Next]_vars PROVE NoGhostEntries'
    BY NextIInv
  <2>1. TypeOK /\ Tidy /\ LogoutTimerLast
    BY DEF IInv
  <2>2. CASE UNCHANGED vars
    <3>1. UNCHANGED <<conn, state, name, hash>>
      BY <2>2 DEF vars, who
    <3> QED
      BY <2>1, <3>1, StillHere DEF Online
  <2>3. CASE Next
    BY <2>1, <2>3, LoginStepNoGhost, OtherStepNoGhost DEF Next, Keystroke
  <2> QED
    BY <2>2, <2>3
<1> QED
  BY <1>1, <1>2, PTL DEF Spec

(***************************************************************************)
(* Who is_online() finds.                                                  *)
(***************************************************************************)
\* online_users has the one session of that name that is online, or nothing.
Exact(n) ==
  \/ hash[n] = << >> /\ \A s \in Slot : Online(s) => name[s] # n
  \/ \E s \in Slot : Online(s) /\ name[s] = n /\ hash[n] = <<s>>

\* A session has no name before the end of its login, and no two have the same.
NamedOnceLoggedIn ==
  \A s \in Slot : name[s] # NoName => state[s] \in Pending \cup InGame

UniqueNames ==
  \A s, t \in Slot : s # t /\ name[s] # NoName => name[s] # name[t]

\* No file is damaged.
Undamaged == \A n \in Account : disk[n] # "broken"

Calm == NamedOnceLoggedIn /\ UniqueNames /\ \A n \in Name : Exact(n)

\* Where names are unique, Logout takes out the entries of those who are logged out.
LEMMA LogoutExact ==
  ASSUME TypeOK, UniqueNames, NEW n \in Name, Exact(n), NEW C \in SUBSET Slot, NEW nm,
         Logout(C, nm), \A t \in C : nm[t] = name[t],
         \A t \in Slot \ C : Online(t) => nm[t] = name[t] /\ state'[t] = state[t],
         \A t \in Slot \ C : ~Online(t) => ~Online(t)'
  PROVE  Exact(n)'
<1> DEFINE K == {t \in C : nm[t] = n}
<1>1. n # NoName
  BY NameAssumption
<1>2. hash'[n] = SubSeq(hash[n], Cardinality(K) + 1, Len(hash[n])) /\ hash[n] \in Seq(Slot)
  BY DEF Logout, TypeOK
<1>3. \A s : s \in K <=> s \in C /\ nm[s] = n
  OBVIOUS
<1> HIDE DEF K
<1>4. \A t \in Slot : Online(t)' <=> t \notin C /\ Online(t)
  BY DEF Online, Logout
<1>5. \A t \in Slot : Online(t)' => name'[t] = name[t]
  BY <1>4 DEF Logout
<1>6. CASE K = {}
  <2>1. Cardinality(K) + 1 = 1
    BY <1>6, FS_EmptySet
  <2>2. hash'[n] = SubSeq(hash[n], 1, Len(hash[n]))
    BY <1>2, <2>1
  <2>3. hash'[n] = hash[n]
    BY <1>2, <2>2, SubSeqFull
  <2>4. \A t \in C : name[t] # n
    BY <1>6, <1>3
  <2> QED
    BY <1>4, <1>5, <2>3, <2>4 DEF Exact
<1>7. ASSUME NEW s \in K PROVE Exact(n)'
  <2>1. s \in Slot /\ s \in C /\ name[s] = n
    BY <1>3
  <2>2. \A t \in Slot : name[t] = n => t = s
    BY <1>1, <2>1 DEF UniqueNames
  <2>3. K = {s}
    BY <1>3, <2>2
  <2>4. Cardinality(K) = 1
    BY <2>3, FS_Singleton
  <2>5. hash[n] = << >> \/ hash[n] = <<s>>
    BY <2>2 DEF Exact
  <2>6. SubSeq(<< >>, 2, Len(<< >>)) = << >> /\ SubSeq(<<s>>, 2, Len(<<s>>)) = << >>
    <3>1. Len(<< >>) = 0 /\ Len(<<s>>) = 1
      OBVIOUS
    <3> QED
      BY <3>1, SubSeqEmpty
  <2>7. hash'[n] = << >>
    <3>1. hash'[n] = SubSeq(hash[n], 2, Len(hash[n]))
      BY <1>2, <2>4
    <3> QED
      BY <2>5, <2>6, <3>1, Zenon
  <2> QED
    BY <1>4, <1>5, <2>1, <2>2, <2>7 DEF Exact
<1> QED
  BY <1>6, <1>7

\* Logging out leaves who is left as he was.
LEMMA LogoutCalm ==
  ASSUME TypeOK, Calm, NEW C \in SUBSET Slot, Logout(C, name), state' = state
  PROVE  Calm'
<1>1. \A n \in Name : Exact(n)'
  <2> SUFFICES ASSUME NEW n \in Name PROVE Exact(n)'
    OBVIOUS
  <2>1. UniqueNames /\ Exact(n)
    BY DEF Calm
  <2>2. \A t \in Slot \ C : ~Online(t) => ~Online(t)'
    BY DEF Online, Logout
  <2> QED
    BY <2>1, <2>2, LogoutExact
<1>2. NamedOnceLoggedIn' /\ UniqueNames'
  BY DEF Calm, NamedOnceLoggedIn, UniqueNames, Logout
<1> QED
  BY <1>1, <1>2 DEF Calm

\* So does a handler that ends a session.
LEMMA QuitCalm ==
  ASSUME TypeOK, Calm, NEW s \in Slot, Quit(s)
  PROVE  Calm'
<1>1. Logout({s}, name) /\ state' = state
  BY DEF Quit, Close
<1> QED
  BY <1>1, LogoutCalm

\* A session that is not online, and does not become so, has the name that it had, or
\* none, or one that nobody else has.
LEMMA LoggingInCalm ==
  ASSUME TypeOK, Calm, NEW s \in Slot, ~Online(s), hash' = hash, conn' = conn,
         NEW f \in StateFn \ InGame, Go(s, f), NEW n, name' = [name EXCEPT ![s] = n],
         n # NoName => f \in Pending /\ \A t \in Slot \ {s} : name[t] # n
  PROVE  Calm'
<1>1. \A t \in Slot : Online(t)' <=> Online(t)
  BY DEF Online, Go, TypeOK
<1>2. \A t \in Slot : Online(t) => name'[t] = name[t]
  BY DEF TypeOK
<1>3. \A m \in Name : Exact(m)'
  BY <1>1, <1>2 DEF Calm, Exact
<1>4. NamedOnceLoggedIn' /\ UniqueNames'
  BY DEF Calm, NamedOnceLoggedIn, UniqueNames, Go, TypeOK
<1> QED
  BY <1>3, <1>4 DEF Calm

\* Nobody has a name before the end of his login.
LEMMA LoginPromptCalm ==
  ASSUME TypeOK, Calm, NEW s \in Slot, state[s] \notin Pending \cup InGame, NEW nm,
         nm = name \/ nm = [name EXCEPT ![s] = NoName], LoginPrompt(s, nm)
  PROVE  Calm'
<1>1. name[s] = NoName /\ ~Online(s)
  BY DEF Calm, NamedOnceLoggedIn, Online
<1>2. nm = name /\ [nm EXCEPT ![s] = NoName] = name
  BY <1>1 DEF TypeOK
<1>3. CASE Close({s}, name) /\ state' = state
  BY <1>3, LogoutCalm DEF Close
<1>4. CASE Go(s, "login") /\ name' = name /\ UNCHANGED <<conn, hash>>
  <2>1. name' = [name EXCEPT ![s] = NoName] /\ "login" \in StateFn \ InGame
    BY <1>2, <1>4 DEF StateFn, InGame
  <2> QED
    BY <1>1, <1>4, <2>1, LoggingInCalm
<1> QED
  BY <1>2, <1>3, <1>4 DEF LoginPrompt

\* Nobody else who goes through a login has the name that a session gets.
LEMMA NewNameFree ==
  ASSUME TypeOK, Calm, NEW s \in Slot, NEW n \in Name, name'[s] = n, state'[s] \in Pending,
         NoOverlap', NEW t \in Slot \ {s}, name[t] = n, name'[t] = name[t],
         conn'[t] = conn[t], state'[t] = state[t]
  PROVE  Online(t)
<1>1. state[t] \in Pending \cup InGame /\ n # NoName
  BY NameAssumption DEF Calm, NamedOnceLoggedIn
<1>2. Claim(s)' = n
  BY DEF Claim, Online, Pending, InGame
<1>3. ~Online(t)' => Claim(t)' = n
  BY <1>1 DEF Claim, Pending, InGame
<1>4. Online(t)'
  BY <1>1, <1>2, <1>3 DEF NoOverlap
<1> QED
  BY <1>4 DEF Online

\* Handlers of the login keep names unique and the entries exact, while logins do not overlap.
LEMMA LoginStepCalm ==
  ASSUME TypeOK, Tidy, Undamaged, NoOverlap, Calm, NEW s \in Slot, LoginStep(s), NoOverlap'
  PROVE  Calm'
<1>1. state[s] \notin InGame /\ ~Online(s)
  BY DEF LoginStep, LoginQuit, LoginNew, LoginGuest, LoginUnknown, LoginKnown,
         LoginLoadFails, PasswordQuit, PasswordWrong, PasswordLoadFails,
         PasswordRight, YesNoNo, YesNoYes, NewName, NewNameEmpty, NewNameBreak,
         NewPassword, NewAgainBreak, NewAgainWrong, NewAgainRight, Ansi,
         DisplayMotd, GoOnline, Input, Serves, InGame, Online
<1>2. CASE Quit(s)
  BY <1>2, QuitCalm
<1>3. ASSUME LoginPrompt(s, name), state[s] \notin Pending PROVE Calm'
  BY <1>1, <1>3, LoginPromptCalm
<1>4. ASSUME NEW f \in StateFn \ InGame, Go(s, f), Moving, UNCHANGED <<name, hash>>,
             f \in Pending \/ state[s] \notin Pending
      PROVE  Calm'
  <2>1. name' = [name EXCEPT ![s] = name[s]]
    BY <1>4 DEF TypeOK
  <2>2. name[s] # NoName => f \in Pending /\ \A t \in Slot \ {s} : name[t] # name[s]
    BY <1>1, <1>4 DEF Calm, NamedOnceLoggedIn, UniqueNames
  <2> QED
    BY <1>1, <1>4, <2>1, <2>2, LoggingInCalm DEF Moving
<1>5. CASE LoginQuit(s) \/ LoginNew(s) \/ PasswordQuit(s) \/ PasswordWrong(s) \/ YesNoNo(s)
           \/ NewNameEmpty(s) \/ NewNameBreak(s) \/ NewPassword(s) \/ NewAgainBreak(s)
           \/ NewAgainWrong(s) \/ Ansi(s) \/ DisplayMotd(s)
  BY <1>2, <1>3, <1>4, <1>5
     DEF LoginQuit, LoginNew, PasswordQuit, PasswordWrong, YesNoNo, NewNameEmpty,
         NewNameBreak, NewPassword, NewAgainBreak, NewAgainWrong, Ansi, DisplayMotd, who,
         Input, Serves, Pending, InGame, StateFn
<1>6. ASSUME NEW n \in Account, LoginUnknown(s, n) PROVE Calm'
  BY <1>3, <1>4, <1>6 DEF LoginUnknown, who, Input, Serves, Pending, InGame, StateFn
<1>7. CASE YesNoYes(s) \/ \E n \in Account : NewName(s, n)
  BY <1>2, <1>4, <1>7 DEF YesNoYes, NewName, Named, who, Input, Serves, Pending, InGame,
                              StateFn
<1>8. CASE LoginGuest(s)
  <2>1. CASE ~Quit(s)
    <3>1. PICK i \in DOMAIN Guest :
            /\ hash[Guest[i]] = << >>
            /\ name' = [name EXCEPT ![s] = Guest[i]]
            /\ Go(s, "ansi") /\ Moving /\ hash' = hash
      BY <1>8, <2>1 DEF LoginGuest
    <3>2. Guest[i] \in Name
      BY DEF Name, GuestName
    <3>3. ASSUME NEW t \in Slot \ {s}, name[t] = Guest[i] PROVE FALSE
      <4>1. /\ name'[s] = Guest[i] /\ state'[s] \in Pending /\ name'[t] = name[t]
            /\ conn'[t] = conn[t] /\ state'[t] = state[t]
        BY <3>1 DEF Go, Moving, TypeOK, Pending
      <4>2. Online(t)
        BY <3>2, <3>3, <4>1, NewNameFree
      <4>3. Exact(Guest[i])
        BY <3>2 DEF Calm
      <4> QED
        BY <3>1, <3>3, <4>2, <4>3 DEF Exact
    <3>4. "ansi" \in StateFn \ InGame /\ "ansi" \in Pending
      BY DEF StateFn, InGame, Pending
    <3> QED
      BY <1>1, <3>1, <3>3, <3>4, LoggingInCalm DEF Moving
  <2> QED
    BY <1>2, <2>1
<1>9. ASSUME NEW n \in Account, LoginKnown(s, n) PROVE Calm'
  <2>1. name' = [name EXCEPT ![s] = NoName] /\ Go(s, "password") /\ UNCHANGED <<conn, hash>>
    BY <1>9 DEF LoginKnown, Moving
  <2>2. "password" \in StateFn \ InGame
    BY DEF StateFn, InGame
  <2> QED
    BY <1>1, <2>1, <2>2, LoggingInCalm
<1>10. ASSUME NEW n \in Account, LoginLoadFails(s, n) PROVE Calm'
  <2>1. LoginPrompt(s, [name EXCEPT ![s] = NoName]) /\ state[s] \notin Pending
    BY <1>10 DEF LoginLoadFails, Undamaged, Input, Serves, Pending
  <2> QED
    BY <1>1, <2>1, LoginPromptCalm
<1>11. CASE PasswordLoadFails(s)
  <2>1. tmp[s] \in Account
    BY <1>11 DEF PasswordLoadFails, Input, Serves, Tidy, Prompted
  <2>2. Close({s}, [name EXCEPT ![s] = NoName]) /\ state' = state
    BY <1>11, <2>1 DEF PasswordLoadFails, Undamaged
  <2>3. [name EXCEPT ![s] = NoName] = name
    BY <1>11 DEF PasswordLoadFails, Input, Serves, Tidy, Prompted, TypeOK
  <2> QED
    BY <2>2, <2>3, LogoutCalm DEF Close
<1>12. CASE PasswordRight(s)
  <2> DEFINE C == Old(tmp[s])
             nn == [name EXCEPT ![s] = tmp[s]]
  <2>1. tmp[s] \in Account /\ name[s] = NoName /\ tmp[s] # NoName
    BY <1>12, NameAssumption DEF PasswordRight, Serves, Tidy, Prompted, Name
  <2>2. C \in SUBSET Slot /\ Exact(tmp[s])
    BY <2>1, OldType DEF Name, Calm
  <2>3. \A t \in C : name[t] = tmp[s]
    BY <1>12 DEF PasswordRight, Found
  <2>4. \A t \in Slot : Online(t) /\ name[t] = tmp[s] => t \in C
    <3> SUFFICES ASSUME NEW t \in Slot, Online(t), name[t] = tmp[s] PROVE t \in C
      OBVIOUS
    <3>1. PICK v \in Slot : name[v] = tmp[s] /\ hash[tmp[s]] = <<v>>
      BY <2>2 DEF Exact
    <3>2. t = v
      BY <2>1, <3>1 DEF Calm, UniqueNames
    <3>3. Head(<<v>>) = v /\ <<v>> # << >>
      OBVIOUS
    <3> QED
      BY <3>1, <3>2, <3>3 DEF Old
  <2>5. /\ Logout(C, nn) /\ state'[s] = "motd" /\ nn[s] = tmp[s]
        /\ \A t \in Slot \ {s} : nn[t] = name[t] /\ state'[t] = state[t]
    BY <1>12 DEF Close, PasswordRight, Go, TypeOK
  <2> HIDE DEF C, nn
  <2>6. s \notin C
    BY <2>1, <2>3
  <2>7. \A n \in Name : Exact(n)'
    <3> SUFFICES ASSUME NEW n \in Name PROVE Exact(n)'
      OBVIOUS
    <3>1. UniqueNames /\ Exact(n)
      BY DEF Calm
    <3>2. \A t \in C : nn[t] = name[t]
      BY <2>2, <2>5, <2>6
    <3>3. \A t \in Slot \ C : Online(t) => nn[t] = name[t] /\ state'[t] = state[t]
      BY <1>1, <2>5
    <3>4. \A t \in Slot \ C : ~Online(t) => ~Online(t)'
      BY <2>5 DEF Online, Logout, InGame
    <3> QED
      BY <2>2, <2>5, <3>1, <3>2, <3>3, <3>4, LogoutExact
  <2>8. ASSUME NEW t \in Slot \ {s}, t \notin C PROVE name[t] # tmp[s]
    <3> SUFFICES ASSUME name[t] = tmp[s] PROVE FALSE
      OBVIOUS
    <3>1. /\ name'[s] = tmp[s] /\ state'[s] \in Pending /\ tmp[s] \in Name
          /\ name'[t] = name[t]
          /\ conn'[t] = conn[t] /\ state'[t] = state[t]
      BY <2>1, <2>5, <2>6, <2>8 DEF Logout, Pending, Name
    <3>2. Online(t)
      BY <3>1, NewNameFree
    <3> QED
      BY <2>4, <2>8, <3>2
  <2>9. NamedOnceLoggedIn' /\ UniqueNames'
    BY <2>5, <2>6, <2>8 DEF Calm, NamedOnceLoggedIn, UniqueNames, Logout, Pending
  <2> QED
    BY <2>7, <2>9 DEF Calm
<1>13. CASE NewAgainRight(s)
  <2>1. tmp[s] \in Account /\ tmp[s] # NoName /\ state[s] = "newagain"
    BY <1>13, NameAssumption DEF NewAgainRight, Input, Serves, Tidy, Prompted, Name
  <2>2. \A t \in Slot \ {s} : name[t] # tmp[s]
    BY <2>1 DEF NoOverlap, Claim
  <2>3. /\ name' = [name EXCEPT ![s] = tmp[s]] /\ Go(s, "ansi") /\ UNCHANGED <<conn, hash>>
        /\ "ansi" \in StateFn \ InGame /\ "ansi" \in Pending
    BY <1>13 DEF NewAgainRight, Moving, StateFn, InGame, Pending
  <2> QED
    BY <1>1, <2>2, <2>3, LoggingInCalm
<1>14. CASE GoOnline(s)
  <2>1. /\ hash' = [hash EXCEPT ![name[s]] = Append(@, s)]
        /\ state' = [state EXCEPT ![s] = "room"]
        /\ UNCHANGED <<name, conn>> /\ conn[s] = "established" /\ state[s] = "motd"
    BY <1>14 DEF GoOnline, Go, Moving, Input, Serves
  <2>2. name[s] \in Name /\ name[s] # NoName
    BY <2>1 DEF Tidy, Prompted, Pending, TypeOK
  <2>3. \A t \in Slot \ {s} : name[t] # name[s]
    BY <2>2 DEF Calm, UniqueNames
  <2>4. hash[name[s]] = << >>
    BY <1>1, <2>2, <2>3 DEF Calm, Exact
  <2>5. hash'[name[s]] = <<s>> /\ \A n \in Name \ {name[s]} : hash'[n] = hash[n]
    BY <2>1, <2>2, <2>4 DEF TypeOK
  <2>6. \A t \in Slot : Online(t)' <=> t = s \/ Online(t)
    BY <2>1 DEF Online, TypeOK, InGame
  <2>7. \A n \in Name : Exact(n)'
    BY <2>1, <2>5, <2>6 DEF Calm, Exact
  <2>8. NamedOnceLoggedIn' /\ UniqueNames'
    BY <2>1 DEF Calm, NamedOnceLoggedIn, UniqueNames, TypeOK, InGame
  <2> QED
    BY <2>7, <2>8 DEF Calm
<1> QED
  BY <1>5, <1>6, <1>7, <1>8, <1>9, <1>10, <1>11, <1>12, <1>13, <1>14 DEF LoginStep

\* So do the other handlers.
LEMMA OtherStepCalm ==
  ASSUME TypeOK, Tidy, LogoutTimerLast, Calm,
         \/ \E s \in Slot : Accept(s) \/ OnlineStep(s) \/ SaveTimeout(s) \/ EndStep(s)
         \/ LastSeconds \/ LogOffAll \/ Exit
  PROVE  Calm'
<1>1. ASSUME UNCHANGED <<conn, state, name, hash>> PROVE Calm'
  BY <1>1 DEF Calm, NamedOnceLoggedIn, UniqueNames, Exact, Online
<1>2. ASSUME NEW s \in Slot, ~Online(s), ~Online(s)', name[s] = NoName \/ state' = state,
             \A t \in Slot \ {s} : conn'[t] = conn[t] /\ state'[t] = state[t],
             UNCHANGED <<hash, name>>
      PROVE  Calm'
  <2>1. \A t \in Slot : Online(t)' <=> Online(t)
    BY <1>2 DEF Online
  <2>2. \A n \in Name : Exact(n)'
    BY <1>2, <2>1 DEF Calm, Exact
  <2>3. NamedOnceLoggedIn' /\ UniqueNames'
    BY <1>2 DEF Calm, NamedOnceLoggedIn, UniqueNames
  <2> QED
    BY <2>2, <2>3 DEF Calm
<1>3. ASSUME NEW s \in Slot, OnlineStep(s) PROVE Calm'
  <2>1. CASE Play(s)
    <3>1. PICK g \in InGame : Go(s, g) /\ UNCHANGED <<conn, name, hash>>
      BY <2>1 DEF Play, Moving, who
    <3>2. \A t \in Slot : Online(t)' <=> Online(t)
      BY <2>1, <3>1 DEF Play, Input, Serves, Online, Go, TypeOK
    <3>3. \A n \in Name : Exact(n)'
      BY <3>1, <3>2 DEF Calm, Exact
    <3>4. NamedOnceLoggedIn' /\ UniqueNames'
      BY <3>1 DEF Calm, NamedOnceLoggedIn, UniqueNames, Go, TypeOK
    <3> QED
      BY <3>3, <3>4 DEF Calm
  <2>2. CASE LogoutYes(s)
    BY <2>2, QuitCalm DEF LogoutYes
  <2>3. ASSUME NEW n \in Name, Disconnect(s, n) PROVE Calm'
    <3>1. Head(hash[n]) \in Slot
      BY <2>3, HeadTailProperties DEF Disconnect, TypeOK
    <3> QED
      BY <2>3, <3>1, QuitCalm DEF Disconnect
  <2>4. ASSUME NEW n \in Account, Nuke(s, n) PROVE Calm'
    <3>1. Old(n) \in SUBSET Slot /\ Logout(Old(n), name) /\ state' = state
      BY <2>4, OldType DEF Name, Nuke
    <3> QED
      BY <3>1, LogoutCalm
  <2>5. CASE CancelReboot(s)
    BY <1>1, <2>5 DEF CancelReboot, who
  <2> QED
    BY <1>3, <2>1, <2>2, <2>3, <2>4, <2>5 DEF OnlineStep
<1>4. ASSUME NEW s \in Slot, EndStep(s) PROVE Calm'
  <2>1. CASE Quit(s)
    BY <2>1, QuitCalm
  <2>2. CASE Linkdead(s)
    <3>1. CASE name[s] # NoName
      <4>1. Logout({s}, name) /\ state' = state
        BY <2>2, <3>1 DEF Linkdead, Close
      <4> QED
        BY <4>1, LogoutCalm
    <3> QED
      BY <1>1, <2>2, <3>1 DEF Linkdead
  <2>3. CASE CloseSocket(s) \/ Reap(s)
    <3>1. Destroy(s) /\ name[s] = NoName
      BY <2>3 DEF CloseSocket, Reap, Tidy, LoggedOutBeforeFreed
    <3>2. hash' = hash /\ name' = name
      BY <3>1, NameAssumption DEF Destroy, TypeOK
    <3>3. ~Online(s) /\ ~Online(s)'
      BY <3>1 DEF Tidy, Prompted, Online, Destroy, TypeOK
    <3> QED
      BY <1>2, <3>1, <3>2, <3>3 DEF Destroy, Go, TypeOK
  <2>4. CASE (LoginTimeout(s) \/ IdleTimeout(s)) /\ ~Quit(s)
    BY <1>1, <2>4 DEF LoginTimeout, IdleTimeout, who
  <2>5. CASE WaitClose(s) \/ CloseLogout(s)
    BY <1>2, <2>5 DEF WaitClose, CloseLogout, who, Online, LogoutTimerLast, TypeOK
  <2>6. CASE Flush(s)
    BY <1>1, <2>6 DEF Flush, who
  <2> QED
    BY <1>4, <2>1, <2>2, <2>3, <2>4, <2>5, <2>6 DEF EndStep
<1>5. ASSUME NEW s \in Slot, Accept(s) PROVE Calm'
  BY <1>2, <1>5 DEF Accept, who, Go, Online, TypeOK, InGame, Tidy, LoggedOutBeforeFreed
<1>6. CASE (\E s \in Slot : SaveTimeout(s)) \/ LastSeconds \/ Exit
  BY <1>1, <1>6 DEF SaveTimeout, LastSeconds, Exit, who
<1>7. CASE LogOffAll
  <2>1. CASE Close(Users, name)
    <3>1. Logout(Users, name) /\ state' = state /\ Users \in SUBSET Slot
      BY <1>7, <2>1 DEF LogOffAll, Close, Users
    <3> QED
      BY <3>1, LogoutCalm
  <2> QED
    BY <1>1, <1>7, <2>1 DEF LogOffAll
<1> QED
  BY <1>3, <1>4, <1>5, <1>6, <1>7

\* Sessions of one name, in whatever state, are one.
LEMMA CalmExact == Calm => HashExact
<1> SUFFICES ASSUME Calm, NEW n \in Name
             PROVE  IF Here(n) = {} THEN hash[n] = << >>
                    ELSE \E s \in Here(n) : Here(n) = {s} /\ hash[n] = <<s>>
  BY DEF HashExact, Here
<1>1. n # NoName /\ Exact(n)
  BY NameAssumption DEF Calm
<1>2. \A s, t \in Here(n) : s = t
  BY <1>1 DEF Calm, UniqueNames, Here
<1> QED
  BY <1>1, <1>2 DEF Exact, Here

\* is_online() finds the one session of a name that is online, and nobody else, as long
\* as two logins of one name have not overlapped: the kick of PasswordRight, the guests'
\* names and the entries that logout_user takes out agree.  No file is damaged: the
\* session whose load failed would have a name that is not its own.
THEOREM FoundWhileCalm ==
  ASSUME Breakable = {}
  PROVE  WatchedSpec => []ExactWhileCalm
<1> DEFINE I == IInv /\ Whole /\ (calm => NoOverlap /\ Calm)
           W == Next /\ calm' = (calm /\ NoOverlap')
<1>1. Init /\ calm = TRUE => I
  <2> SUFFICES ASSUME Init PROVE IInv /\ Whole /\ NoOverlap /\ Calm
    OBVIOUS
  <2>1. Whole
    BY DEF Init, Whole, ReadWhole, DiskWhole
  <2>2. NoOverlap /\ NamedOnceLoggedIn /\ UniqueNames
    BY DEF Init, NoOverlap, Claim, NamedOnceLoggedIn, UniqueNames, InGame
  <2>3. \A n \in Name : Exact(n)
    BY DEF Init, Exact, Online
  <2> QED
    BY <2>1, <2>2, <2>3, InitIInv DEF Calm
<1>2. I /\ [W]_<<vars, calm>> => I'
  <2> SUFFICES ASSUME IInv, Whole, calm => NoOverlap /\ Calm, [W]_<<vars, calm>> PROVE I'
    OBVIOUS
  <2>1. TypeOK /\ Tidy /\ LogoutTimerLast /\ Prompted /\ LoggedOutBeforeFreed
    BY DEF IInv, Tidy
  <2>2. Undamaged
    BY DEF Undamaged, Whole, DiskWhole
  <2>3. IInv'
    BY NextIInv
  <2>4. CASE UNCHANGED <<vars, calm>>
    BY <2>3, <2>4 DEF vars, who, Whole, ReadWhole, DiskWhole, NoOverlap, Claim, Online, Calm,
                      NamedOnceLoggedIn, UniqueNames, Exact
  <2>5. CASE W
    <3>1. Whole'
      BY <2>1, <2>5, LoginStepWhole, OtherStepWhole DEF Next, Keystroke
    <3>2. calm' => NoOverlap' /\ Calm'
      BY <2>1, <2>2, <2>5, LoginStepCalm, OtherStepCalm DEF Next, Keystroke
    <3> QED
      BY <2>3, <3>1, <3>2
  <2> QED
    BY <2>4, <2>5
<1>3. I => ExactWhileCalm
  BY CalmExact DEF ExactWhileCalm
<1> QED
  BY <1>1, <1>2, <1>3, PTL DEF WatchedSpec

=============================================================================
