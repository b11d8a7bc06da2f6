--------------------------- MODULE MessagesProofs ---------------------------
(***************************************************************************)
(* What is proved of messages.  What the handlers of the eXpress messages  *)
(* keep, for any users and any numbers of messages: the messages arrive in *)
(* order, nobody is interrupted and the place in the history is there.     *)
(* And what those of an ordinary room keep, for any users, any sizes and   *)
(* any number of messages: the files are the room, and nobody is led past  *)
(* a message.                                                              *)
(***************************************************************************)
EXTENDS XMsg, RoomMsg, FiniteSetTheorems, SequenceTheorems, TLAPS

\* Its lemmas on induction over numbers and sequences are about no queue: they serve here too.
Ind == INSTANCE TimerQueueProofs

\* What the recursion of Mails computes, for the first n of s.
Upto(f, s, n) ==
  f = [i \in 0 .. n |-> IF i = 0 THEN << >>
                        ELSE IF s[i].kind = "oneshot" THEN f[i - 1] ELSE Append(f[i - 1], s[i])]

\* The recursion of Mails has a value,
LEMMA UptoExists ==
  ASSUME NEW s PROVE \A n \in Nat : \E f : Upto(f, s, n)
<1> DEFINE S == {n \in Nat : \E f : Upto(f, s, n)}
<1>1. 0 \in S
  <2> DEFINE f == [i \in 0 .. 0 |-> << >>]
  <2>1. Upto(f, s, 0)
    BY DEF Upto
  <2> QED
    BY <2>1
<1>2. ASSUME NEW n \in Nat, n \in S PROVE n + 1 \in S
  <2>1. PICK f : Upto(f, s, n)
    BY <1>2
  <2> DEFINE m == n + 1
             g == [i \in 0 .. m |-> IF i = m
                     THEN IF s[m].kind = "oneshot" THEN f[n] ELSE Append(f[n], s[m]) ELSE f[i]]
             h == [i \in 0 .. m |-> IF i = 0 THEN << >>
                        ELSE IF s[i].kind = "oneshot" THEN g[i - 1] ELSE Append(g[i - 1], s[i])]
  <2>2. \A i \in 0 .. n : f[i] = IF i = 0 THEN << >>
                        ELSE IF s[i].kind = "oneshot" THEN f[i - 1] ELSE Append(f[i - 1], s[i])
    BY <2>1 DEF Upto
  <2>3. \A i \in 0 .. n : g[i] = f[i]
    OBVIOUS
  <2>4. ASSUME NEW i \in 0 .. m PROVE g[i] = h[i]
    <3>1. CASE i = 0
      BY <3>1, <2>2, <2>3
    <3>2. CASE i = m
      BY <3>2, <2>3
    <3>3. CASE i # 0 /\ i # m
      BY <3>3, <2>2, <2>3
    <3> QED
      BY <3>1, <3>2, <3>3
  <2>5. g = h
    BY <2>4
  <2>6. Upto(g, s, m)
    BY <2>5 DEF Upto
  <2> QED
    BY <2>6
<1> HIDE DEF S
<1>3. \A n \in Nat : n \in S
  BY <1>1, <1>2, Ind!SetInduction
<1> QED
  BY <1>3 DEF S

\* which goes on by one message at a time,
LEMMA UptoNext ==
  ASSUME NEW f, NEW s, NEW n \in Nat, NEW i \in Nat, i + 1 <= n, Upto(f, s, n)
  PROVE  f[i + 1] = IF s[i + 1].kind = "oneshot" THEN f[i] ELSE Append(f[i], s[i + 1])
<1> DEFINE j == i + 1
<1>1. j \in 0 .. n /\ j # 0 /\ j - 1 = i
  OBVIOUS
<1> HIDE DEF j
<1>2. f[j] = IF s[j].kind = "oneshot" THEN f[i] ELSE Append(f[i], s[j])
  BY <1>1 DEF Upto
<1> QED
  BY <1>2 DEF j

\* The prefix of length i does not depend on what comes after it.
LEMMA UptoAgrees ==
  ASSUME NEW s, NEW t, NEW f, NEW g, NEW m \in Nat, NEW n \in Nat, NEW k \in Nat,
         Upto(f, s, m), Upto(g, t, n), k <= m, k <= n, \A i \in 1 .. k : s[i] = t[i]
  PROVE  f[k] = g[k]
<1> DEFINE S == {i \in Nat : i <= k => f[i] = g[i]}
<1>1. 0 \in S
  BY DEF Upto
<1>2. ASSUME NEW i \in Nat, i \in S PROVE i + 1 \in S
  <2> SUFFICES ASSUME i + 1 <= k PROVE f[i + 1] = g[i + 1]
    OBVIOUS
  <2>1. f[i] = g[i] /\ s[i + 1] = t[i + 1]
    BY <1>2
  <2>2. f[i + 1] = IF s[i + 1].kind = "oneshot" THEN f[i] ELSE Append(f[i], s[i + 1])
    BY UptoNext
  <2>3. g[i + 1] = IF t[i + 1].kind = "oneshot" THEN g[i] ELSE Append(g[i], t[i + 1])
    BY UptoNext
  <2> QED
    BY <2>1, <2>2, <2>3
<1> HIDE DEF S
<1>3. \A i \in Nat : i \in S
  BY <1>1, <1>2, Ind!SetInduction
<1> QED
  BY <1>3 DEF S

\* Mails is its value at the end of s.
LEMMA MailsUpto ==
  ASSUME NEW T, NEW s \in Seq(T)
  PROVE  \E f : Upto(f, s, Len(s)) /\ Mails(s) = f[Len(s)]
<1> DEFINE f == CHOOSE f : Upto(f, s, Len(s))
<1>1. Upto(f, s, Len(s))
  BY UptoExists
<1>2. Mails(s) = f[Len(s)]
  BY DEF Mails, Upto
<1> QED
  BY <1>1, <1>2

\* The messages of no message, of one more,
LEMMA MailsEmpty == Mails(<< >>) = << >>
<1> DEFINE e == << >>
<1>1. e \in Seq({}) /\ Len(e) = 0
  OBVIOUS
<1> HIDE DEF e
<1>2. PICK f : Upto(f, e, Len(e)) /\ Mails(e) = f[Len(e)]
  BY <1>1, MailsUpto
<1>3. f[0] = << >>
  BY <1>1, <1>2 DEF Upto
<1>4. Mails(e) = << >>
  BY <1>1, <1>2, <1>3
<1> QED
  BY <1>4 DEF e

\* of a sequence with one more:
LEMMA MailsAppend ==
  ASSUME NEW T, NEW s \in Seq(T), NEW m \in T
  PROVE  Mails(Append(s, m)) = IF m.kind = "oneshot" THEN Mails(s) ELSE Append(Mails(s), m)
<1> DEFINE t == Append(s, m)
           n == Len(s)
<1>1. t \in Seq(T) /\ Len(t) = n + 1 /\ n \in Nat /\ t[n + 1] = m /\ \A i \in 1 .. n : s[i] = t[i]
  OBVIOUS
<1>2. PICK f : Upto(f, s, n) /\ Mails(s) = f[n]
  BY MailsUpto
<1>3. PICK g : Upto(g, t, n + 1) /\ Mails(t) = g[n + 1]
  BY <1>1, MailsUpto
<1> HIDE DEF t, n
<1>4. f[n] = g[n]
  BY <1>1, <1>2, <1>3, UptoAgrees
<1>5. g[n + 1] = IF m.kind = "oneshot" THEN g[n] ELSE Append(g[n], m)
  <2>1. g[n + 1] = IF t[n + 1].kind = "oneshot" THEN g[n] ELSE Append(g[n], t[n + 1])
    BY <1>1, <1>3, UptoNext
  <2> QED
    BY <2>1, <1>1
<1> QED
  BY <1>2, <1>3, <1>4, <1>5 DEF t

\* No notification is left;
LEMMA MailsType ==
  ASSUME NEW T, NEW s \in Seq(T)
  PROVE  Mails(s) \in Seq({m \in T : m.kind # "oneshot"})
<1> DEFINE M == {m \in T : m.kind # "oneshot"}
           S == {t \in Seq(T) : Mails(t) \in Seq(M)}
<1>1. \A m \in T : m.kind # "oneshot" => m \in M
  OBVIOUS
<1> HIDE DEF M
<1>2. << >> \in S
  <2>1. << >> \in Seq(T) /\ << >> \in Seq(M)
    OBVIOUS
  <2> QED
    BY <2>1, MailsEmpty
<1>3. ASSUME NEW t \in Seq(T), NEW m \in T, t \in S PROVE Append(t, m) \in S
  <2>1. Mails(Append(t, m)) = IF m.kind = "oneshot" THEN Mails(t) ELSE Append(Mails(t), m)
    BY MailsAppend
  <2>2. Mails(t) \in Seq(M) /\ Append(t, m) \in Seq(T)
    BY <1>3
  <2>3. Mails(Append(t, m)) \in Seq(M)
    BY <1>1, <2>1, <2>2
  <2> QED
    BY <2>2, <2>3
<1> HIDE DEF S
<1>4. s \in S
  BY <1>2, <1>3, Ind!SeqInduction
<1>5. Mails(s) \in Seq(M)
  BY <1>4 DEF S
<1> QED
  BY <1>5 DEF M

\* the messages of two sequences are those of the first, and then those of the second;
LEMMA MailsConcat ==
  ASSUME NEW T, NEW s \in Seq(T), NEW t \in Seq(T)
  PROVE  Mails(s \o t) = Mails(s) \o Mails(t)
<1> DEFINE S == {r \in Seq(T) : Mails(s \o r) = Mails(s) \o Mails(r)}
<1>1. ASSUME NEW r \in Seq(T) PROVE Mails(r) \in Seq(T)
  <2> DEFINE M == {m \in T : m.kind # "oneshot"}
  <2>1. Mails(r) \in Seq(M)
    BY MailsType
  <2>2. M \subseteq T
    OBVIOUS
  <2> HIDE DEF M
  <2> QED
    BY <2>1, <2>2
<1>2. << >> \in S
  BY MailsEmpty, <1>1
<1>3. ASSUME NEW r \in Seq(T), NEW m \in T, r \in S PROVE Append(r, m) \in S
  <2>1. s \o Append(r, m) = Append(s \o r, m) /\ s \o r \in Seq(T) /\ Append(r, m) \in Seq(T)
    OBVIOUS
  <2>2. Mails(s \o Append(r, m)) = IF m.kind = "oneshot" THEN Mails(s \o r)
                                   ELSE Append(Mails(s \o r), m)
    BY <2>1, MailsAppend
  <2>3. Mails(Append(r, m)) = IF m.kind = "oneshot" THEN Mails(r) ELSE Append(Mails(r), m)
    BY MailsAppend
  <2>4. Mails(s \o r) = Mails(s) \o Mails(r)
    BY <1>3
  <2>5. Append(Mails(s) \o Mails(r), m) = Mails(s) \o Append(Mails(r), m)
    <3> DEFINE a == Mails(s)
               b == Mails(r)
               c == a \o b
               e == <<m>>
    <3>1. a \in Seq(T) /\ b \in Seq(T)
      BY <1>1
    <3> HIDE DEF a, b
    <3>2. c \in Seq(T)
      BY <3>1
    <3> HIDE DEF c
    <3>3. Append(b, m) = b \o <<m>>
      BY <3>1, AppendIsConcat
    <3>4. Append(c, m) = c \o <<m>>
      BY <3>2, AppendIsConcat
    <3>5. e \in Seq(T)
      OBVIOUS
    <3> HIDE DEF e
    <3>6. c \o e = a \o (b \o e)
      BY <3>1, <3>5, ConcatAssociative DEF c
    <3> QED
      BY <3>3, <3>4, <3>6 DEF a, b, c, e
  <2> QED
    BY <2>1, <2>2, <2>3, <2>4, <2>5
<1> HIDE DEF S
<1>4. t \in S
  BY <1>2, <1>3, Ind!SeqInduction
<1> QED
  BY <1>4 DEF S

\* where no notification is, nothing is taken out.
LEMMA MailsAll ==
  ASSUME NEW T, NEW s \in Seq(T), \A i \in DOMAIN s : s[i].kind # "oneshot"
  PROVE  Mails(s) = s
<1> DEFINE M == {m \in T : m.kind # "oneshot"}
           S == {r \in Seq(M) : Mails(r) = r}
<1>1. << >> \in S
  BY MailsEmpty
<1>2. ASSUME NEW r \in Seq(M), NEW m \in M, r \in S PROVE Append(r, m) \in S
  <2>1. r \in Seq(T)
    OBVIOUS
  <2> QED
    BY <1>2, <2>1, MailsAppend
<1> HIDE DEF S
<1>3. \A r \in Seq(M) : r \in S
  BY <1>1, <1>2, Ind!SeqInduction
<1>4. s \in Seq(M)
  <2>1. \A i \in 1 .. Len(s) : s[i] \in M
    OBVIOUS
  <2> HIDE DEF M
  <2> QED
    BY <2>1
<1> QED
  BY <1>3, <1>4 DEF S

\* IdsOf goes through sequences as well.
LEMMA IdsConcat ==
  ASSUME NEW T, NEW s \in Seq(T), NEW t \in Seq(T), NEW m \in T
  PROVE  /\ IdsOf(<< >>) = << >>
         /\ IdsOf(s \o t) = IdsOf(s) \o IdsOf(t)
         /\ IdsOf(Append(s, m)) = Append(IdsOf(s), m.id)
  BY DEF IdsOf

-----------------------------------------------------------------------------
\* The messages, without and with the notifications.
MailOf == {m \in MsgOf : m.kind # "oneshot" /\ m.id <= MaxSent}
NoteOf == {m \in MsgOf : m.kind # "oneshot" => m.id <= MaxSent}

Place == 0 .. MaxSent + MaxTold

Session == [online : BOOLEAN, stack : Seq(Frame),
            flags : SUBSET {"busy", "sending", "hold", "locked", "stuck"},
            to : SUBSET User, todo : SUBSET User,
            send : Seq(MailOf), held : Seq(NoteOf), hist : Seq(MailOf),
            held_p : Place, hist_p : Place,
            arrived : Seq(1 .. MaxSent), taken : Seq(1 .. MaxSent)]

\* Nothing was lost, and the place in the history is there.
Kept(r) ==
  /\ r.arrived = r.taken \o IdsOf(Mails(r.held))
  /\ r.hist_p # NoMsg => r.hist_p \in Range(IdsOf(r.hist))

\* Where the prompts are on the stack: the room prompt below all, and nothing on top
\* of those that a key leaves at once.
Shape(s) ==
  \A i \in DOMAIN s :
    /\ s[i] = "room" <=> i = Len(s)
    /\ s[i] = "mail_ask" => i = 1 /\ Len(s) > 1 /\ s[2] = "loop"
    /\ s[i] = "held_move" => i = 1 /\ Len(s) > 1 /\ s[2] = "held"
    /\ s[i] = "loop" => i = 1 \/ (i = 2 /\ s[1] = "mail_ask")

On(r, f) == \E i \in DOMAIN r.stack : r.stack[i] = f

\* The loop has a message to send, and the place among what is held is that of a prompt.
Placed(r) ==
  /\ On(r, "loop") => r.send # << >>
  /\ r.held_p # NoMsg => On(r, "held")

Polite(r) ==
  r.online => IF Top(r) = "room" THEN ~IsBusy(r) /\ (r.held = << >> \/ OnHold(r))
              ELSE IsBusy(r)

Good(r) == r \in Session /\ Kept(r) /\ Shape(r.stack) /\ Placed(r) /\ Polite(r)

AllGood(s) == DOMAIN s = User /\ \A w \in User : Good(s[w])

Counts == sent \in 0 .. MaxSent /\ told \in 0 .. MaxTold /\ wild \in BOOLEAN

IInv == AllGood(us) /\ Counts

Flag == {"busy", "sending", "hold", "locked", "stuck"}

\* A frame on a stack.
LEMMA PushShape ==
  ASSUME NEW s \in Seq(Frame), s # << >>, Shape(s), Head(s) \notin {"mail_ask", "held_move"},
         NEW f \in Frame \ {"room"},
         f \in {"mail_ask"} => Head(s) = "loop", f = "held_move" => Head(s) = "held",
         f # "mail_ask" => Head(s) # "loop"
  PROVE  /\ Shape(<<f>> \o s) /\ <<f>> \o s \in Seq(Frame)
         /\ \A g : (\E i \in DOMAIN s : s[i] = g)
                      => \E i \in DOMAIN (<<f>> \o s) : (<<f>> \o s)[i] = g
         /\ \A g : (\E i \in DOMAIN (<<f>> \o s) : (<<f>> \o s)[i] = g)
                      => g = f \/ \E i \in DOMAIN s : s[i] = g
<1> DEFINE t == <<f>> \o s
<1>1. t \in Seq(Frame) /\ Len(t) = Len(s) + 1 /\ t[1] = f /\ Len(s) \in Nat /\ Len(s) > 0
  OBVIOUS
<1>2. \A i \in 1 .. Len(s) : t[i + 1] = s[i]
  OBVIOUS
<1>3. DOMAIN t = 1 .. Len(s) + 1 /\ DOMAIN s = 1 .. Len(s) /\ Head(s) = s[1] /\ t[2] = s[1]
  BY <1>1, <1>2
<1> HIDE DEF t
<1>4. \A i \in DOMAIN t : i = 1 \/ (i - 1 \in DOMAIN s /\ t[i] = s[i - 1])
  BY <1>1, <1>2, <1>3
<1>5. ASSUME NEW i \in DOMAIN t
      PROVE  /\ t[i] = "room" <=> i = Len(t)
             /\ t[i] = "mail_ask" => i = 1 /\ Len(t) > 1 /\ t[2] = "loop"
             /\ t[i] = "held_move" => i = 1 /\ Len(t) > 1 /\ t[2] = "held"
             /\ t[i] = "loop" => i = 1 \/ (i = 2 /\ t[1] = "mail_ask")
  <2>1. CASE i = 1
    BY <2>1, <1>1, <1>3
  <2>2. CASE i - 1 \in DOMAIN s /\ t[i] = s[i - 1]
    BY <2>2, <1>1, <1>3 DEF Shape
  <2> QED
    BY <1>4, <2>1, <2>2
<1>6. Shape(t)
  BY <1>5 DEF Shape
<1>7. ASSUME NEW g, NEW i \in DOMAIN s, s[i] = g PROVE \E j \in DOMAIN t : t[j] = g
  <2>1. i + 1 \in DOMAIN t /\ t[i + 1] = g
    BY <1>7, <1>1, <1>2, <1>3
  <2> QED
    BY <2>1
<1>8. ASSUME NEW g, NEW i \in DOMAIN t, t[i] = g PROVE g = f \/ \E j \in DOMAIN s : s[j] = g
  BY <1>8, <1>4, <1>1
<1> QED
  BY <1>1, <1>6, <1>7, <1>8 DEF t

\* RET from any prompt but that of the mail.
LEMMA PopShape ==
  ASSUME NEW s \in Seq(Frame), s # << >>, Shape(s), Head(s) # "mail_ask"
  PROVE  /\ Tail(s) \in Seq(Frame) /\ Shape(Tail(s))
         /\ \A i \in DOMAIN Tail(s) : Tail(s)[i] \notin {"loop", "mail_ask", "held_move"}
         /\ Tail(s) # << >> /\ Head(Tail(s)) = "room" => Tail(s) = <<"room">>
         /\ Head(s) # "room" => Tail(s) # << >>
         /\ \A g : (\E i \in DOMAIN s : s[i] = g)
                      => g = Head(s) \/ \E i \in DOMAIN Tail(s) : Tail(s)[i] = g
<1> DEFINE t == Tail(s)
<1>1. t \in Seq(Frame) /\ Len(t) = Len(s) - 1 /\ Len(s) \in Nat /\ Len(s) > 0
        /\ Head(s) = s[1]
  OBVIOUS
<1>2. DOMAIN t = 1 .. Len(t) /\ DOMAIN s = 1 .. Len(s) /\ \A i \in DOMAIN t : t[i] = s[i + 1]
  OBVIOUS
<1> HIDE DEF t
<1>3. \A i \in DOMAIN t : i + 1 \in DOMAIN s /\ i + 1 # 1 /\ t[i] = s[i + 1]
  BY <1>1, <1>2
<1>4. \A i \in DOMAIN t : /\ t[i] \notin {"loop", "mail_ask", "held_move"}
                          /\ t[i] = "room" <=> i = Len(t)
  BY <1>1, <1>2, <1>3 DEF Shape
<1>5. Shape(t)
  BY <1>4 DEF Shape
<1>6. ASSUME t # << >>, Head(t) = "room" PROVE t = <<"room">>
  <2>1. 1 \in DOMAIN t /\ Head(t) = t[1]
    BY <1>1, <1>2, <1>6
  <2>2. Len(t) = 1
    BY <2>1, <1>6, <1>4
  <2> QED
    BY <2>1, <2>2, <1>6, <1>1
<1>7. Head(s) # "room" => t # << >>
  <2> SUFFICES ASSUME t = << >> PROVE s[1] = "room"
    BY <1>1
  <2>1. Len(s) = 1 /\ 1 \in DOMAIN s
    BY <1>1, <1>2
  <2> QED
    BY <2>1 DEF Shape
<1>8. ASSUME NEW g, NEW i \in DOMAIN s, s[i] = g PROVE g = Head(s) \/ \E j \in DOMAIN t : t[j] = g
  <2>1. i = 1 \/ (i - 1 \in DOMAIN t /\ t[i - 1] = s[i])
    BY <1>1, <1>2
  <2> QED
    BY <2>1, <1>8, <1>1
<1> QED
  BY <1>1, <1>4, <1>5, <1>6, <1>8, <1>7 DEF t

-----------------------------------------------------------------------------
PlaceIn(p, h) == p # NoMsg => p \in Range(IdsOf(h))

\* A place in h, by its position.
LEMMA PlaceAt ==
  ASSUME NEW p, NEW h
  PROVE  PlaceIn(p, h) <=> (p # NoMsg => \E i \in 1 .. Len(h) : h[i].id = p)
  BY DEF PlaceIn, Range, IdsOf

\* The history may lose its first message, but not the place in it.
LEMMA RememberKeeps ==
  ASSUME NEW r \in Session, PlaceIn(r.hist_p, r.hist), NEW m \in MailOf
  PROVE  \E h \in Seq(MailOf) : Remember(r, m) = [r EXCEPT !.hist = h] /\ PlaceIn(r.hist_p, h)
<1> DEFINE g == Append(r.hist, m)
           h == IF r.hist_p # Head(g).id /\ Len(g) > MaxHistory THEN Tail(g) ELSE g
<1>1. r.hist \in Seq(MailOf)
  BY DEF Session
<1>2. g \in Seq(MailOf) /\ Len(g) = Len(r.hist) + 1 /\ Len(r.hist) \in Nat /\ Head(g) = g[1]
        /\ Tail(g) \in Seq(MailOf) /\ Len(Tail(g)) = Len(g) - 1
  BY <1>1
<1>3. \A i \in 1 .. Len(r.hist) : g[i] = r.hist[i] /\ Tail(g)[i] = g[i + 1]
  BY <1>1
<1>4. Remember(r, m) = [r EXCEPT !.hist = h]
  BY DEF Remember
<1> HIDE DEF g
<1>5. h \in Seq(MailOf)
  BY <1>2
<1>6. ASSUME r.hist_p # NoMsg PROVE \E i \in 1 .. Len(h) : h[i].id = r.hist_p
  <2>1. PICK i \in 1 .. Len(r.hist) : g[i].id = r.hist_p
    BY <1>6, <1>3, PlaceAt
  <2>2. CASE h = g
    BY <2>1, <2>2, <1>2
  <2>3. CASE h = Tail(g) /\ r.hist_p # Head(g).id
    <3>1. i # 1 /\ i - 1 \in 1 .. Len(r.hist)
      BY <2>1, <2>3, <1>2
    <3>2. Tail(g)[i - 1] = g[i - 1 + 1]
      BY <3>1, <1>3
    <3>3. i - 1 + 1 = i /\ i - 1 \in 1 .. Len(Tail(g))
      BY <3>1, <1>2
    <3> QED
      BY <3>1, <3>2, <3>3, <2>1, <2>3
  <2> QED
    BY <2>2, <2>3
<1> HIDE DEF h
<1>7. PlaceIn(r.hist_p, h)
  BY <1>6, PlaceAt
<1> QED
  BY <1>4, <1>5, <1>7

\* Nor does it when a message is received,
LEMMA ReceiveKeeps ==
  ASSUME NEW r \in Session, PlaceIn(r.hist_p, r.hist), NEW m \in MailOf
  PROVE  \E h \in Seq(MailOf) :
           /\ Receive(r, m) = [r EXCEPT !.hist = h, !.taken = Append(r.taken, m.id)]
           /\ PlaceIn(r.hist_p, h)
<1>1. PICK h \in Seq(MailOf) : Remember(r, m) = [r EXCEPT !.hist = h] /\ PlaceIn(r.hist_p, h)
  BY RememberKeeps
<1>2. Receive(r, m) = [r EXCEPT !.hist = h, !.taken = Append(r.taken, m.id)]
  BY <1>1 DEF Receive, Session
<1> QED
  BY <1>1, <1>2

\* What the recursion of ReceiveAll computes, for the first n of s.
Got(f, r, s, n) == f = [i \in 0 .. n |-> IF i = 0 THEN r ELSE Receive(f[i - 1], s[i])]

\* (the recursion of ReceiveAll has a value)
LEMMA GotExists ==
  ASSUME NEW r, NEW s PROVE \A n \in Nat : \E f : Got(f, r, s, n)
<1> DEFINE S == {n \in Nat : \E f : Got(f, r, s, n)}
<1>1. 0 \in S
  <2> DEFINE f == [i \in 0 .. 0 |-> r]
  <2>1. Got(f, r, s, 0)
    BY DEF Got
  <2> QED
    BY <2>1
<1>2. ASSUME NEW n \in Nat, n \in S PROVE n + 1 \in S
  <2>1. PICK f : Got(f, r, s, n)
    BY <1>2
  <2> DEFINE m == n + 1
             g == [i \in 0 .. m |-> IF i = m THEN Receive(f[n], s[m]) ELSE f[i]]
             h == [i \in 0 .. m |-> IF i = 0 THEN r ELSE Receive(g[i - 1], s[i])]
  <2>2. \A i \in 0 .. n : f[i] = IF i = 0 THEN r ELSE Receive(f[i - 1], s[i])
    BY <2>1 DEF Got
  <2>3. \A i \in 0 .. n : g[i] = f[i]
    OBVIOUS
  <2>4. ASSUME NEW i \in 0 .. m PROVE g[i] = h[i]
    <3>1. CASE i = 0
      BY <3>1, <2>2, <2>3
    <3>2. CASE i = m
      BY <3>2, <2>3
    <3>3. CASE i # 0 /\ i # m
      BY <3>3, <2>2, <2>3
    <3> QED
      BY <3>1, <3>2, <3>3
  <2>5. g = h
    BY <2>4
  <2>6. Got(g, r, s, m)
    BY <2>5 DEF Got
  <2> QED
    BY <2>6
<1> HIDE DEF S
<1>3. \A n \in Nat : n \in S
  BY <1>1, <1>2, Ind!SetInduction
<1> QED
  BY <1>3 DEF S

\* nor when many are; and all of them are taken, in their order.
LEMMA ReceiveAllKeeps ==
  ASSUME NEW r \in Session, PlaceIn(r.hist_p, r.hist), NEW s \in Seq(MailOf)
  PROVE  \E h \in Seq(MailOf) :
           /\ ReceiveAll(r, s) = [r EXCEPT !.hist = h, !.taken = r.taken \o IdsOf(s)]
           /\ PlaceIn(r.hist_p, h)
<1> DEFINE f == CHOOSE f : Got(f, r, s, Len(s))
           ids == IdsOf(s)
           Is(n, h) == /\ f[n] = [r EXCEPT !.hist = h, !.taken = r.taken \o SubSeq(ids, 1, n)]
                       /\ PlaceIn(r.hist_p, h)
           S == {n \in Nat : n <= Len(s) => \E h \in Seq(MailOf) : Is(n, h)}
<1>1. Len(s) \in Nat /\ Got(f, r, s, Len(s))
  BY GotExists
<1>2. ReceiveAll(r, s) = f[Len(s)]
  BY DEF ReceiveAll, Got
<1>3. /\ r.hist \in Seq(MailOf) /\ r.taken \in Seq(1 .. MaxSent)
      /\ ids \in Seq(1 .. MaxSent) /\ Len(ids) = Len(s)
      /\ \A i \in 1 .. Len(s) : ids[i] = s[i].id /\ ids[i] \in 1 .. MaxSent
  <2>1. \A i \in 1 .. Len(s) : s[i] \in MailOf
    OBVIOUS
  <2>2. \A m \in MailOf : m.id \in 1 .. MaxSent
    BY XMsgAssumption DEF MailOf, MsgOf, Id
  <2> QED
    BY <2>1, <2>2 DEF Session, IdsOf
<1> HIDE DEF f, ids, Is
<1>4. 0 \in S
  <2>1. f[0] = r
    BY <1>1 DEF Got
  <2>2. SubSeq(ids, 1, 0) = << >>
    BY <1>3
  <2>3. r.taken \o << >> = r.taken
    BY <1>3
  <2>4. Is(0, r.hist)
    BY <2>1, <2>2, <2>3 DEF Session, Is
  <2> QED
    BY <2>4, <1>3
<1>5. ASSUME NEW n \in Nat, n \in S PROVE n + 1 \in S
  <2> SUFFICES ASSUME n + 1 <= Len(s) PROVE \E h \in Seq(MailOf) : Is(n + 1, h)
    OBVIOUS
  <2> DEFINE j == n + 1
             a == SubSeq(ids, 1, n)
             e == <<s[j].id>>
             q == f[n]
  <2>1. j \in 1 .. Len(s) /\ j - 1 = n /\ s[j] \in MailOf /\ n \in 0 .. Len(s)
    BY <1>1
  <2>2. PICK g \in Seq(MailOf) : Is(n, g)
    BY <1>5, <2>1
  <2>3. q = [r EXCEPT !.hist = g, !.taken = r.taken \o a] /\ PlaceIn(r.hist_p, g)
    BY <2>2 DEF Is
  <2>4. a \in Seq(1 .. MaxSent) /\ e \in Seq(1 .. MaxSent) /\ SubSeq(ids, 1, j) = a \o e
    <3>1. SubSeq(ids, 1, j) = SubSeq(ids, 1, j - 1) \o <<ids[j]>>
      <4>1. ids \in Seq(1 .. MaxSent) /\ 1 \in 1 .. Len(ids) /\ j \in 1 .. Len(ids)
        BY <2>1, <1>3
      <4> HIDE DEF ids, j
      <4> QED
        BY <4>1, SubSeqRecursiveSecond
    <3>2. a \in Seq(1 .. MaxSent)
      <4>1. \A i \in 1 .. n : ids[i] \in 1 .. MaxSent
        BY <1>1, <1>3, <2>1
      <4> QED
        BY <4>1, SubSeqProperties
    <3>3. ids[j] = s[j].id /\ ids[j] \in 1 .. MaxSent
      BY <1>3, <2>1, Zenon
    <3> QED
      BY <3>1, <3>2, <3>3, <2>1
  <2> HIDE DEF j, a, e
  <2>5. f[j] = Receive(q, s[j])
    BY <1>1, <2>1 DEF Got
  <2>6. /\ q \in Session /\ q.hist = g /\ q.hist_p = r.hist_p /\ q.taken = r.taken \o a
    <3>1. r.taken \o a \in Seq(1 .. MaxSent)
      BY <2>4, <1>3
    <3> QED
      BY <2>3, <3>1 DEF Session
  <2> HIDE DEF q
  <2>7. PICK h \in Seq(MailOf) :
          /\ Receive(q, s[j]) = [q EXCEPT !.hist = h, !.taken = Append(q.taken, s[j].id)]
                                 /\ PlaceIn(q.hist_p, h)
    BY <2>1, <2>3, <2>6, ReceiveKeeps
  <2>8. Append(q.taken, s[j].id) = r.taken \o SubSeq(ids, 1, j)
    <3>1. q.taken \in Seq(1 .. MaxSent) /\ s[j].id \in 1 .. MaxSent
      <4>1. s[j].id \in 1 .. MaxSent
        BY <2>1, <1>3, Zenon
      <4> QED
        BY <4>1, <2>6 DEF Session
    <3>2. Append(q.taken, s[j].id) = q.taken \o <<s[j].id>>
      BY <3>1, AppendIsConcat
    <3> DEFINE k == r.taken
    <3>3. k \in Seq(1 .. MaxSent)
      BY <1>3
    <3> HIDE DEF k
    <3>4. (k \o a) \o e = k \o (a \o e)
      BY <2>4, <3>3, ConcatAssociative
    <3> QED
      BY <3>2, <3>4, <2>4, <2>6 DEF e, k
  <2>9. Is(j, h)
    <3>1. f[j] = [r EXCEPT !.hist = h, !.taken = r.taken \o SubSeq(ids, 1, j)]
      BY <2>5, <2>7, <2>8, <2>3 DEF Session, q
    <3> QED
      BY <3>1, <2>6, <2>7 DEF Is
  <2> QED
    BY <2>9 DEF j
<1> HIDE DEF S
<1>6. Len(s) \in S
  BY <1>1, <1>4, <1>5, Ind!SetInduction
<1>7. SubSeq(ids, 1, Len(s)) = ids
  BY <1>3, SubSeqFull
<1>8. PICK h \in Seq(MailOf) : Is(Len(s), h)
  BY <1>6, <1>1 DEF S
<1> QED
  BY <1>2, <1>7, <1>8 DEF ids, Is

-----------------------------------------------------------------------------
(* What the operators of a session keep.                                     *)

\* Who calls a function gets to a state that is as good.
LEMMA PushGood ==
  ASSUME NEW r \in Session, Kept(r), Shape(r.stack),
         r.stack # << >>, Head(r.stack) \notin {"mail_ask", "held_move"},
         NEW f \in Frame \ {"room"},
         f = "mail_ask" => Head(r.stack) = "loop", f = "held_move" => Head(r.stack) = "held",
         f # "mail_ask" => Head(r.stack) # "loop",
         f = "loop" \/ On(r, "loop") => r.send # << >>,
         r.held_p # NoMsg => f = "held" \/ On(r, "held"),
         NEW fs \in SUBSET Flag, "busy" \in fs \union r.flags
  PROVE  Good(Calls(r, f, fs)) /\ Top(Calls(r, f, fs)) = f
<1> DEFINE q == Calls(r, f, fs)
           t == <<f>> \o r.stack
<1>1. r.stack \in Seq(Frame)
  BY DEF Session
<1>2. /\ Shape(t) /\ t \in Seq(Frame)
      /\ \A g : On(r, g) => \E i \in DOMAIN t : t[i] = g
      /\ \A g : (\E i \in DOMAIN t : t[i] = g) => g = f \/ On(r, g)
  BY <1>1, PushShape DEF On
<1>3. t # << >> /\ Head(t) = f
  BY <1>1
<1>4. \E i \in DOMAIN t : t[i] = f
  BY <1>1
<1>5. q = [r EXCEPT !.stack = t, !.flags = r.flags \union fs]
  BY DEF Calls, Session
<1> HIDE DEF t
<1>6. /\ q \in Session /\ q.stack = t /\ q.flags = r.flags \union fs
      /\ q.arrived = r.arrived /\ q.taken = r.taken /\ q.held = r.held /\ q.hist = r.hist
      /\ q.hist_p = r.hist_p /\ q.held_p = r.held_p /\ q.send = r.send
  BY <1>2, <1>5 DEF Session, Flag
<1> HIDE DEF q
<1>7. Kept(q)
  BY <1>6 DEF Kept
<1>8. Placed(q)
  BY <1>2, <1>6, <1>4 DEF Placed, On
<1>9. Top(q) = f
  BY <1>3, <1>6 DEF Top
<1>10. Polite(q)
  BY <1>6, <1>9 DEF Polite, IsBusy
<1> QED
  BY <1>2, <1>6, <1>7, <1>8, <1>9, <1>10 DEF Good, q

\* A user at his room prompt.
Home(r) == r \in Session /\ Kept(r) /\ r.stack = <<"room">> /\ r.held_p = NoMsg /\ ~IsBusy(r)

\* The stack of the room prompt.
LEMMA HomeShape == Shape(<<"room">>) /\ \A r : r.stack = <<"room">> =>
   r.stack # << >> /\ Head(r.stack) = "room" /\ Top(r) = "room" /\ \A f : On(r, f) <=> f = "room"
<1> DEFINE s == <<"room">>
<1>1. DOMAIN s = {1} /\ Len(s) = 1 /\ s[1] = "room" /\ s # << >> /\ Head(s) = "room"
  OBVIOUS
<1> HIDE DEF s
<1>2. Shape(s)
  BY <1>1 DEF Shape
<1>3. ASSUME NEW r, r.stack = s PROVE Top(r) = "room" /\ \A f : On(r, f) <=> f = "room"
  BY <1>1, <1>3 DEF Top, On
<1> QED
  BY <1>1, <1>2, <1>3 DEF s

\* At the room prompt; calling a function from there; answering from there.
LEMMA HomeGood ==
  ASSUME NEW r, Home(r), r.held = << >> \/ OnHold(r)
  PROVE  Good(r)
  BY HomeShape DEF Good, Home, Placed, Polite

\* A function that is called from the room prompt.
LEMMA HomePush ==
  ASSUME NEW r, Home(r), NEW f \in Frame \ {"room", "mail_ask", "held_move", "loop", "held"},
         NEW fs \in SUBSET Flag, "busy" \in fs
  PROVE  Good(Calls(r, f, fs)) /\ Top(Calls(r, f, fs)) = f
<1>1. /\ r \in Session /\ Kept(r) /\ Shape(r.stack) /\ r.stack # << >>
        /\ Head(r.stack) = "room"
      /\ ~On(r, "loop") /\ r.held_p = NoMsg
  BY HomeShape DEF Home
<1> QED
  BY <1>1, PushGood

\* An answer, from the room prompt.
LEMMA ReplyGood ==
  ASSUME NEW r, Home(r), NEW v \in User
  PROVE  Good(ReplyTo(r, v))
<1> DEFINE q == [r EXCEPT !.to = {v}]
<1>1. Home(q)
  BY DEF Home, Session, Kept, IsBusy
<1>2. "edit" \in Frame \ {"room", "mail_ask", "held_move", "loop", "held"}
        /\ Writing \in SUBSET Flag /\ "busy" \in Writing
  BY DEF Frame, Writing, Flag
<1> HIDE DEF q
<1>3. Good(Calls(q, "edit", Writing))
  BY <1>1, <1>2, HomePush
<1> QED
  BY <1>3 DEF ReplyTo, q

\* The ids of messages are numbers of messages.
LEMMA IdsType ==
  ASSUME NEW s \in Seq(MailOf) PROVE IdsOf(s) \in Seq(1 .. MaxSent)
<1>1. \A i \in 1 .. Len(s) : s[i] \in MailOf
  OBVIOUS
<1>2. \A m \in MailOf : m.id \in 1 .. MaxSent
  BY XMsgAssumption DEF MailOf, MsgOf, Id
<1> QED
  BY <1>1, <1>2 DEF IdsOf

\* The messages among what is held.
LEMMA MailsOfNotes ==
  ASSUME NEW s \in Seq(NoteOf)
  PROVE  /\ Mails(s) \in Seq(MailOf) /\ Mails(s) \in Seq(NoteOf)
         /\ Mails(Mails(s)) = Mails(s) /\ IdsOf(Mails(s)) \in Seq(1 .. MaxSent)
<1>1. {m \in NoteOf : m.kind # "oneshot"} = MailOf /\ MailOf \subseteq NoteOf
  BY DEF NoteOf, MailOf
<1>2. Mails(s) \in Seq(MailOf)
  BY <1>1, MailsType
<1>3. Mails(s) \in Seq(NoteOf)
  BY <1>1, <1>2, SeqMonotonic
<1> DEFINE t == Mails(s)
<1>4. t \in Seq(MailOf)
  BY <1>2
<1> HIDE DEF t
<1>5. \A i \in DOMAIN t : t[i].kind # "oneshot"
  <2>1. \A i \in DOMAIN t : t[i] \in MailOf
    BY <1>4
  <2> QED
    BY <2>1 DEF MailOf
<1>6. Mails(t) = t
  BY <1>4, <1>5, MailsAll
<1> QED
  BY <1>2, <1>3, <1>6, IdsType DEF t

\* What is displayed stops at a message that is answered, or at the end.
LEMMA DisplayedIn ==
  ASSUME NEW u, NEW s, NEW held \in Seq(NoteOf), held # << >>
  PROVE  LET n == Displayed(u, s, held) IN
         /\ n \in 1 .. Len(held)
         /\ ~(held[n].kind # "oneshot" /\ AutoReply(u, held[n]) /\ s[held[n].from].online)
               => n = Len(held)
<1> DEFINE stops == {i \in DOMAIN held : /\ held[i].kind # "oneshot"
                                         /\ AutoReply(u, held[i]) /\ s[held[i].from].online}
           n == Displayed(u, s, held)
<1>1. DOMAIN held = 1 .. Len(held) /\ Len(held) \in Nat /\ Len(held) > 0
  OBVIOUS
<1>2. n = IF stops = {} THEN Len(held) ELSE CHOOSE i \in stops : \A j \in stops : i <= j
  BY DEF Displayed
<1>3. stops \subseteq 1 .. Len(held) /\ stops \subseteq Nat
  BY <1>1
<1>4. \A i \in stops : held[i].kind # "oneshot" /\ AutoReply(u, held[i]) /\ s[held[i].from].online
  OBVIOUS
<1> HIDE DEF stops, n
<1>5. CASE stops = {}
  BY <1>5, <1>1, <1>2 DEF n
<1>6. CASE stops # {}
  <2>1. \E i \in stops : \A j \in stops : i <= j
    BY <1>6, <1>3, Ind!LeastNat
  <2>2. n \in stops
    BY <2>1, <1>2, <1>6
  <2> QED
    BY <2>2, <1>3, <1>4 DEF n
<1> QED
  BY <1>5, <1>6

\* All or some of what is held is displayed: it is taken in its order.
LEMMA SpewGood ==
  ASSUME NEW u, NEW s, NEW r, Home(r), r.held # << >>
  PROVE  Good(Spew(u, s, r))
<1> DEFINE n     == Displayed(u, s, r.held)
           last  == r.held[n]
           a     == SubSeq(r.held, 1, n)
           b     == SubSeq(r.held, n + 1, Len(r.held))
           rest  == [r EXCEPT !.held = b]
           ma    == Mails(a)
           mb    == Mails(b)
           seen  == ReceiveAll(rest, ma)
           reply == last.kind # "oneshot" /\ AutoReply(u, last) /\ s[last.from].online
<1>1. r \in Session /\ r.held \in Seq(NoteOf) /\ Kept(r)
  BY DEF Home, Session
<1>2. n \in 1 .. Len(r.held) /\ (~reply => n = Len(r.held))
  BY <1>1, DisplayedIn
<1>3. Spew(u, s, r) = IF reply THEN ReplyTo(seen, last.from) ELSE seen
  BY <1>1 DEF Spew, Session
<1>4. last.from \in User
  <2>1. last \in NoteOf
    BY <1>1, <1>2
  <2> QED
    BY <2>1 DEF NoteOf, MsgOf
<1> HIDE DEF n
<1>5. a \in Seq(NoteOf) /\ b \in Seq(NoteOf) /\ a \o b = r.held /\ (~reply => b = << >>)
  <2>1. \A i \in 1 .. Len(r.held) : r.held[i] \in NoteOf
    BY <1>1
  <2>2. a \in Seq(NoteOf)
    BY <1>2, <2>1, SubSeqProperties
  <2>3. b \in Seq(NoteOf)
    BY <1>2, <2>1, SubSeqProperties
  <2>4. a \o b = SubSeq(r.held, 1, Len(r.held))
    BY <1>1, <1>2, ConcatAdjacentSubSeq
  <2>5. SubSeq(r.held, 1, Len(r.held)) = r.held
    BY <1>1, SubSeqFull
  <2>6. ~reply => b = << >>
    BY <1>1, <1>2, SubSeqEmpty
  <2> QED
    BY <2>2, <2>3, <2>4, <2>5, <2>6
<1> HIDE DEF a, b, last, reply
<1>6. ma \in Seq(MailOf) /\ IdsOf(ma) \in Seq(1 .. MaxSent)
        /\ mb \in Seq(MailOf) /\ IdsOf(mb) \in Seq(1 .. MaxSent)
  BY <1>5, MailsOfNotes
<1>7. Mails(r.held) = ma \o mb
  BY <1>5, MailsConcat
<1>8. rest \in Session /\ rest.hist_p = r.hist_p /\ rest.hist = r.hist
        /\ rest.taken = r.taken
  BY <1>1, <1>5 DEF Session
<1> HIDE DEF ma, mb
<1>9. PICK h \in Seq(MailOf) :
        /\ seen = [rest EXCEPT !.hist = h, !.taken = r.taken \o IdsOf(ma)]
                              /\ PlaceIn(r.hist_p, h)
  <2>1. PlaceIn(rest.hist_p, rest.hist)
    BY <1>1, <1>8 DEF Kept, PlaceIn
  <2> HIDE DEF rest
  <2>2. PICK h \in Seq(MailOf) :
           /\ ReceiveAll(rest, ma) = [rest EXCEPT !.hist = h, !.taken = rest.taken \o IdsOf(ma)]
           /\ PlaceIn(rest.hist_p, h)
    BY <1>6, <1>8, <2>1, ReceiveAllKeeps
  <2> QED
    BY <2>2, <1>8 DEF seen
<1> HIDE DEF seen
<1> DEFINE taken == r.taken \o IdsOf(ma)
<1>10. taken \in Seq(1 .. MaxSent)
  BY <1>1, <1>6 DEF Session
<1>11. r.arrived = taken \o IdsOf(mb)
  <2> DEFINE x == IdsOf(ma)
             y == IdsOf(mb)
             z == r.taken
  <2>1. IdsOf(ma \o mb) = x \o y
    BY <1>6 DEF IdsOf
  <2>2. r.arrived = z \o IdsOf(Mails(r.held)) /\ z \in Seq(1 .. MaxSent)
    BY <1>1 DEF Kept, Session
  <2>3. x \in Seq(1 .. MaxSent) /\ y \in Seq(1 .. MaxSent)
    BY <1>6
  <2>4. r.arrived = z \o (x \o y)
    BY <2>1, <2>2, <1>7
  <2> HIDE DEF x, y, z
  <2>5. (z \o x) \o y = z \o (x \o y)
    BY <2>2, <2>3, ConcatAssociative
  <2> QED
    BY <2>4, <2>5 DEF x, y, z
<1> HIDE DEF taken
<1>12. /\ seen \in Session /\ seen.held = b /\ seen.taken = taken /\ seen.hist = h
       /\ seen.hist_p = r.hist_p /\ seen.arrived = r.arrived /\ seen.stack = r.stack
       /\ seen.held_p = r.held_p /\ seen.flags = r.flags
  BY <1>1, <1>5, <1>9, <1>10 DEF Session, taken
<1>13. Kept(seen)
  BY <1>9, <1>11, <1>12 DEF Kept, PlaceIn, mb
<1>14. Home(seen)
  BY <1>12, <1>13 DEF Home, IsBusy
<1>15. CASE reply
  BY <1>3, <1>4, <1>14, <1>15, ReplyGood
<1>16. CASE ~reply
  <2>1. Good(seen)
    BY <1>5, <1>12, <1>14, <1>16, HomeGood
  <2> QED
    BY <2>1, <1>3, <1>16
<1> QED
  BY <1>15, <1>16

\* To forget the notifications loses no message.
LEMMA CleanKept ==
  ASSUME NEW r \in Session, Kept(r)
  PROVE  LET c == [r EXCEPT !.held = Mails(@)]
         IN  c \in Session /\ Kept(c) /\ c.held \in Seq(MailOf)
<1>1. r.held \in Seq(NoteOf)
  BY DEF Session
<1>2. /\ Mails(r.held) \in Seq(MailOf) /\ Mails(r.held) \in Seq(NoteOf)
      /\ Mails(Mails(r.held)) = Mails(r.held)
  BY <1>1, MailsOfNotes
<1> DEFINE m == Mails(r.held)
           c == [r EXCEPT !.held = m]
<1> HIDE DEF m
<1>3. c \in Session /\ c.held = m /\ c.arrived = r.arrived /\ c.taken = r.taken
        /\ c.hist = r.hist
        /\ c.hist_p = r.hist_p
  BY <1>2 DEF Session, m
<1>4. Mails(m) = m
  BY <1>2 DEF m
<1>5. Kept(c)
  BY <1>3, <1>4 DEF Kept, m
<1> QED
  BY <1>2, <1>3, <1>5 DEF m

\* The prompt of what is held, at a place.
LEMMA HeldGood ==
  ASSUME NEW r, Home(r), NEW p \in Place
  PROVE  Good(Calls([r EXCEPT !.held = Mails(@), !.held_p = p], "held", {"busy"}))
<1> DEFINE c == [r EXCEPT !.held = Mails(@)]
           q == [r EXCEPT !.held = Mails(@), !.held_p = p]
<1>1. r \in Session /\ Kept(r) /\ r.stack = <<"room">>
  BY DEF Home
<1>2. c \in Session /\ Kept(c)
  BY <1>1, CleanKept
<1>3. q = [c EXCEPT !.held_p = p] /\ c.stack = r.stack
  BY <1>1 DEF Session
<1> HIDE DEF c
<1>4. /\ q \in Session /\ q.stack = r.stack
      /\ q.arrived = c.arrived /\ q.taken = c.taken /\ q.held = c.held
      /\ q.hist = c.hist /\ q.hist_p = c.hist_p
  BY <1>2, <1>3 DEF Session
<1> HIDE DEF q
<1>5. Kept(q)
  BY <1>2, <1>4 DEF Kept
<1>6. /\ Shape(q.stack) /\ q.stack # << >> /\ Head(q.stack) = "room" /\ ~On(q, "loop")
      /\ "held" \in Frame \ {"room"} /\ {"busy"} \in SUBSET Flag
  BY <1>1, <1>4, HomeShape DEF Frame, Flag
<1>7. Good(Calls(q, "held", {"busy"}))
  BY <1>4, <1>5, <1>6, PushGood
<1> QED
  BY <1>7 DEF q

\* The prompt of what is held, or the return from it.
LEMMA HeldPromptGood ==
  ASSUME NEW r, Home(r), r.held # << >>
  PROVE  Good(HeldPrompt(r))
<1> DEFINE p == PlaceInHeld(r)
           c == [r EXCEPT !.held = Mails(@)]
           At1(q) == Calls([c EXCEPT !.held_p = q], "held", {"busy"})
<1>1. r \in Session /\ r.held \in Seq(NoteOf) /\ Kept(r) /\ r.held_p = NoMsg
        /\ r.stack = <<"room">> /\ ~IsBusy(r)
  BY DEF Home, Session
<1>2. \A i \in 1 .. Len(r.held) : r.held[i].id \in Place
  <2>1. \A i \in 1 .. Len(r.held) : r.held[i] \in NoteOf
    BY <1>1
  <2> QED
    BY <2>1, XMsgAssumption DEF NoteOf, MsgOf, Id, Place
<1>3. p \in Place
  <2> DEFINE shown == {i \in 1 .. 1 : r.held[i].kind # "oneshot"}
             k == CHOOSE i \in shown : \A j \in shown : j <= i
  <2>1. p = IF shown = {} THEN NoMsg ELSE r.held[k].id
    BY <1>1 DEF PlaceInHeld
  <2>2. shown # {} => k = 1
    OBVIOUS
  <2>3. 1 \in 1 .. Len(r.held)
    BY <1>1
  <2> HIDE DEF shown, k
  <2>4. NoMsg \in Place
    BY XMsgAssumption DEF NoMsg, Place
  <2> QED
    BY <2>1, <2>2, <2>3, <2>4, <1>2
<1> HIDE DEF p
<1>4. ASSUME NEW q \in Place PROVE Good(At1(q))
  <2>1. [c EXCEPT !.held_p = q] = [r EXCEPT !.held = Mails(@), !.held_p = q]
    BY <1>1 DEF Session
  <2> QED
    BY <2>1, <1>4, HeldGood
<1>5. c \in Session /\ Kept(c) /\ c.held \in Seq(MailOf)
  BY <1>1, CleanKept
<1>6. c.held_p = NoMsg /\ c.stack = <<"room">> /\ c.flags = r.flags
  BY <1>1 DEF Session
<1>7. HeldPrompt(r) = IF p # NoMsg THEN At1(p)
                      ELSE IF OnHold(r) \/ c.held = << >> THEN [c EXCEPT !.held_p = NoMsg]
                      ELSE At1(Head(c.held).id)
  BY DEF HeldPrompt, p
<1> HIDE DEF c
<1>8. CASE p # NoMsg
  BY <1>3, <1>4, <1>7, <1>8
<1>9. CASE p = NoMsg /\ (OnHold(r) \/ c.held = << >>)
  <2>1. [c EXCEPT !.held_p = NoMsg] = c
    BY <1>5, <1>6 DEF Session
  <2>2. Home(c) /\ (OnHold(c) \/ c.held = << >>)
    BY <1>1, <1>5, <1>6, <1>9 DEF Home, IsBusy, OnHold
  <2>3. Good(c)
    BY <2>2, HomeGood
  <2> QED
    BY <2>1, <2>3, <1>7, <1>9
<1>10. CASE p = NoMsg /\ ~(OnHold(r) \/ c.held = << >>)
  <2>1. Head(c.held) \in MailOf
    BY <1>5, <1>10
  <2>2. Head(c.held).id \in Place
    BY <2>1, XMsgAssumption DEF MailOf, MsgOf, Id, Place
  <2>3. Good(At1(Head(c.held).id))
    BY <2>2, <1>4
  <2> QED
    BY <2>3, <1>7, <1>10
<1> QED
  BY <1>8, <1>9, <1>10

\* The room prompt, whatever it displays.
LEMMA RoomPromptGood ==
  ASSUME NEW u, NEW s, NEW r \in Session, Kept(r), r.stack = <<"room">>, r.held_p = NoMsg
  PROVE  Good(RoomPrompt(u, s, r))
<1> DEFINE idle == [r EXCEPT !.flags = @ \ Writing, !.to = {}]
<1>1. /\ idle \in Session /\ idle.stack = r.stack /\ idle.held_p = r.held_p
        /\ idle.flags = r.flags \ Writing
      /\ idle.arrived = r.arrived /\ idle.taken = r.taken /\ idle.held = r.held
      /\ idle.hist = r.hist /\ idle.hist_p = r.hist_p
  BY DEF Session
<1>2. Home(idle) /\ (OnHold(r) => OnHold(idle))
  BY <1>1 DEF Home, Kept, IsBusy, OnHold, Writing
<1>3. CASE OnHold(r) \/ r.held = << >>
  <2>1. RoomPrompt(u, s, r) = idle
    BY <1>3 DEF RoomPrompt
  <2> HIDE DEF idle
  <2> QED
    BY <2>1, <1>1, <1>2, <1>3, HomeGood
<1>4. CASE ~OnHold(r) /\ r.held # << >> /\ u \in HoldBusy
  <2>1. RoomPrompt(u, s, r) = HeldPrompt(idle)
    BY <1>4 DEF RoomPrompt
  <2> HIDE DEF idle
  <2> QED
    BY <2>1, <1>1, <1>2, <1>4, HeldPromptGood
<1>5. CASE ~OnHold(r) /\ r.held # << >> /\ u \notin HoldBusy
  <2>1. RoomPrompt(u, s, r) = Spew(u, s, idle)
    BY <1>5 DEF RoomPrompt
  <2> HIDE DEF idle
  <2> QED
    BY <2>1, <1>1, <1>2, <1>5, SpewGood
<1> QED
  BY <1>3, <1>4, <1>5

\* RET to the room prompt or to another one.
LEMMA RetGood ==
  ASSUME NEW u, NEW s, NEW r \in Session, Kept(r), Shape(r.stack), r.stack # << >>,
         Top(r) \notin {"room", "mail_ask"},
         r.held_p # NoMsg => Top(r) # "held" /\ On(r, "held")
  PROVE  Good(Ret(u, s, r))
<1> DEFINE below == [r EXCEPT !.stack = Tail(@)]
           t == Tail(r.stack)
<1>1. r.stack \in Seq(Frame) /\ Top(r) = Head(r.stack)
  BY DEF Session, Top
<1>2. /\ t \in Seq(Frame) /\ Shape(t) /\ t # << >>
      /\ \A i \in DOMAIN t : t[i] \notin {"loop", "mail_ask", "held_move"}
      /\ Head(t) = "room" => t = <<"room">>
      /\ r.held_p # NoMsg => \E i \in DOMAIN t : t[i] = "held"
  BY <1>1, PopShape DEF On
<1> HIDE DEF t
<1>3. /\ below \in Session /\ below.stack = t /\ below.held_p = r.held_p
        /\ below.flags = r.flags
      /\ below.arrived = r.arrived /\ below.taken = r.taken /\ below.held = r.held
      /\ below.hist = r.hist /\ below.hist_p = r.hist_p
  BY <1>2 DEF Session, t
<1>4. Kept(below)
  BY <1>3 DEF Kept
<1>5. Top(below) = Head(t)
  BY <1>2, <1>3 DEF Top
<1>6. Ret(u, s, r) = IF Top(below) = "room" THEN RoomPrompt(u, s, below)
                     ELSE [below EXCEPT !.flags = @ \union {"busy"}]
  BY DEF Ret
<1> HIDE DEF below
<1>7. CASE Top(below) = "room"
  <2>1. t = <<"room">>
    BY <1>2, <1>5, <1>7
  <2>2. r.held_p = NoMsg
    <3> SUFFICES ASSUME r.held_p # NoMsg PROVE FALSE
      OBVIOUS
    <3>1. PICK i \in DOMAIN t : t[i] = "held"
      BY <1>2
    <3> QED
      BY <2>1, <3>1
  <2> QED
    BY <2>1, <2>2, <1>3, <1>4, <1>6, <1>7, RoomPromptGood
<1>8. CASE Top(below) # "room"
  <2> DEFINE q == [below EXCEPT !.flags = @ \union {"busy"}]
  <2>1. /\ q \in Session /\ q.stack = t /\ q.held_p = r.held_p /\ "busy" \in q.flags
        /\ q.arrived = r.arrived /\ q.taken = r.taken /\ q.held = r.held
        /\ q.hist = r.hist /\ q.hist_p = r.hist_p
    BY <1>3 DEF Session
  <2> HIDE DEF q
  <2>2. Kept(q)
    BY <2>1 DEF Kept
  <2>3. Placed(q)
    BY <1>2, <2>1 DEF Placed, On
  <2>4. Polite(q)
    BY <1>2, <1>5, <1>8, <2>1 DEF Polite, Top, IsBusy
  <2>5. Good(q)
    BY <1>2, <2>1, <2>2, <2>3, <2>4 DEF Good
  <2> QED
    BY <2>5, <1>6, <1>8 DEF q
<1> QED
  BY <1>7, <1>8

\* Fields that Good does not look at.
LEMMA SameGood ==
  ASSUME NEW r, Good(r), NEW q \in Session,
         q.stack = r.stack, q.flags \ {"sending"} = r.flags \ {"sending"}, q.online = r.online,
         q.held = r.held, q.hist = r.hist, q.arrived = r.arrived, q.taken = r.taken,
         q.held_p = r.held_p, q.hist_p = r.hist_p, q.send = r.send
  PROVE  Good(q)
  BY DEF Good, Kept, Placed, On, Polite, Top, IsBusy, OnHold

\* Who is at the room prompt.
LEMMA HomeOf ==
  ASSUME NEW r, Good(r), Top(r) = "room"
  PROVE  /\ r \in Session /\ Kept(r) /\ r.stack = <<"room">> /\ r.held_p = NoMsg
         /\ r.online => Home(r) /\ (r.held = << >> \/ OnHold(r))
<1>1. r \in Session /\ Kept(r) /\ Shape(r.stack) /\ r.stack \in Seq(Frame)
  BY DEF Good, Session
<1>2. r.stack # << >> /\ Head(r.stack) = "room"
  BY DEF Top
<1>3. r.stack[1] = "room" /\ 1 \in DOMAIN r.stack
  BY <1>1, <1>2
<1>4. Len(r.stack) = 1
  BY <1>1, <1>3 DEF Shape
<1>5. r.stack = <<"room">>
  BY <1>1, <1>3, <1>4
<1>6. r.held_p = NoMsg
  BY <1>5, HomeShape DEF Good, Placed
<1>7. r.online => ~IsBusy(r) /\ (r.held = << >> \/ OnHold(r))
  BY DEF Good, Polite
<1> QED
  BY <1>1, <1>5, <1>6, <1>7 DEF Home

\* A message that is held back, or a notification.
LEMMA HoldGood ==
  ASSUME NEW r, Good(r), NEW m \in NoteOf, r.online => HoldsBack(r),
         NEW a, m.kind = "oneshot" => a = r.arrived,
         m.kind # "oneshot" => a = Append(r.arrived, m.id)
  PROVE  Good([r EXCEPT !.held = Append(@, m), !.arrived = a])
<1> DEFINE q == [r EXCEPT !.held = Append(@, m), !.arrived = a]
<1>1. /\ r \in Session /\ Kept(r) /\ Shape(r.stack) /\ Placed(r) /\ Polite(r)
      /\ r.held \in Seq(NoteOf) /\ r.arrived \in Seq(1 .. MaxSent)
      /\ r.taken \in Seq(1 .. MaxSent)
  BY DEF Good, Session
<1>2. m.kind # "oneshot" => m.id \in 1 .. MaxSent
  BY XMsgAssumption DEF NoteOf, MsgOf, Id
<1>3. a \in Seq(1 .. MaxSent) /\ Append(r.held, m) \in Seq(NoteOf)
  <2>1. m.kind # "oneshot" => Append(r.arrived, m.id) \in Seq(1 .. MaxSent)
    BY <1>1, <1>2, AppendProperties
  <2>2. Append(r.held, m) \in Seq(NoteOf)
    BY <1>1, AppendProperties
  <2> QED
    BY <1>1, <2>1, <2>2
<1>4. /\ q \in Session /\ q.stack = r.stack /\ q.flags = r.flags /\ q.online = r.online
      /\ q.held = Append(r.held, m) /\ q.hist = r.hist /\ q.arrived = a /\ q.taken = r.taken
      /\ q.held_p = r.held_p /\ q.hist_p = r.hist_p /\ q.send = r.send
  BY <1>1, <1>3 DEF Session
<1> HIDE DEF q
<1>5. a = r.taken \o IdsOf(Mails(Append(r.held, m)))
  <2>1. Mails(Append(r.held, m)) = IF m.kind = "oneshot" THEN Mails(r.held)
                                   ELSE Append(Mails(r.held), m)
    BY <1>1, MailsAppend
  <2>2. CASE m.kind = "oneshot"
    BY <2>1, <2>2, <1>1 DEF Kept
  <2>3. CASE m.kind # "oneshot"
    <3> DEFINE t == Mails(r.held)
               x == IdsOf(t)
               y == r.taken
               e == <<m.id>>
    <3>1. t \in Seq(NoteOf) /\ x \in Seq(1 .. MaxSent)
      BY <1>1, MailsOfNotes
    <3>2. y \in Seq(1 .. MaxSent) /\ e \in Seq(1 .. MaxSent) /\ r.arrived = y \o x
      BY <1>1, <1>2, <2>3 DEF Kept
    <3> HIDE DEF t
    <3>3. IdsOf(Append(t, m)) = Append(x, m.id)
      BY <3>1, IdsConcat
    <3> HIDE DEF x, y
    <3>4. Append(x, m.id) = x \o e
      BY <1>2, <2>3, <3>1, AppendIsConcat
    <3>5. r.arrived \in Seq(1 .. MaxSent) /\ m.id \in 1 .. MaxSent
      BY <1>1, <1>2, <2>3
    <3>6. Append(r.arrived, m.id) = r.arrived \o e
      BY <3>5, AppendIsConcat
    <3> HIDE DEF e
    <3>7. (y \o x) \o e = y \o (x \o e)
      BY <3>1, <3>2, ConcatAssociative
    <3> QED
      BY <2>1, <2>3, <3>2, <3>3, <3>4, <3>7, <3>6 DEF t, y
  <2> QED
    BY <2>2, <2>3
<1>6. Kept(q)
  BY <1>1, <1>4, <1>5 DEF Kept
<1>7. Placed(q) /\ Polite(q)
  BY <1>1, <1>4 DEF Placed, On, Polite, Top, IsBusy, OnHold, HoldsBack
<1> QED
  BY <1>1, <1>4, <1>6, <1>7 DEF Good, q

\* A message that is received at the room prompt, and may be answered there.
LEMMA ReceiveGood ==
  ASSUME NEW r, Good(r), NEW m \in MailOf, r.online, ~HoldsBack(r), NEW v, NEW u \in User
  PROVE  LET q == [r EXCEPT !.arrived = Append(@, m.id)]
         IN  Good(Receive(q, m)) /\ Good(ReplyTo(Receive(q, m), u))
<1> DEFINE q == [r EXCEPT !.arrived = Append(@, m.id)]
<1>1. Home(r) /\ r.held = << >>
  <2>1. Top(r) = "room"
    BY DEF Good, Polite, HoldsBack
  <2> QED
    BY <2>1, HomeOf DEF HoldsBack
<1>2. r \in Session /\ Kept(r) /\ r.arrived \in Seq(1 .. MaxSent)
        /\ r.taken \in Seq(1 .. MaxSent)
  BY <1>1 DEF Home, Session
<1>3. m.id \in 1 .. MaxSent
  BY XMsgAssumption DEF MailOf, MsgOf, Id
<1>4. r.arrived = r.taken
  <2>1. IdsOf(Mails(r.held)) = << >>
    BY <1>1, MailsEmpty DEF IdsOf
  <2> QED
    BY <2>1, <1>2 DEF Kept
<1>5. Append(r.arrived, m.id) \in Seq(1 .. MaxSent)
        /\ Append(r.taken, m.id) \in Seq(1 .. MaxSent)
  BY <1>2, <1>3, AppendProperties
<1>6. /\ q \in Session /\ q.hist_p = r.hist_p /\ q.hist = r.hist /\ q.taken = r.taken
      /\ q.arrived = Append(r.arrived, m.id) /\ q.held = r.held /\ q.stack = r.stack
      /\ q.held_p = r.held_p /\ q.flags = r.flags
  BY <1>2, <1>5 DEF Session
<1>7. PlaceIn(q.hist_p, q.hist)
  BY <1>2, <1>6 DEF Kept, PlaceIn
<1> HIDE DEF q
<1>8. PICK h \in Seq(MailOf) :
        /\ Receive(q, m) = [q EXCEPT !.hist = h, !.taken = Append(q.taken, m.id)]
                               /\ PlaceIn(q.hist_p, h)
  BY <1>6, <1>7, ReceiveKeeps
<1> DEFINE p == Receive(q, m)
<1>9. /\ p \in Session /\ p.hist_p = q.hist_p /\ p.hist = h
        /\ p.taken = Append(r.taken, m.id)
      /\ p.arrived = Append(r.arrived, m.id) /\ p.held = r.held /\ p.stack = r.stack
      /\ p.held_p = r.held_p /\ p.flags = r.flags
  BY <1>6, <1>8, <1>5 DEF Session
<1> HIDE DEF p
<1>10. Kept(p)
  <2>1. IdsOf(Mails(p.held)) = << >>
    BY <1>1, <1>9, MailsEmpty DEF IdsOf
  <2>2. p.taken \in Seq(1 .. MaxSent)
    BY <1>9 DEF Session
  <2>3. p.arrived = p.taken \o << >>
    BY <2>2, <1>4, <1>9
  <2> QED
    BY <2>1, <2>3, <1>8, <1>9 DEF Kept, PlaceIn
<1>11. Home(p) /\ p.held = << >>
  BY <1>1, <1>9, <1>10 DEF Home, IsBusy
<1> QED
  BY <1>11, HomeGood, ReplyGood DEF p, q

\* A message that is sent to v, whatever becomes of it.
LEMMA RecvMsgGood ==
  ASSUME NEW s, AllGood(s), NEW u \in User, NEW v \in User, s[v].online, NEW m \in MailOf,
         NEW refused
  PROVE  LET t == RecvMsg(s, v, u, m, refused)
         IN  AllGood(t) /\ t[u].stack = s[u].stack /\ t[u].held_p = s[u].held_p
<1> DEFINE t == RecvMsg(s, v, u, m, refused)
           r == [s[v] EXCEPT !.arrived = Append(@, m.id)]
<1>1. /\ DOMAIN s = User /\ \A w \in User : Good(s[w])
      /\ s[u] \in Session /\ s[v] \in Session /\ Good(s[u]) /\ Good(s[v])
  BY DEF AllGood, Good
<1>2. CASE v = u
  BY <1>2 DEF RecvMsg
<1>3. CASE v # u /\ (refused \/ "locked" \in r.flags)
  <2>1. t = [s EXCEPT ![u].to = @ \ {v}]
    BY <1>3 DEF RecvMsg
  <2>2. t = [s EXCEPT ![u] = [s[u] EXCEPT !.to = @ \ {v}]]
    BY <2>1
  <2> DEFINE q == [s[u] EXCEPT !.to = @ \ {v}]
  <2>3. /\ q \in Session /\ q.stack = s[u].stack /\ q.flags = s[u].flags
          /\ q.online = s[u].online
        /\ q.held = s[u].held /\ q.hist = s[u].hist /\ q.arrived = s[u].arrived
        /\ q.taken = s[u].taken
        /\ q.held_p = s[u].held_p /\ q.hist_p = s[u].hist_p /\ q.send = s[u].send
    BY <1>1 DEF Session
  <2> HIDE DEF q, t
  <2>4. Good(q)
    BY <1>1, <2>3, SameGood
  <2>5. t[u] = q /\ DOMAIN t = User /\ \A w \in User \ {u} : t[w] = s[w]
    BY <2>2, <1>1 DEF q
  <2> QED
    BY <2>3, <2>4, <2>5, <1>1 DEF AllGood, t
<1>4. CASE v # u /\ ~(refused \/ "locked" \in r.flags)
  <2> DEFINE q == IF HoldsBack(r) THEN [r EXCEPT !.held = Append(@, m)]
                  ELSE IF AutoReply(v, m) THEN ReplyTo(Receive(r, m), u) ELSE Receive(r, m)
  <2>1. t = [s EXCEPT ![v] = q]
    BY <1>4 DEF RecvMsg
  <2>2. HoldsBack(r) <=> HoldsBack(s[v])
    BY <1>1 DEF HoldsBack, IsBusy, OnHold, Session
  <2>3. Good(q)
    <3>1. CASE HoldsBack(r)
      <4> DEFINE a == Append(s[v].arrived, m.id)
      <4>1. m \in NoteOf /\ m.kind # "oneshot"
        BY DEF MailOf, NoteOf
      <4>2. q = [s[v] EXCEPT !.held = Append(@, m), !.arrived = a]
        BY <3>1, <1>1 DEF Session
      <4> HIDE DEF q
      <4>3. Good([s[v] EXCEPT !.held = Append(@, m), !.arrived = a])
        BY <1>1, <2>2, <3>1, <4>1, HoldGood
      <4> QED
        BY <4>2, <4>3
    <3>2. CASE ~HoldsBack(r)
      <4>1. Good(Receive(r, m)) /\ Good(ReplyTo(Receive(r, m), u))
        BY <1>1, <2>2, <3>2, ReceiveGood
      <4> QED
        BY <3>2, <4>1
    <3> QED
      BY <3>1, <3>2
  <2> HIDE DEF q, t
  <2>4. t[v] = q /\ DOMAIN t = User /\ \A w \in User \ {v} : t[w] = s[w]
    BY <2>1, <1>1
  <2> QED
    BY <1>1, <1>4, <2>3, <2>4 DEF AllGood, t
<1> QED
  BY <1>2, <1>3, <1>4

\* A good session in the place of another.
LEMMA PutGood ==
  ASSUME NEW s, AllGood(s), NEW u \in User, NEW r, Good(r)
  PROVE  AllGood([s EXCEPT ![u] = r])
  BY DEF AllGood

\* What At says of a session.
LEMMA AtTop ==
  ASSUME NEW r, Good(r), NEW f \in Frame, Top(r) = f
  PROVE  /\ r \in Session /\ Kept(r) /\ Shape(r.stack) /\ Placed(r) /\ Polite(r)
         /\ r.stack \in Seq(Frame) /\ r.stack # << >> /\ Head(r.stack) = f
         /\ r.stack[1] = f /\ 1 \in DOMAIN r.stack /\ On(r, f)
<1>1. r \in Session /\ Kept(r) /\ Shape(r.stack) /\ Placed(r) /\ Polite(r)
        /\ r.stack \in Seq(Frame)
  BY DEF Good, Session
<1>2. r.stack # << >> /\ Head(r.stack) = f
  BY DEF Top, Frame
<1>3. r.stack[1] = f /\ 1 \in DOMAIN r.stack
  BY <1>1, <1>2
<1> QED
  BY <1>1, <1>2, <1>3 DEF On

\* The loop is on top of the stack, or below the prompt for the mail.
LEMMA NoLoop ==
  ASSUME NEW r, Good(r), NEW f \in Frame \ {"loop", "mail_ask"}, Top(r) = f
  PROVE  ~On(r, "loop")
<1>1. Shape(r.stack) /\ r.stack[1] = f
  BY AtTop
<1> QED
  BY <1>1 DEF Shape, On

\* RET from a prompt that keeps its place below itself.
LEMMA RetOfGood ==
  ASSUME NEW u, NEW s, NEW r, Good(r), NEW f \in Frame \ {"room", "mail_ask", "held"}, Top(r) = f
  PROVE  Good(Ret(u, s, r))
<1>1. /\ r \in Session /\ Kept(r) /\ Shape(r.stack) /\ r.stack # << >> /\ Placed(r)
  BY AtTop
<1> QED
  BY <1>1, RetGood DEF Placed

\* A frame takes the place of the one on top.
LEMMA BecomesGood ==
  ASSUME NEW r \in Session, Kept(r), Shape(r.stack), r.stack # << >>,
         Top(r) \notin {"room", "mail_ask", "held"}, r.held_p # NoMsg => On(r, "held"),
         NEW f \in Frame \ {"room", "mail_ask", "held_move"}, f = "loop" => r.send # << >>,
         NEW fs \in SUBSET Flag, "busy" \in fs \union r.flags
  PROVE  Good(Becomes(r, f, fs)) /\ Top(Becomes(r, f, fs)) = f
<1> DEFINE below == [r EXCEPT !.stack = Tail(@)]
           t == Tail(r.stack)
<1>1. r.stack \in Seq(Frame) /\ Top(r) = Head(r.stack)
  BY DEF Session, Top
<1>2. /\ t \in Seq(Frame) /\ Shape(t) /\ t # << >>
      /\ \A i \in DOMAIN t : t[i] \notin {"loop", "mail_ask", "held_move"}
      /\ r.held_p # NoMsg => \E i \in DOMAIN t : t[i] = "held"
  BY <1>1, PopShape DEF On
<1>3. Head(t) \notin {"loop", "mail_ask", "held_move"}
  <2> HIDE DEF t
  <2>1. Head(t) = t[1] /\ 1 \in DOMAIN t
    BY <1>2
  <2> QED
    BY <1>2, <2>1
<1> HIDE DEF t
<1>4. /\ below \in Session /\ below.stack = t /\ below.held_p = r.held_p
        /\ below.flags = r.flags
      /\ below.arrived = r.arrived /\ below.taken = r.taken /\ below.held = r.held
      /\ below.hist = r.hist /\ below.hist_p = r.hist_p /\ below.send = r.send
  BY <1>2 DEF Session, t
<1> HIDE DEF below
<1>5. Kept(below) /\ ~On(below, "loop") /\ (below.held_p # NoMsg => On(below, "held"))
  BY <1>2, <1>4 DEF Kept, On
<1>6. Good(Calls(below, f, fs)) /\ Top(Calls(below, f, fs)) = f
  BY <1>2, <1>3, <1>4, <1>5, PushGood
<1> QED
  BY <1>6 DEF Becomes, below

\* A notification goes to those who hold back what comes.
LEMMA NotifyGood ==
  ASSUME NEW s, AllGood(s), NEW u \in User, told \in Nat, ToldLater(u, s) = {} \/ told < MaxTold
  PROVE  AllGood(Notify(u, s)) /\ Notify(u, s)[u] = s[u]
<1> DEFINE m == [id |-> MaxSent + told + 1, from |-> u, kind |-> "oneshot"]
           t == Notify(u, s)
<1>1. t = [v \in User |->
            IF v \in ToldLater(u, s) THEN [s[v] EXCEPT !.held = Append(@, m)] ELSE s[v]]
  BY DEF Notify
<1>2. ToldLater(u, s) # {} => m \in NoteOf /\ m.kind = "oneshot"
  BY XMsgAssumption DEF NoteOf, MsgOf, Id
<1> HIDE DEF m
<1>3. ASSUME NEW v \in User PROVE Good(t[v])
  <2>1. Good(s[v]) /\ s[v] \in Session
    BY DEF AllGood, Good
  <2>2. CASE v \in ToldLater(u, s)
    <3> DEFINE a == s[v].arrived
    <3>1. HoldsBack(s[v]) /\ m \in NoteOf /\ m.kind = "oneshot"
      BY <2>2, <1>2 DEF ToldLater
    <3>2. Good([s[v] EXCEPT !.held = Append(@, m), !.arrived = a])
      BY <2>1, <3>1, HoldGood
    <3>3. [s[v] EXCEPT !.held = Append(@, m), !.arrived = a] = [s[v] EXCEPT !.held = Append(@, m)]
      BY <2>1 DEF Session
    <3> QED
      BY <1>1, <2>2, <3>2, <3>3
  <2> QED
    BY <1>1, <2>1, <2>2
<1>4. u \notin ToldLater(u, s)
  BY DEF ToldLater
<1> QED
  BY <1>1, <1>3, <1>4 DEF AllGood

\* One step of the loop that sends,
LEMMA SendToGood ==
  ASSUME NEW s, AllGood(s), NEW u \in User, Top(s[u]) = "loop", s[u].online,
         NEW v \in User, NEW t \in SendTo(u, s, v)
  PROVE  AllGood(t)
<1> DEFINE r == [s[u] EXCEPT !.todo = @ \ {v}]
           b == [s EXCEPT ![u].todo = @ \ {v}]
           ask == Calls([r EXCEPT !.to = @ \ {v}], "mail_ask", {"busy"})
           stuck == [r EXCEPT !.flags = @ \union {"stuck"}]
           not == [b EXCEPT ![u] = IF HaveMailroom THEN ask ELSE stuck]
           m == s[u].send[1]
<1>1. /\ DOMAIN s = User /\ Good(s[u]) /\ s[u] \in Session
      /\ Shape(s[u].stack) /\ s[u].stack # << >> /\ Head(s[u].stack) = "loop"
      /\ On(s[u], "loop")
      /\ Placed(s[u]) /\ Polite(s[u])
  <2>1. "loop" \in Frame
    BY DEF Frame
  <2> QED
    BY <2>1, AtTop DEF AllGood
<1>2. /\ r \in Session /\ r.stack = s[u].stack /\ r.flags = s[u].flags
        /\ r.online = s[u].online
      /\ r.held = s[u].held /\ r.hist = s[u].hist /\ r.arrived = s[u].arrived
      /\ r.taken = s[u].taken
      /\ r.held_p = s[u].held_p /\ r.hist_p = s[u].hist_p /\ r.send = s[u].send
  BY <1>1 DEF Session
<1>3. b = [s EXCEPT ![u] = r]
  OBVIOUS
<1> HIDE DEF r
<1>4. Good(r)
  BY <1>1, <1>2, SameGood
<1>5. b[u] = r /\ DOMAIN b = User
  BY <1>1, <1>3
<1> HIDE DEF b
<1>6. AllGood(b)
  BY <1>3, <1>4, PutGood
<1>7. Good(ask)
  <2> DEFINE q == [r EXCEPT !.to = @ \ {v}]
  <2>1. /\ q \in Session /\ q.stack = r.stack /\ q.flags = r.flags /\ q.online = r.online
        /\ q.held = r.held /\ q.hist = r.hist /\ q.arrived = r.arrived /\ q.taken = r.taken
        /\ q.held_p = r.held_p /\ q.hist_p = r.hist_p /\ q.send = r.send
    BY <1>2 DEF Session
  <2> HIDE DEF q
  <2>2. Good(q)
    BY <2>1, <1>4, SameGood
  <2>3. Kept(q) /\ Placed(q) /\ On(q, "loop")
    BY <1>1, <1>2, <2>1, <2>2 DEF Good, On
  <2>4. q.send # << >> /\ (q.held_p # NoMsg => On(q, "held"))
    BY <2>3 DEF Placed
  <2>5. "mail_ask" \in Frame \ {"room"} /\ {"busy"} \in SUBSET Flag
    BY DEF Frame, Flag
  <2>6. Good(Calls(q, "mail_ask", {"busy"}))
    BY <1>1, <1>2, <2>1, <2>3, <2>4, <2>5, PushGood
  <2> QED
    BY <2>6 DEF q
<1>8. Good(stuck)
  <2>1. /\ stuck \in Session /\ stuck.stack = r.stack
          /\ stuck.flags = r.flags \union {"stuck"}
        /\ stuck.online = r.online
        /\ stuck.held = r.held /\ stuck.hist = r.hist /\ stuck.arrived = r.arrived
        /\ stuck.taken = r.taken
        /\ stuck.held_p = r.held_p /\ stuck.hist_p = r.hist_p /\ stuck.send = r.send
    BY <1>2 DEF Session
  <2> HIDE DEF stuck
  <2> QED
    BY <2>1, <1>4 DEF Good, Kept, Placed, On, Polite, Top, IsBusy, OnHold
<1>9. AllGood(not)
  <2> HIDE DEF ask, stuck
  <2> QED
    BY <1>6, <1>7, <1>8, PutGood
<1>10. m \in MailOf
  <2>1. s[u].send \in Seq(MailOf) /\ s[u].send # << >>
    BY <1>1 DEF Session, Placed
  <2> QED
    BY <2>1
<1>11. \/ t \in {b, not}
       \/ \E refused \in BOOLEAN : t = RecvMsg(b, v, u, m, refused) /\ Open(s, v) /\ v # u
  <2>1. not = IF HaveMailroom
                THEN [b EXCEPT ![u] = Calls([b[u] EXCEPT !.to = @ \ {v}], "mail_ask", {"busy"})]
              ELSE [b EXCEPT ![u].flags = @ \union {"stuck"}]
    <3>1. [b EXCEPT ![u] = Calls([b[u] EXCEPT !.to = @ \ {v}], "mail_ask", {"busy"})]
            = [b EXCEPT ![u] = ask]
      BY <1>5, Zenon
    <3>2. [b EXCEPT ![u].flags = @ \union {"stuck"}] = [b EXCEPT ![u] = stuck]
      BY <1>5, Zenon
    <3> HIDE DEF ask, stuck
    <3> QED
      BY <3>1, <3>2, Zenon
  <2> HIDE DEF not
  <2> QED
    BY <2>1 DEF SendTo, b
<1>12. Open(s, v) /\ v # u => b[v].online
  BY <1>3, <1>1 DEF Open
<1>13. ASSUME NEW refused, b[v].online PROVE AllGood(RecvMsg(b, v, u, m, refused))
  <2> HIDE DEF m
  <2> QED
    BY <1>6, <1>10, <1>13, RecvMsgGood
<1> HIDE DEF m, not
<1> QED
  BY <1>6, <1>9, <1>11, <1>12, <1>13

\* and its end.
LEMMA LoopStepGood ==
  ASSUME NEW s, AllGood(s), NEW u \in User, Top(s[u]) = "loop", s[u].online,
         NEW t \in LoopStep(u, s)
  PROVE  AllGood(t)
<1>1. CASE s[u].todo = {}
  <2> DEFINE q == [s[u] EXCEPT !.send = << >>]
  <2>1. t = [s EXCEPT ![u] = Ret(u, s, q)]
    BY <1>1 DEF LoopStep
  <2>2. "loop" \in Frame /\ Good(s[u])
    BY DEF Frame, AllGood
  <2>3. /\ s[u] \in Session /\ Kept(s[u]) /\ Shape(s[u].stack) /\ s[u].stack # << >>
        /\ Placed(s[u])
    BY <2>2, AtTop
  <2>4. /\ q \in Session /\ q.stack = s[u].stack
        /\ q.held = s[u].held /\ q.hist = s[u].hist /\ q.arrived = s[u].arrived
        /\ q.taken = s[u].taken
        /\ q.held_p = s[u].held_p /\ q.hist_p = s[u].hist_p
    <3>1. << >> \in Seq(MailOf)
      OBVIOUS
    <3> QED
      BY <2>3, <3>1 DEF Session
  <2> HIDE DEF q
  <2>5. Kept(q) /\ Top(q) = "loop" /\ (q.held_p # NoMsg => On(q, "held"))
    BY <2>3, <2>4 DEF Kept, Top, Placed, On
  <2>6. Good(Ret(u, s, q))
    BY <2>3, <2>4, <2>5, RetGood
  <2> QED
    BY <2>1, <2>6, PutGood
<1>2. CASE s[u].todo # {}
  <2>1. PICK v \in s[u].todo : t \in SendTo(u, s, v)
    BY <1>2 DEF LoopStep
  <2>2. v \in User
    BY DEF AllGood, Good, Session
  <2> QED
    BY <2>1, <2>2, SendToGood
<1> QED
  BY <1>1, <1>2

\* What a handler of u may count on, with its function f on top.
LEMMA AtGood ==
  ASSUME AllGood(us), Counts, NEW u \in User, NEW f \in Frame, At(u, f)
  PROVE  /\ Good(us[u]) /\ us[u].online /\ Top(us[u]) = f
         /\ us[u] \in Session /\ Kept(us[u]) /\ Shape(us[u].stack) /\ Placed(us[u])
         /\ Polite(us[u])
         /\ us[u].stack # << >> /\ Head(us[u].stack) = f
         /\ f # "room" => "busy" \in us[u].flags
         /\ f = "room" => Home(us[u]) /\ (us[u].held = << >> \/ OnHold(us[u]))
<1>1. Good(us[u]) /\ us[u].online /\ Top(us[u]) = f
  BY DEF AllGood, At
<1> QED
  BY <1>1, AtTop, HomeOf DEF Polite, IsBusy

\* A handler that leaves the user with r.
LEMMA LeavesGood ==
  ASSUME AllGood(us), Counts, NEW u \in User, NEW r, Good(r), Leaves(u, r)
  PROVE  AllGood(us') /\ Counts'
  BY PutGood DEF Leaves, Counts

\* r has the same as q, but for what is given here.
SameLists(q, r) ==
  /\ q.held = r.held /\ q.hist = r.hist /\ q.arrived = r.arrived /\ q.taken = r.taken

\* Who has the same lists keeps the same.
LEMMA SameKept ==
  ASSUME NEW q, NEW r, SameLists(q, r), q.hist_p = r.hist_p, Kept(r)
  PROVE  Kept(q)
  BY DEF SameLists, Kept

\* Each handler, one by one.
LEMMA EnterRecipientsGood ==
  ASSUME AllGood(us), Counts, NEW u \in User, EnterRecipients(u)
  PROVE  AllGood(us') /\ Counts'
<1>1. PICK R \in SUBSET User : Leaves(u, Calls([us[u] EXCEPT !.to = R], "x_prompt", {"busy"}))
  BY DEF EnterRecipients
<1>2. "room" \in Frame
        /\ "x_prompt" \in Frame \ {"room", "mail_ask", "held_move", "loop", "held"}
        /\ {"busy"} \in SUBSET Flag
  BY DEF Frame, Flag
<1>3. Home(us[u])
  BY <1>2, AtGood DEF EnterRecipients
<1> DEFINE r == [us[u] EXCEPT !.to = R]
<1>4. Home(r)
  BY <1>3 DEF Home, Session, Kept, IsBusy
<1> HIDE DEF r
<1>5. Good(Calls(r, "x_prompt", {"busy"}))
  BY <1>2, <1>4, HomePush
<1> QED
  BY <1>1, <1>5, LeavesGood DEF r

LEMMA XPromptGood ==
  ASSUME AllGood(us), Counts, NEW u \in User, XPrompt(u)
  PROVE  AllGood(us') /\ Counts'
<1> DEFINE r(R) == [us[u] EXCEPT !.to = R]
<1>1. PICK R \in SUBSET Checked(u, us) :
         Leaves(u, IF R = {} THEN Ret(u, us, r(R)) ELSE Becomes(r(R), "edit", Writing))
  BY DEF XPrompt
<1> DEFINE q == r(R)
<1>2. "x_prompt" \in Frame /\ "x_prompt" \notin {"room", "mail_ask", "held"}
        /\ "edit" \in Frame \ {"room", "mail_ask", "held_move"} /\ Writing \in SUBSET Flag
        /\ "busy" \in Writing
  BY DEF Frame, Flag, Writing
<1>3. /\ us[u] \in Session /\ Kept(us[u]) /\ Shape(us[u].stack) /\ Placed(us[u])
      /\ us[u].stack # << >> /\ Top(us[u]) = "x_prompt"
  BY <1>2, AtGood DEF XPrompt
<1>4. R \subseteq User
  BY <1>3 DEF Checked, Session
<1>5. /\ q \in Session /\ q.stack = us[u].stack /\ q.held_p = us[u].held_p
        /\ q.hist_p = us[u].hist_p
      /\ SameLists(q, us[u])
  BY <1>3, <1>4 DEF Session, SameLists
<1>6. Leaves(u, IF R = {} THEN Ret(u, us, q) ELSE Becomes(q, "edit", Writing))
  BY <1>1
<1> HIDE DEF q
<1>7. Kept(q) /\ Top(q) = "x_prompt" /\ (q.held_p # NoMsg => On(q, "held"))
  BY <1>3, <1>5, SameKept DEF Top, Placed, On
<1>8. Good(Ret(u, us, q))
  BY <1>2, <1>3, <1>5, <1>7, RetGood
<1>9. Good(Becomes(q, "edit", Writing))
  BY <1>2, <1>3, <1>5, <1>7, BecomesGood
<1> QED
  BY <1>6, <1>8, <1>9, LeavesGood

LEMMA AbortGood ==
  ASSUME AllGood(us), Counts, NEW u \in User, Abort(u)
  PROVE  AllGood(us') /\ Counts'
<1> DEFINE r == [us[u] EXCEPT !.flags = @ \ {"sending"}]
           c == [r EXCEPT !.held = Mails(@)]
           q == IF Top(r) = "held_move" THEN c ELSE r
<1>1. PICK f \in {"x_prompt", "edit", "question", "held_move", "away", "logout"} : At(u, f)
  BY DEF Abort
<1>2. f \in Frame \ {"room", "mail_ask", "held"}
  BY DEF Frame
<1>3. /\ us[u] \in Session /\ Kept(us[u]) /\ Shape(us[u].stack) /\ Placed(us[u])
      /\ us[u].stack # << >> /\ Top(us[u]) = f
  BY <1>1, <1>2, AtGood
<1>4. Leaves(u, Ret(u, us, q))
  BY DEF Abort
<1>5. /\ r \in Session /\ r.stack = us[u].stack /\ r.held_p = us[u].held_p
        /\ r.hist_p = us[u].hist_p
      /\ SameLists(r, us[u])
  BY <1>3 DEF Session, SameLists
<1> HIDE DEF r
<1>6. Kept(r)
  BY <1>3, <1>5, SameKept
<1>7. c \in Session /\ Kept(c)
  BY <1>5, <1>6, CleanKept
<1>8. c.stack = r.stack /\ c.held_p = r.held_p
  BY <1>5 DEF Session
<1> HIDE DEF c
<1>9. q \in Session /\ Kept(q) /\ q.stack = us[u].stack /\ q.held_p = us[u].held_p
  BY <1>5, <1>6, <1>7, <1>8
<1> HIDE DEF q
<1>10. Top(q) = f /\ (q.held_p # NoMsg => On(q, "held"))
  BY <1>3, <1>9 DEF Top, Placed, On
<1>11. Good(Ret(u, us, q))
  BY <1>2, <1>3, <1>9, <1>10, RetGood
<1> QED
  BY <1>4, <1>11, LeavesGood

LEMMA EditReturnGood ==
  ASSUME AllGood(us), Counts, NEW u \in User, EditReturn(u)
  PROVE  AllGood(us') /\ Counts'
<1> DEFINE m == [id |-> sent + 1, from |-> u, kind |-> "x"]
           a == [us[u] EXCEPT !.flags = @ \ {"sending"}]
           r == Remember(a, m)
           l == [Becomes(r, "loop", {}) EXCEPT !.send = <<m>>, !.todo = r.to]
           s == [us EXCEPT ![u] = l]
<1>1. us' \in LoopStep(u, s) /\ sent < MaxSent /\ sent' = sent + 1 /\ told' = told
        /\ wild' = wild
  BY DEF EditReturn
<1>2. "edit" \in Frame /\ "edit" # "room" /\ "edit" \notin {"room", "mail_ask", "held"}
        /\ "loop" \in Frame \ {"room", "mail_ask", "held_move"} /\ {} \in SUBSET Flag
  BY DEF Frame
<1>3. /\ us[u] \in Session /\ Kept(us[u]) /\ Shape(us[u].stack) /\ Placed(us[u])
        /\ us[u].online
      /\ us[u].stack # << >> /\ Top(us[u]) = "edit" /\ "busy" \in us[u].flags
  BY <1>2, AtGood DEF EditReturn
<1>4. m \in MailOf
  BY <1>1, XMsgAssumption DEF MailOf, MsgOf, Id, Counts
<1> HIDE DEF m
<1>5. /\ a \in Session /\ a.stack = us[u].stack /\ a.held_p = us[u].held_p
        /\ a.hist_p = us[u].hist_p
      /\ SameLists(a, us[u]) /\ "busy" \in a.flags /\ a.online
  BY <1>3 DEF Session, SameLists
<1>6. PlaceIn(a.hist_p, a.hist)
  BY <1>3, <1>5 DEF Kept, PlaceIn, SameLists
<1> HIDE DEF a
<1>7. PICK h \in Seq(MailOf) : r = [a EXCEPT !.hist = h] /\ PlaceIn(a.hist_p, h)
  BY <1>4, <1>5, <1>6, RememberKeeps
<1> HIDE DEF r
<1> DEFINE q == [r EXCEPT !.send = <<m>>, !.todo = r.to]
<1>8. <<m>> \in Seq(MailOf) /\ <<m>> # << >>
  BY <1>4
<1>9. /\ q \in Session /\ q.stack = us[u].stack /\ q.held_p = us[u].held_p
        /\ q.hist_p = a.hist_p
      /\ q.hist = h /\ q.held = us[u].held /\ q.arrived = us[u].arrived
      /\ q.taken = us[u].taken
      /\ "busy" \in q.flags /\ q.online /\ q.send # << >>
  BY <1>5, <1>7, <1>8 DEF Session, SameLists
<1>10. l = Becomes(q, "loop", {})
  BY <1>5, <1>7 DEF Becomes, Calls, Session
<1> HIDE DEF q, l
<1>11. Kept(q) /\ Top(q) = "edit" /\ (q.held_p # NoMsg => On(q, "held"))
  BY <1>3, <1>7, <1>9 DEF Kept, PlaceIn, Top, Placed, On
<1>12. Good(l) /\ Top(l) = "loop"
  BY <1>2, <1>3, <1>9, <1>10, <1>11, BecomesGood
<1>13. l.online
  BY <1>9, <1>10 DEF Becomes, Calls, Session
<1>14. AllGood(s) /\ s[u] = l
  BY <1>12, PutGood DEF AllGood
<1> HIDE DEF s
<1>15. AllGood(us')
  BY <1>1, <1>12, <1>13, <1>14, LoopStepGood
<1> QED
  BY XMsgAssumption, <1>1, <1>15 DEF Counts

LEMMA LoopSendMsgGood ==
  ASSUME AllGood(us), Counts, NEW u \in User, LoopSendMsg(u)
  PROVE  AllGood(us') /\ Counts'
<1>1. "loop" \in Frame
  BY DEF Frame
<1>2. Top(us[u]) = "loop" /\ us[u].online
  BY <1>1, AtGood DEF LoopSendMsg
<1> QED
  BY <1>2, LoopStepGood DEF LoopSendMsg, Counts

LEMMA MailSendMsgGood ==
  ASSUME AllGood(us), Counts, NEW u \in User, MailSendMsg(u)
  PROVE  AllGood(us') /\ Counts'
<1> DEFINE s == us[u].stack
           t == Tail(s)
           q == [us[u] EXCEPT !.stack = Tail(@)]
<1>1. "mail_ask" \in Frame /\ "mail_ask" # "room"
  BY DEF Frame
<1>2. /\ us[u] \in Session /\ Kept(us[u]) /\ Shape(s) /\ Placed(us[u])
      /\ s # << >> /\ Head(s) = "mail_ask" /\ "busy" \in us[u].flags
  BY <1>1, AtGood DEF MailSendMsg
<1>3. s \in Seq(Frame)
  BY <1>2 DEF Session
<1>4. /\ t \in Seq(Frame) /\ Len(t) = Len(s) - 1 /\ Len(s) \in Nat
      /\ DOMAIN t = 1 .. Len(t) /\ DOMAIN s = 1 .. Len(s)
      /\ \A i \in DOMAIN t : t[i] = s[i + 1]
      /\ s[1] = "mail_ask" /\ 1 \in DOMAIN s
  BY <1>2, <1>3
<1>5. Len(s) > 1 /\ s[2] = "loop"
  BY <1>2, <1>4 DEF Shape
<1> HIDE DEF s, t
<1>6. t # << >> /\ Head(t) = "loop"
  <2>1. Len(t) > 0 /\ t[1] = "loop"
    BY <1>4, <1>5
  <2> QED
    BY <2>1, <1>4
<1>7. \A i \in DOMAIN t : i + 1 \in DOMAIN s /\ i + 1 # 1 /\ t[i] = s[i + 1]
  BY <1>4
<1>8. Shape(t)
  BY <1>2, <1>4, <1>7 DEF Shape
<1>9. \A g : (\E i \in DOMAIN s : s[i] = g) <=> g = "mail_ask" \/ \E i \in DOMAIN t : t[i] = g
  <2>1. \A i \in DOMAIN s : i = 1 \/ (i - 1 \in DOMAIN t /\ t[i - 1] = s[i])
    BY <1>4
  <2> QED
    BY <2>1, <1>4, <1>7
<1>10. q = [us[u] EXCEPT !.stack = t]
  BY DEF s, t
<1>11. /\ q \in Session /\ q.stack = t /\ q.flags = us[u].flags /\ q.online = us[u].online
       /\ SameLists(q, us[u]) /\ q.held_p = us[u].held_p /\ q.hist_p = us[u].hist_p
       /\ q.send = us[u].send
  BY <1>2, <1>4, <1>10 DEF Session, SameLists
<1> HIDE DEF q
<1>12. Kept(q)
  BY <1>2, <1>11, SameKept
<1>13. Placed(q)
  BY <1>2, <1>9, <1>11 DEF Placed, On, s
<1>14. Polite(q)
  BY <1>2, <1>6, <1>11 DEF Polite, Top, IsBusy
<1>15. Good(q)
  BY <1>8, <1>11, <1>12, <1>13, <1>14 DEF Good
<1> QED
  BY <1>15, LeavesGood DEF MailSendMsg, q

LEMMA AskQuestionGood ==
  ASSUME AllGood(us), Counts, NEW u \in User, AskQuestion(u)
  PROVE  AllGood(us') /\ Counts'
<1>1. "room" \in Frame
        /\ "question" \in Frame \ {"room", "mail_ask", "held_move", "loop", "held"}
        /\ Writing \in SUBSET Flag /\ "busy" \in Writing
  BY DEF Frame, Flag, Writing
<1>2. Home(us[u])
  BY <1>1, AtGood DEF AskQuestion
<1>3. Good(Calls(us[u], "question", Writing))
  BY <1>1, <1>2, HomePush
<1> QED
  BY <1>3, LeavesGood DEF AskQuestion

LEMMA QuestionReturnGood ==
  ASSUME AllGood(us), Counts, NEW u \in User, QuestionReturn(u)
  PROVE  AllGood(us') /\ Counts'
<1> DEFINE a == [us[u] EXCEPT !.flags = @ \ {"sending"}]
           m == [id |-> sent + 1, from |-> u, kind |-> "question"]
           q == Remember(a, m)
           s == [us EXCEPT ![u] = q]
<1>1. "question" \in Frame \ {"room", "mail_ask", "held"} /\ "question" # "room"
  BY DEF Frame
<1>2. Good(us[u]) /\ us[u] \in Session /\ Top(us[u]) = "question" /\ us[u].online
        /\ Polite(us[u])
  BY <1>1, AtGood DEF QuestionReturn
<1>3. m \in MailOf
  BY XMsgAssumption DEF MailOf, MsgOf, Id, Counts, QuestionReturn
<1>4. \/ us' = [us EXCEPT ![u] = Ret(u, us, a)] /\ sent' = sent
      \/ /\ sent' = sent + 1
         /\ \E v \in User, refused \in BOOLEAN :
              us[v].online /\ v # u /\ us' = [RecvMsg(s, v, u, m, refused) EXCEPT
                                      ![u] = Ret(u, RecvMsg(s, v, u, m, refused), @)]
  BY XMsgAssumption DEF QuestionReturn
<1>5. sent < MaxSent /\ told' = told /\ wild' = wild
  BY DEF QuestionReturn
<1> HIDE DEF m
<1>6. /\ a \in Session /\ a.stack = us[u].stack /\ a.flags = us[u].flags \ {"sending"}
        /\ a.online = us[u].online
      /\ a.held = us[u].held /\ a.hist = us[u].hist /\ a.arrived = us[u].arrived
      /\ a.taken = us[u].taken
      /\ a.held_p = us[u].held_p /\ a.hist_p = us[u].hist_p /\ a.send = us[u].send
  BY <1>2 DEF Session
<1> HIDE DEF a
<1>7. Good(a) /\ Top(a) = "question"
  BY <1>2, <1>6, SameGood DEF Top
<1>8. Good(Ret(u, us, a))
  BY <1>1, <1>7, RetOfGood
<1>9. PICK h \in Seq(MailOf) : q = [a EXCEPT !.hist = h] /\ PlaceIn(a.hist_p, h)
  BY <1>3, <1>6, <1>7, RememberKeeps DEF Good, Kept, PlaceIn
<1> HIDE DEF q
<1>10. /\ q \in Session /\ q.stack = a.stack /\ q.flags = a.flags /\ q.online = a.online
       /\ q.held = a.held /\ q.hist = h /\ q.arrived = a.arrived /\ q.taken = a.taken
       /\ q.held_p = a.held_p /\ q.hist_p = a.hist_p /\ q.send = a.send
  BY <1>6, <1>9 DEF Session
<1>11. Good(q)
  BY <1>7, <1>9, <1>10 DEF Good, Kept, PlaceIn, Placed, On, Polite, Top, IsBusy, OnHold
<1>12. AllGood(s) /\ s[u] = q /\ \A v \in User \ {u} : s[v] = us[v]
  BY <1>11, PutGood DEF AllGood
<1> HIDE DEF s
<1>13. ASSUME NEW v \in User, NEW refused \in BOOLEAN, us[v].online, v # u,
              us' = [RecvMsg(s, v, u, m, refused) EXCEPT
                       ![u] = Ret(u, RecvMsg(s, v, u, m, refused), @)]
       PROVE  AllGood(us')
  <2> DEFINE t == RecvMsg(s, v, u, m, refused)
  <2>1. s[v].online
    BY <1>12, <1>13
  <2>2. AllGood(t) /\ t[u].stack = s[u].stack
    BY <1>3, <1>12, <2>1, RecvMsgGood
  <2> HIDE DEF t
  <2>3. Good(t[u]) /\ Top(t[u]) = "question"
    BY <2>2, <1>7, <1>10, <1>12 DEF AllGood, Top
  <2>4. Good(Ret(u, t, t[u]))
    BY <2>3, <1>1, RetOfGood
  <2>5. us' = [t EXCEPT ![u] = Ret(u, t, t[u])]
    BY <1>13 DEF t
  <2> QED
    BY <2>2, <2>4, <2>5, PutGood
<1>14. AllGood(us')
  BY <1>4, <1>8, <1>13, PutGood
<1> QED
  BY XMsgAssumption, <1>4, <1>5, <1>14 DEF Counts

\* A notification that is counted.
LEMMA NotifiedGood ==
  ASSUME AllGood(us), Counts, NEW u \in User, Notified(u)
  PROVE  AllGood(Notify(u, us)) /\ Notify(u, us)[u] = us[u] /\ told' \in 0 .. MaxTold
<1>1. told \in Nat /\ (ToldLater(u, us) = {} \/ told < MaxTold)
  BY XMsgAssumption DEF Notified, Counts
<1>2. told' \in 0 .. MaxTold
  BY XMsgAssumption DEF Notified, Counts
<1> QED
  BY <1>1, <1>2, NotifyGood

LEMMA ReplyXGood ==
  ASSUME AllGood(us), Counts, NEW u \in User, ReplyX(u)
  PROVE  AllGood(us') /\ Counts'
<1> DEFINE h == us[u].hist
           others == {i \in DOMAIN h : h[i].from # u}
           i == CHOOSE i \in others : \A j \in others : j <= i
<1>1. "room" \in Frame
  BY DEF Frame
<1>2. Home(us[u])
  BY <1>1, AtGood DEF ReplyX
<1>3. h \in Seq(MailOf)
  BY <1>2 DEF Home, Session
<1>4. others # {} /\ Leaves(u, ReplyTo(us[u], h[i].from))
  BY DEF ReplyX
<1>5. Len(h) \in Nat /\ DOMAIN h = 1 .. Len(h) /\ others \subseteq 1 .. Len(h)
        /\ others \subseteq DOMAIN h
  BY <1>3
<1> HIDE DEF h, others
<1>6. i \in others
  BY <1>4, <1>5, Ind!GreatestNat
<1> HIDE DEF i
<1>7. h[i] \in MailOf
  BY <1>3, <1>5, <1>6
<1>8. h[i].from \in User
  BY <1>7 DEF MailOf, MsgOf
<1>9. Good(ReplyTo(us[u], h[i].from))
  BY <1>2, <1>8, ReplyGood
<1> QED
  BY <1>4, <1>9, LeavesGood

LEMMA HistoryGood ==
  ASSUME AllGood(us), Counts, NEW u \in User, History(u)
  PROVE  AllGood(us') /\ Counts'
<1> DEFINE h == us[u].hist
           p == Last(h).id
           r == [us[u] EXCEPT !.hist_p = p]
<1>1. /\ "room" \in Frame
        /\ "history" \in Frame \ {"room", "mail_ask", "held_move", "loop", "held"}
      /\ {"busy"} \in SUBSET Flag
  BY DEF Frame, Flag
<1>2. Home(us[u])
  BY <1>1, AtGood DEF History
<1>3. h \in Seq(MailOf) /\ h # << >>
  BY <1>2 DEF Home, Session, History
<1>4. Leaves(u, Calls(r, "history", {"busy"}))
  BY DEF History
<1>5. Last(h) = h[Len(h)] /\ Len(h) \in 1 .. Len(h)
  BY <1>3 DEF Last
<1>6. h[Len(h)] \in MailOf
  BY <1>3, <1>5
<1>7. p \in Place
  BY <1>5, <1>6, XMsgAssumption DEF MailOf, MsgOf, Id, Place
<1>8. PlaceIn(p, h)
  BY <1>5, PlaceAt
<1> HIDE DEF p
<1>9. /\ r \in Session /\ r.stack = us[u].stack /\ r.flags = us[u].flags
        /\ r.held_p = us[u].held_p
      /\ r.hist_p = p /\ SameLists(r, us[u])
  BY <1>2, <1>7 DEF Home, Session, SameLists
<1> HIDE DEF r
<1>10. Home(r)
  BY <1>2, <1>8, <1>9 DEF Home, Kept, IsBusy, SameLists, PlaceIn
<1>11. Good(Calls(r, "history", {"busy"}))
  BY <1>1, <1>10, HomePush
<1> QED
  BY <1>4, <1>11, LeavesGood

\* At the prompts of the history and of what is held, the place moves.
LEMMA HistoryPlace ==
  ASSUME NEW r, Good(r), Top(r) = "history", r.online, NEW p \in Place, PlaceIn(p, r.hist)
  PROVE  LET q == [r EXCEPT !.hist_p = p]
         IN  Good(q) /\ Top(q) = "history" /\ q.online
<1> DEFINE q == [r EXCEPT !.hist_p = p]
<1>1. r \in Session /\ Kept(r) /\ Shape(r.stack) /\ Placed(r) /\ Polite(r)
  BY DEF Good
<1>2. /\ q \in Session /\ q.stack = r.stack /\ q.flags = r.flags /\ q.held_p = r.held_p
      /\ q.hist_p = p /\ SameLists(q, r) /\ q.online = r.online /\ q.send = r.send
  BY <1>1 DEF Session, SameLists
<1> HIDE DEF q
<1>3. Kept(q)
  BY <1>1, <1>2 DEF Kept, SameLists, PlaceIn
<1>4. Placed(q) /\ Polite(q)
  BY <1>1, <1>2 DEF Placed, On, Polite, Top, IsBusy, OnHold, SameLists
<1>5. Good(q)
  BY <1>1, <1>2, <1>3, <1>4 DEF Good
<1>6. Top(q) = "history" /\ q.online
  BY <1>2 DEF Top
<1> QED
  BY <1>5, <1>6 DEF q

\* The places next to one, of the messages of s.
LEMMA NeighbourIn ==
  ASSUME NEW s \in Seq(MailOf), NEW p, NEW n \in Neighbours(IdsOf(s), p)
  PROVE  n \in Place /\ PlaceIn(n, s)
<1> DEFINE ids == IdsOf(s)
<1>1. n = NoMsg \/ \E i \in DOMAIN ids : n = ids[i]
  BY DEF Neighbours
<1>2. CASE n = NoMsg
  BY <1>2, XMsgAssumption DEF NoMsg, Place, PlaceIn
<1>3. ASSUME NEW i \in DOMAIN ids, n = ids[i] PROVE n \in Place /\ PlaceIn(n, s)
  <2>1. i \in 1 .. Len(s) /\ n = s[i].id
    BY <1>3 DEF IdsOf
  <2>2. s[i] \in MailOf
    BY <2>1
  <2> QED
    BY <2>1, <2>2, PlaceAt, XMsgAssumption DEF MailOf, MsgOf, Id, Place
<1> QED
  BY <1>1, <1>2, <1>3

LEMMA HistoryStepGood ==
  ASSUME AllGood(us), Counts, NEW u \in User, HistoryStep(u)
  PROVE  AllGood(us') /\ Counts'
<1> DEFINE r(p) == [us[u] EXCEPT !.hist_p = p]
           b(p) == [r(p) EXCEPT !.flags = @ \ {"busy"}]
<1>1. PICK p \in Neighbours(IdsOf(us[u].hist), us[u].hist_p) :
        Leaves(u, IF p = NoMsg THEN Ret(u, us, b(p)) ELSE r(p))
  BY DEF HistoryStep
<1>2. "history" \in Frame \ {"room", "mail_ask", "held"}
  BY DEF Frame
<1>3. Good(us[u]) /\ Top(us[u]) = "history" /\ us[u].online /\ us[u] \in Session
  BY <1>2, AtGood DEF HistoryStep
<1>4. us[u].hist \in Seq(MailOf)
  BY <1>3 DEF Session
<1>5. p \in Place /\ PlaceIn(p, us[u].hist)
  BY <1>4, NeighbourIn
<1>6. Good(r(p)) /\ Top(r(p)) = "history" /\ r(p).online
  BY <1>3, <1>5, HistoryPlace
<1> DEFINE q == r(p)
           c == [q EXCEPT !.flags = @ \ {"busy"}]
<1>7. Leaves(u, IF p = NoMsg THEN Ret(u, us, c) ELSE q)
  BY <1>1
<1>8. Good(q) /\ Top(q) = "history"
  BY <1>6
<1> HIDE DEF q
<1>9. q \in Session /\ Kept(q) /\ Shape(q.stack) /\ q.stack # << >> /\ Placed(q)
  BY <1>2, <1>8, AtTop
<1>10. /\ c \in Session /\ c.stack = q.stack /\ c.held_p = q.held_p /\ c.hist_p = q.hist_p
       /\ SameLists(c, q)
  BY <1>9 DEF Session, SameLists
<1> HIDE DEF c
<1>11. Kept(c) /\ Top(c) = "history" /\ (c.held_p # NoMsg => On(c, "held"))
  BY <1>8, <1>9, <1>10, SameKept DEF Top, Placed, On
<1>12. Good(Ret(u, us, c))
  BY <1>2, <1>9, <1>10, <1>11, RetGood
<1> QED
  BY <1>7, <1>8, <1>12, LeavesGood

LEMMA HistoryNumberGood ==
  ASSUME AllGood(us), Counts, NEW u \in User, HistoryNumber(u)
  PROVE  AllGood(us') /\ Counts'
<1>1. PICK p \in Range(IdsOf(us[u].hist)) : Leaves(u, [us[u] EXCEPT !.hist_p = p])
  BY DEF HistoryNumber
<1>2. "history" \in Frame
  BY DEF Frame
<1>3. Good(us[u]) /\ Top(us[u]) = "history" /\ us[u].online /\ us[u] \in Session
  BY <1>2, AtGood DEF HistoryNumber
<1>4. us[u].hist \in Seq(MailOf)
  BY <1>3 DEF Session
<1>5. PICK i \in 1 .. Len(us[u].hist) : p = us[u].hist[i].id
  BY <1>1 DEF Range, IdsOf
<1>6. us[u].hist[i] \in MailOf
  BY <1>4, <1>5
<1>7. p \in Place /\ PlaceIn(p, us[u].hist)
  BY <1>5, <1>6, PlaceAt, XMsgAssumption DEF MailOf, MsgOf, Id, Place
<1>8. Good([us[u] EXCEPT !.hist_p = p])
  BY <1>3, <1>7, HistoryPlace
<1> QED
  BY <1>1, <1>8, LeavesGood

LEMMA HistoryQuitGood ==
  ASSUME AllGood(us), Counts, NEW u \in User, HistoryQuit(u)
  PROVE  AllGood(us') /\ Counts'
<1> DEFINE q == us[u]
           c == [q EXCEPT !.flags = @ \ {"busy"}]
<1>1. "history" \in Frame \ {"room", "mail_ask", "held"}
  BY DEF Frame
<1>2. /\ q \in Session /\ Kept(q) /\ Shape(q.stack) /\ q.stack # << >> /\ Placed(q)
      /\ Top(q) = "history"
  BY <1>1, AtGood DEF HistoryQuit
<1>3. Leaves(u, Ret(u, us, c))
  BY DEF HistoryQuit
<1> HIDE DEF q
<1>4. /\ c \in Session /\ c.stack = q.stack /\ c.held_p = q.held_p /\ c.hist_p = q.hist_p
       /\ SameLists(c, q)
  BY <1>2 DEF Session, SameLists
<1> HIDE DEF c
<1>5. Kept(c) /\ Top(c) = "history" /\ (c.held_p # NoMsg => On(c, "held"))
  BY <1>2, <1>4, SameKept DEF Top, Placed, On
<1>6. Good(Ret(u, us, c))
  BY <1>1, <1>2, <1>4, <1>5, RetGood
<1> QED
  BY <1>3, <1>6, LeavesGood

\* An answer from one of these prompts.
LEMMA RepliesGood ==
  ASSUME AllGood(us), Counts, NEW u \in User,
         NEW r \in Session, Kept(r), Shape(r.stack), Placed(r), r.stack # << >>, "busy" \in r.flags,
         Head(r.stack) \in {"history", "held"}, ~On(r, "loop"), Replies(u, r)
  PROVE  AllGood(us') /\ Counts'
<1> DEFINE f(c) == IF Cardinality(c) = 1 THEN "edit" ELSE "x_prompt"
           q(c) == [r EXCEPT !.to = c]
<1>1. PICK c \in SUBSET Checked(u, [us EXCEPT ![u].to = User]) :
        Leaves(u, IF c = {} THEN q(c)
                  ELSE Calls(q(c), f(c), IF f(c) = "edit" THEN Writing ELSE {"busy"}))
  BY DEF Replies
<1> DEFINE g == f(c)
           fs == IF g = "edit" THEN Writing ELSE {"busy"}
           k == q(c)
<1>2. Leaves(u, IF c = {} THEN k ELSE Calls(k, g, fs))
  BY <1>1
<1>3. c \in SUBSET User
  <2> DEFINE s == [us EXCEPT ![u].to = User]
  <2>1. us[u] \in Session /\ DOMAIN us = User
    BY DEF AllGood, Good
  <2>2. s[u].to = User
    BY <2>1 DEF Session
  <2> HIDE DEF s
  <2>3. Checked(u, s) \subseteq User
    BY <2>2 DEF Checked
  <2> QED
    BY <2>3, <1>1 DEF s
<1>4. /\ k \in Session /\ k.stack = r.stack /\ k.flags = r.flags /\ k.held_p = r.held_p
      /\ k.hist_p = r.hist_p /\ SameLists(k, r) /\ k.online = r.online /\ k.send = r.send
  BY <1>3 DEF Session, SameLists
<1>5. g \in {"edit", "x_prompt"} /\ fs \in SUBSET Flag
  BY DEF Writing, Flag
<1>6. g \in Frame \ {"room"} /\ g \notin {"mail_ask", "held_move", "loop"}
  BY <1>5 DEF Frame
<1> HIDE DEF g, fs, k
<1>7. Kept(k) /\ Placed(k) /\ ~On(k, "loop")
  BY <1>4, SameKept DEF Placed, On
<1>8. Good(Calls(k, g, fs))
  BY <1>4, <1>5, <1>6, <1>7, PushGood DEF Placed
<1>9. Polite(k)
  BY <1>4 DEF Polite, Top, IsBusy
<1>10. Good(k)
  BY <1>4, <1>7, <1>9 DEF Good
<1> QED
  BY <1>2, <1>8, <1>10, LeavesGood

LEMMA HistoryReplyGood ==
  ASSUME AllGood(us), Counts, NEW u \in User, HistoryReply(u)
  PROVE  AllGood(us') /\ Counts'
<1>1. "history" \in Frame \ {"loop", "mail_ask"} /\ "history" # "room"
  BY DEF Frame
<1>2. /\ us[u] \in Session /\ Kept(us[u]) /\ Shape(us[u].stack) /\ Placed(us[u])
      /\ us[u].stack # << >> /\ Head(us[u].stack) = "history" /\ "busy" \in us[u].flags
      /\ Good(us[u]) /\ Top(us[u]) = "history"
  BY <1>1, AtGood DEF HistoryReply
<1>3. ~On(us[u], "loop")
  BY <1>1, <1>2, NoLoop
<1> QED
  BY <1>2, <1>3, RepliesGood DEF HistoryReply

\* A place is still there when more comes after it.
LEMMA PlaceConcat ==
  ASSUME NEW p, NEW T, NEW h \in Seq(T), NEW g \in Seq(T), PlaceIn(p, h)
  PROVE  PlaceIn(p, h \o g)
<1> SUFFICES ASSUME p # NoMsg PROVE \E i \in 1 .. Len(h \o g) : (h \o g)[i].id = p
  BY PlaceAt
<1>1. PICK i \in 1 .. Len(h) : h[i].id = p
  BY PlaceAt
<1>2. i \in 1 .. Len(h \o g) /\ (h \o g)[i] = h[i]
  OBVIOUS
<1> QED
  BY <1>1, <1>2

\* What is held, without the notifications; its prompt is still on top.
LEMMA HeldClean ==
  ASSUME NEW r, Good(r), Top(r) = "held", r.online
  PROVE  LET c == [r EXCEPT !.held = Mails(@)]
         IN  /\ Good(c) /\ Top(c) = "held" /\ c.held \in Seq(MailOf) /\ Mails(c.held) = c.held
             /\ c.flags = r.flags
<1> DEFINE c == [r EXCEPT !.held = Mails(@)]
<1>1. r \in Session /\ Kept(r) /\ Shape(r.stack) /\ Placed(r) /\ Polite(r)
        /\ r.held \in Seq(NoteOf)
  BY DEF Good, Session
<1>2. c \in Session /\ Kept(c) /\ c.held \in Seq(MailOf)
  BY <1>1, CleanKept
<1>3. /\ c.stack = r.stack /\ c.flags = r.flags /\ c.held_p = r.held_p /\ c.send = r.send
      /\ c.online = r.online /\ c.held = Mails(r.held)
  BY <1>1 DEF Session
<1>4. Mails(c.held) = c.held
  BY <1>1, <1>3, MailsOfNotes
<1> HIDE DEF c
<1>5. Placed(c) /\ Polite(c) /\ Top(c) = "held"
  BY <1>1, <1>3 DEF Placed, On, Polite, Top, IsBusy
<1>6. Good(c)
  BY <1>1, <1>2, <1>3, <1>5 DEF Good
<1> QED
  BY <1>2, <1>3, <1>4, <1>5, <1>6 DEF c

\* All that was held is history now.
LEMMA ExitGood ==
  ASSUME AllGood(us), Counts, NEW u \in User, NEW r, Good(r), Top(r) = "held",
         r.flags = us[u].flags, ExitHeld(u, r)
  PROVE  AllGood(us') /\ Counts'
<1> DEFINE all  == Mails(r.held)
           done == [r EXCEPT !.hist = @ \o all, !.taken = @ \o IdsOf(all), !.held = << >>,
                             !.held_p = NoMsg, !.flags = @ \ {"busy", "hold"}]
           s == IF OnHold(r) THEN Notify(u, us) ELSE us
<1>1. /\ us' = [s EXCEPT ![u] = Ret(u, s, done)]
      /\ IF OnHold(r) THEN Notified(u) ELSE UNCHANGED told
      /\ sent' = sent /\ wild' = wild
  BY DEF ExitHeld
<1>2. "held" \in Frame
  BY DEF Frame
<1>3. r \in Session /\ Kept(r) /\ Shape(r.stack) /\ r.stack # << >> /\ r.held \in Seq(NoteOf)
  BY <1>2, AtTop DEF Session
<1>4. all \in Seq(MailOf) /\ IdsOf(all) \in Seq(1 .. MaxSent)
  BY <1>3, MailsOfNotes
<1>5. r.hist \o all \in Seq(MailOf) /\ r.taken \o IdsOf(all) \in Seq(1 .. MaxSent)
  BY <1>3, <1>4 DEF Session
<1>6. << >> \in Seq(NoteOf) /\ NoMsg \in Place
  BY XMsgAssumption DEF NoMsg, Place
<1>7. PlaceIn(r.hist_p, r.hist \o all)
  <2>1. PlaceIn(r.hist_p, r.hist) /\ r.hist \in Seq(MailOf)
    BY <1>3 DEF Kept, PlaceIn, Session
  <2> QED
    BY <2>1, <1>4, PlaceConcat
<1>8. r.arrived = r.taken \o IdsOf(all)
  BY <1>3 DEF Kept
<1> HIDE DEF all
<1>9. /\ done \in Session /\ done.stack = r.stack /\ done.held = << >> /\ done.held_p = NoMsg
      /\ done.taken = r.taken \o IdsOf(all) /\ done.arrived = r.arrived
      /\ done.hist = r.hist \o all /\ done.hist_p = r.hist_p
  BY <1>3, <1>5, <1>6 DEF Session, Flag
<1> HIDE DEF done
<1>10. Kept(done)
  <2>1. IdsOf(Mails(<< >>)) = << >>
    BY MailsEmpty DEF IdsOf
  <2> DEFINE t == r.taken \o IdsOf(all)
  <2>2. t \o << >> = t
    BY <1>5
  <2> HIDE DEF t
  <2>3. done.arrived = t /\ done.taken = t
    BY <1>8, <1>9 DEF t
  <2> QED
    BY <2>1, <2>2, <2>3, <1>7, <1>9 DEF Kept, PlaceIn
<1>11. Top(done) = "held"
  BY <1>9 DEF Top
<1>12. Good(Ret(u, s, done))
  BY <1>3, <1>9, <1>10, <1>11, RetGood
<1>13. AllGood(s) /\ told' \in 0 .. MaxTold
  BY <1>1, NotifiedGood DEF Counts
<1> HIDE DEF s
<1>14. AllGood(us')
  BY <1>1, <1>12, <1>13, PutGood
<1> QED
  BY <1>1, <1>13, <1>14 DEF Counts

\* The prompt of what is held.
LEMMA HeldTop ==
  ASSUME AllGood(us), Counts, NEW u \in User, At(u, "held")
  PROVE  Good(us[u]) /\ Top(us[u]) = "held" /\ us[u].online
<1>1. "held" \in Frame
  BY DEF Frame
<1> QED
  BY <1>1, AtGood

LEMMA HeldQuitGood ==
  ASSUME AllGood(us), Counts, NEW u \in User, HeldQuit(u)
  PROVE  AllGood(us') /\ Counts'
<1> DEFINE r == [us[u] EXCEPT !.held = Mails(@)]
<1>1. Good(r) /\ Top(r) = "held" /\ r.flags = us[u].flags
  BY HeldTop, HeldClean DEF HeldQuit
<1>2. ExitHeld(u, r)
  BY DEF HeldQuit
<1> HIDE DEF r
<1> QED
  BY <1>1, <1>2, ExitGood

\* Another place among what is held.
LEMMA HeldPlace ==
  ASSUME NEW r, Good(r), Top(r) = "held", NEW p \in Place
  PROVE  Good([r EXCEPT !.held_p = p])
<1> DEFINE q == [r EXCEPT !.held_p = p]
<1>1. "held" \in Frame
  BY DEF Frame
<1>2. r \in Session /\ Kept(r) /\ Shape(r.stack) /\ Placed(r) /\ Polite(r) /\ On(r, "held")
  BY <1>1, AtTop
<1>3. /\ q \in Session /\ q.stack = r.stack /\ q.flags = r.flags /\ q.held_p = p
        /\ q.send = r.send
      /\ q.online = r.online /\ q.hist_p = r.hist_p /\ SameLists(q, r)
  BY <1>2 DEF Session, SameLists
<1> HIDE DEF q
<1>4. Kept(q)
  BY <1>2, <1>3, SameKept
<1>5. Placed(q) /\ Polite(q)
  BY <1>2, <1>3 DEF Placed, On, Polite, Top, IsBusy, OnHold, SameLists
<1>6. Good(q)
  BY <1>2, <1>3, <1>4, <1>5 DEF Good
<1> QED
  BY <1>6 DEF q

LEMMA HeldStepGood ==
  ASSUME AllGood(us), Counts, NEW u \in User, HeldStep(u)
  PROVE  AllGood(us') /\ Counts'
<1> DEFINE r == [us[u] EXCEPT !.held = Mails(@)]
<1>1. Good(r) /\ Top(r) = "held" /\ r.flags = us[u].flags /\ r.held \in Seq(MailOf)
  BY HeldTop, HeldClean DEF HeldStep
<1>2. PICK p \in Neighbours(IdsOf(r.held), r.held_p) :
        IF p = NoMsg THEN ExitHeld(u, r) ELSE Leaves(u, [r EXCEPT !.held_p = p])
  BY DEF HeldStep
<1> HIDE DEF r
<1>3. p \in Place
  BY <1>1, NeighbourIn
<1>4. Good([r EXCEPT !.held_p = p])
  BY <1>1, <1>3, HeldPlace
<1> QED
  BY <1>1, <1>2, <1>4, ExitGood, LeavesGood

LEMMA HeldReplyGood ==
  ASSUME AllGood(us), Counts, NEW u \in User, HeldReply(u)
  PROVE  AllGood(us') /\ Counts'
<1> DEFINE r == [us[u] EXCEPT !.held = Mails(@)]
<1>1. "held" \in Frame \ {"loop", "mail_ask"} /\ "held" # "room"
  BY DEF Frame
<1>2. Good(r) /\ Top(r) = "held" /\ r.flags = us[u].flags
  BY HeldTop, HeldClean DEF HeldReply
<1>3. "busy" \in us[u].flags
  BY <1>1, AtGood DEF HeldReply
<1>4. Replies(u, r)
  BY DEF HeldReply
<1> HIDE DEF r
<1>5. /\ r \in Session /\ Kept(r) /\ Shape(r.stack) /\ Placed(r)
      /\ r.stack # << >> /\ Head(r.stack) = "held" /\ "busy" \in r.flags
  BY <1>1, <1>2, <1>3, AtTop
<1>6. ~On(r, "loop")
  BY <1>1, <1>2, NoLoop
<1> QED
  BY <1>4, <1>5, <1>6, RepliesGood

LEMMA AskNumberGood ==
  ASSUME AllGood(us), Counts, NEW u \in User, AskNumber(u)
  PROVE  AllGood(us') /\ Counts'
<1> DEFINE r == [us[u] EXCEPT !.held = Mails(@)]
<1>1. "held" \in Frame \ {"loop", "mail_ask"} /\ "held_move" \in Frame \ {"room"}
        /\ {"busy"} \in SUBSET Flag
  BY DEF Frame, Flag
<1>2. Good(r) /\ Top(r) = "held"
  BY HeldTop, HeldClean DEF AskNumber
<1>3. Leaves(u, Calls(r, "held_move", {"busy"}))
  BY DEF AskNumber
<1> HIDE DEF r
<1>4. /\ r \in Session /\ Kept(r) /\ Shape(r.stack) /\ Placed(r)
      /\ r.stack # << >> /\ Head(r.stack) = "held"
  BY <1>1, <1>2, AtTop
<1>5. ~On(r, "loop") /\ (r.held_p # NoMsg => On(r, "held"))
  BY <1>1, <1>2, <1>4, NoLoop DEF Placed
<1>6. Good(Calls(r, "held_move", {"busy"}))
  BY <1>1, <1>4, <1>5, PushGood
<1> QED
  BY <1>3, <1>6, LeavesGood

LEMMA HeldMoveGood ==
  ASSUME AllGood(us), Counts, NEW u \in User, HeldMove(u)
  PROVE  AllGood(us') /\ Counts'
<1> DEFINE c == [us[u] EXCEPT !.held = Mails(@)]
           q(p) == [us[u] EXCEPT !.held = Mails(@), !.held_p = p]
<1>1. PICK p \in Range(IdsOf(us[u].held)) :
         us' = [us EXCEPT ![u] = Ret(u, us, q(p))] /\ wild' = (p \notin Range(IdsOf(q(p).held)))
  BY DEF HeldMove
<1>2. "held_move" \in Frame /\ "held_move" # "room"
  BY DEF Frame
<1>3. us[u] \in Session /\ Kept(us[u]) /\ Shape(us[u].stack) /\ us[u].stack # << >>
        /\ Top(us[u]) = "held_move"
  BY <1>2, AtGood DEF HeldMove
<1>4. us[u].held \in Seq(NoteOf) /\ us[u].stack \in Seq(Frame)
  BY <1>3 DEF Session
<1>5. PICK i \in 1 .. Len(us[u].held) : p = us[u].held[i].id
  BY <1>1 DEF Range, IdsOf
<1>6. us[u].held[i] \in NoteOf
  BY <1>4, <1>5
<1>7. p \in Place
  BY <1>5, <1>6, XMsgAssumption DEF NoteOf, MsgOf, Id, Place
<1>8. On(us[u], "held")
  <2> DEFINE s == us[u].stack
  <2>1. s[1] = "held_move" /\ 1 \in DOMAIN s /\ Len(s) \in Nat /\ DOMAIN s = 1 .. Len(s)
    BY <1>3, <1>4 DEF Top
  <2> HIDE DEF s
  <2>2. Len(s) > 1 /\ s[2] = "held"
    BY <2>1, <1>3 DEF Shape, s
  <2>3. 2 \in DOMAIN s
    BY <2>1, <2>2
  <2> QED
    BY <2>2, <2>3 DEF On, s
<1>9. c \in Session /\ Kept(c)
  BY <1>3, CleanKept
<1> DEFINE d == q(p)
<1>10. /\ d \in Session /\ d.stack = us[u].stack /\ SameLists(d, c) /\ d.hist_p = c.hist_p
  BY <1>3, <1>7, <1>9 DEF Session, SameLists
<1>11. us' = [us EXCEPT ![u] = Ret(u, us, d)]
  BY <1>1
<1> HIDE DEF d, c
<1>12. Kept(d) /\ Top(d) = "held_move" /\ On(d, "held")
  BY <1>3, <1>8, <1>9, <1>10, SameKept DEF Top, On
<1>13. Good(Ret(u, us, d))
  BY <1>3, <1>10, <1>12, RetGood
<1>14. wild' \in BOOLEAN /\ sent' = sent /\ told' = told
  BY <1>1 DEF HeldMove
<1> QED
  BY <1>11, <1>13, <1>14, PutGood DEF Counts

\* Notify, and then u has r.
LEMMA ToldGood ==
  ASSUME AllGood(us), Counts, NEW u \in User, Notified(u), NEW r, Good(r),
         us' = [Notify(u, us) EXCEPT ![u] = r], sent' = sent, wild' \in BOOLEAN
  PROVE  AllGood(us') /\ Counts'
<1>1. AllGood(Notify(u, us)) /\ told' \in 0 .. MaxTold
  BY NotifiedGood
<1>2. AllGood(us')
  BY <1>1, PutGood
<1> QED
  BY <1>1, <1>2 DEF Counts

LEMMA HoldHandlerGood ==
  ASSUME AllGood(us), Counts, NEW u \in User, Hold(u)
  PROVE  AllGood(us') /\ Counts'
<1> DEFINE s == Notify(u, us)
           r == [s[u] EXCEPT !.flags = @ \union {"hold"}]
<1>1. PICK q \in {RoomPrompt(u, s, r), Calls(r, "away", {"busy"})} : us' = [s EXCEPT ![u] = q]
  BY DEF Hold
<1>2. Notified(u) /\ sent' = sent /\ wild' = wild
  BY DEF Hold
<1>3. /\ "room" \in Frame
        /\ "away" \in Frame \ {"room", "mail_ask", "held_move", "loop", "held"}
      /\ {"busy"} \in SUBSET Flag
  BY DEF Frame, Flag
<1>4. Home(us[u]) /\ s[u] = us[u]
  BY <1>2, <1>3, AtGood, NotifiedGood DEF Hold
<1>5. /\ r \in Session /\ r.stack = us[u].stack /\ r.flags = us[u].flags \union {"hold"}
      /\ r.held_p = us[u].held_p /\ r.hist_p = us[u].hist_p /\ SameLists(r, us[u])
  BY <1>4 DEF Home, Session, SameLists
<1> HIDE DEF r
<1>6. Home(r) /\ Kept(r)
  BY <1>4, <1>5, SameKept DEF Home, IsBusy
<1>7. Good(RoomPrompt(u, s, r))
  BY <1>6, RoomPromptGood DEF Home
<1>8. Good(Calls(r, "away", {"busy"}))
  BY <1>3, <1>6, HomePush
<1>9. Good(q)
  BY <1>1, <1>7, <1>8
<1>10. us' = [Notify(u, us) EXCEPT ![u] = q]
  BY <1>1
<1>11. wild' \in BOOLEAN
  BY <1>2 DEF Counts
<1> QED
  BY <1>2, <1>9, <1>10, <1>11, ToldGood

LEMMA UnholdGood ==
  ASSUME AllGood(us), Counts, NEW u \in User, Unhold(u)
  PROVE  AllGood(us') /\ Counts'
<1>1. "room" \in Frame
  BY DEF Frame
<1>2. Home(us[u]) /\ us[u] \in Session
  BY <1>1, AtGood DEF Unhold
<1>3. CASE us[u].held # << >>
  <2>1. Leaves(u, HeldPrompt(us[u]))
    BY <1>3 DEF Unhold
  <2> QED
    BY <2>1, <1>2, <1>3, HeldPromptGood, LeavesGood
<1>4. CASE us[u].held = << >>
  <2> DEFINE s == Notify(u, us)
             f == us[u].flags \ {"hold"}
             r == [us[u] EXCEPT !.flags = f]
  <2>1. Notified(u) /\ us' = [s EXCEPT ![u].flags = @ \ {"hold"}] /\ sent' = sent
          /\ wild' = wild
    BY <1>4 DEF Unhold
  <2>2. s[u] = us[u]
    BY <2>1, NotifiedGood
  <2>3. us' = [s EXCEPT ![u] = r]
    BY <2>1, <2>2
  <2>4. /\ r \in Session /\ r.stack = us[u].stack /\ r.flags = f
        /\ r.held_p = us[u].held_p /\ r.hist_p = us[u].hist_p /\ SameLists(r, us[u])
    BY <1>2 DEF Session, SameLists
  <2> HIDE DEF r
  <2>5. Home(r) /\ r.held = << >>
    BY <1>2, <1>4, <2>4, SameKept DEF Home, IsBusy, SameLists
  <2>6. Good(r)
    BY <2>5, HomeGood
  <2>7. wild' \in BOOLEAN
    BY <2>1 DEF Counts
  <2> QED
    BY <2>1, <2>3, <2>6, <2>7, ToldGood
<1> QED
  BY <1>3, <1>4

LEMMA LockGood ==
  ASSUME AllGood(us), Counts, NEW u \in User, Lock(u)
  PROVE  AllGood(us') /\ Counts'
<1> DEFINE s == Notify(u, us)
           q == Calls(us[u], "lock", {"busy", "locked"})
<1>1. Notified(u) /\ us' = [s EXCEPT ![u] = Calls(@, "lock", {"busy", "locked"})]
        /\ sent' = sent /\ wild' = wild
  BY DEF Lock
<1>2. /\ "room" \in Frame
        /\ "lock" \in Frame \ {"room", "mail_ask", "held_move", "loop", "held"}
      /\ {"busy", "locked"} \in SUBSET Flag
  BY DEF Frame, Flag
<1>3. Home(us[u]) /\ s[u] = us[u]
  BY <1>1, <1>2, AtGood, NotifiedGood DEF Lock
<1>4. Good(q)
  BY <1>2, <1>3, HomePush
<1> HIDE DEF q
<1>5. us' = [s EXCEPT ![u] = q]
  BY <1>1, <1>3 DEF q
<1>6. wild' \in BOOLEAN
  BY <1>1 DEF Counts
<1> QED
  BY <1>1, <1>4, <1>5, <1>6, ToldGood

LEMMA UnlockGood ==
  ASSUME AllGood(us), Counts, NEW u \in User, Unlock(u)
  PROVE  AllGood(us') /\ Counts'
<1> DEFINE s == Notify(u, us)
           r == [s[u] EXCEPT !.flags = @ \ {"busy", "locked"}]
<1>1. Notified(u) /\ us' = [s EXCEPT ![u] = Ret(u, s, r)] /\ sent' = sent /\ wild' = wild
  BY DEF Unlock
<1>2. "lock" \in Frame /\ "lock" \notin {"room", "mail_ask", "held"}
  BY DEF Frame
<1>3. /\ us[u] \in Session /\ Kept(us[u]) /\ Shape(us[u].stack) /\ Placed(us[u])
      /\ us[u].stack # << >> /\ Top(us[u]) = "lock" /\ s[u] = us[u]
  BY <1>1, <1>2, AtGood, NotifiedGood DEF Unlock
<1>4. /\ r \in Session /\ r.stack = us[u].stack
      /\ r.held_p = us[u].held_p /\ r.hist_p = us[u].hist_p /\ SameLists(r, us[u])
  BY <1>3 DEF Session, SameLists
<1> HIDE DEF r
<1>5. Kept(r) /\ Top(r) = "lock" /\ (r.held_p # NoMsg => On(r, "held"))
  BY <1>3, <1>4, SameKept DEF Top, Placed, On
<1>6. Good(Ret(u, s, r))
  BY <1>2, <1>3, <1>4, <1>5, RetGood
<1> DEFINE q == Ret(u, s, r)
<1>7. us' = [Notify(u, us) EXCEPT ![u] = q] /\ Good(q)
  BY <1>1, <1>6
<1>8. wild' \in BOOLEAN
  BY <1>1 DEF Counts
<1> HIDE DEF q
<1> QED
  BY <1>1, <1>7, <1>8, ToldGood

LEMMA LogoutGood ==
  ASSUME AllGood(us), Counts, NEW u \in User, Logout(u)
  PROVE  AllGood(us') /\ Counts'
<1>1. /\ "room" \in Frame
        /\ "logout" \in Frame \ {"room", "mail_ask", "held_move", "loop", "held"}
      /\ {"busy"} \in SUBSET Flag
  BY DEF Frame, Flag
<1>2. Home(us[u])
  BY <1>1, AtGood DEF Logout
<1>3. Good(Calls(us[u], "logout", {"busy"}))
  BY <1>1, <1>2, HomePush
<1> QED
  BY <1>3, LeavesGood DEF Logout

\* Who comes in, and who is away.
LEMMA FreshGood == Good(Fresh) /\ Good(Away)
<1> DEFINE e == << >>
           t == <<"room">>
<1>1. e \in Seq(MailOf) /\ e \in Seq(NoteOf) /\ e \in Seq(1 .. MaxSent) /\ e \in Seq(Frame)
  OBVIOUS
<1>2. t \in Seq(Frame)
  BY DEF Frame
<1>3. NoMsg \in Place
  BY XMsgAssumption DEF NoMsg, Place
<1>4. IdsOf(Mails(e)) = e /\ e \o e = e
  BY MailsEmpty DEF IdsOf
<1> HIDE DEF e, t
<1>5. Fresh \in Session
  BY <1>1, <1>2, <1>3 DEF Fresh, Session, e, t
<1>6. Away \in Session
  BY <1>1, <1>2, <1>3 DEF Away, Fresh, Session, e, t
<1>7. /\ Fresh.stack = t /\ Fresh.held = e /\ Fresh.arrived = e /\ Fresh.taken = e
      /\ Fresh.hist_p = NoMsg /\ Fresh.held_p = NoMsg /\ Fresh.flags = {}
  BY DEF Fresh, e, t
<1>8. /\ Away.stack = e /\ Away.held = e /\ Away.arrived = e /\ Away.taken = e
      /\ Away.hist_p = NoMsg /\ Away.held_p = NoMsg /\ ~Away.online
  BY DEF Away, Fresh, e, t
<1>9. Kept(Fresh) /\ Kept(Away)
  BY <1>4, <1>7, <1>8 DEF Kept
<1>10. Home(Fresh) /\ Fresh.held = << >>
  BY <1>5, <1>7, <1>9 DEF Home, IsBusy, t, e
<1>11. Good(Fresh)
  BY <1>10, HomeGood
<1>12. DOMAIN e = {}
  BY DEF e
<1>13. Shape(e) /\ Placed(Away) /\ Polite(Away)
  BY <1>8, <1>12 DEF Shape, Placed, Polite, On
<1>14. Good(Away)
  BY <1>6, <1>8, <1>9, <1>13 DEF Good
<1> QED
  BY <1>11, <1>14

LEMMA ComingsGood ==
  ASSUME AllGood(us), Counts, NEW u \in User, LogoutYes(u) \/ Disconnect(u) \/ LogIn(u)
  PROVE  AllGood(us') /\ Counts'
<1>1. CASE LogoutYes(u)
  BY <1>1, FreshGood, ToldGood DEF LogoutYes
<1>2. CASE Disconnect(u)
  BY <1>2, FreshGood, ToldGood DEF Disconnect, Counts
<1>3. CASE LogIn(u)
  BY <1>3, FreshGood, ToldGood DEF LogIn, Counts
<1> QED
  BY <1>1, <1>2, <1>3

-----------------------------------------------------------------------------
\* IInv is inductive.
LEMMA InitIInv == Init => IInv
<1> SUFFICES ASSUME Init PROVE IInv
  OBVIOUS
<1>1. AllGood(us)
  BY FreshGood DEF Init, AllGood
<1>2. sent = 0 /\ told = 0 /\ wild = FALSE
  BY DEF Init
<1>3. 0 \in 0 .. MaxSent /\ 0 \in 0 .. MaxTold
  BY XMsgAssumption
<1>4. wild \in BOOLEAN
  BY <1>2
<1>5. Counts
  BY <1>2, <1>3, <1>4 DEF Counts
<1> QED
  BY <1>1, <1>5 DEF IInv

LEMMA NextIInv == IInv /\ [Next]_vars => IInv'
<1> SUFFICES ASSUME AllGood(us), Counts, [Next]_vars PROVE AllGood(us') /\ Counts'
  BY DEF IInv
<1>1. CASE UNCHANGED vars
  BY <1>1 DEF vars, Counts
<1>2. ASSUME NEW u \in User, Handler(u) \/ LoopSendMsg(u) PROVE AllGood(us') /\ Counts'
  <2>1. CASE EnterRecipients(u)
    BY <2>1, EnterRecipientsGood
  <2>2. CASE XPrompt(u)
    BY <2>2, XPromptGood
  <2>3. CASE Abort(u)
    BY <2>3, AbortGood
  <2>4. CASE EditReturn(u)
    BY <2>4, EditReturnGood
  <2>5. CASE MailSendMsg(u)
    BY <2>5, MailSendMsgGood
  <2>6. CASE AskQuestion(u)
    BY <2>6, AskQuestionGood
  <2>7. CASE QuestionReturn(u)
    BY <2>7, QuestionReturnGood
  <2>8. CASE ReplyX(u)
    BY <2>8, ReplyXGood
  <2>9. CASE History(u)
    BY <2>9, HistoryGood
  <2>10. CASE HistoryStep(u)
    BY <2>10, HistoryStepGood
  <2>11. CASE HistoryNumber(u)
    BY <2>11, HistoryNumberGood
  <2>12. CASE AskNumber(u)
    BY <2>12, AskNumberGood
  <2>13. CASE HistoryReply(u)
    BY <2>13, HistoryReplyGood
  <2>14. CASE HistoryQuit(u)
    BY <2>14, HistoryQuitGood
  <2>15. CASE HeldStep(u)
    BY <2>15, HeldStepGood
  <2>16. CASE HeldMove(u)
    BY <2>16, HeldMoveGood
  <2>17. CASE HeldReply(u)
    BY <2>17, HeldReplyGood
  <2>18. CASE HeldQuit(u)
    BY <2>18, HeldQuitGood
  <2>19. CASE Hold(u)
    BY <2>19, HoldHandlerGood
  <2>20. CASE Unhold(u)
    BY <2>20, UnholdGood
  <2>21. CASE Lock(u)
    BY <2>21, LockGood
  <2>22. CASE Unlock(u)
    BY <2>22, UnlockGood
  <2>23. CASE Logout(u)
    BY <2>23, LogoutGood
  <2>24. CASE LogoutYes(u) \/ Disconnect(u) \/ LogIn(u)
    BY <2>24, ComingsGood
  <2>25. CASE LoopSendMsg(u)
    BY <2>25, LoopSendMsgGood
  <2> QED
    BY <1>2, <2>1, <2>2, <2>3, <2>4, <2>5, <2>6, <2>7, <2>8, <2>9, <2>10, <2>11, <2>12,
       <2>13, <2>14, <2>15, <2>16, <2>17, <2>18, <2>19, <2>20, <2>21, <2>22, <2>23, <2>24,
       <2>25 DEF Handler
<1> QED
  BY <1>1, <1>2 DEF Next

\* Every session keeps what was said of it above.
THEOREM KeptThroughout == Spec => []IInv
  BY InitIInv, NextIInv, PTL DEF Spec

\* What came for a user is what he has got, and after it what is held for him, in the
\* order of arrival, whoever sends, holds, answers or looks back meanwhile (recvMsg,
\* spew_BufferedMsg, held_history_prompt, Exit_Held_History).
THEOREM MessagesInOrder == Spec => []InOrder
<1>1. IInv => InOrder
  BY DEF IInv, AllGood, Good, Kept, InOrder
<1> QED
  BY <1>1, KeptThroughout, PTL

\* Nobody sits at his prompt with messages held back, and who is not at his prompt is
\* busy: recvMsg never puts him into another state.
THEOREM NobodyInterrupted == Spec => []BusyUnlessPrompted
<1>1. IInv => BusyUnlessPrompted
  BY DEF IInv, AllGood, Good, Polite, BusyUnlessPrompted
<1> QED
  BY <1>1, KeptThroughout, PTL

\* The messages are where they may be, and expire_history never drops the one that is
\* looked at.
THEOREM PlaceKept == Spec => []PlaceInHistory
<1>1. ASSUME IInv PROVE PlaceInHistory
  <2>1. ASSUME NEW u \in User
        PROVE  /\ us[u].online \in BOOLEAN
               /\ us[u].stack \in Seq(Frame)
               /\ us[u].flags \subseteq {"busy", "sending", "hold", "locked", "stuck"}
               /\ us[u].to \union us[u].todo \subseteq User
               /\ Range(us[u].held) \union Range(us[u].hist) \union Range(us[u].send) \subseteq MsgOf
               /\ {us[u].held_p, us[u].hist_p} \subseteq 0 .. MaxSent + MaxTold
               /\ Range(us[u].arrived) \union Range(us[u].taken) \subseteq 1 .. MaxSent
               /\ us[u].hist_p # NoMsg => us[u].hist_p \in Range(IdsOf(us[u].hist))
    <3>1. us[u] \in Session /\ Kept(us[u])
      BY <1>1 DEF IInv, AllGood, Good
    <3>2. /\ us[u].held \in Seq(NoteOf) /\ us[u].hist \in Seq(MailOf)
            /\ us[u].send \in Seq(MailOf)
          /\ us[u].arrived \in Seq(1 .. MaxSent) /\ us[u].taken \in Seq(1 .. MaxSent)
      BY <3>1 DEF Session
    <3>3. ASSUME NEW T, NEW s \in Seq(T) PROVE Range(s) \subseteq T
      BY <3>3 DEF Range
    <3>4. NoteOf \subseteq MsgOf /\ MailOf \subseteq MsgOf
      BY DEF NoteOf, MailOf
    <3>5. Range(us[u].held) \union Range(us[u].hist) \union Range(us[u].send) \subseteq MsgOf
      BY <3>2, <3>3, <3>4
    <3>6. Range(us[u].arrived) \union Range(us[u].taken) \subseteq 1 .. MaxSent
      BY <3>2, <3>3
    <3> QED
      BY <3>1, <3>5, <3>6 DEF Session, Kept, Place
  <2> QED
    BY <1>1, <2>1 DEF PlaceInHistory, TypeOK, IInv, Counts
<1> QED
  BY <1>1, KeptThroughout, PTL

(***************************************************************************)
(* The messages of a room: the inductive invariant.                        *)
(***************************************************************************)
Ends ==
  /\ head_msg >= 0 => tail_msg >= 0
  /\ head_msg > 0 => file[head_msg] # None
  /\ \A u \in RoomUser : curr_msg[u] > 0 => head_msg > 0

\* Every message has one number, in the files and in memory.
Unique ==
  /\ \A k \in Number : file[k] <= posted
  /\ \A u \in RoomUser : message[u].id <= posted
  /\ \A k, l \in Number : file[k] = file[l] /\ file[k] # None => k = l
  /\ \A u \in RoomUser, k \in Number :
       file[k] = message[u].id /\ file[k] # None => k = message[u].number
  /\ \A u, w \in RoomUser :
       message[u].id = message[w].id /\ message[u].id # None
       => message[u].number = message[w].number

\* Who is in step with the room has last_read below every message not gone past, also
\* those that only others have in memory and may yet write back.
Ahead ==
  \A u \in RoomUser : ~lost[u] =>
    /\ last_read[u] <= head_msg \/ last_read[u] <= 0
    /\ \A n \in Number \ {0} :
         file[n] # None /\ file[n] \notin passed[u] => last_read[u] < n
    /\ \A w \in RoomUser :
         /\ message[w].id # None /\ message[w].number # 0
         /\ message[w].id \notin passed[u]
         => last_read[u] < message[w].number

\* The message in memory was read in the room.
Had ==
  \A u \in RoomUser : message[u].id # None =>
    at[u] = "room" /\ message[u].number <= last_read[u]

\* Until a stray file is written, the files are the room.
Tidy ==
  ~stray =>
    /\ \A k \in Number : file[k] # None <=> head_msg > 0 /\ k \in tail_msg .. head_msg
    /\ head_msg > 0 => tail_msg >= 1
    /\ head_msg - tail_msg <= most + 1 /\ max_msgs <= most
    /\ \A u \in RoomUser : message[u].id # None => message[u].number >= 1

RoomIInv == RoomTypeOK /\ Ends /\ Unique /\ Ahead /\ Had /\ Tidy

LEMMA Inits == RoomInit => RoomIInv
<1> SUFFICES ASSUME RoomInit PROVE RoomIInv
  OBVIOUS
<1>1. RoomTypeOK
  <2>1. NoMessage \in [number : Number, id : 0 .. MaxPosts]
    BY RoomAssumption DEF NoMessage, None, Number
  <2>2. message \in [RoomUser -> [number : Number, id : 0 .. MaxPosts]]
    BY <2>1 DEF RoomInit
  <2>3. /\ joined \in [RoomUser -> BOOLEAN] /\ lost \in [RoomUser -> BOOLEAN]
        /\ stray \in BOOLEAN
    BY Zenon DEF RoomInit
  <2> QED
    BY <2>2, <2>3, RoomAssumption DEF RoomInit, RoomTypeOK, Number, None
<1>2. Ends /\ Unique /\ Ahead /\ Had
  BY RoomAssumption DEF RoomInit, Ends, Unique, Ahead, Had, Number, NoMessage, None
<1>3. Tidy
  BY RoomAssumption DEF RoomInit, Tidy, Number, NoMessage, None
<1> QED
  BY <1>1, <1>2, <1>3 DEF RoomIInv

\* What TypeOK says of numbers.
LEMMA Numbers ==
  ASSUME RoomTypeOK
  PROVE  /\ MaxPosts \in Nat
         /\ head_msg \in Int /\ -1 <= head_msg /\ head_msg <= MaxPosts
         /\ tail_msg \in Int /\ -1 <= tail_msg /\ tail_msg <= head_msg
         /\ posted \in Nat /\ posted <= MaxPosts
         /\ max_msgs \in Nat /\ max_msgs >= 1 /\ most \in Nat /\ saved \in Nat
         /\ \A k \in Number : file[k] \in Nat /\ file[k] <= MaxPosts
         /\ \A u \in RoomUser : /\ last_read[u] \in Int /\ -1 <= last_read[u]
                            /\ curr_msg[u] \in Int /\ -1 <= curr_msg[u]
                            /\ message[u].number \in Number /\ message[u].id \in Nat
<1>1. /\ MaxPosts \in Nat
      /\ head_msg \in Int /\ -1 <= head_msg /\ head_msg <= MaxPosts
      /\ tail_msg \in Int /\ -1 <= tail_msg /\ tail_msg <= head_msg
      /\ posted \in Nat /\ posted <= MaxPosts
  BY RoomAssumption DEF RoomTypeOK, Number
<1>2. max_msgs \in Nat /\ max_msgs >= 1 /\ most \in Nat /\ saved \in Nat
  BY RoomAssumption DEF RoomTypeOK
<1>3. \A k \in Number : file[k] \in Nat /\ file[k] <= MaxPosts
  BY <1>1 DEF RoomTypeOK
<1>4. \A u \in RoomUser : /\ last_read[u] \in Int /\ -1 <= last_read[u]
                     /\ curr_msg[u] \in Int /\ -1 <= curr_msg[u]
  BY <1>1 DEF RoomTypeOK
<1>5. \A u \in RoomUser : message[u].number \in Number /\ message[u].id \in Nat
  BY <1>1 DEF RoomTypeOK
<1> QED
  BY <1>1, <1>2, <1>3, <1>4, <1>5

(***************************************************************************)
(* Reading: either a message of the room is read, or only the prompt is    *)
(* shown.                                                                  *)
(***************************************************************************)
Reads(u, n) ==
  /\ Reading(u) /\ Pass(u, n)
  /\ Prompt(u, n, [number |-> n, id |-> file[n]])
  /\ head_msg > 0 /\ n \in tail_msg .. head_msg

Shows(u, c, m) ==
  /\ Reading(u) /\ Prompt(u, c, m) /\ UNCHANGED <<last_read, passed>>
  /\ m \in {NoMessage, message[u]}
  /\ c \in -1 .. MaxPosts /\ (c > 0 => head_msg > 0)

LEMMA ReadMsgReads ==
  ASSUME RoomIInv, NEW u \in RoomUser, NEW c \in Int, NEW m \in {NoMessage, message[u]},
         Reading(u), head_msg > 0, ReadMsg(u, c, m)
  PROVE  \/ \E n \in Number : Reads(u, n) /\ (n = c \/ (c \notin tail_msg .. head_msg /\ n = tail_msg))
         \/ \E k \in Int : Shows(u, k, m)
<1> DEFINE n == IF c \in tail_msg .. head_msg THEN c ELSE tail_msg
<1>0. /\ head_msg \in -1 .. MaxPosts /\ tail_msg \in 0 .. head_msg
      /\ MaxPosts \in Nat
  BY RoomAssumption DEF RoomIInv, RoomTypeOK, Ends
<1>1. n \in tail_msg .. head_msg /\ n \in Number
  BY <1>0 DEF Number
<1>2. CASE n # c /\ (n = head_msg \/ head_msg <= 0)
  <2>1. Prompt(u, n, m) /\ UNCHANGED <<last_read, passed>>
    BY <1>2 DEF ReadMsg
  <2> QED
    BY <1>1, <2>1, RoomAssumption DEF Shows, Number
<1>3. CASE ~(n # c /\ (n = head_msg \/ head_msg <= 0))
  <2>1. Pass(u, n) /\ Prompt(u, n, [number |-> n, id |-> file[n]])
    BY <1>3 DEF ReadMsg
  <2> QED
    BY <1>1, <2>1 DEF Reads
<1> QED
  BY <1>2, <1>3

LEMMA ReaderReads ==
  ASSUME RoomIInv, NEW u \in RoomUser,
         \/ Space(u) \/ ReadBack(u) \/ ReadAgain(u) \/ OtherKey(u)
         \/ \E n \in Number : Jump(u, n)
         \/ \E d \in -MaxPosts .. MaxPosts : d # 0 /\ Walk(u, d)
  PROVE  \/ \E n \in Number : Reads(u, n)
         \/ \E c \in Int, m \in {NoMessage, message[u]} : Shows(u, c, m)
<1> USE DEF Number
<1>0. /\ head_msg \in -1 .. MaxPosts /\ tail_msg \in -1 .. head_msg
      /\ curr_msg[u] \in -1 .. MaxPosts /\ last_read[u] \in -1 .. MaxPosts
      /\ MaxPosts \in Nat
      /\ curr_msg[u] > 0 => head_msg > 0
  BY RoomAssumption DEF RoomIInv, RoomTypeOK, Ends
<1>1. CASE Space(u)
  <2> DEFINE c == IF curr_msg[u] < 0 THEN NewMsgs(last_read[u]) ELSE curr_msg[u] + 1
  <2>1. c \in Int /\ (c \in 0 .. head_msg => head_msg > 0)
    BY <1>0 DEF NewMsgs
  <2>2. CASE c \in 0 .. head_msg /\ ReadMsg(u, c, NoMessage)
    BY <1>1, <2>1, <2>2, ReadMsgReads DEF Space
  <2>3. CASE Prompt(u, -1, NoMessage) /\ UNCHANGED <<last_read, passed>>
    BY <1>0, <1>1, <2>3 DEF Space, Shows
  <2> QED
    BY <1>1, <2>2, <2>3 DEF Space
<1>2. CASE ReadBack(u)
  <2> DEFINE c == IF curr_msg[u] < 0 THEN head_msg ELSE curr_msg[u] - 1
  <2>1. c \in Int /\ head_msg > 0 /\ Reading(u)
    BY <1>0, <1>2 DEF ReadBack
  <2>2. CASE ReadMsg(u, c, message[u])
    BY <2>1, <2>2, ReadMsgReads
  <2>3. CASE Prompt(u, -1, NoMessage) /\ UNCHANGED <<last_read, passed>>
    BY <1>0, <2>1, <2>3 DEF Shows
  <2> QED
    BY <1>2, <2>2, <2>3 DEF ReadBack
<1>3. CASE ReadAgain(u)
  BY <1>0, <1>3, ReadMsgReads DEF ReadAgain
<1>4. CASE OtherKey(u)
  BY <1>0, <1>4 DEF OtherKey, Shows
<1>5. ASSUME NEW n \in Number, Jump(u, n) PROVE \E k \in Number : Reads(u, k)
  BY <1>0, <1>5 DEF Jump, ReadMsg, Reads
<1>6. ASSUME NEW d \in -MaxPosts .. MaxPosts, d # 0, Walk(u, d)
      PROVE  \/ \E n \in Number : Reads(u, n)
             \/ \E c \in Int, m \in {NoMessage, message[u]} : Shows(u, c, m)
  <2> DEFINE c == IF curr_msg[u] > 0 THEN curr_msg[u] + d
                  ELSE head_msg + (IF d < 0 THEN d + 1 ELSE d)
  <2>1. Clamp(c) \in Int
    BY <1>0, <1>6 DEF Clamp
  <2>2. CASE (curr_msg[u] > 0 \/ head_msg > 0) /\ ReadMsg(u, Clamp(c), message[u])
    BY <1>0, <1>6, <2>1, <2>2, ReadMsgReads DEF Walk
  <2>3. CASE /\ curr_msg[u] <= 0 /\ head_msg <= 0
             /\ Prompt(u, head_msg, message[u]) /\ UNCHANGED <<last_read, passed>>
    BY <1>0, <1>6, <2>3 DEF Walk, Shows
  <2> QED
    BY <1>6, <2>2, <2>3 DEF Walk
<1> QED
  BY <1>1, <1>2, <1>3, <1>4, <1>5, <1>6

(***************************************************************************)
(* The steps.                                                              *)
(***************************************************************************)
\* The message that is read was one in the files.
LEMMA ReadsKeeps ==
  ASSUME RoomIInv, NEW u \in RoomUser, NEW n \in Number, Reads(u, n)
  PROVE  RoomIInv'
<1> USE DEF None, room, limit, joins
<1>0. RoomTypeOK /\ head_msg > 0 /\ n \in Nat /\ tail_msg <= n /\ n <= head_msg
  BY Numbers DEF RoomIInv, Reads, Number
<1>1. /\ UNCHANGED <<head_msg, tail_msg, max_msgs, saved, most, file, at, joined, posted, lost, stray>>
      /\ at[u] = "room"
  BY DEF Reads, Reading
<1>2. /\ curr_msg' = [curr_msg EXCEPT ![u] = n]
      /\ message' = [message EXCEPT ![u] = [number |-> n, id |-> file[n]]]
  <2>1. ~(n < 0)
    BY <1>0
  <2> QED
    BY <2>1, Zenon DEF Reads, Prompt
<1>3. /\ last_read' = [last_read EXCEPT ![u] = IF n > last_read[u] THEN n ELSE last_read[u]]
      /\ passed' = [passed EXCEPT ![u] = IF lost[u] THEN {} ELSE
           passed[u] \cup ((1 .. posted) \ {file[k] : k \in {k \in Number : k > n}})]
  BY <1>0 DEF RoomTypeOK, Reads, Pass
<1>4. \A w \in RoomUser : w # u => last_read'[w] = last_read[w] /\ passed'[w] = passed[w]
                             /\ message'[w] = message[w] /\ curr_msg'[w] = curr_msg[w]
  BY <1>0, <1>2, <1>3 DEF RoomTypeOK
<1>5. message'[u].number = n /\ message'[u].id = file[n]
  BY <1>0, <1>2 DEF RoomTypeOK
<1>6. last_read'[u] \in {n, last_read[u]} /\ last_read'[u] >= n
      /\ last_read'[u] >= last_read[u] /\ last_read'[u] \in Int
  BY <1>0, <1>3, Numbers DEF RoomTypeOK
<1>7. passed'[u] \subseteq 1 .. MaxPosts
  BY <1>0, <1>3, Numbers DEF RoomTypeOK
<1>8. ~lost[u] => /\ \A i \in passed[u] : i \in passed'[u]
                 /\ \A i \in Nat : i # 0 /\ i <= posted /\ i \notin passed'[u]
                      => \E k \in Number : k > n /\ file[k] = i
  BY <1>0, <1>3, Numbers DEF RoomTypeOK
<1>9. RoomTypeOK'
  <2>1. last_read' \in [RoomUser -> -1 .. MaxPosts]
    BY <1>0, <1>3, Numbers DEF RoomTypeOK
  <2>2. curr_msg' \in [RoomUser -> -1 .. MaxPosts]
    BY <1>0, <1>2, Numbers DEF RoomTypeOK
  <2>3. message' \in [RoomUser -> [number : Number, id : 0 .. MaxPosts]]
    BY <1>0, <1>2, Numbers DEF RoomTypeOK
  <2>4. passed' \in [RoomUser -> SUBSET (1 .. MaxPosts)]
    BY <1>0, <1>3, <1>7 DEF RoomTypeOK
  <2> QED
    BY <1>0, <1>1, <2>1, <2>2, <2>3, <2>4 DEF RoomTypeOK
<1>10. Ends'
  BY <1>0, <1>1, <1>2 DEF RoomIInv, RoomTypeOK, Ends
<1>11. Unique'
  BY <1>0, <1>1, <1>4, <1>5, Numbers DEF RoomIInv, Unique
<1>12. Had'
  BY <1>0, <1>1, <1>4, <1>5, <1>6, Numbers DEF RoomIInv, Had
<1>13. Tidy'
  BY <1>0, <1>1, <1>4, <1>5, Numbers DEF RoomIInv, Tidy
<1>14. Ahead'
  <2> SUFFICES ASSUME NEW w \in RoomUser, ~lost[w]
               PROVE  /\ last_read'[w] <= head_msg \/ last_read'[w] <= 0
                      /\ \A k \in Number \ {0} :
                           file[k] # None /\ file[k] \notin passed'[w] => last_read'[w] < k
                      /\ \A v \in RoomUser :
                           /\ message'[v].id # None /\ message'[v].number # 0
                           /\ message'[v].id \notin passed'[w]
                           => last_read'[w] < message'[v].number
    BY <1>1 DEF Ahead
  <2>1. last_read'[w] <= head_msg \/ last_read'[w] <= 0
    BY <1>0, <1>4, <1>6 DEF RoomIInv, Ahead
  <2>2. ASSUME NEW k \in Number \ {0}, file[k] # None, file[k] \notin passed'[w]
        PROVE  last_read'[w] < k
    <3>1. last_read[w] < k
      BY <1>4, <1>8, <2>2 DEF RoomIInv, Ahead
    <3>2. CASE w = u
      <4>1. PICK l \in Number : l > n /\ file[l] = file[k]
        BY <1>8, <2>2, <3>2, <1>0, Numbers DEF RoomIInv, Unique
      <4>2. k > n
        BY <2>2, <4>1 DEF RoomIInv, Unique
      <4> QED
        BY <1>6, <3>1, <3>2, <4>2
    <3> QED
      BY <1>4, <3>1, <3>2
  <2>3. ASSUME NEW v \in RoomUser, message'[v].id # None, message'[v].number # 0,
               message'[v].id \notin passed'[w]
        PROVE  last_read'[w] < message'[v].number
    <3>1. CASE v = u
      <4>1. n \in Number \ {0} /\ file[n] # None /\ file[n] \notin passed'[w]
        BY <1>5, <2>3, <3>1
      <4> QED
        BY <1>5, <2>2, <3>1, <4>1
    <3>2. CASE v # u /\ w # u
      BY <1>4, <2>3, <3>2 DEF RoomIInv, Ahead
    <3>3. CASE v # u /\ w = u
      <4> DEFINE m == message[v]
      <4>1. m = message'[v]
        BY <1>4, <3>3
      <4>2. last_read[u] < m.number
        BY <1>8, <2>3, <3>3, <4>1 DEF RoomIInv, Ahead
      <4>3. PICK l \in Number : l > n /\ file[l] = m.id
        BY <1>0, <1>8, <2>3, <3>3, <4>1, Numbers DEF RoomIInv, Unique
      <4>4. m.number > n
        BY <2>3, <4>1, <4>3 DEF RoomIInv, Unique
      <4> QED
        BY <1>6, <3>3, <4>1, <4>2, <4>4
    <3> QED
      BY <3>1, <3>2, <3>3
  <2> QED
    BY <2>1, <2>2, <2>3
<1> QED
  BY <1>9, <1>10, <1>11, <1>12, <1>13, <1>14 DEF RoomIInv

\* A prompt keeps the message or drops it.
LEMMA PromptKeeps ==
  ASSUME RoomTypeOK, NEW u \in RoomUser, NEW c \in Int, NEW m \in {NoMessage, message[u]},
         Prompt(u, c, m)
  PROVE  /\ curr_msg' = [curr_msg EXCEPT ![u] = c]
         /\ message' \in [RoomUser -> [number : Number, id : 0 .. MaxPosts]]
         /\ \A w \in RoomUser : message'[w] = message[w] \/ message'[w] = NoMessage
         /\ \A w \in RoomUser : w # u => message'[w] = message[w]
         /\ c < 0 => message'[u] = NoMessage
<1> DEFINE x == IF c < 0 THEN NoMessage ELSE m
<1>1. curr_msg' = [curr_msg EXCEPT ![u] = c] /\ message' = [message EXCEPT ![u] = x]
  BY Zenon DEF Prompt
<1>2. NoMessage \in [number : Number, id : 0 .. MaxPosts]
  BY Numbers DEF NoMessage, None, Number
<1>3. x \in {NoMessage, message[u]} /\ (c < 0 => x = NoMessage)
  OBVIOUS
<1>4. message \in [RoomUser -> [number : Number, id : 0 .. MaxPosts]]
  BY DEF RoomTypeOK
<1> HIDE DEF x
<1> QED
  BY <1>1, <1>2, <1>3, <1>4

\* A message that is dropped says nothing.
LEMMA NoMessageSays == NoMessage.id = None /\ NoMessage.number = 0
BY DEF NoMessage

LEMMA ShowsKeeps ==
  ASSUME RoomIInv, NEW u \in RoomUser, NEW c \in Int, NEW m \in {NoMessage, message[u]},
         Shows(u, c, m)
  PROVE  RoomIInv'
<1> USE DEF None, room, limit, joins
<1>0. RoomTypeOK
  BY DEF RoomIInv
<1>1. /\ UNCHANGED <<head_msg, tail_msg, max_msgs, saved, most, file, at, joined, posted, lost, stray>>
      /\ UNCHANGED <<last_read, passed>>
  BY DEF Shows, Reading
<1>2. Prompt(u, c, m) /\ c \in -1 .. MaxPosts /\ (c > 0 => head_msg > 0)
  BY DEF Shows
<1>3. /\ curr_msg' = [curr_msg EXCEPT ![u] = c]
      /\ message' \in [RoomUser -> [number : Number, id : 0 .. MaxPosts]]
      /\ \A w \in RoomUser : message'[w] = message[w] \/ message'[w] = NoMessage
  BY <1>0, <1>2, PromptKeeps
<1>4. RoomTypeOK'
  BY <1>0, <1>1, <1>2, <1>3 DEF RoomTypeOK
<1>5. Ends'
  BY <1>0, <1>1, <1>2, <1>3 DEF RoomIInv, RoomTypeOK, Ends
<1>6. Unique'
  BY <1>1, <1>3, Numbers, <1>0, NoMessageSays DEF RoomIInv, Unique
<1>7. Ahead'
  BY <1>1, <1>3, NoMessageSays DEF RoomIInv, Ahead
<1>8. Had'
  BY <1>1, <1>3, NoMessageSays DEF RoomIInv, Had
<1>9. Tidy'
  BY <1>1, <1>3, NoMessageSays DEF RoomIInv, Tidy
<1> QED
  BY <1>4, <1>5, <1>6, <1>7, <1>8, <1>9 DEF RoomIInv

LEMMA SaveKeeps ==
  ASSUME RoomIInv, NEW u \in RoomUser, Save(u)
  PROVE  RoomIInv'
<1> USE DEF None, room, limit, joins
<1> DEFINE n == head_msg + 1
           t == IF Old THEN tail_msg + 1 ELSE tail_msg
<1>0. RoomTypeOK /\ Ends
  BY DEF RoomIInv
<1>1. /\ posted < MaxPosts /\ n <= MaxPosts
      /\ head_msg' = n /\ tail_msg' = (IF t <= 0 THEN n ELSE t)
      /\ posted' = posted + 1 /\ stray' = (stray \/ n = 0)
      /\ UNCHANGED <<max_msgs, saved, most, at, last_read, joined, passed, lost>>
      /\ at[u] = "room"
  BY DEF Save
<1>2. /\ file' = [k \in Number |-> IF k = n THEN posted + 1
                      ELSE IF Old /\ k = tail_msg THEN None ELSE file[k]]
      /\ Prompt(u, curr_msg[u], message[u])
  BY DEF Save
<1>3. /\ curr_msg' = [curr_msg EXCEPT ![u] = curr_msg[u]]
      /\ message' \in [RoomUser -> [number : Number, id : 0 .. MaxPosts]]
      /\ \A w \in RoomUser : message'[w] = message[w] \/ message'[w] = NoMessage
  BY <1>0, <1>2, PromptKeeps, Numbers
<1>4. n \in Number /\ file'[n] = posted + 1
  BY <1>0, <1>1, <1>2, Numbers DEF Number
<1>5. \A k \in Number : k # n => file'[k] = file[k] \/ file'[k] = None
  BY <1>2
<1>6. curr_msg' = curr_msg
  BY <1>0, <1>3 DEF RoomTypeOK
<1>7. Old => /\ tail_msg \in Nat /\ tail_msg + 1 <= head_msg
             /\ head_msg - tail_msg > max_msgs
  BY <1>0, Numbers DEF Old, Ends
<1>8. RoomTypeOK'
  <2>1. file' \in [Number -> 0 .. MaxPosts]
    BY <1>0, <1>1, <1>2, Numbers DEF RoomTypeOK
  <2>2. /\ head_msg' \in -1 .. MaxPosts /\ tail_msg' \in -1 .. head_msg'
        /\ posted' \in Number
    BY <1>0, <1>1, <1>7, Numbers DEF Number
  <2>3. stray' \in BOOLEAN
    BY <1>1
  <2> QED
    BY <1>0, <1>1, <1>3, <1>6, <2>1, <2>2, <2>3 DEF RoomTypeOK
<1>9. Ends'
  BY <1>0, <1>1, <1>4, <1>6, <1>7, Numbers DEF Ends
<1>10. Unique'
  BY <1>0, <1>1, <1>3, <1>4, <1>5, Numbers, NoMessageSays DEF RoomIInv, Unique
<1>11. Ahead'
  BY <1>0, <1>1, <1>3, <1>4, <1>5, Numbers, NoMessageSays DEF RoomIInv, Ahead
<1>12. Had'
  BY <1>1, <1>3, NoMessageSays DEF RoomIInv, Had
<1>13. Tidy'
  <2> SUFFICES ASSUME ~stray, n # 0 PROVE Tidy'
    BY <1>1 DEF Tidy
  <2>1. /\ \A k \in Number : file[k] # None <=> head_msg > 0 /\ k \in tail_msg .. head_msg
        /\ head_msg > 0 => tail_msg >= 1
        /\ head_msg - tail_msg <= most + 1 /\ max_msgs <= most
        /\ \A w \in RoomUser : message[w].id # None => message[w].number >= 1
    BY DEF RoomIInv, Tidy
  <2>2. n >= 1 /\ (head_msg = 0 => tail_msg = 0 /\ tail_msg' = n)
    BY <1>0, <1>1, <1>7, Numbers DEF Ends
  <2>3. tail_msg' >= 1 /\ head_msg' - tail_msg' <= most' + 1 /\ max_msgs' <= most'
    BY <1>0, <1>1, <1>7, <2>1, <2>2, Numbers DEF Old
  <2>4. \A k \in Number : file'[k] # None <=> head_msg' > 0 /\ k \in tail_msg' .. head_msg'
    BY <1>0, <1>1, <1>2, <1>7, <2>1, <2>2, Numbers DEF Number
  <2> QED
    BY <1>3, <2>1, <2>3, <2>4, NoMessageSays DEF Tidy
<1> QED
  BY <1>8, <1>9, <1>10, <1>11, <1>12, <1>13 DEF RoomIInv

\* A message that is written back had its number, and whoever is in step with the room
\* is either past it or still before it.
LEMMA DeleteKeeps ==
  ASSUME RoomIInv, NEW u \in RoomUser, Delete(u)
  PROVE  RoomIInv'
<1> USE DEF None, room, limit, joins
<1> DEFINE m == message[u]
<1>0. RoomTypeOK /\ Ends
  BY DEF RoomIInv
<1>1. /\ m.id # None
      /\ file' = [file EXCEPT ![m.number] = m.id]
      /\ stray' = (stray \/ m.number \notin tail_msg .. head_msg)
      /\ UNCHANGED <<head_msg, tail_msg, max_msgs, saved, most, at, last_read, joined, passed, lost, posted>>
      /\ Prompt(u, curr_msg[u], m)
  BY DEF Delete
<1>2. /\ curr_msg' = [curr_msg EXCEPT ![u] = curr_msg[u]]
      /\ message' \in [RoomUser -> [number : Number, id : 0 .. MaxPosts]]
      /\ \A w \in RoomUser : message'[w] = message[w] \/ message'[w] = NoMessage
  BY <1>0, <1>1, PromptKeeps, Numbers
<1>3. curr_msg' = curr_msg
  BY <1>0, <1>2 DEF RoomTypeOK
<1>4. /\ m.number \in Number /\ m.id \in Nat /\ m.id \in 0 .. MaxPosts /\ m.id <= posted
      /\ file'[m.number] = m.id
      /\ \A k \in Number : k # m.number => file'[k] = file[k]
  BY <1>0, <1>1, Numbers DEF RoomIInv, RoomTypeOK, Unique
<1>5. RoomTypeOK'
  <2>1. file' \in [Number -> 0 .. MaxPosts]
    BY <1>0, <1>1, <1>4 DEF RoomTypeOK
  <2>2. stray' \in BOOLEAN
    BY <1>1
  <2> QED
    BY <1>0, <1>1, <1>2, <1>3, <2>1, <2>2 DEF RoomTypeOK
<1>6. Ends'
  BY <1>0, <1>1, <1>3, <1>4, Numbers DEF Ends, Number
<1>7. Unique'
  BY <1>0, <1>1, <1>2, <1>4, Numbers, NoMessageSays DEF RoomIInv, Unique
<1>8. Ahead'
  BY <1>1, <1>2, <1>4, NoMessageSays DEF RoomIInv, Ahead
<1>9. Had'
  BY <1>1, <1>2, NoMessageSays DEF RoomIInv, Had
<1>10. Tidy'
  <2> SUFFICES ASSUME ~stray, m.number \in tail_msg .. head_msg PROVE Tidy'
    BY <1>1 DEF Tidy
  <2>1. /\ \A k \in Number : file[k] # None <=> head_msg > 0 /\ k \in tail_msg .. head_msg
        /\ head_msg > 0 => tail_msg >= 1
        /\ head_msg - tail_msg <= most + 1 /\ max_msgs <= most
        /\ \A w \in RoomUser : message[w].id # None => message[w].number >= 1
    BY DEF RoomIInv, Tidy
  <2>2. head_msg > 0
    BY <1>0, <1>1, <1>4, <2>1, Numbers DEF Number
  <2> QED
    BY <1>1, <1>2, <1>4, <2>1, <2>2, NoMessageSays DEF Tidy
<1> QED
  BY <1>5, <1>6, <1>7, <1>8, <1>9, <1>10 DEF RoomIInv

\* Joining the room: last_read stays, is brought down to what there is, or begins anew.
LEMMA JoinKeeps ==
  ASSUME RoomIInv, NEW u \in RoomUser, NEW l \in Int, at[u] # "room",
         -1 <= l, l <= last_read[u] \/ l <= 0, l <= MaxPosts,
         at' \in [RoomUser -> {"offline", "elsewhere", "room"}],
         \A w \in RoomUser : w # u => at'[w] = at[w],
         Join(u, l), UNCHANGED <<room, file, posted, stray>>,
         curr_msg' \in [RoomUser -> -1 .. MaxPosts],
         \A w \in RoomUser : curr_msg'[w] = curr_msg[w] \/ curr_msg'[w] = -1,
         message' \in [RoomUser -> [number : Number, id : 0 .. MaxPosts]],
         \A w \in RoomUser : message'[w] = message[w] \/ message'[w] = NoMessage
  PROVE  RoomIInv'
<1> USE DEF None, room, limit
<1>0. RoomTypeOK /\ Ends
  BY DEF RoomIInv
<1>1. /\ last_read' = [last_read EXCEPT ![u] = IF joined[u] THEN l ELSE 0]
      /\ joined' = [joined EXCEPT ![u] = TRUE]
      /\ lost' = [lost EXCEPT ![u] = lost[u] /\ joined[u]]
      /\ passed' = [passed EXCEPT ![u] = IF joined[u] THEN passed[u] ELSE {}]
  BY Zenon DEF Join
<1>2. /\ \A w \in RoomUser : w # u => /\ last_read'[w] = last_read[w] /\ lost'[w] = lost[w]
                                 /\ passed'[w] = passed[w]
  BY <1>0, <1>1 DEF RoomTypeOK
<1>3. \/ joined[u] /\ last_read'[u] = l /\ lost'[u] = lost[u] /\ passed'[u] = passed[u]
      \/ ~joined[u] /\ last_read'[u] = 0 /\ lost'[u] = FALSE /\ passed'[u] = {}
  BY <1>0, <1>1 DEF RoomTypeOK
<1>4. RoomTypeOK'
  <2>1. last_read' \in [RoomUser -> -1 .. MaxPosts]
    BY <1>0, <1>1, Numbers DEF RoomTypeOK
  <2>2. joined' \in [RoomUser -> BOOLEAN] /\ lost' \in [RoomUser -> BOOLEAN]
    BY <1>0, <1>1 DEF RoomTypeOK
  <2>3. passed' \in [RoomUser -> SUBSET (1 .. MaxPosts)]
    BY <1>0, <1>1 DEF RoomTypeOK
  <2> QED
    BY <1>0, <2>1, <2>2, <2>3 DEF RoomTypeOK
<1>5. Ends'
  BY <1>0, Numbers DEF Ends
<1>6. Unique'
  BY <1>0, Numbers, NoMessageSays DEF RoomIInv, Unique
<1>7. message'[u].id = None
  BY NoMessageSays DEF RoomIInv, Had
<1>8. Had'
  BY <1>2, <1>7, NoMessageSays DEF RoomIInv, Had
<1>9. Tidy'
  BY NoMessageSays DEF RoomIInv, Tidy
<1>10. Ahead'
  <2> SUFFICES ASSUME NEW w \in RoomUser, ~lost'[w]
               PROVE  /\ last_read'[w] <= head_msg \/ last_read'[w] <= 0
                      /\ \A n \in Number \ {0} :
                           file[n] # None /\ file[n] \notin passed'[w] => last_read'[w] < n
                      /\ \A v \in RoomUser :
                           /\ message'[v].id # None /\ message'[v].number # 0
                           /\ message'[v].id \notin passed'[w]
                           => last_read'[w] < message'[v].number
    BY DEF Ahead
  <2>1. \A n \in Number \ {0} : n >= 1 /\ n \in Int
    BY <1>0, Numbers DEF Number
  <2>2. CASE w = u /\ ~joined[u]
    BY <1>3, <2>1, <2>2, <1>0, Numbers, NoMessageSays
  <2>3. CASE w = u /\ joined[u]
    <3>1. /\ ~lost[u] /\ passed'[u] = passed[u] /\ last_read'[u] = l
          /\ \A n \in Int : n >= 1 /\ last_read[u] < n => l < n
      BY <1>0, <1>3, <2>3, Numbers
    <3>2. l <= head_msg \/ l <= 0
      BY <1>0, <3>1, Numbers DEF RoomIInv, Ahead
    <3> QED
      BY <1>0, <2>1, <2>3, <3>1, <3>2, Numbers, NoMessageSays DEF RoomIInv, Ahead
  <2>4. CASE w # u
    BY <1>2, <2>4, NoMessageSays DEF RoomIInv, Ahead
  <2> QED
    BY <2>2, <2>3, <2>4
<1> QED
  BY <1>4, <1>5, <1>6, <1>8, <1>9, <1>10 DEF RoomIInv

LEMMA LoginKeeps ==
  ASSUME RoomIInv, NEW u \in RoomUser, Login(u)
  PROVE  RoomIInv'
<1> DEFINE k == IF last_read[u] < 0 THEN 0 ELSE last_read[u]
           l == IF k > head_msg THEN head_msg ELSE k
<1>0. RoomTypeOK
  BY DEF RoomIInv
<1>1. l \in Int /\ -1 <= l /\ l <= MaxPosts /\ (l <= last_read[u] \/ l <= 0)
  BY <1>0, Numbers
<1>2. /\ at[u] = "offline" /\ at' = [at EXCEPT ![u] = "elsewhere"]
      /\ Join(u, l) /\ UNCHANGED <<room, file, curr_msg, message, posted, stray>>
  BY DEF Login
<1>3. /\ at' \in [RoomUser -> {"offline", "elsewhere", "room"}]
      /\ \A w \in RoomUser : w # u => at'[w] = at[w]
  BY <1>0, <1>2 DEF RoomTypeOK
<1> HIDE DEF l
<1> QED
  BY <1>0, <1>1, <1>2, <1>3, JoinKeeps DEF RoomTypeOK

LEMMA EnterKeeps ==
  ASSUME RoomIInv, NEW u \in RoomUser, Enter(u)
  PROVE  RoomIInv'
<1>0. RoomTypeOK
  BY DEF RoomIInv
<1>1. /\ at[u] = "elsewhere" /\ at' = [at EXCEPT ![u] = "room"]
      /\ Prompt(u, -1, NoMessage) /\ Join(u, last_read[u])
      /\ UNCHANGED <<room, file, posted, stray>>
  BY DEF Enter
<1>2. /\ at' \in [RoomUser -> {"offline", "elsewhere", "room"}]
      /\ \A w \in RoomUser : w # u => at'[w] = at[w]
  BY <1>0, <1>1 DEF RoomTypeOK
<1>3. /\ curr_msg' = [curr_msg EXCEPT ![u] = -1]
      /\ message' \in [RoomUser -> [number : Number, id : 0 .. MaxPosts]]
      /\ \A w \in RoomUser : message'[w] = message[w] \/ message'[w] = NoMessage
  BY <1>0, <1>1, PromptKeeps
<1>4. /\ curr_msg' \in [RoomUser -> -1 .. MaxPosts]
      /\ \A w \in RoomUser : curr_msg'[w] = curr_msg[w] \/ curr_msg'[w] = -1
  BY <1>0, <1>3, Numbers DEF RoomTypeOK
<1>5. last_read[u] \in Int /\ -1 <= last_read[u] /\ last_read[u] <= MaxPosts
  BY <1>0, Numbers DEF RoomTypeOK
<1> QED
  BY <1>1, <1>2, <1>3, <1>4, <1>5, JoinKeeps

LEMMA LeaveKeeps ==
  ASSUME RoomIInv, NEW u \in RoomUser, Leave(u)
  PROVE  RoomIInv'
<1> USE DEF None, room, limit, joins
<1>0. RoomTypeOK
  BY DEF RoomIInv
<1>1. /\ Prompt(u, -1, NoMessage)
      /\ UNCHANGED <<head_msg, tail_msg, max_msgs, saved, most, file, posted, stray>>
      /\ UNCHANGED <<last_read, joined, passed, lost>>
  BY DEF Leave
<1>2. /\ at' \in [RoomUser -> {"offline", "elsewhere", "room"}]
      /\ \A w \in RoomUser : w # u => at'[w] = at[w]
  BY <1>0 DEF RoomTypeOK, Leave
<1>3. /\ curr_msg' = [curr_msg EXCEPT ![u] = -1]
      /\ message' \in [RoomUser -> [number : Number, id : 0 .. MaxPosts]]
      /\ \A w \in RoomUser : message'[w] = message[w] \/ message'[w] = NoMessage
      /\ message'[u] = NoMessage
  BY <1>0, <1>1, PromptKeeps
<1>4. RoomTypeOK'
  BY <1>0, <1>1, <1>2, <1>3, Numbers DEF RoomTypeOK
<1>5. Ends'
  BY <1>0, <1>1, <1>3, Numbers DEF RoomIInv, RoomTypeOK, Ends
<1>6. Unique'
  BY <1>0, <1>1, <1>3, Numbers, NoMessageSays DEF RoomIInv, Unique
<1>7. Ahead'
  BY <1>1, <1>3, NoMessageSays DEF RoomIInv, Ahead
<1>8. Had'
  BY <1>1, <1>2, <1>3, NoMessageSays DEF RoomIInv, Had
<1>9. Tidy'
  BY <1>1, <1>3, NoMessageSays DEF RoomIInv, Tidy
<1> QED
  BY <1>4, <1>5, <1>6, <1>7, <1>8, <1>9 DEF RoomIInv

LEMMA ResizeKeeps ==
  ASSUME RoomIInv, NEW u \in RoomUser, NEW n \in Sizes, Resize(u, n)
  PROVE  RoomIInv'
<1> USE DEF None, joins, limit
<1>0. RoomTypeOK /\ Ends /\ n \in Nat /\ n >= 1
  BY RoomAssumption DEF RoomIInv
<1>1. /\ UNCHANGED <<head_msg, at, last_read, joined, passed, lost>>
      /\ UNCHANGED <<curr_msg, message, posted, stray>>
      /\ max_msgs' = n /\ most' = n /\ saved' = saved
      /\ tail_msg' = (IF head_msg - tail_msg > n THEN head_msg - n ELSE tail_msg)
  BY DEF Resize
<1>2. PICK t \in Int : t = tail_msg' /\ tail_msg \in Int /\ head_msg \in Int
  BY <1>0, <1>1, Numbers
<1>3. file' = [k \in Number |-> IF k \in tail_msg .. t - 1 THEN None ELSE file[k]]
  BY <1>2 DEF Resize
<1>4. t >= tail_msg /\ t <= head_msg /\ head_msg - t <= n
  BY <1>0, <1>1, <1>2, Numbers
<1>5. \A k \in Number : file'[k] = file[k] \/ file'[k] = None
  BY <1>3
<1>6. RoomTypeOK'
  <2>1. file' \in [Number -> 0 .. MaxPosts]
    BY <1>0, <1>3, Numbers DEF RoomTypeOK
  <2> QED
    BY <1>0, <1>1, <1>2, <1>4, <2>1, Numbers DEF RoomTypeOK
<1>7. Ends'
  BY <1>0, <1>1, <1>2, <1>3, <1>4, Numbers DEF Ends, Number
<1>8. Unique'
  BY <1>0, <1>1, <1>5, Numbers DEF RoomIInv, Unique
<1>9. Ahead'
  BY <1>1, <1>5 DEF RoomIInv, Ahead
<1>10. Had'
  BY <1>1 DEF RoomIInv, Had
<1>11. Tidy'
  <2> SUFFICES ASSUME ~stray PROVE Tidy'
    BY <1>1 DEF Tidy
  <2>1. /\ \A k \in Number : file[k] # None <=> head_msg > 0 /\ k \in tail_msg .. head_msg
        /\ head_msg > 0 => tail_msg >= 1
        /\ \A w \in RoomUser : message[w].id # None => message[w].number >= 1
    BY DEF RoomIInv, Tidy
  <2>2. ASSUME NEW k \in Number
        PROVE  file'[k] # None <=> head_msg > 0 /\ k \in t .. head_msg
    <3>1. k \in Int /\ head_msg \in Int /\ tail_msg \in Int
      BY <1>0, Numbers DEF Number
    <3>2. CASE k \in tail_msg .. t - 1
      <4>1. file'[k] = None
        BY <1>3, <3>2
      <4>2. k \notin t .. head_msg
        BY <3>1, <3>2
      <4> QED
        BY <4>1, <4>2
    <3>3. CASE k \notin tail_msg .. t - 1
      <4>1. file'[k] = file[k]
        BY <1>3, <3>3
      <4>2. k \in t .. head_msg <=> k \in tail_msg .. head_msg
        BY <1>4, <3>1, <3>3
      <4>3. file[k] # None <=> head_msg > 0 /\ k \in tail_msg .. head_msg
        BY <2>1
      <4> QED
        BY <4>1, <4>2, <4>3
    <3> QED
      BY <3>2, <3>3
  <2> QED
    BY <1>0, <1>1, <1>2, <1>4, <2>1, <2>2, Numbers DEF Tidy
<1> QED
  BY <1>6, <1>7, <1>8, <1>9, <1>10, <1>11 DEF RoomIInv

LEMMA CleanOutKeeps ==
  ASSUME RoomIInv, NEW u \in RoomUser, CleanOut(u)
  PROVE  RoomIInv'
<1> USE DEF None, limit
<1>0. RoomTypeOK
  BY DEF RoomIInv
<1>1. /\ UNCHANGED <<max_msgs, saved, most, at, last_read, joined, message, posted, stray>>
      /\ head_msg' = -1 /\ tail_msg' = -1
      /\ curr_msg' = [w \in RoomUser |-> -1]
      /\ lost' = [w \in RoomUser |-> TRUE] /\ passed' = [w \in RoomUser |-> {}]
  BY DEF CleanOut
<1>2. file' = [k \in Number |-> IF k \in tail_msg .. head_msg THEN None ELSE file[k]]
  BY DEF CleanOut
<1>3. \A k \in Number : file'[k] = file[k] \/ file'[k] = None
  BY <1>2
<1>4. RoomTypeOK'
  <2>1. file' \in [Number -> 0 .. MaxPosts]
    BY <1>0, <1>2, Numbers DEF RoomTypeOK
  <2>2. lost' \in [RoomUser -> BOOLEAN] /\ passed' \in [RoomUser -> SUBSET (1 .. MaxPosts)]
    BY <1>1
  <2>3. curr_msg' \in [RoomUser -> -1 .. MaxPosts]
    BY <1>0, <1>1, Numbers
  <2> QED
    BY <1>0, <1>1, <2>1, <2>2, <2>3, Numbers DEF RoomTypeOK
<1>5. Ends'
  BY <1>1 DEF Ends
<1>6. Unique'
  BY <1>0, <1>1, <1>3, Numbers DEF RoomIInv, Unique
<1>7. Ahead'
  BY <1>1 DEF Ahead
<1>8. Had'
  BY <1>1 DEF RoomIInv, Had
<1>9. Tidy'
  <2> SUFFICES ASSUME ~stray PROVE Tidy'
    BY <1>1 DEF Tidy
  <2>1. /\ \A k \in Number : file[k] # None <=> head_msg > 0 /\ k \in tail_msg .. head_msg
        /\ \A w \in RoomUser : message[w].id # None => message[w].number >= 1
        /\ max_msgs <= most
    BY DEF RoomIInv, Tidy
  <2>2. \A k \in Number : file'[k] = None
    BY <1>2, <2>1
  <2> QED
    BY <1>0, <1>1, <2>1, <2>2, Numbers DEF Tidy
<1> QED
  BY <1>4, <1>5, <1>6, <1>7, <1>8, <1>9 DEF RoomIInv

LEMMA SaveRoomKeeps ==
  ASSUME RoomIInv, NEW u \in RoomUser, SaveRoom(u)
  PROVE  RoomIInv'
<1>1. /\ UNCHANGED <<head_msg, tail_msg, max_msgs, most, file, at, last_read, passed, lost>>
      /\ UNCHANGED <<joined, curr_msg, message, posted, stray>>
      /\ saved' = max_msgs
  BY DEF SaveRoom, joins
<1>2. RoomTypeOK'
  BY <1>1 DEF RoomIInv, RoomTypeOK
<1>3. Ends' /\ Unique' /\ Ahead' /\ Had' /\ Tidy'
  BY <1>1 DEF RoomIInv, Ends, Unique, Ahead, Had, Tidy
<1> QED
  BY <1>2, <1>3 DEF RoomIInv

LEMMA ResetKeeps ==
  ASSUME RoomIInv, NEW u \in RoomUser, ResetCreationDate(u)
  PROVE  RoomIInv'
<1>1. /\ UNCHANGED <<head_msg, tail_msg, max_msgs, saved, most, file, at, last_read, passed, lost>>
      /\ UNCHANGED <<curr_msg, message, posted, stray>>
      /\ joined' = [w \in RoomUser |-> FALSE]
  BY DEF ResetCreationDate, room, limit
<1>2. RoomTypeOK'
  BY <1>1 DEF RoomIInv, RoomTypeOK
<1>3. Ends' /\ Unique' /\ Ahead' /\ Had' /\ Tidy'
  BY <1>1 DEF RoomIInv, Ends, Unique, Ahead, Had, Tidy
<1> QED
  BY <1>2, <1>3 DEF RoomIInv

\* What is below the last number before the restart is below the last one after it, as
\* that file is there.
LEMMA RestartKeeps ==
  ASSUME RoomIInv, Restart
  PROVE  RoomIInv'
<1> USE DEF None
<1> DEFINE F == {n \in Number : file[n] # None}
<1>0. RoomTypeOK /\ Ends
  BY DEF RoomIInv
<1>1. /\ max_msgs' = saved /\ most' = (IF saved > most THEN saved ELSE most)
      /\ UNCHANGED <<saved, file, joined, passed, lost, posted, stray>>
      /\ at' = [w \in RoomUser |-> "offline"]
      /\ curr_msg' = [w \in RoomUser |-> -1] /\ message' = [w \in RoomUser |-> NoMessage]
      /\ last_read' \in [RoomUser -> -1 .. MaxPosts]
      /\ \A w \in RoomUser : last_read'[w] <= last_read[w]
  BY DEF Restart
<1>2. \/ F = {} /\ head_msg' = 0 /\ tail_msg' = 0
      \/ /\ head_msg' \in F /\ \A n \in F : n <= head_msg'
         /\ tail_msg' \in F /\ (0 \in F \/ \A n \in F : tail_msg' <= n)
  BY DEF Restart, Renumber
<1>3. /\ head_msg' \in Number /\ tail_msg' \in Number /\ tail_msg' <= head_msg'
      /\ head_msg' > 0 => head_msg' \in F
      /\ head_msg > 0 => head_msg <= head_msg'
  BY <1>0, <1>2, Numbers DEF Ends, Number
<1>4. \A w \in RoomUser : /\ last_read'[w] \in Int /\ curr_msg'[w] = -1
                     /\ message'[w].id = None
  BY <1>0, <1>1, Numbers, NoMessageSays
<1>5. RoomTypeOK'
  <2>1. NoMessage \in [number : Number, id : 0 .. MaxPosts]
    BY <1>0, Numbers DEF NoMessage, Number
  <2>2. message' \in [RoomUser -> [number : Number, id : 0 .. MaxPosts]]
    BY <1>1, <2>1
  <2>3. curr_msg' \in [RoomUser -> -1 .. MaxPosts]
    BY <1>0, <1>1, Numbers
  <2>4. head_msg' \in -1 .. MaxPosts /\ tail_msg' \in -1 .. head_msg'
    BY <1>0, <1>3, Numbers DEF Number
  <2> QED
    BY <1>0, <1>1, <2>2, <2>3, <2>4 DEF RoomTypeOK
<1>6. Ends'
  BY <1>1, <1>3, <1>4, <1>0, Numbers DEF Ends, Number
<1>7. Unique'
  BY <1>0, <1>1, <1>4, Numbers DEF RoomIInv, Unique
<1>8. Ahead'
  <2> SUFFICES ASSUME NEW w \in RoomUser, ~lost[w]
               PROVE  /\ last_read'[w] <= head_msg' \/ last_read'[w] <= 0
                      /\ \A n \in Number \ {0} :
                           file[n] # None /\ file[n] \notin passed[w] => last_read'[w] < n
    BY <1>1, <1>4 DEF Ahead
  <2>1. last_read[w] <= head_msg \/ last_read[w] <= 0
    BY DEF RoomIInv, Ahead
  <2>2. last_read'[w] <= head_msg' \/ last_read'[w] <= 0
    BY <1>0, <1>1, <1>3, <1>4, <2>1, Numbers DEF Number
  <2>3. ASSUME NEW n \in Number \ {0}, file[n] # None, file[n] \notin passed[w]
        PROVE  last_read'[w] < n
    <3>1. last_read[w] < n /\ n \in Int
      BY <1>0, <2>3, Numbers DEF RoomIInv, Ahead, Number
    <3> QED
      BY <1>0, <1>1, <1>4, <3>1, Numbers
  <2> QED
    BY <2>2, <2>3
<1>9. Had'
  BY <1>4 DEF Had
<1>10. Tidy'
  <2> SUFFICES ASSUME ~stray PROVE Tidy'
    BY <1>1 DEF Tidy
  <2>1. /\ \A k \in Number : file[k] # None <=> head_msg > 0 /\ k \in tail_msg .. head_msg
        /\ head_msg > 0 => tail_msg >= 1
        /\ head_msg - tail_msg <= most + 1 /\ max_msgs <= most
    BY DEF RoomIInv, Tidy
  <2>2. CASE head_msg <= 0
    <3>1. F = {} /\ head_msg' = 0 /\ tail_msg' = 0
      BY <1>0, <1>2, <2>1, <2>2, Numbers
    <3> QED
      BY <1>0, <1>1, <1>4, <3>1, Numbers DEF Tidy
  <2>3. CASE head_msg > 0
    <3>1. \A k \in Number : k \in F <=> k \in tail_msg .. head_msg
      BY <2>1, <2>3
    <3>2. head_msg \in F /\ tail_msg \in F /\ 0 \notin F
      BY <1>0, <2>1, <2>3, <3>1, Numbers DEF Number
    <3>3. head_msg' = head_msg /\ tail_msg' = tail_msg
      BY <1>0, <1>2, <3>1, <3>2, Numbers DEF Number
    <3> QED
      BY <1>0, <1>1, <1>4, <2>1, <3>3, Numbers DEF Tidy
  <2> QED
    BY <1>0, <2>2, <2>3, Numbers
<1> QED
  BY <1>5, <1>6, <1>7, <1>8, <1>9, <1>10 DEF RoomIInv

LEMMA StutterKeeps ==
  ASSUME RoomIInv, UNCHANGED roomVars
  PROVE  RoomIInv'
<1>1. /\ UNCHANGED <<head_msg, tail_msg, max_msgs, saved, most, file, at, last_read, passed, lost>>
      /\ UNCHANGED <<joined, curr_msg, message, posted, stray>>
  BY DEF roomVars, room, limit, joins
<1>2. RoomTypeOK'
  BY <1>1 DEF RoomIInv, RoomTypeOK
<1>3. Ends' /\ Unique' /\ Ahead' /\ Had' /\ Tidy'
  BY <1>1 DEF RoomIInv, Ends, Unique, Ahead, Had, Tidy
<1> QED
  BY <1>2, <1>3 DEF RoomIInv

LEMMA Steps == RoomIInv /\ [RoomNext]_roomVars => RoomIInv'
<1> SUFFICES ASSUME RoomIInv, [RoomNext]_roomVars PROVE RoomIInv'
  OBVIOUS
<1>1. ASSUME NEW u \in RoomUser,
             \/ Space(u) \/ ReadBack(u) \/ ReadAgain(u) \/ OtherKey(u)
             \/ \E n \in Number : Jump(u, n)
             \/ \E d \in -MaxPosts .. MaxPosts : d # 0 /\ Walk(u, d)
      PROVE  RoomIInv'
  <2>1. \/ \E n \in Number : Reads(u, n)
        \/ \E c \in Int, m \in {NoMessage, message[u]} : Shows(u, c, m)
    BY <1>1, ReaderReads
  <2> QED
    BY <2>1, ReadsKeeps, ShowsKeeps
<1>2. ASSUME NEW u \in RoomUser, Save(u) \/ Delete(u) PROVE RoomIInv'
  BY <1>2, SaveKeeps, DeleteKeeps
<1>3. ASSUME NEW u \in RoomUser, Login(u) \/ Enter(u) \/ Leave(u) PROVE RoomIInv'
  BY <1>3, LoginKeeps, EnterKeeps, LeaveKeeps
<1>4. ASSUME NEW u \in RoomUser,
             \/ \E n \in Sizes : Resize(u, n)
             \/ SaveRoom(u) \/ CleanOut(u) \/ ResetCreationDate(u)
      PROVE  RoomIInv'
  BY <1>4, ResizeKeeps, SaveRoomKeeps, CleanOutKeeps, ResetKeeps
<1> QED
  BY <1>1, <1>2, <1>3, <1>4, RestartKeeps, StutterKeeps DEF RoomNext

(***************************************************************************)
(* The theorems.                                                           *)
(***************************************************************************)
\* The types of the state: no step reads or writes a file with a number that no message
\* can have, and the first message is never after the last.
THEOREM RoomTyped == RoomSpec => []RoomTypeOK
<1>1. RoomIInv => RoomTypeOK
  BY DEF RoomIInv
<1> QED
  BY <1>1, Inits, Steps, PTL DEF RoomSpec

\* The files are those from tail to head, whatever expires and whenever the numbers
\* are read from the directory again (newMsg, expire_msg, resize_Room,
\* room_readroomdir).
THEOREM RoomWhole == RoomSpec => []Whole
<1>1. RoomIInv => Whole
  <2> SUFFICES ASSUME RoomIInv, ~stray
               PROVE  {n \in Number : file[n] # None}
                        = IF head_msg > 0 THEN tail_msg .. head_msg ELSE {}
    BY DEF Whole
  <2>1. \A k \in Number : file[k] # None <=> head_msg > 0 /\ k \in tail_msg .. head_msg
    BY DEF RoomIInv, Tidy
  <2>2. head_msg > 0 => tail_msg .. head_msg \subseteq Number
    BY Numbers DEF RoomIInv, Tidy, Number
  <2> QED
    BY <2>1, <2>2
<1> QED
  BY <1>1, Inits, Steps, PTL DEF RoomSpec

\* There are never more than max_msgs + 2 messages (expire_msg, resize_Room), with the
\* largest max_msgs that was in force since the last resize: a restart brings back the
\* limit that was saved, and the messages of a larger room stay.
THEOREM RoomSized == RoomSpec => []Sized
<1>1. RoomIInv => Sized
  BY DEF RoomIInv, Tidy, Sized
<1> QED
  BY <1>1, Inits, Steps, PTL DEF RoomSpec

\* A message that a user did not go past is still offered to that user (newMsgs).
THEOREM RoomNewIsOffered == RoomSpec => []NewIsOffered
<1>1. RoomIInv => NewIsOffered
  <2> SUFFICES ASSUME RoomIInv, NEW u \in RoomUser, NEW n \in Number \ {0}, ~lost[u],
                      n \in tail_msg .. head_msg, file[n] # None,
                      file[n] \notin passed[u]
               PROVE  NewMsgs(last_read[u]) \in 0 .. n
    BY DEF NewIsOffered
  <2>1. last_read[u] < n
    BY DEF RoomIInv, Ahead
  <2>2. RoomTypeOK /\ Ends
    BY DEF RoomIInv
  <2>3. head_msg > 0 /\ tail_msg >= 0 /\ n \in Nat /\ tail_msg <= n /\ n <= head_msg
    BY <2>2, Numbers DEF Ends, Number
  <2> QED
    BY <2>1, <2>2, <2>3, Numbers DEF NewMsgs
<1> QED
  BY <1>1, Inits, Steps, PTL DEF RoomSpec

\* [Space] goes past no message that is there (the room prompt and readMsg).
THEOREM RoomNothingSkipped == RoomSpec => NothingSkipped
<1> DEFINE Skips(u) == \E n \in last_read[u] + 1 .. last_read'[u] - 1 :
                         n >= tail_msg /\ file[n] # None
<1>1. ASSUME RoomIInv, NEW u \in RoomUser, Space(u), curr_msg[u] < 0 \/ AtMessage(u)
      PROVE  ~Skips(u)
  <2> DEFINE c == IF curr_msg[u] < 0 THEN NewMsgs(last_read[u]) ELSE curr_msg[u] + 1
  <2>0. RoomTypeOK /\ Ends /\ Reading(u)
    BY <1>1 DEF RoomIInv, Space
  <2>1. /\ c \in Int /\ (c \in 0 .. head_msg => head_msg > 0)
        /\ c \in 0 .. head_msg => c <= tail_msg \/ c <= last_read[u] + 1
    BY <1>1, <2>0, Numbers DEF NewMsgs, AtMessage, RoomIInv, Had, None
  <2>2. CASE UNCHANGED last_read
    BY <2>0, <2>2, Numbers
  <2>3. CASE c \in 0 .. head_msg /\ ReadMsg(u, c, NoMessage)
    <3>1. \/ \E n \in Number : Reads(u, n) /\ (n = c \/ (c \notin tail_msg .. head_msg /\ n = tail_msg))
          \/ \E k \in Int : Shows(u, k, NoMessage)
      BY <1>1, <2>0, <2>1, <2>3, ReadMsgReads
    <3>2. CASE \E k \in Int : Shows(u, k, NoMessage)
      BY <2>2, <3>2 DEF Shows
    <3>3. ASSUME NEW n \in Number, Reads(u, n), n = c \/ n = tail_msg PROVE ~Skips(u)
      <4>1. last_read'[u] = IF n > last_read[u] THEN n ELSE last_read[u]
        BY <2>0, <3>3 DEF RoomTypeOK, Reads, Pass
      <4>2. n \in Int /\ (n <= tail_msg \/ n <= last_read[u] + 1)
        BY <2>0, <2>1, <2>3, <3>3, Numbers DEF Number
      <4> QED
        BY <2>0, <4>1, <4>2, Numbers
    <3> QED
      BY <3>1, <3>2, <3>3
  <2> QED
    BY <1>1, <2>2, <2>3 DEF Space
<1>2. RoomIInv => [\A u \in RoomUser : Space(u) /\ (curr_msg[u] < 0 \/ AtMessage(u)) =>
        \A n \in last_read[u] + 1 .. last_read'[u] - 1 : n >= tail_msg => file[n] = None]_roomVars
  BY <1>1
<1> QED
  BY <1>2, Inits, Steps, PTL DEF RoomSpec, NothingSkipped

=============================================================================
