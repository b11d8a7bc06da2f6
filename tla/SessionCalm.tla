---------------------------- MODULE SessionCalm ----------------------------
(***************************************************************************)
(* The sessions of Session, and whether logins of one name overlapped.     *)
(***************************************************************************)
EXTENDS Session

VARIABLE calm   \* no two logins of one name have overlapped so far

\* The names of two sessions that are between having a name and being online,
\* or making an account, are different, and nobody makes an account in a name
\* that is in use: the logins of one name do not overlap.
Claim(s) == IF state[s] \in {"newpass", "newagain"} THEN tmp[s]
            ELSE IF Online(s) THEN NoName ELSE name[s]

NoOverlap ==
  \A s, t \in Slot : s # t /\ Claim(s) # NoName =>
    /\ Claim(s) # Claim(t)
    /\ state[s] \in {"newpass", "newagain"} => name[t] # Claim(s)

WatchedSpec ==
  /\ Init /\ calm = TRUE
  /\ [][Next /\ calm' = (calm /\ NoOverlap')]_<<vars, calm>>

\* is_online(n) finds the one session of that name that is online.
HashExact ==
  \A n \in Name : LET on == {s \in Slot : Online(s) /\ name[s] = n}
                  IN  IF on = {} THEN hash[n] = << >>
                      ELSE \E s \in on : on = {s} /\ hash[n] = <<s>>

\* As long as the logins of one name have not overlapped, is_online(n) finds
\* the one session of that name that is online, and nobody else.
ExactWhileCalm == calm => HashExact

=============================================================================
