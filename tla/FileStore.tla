----------------------------- MODULE FileStore ------------------------------
(***************************************************************************)
(* What the rest of bbs100 expects of its files: who reads a file gets     *)
(* what was saved last.  A save may fail, or cut the file short; what was  *)
(* to be saved then stands in for the file until it is forgotten.          *)
(***************************************************************************)
CONSTANTS File, Content, NoFile

VARIABLES
  content,  \* what is saved in each file, or NoFile
  pending,  \* what a failed save has left, or NoFile
  got       \* the last file that was read, and what it held

vars == <<content, pending, got>>

Init ==
  /\ content \in [File -> Content \cup {NoFile}]
  /\ pending = [f \in File |-> NoFile]
  /\ got \in File \X {NoFile}

Held(f) == IF pending[f] # NoFile THEN pending[f] ELSE content[f]

\* The files outside F stay; what is pending there may be forgotten.
Elsewhere(F) ==
  \A g \in File \ F :
    content'[g] = content[g] /\ pending'[g] \in {pending[g], NoFile}

\* A read may save what was pending after all.
Read(f) ==
  /\ got' = <<f, Held(f)>>
  /\ \/ Elsewhere({})
     \/ /\ pending[f] # NoFile
        /\ \/ content'[f] = Held(f) /\ pending'[f] = NoFile
           \/ content'[f] \in Content /\ pending'[f] \in {Held(f), NoFile}
        /\ Elsewhere({f})

Save(f, v) ==
  /\ content'[f] = v /\ pending'[f] = NoFile
  /\ Elsewhere({f}) /\ UNCHANGED got

Fail(f, v) ==
  /\ content'[f] = content[f] /\ pending'[f] \in {v, NoFile}
  /\ Elsewhere({f}) /\ UNCHANGED got

Cut(f, v) ==
  /\ content'[f] \in Content /\ pending'[f] \in {v, NoFile}
  /\ Elsewhere({f}) /\ UNCHANGED got

Remove(F) ==
  /\ \A f \in F : content'[f] \in {NoFile, content[f]} /\ pending'[f] = NoFile
  /\ Elsewhere(F) /\ UNCHANGED got

Forget == Elsewhere({}) /\ UNCHANGED got

Next ==
  \/ Forget
  \/ \E f \in File : Read(f) \/ \E v \in Content : Save(f, v) \/ Fail(f, v) \/ Cut(f, v)
  \/ \E F \in SUBSET File : Remove(F)

Spec == Init /\ [][Next]_vars

=============================================================================
