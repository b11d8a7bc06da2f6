----------------------------- MODULE MCRoomMsg ------------------------------
(* A small instance of RoomMsg. *)
EXTENDS RoomMsg

\* Bound: the Sysop reads no messages; and a fourth one is posted only in the smallest
\* room, where it is the second that makes one expire, or in a larger one that was not
\* cleaned out and whose size is not saved, where it is one more than the restart allows.
Bound ==
  /\ \A u \in Sysop : curr_msg[u] <= 0 /\ last_read[u] = 0
  /\ posted = 4 => saved = 1 /\ (most = 1 \/ \A u \in RoomUser : ~lost[u])

=============================================================================
