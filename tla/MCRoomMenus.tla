---------------------------- MODULE MCRoomMenus ----------------------------
(* A Sysop who rules, and a user who posts, or who is aide of a room and   *)
(* configs or rules it too; a Sysop who appoints aides, and one who edits; *)
(* or a Sysop who edits, and a user who walks about.  And somebody in the   *)
(* Lobby, whom an aide may kick out.                                       *)
EXTENDS RoomMenus, TLC

CONSTANTS ann, bob, cyd

MCHabits ==
  {(ann :> {"rule"}) @@ (bob :> {"post"}) @@ (cyd :> {}),
   (ann :> {"appoint"}) @@ (bob :> {"edit"}) @@ (cyd :> {}),
   (ann :> {"appoint", "rule"}) @@ (bob :> {"config"}) @@ (cyd :> {}),
   (ann :> {"appoint", "rule"}) @@ (bob :> {"rule"}) @@ (cyd :> {}),
   (ann :> {"edit", "config"}) @@ (bob :> {"walk"}) @@ (cyd :> {})}

\* The Sysop has to do with the other user, and that one with the third.
MCTargets == (ann :> {bob}) @@ (bob :> {cyd}) @@ (cyd :> {})

=============================================================================
