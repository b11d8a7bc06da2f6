----------------------------- MODULE MCAllMenus -----------------------------
(* Two Sysops, and a user who has come for nothing, but may be             *)
(* disconnected.  The Sysops are in the same menu, or one of them is in a  *)
(* menu that the other's list comes from, or in the menus that only touch  *)
(* what is his own, or makes and deletes rooms, or configs one, whose size *)
(* marks the parameters, or reads and posts.                               *)
EXTENDS AllMenus, TLC

CONSTANTS ann, bob, cyd

\* One of the Sysops has come for a, and the other for b.
Pair(a, b) ==
  {(v :> a) @@ (w :> b) @@ (cyd :> {}) : <<v, w>> \in {<<ann, bob>>, <<bob, ann>>}}

MCHabits ==
  UNION {Pair({i}, {i}) : i \in {"wrappers", "categories", "params"}}
  \cup Pair({"feelings"}, {"feel"}) \cup Pair({"users"}, {"boot"})
  \cup Pair({}, {"files", "logs", "boss"}) \cup Pair({"rule"}, {})
  \cup Pair({}, {"account", "terminal", "zone", "boss"}) \cup Pair({"friends"}, {})
  \cup Pair({"config", "params"}, {}) \cup Pair({"post"}, {})

MCTargets == [u \in {ann, bob, cyd} |-> {cyd}]

SysopSymmetry == Permutations({ann, bob})

=============================================================================
