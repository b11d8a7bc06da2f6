----------------------------- MODULE MCSession -----------------------------
(* Two slots or three, two accounts and the names of two guests. *)
EXTENDS Session, TLC

CONSTANTS s1, s2, s3, ann, bob, g1, g2, none

OneSlot    == {s1}
TwoSlots   == {s1, s2}
ThreeSlots == {s1, s2, s3}
TwoGuests  == <<g1, g2>>
NoGuests   == << >>
OneGuest   == <<g1>>

SlotSymmetry == Permutations(Slot)

=============================================================================
