CONSTANTS
  ann = ann
  bob = bob
  cyd = cyd
  User = {ann, bob, cyd}
  Sysops = {ann}
  Habits <- MCHabits
  Targets <- MCTargets
  Configured = {"club"}
  MaxEntries = 2
  MaxStack = 3
SPECIFICATION Spec
INVARIANTS HarmHasACause ListedInRoom DraftHere KickedStayOut AideOfThisRoom
PROPERTY EditsKept
CHECK_DEADLOCK FALSE
