CONSTANTS
  ann = ann
  bob = bob
  cyd = cyd
  User = {ann, bob, cyd}
  Sysops = {ann, bob}
  Habits <- MCHabits
  Targets <- MCTargets
  Configured = {"club"}
  MaxEntries = 2
  MaxStack = 3
  MaxItems = 2
  MaxFriends = 1
SPECIFICATION AllSpec
SYMMETRY SysopSymmetry
INVARIANTS BuffersFit HarmHasACause ArgumentsFit HitsWhatIsShown EditsRemembered ColorsChosen
CHECK_DEADLOCK FALSE
