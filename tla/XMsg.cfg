CONSTANTS
  ann = ann
  bob = bob
  cor = cor
  User = {ann, bob}
  FollowUp = {ann}
  HoldBusy = {bob}
  Helper = {bob}
  Leaver = {bob}
  Buddy = {bob}
  HaveMailroom = TRUE
  MaxHistory = 1
  MaxSent = 2
  MaxTold = 1
SPECIFICATION LiveSpec
INVARIANTS InOrder BusyUnlessPrompted PlaceInHistory
PROPERTY LoopEnds
CHECK_DEADLOCK FALSE
