CONSTANTS
  s1 = s1
  s2 = s2
  s3 = s3
  ann = ann
  bob = bob
  g1 = g1
  g2 = g2
  none = none
  Slot <- TwoSlots
  Account = {ann}
  Guest <- OneGuest
  MaxAttempts = 1
  Breakable = {}
  NoName = none
SPECIFICATION WatchedSpec
SYMMETRY SlotSymmetry
INVARIANTS TypeOK LoggedOutBeforeFreed NoGhostEntries NoPartialProfileSaved ExactWhileCalm
PROPERTY ClosingIsFinal
CHECK_DEADLOCK FALSE
