CONSTANTS
  s1 = s1
  s2 = s2
  s3 = s3
  ann = ann
  bob = bob
  g1 = g1
  g2 = g2
  none = none
  Slot <- TwoSlots
  Account = {ann}
  Guest <- NoGuests
  MaxAttempts = 2
  Breakable = {}
  NoName = none
SPECIFICATION Spec
INVARIANT OneSessionPerName
CHECK_DEADLOCK FALSE
