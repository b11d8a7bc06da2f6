CONSTANTS
  RoomUser = {u1, u2}
  Sysop = {u1}
  Sizes = {1, 2}
  MaxPosts = 4
SPECIFICATION RoomSpec
INVARIANTS RoomTypeOK Whole Sized NewIsOffered
PROPERTY NothingSkipped
CONSTRAINT Bound
