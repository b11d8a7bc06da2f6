CONSTANTS
  RoomUser = {u1, u2}
  Sysop = {u1}
  Sizes = {1, 2}
  MaxPosts = 3
SPECIFICATION RoomSpec
INVARIANT ReadingHasMessage
