CONSTANTS
  LoginTime = 3
  IdleTime = 6
  LockTime = 8
  SaveTime = 6
  Minute = 3
  Idling = 3
  LogoutTime = 2
  MaxLag = 3
SPECIFICATION TiedSpec
INVARIANTS QueueSorted SilenceBounded SavedUnlessTouched
PROPERTY NeverEarly
CHECK_DEADLOCK FALSE
