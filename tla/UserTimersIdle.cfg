CONSTANTS
  LoginTime = 3
  IdleTime = 6
  LockTime = 8
  SaveTime = 3
  Minute = 2
  Idling = 1
  LogoutTime = 2
  MaxLag = 1
SPECIFICATION Spec
PROPERTY IdleInTime
CHECK_DEADLOCK FALSE
