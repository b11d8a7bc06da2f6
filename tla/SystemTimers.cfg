CONSTANTS
  SysopTimes = {1, 7}
  SignalTime = 4
  Stage1 = 3
  Stage2 = 2
  Stage3 = 1
  ViewTime = 2
  CacheTime = 5
  Shut = 4
  MaxDue = 14
  MaxLag = 2
SPECIFICATION Spec
INVARIANTS ToldInTime NobodyComesIn LoggedOffFirst
PROPERTY NotPutOff
CHECK_DEADLOCK FALSE
