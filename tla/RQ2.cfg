CONSTANTS
  u1 = u1
  u2 = u2
  l1 = l1
  l2 = l2
  a1 = a1
  NoUser = NoUser
  Users <- MCUsers
  LocalDraws <- MCLocalDraws
  LiveDraws <- MCLiveDraws
  MaxSent <- MCMaxSent
  NCases = 2
  MaxLaunches = 2
  MaxFaults = 2
  MaxOps = 4
SYMMETRY UserSymmetry
SPECIFICATION Spec
INVARIANTS
  TypeOK
  EveryCasePasses
  LedgersBalance
  NoFalseAlarm
  PassedAgree
PROPERTIES
  NeverDiluted
  RecordedOnce
CHECK_DEADLOCK FALSE
