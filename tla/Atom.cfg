CONSTANTS
  i1 = i1
  i2 = i2
  j1 = j1
  j2 = j2
  j3 = j3
  s = s
  Inv = {i1, i2}
  Ops = 2
  Judge = {j1, j2, j3}
  LocalJudge = {j1, j2}
  Server = s
  NoKey = NoKey
  MaxExtensions = 3
  Terms <- MCTerms
  Rooms <- MCRooms
  Amount <- MCAmount
  Scopes <- MCScopes
SPECIFICATION Spec
INVARIANTS
  IInv
  Conserved
PROPERTIES
  Implements
  MCOutcome
CHECK_DEADLOCK FALSE
