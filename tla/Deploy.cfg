CONSTANT
  Scopes <- MCScopes
SPECIFICATION Spec
INVARIANTS
  TypeOK
  WiredWhenDone
  ConfigNamesContracts
PROPERTY RerunIsSilent
CHECK_DEADLOCK FALSE
