\* One action of any kind, enqueued twice, two workers, two crashes: copies of
\* the same action in the queue, at the workers and backing off at once.
CONSTANTS
  Action = {call, strict, lenient, stray}
  Evm = {call}
  Fallback = {lenient}
  Unserved = {stray}
  Workers = 2
  QueueCap = 1
  MaxRetries = 2
  MaxActions = 1
  MaxReceives = 2
  MaxFaults = 2
  MaxCrashes = 2
  MaxDiskFaults = 1
SPECIFICATION Spec
INVARIANTS
  IInv
  NotStranded
  DoneIsApplied
  SendsBounded
  SendsCounted
PROPERTIES
  DoneIsFinal
CHECK_DEADLOCK FALSE
