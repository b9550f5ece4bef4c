\* An EVM call and an endpoint query behind one worker; one fault and one
\* crash, fewer together than MaxRetries.
CONSTANTS
  Action = {call, query}
  Evm = {call}
  Fallback = {}
  Unserved = {}
  Workers = 1
  QueueCap = 1
  MaxRetries = 3
  MaxActions = 2
  MaxReceives = 1
  MaxFaults = 1
  MaxCrashes = 1
  MaxDiskFaults = 1
SPECIFICATION FairSpec
PROPERTIES
  Settles
  Delivered
  AnswersEmitted
CHECK_DEADLOCK FALSE
