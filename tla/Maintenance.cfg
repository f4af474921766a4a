\* Two scripts, one of them the operator's, and two failures
SPECIFICATION Spec
CONSTANTS
  Cron = Cron
  Operator = Operator
  Keep = 1
  MaxRuns = 3
  MaxFaults = 2
  MaxVersion = 1
  MaxByHand = 1
  NoOne = NoOne
INVARIANTS
  TypeOK
  BrokenIsHidden
  KeysMatchData
  HeldMarkerStays
PROPERTIES
  SafetyBackupFirst
CHECK_DEADLOCK FALSE
