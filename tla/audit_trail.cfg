SPECIFICATION Spec
CONSTANTS
  Settings <- MCSettings
  MaxCalls = 2
  MaxBacklog = 0
  MaxFaults = 1
  MaxOutcomes = 2
  MaxItems = 1
  Absent = Absent
INVARIANTS AuditNeverOvercounts DiagnosticsReachARow ObservedFromStartToEnd
CHECK_DEADLOCK FALSE
