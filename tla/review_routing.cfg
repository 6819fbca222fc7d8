SPECIFICATION RoutingSpec
CONSTANTS
  Initial = 90
  Minimum = 70
  StepDown = 10
  OtherInitials = {60}
  Low = 5
  High = 15
  MaxFalseAccept = 5
  MaxDismiss = 25
  MinSamples = 10
  JudgeOn = TRUE
  MinJudgeSamples = 5
  MaxJudgeError = 10
  MinReliability = 50
  Metrics <- MCMetrics
  JudgeWindows <- MCJudgeWindows
  NoRow = NoRow
  NoEntry = NoEntry
  NoSection = NoSection
  NoConfidence = NoConfidence
  MaxTunes = 2
  MaxRollbacks = 1
  Jobs = {j1}
  PullRequests <- MCPullRequests
  Answers <- MCAnswers
INVARIANTS SkipOnlyWhenSafe AppliedThresholdHasSource
PROPERTY LoweringNeedsEvidence
CHECK_DEADLOCK FALSE
