SPECIFICATION Spec
CONSTANTS
  Files <- MCFiles
  Diff <- MCDiff
  Tools <- MCTools
  Facts <- MCFacts
  VendorMessages <- MCVendorMessages
  Window = 3
  PrimaryPool <- MCPrimaryPool
  RetryPool <- MCRetryPool
  DebatePool <- MCDebatePool
  EditorPool <- MCEditorPool
  MaxAnswer = 2
  Configs <- MCConfigs
INVARIANTS PostedFindingsAnchor PostedFindingsWereJudged NothingLostOnTheWay
CHECK_DEADLOCK FALSE
