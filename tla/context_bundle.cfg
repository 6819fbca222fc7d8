SPECIFICATION BundleSpec
CONSTANTS
  PullRequests <- MCPullRequests
  Settings <- MCSettings
  Missing = Missing
  CodeWindow = 2
  DocsWindow = 1
  SummaryCost = 3
  NoteCost = 2
  Concurrency = 2
INVARIANTS NothingLeftOutUnsaid RiskiestHunksFirst PromptWithinBudgets
CHECK_DEADLOCK FALSE
