SPECIFICATION Spec
CONSTANTS
  DiffFiles <- MCDiffFiles
  Lines <- MCLines
  Diff <- MCDiff
  Facts <- MCFacts
  VendorMessages <- MCVendorMessages
  Window = 3
  Pool <- MCPool
  EditorPool <- MCEditorPool
  PromptCosts <- MCPromptCosts
  Configs <- MCConfigs
  MaxInterrupts = 1
INVARIANTS PlanCoversSurface ChunkWorkIsKept MissingChunksExplained ChunkFindingsSurvive
CHECK_DEADLOCK FALSE
