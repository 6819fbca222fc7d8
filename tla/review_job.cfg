SPECIFICATION Spec
CONSTANTS
  Catalog <- MCCatalog
  NoModel = NoModel
  NoProvider = NoProvider
  Reviews = {1}
  Cases <- MCCases
  ToolCalls <- MCToolCalls
  LlmErrors <- MCLlmErrors
  MaxIterations = 2
  Threshold = 2
  MaxRuns = 2
INVARIANTS TranscriptValid ModelFailureIsTotal NoFreeReviews DoneMeansAnswered
CHECK_DEADLOCK FALSE
