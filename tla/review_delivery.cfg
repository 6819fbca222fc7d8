SPECIFICATION PostingSpec
CONSTANTS
  Reviews = {1, 2}
  Results <- MCResults
  BatchSize = 1
  Signals <- MCSignals
  MaxFaults = 1
  Again = {2}
INVARIANTS DoneMeansDelivered
PROPERTIES NoRepost OutcomesSettle
CHECK_DEADLOCK FALSE
