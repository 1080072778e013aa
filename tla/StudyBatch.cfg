SPECIFICATION FairSpec
CONSTANTS
  c1 = c1
  c2 = c2
  b1 = b1
  b2 = b2
  Batch = {b1, b2}
  Copy = {c1, c2}
  Scenario <- MCScenario
  Attempts = 2
INVARIANTS EndedBatchAgreesWithItems OCROncePerBatch RunningRowExplained
PROPERTIES AnalysisKept UndisturbedBatchEnds
CHECK_DEADLOCK FALSE
