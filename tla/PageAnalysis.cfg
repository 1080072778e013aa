SPECIFICATION Spec
CONSTANTS
  Workers = 2
  BatchSize = 2
  Faults = 2
  Scenarios <- MCScenarios
INVARIANTS
  EveryAnswerOnce
  ReadyIsSound
PROPERTY
  AnalysisEnds
CHECK_DEADLOCK FALSE
