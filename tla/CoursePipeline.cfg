\* Three videos, two workers, two runs.
SPECIFICATION CourseSpec
CONSTANTS
  Videos = 3
  Workers = 2
  MaxPart = 6
  Scenario <- MCScenario
INVARIANTS NothingLost SuccessMeansWhole
PROPERTIES PipelineEnds
CHECK_DEADLOCK FALSE
