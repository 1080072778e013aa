SPECIFICATION ZettelSpec
CONSTANTS
  Notes = 3
  Builds = 2
  FlushEvery = 2
  Scenario <- MCScenario
INVARIANT ChangesArchived
PROPERTIES IndexCurrent JobsEnd
CHECK_DEADLOCK FALSE
