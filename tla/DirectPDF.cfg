SPECIFICATION FairSpec
CONSTANTS
  r1 = r1
  r2 = r2
  Review <- MCReview
  Scenario <- MCScenario
  Window = 2
INVARIANTS
  PagesAssessed
  AnswersKept
  
  CallsBounded
PROPERTIES
  CallsApart
  ReviewEnds
CHECK_DEADLOCK FALSE
