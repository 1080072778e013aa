\* One job, three cancel requests at a time.
CONSTANTS
  job1 = job1 req1 = req1 req2 = req2 req3 = req3
  Job <- OneJob
  Handler <- ThreeRequests
  NoRow = NoRow
  NoCancel = NoCancel
SPECIFICATION FairSpec
INVARIANTS RowTellsEnding
PROPERTIES CancelSettles
CHECK_DEADLOCK FALSE
