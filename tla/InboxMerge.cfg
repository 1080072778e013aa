SPECIFICATION Spec
CONSTANTS
  run1 = run1
  run2 = run2
  noteA = noteA
  noteB = noteB
  zettelX = zettelX
  zettelY = zettelY
  NoRun = NoRun
  NoSource = NoSource
  Runs <- TwoRuns
  Sources <- TwoSources
  Dests <- OneDest
  Workers = 2
  ExcerptFacts = 9
  MaxTrouble = 1
INVARIANTS
  Recoverable
  CompletedMeansMerged
PROPERTIES
  RollbackRestores
  DestinationFactsKept
CHECK_DEADLOCK FALSE
SYMMETRY Symmetry
