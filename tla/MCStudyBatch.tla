---------------------------- MODULE MCStudyBatch ----------------------------
EXTENDS StudyBatch, TLC

CONSTANTS c1, c2, b1, b2

Ask(copies, stage, force, parallelism) ==
  [copies |-> copies, stage |-> stage, force |-> force, parallelism |-> parallelism,
   ownOCR |-> Len(copies) > 1 /\ parallelism = 1]

Case(first, second, failing, requests) ==
  [ask |-> (b1 :> first) @@ (b2 :> second), faults |-> failing,
   visits |-> (c1 :> requests) @@ (c2 :> 0)]

Nothing == Ask(<<>>, "all", FALSE, 1)
One(stage) == Ask(<<c1>>, stage, FALSE, 1)

\* Two copies at once or one by one; two batches on one copy; one batch
\* among clients.
MCScenario ==
  {Case(Ask(<<c1, c2>>, "all", FALSE, p), Nothing, 1, 0) : p \in {1, 2}}
  \cup {Case(CopyRequest(c1, FALSE, FALSE), CopyRequest(c1, TRUE, FALSE), 1, 0),
        Case(One("ocr"), CopyRequest(c1, FALSE, FALSE), 1, 0),
        Case(CopyRequest(c1, FALSE, FALSE), One("metadata"), 1, 0),
        Case(CopyRequest(c1, TRUE, FALSE), Nothing, 1, 2)}
=============================================================================
