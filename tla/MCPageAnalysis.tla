--------------------------- MODULE MCPageAnalysis ---------------------------
(* Copies of three and four pages without reruns, and of two with one.     *)
EXTENDS PageAnalysis

Copy(pages, kinds, split, serial, reruns) ==
  [pages |-> pages, kinds |-> kinds, split |-> split, serial |-> serial, reruns |-> reruns]
MCScenarios ==
  {Copy(3, {"answer", "question_paper"}, TRUE, FALSE, 0), Copy(4, {}, FALSE, FALSE, 0),
   Copy(2, {"answer"}, TRUE, TRUE, 1), Copy(2, {}, FALSE, TRUE, 1)}
=============================================================================
