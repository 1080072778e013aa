--------------------------- MODULE MCInboxMerge ---------------------------
(* Two runs over a small inbox and zettelkasten, for TLC. *)
EXTENDS InboxMerge, TLC

CONSTANTS run1, run2, noteA, noteB, zettelX, zettelY

OneRun == {run1}
TwoRuns == {run1, run2}
OneSource == {noteA}
TwoSources == {noteA, noteB}
OneDest == {zettelX}
TwoDests == {zettelX, zettelY}
Symmetry == Permutations(TwoRuns) \cup Permutations(TwoSources) \cup Permutations(TwoDests)
=============================================================================
