--------------------------- MODULE MCTopperBatch ---------------------------
(* One copy over two runs of the command, with two things that may happen  *)
(* meanwhile; two copies of one file name on two lanes in one run.         *)
EXTENDS TopperBatch, TLC

CONSTANTS p1, p2, l1, l2, h1, h2

MCNameOf == [c \in Copy |-> "copy.pdf"]
MCPlan == {[copies |-> <<p1>>, runs |-> 2], [copies |-> <<p1, p2>>, runs |-> 1]}
May(kinds) == [k \in Kinds |-> IF k \in kinds THEN 1 ELSE 0]
MCChances ==
  {May(kinds) : kinds \in
     {{"edit", "list"}, {"rerun", "list"}, {"delete", "list"}, {"unsaved", "crash"}, {"unsaved", "clear"},
      {"edit", "kill"}, {"delete", "kill"}, {"rerun", "kill"}, {"edit", "rerun"}, {"lost", "kill"}, {"lost", "expiry"}, {"crash", "expiry"}}}
Alike == Permutations({h1, h2}) \cup Permutations({l1, l2})
=============================================================================
