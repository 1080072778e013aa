---------------------------- MODULE MCDirectPDF -----------------------------
(***************************************************************************)
(* Direct PDF reviews for TLC: a short copy; a copy of 5 pages whose       *)
(* provider answers as badly as it likes; the plans for 6 pages; and two   *)
(* reviews of one copy on one lane, after one that left its checkpoints    *)
(* (with a bad answer and a cancel), and with a crash of the process.      *)
(***************************************************************************)
EXTENDS DirectPDF

CONSTANTS r1, r2

MCReview == {r1, r2}
Runs(n, m) == [r \in MCReview |-> IF r = r1 THEN n ELSE m]
MCScenario ==
  {[pages |-> 3, answers |-> {{1, 2}}, lane |-> FALSE, kept |-> FALSE, strays |-> FALSE,
    bad |-> 3, crashes |-> 0, cancels |-> 1, runs |-> Runs(2, 0)],
   [pages |-> 5, answers |-> {{2, 3}}, lane |-> FALSE, kept |-> FALSE, strays |-> FALSE,
    bad |-> 50, crashes |-> 0, cancels |-> 0, runs |-> Runs(1, 0)],
   [pages |-> 6, answers |-> {{3}, {4, 5}}, lane |-> FALSE, kept |-> FALSE, strays |-> TRUE,
    bad |-> 1, crashes |-> 0, cancels |-> 0, runs |-> Runs(1, 0)],
   [pages |-> 5, answers |-> {{4}}, lane |-> TRUE, kept |-> TRUE, strays |-> FALSE,
    bad |-> 1, crashes |-> 0, cancels |-> 1, runs |-> Runs(1, 1)],
   [pages |-> 5, answers |-> {{4}}, lane |-> TRUE, kept |-> FALSE, strays |-> FALSE,
    bad |-> 0, crashes |-> 1, cancels |-> 0, runs |-> Runs(2, 1)]}
=============================================================================
