--------------------------- MODULE MCCoursePipeline ---------------------------
(* Three videos and two workers.  A run with cleanup and the next one, with a *)
(* video that comes later, a fault, a crash or a cancelled job; a folder whose*)
(* sources are kept; faster-whisper that cannot be imported or is not there;  *)
(* a video that cannot be deleted; a folder of one video to which others    *)
(* come.  Of the second video alone, what a crash left out is not missed.    *)
EXTENDS CoursePipeline

Case(limit, cleanup, whisper, subtitled, late, trouble) ==
  [limit |-> limit, cleanup |-> cleanup, whisper |-> whisper, subtitled |-> subtitled, late |-> late, sticky |-> {},
   tolerated |-> {{}, {2}},
   runs |-> IF trouble = {"faults"} THEN 1 ELSE 2,
   faults |-> IF "faults" \in trouble THEN 1 ELSE 0, crashes |-> IF "crashes" \in trouble THEN 1 ELSE 0,
   cancels |-> IF "cancels" \in trouble THEN 1 ELSE 0]
Troubles == {{"faults", "cancels"}, {"crashes"}}

MCScenario ==
  {Case(limit, TRUE, "batch", {1}, late, trouble) : limit \in {1, 2}, late \in {{}, {1}, {3}}, trouble \in Troubles}
  \cup {Case(limit, FALSE, whisper, {2}, {}, trouble) :
          limit \in {0, 2}, whisper \in {"batch", "broken", "none"}, trouble \in Troubles}
  \cup {[Case(2, TRUE, "batch", {1}, {}, {"faults"}) EXCEPT !.sticky = {w}, !.runs = 2] : w \in {2, 3}}
  \cup {Case(2, FALSE, whisper, {}, {2, 3}, {"cancels"}) : whisper \in {"broken", "none", "unset"}}
=============================================================================
