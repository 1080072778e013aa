---------------------------- MODULE MCZettelJobs ----------------------------
(***************************************************************************)
(* Small vaults: a run alone with its workers and faults, builds that      *)
(* follow or overlap each other, and a run against a build.                *)
(***************************************************************************)
EXTENDS ZettelJobs

None == [notes |-> <<Text(1, 0), Text(1, 0)>>, limit |-> 0, overwrite |-> FALSE, workers |-> 2, runs |-> 0, builds |-> 0,
         batch |-> 1, edits |-> 0, faults |-> 0, crashes |-> 0, cancels |-> 0]

MCScenario == {
  \* Two workers, a note that is complete, a change by the user, a failure and a stop.
  [None EXCEPT !.runs = 1, !.notes = <<Text(1, 0), Text(1, 0), Text(1, 1)>>, !.edits = 1, !.faults = 1, !.cancels = 1],
  \* One worker overwrites everything, two at most; a crash and a second run.
  [None EXCEPT !.runs = 2, !.notes = <<Text(1, 1), Text(1, 0), Text(1, 0)>>, !.overwrite = TRUE, !.limit = 2, !.workers = 1,
               !.crashes = 1, !.faults = 1, !.cancels = 1],
  \* Builds that follow each other or overlap, with a failure, a crash, a stop or a change between them.
  [None EXCEPT !.builds = 2, !.notes = <<Text(1, 0), Text(1, 0), Gone>>, !.edits = 1, !.faults = 1],
  [None EXCEPT !.builds = 2, !.notes = <<Text(1, 0), Text(1, 0), Text(1, 0)>>, !.crashes = 1, !.cancels = 1, !.workers = 1],
  [None EXCEPT !.builds = 2, !.notes = <<Text(1, 0), Text(1, 0), Text(0, 0)>>, !.cancels = 1, !.edits = 1, !.batch = 2],
  \* A run writes the notes that a build is reading.
  [None EXCEPT !.runs = 1, !.builds = 1, !.batch = 2, !.notes = <<Text(1, 0), Text(1, 0), Text(0, 0)>>]}
=============================================================================
