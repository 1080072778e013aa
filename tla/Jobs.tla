-------------------------------- MODULE Jobs --------------------------------
(***************************************************************************)
(* The life of a job: its row in the store, the goroutine that runs its    *)
(* workflow (core.Runtime), cancel requests, cleanup and restarts.  The    *)
(* store holds one connection, so every statement is atomic; between two   *)
(* statements anything may happen.  A row is its status and whether it     *)
(* holds an output; progress fields are left out.                          *)
(***************************************************************************)
EXTENDS Naturals

CONSTANTS
  Job,       \* job ids; NewJob never makes one twice
  Handler,   \* cancel requests in flight at a time
  NoRow, NoCancel

ASSUME JobsAssumption ==
  /\ NoRow \notin [status: {"queued", "running", "completed", "failed", "cancelled"},
                   output: BOOLEAN]
  /\ NoCancel \notin [job: Job, signalled: BOOLEAN, output: BOOLEAN]

VARIABLES
  row,         \* the jobs table
  worker,      \* where the goroutine of a job is
  cancelers,   \* Runtime.cancelers: the jobs that registered a cancel function
  ctxDone,     \* the jobs whose run context was cancelled
  handler,     \* what each CancelJob in flight read
  used,        \* ids ever inserted
  byHand,      \* ids ever inserted by a client
  result,      \* what the workflow returned
  unsaved,     \* jobs whose final write failed
  stamped,     \* jobs that a cancel request answered as cancelled
  interrupted  \* jobs that a start of the server declared interrupted

history == <<used, byHand, result, unsaved, stamped, interrupted>>
jobsVars == <<row, worker, cancelers, ctxDone, handler, history>>
-----------------------------------------------------------------------------
Finished == {"completed", "failed", "cancelled"}

\* "queued" stands for whatever else a client may write: nothing reads it.
Status == Finished \cup {"queued", "running"}

Row(status, output) == [status |-> status, output |-> output]

Exists(j) == row[j] # NoRow

IsRunning(j) == Exists(j) /\ row[j].status = "running"

\* UPDATE ... WHERE id: a row that was deleted stays deleted.
UpdateJob(j, new) == row' = [row EXCEPT ![j] = IF Exists(j) THEN new ELSE NoRow]

\* INSERT INTO jobs.
CreateJob(j, new) ==
  /\ row' = [row EXCEPT ![j] = new]
  /\ used' = used \cup {j}

Init ==
  /\ row = [j \in Job |-> NoRow]
  /\ worker = [j \in Job |-> "none"]
  /\ cancelers = {} /\ ctxDone = {}
  /\ handler = [h \in Handler |-> NoCancel]
  /\ used = {} /\ byHand = {} /\ unsaved = {} /\ stamped = {} /\ interrupted = {}
  /\ result = [j \in Job |-> "none"]

\* StartWorkflow inserts the row, answers 202 and starts the goroutine.
Create(j) ==
  /\ j \notin used /\ CreateJob(j, Row("running", FALSE))
  /\ worker' = [worker EXCEPT ![j] = "spawned"]
  /\ UNCHANGED <<cancelers, ctxDone, handler, byHand, result, unsaved, stamped, interrupted>>

\* POST /api/jobs inserts a row as the client has it, which nothing runs; the
\* key only has to be free now, so the id may be one that was cleared, even
\* under a workflow that still runs.
CreateByHand(j, status, output) ==
  /\ ~Exists(j) /\ CreateJob(j, Row(status, output))
  /\ byHand' = byHand \cup {j}
  /\ UNCHANGED <<worker, cancelers, ctxDone, handler, result, unsaved, stamped, interrupted>>
-----------------------------------------------------------------------------
\* The goroutine.
Register(j) ==
  /\ worker[j] = "spawned"
  /\ worker' = [worker EXCEPT ![j] = "registered"]
  /\ cancelers' = cancelers \cup {j}
  /\ UNCHANGED <<row, ctxDone, handler, history>>

\* updateJobProgress writes the goroutine's whole copy, whose status is
\* running; that it failed is only logged.
Progress(j) ==
  /\ worker[j] \in {"registered", "run"}
  /\ worker' = [worker EXCEPT ![j] = "run"]
  /\ UpdateJob(j, Row("running", FALSE)) \/ UNCHANGED row
  /\ UNCHANGED <<cancelers, ctxDone, handler, history>>

\* The workflow returns, whether or not it honours its context; a result
\* that cannot be marshalled ends the job as an error does.
Return(j, what) ==
  /\ worker[j] = "run"
  /\ what = "canceled" => j \in ctxDone
  /\ worker' = [worker EXCEPT ![j] = "returned"]
  /\ result' = [result EXCEPT ![j] = what]
  /\ UNCHANGED <<row, cancelers, ctxDone, handler, used, byHand, unsaved, stamped, interrupted>>

\* The status finishJobStore writes.
Ending(what) ==
  CASE what = "ok" -> "completed"
    [] what = "error" -> "failed"
    [] what = "canceled" -> "cancelled"

\* Mutant: the last write is made under the run context.
FinishUnderRunContext(j) ==
  /\ worker[j] = "returned"
  /\ worker' = [worker EXCEPT ![j] = "saved"]
  /\ IF j \in ctxDone
     THEN UNCHANGED row
     ELSE UpdateJob(j, Row(Ending(result[j]), result[j] = "ok"))
  /\ UNCHANGED <<cancelers, ctxDone, handler, history>>

\* The last write, under a context of its own; its failure is not retried.
Finish(j) ==
  /\ worker[j] = "returned"
  /\ worker' = [worker EXCEPT ![j] = "saved"]
  /\ \/ UpdateJob(j, Row(Ending(result[j]), result[j] = "ok")) /\ UNCHANGED unsaved
     \/ UNCHANGED row /\ unsaved' = unsaved \cup {j}
  /\ UNCHANGED <<cancelers, ctxDone, handler, used, byHand, result, stamped, interrupted>>

\* The deferred cancel, which nothing hears any more, and unregisterCancel.
Unregister(j) ==
  /\ worker[j] = "saved"
  /\ worker' = [worker EXCEPT ![j] = "gone"]
  /\ cancelers' = cancelers \ {j}
  /\ UNCHANGED <<row, ctxDone, handler, history>>
-----------------------------------------------------------------------------
\* CancelJob: it reads the row, signals the goroutine and writes back the row
\* it read, as cancelled.  A job that is not running is answered as it is.
CancelRead(h, j) ==
  /\ handler[h] = NoCancel /\ IsRunning(j)
  /\ handler' = [handler EXCEPT ![h] = [job |-> j, signalled |-> FALSE, output |-> row[j].output]]
  /\ UNCHANGED <<row, worker, cancelers, ctxDone, history>>

CancelSignal(h) ==
  /\ handler[h] # NoCancel /\ ~handler[h].signalled
  /\ handler' = [handler EXCEPT ![h].signalled = TRUE]
  /\ ctxDone' = IF handler[h].job \in cancelers THEN ctxDone \cup {handler[h].job} ELSE ctxDone
  /\ UNCHANGED <<row, worker, cancelers, history>>

\* The write fails if the row is gone, the client left or the store errs.
CancelWrite(h) ==
  /\ handler[h] # NoCancel /\ handler[h].signalled
  /\ handler' = [handler EXCEPT ![h] = NoCancel]
  /\ LET j == handler[h].job
     IN  \/ /\ Exists(j)
            /\ UpdateJob(j, Row("cancelled", handler[h].output))
            /\ stamped' = stamped \cup {j}
         \/ UNCHANGED <<row, stamped>>
  /\ UNCHANGED <<worker, cancelers, ctxDone, used, byHand, result, unsaved, interrupted>>

\* DELETE /api/jobs?scope=finished, whether or not goroutines still run.
ClearFinished ==
  /\ row' = [j \in Job |-> IF Exists(j) /\ row[j].status \in Finished THEN NoRow ELSE row[j]]
  /\ UNCHANGED <<worker, cancelers, ctxDone, handler, history>>

\* Deleting a review deletes the row of the job that wrote it, which may
\* still be about to finish.
DeleteJob(j) ==
  /\ worker[j] \in {"run", "returned", "saved", "gone"}
  /\ row' = [row EXCEPT ![j] = NoRow]
  /\ UNCHANGED <<worker, cancelers, ctxDone, handler, history>>
-----------------------------------------------------------------------------
MarkRunningJobsInterrupted ==
  /\ row' = [j \in Job |-> IF IsRunning(j) THEN [row[j] EXCEPT !.status = "failed"] ELSE row[j]]
  /\ interrupted' = interrupted \cup {j \in Job : IsRunning(j)}

\* Mutant: a new server takes the table as it is.
RestartPlain ==
  /\ worker' = [j \in Job |-> IF worker[j] = "none" THEN "none" ELSE "gone"]
  /\ handler' = [h \in Handler |-> NoCancel]
  /\ cancelers' = {}
  /\ UNCHANGED <<row, ctxDone, history>>

\* The server dies and a new one starts (app.New).
Restart ==
  /\ worker' = [j \in Job |-> IF worker[j] = "none" THEN "none" ELSE "gone"]
  /\ handler' = [h \in Handler |-> NoCancel]
  /\ cancelers' = {}
  /\ MarkRunningJobsInterrupted
  /\ UNCHANGED <<ctxDone, used, byHand, result, unsaved, stamped>>

\* A second server over the same data directory gets this far before it finds
\* its port taken; the first one goes on.
SecondStart ==
  /\ MarkRunningJobsInterrupted
  /\ UNCHANGED <<worker, cancelers, ctxDone, handler, used, byHand, result, unsaved, stamped>>

Work(j) ==
  \/ Register(j) \/ Progress(j) \/ Finish(j) \/ Unregister(j)
  \/ \E what \in {"ok", "error", "canceled"} : Return(j, what)

Next ==
  \/ \E j \in Job : Create(j) \/ Work(j) \/ DeleteJob(j)
  \/ \E j \in Job, status \in Status, output \in BOOLEAN : CreateByHand(j, status, output)
  \/ \E h \in Handler, j \in Job : CancelRead(h, j)
  \/ \E h \in Handler : CancelSignal(h) \/ CancelWrite(h)
  \/ ClearFinished
  \/ Restart
  \/ SecondStart

Spec == Init /\ [][Next]_jobsVars

\* Goroutines run until they block; once its context is done a workflow stops
\* reporting progress and returns.  Requests, cleanups and starts owe nothing.
Fairness ==
  \A j \in Job :
    /\ WF_jobsVars(Register(j)) /\ WF_jobsVars(Finish(j))
    /\ WF_jobsVars(worker[j] = "registered" /\ Progress(j))
    /\ WF_jobsVars(j \in ctxDone /\ \E what \in {"ok", "error", "canceled"} : Return(j, what))

FairSpec == Spec /\ Fairness
-----------------------------------------------------------------------------
TypeOK ==
  /\ row \in [Job -> [status: Status, output: BOOLEAN] \cup {NoRow}]
  /\ worker \in [Job -> {"none", "spawned", "registered", "run", "returned", "saved", "gone"}]
  /\ cancelers \subseteq Job /\ ctxDone \subseteq Job
  /\ handler \in [Handler -> [job: Job, signalled: BOOLEAN, output: BOOLEAN] \cup {NoCancel}]
  /\ used \subseteq Job /\ byHand \subseteq Job /\ unsaved \subseteq Job /\ stamped \subseteq Job /\ interrupted \subseteq Job
  /\ result \in [Job -> {"none", "ok", "error", "canceled"}]

\* A job that ended says how: its row carries the workflow's own ending, or
\* the cancellation or interruption that was declared meanwhile.  It says
\* "running" only if the last write failed.  What a client inserted under the
\* id is its own matter, here and below.
RowTellsEnding ==
  \A j \in Job \ byHand :
    worker[j] \in {"saved", "gone"} /\ Exists(j) =>
      \/ result[j] # "none" /\ row[j].status = Ending(result[j])
      \/ row[j].status = "cancelled" /\ j \in stamped
      \/ row[j].status = "failed" /\ j \in interrupted
      \/ row[j].status = "running" /\ j \in unsaved

\* A row has an output only with the status completed, whichever of a stale
\* cancellation, a progress report and the last write came last.
OutputMeansCompleted ==
  \A j \in Job \ byHand : Exists(j) /\ row[j].output => row[j].status = "completed"

\* A row that was cleared or deleted comes back only if a client inserts it
\* again, though its workflow or a cancel request may still write to it.
ClearedStaysCleared ==
  [][\A j \in Job :
       row[j] = NoRow /\ row'[j] # NoRow =>
         j \notin used \/ \E status \in Status, output \in BOOLEAN : CreateByHand(j, status, output)]_jobsVars

\* Once its context is cancelled a job stops being listed as running, for
\* good, unless the store refuses the last write.
CancelSettles ==
  \A j \in Job : j \in ctxDone ~> [](~IsRunning(j) \/ j \in unsaved \cup byHand)

=============================================================================
