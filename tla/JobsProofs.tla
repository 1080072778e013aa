----------------------------- MODULE JobsProofs -----------------------------
(***************************************************************************)
(* What Jobs promises, for any number of jobs and of cancel requests, and  *)
(* what the two jobs over the vault do: for any number of notes, workers,  *)
(* builds and batches, a rewritten note is archived or reported, and a     *)
(* build of the index that ends well alone answers for the notes it read.  *)
(***************************************************************************)
EXTENDS Jobs, ZettelJobs, FiniteSetTheorems, TLAPS

\* While its goroutine may still write, a row says running, or what a cancel
\* request or a start of the server made of it.
WorkingRow(j) ==
  j \notin byHand /\ worker[j] \in {"spawned", "registered", "run", "returned"} /\ Exists(j) =>
    \/ row[j].status = "running"
    \/ row[j].status = "cancelled" /\ j \in stamped
    \/ row[j].status = "failed" /\ j \in interrupted

EndedRow(j) ==
  j \notin byHand /\ worker[j] \in {"saved", "gone"} /\ Exists(j) =>
    \/ result[j] # "none" /\ row[j].status = Ending(result[j])
    \/ row[j].status = "cancelled" /\ j \in stamped
    \/ row[j].status = "failed" /\ j \in interrupted
    \/ row[j].status = "running" /\ j \in unsaved

OutputRow(j) == j \notin byHand /\ Exists(j) /\ row[j].output => row[j].status = "completed"

Known(j) ==
  /\ worker[j] # "none" => j \in used
  /\ worker[j] = "returned" => result[j] # "none"

\* A cancel request read a running row, and those hold no output, unless a
\* client gave them one.
StaleCopies ==
  \A h \in Handler : handler[h] # NoCancel /\ handler[h].output => handler[h].job \in byHand

JobsInv ==
  /\ TypeOK
  /\ StaleCopies
  /\ \A j \in Job : WorkingRow(j) /\ EndedRow(j) /\ OutputRow(j) /\ Known(j)

RowRecord == [status: Status, output: BOOLEAN]

LEMMA RowIsRow ==
  ASSUME NEW s \in Status, NEW o \in BOOLEAN
  PROVE  /\ Row(s, o) \in RowRecord /\ Row(s, o) # NoRow
         /\ Row(s, o).status = s /\ Row(s, o).output = o
BY JobsAssumption DEF Row, RowRecord, Status, Finished

LEMMA EndingIsFinished ==
  ASSUME NEW what \in {"ok", "error", "canceled"}
  PROVE  Ending(what) \in Finished /\ (what = "ok" <=> Ending(what) = "completed")
BY DEF Ending, Finished

LEMMA UpdateKeepsType ==
  ASSUME TypeOK, NEW j \in Job, NEW new \in RowRecord, UpdateJob(j, new)
  PROVE  /\ row' \in [Job -> [status: Status, output: BOOLEAN] \cup {NoRow}]
         /\ row'[j] = IF Exists(j) THEN new ELSE NoRow
         /\ \A k \in Job : k # j => row'[k] = row[k]
BY DEF TypeOK, UpdateJob, RowRecord

\* The types survive each step.
LEMMA TypesKept == TypeOK /\ StaleCopies /\ (\A j \in Job : Known(j)) /\ [Next]_jobsVars => TypeOK'
<1> SUFFICES ASSUME TypeOK, StaleCopies, \A j \in Job : Known(j), [Next]_jobsVars PROVE TypeOK'
  OBVIOUS
<1> USE DEF TypeOK, history
<1>1. ASSUME NEW j \in Job, Create(j) PROVE TypeOK'
  <2>1. Row("running", FALSE) \in [status: Status, output: BOOLEAN]
    BY RowIsRow DEF Status, Finished, RowRecord
  <2>2. QED
    BY <1>1, <2>1 DEF Create, CreateJob
<1>2. ASSUME NEW j \in Job, NEW s \in Status, NEW o \in BOOLEAN, CreateByHand(j, s, o) PROVE TypeOK'
  <2>1. Row(s, o) \in [status: Status, output: BOOLEAN]
    BY RowIsRow DEF RowRecord
  <2>2. QED
    BY <1>2, <2>1 DEF CreateByHand, CreateJob
<1>3. ASSUME NEW j \in Job, Work(j) PROVE TypeOK'
  <2>1. CASE Register(j)
    BY <2>1 DEF Register
  <2>2. CASE Progress(j)
    <3>1. Row("running", FALSE) \in RowRecord
      BY RowIsRow DEF Status, Finished
    <3>2. row' \in [Job -> [status: Status, output: BOOLEAN] \cup {NoRow}]
      BY <2>2, <3>1, UpdateKeepsType DEF Progress
    <3>3. QED
      BY <2>2, <3>2 DEF Progress
  <2>3. CASE Finish(j)
    <3>1. result[j] \in {"ok", "error", "canceled"}
      BY <2>3 DEF Finish, Known
    <3>2. Row(Ending(result[j]), result[j] = "ok") \in RowRecord
      BY <3>1, EndingIsFinished, RowIsRow DEF Status
    <3>3. row' \in [Job -> [status: Status, output: BOOLEAN] \cup {NoRow}]
      BY <2>3, <3>2, UpdateKeepsType DEF Finish
    <3>4. QED
      BY <2>3, <3>3 DEF Finish
  <2>4. CASE Unregister(j)
    BY <2>4 DEF Unregister
  <2>5. ASSUME NEW what \in {"ok", "error", "canceled"}, Return(j, what) PROVE TypeOK'
    BY <2>5 DEF Return
  <2>6. QED
    BY <1>3, <2>1, <2>2, <2>3, <2>4, <2>5 DEF Work
<1>4. ASSUME NEW j \in Job, DeleteJob(j) PROVE TypeOK'
  BY <1>4 DEF DeleteJob
<1>5. ASSUME NEW h \in Handler, NEW j \in Job, CancelRead(h, j) PROVE TypeOK'
  <2>1. row[j] \in [status: Status, output: BOOLEAN]
    BY <1>5 DEF CancelRead, IsRunning, Exists
  <2>2. [job |-> j, signalled |-> FALSE, output |-> row[j].output]
          \in [job: Job, signalled: BOOLEAN, output: BOOLEAN]
    BY <2>1
  <2>3. QED
    BY <1>5, <2>2 DEF CancelRead
<1>6. ASSUME NEW h \in Handler, CancelSignal(h) PROVE TypeOK'
  <2>1. handler[h] \in [job: Job, signalled: BOOLEAN, output: BOOLEAN]
    BY <1>6 DEF CancelSignal
  <2>2. [handler[h] EXCEPT !.signalled = TRUE] \in [job: Job, signalled: BOOLEAN, output: BOOLEAN]
    BY <2>1
  <2>3. handler' = [handler EXCEPT ![h] = [handler[h] EXCEPT !.signalled = TRUE]]
    BY <1>6 DEF CancelSignal
  <2>4. QED
    BY <1>6, <2>1, <2>2, <2>3 DEF CancelSignal
<1>7. ASSUME NEW h \in Handler, CancelWrite(h) PROVE TypeOK'
  <2>1. handler[h] \in [job: Job, signalled: BOOLEAN, output: BOOLEAN]
    BY <1>7 DEF CancelWrite
  <2>2. Row("cancelled", handler[h].output) \in [status: Status, output: BOOLEAN]
    BY <2>1, RowIsRow DEF Status, Finished, RowRecord
  <2>3. QED
    BY <1>7, <2>1, <2>2 DEF CancelWrite, UpdateJob
<1>8. CASE ClearFinished
  BY <1>8 DEF ClearFinished
<1>9. ASSUME MarkRunningJobsInterrupted
      PROVE  row' \in [Job -> [status: Status, output: BOOLEAN] \cup {NoRow}] /\ interrupted' \subseteq Job
  <2>1. ASSUME NEW j \in Job, IsRunning(j)
        PROVE  [row[j] EXCEPT !.status = "failed"] \in [status: Status, output: BOOLEAN]
    BY <2>1 DEF IsRunning, Exists, Status, Finished
  <2>2. QED
    BY <1>9, <2>1 DEF MarkRunningJobsInterrupted
<1>10. CASE Restart
  BY <1>9, <1>10 DEF Restart
<1>11. CASE SecondStart
  BY <1>9, <1>11 DEF SecondStart
<1>12. CASE UNCHANGED jobsVars
  BY <1>12 DEF jobsVars
<1>13. QED
  BY <1>1, <1>2, <1>3, <1>4, <1>5, <1>6, <1>7, <1>8, <1>10, <1>11, <1>12 DEF Next, Status, Finished

JobInv(j) == WorkingRow(j) /\ EndedRow(j) /\ OutputRow(j) /\ Known(j)

\* A step that touches neither row nor goroutine of a job keeps its part.
LEMMA Untouched ==
  ASSUME NEW j \in Job, JobInv(j),
         row'[j] = row[j], worker'[j] = worker[j], result'[j] = result[j],
         j \in used => j \in used', j \in byHand => j \in byHand', j \in unsaved => j \in unsaved',
         j \in stamped => j \in stamped', j \in interrupted => j \in interrupted'
  PROVE  JobInv(j)'
BY DEF JobInv, WorkingRow, EndedRow, OutputRow, Known, Exists, Ending

\* Nor does deleting the row harm it.
LEMMA Deleted ==
  ASSUME NEW j \in Job, JobInv(j),
         row'[j] = NoRow, worker'[j] = worker[j], result'[j] = result[j], UNCHANGED <<used, byHand>>
  PROVE  JobInv(j)'
BY DEF JobInv, WorkingRow, EndedRow, OutputRow, Known, Exists

\* A new server's first statement suits every ending, and the goroutines that
\* died with the old one.
LEMMA Interrupting ==
  ASSUME TypeOK, NEW j \in Job, JobInv(j), MarkRunningJobsInterrupted,
         \/ worker'[j] = worker[j]
         \/ worker[j] # "none" /\ worker'[j] = "gone",
         UNCHANGED <<used, byHand, result, unsaved, stamped>>
  PROVE  JobInv(j)'
<1>1. interrupted' = interrupted \cup {k \in Job : IsRunning(k)}
  BY DEF MarkRunningJobsInterrupted
<1>0. CASE j \in byHand
  BY <1>0 DEF JobInv, WorkingRow, EndedRow, OutputRow, Known
<1>2. CASE IsRunning(j) /\ j \notin byHand
  <2>1. row'[j] = [row[j] EXCEPT !.status = "failed"] /\ row[j] \in [status: Status, output: BOOLEAN]
    BY <1>2 DEF MarkRunningJobsInterrupted, TypeOK, IsRunning, Exists
  <2>2. row'[j].status = "failed" /\ row'[j].output = row[j].output /\ row[j].status = "running"
    BY <1>2, <2>1 DEF IsRunning
  <2>3. j \in interrupted'
    BY <1>1, <1>2
  <2>4. row[j].output = FALSE
    BY <1>2, <2>1, <2>2 DEF JobInv, OutputRow, IsRunning
  <2>5. row'[j].output = FALSE
    BY <2>2, <2>4
  <2>6. WorkingRow(j)' /\ EndedRow(j)'
    BY <2>2, <2>3 DEF WorkingRow, EndedRow
  <2>7. OutputRow(j)'
    BY <2>5, Zenon DEF OutputRow
  <2>8. Known(j)'
    BY DEF JobInv, Known
  <2>9. QED
    BY <2>6, <2>7, <2>8 DEF JobInv
<1>3. CASE ~IsRunning(j)
  <2>1. row'[j] = row[j]
    BY <1>3 DEF MarkRunningJobsInterrupted
  <2>2. QED
    <3>1. CASE worker'[j] = worker[j]
      BY <1>1, <2>1, <3>1, Untouched
    <3>2. CASE worker[j] # "none" /\ worker'[j] = "gone"
      <4>1. WorkingRow(j)' /\ Known(j)'
        BY <3>2 DEF WorkingRow, JobInv, Known
      <4>2. OutputRow(j)'
        BY <2>1 DEF JobInv, OutputRow, Exists
      <4>3. EndedRow(j)'
        BY <1>1, <1>3, <2>1, <3>2 DEF JobInv, WorkingRow, EndedRow, Exists, IsRunning, TypeOK, Ending
      <4>4. QED
        BY <4>1, <4>2, <4>3 DEF JobInv
    <3>3. QED
      BY <3>1, <3>2
<1>4. QED
  BY <1>0, <1>2, <1>3

\* The parts of the invariant, for every job, survive each step.
LEMMA JobsKept == JobsInv /\ [Next]_jobsVars => \A k \in Job : JobInv(k)'
<1> SUFFICES ASSUME JobsInv, [Next]_jobsVars, NEW k \in Job PROVE JobInv(k)'
  OBVIOUS
<1>0. TypeOK /\ StaleCopies /\ JobInv(k)
  BY DEF JobsInv, JobInv
<1> USE DEF history
<1>1. ASSUME NEW j \in Job, CreateJob(j, Row("running", FALSE)), j \notin used,
             worker' = [worker EXCEPT ![j] = "spawned"], UNCHANGED <<byHand, result, unsaved, stamped, interrupted>>
      PROVE  JobInv(k)'
  <2>1. CASE k # j
    BY <1>0, <1>1, <2>1, Untouched DEF TypeOK, CreateJob
  <2>2. CASE k = j
    <3>1. row'[k] = Row("running", FALSE) /\ row'[k].status = "running" /\ row'[k].output = FALSE
      BY <1>0, <1>1, <2>2, RowIsRow DEF TypeOK, CreateJob, Status
    <3>2. worker'[k] = "spawned" /\ k \in used'
      BY <1>0, <1>1, <2>2 DEF TypeOK, CreateJob
    <3>3. OutputRow(k)'
      BY <3>1, Zenon DEF OutputRow
    <3>4. WorkingRow(k)' /\ EndedRow(k)' /\ Known(k)'
      BY <3>1, <3>2 DEF WorkingRow, EndedRow, Known
    <3>5. QED
      BY <3>3, <3>4 DEF JobInv
  <2>3. QED
    BY <2>1, <2>2
<1>2. ASSUME NEW j \in Job, Create(j) PROVE JobInv(k)'
  BY <1>1, <1>2 DEF Create
<1>3. ASSUME NEW j \in Job, NEW s \in Status, NEW o \in BOOLEAN, CreateByHand(j, s, o) PROVE JobInv(k)'
  <2>1. CASE k # j
    BY <1>0, <1>3, <2>1, Untouched DEF CreateByHand, CreateJob, TypeOK
  <2>2. CASE k = j
    BY <1>0, <1>3, <2>2 DEF CreateByHand, CreateJob, JobInv, WorkingRow, EndedRow, OutputRow, Known
  <2>3. QED
    BY <2>1, <2>2
<1>5. ASSUME NEW j \in Job, Register(j) PROVE JobInv(k)'
  BY <1>0, <1>5 DEF Register, TypeOK, JobInv, WorkingRow, EndedRow, OutputRow, Known, Exists
<1>6. ASSUME NEW j \in Job, Progress(j) PROVE JobInv(k)'
  <2>1. CASE UNCHANGED row
    BY <1>0, <1>6, <2>1 DEF Progress, TypeOK, JobInv, WorkingRow, EndedRow, OutputRow, Known, Exists
  <2>2. CASE UpdateJob(j, Row("running", FALSE))
    <3>1. Row("running", FALSE) \in RowRecord
      BY RowIsRow DEF Status, Finished
    <3>2. CASE k # j
      BY <1>0, <1>6, <2>2, <3>1, <3>2, UpdateKeepsType, Untouched DEF Progress, TypeOK
    <3>3. CASE k = j /\ ~Exists(k)
      <4>1. row'[k] = row[k] /\ row[k] = NoRow
        BY <1>0, <2>2, <3>1, <3>3, UpdateKeepsType DEF Exists
      <4>2. QED
        BY <1>0, <1>6, <3>3, <4>1 DEF Progress, TypeOK, JobInv, WorkingRow, EndedRow, OutputRow, Known, Exists
    <3>4. CASE k = j /\ Exists(k)
      <4>1. row'[k] = Row("running", FALSE)
        BY <1>0, <2>2, <3>1, <3>4, UpdateKeepsType
      <4>2. row'[k].status = "running" /\ row'[k].output = FALSE
        BY <4>1 DEF Row
      <4>3. OutputRow(k)'
        BY <4>2, Zenon DEF OutputRow
      <4>4. worker'[k] = "run" /\ worker[k] # "none" /\ UNCHANGED <<used, byHand>>
        BY <1>0, <1>6, <3>4 DEF Progress, TypeOK
      <4>5. QED
        BY <1>0, <4>2, <4>3, <4>4 DEF JobInv, WorkingRow, EndedRow, Known
    <3>5. QED
      BY <3>2, <3>3, <3>4
  <2>3. QED
    BY <1>6, <2>1, <2>2 DEF Progress
<1>7. ASSUME NEW j \in Job, NEW what \in {"ok", "error", "canceled"}, Return(j, what) PROVE JobInv(k)'
  BY <1>0, <1>7 DEF Return, TypeOK, JobInv, WorkingRow, EndedRow, OutputRow, Known, Exists
<1>8. ASSUME NEW j \in Job, Finish(j) PROVE JobInv(k)'
  <2>1. worker[j] = "returned" /\ result[j] \in {"ok", "error", "canceled"}
    BY <1>8 DEF Finish, JobsInv, Known, TypeOK
  <2>2. CASE k # j
    <3>1. Row(Ending(result[j]), result[j] = "ok") \in RowRecord
      BY <2>1, EndingIsFinished, RowIsRow DEF Status
    <3>2. row'[k] = row[k]
      BY <1>0, <1>8, <2>2, <3>1, UpdateKeepsType DEF Finish
    <3>3. QED
      BY <1>0, <1>8, <2>2, <3>2, Untouched DEF Finish, TypeOK
  <2>3. worker' = [worker EXCEPT ![j] = "saved"] /\ UNCHANGED <<used, byHand, result, stamped, interrupted>>
    BY <1>8 DEF Finish
  <2>4. CASE k = j /\ UNCHANGED row /\ unsaved' = unsaved \cup {j}
    BY <1>0, <2>1, <2>3, <2>4 DEF TypeOK, JobInv, WorkingRow, EndedRow, OutputRow, Known, Exists
  <2>5. CASE k = j /\ UpdateJob(j, Row(Ending(result[j]), result[j] = "ok")) /\ Exists(j)
    <3>1. row'[k] = Row(Ending(result[k]), result[k] = "ok")
      BY <1>0, <2>1, <2>5, EndingIsFinished, RowIsRow, UpdateKeepsType DEF Status
    <3>2. row'[k].status = Ending(result[k]) /\ row'[k].output = (result[k] = "ok")
      BY <2>1, <2>5, <3>1, EndingIsFinished, RowIsRow DEF Status
    <3>3. result'[k] = result[k] /\ result[k] # "none" /\ worker'[k] = "saved"
      BY <1>0, <2>1, <2>3, <2>5 DEF TypeOK
    <3>4. OutputRow(k)'
      BY <2>1, <2>5, <3>2, EndingIsFinished DEF OutputRow
    <3>5. WorkingRow(k)' /\ EndedRow(k)'
      BY <3>2, <3>3 DEF WorkingRow, EndedRow, Ending
    <3>6. Known(k)'
      BY <1>0, <2>1, <2>3, <2>5, <3>3 DEF JobInv, Known
    <3>7. QED
      BY <3>4, <3>5, <3>6 DEF JobInv
  <2>6. CASE k = j /\ UpdateJob(j, Row(Ending(result[j]), result[j] = "ok")) /\ ~Exists(j)
    <3>1. row'[k] = NoRow
      BY <1>0, <2>1, <2>6, EndingIsFinished, RowIsRow, UpdateKeepsType DEF Status
    <3>2. QED
      BY <1>0, <2>1, <2>3, <2>6, <3>1 DEF TypeOK, JobInv, WorkingRow, EndedRow, OutputRow, Known, Exists
  <2>7. QED
    BY <1>8, <2>2, <2>4, <2>5, <2>6 DEF Finish
<1>9. ASSUME NEW j \in Job, Unregister(j) PROVE JobInv(k)'
  BY <1>0, <1>9 DEF Unregister, TypeOK, JobInv, WorkingRow, EndedRow, OutputRow, Known, Exists, Ending
<1>10. ASSUME NEW j \in Job, DeleteJob(j) PROVE JobInv(k)'
  BY <1>0, <1>10, Untouched, Deleted DEF DeleteJob, TypeOK
<1>11. ASSUME NEW h \in Handler, NEW j \in Job, CancelRead(h, j) PROVE JobInv(k)'
  BY <1>0, <1>11, Untouched DEF CancelRead
<1>12. ASSUME NEW h \in Handler, CancelSignal(h) PROVE JobInv(k)'
  BY <1>0, <1>12, Untouched DEF CancelSignal
<1>13. ASSUME NEW h \in Handler, CancelWrite(h) PROVE JobInv(k)'
  <2>1. /\ handler[h].job \in Job /\ handler[h].output \in BOOLEAN
        /\ handler[h].output => handler[h].job \in byHand
    BY <1>0, <1>13 DEF CancelWrite, TypeOK, StaleCopies
  <2>2. UNCHANGED <<worker, result, used, byHand, unsaved, interrupted>>
    BY <1>13 DEF CancelWrite
  <2>3. CASE UNCHANGED <<row, stamped>>
    BY <1>0, <2>2, <2>3, Untouched
  <2>4. CASE /\ Exists(handler[h].job)
             /\ UpdateJob(handler[h].job, Row("cancelled", handler[h].output))
             /\ stamped' = stamped \cup {handler[h].job}
    <3>1. Row("cancelled", handler[h].output) \in RowRecord
      BY <2>1, RowIsRow DEF Status, Finished
    <3>2. CASE k # handler[h].job
      BY <1>0, <2>1, <2>2, <2>4, <3>1, <3>2, UpdateKeepsType, Untouched
    <3>3. CASE k = handler[h].job
      <4>1. row'[k] = Row("cancelled", handler[h].output)
        BY <1>0, <2>4, <3>1, <3>3, UpdateKeepsType
      <4>2. row'[k].status = "cancelled" /\ row'[k].output = handler[h].output
        BY <4>1 DEF Row
      <4>3. OutputRow(k)'
        BY <2>1, <2>2, <3>3, <4>2, Zenon DEF OutputRow
      <4>4. WorkingRow(k)' /\ EndedRow(k)'
        BY <2>4, <3>3, <4>2 DEF WorkingRow, EndedRow
      <4>5. QED
        BY <1>0, <2>2, <4>3, <4>4 DEF JobInv, Known
    <3>4. QED
      BY <3>2, <3>3
  <2>5. QED
    BY <1>13, <2>1, <2>3, <2>4 DEF CancelWrite
<1>14. CASE ClearFinished
  BY <1>0, <1>14, Untouched, Deleted DEF ClearFinished
<1>15. CASE Restart
  <2>1. \/ worker'[k] = worker[k]
        \/ worker[k] # "none" /\ worker'[k] = "gone"
    BY <1>15 DEF Restart
  <2>2. QED
    BY <1>0, <1>15, <2>1, Interrupting DEF Restart
<1>16. CASE SecondStart
  BY <1>0, <1>16, Interrupting DEF SecondStart
<1>17. CASE UNCHANGED jobsVars
  BY <1>0, <1>17, Untouched DEF jobsVars
<1>18. QED
  BY <1>2, <1>3, <1>5, <1>6, <1>7, <1>8, <1>9, <1>10, <1>11, <1>12, <1>13, <1>14,
     <1>15, <1>16, <1>17 DEF Next, Work, Status

LEMMA CopiesKept == JobsInv /\ [Next]_jobsVars => StaleCopies'
<1> SUFFICES ASSUME JobsInv, [Next]_jobsVars PROVE StaleCopies'
  OBVIOUS
<1>0. TypeOK /\ StaleCopies /\ byHand \subseteq byHand'
  <2>1. ASSUME NEW j \in Job, Create(j) \/ Work(j) \/ DeleteJob(j) PROVE UNCHANGED byHand
    BY <2>1 DEF Create, CreateJob, Work, Register, Progress, Finish, Unregister, Return, DeleteJob, history
  <2>2. ASSUME NEW j \in Job, NEW s, NEW o, CreateByHand(j, s, o) PROVE byHand \subseteq byHand'
    BY <2>2 DEF CreateByHand
  <2>3. ASSUME NEW h \in Handler PROVE
          /\ CancelSignal(h) \/ CancelWrite(h) => UNCHANGED byHand
          /\ \A j \in Job : CancelRead(h, j) => UNCHANGED byHand
    BY DEF CancelSignal, CancelWrite, CancelRead, history
  <2>4. ClearFinished \/ Restart \/ SecondStart \/ UNCHANGED jobsVars => UNCHANGED byHand
    BY DEF ClearFinished, Restart, SecondStart, jobsVars, history
  <2>5. QED
    BY <2>1, <2>2, <2>3, <2>4 DEF Next, JobsInv
<1>1. ASSUME NEW h \in Handler, NEW j \in Job, CancelRead(h, j) PROVE StaleCopies'
  <2>1. row[j].output => j \in byHand
    <3>1. row[j] \in [status: Status, output: BOOLEAN] /\ row[j].status = "running"
      BY <1>1 DEF CancelRead, IsRunning, Exists, JobsInv, TypeOK
    <3>2. QED
      BY <1>1, <3>1, Zenon DEF CancelRead, IsRunning, JobsInv, OutputRow
  <2>2. handler' = [handler EXCEPT ![h] = [job |-> j, signalled |-> FALSE, output |-> row[j].output]]
    BY <1>1 DEF CancelRead
  <2>3. handler'[h].job = j /\ handler'[h].output = row[j].output
    BY <1>0, <2>2 DEF TypeOK
  <2>4. ASSUME NEW g \in Handler, handler'[g] # NoCancel, handler'[g].output PROVE handler'[g].job \in byHand'
    <3>1. CASE g = h
      BY <1>0, <2>1, <2>3, <2>4, <3>1
    <3>2. CASE g # h
      BY <1>0, <2>2, <2>4, <3>2 DEF TypeOK, StaleCopies
    <3>3. QED
      BY <3>1, <3>2
  <2>5. QED
    BY <2>4 DEF StaleCopies
<1>2. ASSUME NEW h \in Handler, CancelSignal(h) PROVE StaleCopies'
  <2>1. handler[h] \in [job: Job, signalled: BOOLEAN, output: BOOLEAN] /\ handler[h] # NoCancel
    BY <1>0, <1>2 DEF CancelSignal, TypeOK
  <2>2. handler' = [handler EXCEPT ![h] = [handler[h] EXCEPT !.signalled = TRUE]]
    BY <1>2 DEF CancelSignal
  <2>3. handler'[h].output = handler[h].output /\ handler'[h].job = handler[h].job
    BY <1>0, <2>1, <2>2 DEF TypeOK
  <2>4. ASSUME NEW g \in Handler, handler'[g] # NoCancel, handler'[g].output PROVE handler'[g].job \in byHand'
    <3>1. CASE g = h
      BY <1>0, <2>1, <2>3, <2>4, <3>1 DEF StaleCopies
    <3>2. CASE g # h
      BY <1>0, <2>2, <2>4, <3>2 DEF TypeOK, StaleCopies
    <3>3. QED
      BY <3>1, <3>2
  <2>5. QED
    BY <2>4 DEF StaleCopies
<1>3. ASSUME NEW h \in Handler, CancelWrite(h) PROVE StaleCopies'
  BY <1>0, <1>3 DEF CancelWrite, StaleCopies, TypeOK
<1>4. CASE Restart
  BY <1>4 DEF Restart, StaleCopies
<1>5. CASE UNCHANGED handler
  BY <1>0, <1>5 DEF StaleCopies
<1>6. QED
  <2>1. ASSUME NEW j \in Job, Create(j) \/ Work(j) \/ DeleteJob(j) PROVE UNCHANGED handler
    BY <2>1 DEF Create, CreateJob, Work, Register, Progress, Finish, Unregister, Return, DeleteJob
  <2>2. ASSUME NEW j \in Job, NEW s, NEW o, CreateByHand(j, s, o) PROVE UNCHANGED handler
    BY <2>2 DEF CreateByHand, CreateJob
  <2>3. ClearFinished \/ SecondStart \/ UNCHANGED jobsVars => UNCHANGED handler
    BY DEF ClearFinished, SecondStart, jobsVars
  <2>4. QED
    BY <1>1, <1>2, <1>3, <1>4, <1>5, <2>1, <2>2, <2>3 DEF Next

LEMMA InitHolds == Init => JobsInv
<1> SUFFICES ASSUME Init PROVE JobsInv
  OBVIOUS
<1>1. TypeOK
  BY DEF Init, TypeOK
<1>2. QED
  BY <1>1 DEF Init, JobsInv, StaleCopies, WorkingRow, EndedRow, OutputRow, Known, Exists

LEMMA InvHolds == Spec => []JobsInv
<1>1. JobsInv /\ [Next]_jobsVars => JobsInv'
  BY TypesKept, JobsKept, CopiesKept DEF JobsInv, JobInv
<1>2. QED
  BY <1>1, InitHolds, PTL DEF Spec

\* The state of every job keeps its type.
THEOREM JobTypes == Spec => []TypeOK
<1>1. JobsInv => TypeOK
  BY DEF JobsInv
<1>2. QED
  BY <1>1, InvHolds, PTL

\* However cancel requests, restarts and failing writes meet, the row of a job
\* that ended says how it ended.
THEOREM EndingsAreTold == Spec => []RowTellsEnding
<1>1. JobsInv => RowTellsEnding
  BY Zenon DEF JobsInv, RowTellsEnding, EndedRow
<1>2. QED
  BY <1>1, InvHolds, PTL

\* Only completed jobs show an output, whichever of a stale cancellation, a
\* progress report and the last write came last; a client's own rows aside.
THEOREM OutputsAreComplete == Spec => []OutputMeansCompleted
<1>1. JobsInv => OutputMeansCompleted
  BY Zenon DEF JobsInv, OutputMeansCompleted, OutputRow
<1>2. QED
  BY <1>1, InvHolds, PTL

\* No workflow and no cancel request brings back a row that was cleared; only
\* a client that inserts it again does.
THEOREM ClearedRowsStayCleared == Spec => ClearedStaysCleared
<1> DEFINE ByHand(j) == \E status \in Status, output \in BOOLEAN : CreateByHand(j, status, output)
<1>1. ASSUME TypeOK, [Next]_jobsVars, NEW k \in Job, row[k] = NoRow, row'[k] # NoRow PROVE k \notin used \/ ByHand(k)
  <2>1. ASSUME NEW j \in Job, NEW new, UpdateJob(j, new) PROVE row'[k] = NoRow
    BY <1>1, <2>1 DEF UpdateJob, TypeOK, Exists
  <2>2. ASSUME NEW j \in Job, Create(j) PROVE k \notin used
    BY <1>1, <2>2 DEF Create, CreateJob, TypeOK
  <2>3. ASSUME NEW j \in Job, NEW s \in Status, NEW o \in BOOLEAN, CreateByHand(j, s, o) PROVE ByHand(k)
    <3>1. k = j
      BY <1>1, <2>3 DEF CreateByHand, CreateJob, TypeOK
    <3>2. QED
      BY <2>3, <3>1
  <2>4. ASSUME NEW j \in Job, Work(j) PROVE row'[k] = NoRow
    BY <1>1, <2>1, <2>4 DEF Work, Register, Progress, Finish, Unregister, Return, history
  <2>5. ASSUME NEW j \in Job, DeleteJob(j) PROVE row'[k] = NoRow
    BY <1>1, <2>5 DEF DeleteJob, TypeOK
  <2>6. ASSUME NEW h \in Handler, NEW j \in Job, CancelRead(h, j) PROVE row'[k] = NoRow
    BY <1>1, <2>6 DEF CancelRead
  <2>7. ASSUME NEW h \in Handler, CancelSignal(h) \/ CancelWrite(h) PROVE row'[k] = NoRow
    <3>1. handler[h].job \in Job
      BY <1>1, <2>7 DEF CancelSignal, CancelWrite, TypeOK
    <3>2. QED
      BY <1>1, <2>1, <2>7, <3>1 DEF CancelSignal, CancelWrite
  <2>8. CASE ClearFinished
    BY <1>1, <2>8 DEF ClearFinished, Exists
  <2>9. ASSUME MarkRunningJobsInterrupted PROVE row'[k] = NoRow
    BY <1>1, <2>9 DEF MarkRunningJobsInterrupted, IsRunning, Exists
  <2>10. CASE UNCHANGED jobsVars
    BY <1>1, <2>10 DEF jobsVars
  <2>11. QED
    BY <1>1, <2>2, <2>3, <2>4, <2>5, <2>6, <2>7, <2>8, <2>9, <2>10 DEF Next, Restart, SecondStart
<1>2. TypeOK /\ [Next]_jobsVars =>
        [\A j \in Job : row[j] = NoRow /\ row'[j] # NoRow => j \notin used \/ ByHand(j)]_jobsVars
  BY <1>1
<1>3. QED
  BY <1>2, JobTypes, PTL DEF Spec, ClearedStaysCleared

-----------------------------------------------------------------------------
(* The vault's jobs.                                                       *)

TextSet == [body : Nat, meta : Nat, cut : BOOLEAN]

Places == {"none", "queued", "ask", "exchange", "write", "item", "done"}
JobSet == [at : Places, before : TextSet, after : TextSet, archived : BOOLEAN,
           status : {"none", "failed", "skipped", "processed"}]
ItemRecords == [note : Note, before : TextSet, after : TextSet,
                status : {"none", "failed", "skipped", "processed"}]
ManifestSet == [exchanges : SUBSET Note, items : SUBSET ItemRecords,
                status : {"none", "running", "completed", "partial", "failed"}]
RunSet == [pc : {"off", "work"}, cancelled : BOOLEAN, torn : BOOLEAN,
           answer : {"none", "ok", "failed", "killed"}]

MetadataTypes ==
  /\ note \in [Note -> TextSet]
  /\ run \in RunSet
  /\ job \in [Note -> JobSet]
  /\ manifest \in ManifestSet
  /\ seen \in [Note -> ManifestSet]
  /\ lost \subseteq [note : Note, text : TextSet, known : BOOLEAN]

\* One worker at a time has read the manifest, and it reads as it read it.
OneWriter ==
  /\ \A n \in lock : n \in Note /\ job[n].at \in {"exchange", "item"} /\ seen[n] = manifest
  /\ \A m, n \in lock : m = n

\* The manifest of a run that was not killed and none of whose writes was cut.
Whole == ~run.torn /\ run.answer # "killed"

Listed(n) == \E i \in manifest.items : i.note = n
ListedWith(n, text) == \E i \in manifest.items : i.note = n /\ i.before = text

\* What was overwritten is listed, reported, or about to be.
Accounted(l) ==
  LET n == l.note
  IN  /\ job[n].at \in {"item", "done"}
      /\ \/ ListedWith(n, l.text)
         \/ job[n].status = "failed"
         \/ job[n].at = "item" /\ job[n].before = l.text

MetadataInv ==
  /\ MetadataTypes
  /\ OneWriter
  /\ run.pc = "work" => run.answer = "none"
  /\ run.pc = "off" => \A n \in Note : job[n].at \in {"none", "done"}
  /\ \A n \in Note : job[n].archived => job[n].at = "done"
  /\ Whole => /\ \A n \in Note : job[n].archived <=> Listed(n)
              /\ \A l \in lost : l.known => Accounted(l)

ItemSet == [hash : TextSet, vector : TextSet]
CacheSet == [torn : BOOLEAN, items : [Note -> ItemSet]]
BuildSet ==
  [pc : {"off", "read", "embed", "flush", "writing", "save", "closing"},
   items : [Note -> ItemSet], scanned : SUBSET Note, read : [Note -> TextSet],
   reused : SUBSET Note, batches : Seq(SUBSET Note), unanswered : SUBSET Nat,
   results : Seq([batch : Nat, ok : BOOLEAN]), collected : Nat, cancelled : BOOLEAN,
   answer : {"none", "ok", "failed", "killed"}]

IndexTypes ==
  /\ "batch" \in DOMAIN scenario /\ scenario.batch \in Nat \ {0}
  /\ file \in CacheSet
  /\ build \in [Build -> BuildSet]

\* A vector is that of the text whose hash is beside it.
Sound(items) == \A n \in Note : items[n].vector = items[n].hash

\* In memory, the vector of a note is that of its text as the build read it.
Done(s, n) == s.items[n] = [hash |-> s.read[n], vector |-> s.read[n]]

\* A note whose vector is still to come is in a batch that is.
Coming(s, n) ==
  \E i \in DOMAIN s.batches : /\ n \in s.batches[i]
                              /\ i \in s.unanswered \/ \E k \in DOMAIN s.results : s.results[k].batch = i

BuildInv(s) ==
  /\ Sound(s.items)
  /\ s.pc # "off" =>
       /\ s.answer = "none"
       /\ \A n \in Note \ s.scanned : s.items[n] = NoItem
       /\ s.pc = "read" => /\ s.results = <<>>
                           /\ \A n \in s.reused : n \in s.scanned /\ s.read[n] # Gone /\ Done(s, n)
       /\ s.pc # "read" => \A n \in s.scanned : s.read[n] # Gone
       /\ s.pc \in {"embed", "flush", "writing"} =>
            /\ \A i \in DOMAIN s.batches : s.batches[i] \subseteq s.scanned
            /\ s.unanswered \subseteq DOMAIN s.batches
            /\ \A k \in DOMAIN s.results : s.results[k].batch \in DOMAIN s.batches
            /\ \A n \in s.scanned : s.cancelled \/ Done(s, n) \/ Coming(s, n)
       /\ s.pc \in {"save", "closing"} => \A n \in s.scanned : Done(s, n)

IndexInv ==
  /\ IndexTypes
  /\ Sound(file.items)
  /\ \A b \in Build : BuildInv(build[b])

LEMMA SpendKeepsBatch ==
  ASSUME "batch" \in DOMAIN scenario, NEW what, what # "batch", Spend(what)
  PROVE  "batch" \in DOMAIN scenario' /\ scenario'.batch = scenario.batch
BY DEF Spend

LEMMA TextsAreTexts ==
  /\ Gone \in TextSet
  /\ \A text \in TextSet : /\ Cut(text) \in TextSet
                           /\ [text EXCEPT !.body = @ + 1] \in TextSet
                           /\ \A meta \in Nat : Applied(text, meta) \in TextSet
<1>1. Gone \in TextSet
  BY DEF Gone, TextSet
<1>2. ASSUME NEW text \in TextSet
      PROVE  Cut(text) \in TextSet /\ [text EXCEPT !.body = @ + 1] \in TextSet
  <2>1. text.body + 1 \in Nat
    BY <1>2 DEF TextSet
  <2>2. [text EXCEPT !.body = text.body + 1] \in TextSet
    BY <1>2, <2>1 DEF TextSet
  <2>3. Cut(text) \in TextSet
    BY <1>2 DEF Cut, TextSet
  <2>4. QED
    BY <2>2, <2>3
<1>3. ASSUME NEW text \in TextSet, NEW meta \in Nat PROVE Applied(text, meta) \in TextSet
  BY <1>3 DEF Applied, TextSet
<1>4. QED
  BY <1>1, <1>2, <1>3

LEMMA NothingListed ==
  /\ NoManifest \in ManifestSet /\ Unselected \in JobSet
  /\ NoManifest.items = {} /\ Unselected.at = "none" /\ ~Unselected.archived
BY TextsAreTexts DEF NoManifest, Unselected, ManifestSet, JobSet, Places

LEMMA InitMetadata == ZettelInit => MetadataInv
<1> SUFFICES ASSUME ZettelInit PROVE MetadataInv
  OBVIOUS
<1>1. note \in [Note -> TextSet]
  BY VaultAssumption DEF VaultAssumption, ZettelInit, VaultInit, Note, TextSet
<1>2. MetadataTypes
  BY <1>1, NothingListed DEF MetadataTypes, ZettelInit, MetadataInit, RunSet
<1>3. \A n \in Note : ~Listed(n) /\ job[n] = Unselected
  BY NothingListed DEF ZettelInit, MetadataInit, Listed
<1>4. QED
  BY <1>2, <1>3, NothingListed DEF MetadataInv, OneWriter, ZettelInit, MetadataInit

LEMMA OthersKeepThem ==
  ASSUME MetadataInv,
         UNCHANGED <<run, job, lock, seen, manifest, lost>>, note' \in [Note -> TextSet]
  PROVE  MetadataInv'
BY DEF MetadataInv, MetadataTypes, OneWriter, Whole, Listed, ListedWith, Accounted

\* A step of one note that overwrites and lists nothing.
LEMMA StepOfNote ==
  ASSUME MetadataInv, MetadataTypes', OneWriter', NEW n \in Note,
         \A m \in Note \ {n} : job'[m] = job[m],
         run.pc = "work", run'.pc = "work", run'.answer = run.answer,
         job'[n].archived = job[n].archived,
         job'[n].archived => job'[n].at = "done",
         Whole' => Whole /\ manifest'.items = manifest.items /\ lost' = lost,
         Whole' /\ job[n].at \in {"item", "done"} =>
           /\ job'[n].at \in {"item", "done"}
           /\ job'[n].status = job[n].status \/ job'[n].status = "failed"
           /\ job[n].at = "item" => \/ job'[n].at = "item" /\ job'[n].before = job[n].before
                                   \/ job'[n].status = "failed"
  PROVE  MetadataInv'
<1>1. ASSUME Whole' PROVE \A m \in Note : job'[m].archived <=> Listed(m)'
  BY <1>1 DEF MetadataInv, Listed
<1>2. ASSUME Whole', NEW l \in lost', l.known PROVE Accounted(l)'
  <2>1. l \in lost /\ l.note \in Note /\ Accounted(l)
    BY <1>2 DEF MetadataInv, MetadataTypes
  <2>2. ListedWith(l.note, l.text)' <=> ListedWith(l.note, l.text)
    BY <1>2 DEF ListedWith
  <2>3. CASE l.note # n
    BY <2>1, <2>2, <2>3 DEF Accounted
  <2>4. CASE l.note = n
    BY <1>2, <2>1, <2>2, <2>4 DEF Accounted
  <2>5. QED
    BY <2>3, <2>4
<1>3. \A m \in Note : job'[m].archived => job'[m].at = "done"
  BY DEF MetadataInv
<1>4. QED
  BY <1>1, <1>2, <1>3 DEF MetadataInv

LEMMA InHandWorks ==
  ASSUME MetadataInv, NEW n \in Note, NEW places, n \in At(places), "none" \notin places, "done" \notin places
  PROVE  /\ run.pc = "work" /\ job[n].at \in places /\ ~job[n].archived
         /\ run \in RunSet
BY DEF MetadataInv, MetadataTypes, At, RunSet

\* The worker that holds the lock is alone with the manifest.
LEMMA AloneWithManifest ==
  ASSUME MetadataInv, NEW n \in lock
  PROVE  n \in Note /\ lock \ {n} = {} /\ seen[n] = manifest
BY DEF MetadataInv, OneWriter

LEMMA WorkersKeepThem ==
  ASSUME MetadataInv, NEW n \in Note,
         Take(n) \/ Answer(n) \/ NoAnswer(n) \/ Rejected(n) \/ OpenManifest(n)
  PROVE  MetadataInv'
<1> USE DEF MetadataTypes
<1>1. CASE Take(n)
  <2>1. /\ job' = [job EXCEPT ![n].before = note[n], ![n].after = note[n],
                     ![n].at = IF note[n] = Gone \/ Skips(note[n]) THEN "item" ELSE "ask",
                     ![n].status = IF note[n] = Gone THEN "failed" ELSE IF Skips(note[n]) THEN "skipped" ELSE "none"]
        /\ UNCHANGED <<note, run, lock, seen, manifest, lost>>
    BY <1>1 DEF Take
  <2>2. job[n].at = "queued" /\ run.pc = "work" /\ ~job[n].archived
    BY <1>1, InHandWorks DEF Take
  <2>3. job[n] \in JobSet /\ note[n] \in TextSet
    BY DEF MetadataInv
  <2>4. job' \in [Note -> JobSet]
    <3> DEFINE new == [job[n] EXCEPT !.before = note[n], !.after = note[n],
                     !.at = IF note[n] = Gone \/ Skips(note[n]) THEN "item" ELSE "ask",
                     !.status = IF note[n] = Gone THEN "failed" ELSE IF Skips(note[n]) THEN "skipped" ELSE "none"]
    <3>1. new \in JobSet
      BY <2>3 DEF JobSet, Places
    <3>2. job' = [job EXCEPT ![n] = new]
      BY <2>1, <2>3 DEF JobSet
    <3> HIDE DEF new
    <3>3. QED
      BY <3>1, <3>2 DEF MetadataInv
  <2>5. MetadataTypes' /\ (\A m \in Note \ {n} : job'[m] = job[m]) /\ ~job'[n].archived
    BY <2>1, <2>2, <2>3, <2>4 DEF MetadataInv, JobSet
  <2>6. OneWriter'
    BY <2>1, <2>2, <2>5 DEF MetadataInv, OneWriter
  <2>7. QED
    BY <2>1, <2>2, <2>5, <2>6, StepOfNote DEF Whole
<1>2. CASE Answer(n) \/ NoAnswer(n) \/ Rejected(n)
  <2>1. /\ n \in At({"ask"})
        /\ \E after \in TextSet, status \in {job[n].status, "failed"} :
             job' = [job EXCEPT ![n].at = "exchange", ![n].after = after, ![n].status = status]
        /\ UNCHANGED <<note, run, lock, seen, manifest, lost>>
    <3>1. CASE Answer(n)
      <4>1. PICK meta \in {job[n].before.meta + 1, job[n].before.meta} :
              job' = [job EXCEPT ![n].at = "exchange", ![n].after = Applied(@, meta)]
        BY <3>1 DEF Answer
      <4>2. job[n] \in JobSet
        BY DEF MetadataInv
      <4>3. job[n].before \in TextSet /\ job[n].after \in TextSet
        BY <4>2 DEF JobSet
      <4>4. meta \in Nat
        BY <4>1, <4>3 DEF TextSet
      <4>5. Applied(job[n].after, meta) \in TextSet
        BY <4>3, <4>4, TextsAreTexts
      <4>6. job' = [job EXCEPT ![n].at = "exchange", ![n].after = Applied(job[n].after, meta), ![n].status = job[n].status]
        BY <4>1, <4>2 DEF MetadataInv, JobSet
      <4>7. QED
        BY <3>1, <4>5, <4>6 DEF Answer
    <3>2. CASE NoAnswer(n) \/ Rejected(n)
      <4>1. /\ n \in At({"ask"})
            /\ job' = [job EXCEPT ![n].at = "exchange", ![n].status = "failed"]
            /\ UNCHANGED <<note, run, lock, seen, manifest, lost>>
        BY <3>2 DEF NoAnswer, Rejected
      <4>2. job[n] \in JobSet
        BY DEF MetadataInv
      <4>3. job[n].after \in TextSet
        BY <4>2 DEF JobSet
      <4>4. job' = [job EXCEPT ![n].at = "exchange", ![n].after = job[n].after, ![n].status = "failed"]
        BY <4>1, <4>2 DEF MetadataInv, JobSet
      <4>5. QED
        BY <4>1, <4>3, <4>4
    <3>3. QED
      BY <1>2, <3>1, <3>2
  <2>2. PICK after \in TextSet, status \in {job[n].status, "failed"} :
          job' = [job EXCEPT ![n].at = "exchange", ![n].after = after, ![n].status = status]
    BY <2>1
  <2>3. job[n].at = "ask" /\ run.pc = "work" /\ ~job[n].archived
    BY <2>1, InHandWorks
  <2>4. MetadataTypes' /\ (\A m \in Note \ {n} : job'[m] = job[m]) /\ ~job'[n].archived
    <3>1. job[n] \in JobSet
      BY DEF MetadataInv
    <3>2. job' \in [Note -> JobSet]
      BY <2>2, <3>1 DEF MetadataInv, JobSet, Places
    <3>3. (\A m \in Note \ {n} : job'[m] = job[m]) /\ ~job'[n].archived
      BY <2>2, <2>3, <3>1 DEF MetadataInv, JobSet
    <3>4. QED
      BY <2>1, <3>2, <3>3 DEF MetadataInv
  <2>5. OneWriter'
    BY <2>1, <2>3, <2>4 DEF MetadataInv, OneWriter
  <2>6. QED
    BY <2>1, <2>3, <2>4, <2>5, StepOfNote DEF Whole
<1>3. CASE OpenManifest(n)
  <2>1. /\ n \in At({"exchange", "item"}) /\ lock = {}
        /\ lock' = {n} /\ seen' = [seen EXCEPT ![n] = manifest]
        /\ UNCHANGED <<note, run, job, manifest, lost>>
    BY <1>3 DEF OpenManifest, Free
  <2>2. job[n].at \in {"exchange", "item"} /\ run.pc = "work"
    BY <2>1, InHandWorks
  <2>3. MetadataTypes'
    BY <2>1 DEF MetadataInv
  <2>4. OneWriter'
    BY <2>1, <2>2 DEF MetadataInv, OneWriter
  <2>5. QED
    BY <2>1, <2>2, <2>3, <2>4, StepOfNote DEF Whole, MetadataInv
<1>4. QED
  BY <1>1, <1>2, <1>3

LEMMA ManifestWrites ==
  ASSUME MetadataInv, ManifestWriteFails, run.pc = "work"
  PROVE  /\ run' \in RunSet /\ manifest' \in ManifestSet /\ run'.pc = "work" /\ run'.answer = run.answer
         /\ Whole' => Whole /\ manifest' = manifest
BY NothingListed DEF ManifestWriteFails, MetadataInv, MetadataTypes, RunSet, Whole

LEMMA WritersKeepThem ==
  ASSUME MetadataInv, NEW n \in Note, Exchange(n) \/ ExchangeFails(n) \/ WriteNote(n) \/ ItemFails(n)
  PROVE  MetadataInv'
<1>0. job[n] \in JobSet
  BY DEF MetadataInv, MetadataTypes
<1>1. CASE Exchange(n)
  <2>1. /\ n \in At({"exchange"}) /\ n \in lock
        /\ manifest' = [seen[n] EXCEPT !.status = "running", !.exchanges = @ \cup {n}]
        /\ \E at \in {"item", "write"}, status \in {job[n].status, "skipped"} :
             job' = [job EXCEPT ![n].at = at, ![n].status = status]
        /\ lock' = lock \ {n} /\ seen' = [seen EXCEPT ![n] = NoManifest]
        /\ UNCHANGED <<note, run, lost>>
    <3>1. [job EXCEPT ![n].at = "item"] = [job EXCEPT ![n].at = "item", ![n].status = job[n].status]
      BY <1>0 DEF JobSet, MetadataInv, MetadataTypes
    <3>2. [job EXCEPT ![n].at = "write"] = [job EXCEPT ![n].at = "write", ![n].status = job[n].status]
      BY <1>0 DEF JobSet, MetadataInv, MetadataTypes
    <3>3. QED
      BY <1>1, <3>1, <3>2 DEF Exchange, Release
  <2>2. PICK at \in {"item", "write"}, status \in {job[n].status, "skipped"} :
          job' = [job EXCEPT ![n].at = at, ![n].status = status]
    BY <2>1
  <2>3. job[n].at = "exchange" /\ run.pc = "work" /\ ~job[n].archived
    BY <2>1, InHandWorks
  <2>4. manifest' = [manifest EXCEPT !.status = "running", !.exchanges = @ \cup {n}] /\ lock' = {}
    BY <2>1, AloneWithManifest
  <2>5. manifest' \in ManifestSet /\ manifest'.items = manifest.items
    BY <2>4 DEF MetadataInv, MetadataTypes, ManifestSet
  <2>6. job' \in [Note -> JobSet] /\ (\A m \in Note \ {n} : job'[m] = job[m]) /\ ~job'[n].archived
    BY <2>2, <2>3 DEF MetadataInv, MetadataTypes, JobSet, Places
  <2>7. MetadataTypes' /\ OneWriter'
    BY <2>1, <2>4, <2>5, <2>6, NothingListed DEF MetadataInv, MetadataTypes, OneWriter
  <2>8. QED
    BY <2>1, <2>3, <2>5, <2>6, <2>7, StepOfNote DEF Whole
<1>2. CASE ExchangeFails(n)
  <2>1. /\ n \in At({"exchange"}) /\ n \in lock
        /\ job' = [job EXCEPT ![n].at = "item", ![n].status = "failed", ![n].after = job[n].before]
        /\ ManifestWriteFails
        /\ lock' = lock \ {n} /\ seen' = [seen EXCEPT ![n] = NoManifest]
        /\ UNCHANGED <<note, lost>>
    BY <1>2 DEF ExchangeFails, Release
  <2>2. job[n].at = "exchange" /\ run.pc = "work" /\ ~job[n].archived
    BY <2>1, InHandWorks
  <2>3. lock' = {}
    BY <2>1, AloneWithManifest
  <2>4. job' \in [Note -> JobSet] /\ (\A m \in Note \ {n} : job'[m] = job[m]) /\ ~job'[n].archived
    BY <1>0, <2>1, <2>2 DEF MetadataInv, MetadataTypes, JobSet, Places
  <2>5. MetadataTypes' /\ OneWriter'
    BY <2>1, <2>2, <2>3, <2>4, NothingListed, ManifestWrites DEF MetadataInv, MetadataTypes, OneWriter
  <2>6. QED
    BY <2>1, <2>2, <2>4, <2>5, ManifestWrites, StepOfNote
<1>3. CASE ItemFails(n)
  <2>1. /\ n \in At({"item"}) /\ n \in lock
        /\ job' = [job EXCEPT ![n].at = "done", ![n].status = "failed"]
        /\ ManifestWriteFails
        /\ lock' = lock \ {n} /\ seen' = [seen EXCEPT ![n] = NoManifest]
        /\ UNCHANGED <<note, lost>>
    BY <1>3 DEF ItemFails, Release
  <2>2. job[n].at = "item" /\ run.pc = "work" /\ ~job[n].archived
    BY <2>1, InHandWorks
  <2>3. lock' = {}
    BY <2>1, AloneWithManifest
  <2>4. /\ job' \in [Note -> JobSet] /\ (\A m \in Note \ {n} : job'[m] = job[m]) /\ ~job'[n].archived
        /\ job'[n].at = "done" /\ job'[n].status = "failed"
    BY <1>0, <2>1, <2>2 DEF MetadataInv, MetadataTypes, JobSet, Places
  <2>5. MetadataTypes' /\ OneWriter'
    BY <2>1, <2>2, <2>3, <2>4, NothingListed, ManifestWrites DEF MetadataInv, MetadataTypes, OneWriter
  <2>6. QED
    BY <2>1, <2>2, <2>4, <2>5, ManifestWrites, StepOfNote
<1>4. CASE WriteNote(n)
  <2>1. /\ n \in At({"write"})
        /\ note' \in {[note EXCEPT ![n] = job[n].after], note, [note EXCEPT ![n] = Cut(job[n].after)]}
        /\ \E status \in {"processed", "failed"} : job' = [job EXCEPT ![n].at = "item", ![n].status = status]
        /\ lost' \in {lost, lost \cup {[note |-> n, text |-> note[n], known |-> note[n] = job[n].before]}}
        /\ UNCHANGED <<run, lock, seen, manifest>>
    BY <1>4 DEF WriteNote
  <2>2. job[n].at = "write" /\ run.pc = "work" /\ ~job[n].archived
    BY <2>1, InHandWorks
  <2>3. job' \in [Note -> JobSet] /\ (\A m \in Note \ {n} : job'[m] = job[m]) /\ ~job'[n].archived
    <3>1. PICK status \in {"processed", "failed"} : job' = [job EXCEPT ![n].at = "item", ![n].status = status]
      BY <2>1
    <3>2. job' \in [Note -> JobSet]
      BY <1>0, <3>1 DEF MetadataInv, MetadataTypes, JobSet, Places
    <3>3. QED
      BY <1>0, <2>2, <3>1, <3>2 DEF MetadataInv, MetadataTypes, JobSet
  <2>4. job'[n].at = "item" /\ job'[n].before = job[n].before
    BY <1>0, <2>1 DEF MetadataInv, MetadataTypes
  <2>5. MetadataTypes'
    <3>1. job[n].after \in TextSet /\ note[n] \in TextSet
      BY <1>0 DEF JobSet, MetadataInv, MetadataTypes
    <3>2. Cut(job[n].after) \in TextSet
      BY <3>1, TextsAreTexts
    <3>3. note' \in [Note -> TextSet]
      BY <2>1, <3>1, <3>2 DEF MetadataInv, MetadataTypes
    <3>4. lost' \subseteq [note : Note, text : TextSet, known : BOOLEAN]
      <4>1. (note[n] = job[n].before) \in BOOLEAN
        OBVIOUS
      <4>2. [note |-> n, text |-> note[n], known |-> note[n] = job[n].before]
              \in [note : Note, text : TextSet, known : BOOLEAN]
        BY <3>1, <4>1
      <4>3. QED
        BY <2>1, <4>2 DEF MetadataInv, MetadataTypes
    <3>5. QED
      BY <2>1, <2>3, <3>3, <3>4 DEF MetadataInv, MetadataTypes
  <2>6. OneWriter'
    BY <2>1, <2>2, <2>3 DEF MetadataInv, OneWriter
  <2>7. \A m \in Note : (Listed(m)' <=> Listed(m)) /\ (job'[m].archived <=> job[m].archived)
    BY <2>1, <2>2, <2>3 DEF Listed
  <2>8. ASSUME Whole, NEW l \in lost', l.known PROVE Accounted(l)'
    <3>1. CASE l \in lost /\ l.note # n
      <4>1. ListedWith(l.note, l.text)' <=> ListedWith(l.note, l.text)
        BY <2>1 DEF ListedWith
      <4>2. l.note \in Note /\ Accounted(l)
        BY <2>8, <3>1 DEF MetadataInv, MetadataTypes
      <4>3. QED
        BY <2>3, <3>1, <4>1, <4>2 DEF Accounted
    <3>2. CASE l \in lost /\ l.note = n
      BY <2>2, <2>8, <3>2 DEF MetadataInv, Accounted
    <3>3. CASE l = [note |-> n, text |-> note[n], known |-> note[n] = job[n].before]
      BY <2>4, <2>8, <3>3 DEF Accounted
    <3>4. QED
      BY <2>1, <2>8, <3>1, <3>2, <3>3
  <2>9. Whole' => Whole
    BY <2>1 DEF Whole
  <2>10. run'.pc = "work" /\ \A m \in Note : job'[m].archived => job'[m].at = "done"
    BY <2>1, <2>2, <2>3 DEF MetadataInv
  <2>11. Whole' => /\ \A m \in Note : job'[m].archived <=> Listed(m)'
                   /\ \A l \in lost' : l.known => Accounted(l)'
    BY <2>7, <2>8, <2>9 DEF MetadataInv
  <2>12. QED
    BY <2>1, <2>2, <2>5, <2>6, <2>10, <2>11 DEF MetadataInv
<1>5. QED
  BY <1>1, <1>2, <1>3, <1>4

LEMMA ItemKeepsThem == ASSUME MetadataInv, NEW n \in Note, Item(n) PROVE MetadataInv'
<1> DEFINE item == [note |-> n, status |-> job[n].status, before |-> job[n].before, after |-> job[n].after]
<1>0. job[n] \in JobSet
  BY DEF MetadataInv, MetadataTypes
<1>1. /\ n \in At({"item"}) /\ n \in lock
      /\ manifest' = [seen[n] EXCEPT !.status = "running", !.items = @ \cup {item}]
      /\ job' = [job EXCEPT ![n].at = "done", ![n].archived = TRUE]
      /\ lock' = lock \ {n} /\ seen' = [seen EXCEPT ![n] = NoManifest]
      /\ UNCHANGED <<note, run, lost>>
  BY DEF Item, Release
<1>2. job[n].at = "item" /\ run.pc = "work"
  BY <1>1, InHandWorks
<1>3. manifest' = [manifest EXCEPT !.status = "running", !.items = @ \cup {item}] /\ lock' = {}
  BY <1>1, AloneWithManifest
<1>4. item \in ItemRecords /\ item.note = n /\ item.before = job[n].before
  BY <1>0 DEF JobSet, ItemRecords
<1> HIDE DEF item
<1>5. manifest' \in ManifestSet /\ manifest'.items = manifest.items \cup {item}
  BY <1>3, <1>4 DEF MetadataInv, MetadataTypes, ManifestSet
<1>6. job' \in [Note -> JobSet]
  BY <1>0, <1>1 DEF MetadataInv, MetadataTypes, JobSet, Places
<1>7. /\ \A m \in Note \ {n} : job'[m] = job[m]
      /\ job'[n].archived /\ job'[n].at = "done" /\ job'[n].status = job[n].status
  BY <1>0, <1>1 DEF MetadataInv, MetadataTypes, JobSet
<1>8. MetadataTypes' /\ OneWriter'
  BY <1>1, <1>3, <1>5, <1>6, NothingListed DEF MetadataInv, MetadataTypes, OneWriter
<1>9. \A m \in Note : (Listed(m)' <=> Listed(m) \/ m = n)
  BY <1>4, <1>5 DEF Listed
<1>10. ASSUME Whole, NEW l \in lost, l.known PROVE Accounted(l)'
  <2>1. l.note \in Note /\ Accounted(l)
    BY <1>10 DEF MetadataInv, MetadataTypes
  <2>2. ListedWith(l.note, l.text) => ListedWith(l.note, l.text)'
    BY <1>5 DEF ListedWith
  <2>3. CASE l.note # n
    BY <1>7, <2>1, <2>2, <2>3 DEF Accounted
  <2>4. CASE l.note = n
    <3>1. job[n].before = l.text => ListedWith(l.note, l.text)'
      BY <1>4, <1>5, <2>4 DEF ListedWith
    <3>2. QED
      BY <1>7, <2>1, <2>2, <2>4, <3>1 DEF Accounted
  <2>5. QED
    BY <2>3, <2>4
<1>11. run' = run /\ lost' = lost /\ (Whole' <=> Whole)
  BY <1>1 DEF Whole
<1>12. \A m \in Note : (job'[m].archived <=> job[m].archived \/ m = n) /\ (job'[m].archived => job'[m].at = "done")
  BY <1>7 DEF MetadataInv
<1>13. QED
  BY <1>2, <1>8, <1>9, <1>10, <1>11, <1>12 DEF MetadataInv

\* What the run itself, its user and the process do.
LEMMA RunKeepsThem ==
  ASSUME MetadataInv, Generate \/ StopFeeding \/ Finalize \/ CancelRun \/ (RunDies /\ UNCHANGED note)
  PROVE  MetadataInv'
<1>1. CASE Generate
  <2>1. /\ run' = [pc |-> "work", cancelled |-> FALSE, answer |-> "none", torn |-> FALSE]
        /\ job' = [n \in Note |-> IF n \in Selected THEN [Unselected EXCEPT !.at = "queued"] ELSE Unselected]
        /\ lock' = {} /\ seen' = [n \in Note |-> NoManifest] /\ manifest' = NoManifest /\ lost' = {}
        /\ UNCHANGED note
    BY <1>1 DEF Generate
  <2>2. [Unselected EXCEPT !.at = "queued"] \in JobSet /\ ~[Unselected EXCEPT !.at = "queued"].archived
    BY NothingListed DEF JobSet, Places
  <2>3. MetadataTypes'
    BY <2>1, <2>2, NothingListed DEF MetadataInv, MetadataTypes, RunSet
  <2>4. \A n \in Note : ~job'[n].archived /\ ~Listed(n)'
    BY <2>1, <2>2, NothingListed DEF Listed
  <2>5. QED
    BY <2>1, <2>3, <2>4 DEF MetadataInv, OneWriter
<1>2. CASE StopFeeding
  <2> DEFINE stopped(n) == [job[n] EXCEPT !.at = "done", !.status = "failed"]
  <2>1. /\ At({"queued"}) # {}
        /\ job' = [n \in Note |-> IF n \in At({"queued"}) THEN stopped(n) ELSE job[n]]
        /\ UNCHANGED <<note, run, lock, seen, manifest, lost>>
    BY <1>2 DEF StopFeeding
  <2>2. run.pc = "work" /\ \A n \in At({"queued"}) : n \in Note /\ job[n].at = "queued" /\ ~job[n].archived
    BY <2>1, InHandWorks DEF At
  <2>3. \A n \in Note : /\ job[n] \in JobSet
                        /\ stopped(n) \in JobSet /\ stopped(n).at = "done"
                        /\ stopped(n).status = "failed" /\ stopped(n).archived = job[n].archived
    BY DEF MetadataInv, MetadataTypes, JobSet, Places
  <2> HIDE DEF stopped
  <2>4. MetadataTypes'
    BY <2>1, <2>3 DEF MetadataInv, MetadataTypes
  <2>5. \A n \in Note : /\ n \notin At({"queued"}) => job'[n] = job[n]
                        /\ n \in At({"queued"}) => /\ job[n].at = "queued" /\ ~job[n].archived
                                               /\ job'[n].at = "done" /\ ~job'[n].archived
    BY <2>1, <2>2, <2>3
  <2>6. OneWriter'
    BY <2>1, <2>2, <2>5 DEF MetadataInv, OneWriter
  <2>7. ASSUME Whole', NEW l \in lost', l.known PROVE Accounted(l)'
    <3>1. l \in lost /\ l.note \in Note /\ Accounted(l)
      BY <2>1, <2>7 DEF MetadataInv, MetadataTypes, Whole
    <3>2. job'[l.note] = job[l.note]
      BY <2>5, <3>1 DEF Accounted
    <3>3. ListedWith(l.note, l.text)' <=> ListedWith(l.note, l.text)
      BY <2>1 DEF ListedWith
    <3>4. QED
      BY <3>1, <3>2, <3>3 DEF Accounted
  <2>8. \A n \in Note : (Listed(n)' <=> Listed(n)) /\ (job'[n].archived <=> job[n].archived)
    BY <2>1, <2>5 DEF Listed
  <2>9. QED
    BY <2>1, <2>2, <2>4, <2>5, <2>6, <2>7, <2>8 DEF MetadataInv, Whole
<1>3. CASE Finalize
  <2>1. /\ run.pc = "work" /\ At({"queued"}) \cup InHand = {}
        /\ \E answer \in {"ok", "failed"} : run' = [run EXCEPT !.pc = "off", !.answer = answer]
        /\ manifest' = manifest \/ manifest' = [manifest EXCEPT !.status = RunStatus]
        /\ UNCHANGED <<note, job, lock, seen, lost>>
    BY <1>3 DEF Finalize
  <2>2. \A n \in Note : job[n].at \in {"none", "done"}
    <3> SUFFICES ASSUME NEW n \in Note PROVE job[n].at \in {"none", "done"}
      OBVIOUS
    <3>1. job[n].at \in Places
      BY DEF MetadataInv, MetadataTypes, JobSet
    <3>2. n \notin At({"queued"}) /\ n \notin InHand
      BY <2>1
    <3>3. QED
      BY <3>1, <3>2 DEF At, InHand, Places
  <2>3. lock = {}
    BY <2>2 DEF MetadataInv, OneWriter
  <2>4. RunStatus \in {"completed", "partial", "failed"}
    BY DEF RunStatus
  <2>5. manifest' \in ManifestSet /\ manifest'.items = manifest.items
    BY <2>1, <2>4 DEF MetadataInv, MetadataTypes, ManifestSet
  <2>6. run' \in RunSet /\ (Whole' => Whole) /\ run'.pc = "off"
    <3>1. PICK answer \in {"ok", "failed"} : run' = [run EXCEPT !.pc = "off", !.answer = answer]
      BY <2>1
    <3>2. run \in RunSet /\ run.pc = "work"
      BY <2>1 DEF MetadataInv, MetadataTypes
    <3>3. run' \in RunSet /\ run'.torn = run.torn /\ run'.pc = "off"
      BY <3>1, <3>2 DEF RunSet
    <3>4. run.answer # "killed"
      BY <3>2 DEF MetadataInv
    <3>5. QED
      BY <3>3, <3>4 DEF Whole
  <2>7. MetadataTypes' /\ OneWriter'
    BY <2>1, <2>3, <2>5, <2>6 DEF MetadataInv, MetadataTypes, OneWriter
  <2>8. \A n \in Note, text \in TextSet : (Listed(n)' <=> Listed(n)) /\ (ListedWith(n, text)' <=> ListedWith(n, text))
    BY <2>5 DEF Listed, ListedWith
  <2>9. \A l \in lost : l.note \in Note /\ l.text \in TextSet /\ (Accounted(l) => Accounted(l)')
    BY <2>1, <2>8 DEF Accounted, MetadataInv, MetadataTypes
  <2>10. Whole' => /\ \A n \in Note : job'[n].archived <=> Listed(n)'
                   /\ \A l \in lost' : l.known => Accounted(l)'
    <3> SUFFICES ASSUME Whole' PROVE /\ \A n \in Note : job'[n].archived <=> Listed(n)'
                                     /\ \A l \in lost' : l.known => Accounted(l)'
      OBVIOUS
    <3>1. Whole /\ job' = job /\ lost' = lost
      BY <2>1, <2>6
    <3>2. \A n \in Note : job[n].archived <=> Listed(n)
      BY <3>1 DEF MetadataInv
    <3>3. \A l \in lost : l.known => Accounted(l)
      BY <3>1 DEF MetadataInv
    <3>4. \A n \in Note : Listed(n)' <=> Listed(n)
      BY <2>5 DEF Listed
    <3>5. QED
      BY <2>9, <3>1, <3>2, <3>3, <3>4
  <2>11. QED
    BY <2>1, <2>2, <2>6, <2>7, <2>10 DEF MetadataInv
<1>4. CASE CancelRun
  <2>1. /\ run' = [run EXCEPT !.cancelled = TRUE] /\ run.pc = "work"
        /\ UNCHANGED <<note, job, lock, seen, manifest, lost>>
    BY <1>4 DEF CancelRun
  <2>2. run' \in RunSet /\ (Whole' <=> Whole) /\ run'.pc = "work"
    BY <2>1 DEF MetadataInv, MetadataTypes, RunSet, Whole
  <2>3. QED
    BY <2>1, <2>2 DEF MetadataInv, MetadataTypes, OneWriter, Listed, ListedWith, Accounted
<1>5. CASE RunDies /\ UNCHANGED note
  <2>1. /\ run' = [run EXCEPT !.pc = "off", !.answer = IF run.pc = "off" THEN @ ELSE "killed"]
        /\ job' = [n \in Note |-> IF run.pc = "off" THEN job[n] ELSE Unselected]
        /\ lock' = {} /\ seen' = [n \in Note |-> NoManifest]
        /\ UNCHANGED <<note, manifest, lost>>
    BY <1>5 DEF RunDies
  <2>2. run' \in RunSet /\ run'.pc = "off"
    BY <2>1 DEF MetadataInv, MetadataTypes, RunSet
  <2>3. Whole' => Whole /\ run.pc = "off"
    BY <2>1 DEF MetadataInv, MetadataTypes, RunSet, Whole
  <2>4. run.pc = "off" => job' = job
    BY <2>1 DEF MetadataInv, MetadataTypes
  <2>5. MetadataTypes' /\ OneWriter'
    BY <2>1, <2>2, NothingListed DEF MetadataInv, MetadataTypes, OneWriter
  <2>6. \A n \in Note : /\ job'[n].at \in {"none", "done"}
                        /\ job'[n].archived => job'[n].at = "done"
    BY <2>1, NothingListed DEF MetadataInv
  <2>7. Whole' => /\ \A n \in Note : job'[n].archived <=> Listed(n)'
                  /\ \A l \in lost' : l.known => Accounted(l)'
    BY <2>1, <2>3, <2>4 DEF MetadataInv, Listed, ListedWith, Accounted
  <2>8. QED
    BY <2>2, <2>5, <2>6, <2>7 DEF MetadataInv
<1>6. QED
  BY <1>1, <1>2, <1>3, <1>4, <1>5

LEMMA EditKeepsThem == ASSUME MetadataInv, NEW n \in Note, Edit(n), UNCHANGED metadataVars PROVE MetadataInv'
<1>1. note[n] \in TextSet /\ Text(1, 0) \in TextSet
  BY DEF MetadataInv, MetadataTypes, Text, TextSet
<1>2. \/ note' = [note EXCEPT ![n].body = @ + 1]
      \/ note' \in {[note EXCEPT ![n] = Gone], [note EXCEPT ![n] = Text(1, 0)]}
  BY DEF Edit
<1>3. [note[n] EXCEPT !.body = @ + 1] \in TextSet
  BY <1>1, TextsAreTexts
<1>4. note' = [note EXCEPT ![n].body = @ + 1] => note' = [note EXCEPT ![n] = [note[n] EXCEPT !.body = @ + 1]]
  OBVIOUS
<1>5. note' \in [Note -> TextSet]
  BY <1>1, <1>2, <1>3, <1>4, TextsAreTexts DEF MetadataInv, MetadataTypes
<1>6. QED
  BY <1>5, OthersKeepThem DEF metadataVars

LEMMA MetadataKept == MetadataInv /\ [ZettelNext]_zettelVars => MetadataInv'
<1> SUFFICES ASSUME MetadataInv, [ZettelNext]_zettelVars PROVE MetadataInv'
  OBVIOUS
<1>1. CASE MetadataStep
  BY <1>1, WorkersKeepThem, WritersKeepThem, ItemKeepsThem, RunKeepsThem DEF MetadataStep
<1>2. CASE Generate \/ CancelRun
  BY <1>2, RunKeepsThem
<1>3. CASE Crash
  BY <1>3, RunKeepsThem DEF Crash
<1>4. CASE UNCHANGED <<metadataVars, note>>
  BY <1>4, OthersKeepThem DEF metadataVars, MetadataInv, MetadataTypes
<1>5. CASE (\E n \in Note : Edit(n)) /\ UNCHANGED metadataVars
  BY <1>5, EditKeepsThem
<1>6. CASE (IndexStep \/ \E b \in Build : BeginBuild(b) \/ CancelBuild(b)) /\ UNCHANGED metadataVars
  <2>1. note' = note
    BY <1>6 DEF IndexStep, BeginBuild, CancelBuild, ReadNote, EmbedBatch, StartEmbedding, DropBatches,
                CollectBatch, AllCollected, Truncate, WriteFile
  <2>2. QED
    BY <1>6, <2>1, <1>4
<1>7. CASE UNCHANGED zettelVars
  BY <1>4, <1>7 DEF zettelVars
<1>8. QED
  BY <1>1, <1>2, <1>3, <1>5, <1>6, <1>7 DEF ZettelNext, Jobs, Others

\* A run that answers ok has every text it overwrote, and knew, in its archive
\* or reported, and every result that could be written in its manifest.
THEOREM ChangesAlwaysArchived == ZettelSpec => []ChangesArchived
<1>1. MetadataInv => ChangesArchived
  <2> SUFFICES ASSUME MetadataInv, run.pc = "off", run.answer = "ok", ~run.torn
               PROVE  /\ \A l \in lost : l.known => ListedWith(l.note, l.text) \/ job[l.note].status = "failed"
                      /\ \A n \in Note : job[n].archived <=> Listed(n)
    BY DEF ChangesArchived, Listed, ListedWith
  <2>1. Whole
    BY DEF Whole
  <2>2. \A l \in lost : l.note \in Note
    BY DEF MetadataInv, MetadataTypes
  <2>3. QED
    BY <2>1, <2>2 DEF MetadataInv, Accounted
<1>2. QED
  BY <1>1, InitMetadata, MetadataKept, PTL DEF ZettelSpec

-----------------------------------------------------------------------------
\* Euclid's division, of what it is needed for.
LEMMA Quotient ==
  ASSUME NEW a \in Nat, NEW d \in Nat \ {0}
  PROVE  /\ a \div d \in Nat
         /\ d * (a \div d) <= a /\ a < d * (a \div d) + d
<1>1. a \div d \in Int /\ a % d \in 0..(d - 1) /\ a = d * (a \div d) + (a % d)
  OBVIOUS
<1>2. a \div d >= 0
  OBVIOUS
<1>3. QED
  BY <1>1, <1>2

\* A place below the number of notes is in one of the batches.
LEMMA PlaceInBatch ==
  ASSUME NEW size \in Nat \ {0}, NEW count \in Nat, NEW place \in Nat, place < count
  PROVE  (place \div size) + 1 \in 1..((count + size - 1) \div size)
<1> DEFINE r == place \div size
           q == (count + size - 1) \div size
<1>1. r \in Nat /\ size * r <= place
  BY Quotient
<1>2. q \in Nat /\ count + size - 1 < size * q + size
  <2>1. count + size - 1 \in Nat
    OBVIOUS
  <2>2. QED
    BY <2>1, Quotient
<1> HIDE DEF r, q
<1>3. size * q >= count
  <2>1. size * q \in Nat
    BY <1>2
  <2>2. QED
    BY <1>2, <2>1
<1>4. ASSUME q <= r PROVE FALSE
  <2>1. size * q <= size * r
    BY <1>1, <1>2, <1>4
  <2>2. size * q \in Nat /\ size * r \in Nat
    BY <1>1, <1>2
  <2>3. QED
    BY <1>1, <1>3, <2>1, <2>2
<1>5. r + 1 \in 1..q
  BY <1>1, <1>2, <1>4
<1>6. QED
  BY <1>5 DEF r, q

LEMMA NotesAreFinite == IsFiniteSet(Note)
BY VaultAssumption, FS_Interval DEF Note, VaultAssumption

\* The batches hold all notes to embed, and no others.
LEMMA BatchesHoldNotes ==
  ASSUME scenario.batch \in Nat \ {0}, NEW notes \in SUBSET Note
  PROVE  /\ Batches(notes) \in Seq(SUBSET Note)
         /\ \A i \in DOMAIN Batches(notes) : Batches(notes)[i] \subseteq notes
         /\ \A n \in notes : \E i \in DOMAIN Batches(notes) : n \in Batches(notes)[i]
<1> DEFINE size == scenario.batch
           before(n) == Cardinality({m \in notes : m < n})
           count == (Cardinality(notes) + size - 1) \div size
           batch(i) == {n \in notes : before(n) \div size = i - 1}
<1>1. IsFiniteSet(notes) /\ Cardinality(notes) \in Nat
  BY NotesAreFinite, FS_Subset, FS_CardinalityType
<1>2. count \in Nat
  <2>1. Cardinality(notes) + size - 1 \in Nat
    BY <1>1
  <2>2. QED
    BY <2>1, Quotient
<1>3. Batches(notes) = [i \in 1..count |-> batch(i)]
  BY DEF Batches
<1>4. ASSUME NEW n \in notes PROVE before(n) \in Nat /\ before(n) < Cardinality(notes)
  <2> DEFINE lower == {m \in notes : m < n}
  <2>1. lower \subseteq notes /\ n \notin lower
    BY VaultAssumption DEF Note, VaultAssumption
  <2>2. lower # notes
    BY <1>4, <2>1
  <2> HIDE DEF lower
  <2>3. Cardinality(lower) \in Nat /\ Cardinality(lower) < Cardinality(notes)
    BY <1>1, <2>1, <2>2, FS_Subset, FS_CardinalityType
  <2>4. QED
    BY <2>3 DEF lower
<1> HIDE DEF before, count
<1>5. ASSUME NEW n \in notes PROVE \E i \in 1..count : n \in batch(i)
  <2> DEFINE i == (before(n) \div size) + 1
  <2>1. i \in 1..count
    BY <1>1, <1>4, PlaceInBatch DEF count
  <2>2. before(n) \div size \in Nat
    BY <1>4, Quotient
  <2>3. before(n) \div size = i - 1
    BY <2>2
  <2>4. n \in batch(i)
    BY <2>3
  <2> HIDE DEF i
  <2>5. QED
    BY <2>1, <2>4
<1>6. \A i \in 1..count : batch(i) \subseteq notes
  OBVIOUS
<1> HIDE DEF batch
<1>7. Batches(notes) \in Seq(SUBSET Note)
  BY <1>2, <1>3, <1>6
<1>8. DOMAIN Batches(notes) = 1..count
  BY <1>3
<1>9. QED
  BY <1>3, <1>5, <1>6, <1>7, <1>8

LEMMA IdleHolds ==
  ASSUME NEW answer \in {"none", "ok", "failed", "killed"}
  PROVE  /\ Idle \in BuildSet /\ BuildInv(Idle)
         /\ [Idle EXCEPT !.answer = answer] \in BuildSet
         /\ BuildInv([Idle EXCEPT !.answer = answer])
         /\ [Idle EXCEPT !.answer = answer].answer = answer
         /\ [Idle EXCEPT !.answer = answer].pc = "off"
<1>1. NoItem \in ItemSet /\ NoItem.hash = NoItem.vector
  BY TextsAreTexts DEF NoItem, ItemSet
<1>2. /\ <<>> \in Seq(SUBSET Note) /\ <<>> \in Seq([batch : Nat, ok : BOOLEAN])
      /\ [n \in Note |-> NoItem] \in [Note -> ItemSet] /\ [n \in Note |-> Gone] \in [Note -> TextSet]
  BY <1>1, TextsAreTexts
<1>3. Idle \in BuildSet
  BY <1>2 DEF Idle, BuildSet
<1>4. [Idle EXCEPT !.answer = answer] \in BuildSet
  BY <1>3 DEF BuildSet
<1>5. BuildInv(Idle) /\ BuildInv([Idle EXCEPT !.answer = answer])
  BY <1>1 DEF BuildInv, Idle, Sound
<1>6. QED
  BY <1>3, <1>4, <1>5 DEF Idle

LEMMA InitIndex == ZettelInit => IndexInv
<1> SUFFICES ASSUME ZettelInit PROVE IndexInv
  OBVIOUS
<1>1. NoItem \in ItemSet /\ NoItem.hash = NoItem.vector
  BY TextsAreTexts DEF NoItem, ItemSet
<1>2. file \in CacheSet /\ Sound(file.items)
  BY <1>1 DEF ZettelInit, IndexInit, Saved, CacheSet, Sound
<1>3. "batch" \in DOMAIN scenario /\ scenario.batch \in Nat \ {0}
  BY VaultAssumption DEF ZettelInit, VaultInit, VaultAssumption
<1>4. build \in [Build -> BuildSet] /\ \A b \in Build : BuildInv(build[b])
  BY IdleHolds DEF ZettelInit, IndexInit
<1>5. QED
  BY <1>2, <1>3, <1>4 DEF IndexInv, IndexTypes

\* A step of one build.
LEMMA StepOfBuild ==
  ASSUME IndexInv, NEW b \in Build, NEW state \in BuildSet, Set(b, state), BuildInv(state),
         file' \in CacheSet, Sound(file'.items),
         scenario' = scenario \/ Spend("faults") \/ Spend("builds") \/ Spend("cancels")
  PROVE  IndexInv'
<1>1. build' \in [Build -> BuildSet] /\ \A c \in Build : BuildInv(build[c])'
  BY DEF Set, IndexInv, IndexTypes
<1>2. "batch" \in DOMAIN scenario' /\ scenario'.batch \in Nat \ {0}
  BY SpendKeepsBatch DEF IndexInv, IndexTypes
<1>3. QED
  BY <1>1, <1>2 DEF IndexInv, IndexTypes

LEMMA EndOfBuild ==
  ASSUME IndexInv, NEW b \in Build, NEW answer \in {"none", "ok", "failed", "killed"}, End(b, answer),
         file' \in CacheSet, Sound(file'.items),
         scenario' = scenario \/ Spend("faults") \/ Spend("builds") \/ Spend("cancels")
  PROVE  IndexInv'
BY IdleHolds, StepOfBuild DEF End

LEMMA BeginKeepsIndex == ASSUME IndexInv, MetadataTypes, NEW b \in Build, BeginBuild(b) PROVE IndexInv'
<1> DEFINE state == [Idle EXCEPT !.pc = "read", !.items = Pruned(file.items, ScanNotes), !.scanned = ScanNotes]
<1>1. file' \in CacheSet /\ Sound(file'.items) /\ Spend("builds")
  BY DEF BeginBuild, IndexInv, IndexTypes
<1>2. CASE End(b, "failed")
  BY <1>1, <1>2, EndOfBuild
<1>3. CASE Set(b, state)
  <2>1. NoItem \in ItemSet /\ NoItem.hash = NoItem.vector
    BY TextsAreTexts DEF NoItem, ItemSet
  <2>2. ScanNotes \in SUBSET Note
    BY DEF ScanNotes
  <2>3. /\ Pruned(file.items, ScanNotes) \in [Note -> ItemSet] /\ Sound(Pruned(file.items, ScanNotes))
        /\ \A n \in Note \ ScanNotes : Pruned(file.items, ScanNotes)[n] = NoItem
    BY <2>1 DEF Pruned, Sound, IndexInv, IndexTypes, CacheSet
  <2>4. state \in BuildSet
    BY <2>2, <2>3, IdleHolds DEF BuildSet
  <2>5. BuildInv(state)
    BY <2>3 DEF BuildInv, Idle
  <2> HIDE DEF state
  <2>6. QED
    BY <1>1, <1>3, <2>4, <2>5, StepOfBuild
<1>4. QED
  BY <1>2, <1>3 DEF BeginBuild

LEMMA ReadKeepsIndex ==
  ASSUME IndexInv, MetadataTypes, NEW b \in Build, NEW n \in Note, ReadNote(b, n)
  PROVE  IndexInv'
<1> DEFINE s == build[b]
           reused == IF Reused(s.items[n], note[n]) THEN s.reused \cup {n} ELSE s.reused
           state == [s EXCEPT !.read[n] = note[n], !.reused = reused]
<1>1. file' \in CacheSet /\ Sound(file'.items) /\ scenario' = scenario
  BY DEF ReadNote, IndexInv, IndexTypes
<1>2. CASE End(b, "failed")
  BY <1>1, <1>2, EndOfBuild
<1>3. CASE Set(b, state) /\ note[n] # Gone
  <2>1. s \in BuildSet /\ BuildInv(s) /\ s.pc = "read" /\ n \in s.scanned /\ s.read[n] = Gone
    BY DEF ReadNote, Unread, IndexInv, IndexTypes
  <2>2. note[n] \in TextSet
    BY DEF MetadataTypes
  <2> HIDE DEF s
  <2>3. Reused(s.items[n], note[n]) => s.items[n] = [hash |-> note[n], vector |-> note[n]]
    BY <2>1 DEF Reused, BuildInv, Sound, BuildSet, ItemSet
  <2>4. /\ state.pc = "read" /\ state.items = s.items /\ state.scanned = s.scanned /\ state.answer = s.answer
        /\ state.reused = reused /\ state.results = s.results
        /\ state.read = [s.read EXCEPT ![n] = note[n]]
    BY <2>1 DEF BuildSet
  <2>5. reused \in SUBSET Note /\ state.read \in [Note -> TextSet]
    BY <2>1, <2>2, <2>4 DEF BuildSet
  <2>6. state \in BuildSet
    BY <2>1, <2>2, <2>5 DEF BuildSet
  <2>7. state.read[n] = note[n] /\ \A m \in Note \ {n} : state.read[m] = s.read[m]
    BY <2>1, <2>4 DEF BuildSet
  <2> HIDE DEF state
  <2>8. \A m \in state.reused : m \in state.scanned /\ state.read[m] # Gone /\ Done(state, m)
    <3> SUFFICES ASSUME NEW m \in state.reused
                 PROVE  m \in state.scanned /\ state.read[m] # Gone /\ Done(state, m)
      OBVIOUS
    <3>1. CASE m \in s.reused
      <4>1. m \in s.scanned /\ s.read[m] # Gone /\ Done(s, m)
        BY <2>1, <3>1 DEF BuildInv
      <4>2. m # n /\ m \in Note
        BY <2>1, <4>1 DEF BuildSet
      <4>3. QED
        BY <2>4, <2>7, <4>1, <4>2 DEF Done
    <3>2. CASE m = n /\ Reused(s.items[n], note[n])
      BY <1>3, <2>1, <2>3, <2>4, <2>7, <3>2 DEF Done
    <3>3. QED
      BY <2>4, <3>1, <3>2
  <2>9. BuildInv(state)
    BY <2>1, <2>4, <2>8 DEF BuildInv
  <2>10. QED
    BY <1>1, <1>3, <2>6, <2>9, StepOfBuild
<1>4. QED
  BY <1>2, <1>3 DEF ReadNote

LEMMA StartKeepsIndex == ASSUME IndexInv, NEW b \in Build, StartEmbedding(b) PROVE IndexInv'
<1> DEFINE s == build[b]
           batches == Batches(s.scanned \ s.reused)
           state == [s EXCEPT !.batches = batches, !.unanswered = DOMAIN batches,
                       !.pc = IF batches = <<>> THEN "save" ELSE "embed"]
<1>1. /\ file' \in CacheSet /\ Sound(file'.items) /\ scenario' = scenario
      /\ s.pc = "read" /\ Unread(b) = {} /\ Set(b, state)
  BY DEF StartEmbedding, IndexInv, IndexTypes
<1>2. s \in BuildSet /\ BuildInv(s) /\ \A n \in s.scanned : s.read[n] # Gone
  BY <1>1 DEF IndexInv, IndexTypes, Unread
<1>3. s.scanned \ s.reused \in SUBSET Note
  BY <1>2 DEF BuildSet
<1>4. /\ batches \in Seq(SUBSET Note)
      /\ \A i \in DOMAIN batches : batches[i] \subseteq s.scanned \ s.reused
      /\ \A n \in s.scanned \ s.reused : \E i \in DOMAIN batches : n \in batches[i]
  BY <1>3, BatchesHoldNotes DEF IndexInv, IndexTypes
<1> HIDE DEF s, batches
<1>5. DOMAIN batches \subseteq Nat /\ (batches = <<>> => DOMAIN batches = {})
  BY <1>4
<1>6. /\ state.pc = (IF batches = <<>> THEN "save" ELSE "embed") /\ state.items = s.items
      /\ state.scanned = s.scanned /\ state.answer = s.answer /\ state.read = s.read
      /\ state.batches = batches /\ state.unanswered = DOMAIN batches /\ state.results = s.results
      /\ state.cancelled = s.cancelled /\ state.reused = s.reused
  BY <1>2 DEF BuildSet
<1>7. state \in BuildSet
  BY <1>2, <1>4, <1>5 DEF BuildSet
<1> HIDE DEF state
<1>8. \A n \in s.reused : Done(state, n)
  BY <1>1, <1>2, <1>6 DEF BuildInv, Done
<1>9. \A n \in s.scanned \ s.reused : Coming(state, n)
  BY <1>4, <1>6 DEF Coming
<1>10. \A k \in DOMAIN s.results : FALSE
  BY <1>1, <1>2 DEF BuildInv
<1>11. BuildInv(state)
  BY <1>1, <1>2, <1>4, <1>5, <1>6, <1>8, <1>9, <1>10 DEF BuildInv
<1>12. QED
  BY <1>1, <1>7, <1>11, StepOfBuild

\* A batch that is answered is still to come, until it is collected.
LEMMA EmbedKeepsIndex ==
  ASSUME IndexInv, NEW b \in Build, NEW i \in DOMAIN build[b].batches, EmbedBatch(b, i)
  PROVE  IndexInv'
<1> DEFINE s == build[b]
           state(ok) == [s EXCEPT !.unanswered = @ \ {i}, !.results = Append(@, [batch |-> i, ok |-> ok]),
                           !.cancelled = IF ok THEN @ ELSE TRUE]
<1>1. s \in BuildSet /\ BuildInv(s) /\ s.pc \in {"embed", "flush", "writing"} /\ i \in s.unanswered
  BY DEF EmbedBatch, InFlight, IndexInv, IndexTypes
<1>2. /\ file' \in CacheSet /\ Sound(file'.items) /\ (scenario' = scenario \/ Spend("faults"))
      /\ \E ok \in BOOLEAN : Set(b, state(ok))
  <2>1. [s EXCEPT !.unanswered = @ \ {i}, !.results = Append(@, [batch |-> i, ok |-> TRUE])] = state(TRUE)
    BY <1>1 DEF BuildSet
  <2>2. [s EXCEPT !.unanswered = @ \ {i}, !.results = Append(@, [batch |-> i, ok |-> FALSE]), !.cancelled = TRUE]
          = state(FALSE)
    BY <1>1 DEF BuildSet
  <2>3. QED
    BY <2>1, <2>2 DEF EmbedBatch, IndexInv, IndexTypes
<1>3. PICK ok \in BOOLEAN : Set(b, state(ok))
  BY <1>2
<1> DEFINE new == state(ok)
<1> HIDE DEF s
<1>4. i \in Nat /\ s.results \in Seq([batch : Nat, ok : BOOLEAN]) /\ [batch |-> i, ok |-> ok] \in [batch : Nat, ok : BOOLEAN]
  BY <1>1 DEF BuildSet
<1>5. /\ new.pc = s.pc /\ new.items = s.items /\ new.scanned = s.scanned /\ new.answer = s.answer
      /\ new.read = s.read /\ new.reused = s.reused /\ new.batches = s.batches
      /\ new.unanswered = s.unanswered \ {i} /\ new.results = Append(s.results, [batch |-> i, ok |-> ok])
      /\ s.cancelled => new.cancelled
  BY <1>1 DEF BuildSet
<1>6. Append(s.results, [batch |-> i, ok |-> ok]) \in Seq([batch : Nat, ok : BOOLEAN])
  BY <1>4
<1>7. new \in BuildSet
  BY <1>1, <1>6 DEF BuildSet
<1> HIDE DEF new, state
<1>8. /\ Len(new.results) = Len(s.results) + 1 /\ Len(s.results) \in Nat
      /\ DOMAIN new.results = 1..Len(new.results) /\ DOMAIN s.results = 1..Len(s.results)
      /\ \A k \in DOMAIN s.results : new.results[k] = s.results[k]
      /\ new.results[Len(new.results)].batch = i
  BY <1>4, <1>5
<1>9. \A k \in DOMAIN new.results : new.results[k].batch \in DOMAIN new.batches
  <2>1. \A k \in DOMAIN s.results : s.results[k].batch \in DOMAIN s.batches
    BY <1>1 DEF BuildInv
  <2>2. \A k \in DOMAIN new.results : k \in DOMAIN s.results \/ k = Len(new.results)
    BY <1>8
  <2>3. i \in DOMAIN s.batches
    BY <1>1 DEF BuildInv
  <2>4. QED
    BY <1>5, <1>8, <2>1, <2>2, <2>3
<1>10. ASSUME NEW n \in s.scanned, Coming(s, n) PROVE Coming(new, n)
  <2>1. PICK j \in DOMAIN s.batches :
          n \in s.batches[j] /\ (j \in s.unanswered \/ \E k \in DOMAIN s.results : s.results[k].batch = j)
    BY <1>10 DEF Coming
  <2>2. CASE j = i
    <3>1. Len(new.results) \in DOMAIN new.results
      BY <1>8
    <3>2. QED
      BY <1>5, <1>8, <2>1, <2>2, <3>1 DEF Coming
  <2>3. CASE j # i /\ j \in s.unanswered
    BY <1>5, <2>1, <2>3 DEF Coming
  <2>4. CASE \E k \in DOMAIN s.results : s.results[k].batch = j
    <3>1. PICK k \in DOMAIN s.results : s.results[k].batch = j
      BY <2>4
    <3>2. k \in DOMAIN new.results /\ new.results[k].batch = j
      BY <1>8, <3>1
    <3>3. QED
      BY <1>5, <2>1, <3>2 DEF Coming
  <2>5. QED
    BY <2>1, <2>2, <2>3, <2>4
<1>11. \A n \in s.scanned : new.cancelled \/ Done(new, n) \/ Coming(new, n)
  BY <1>1, <1>5, <1>10 DEF BuildInv, Done
<1>12. BuildInv(new)
  BY <1>1, <1>5, <1>9, <1>11 DEF BuildInv
<1>13. Set(b, new)
  BY <1>3 DEF new
<1>14. QED
  BY <1>2, <1>7, <1>12, <1>13, StepOfBuild

LEMMA DropKeepsIndex ==
  ASSUME IndexInv, NEW b \in Build, DropBatches(b) \/ CancelBuild(b)
  PROVE  IndexInv'
<1> DEFINE s == build[b]
<1>1. s \in BuildSet /\ BuildInv(s) /\ InFlight(b) \subseteq s.unanswered /\ s.pc # "off"
  BY DEF DropBatches, CancelBuild, InFlight, IndexInv, IndexTypes
<1>2. file' \in CacheSet /\ Sound(file'.items) /\ (scenario' = scenario \/ Spend("cancels"))
  BY DEF DropBatches, CancelBuild, IndexInv, IndexTypes
<1>3. PICK new : /\ Set(b, new)
                 /\ \/ new = [s EXCEPT !.unanswered = InFlight(b)] /\ s.cancelled /\ s.pc \in {"embed", "flush", "writing"}
                    \/ new = [s EXCEPT !.cancelled = TRUE]
  BY DEF DropBatches, CancelBuild
<1> HIDE DEF s
<1>4. new \in BuildSet
  BY <1>1, <1>3 DEF BuildSet
<1>5. /\ new.pc = s.pc /\ new.items = s.items /\ new.scanned = s.scanned /\ new.answer = s.answer
      /\ new.read = s.read /\ new.reused = s.reused /\ new.batches = s.batches /\ new.results = s.results
      /\ new.cancelled /\ new.unanswered \subseteq s.unanswered
  BY <1>1, <1>3 DEF BuildSet
<1>6. \A n \in Note : Done(new, n) <=> Done(s, n)
  BY <1>5 DEF Done
<1>7. s.scanned \subseteq Note
  BY <1>1 DEF BuildSet
<1>8. BuildInv(new)
  BY <1>1, <1>5, <1>6, <1>7 DEF BuildInv
<1>9. QED
  BY <1>2, <1>3, <1>4, <1>8, StepOfBuild

LEMMA CollectKeepsIndex == ASSUME IndexInv, NEW b \in Build, CollectBatch(b) PROVE IndexInv'
<1> DEFINE s == build[b]
           first == Head(s.results)
           notes == s.batches[first.batch]
           items == [n \in Note |-> IF n \in notes THEN [hash |-> s.read[n], vector |-> Embedded(s.read[n])] ELSE s.items[n]]
           pc == IF (s.collected + 1) % FlushEvery = 0 THEN "flush" ELSE "embed"
           new == [s EXCEPT !.items = items, !.results = Tail(s.results), !.collected = s.collected + 1, !.pc = pc]
<1>1. /\ file' \in CacheSet /\ Sound(file'.items) /\ scenario' = scenario
      /\ s.pc = "embed" /\ s.results # <<>>
      /\ s \in BuildSet /\ BuildInv(s)
  BY DEF CollectBatch, IndexInv, IndexTypes
<1>2. CASE End(b, "failed")
  BY <1>1, <1>2, EndOfBuild
<1>3. CASE Set(b, new)
  <2> HIDE DEF s
  <2>1. s.results \in Seq([batch : Nat, ok : BOOLEAN])
    BY <1>1 DEF BuildSet
  <2>2. /\ first = s.results[1] /\ 1 \in DOMAIN s.results /\ first.batch \in DOMAIN s.batches
        /\ Tail(s.results) \in Seq([batch : Nat, ok : BOOLEAN])
    BY <1>1, <2>1 DEF BuildInv
  <2>3. notes \subseteq s.scanned /\ s.scanned \subseteq Note
    BY <1>1, <2>2 DEF BuildInv, BuildSet
  <2>4. items \in [Note -> ItemSet]
    BY <1>1 DEF BuildSet, ItemSet, Embedded
  <2>5. s.collected + 1 \in Nat /\ pc \in {"flush", "embed"}
    BY <1>1 DEF BuildSet
  <2> HIDE DEF items, pc
  <2>6. /\ new.pc = pc /\ new.items = items /\ new.scanned = s.scanned /\ new.answer = s.answer
        /\ new.read = s.read /\ new.reused = s.reused /\ new.batches = s.batches
        /\ new.unanswered = s.unanswered /\ new.results = Tail(s.results) /\ new.cancelled = s.cancelled
    BY <1>1 DEF BuildSet
  <2>7. new \in BuildSet
    BY <1>1, <2>2, <2>4, <2>5 DEF BuildSet
  <2> HIDE DEF new
  <2>8. /\ \A n \in notes : Done(new, n)
        /\ \A n \in Note \ notes : items[n] = s.items[n]
    BY <2>3, <2>6 DEF items, Done, Embedded
  <2>9. \A n \in Note : Done(s, n) => Done(new, n)
    BY <2>6, <2>8 DEF Done
  <2>10. Sound(items)
    <3>1. \A n \in notes : items[n] = [hash |-> s.read[n], vector |-> s.read[n]]
      BY <2>6, <2>8 DEF Done
    <3>2. \A n \in Note : s.items[n].vector = s.items[n].hash
      BY <1>1 DEF BuildInv, Sound
    <3>3. ASSUME NEW n \in Note PROVE items[n].vector = items[n].hash
      <4>1. CASE n \in notes
        <5>1. items[n] = [hash |-> s.read[n], vector |-> s.read[n]]
          BY <3>1, <4>1
        <5>2. QED
          BY <5>1
      <4>2. CASE n \notin notes
        BY <2>8, <3>2, <4>2
      <4>3. QED
        BY <4>1, <4>2
    <3>4. QED
      BY <3>3 DEF Sound
  <2>11. /\ DOMAIN s.results = 1..Len(s.results) /\ Len(s.results) \in Nat /\ Len(s.results) >= 1
         /\ DOMAIN Tail(s.results) = 1..(Len(s.results) - 1)
         /\ \A k \in DOMAIN Tail(s.results) : k + 1 \in DOMAIN s.results /\ Tail(s.results)[k] = s.results[k + 1]
    BY <1>1, <2>1
  <2>12. \A k \in DOMAIN new.results : new.results[k].batch \in DOMAIN new.batches
    BY <1>1, <2>6, <2>11 DEF BuildInv
  <2>13. ASSUME NEW n \in s.scanned, Coming(s, n) PROVE Done(new, n) \/ Coming(new, n)
    <3>1. PICK j \in DOMAIN s.batches :
            n \in s.batches[j] /\ (j \in s.unanswered \/ \E k \in DOMAIN s.results : s.results[k].batch = j)
      BY <2>13 DEF Coming
    <3>2. CASE j \in s.unanswered
      BY <2>6, <3>1, <3>2 DEF Coming
    <3>3. CASE \E k \in DOMAIN s.results : s.results[k].batch = j
      <4>1. PICK k \in DOMAIN s.results : s.results[k].batch = j
        BY <3>3
      <4>2. CASE k = 1
        BY <2>2, <2>8, <3>1, <4>1, <4>2
      <4>3. CASE k # 1
        <5>1. k - 1 \in DOMAIN new.results /\ new.results[k - 1].batch = j
          BY <2>6, <2>11, <4>1, <4>3
        <5>2. QED
          BY <2>6, <3>1, <5>1 DEF Coming
      <4>4. QED
        BY <4>2, <4>3
    <3>4. QED
      BY <3>1, <3>2, <3>3
  <2>14. \A n \in s.scanned : new.cancelled \/ Done(new, n) \/ Coming(new, n)
    BY <1>1, <2>3, <2>6, <2>9, <2>13 DEF BuildInv
  <2>15. \A n \in Note \ s.scanned : new.items[n] = NoItem
    BY <1>1, <2>3, <2>6, <2>8 DEF BuildInv
  <2>16. BuildInv(new)
    BY <1>1, <2>5, <2>6, <2>10, <2>12, <2>14, <2>15 DEF BuildInv
  <2>17. QED
    BY <1>1, <1>3, <2>7, <2>16, StepOfBuild
<1>4. QED
  BY <1>2, <1>3 DEF CollectBatch

\* With nothing unanswered and nothing to collect, nothing is to come.
LEMMA AllCollectedKeepsIndex == ASSUME IndexInv, NEW b \in Build, AllCollected(b) PROVE IndexInv'
<1> DEFINE s == build[b]
           new == [s EXCEPT !.pc = "save"]
<1>1. /\ file' \in CacheSet /\ Sound(file'.items) /\ scenario' = scenario
      /\ s.pc = "embed" /\ s.unanswered = {} /\ s.results = <<>>
      /\ s \in BuildSet /\ BuildInv(s)
  BY DEF AllCollected, IndexInv, IndexTypes
<1>2. CASE End(b, "failed")
  BY <1>1, <1>2, EndOfBuild
<1>3. CASE Set(b, new) /\ ~s.cancelled
  <2> HIDE DEF s
  <2>1. new \in BuildSet
    BY <1>1 DEF BuildSet
  <2>2. /\ new.pc = "save" /\ new.items = s.items /\ new.scanned = s.scanned /\ new.answer = s.answer
        /\ new.read = s.read
    BY <1>1 DEF BuildSet
  <2>3. \A n \in s.scanned : ~Coming(s, n)
    BY <1>1 DEF Coming
  <2>4. \A n \in s.scanned : Done(new, n)
    BY <1>1, <1>3, <2>2, <2>3 DEF BuildInv, Done
  <2>5. BuildInv(new)
    BY <1>1, <2>2, <2>4 DEF BuildInv
  <2>6. QED
    BY <1>1, <1>3, <2>1, <2>5, StepOfBuild
<1>4. QED
  BY <1>2, <1>3 DEF AllCollected

LEMMA NothingIsSound == Torn \in CacheSet /\ Sound(Torn.items)
<1>1. NoItem \in ItemSet /\ NoItem.hash = NoItem.vector
  BY TextsAreTexts DEF NoItem, ItemSet
<1>2. QED
  BY <1>1 DEF Torn, CacheSet, Sound

LEMMA TruncateKeepsIndex == ASSUME IndexInv, NEW b \in Build, Truncate(b) PROVE IndexInv'
<1> DEFINE s == build[b]
           new == [s EXCEPT !.pc = IF s.pc = "flush" THEN "writing" ELSE "closing"]
<1>1. s.pc \in {"flush", "save"} /\ s \in BuildSet /\ BuildInv(s)
  BY DEF Truncate, IndexInv, IndexTypes
<1>2. CASE Spend("faults") /\ End(b, "failed") /\ file' = file
  BY <1>2, EndOfBuild DEF IndexInv, IndexTypes
<1>3. CASE Set(b, new) /\ file' = Torn /\ scenario' = scenario
  <2> HIDE DEF s
  <2>1. new \in BuildSet
    BY <1>1 DEF BuildSet
  <2>2. /\ new.pc = (IF s.pc = "flush" THEN "writing" ELSE "closing")
        /\ new.items = s.items /\ new.scanned = s.scanned /\ new.answer = s.answer
        /\ new.read = s.read /\ new.reused = s.reused /\ new.batches = s.batches
        /\ new.unanswered = s.unanswered /\ new.results = s.results /\ new.cancelled = s.cancelled
    BY <1>1 DEF BuildSet
  <2>3. \A n \in Note : (Done(new, n) <=> Done(s, n)) /\ (Coming(new, n) <=> Coming(s, n))
    BY <2>2 DEF Done, Coming
  <2>4. s.scanned \subseteq Note
    BY <1>1 DEF BuildSet
  <2> HIDE DEF new
  <2>5. CASE s.pc = "flush"
    <3>1. BuildInv(new)
      BY <1>1, <2>2, <2>3, <2>4, <2>5 DEF BuildInv
    <3>2. QED
      BY <1>3, <2>1, <3>1, NothingIsSound, StepOfBuild
  <2>6. CASE s.pc = "save"
    <3>1. BuildInv(new)
      BY <1>1, <2>2, <2>3, <2>4, <2>6 DEF BuildInv
    <3>2. QED
      BY <1>3, <2>1, <3>1, NothingIsSound, StepOfBuild
  <2>7. QED
    BY <1>1, <2>5, <2>6
<1>4. QED
  BY <1>2, <1>3 DEF Truncate

LEMMA WriteKeepsIndex == ASSUME IndexInv, NEW b \in Build, WriteFile(b) PROVE IndexInv'
<1> DEFINE s == build[b]
           new == [s EXCEPT !.pc = "embed"]
<1>1. s.pc \in {"writing", "closing"} /\ s \in BuildSet /\ BuildInv(s)
  BY DEF WriteFile, Writing, IndexInv, IndexTypes
<1>2. /\ file' \in {file, Torn, Saved(s.items)} /\ (scenario' = scenario \/ Spend("faults"))
      /\ End(b, "ok") \/ End(b, "failed") \/ (s.pc = "writing" /\ Set(b, new))
  BY <1>1 DEF WriteFile
<1>3. file' \in CacheSet /\ Sound(file'.items)
  <2>1. Saved(s.items) \in CacheSet /\ Saved(s.items).items = s.items
    BY <1>1 DEF Saved, CacheSet, BuildSet
  <2>2. Sound(s.items)
    BY <1>1 DEF BuildInv
  <2>3. QED
    BY <1>2, <2>1, <2>2, NothingIsSound DEF IndexInv, IndexTypes
<1>4. CASE End(b, "ok") \/ End(b, "failed")
  BY <1>2, <1>3, <1>4, EndOfBuild
<1>5. CASE s.pc = "writing" /\ Set(b, new)
  <2> HIDE DEF s
  <2>1. new \in BuildSet
    BY <1>1 DEF BuildSet
  <2>2. /\ new.pc = "embed" /\ new.items = s.items /\ new.scanned = s.scanned /\ new.answer = s.answer
        /\ new.read = s.read /\ new.reused = s.reused /\ new.batches = s.batches
        /\ new.unanswered = s.unanswered /\ new.results = s.results /\ new.cancelled = s.cancelled
    BY <1>1 DEF BuildSet
  <2>3. \A n \in Note : (Done(new, n) <=> Done(s, n)) /\ (Coming(new, n) <=> Coming(s, n))
    BY <2>2 DEF Done, Coming
  <2>4. s.scanned \subseteq Note
    BY <1>1 DEF BuildSet
  <2> HIDE DEF new
  <2>5. BuildInv(new)
    BY <1>1, <1>5, <2>2, <2>3, <2>4 DEF BuildInv
  <2>6. QED
    BY <1>2, <1>3, <1>5, <2>1, <2>5, StepOfBuild
<1>6. QED
  BY <1>2, <1>4, <1>5

LEMMA IndexKept == IndexInv /\ MetadataTypes /\ [ZettelNext]_zettelVars => IndexInv'
<1> SUFFICES ASSUME IndexInv, MetadataTypes, [ZettelNext]_zettelVars PROVE IndexInv'
  OBVIOUS
<1>1. CASE IndexStep
  BY <1>1, ReadKeepsIndex, EmbedKeepsIndex, StartKeepsIndex, DropKeepsIndex, CollectKeepsIndex,
     AllCollectedKeepsIndex, TruncateKeepsIndex, WriteKeepsIndex DEF IndexStep
<1>2. CASE \E b \in Build : BeginBuild(b) \/ CancelBuild(b)
  BY <1>2, BeginKeepsIndex, DropKeepsIndex
<1>3. CASE Crash
  <2>1. /\ build' = [b \in Build |-> IF build[b].pc = "off" THEN build[b] ELSE [Idle EXCEPT !.answer = "killed"]]
        /\ file' = file /\ Spend("crashes")
    BY <1>3 DEF Crash, BuildsDie
  <2>2. build' \in [Build -> BuildSet] /\ \A b \in Build : BuildInv(build[b])'
    BY <2>1, IdleHolds DEF IndexInv, IndexTypes
  <2>3. "batch" \in DOMAIN scenario' /\ scenario'.batch \in Nat \ {0}
    BY <2>1, SpendKeepsBatch DEF IndexInv, IndexTypes
  <2>4. QED
    BY <2>1, <2>2, <2>3 DEF IndexInv, IndexTypes
<1>4. ASSUME UNCHANGED indexVars,
             scenario' = scenario \/ Spend("faults") \/ Spend("runs") \/ Spend("cancels") \/ Spend("edits")
      PROVE  IndexInv'
  <2>1. "batch" \in DOMAIN scenario' /\ scenario'.batch \in Nat \ {0}
    BY <1>4, SpendKeepsBatch DEF IndexInv, IndexTypes
  <2>2. QED
    BY <1>4, <2>1 DEF IndexInv, IndexTypes, indexVars
<1>5. CASE MetadataStep /\ UNCHANGED indexVars
  <2>1. scenario' = scenario \/ Spend("faults")
    <3>1. ASSUME NEW n \in Note,
                 \/ Take(n) \/ Answer(n) \/ NoAnswer(n) \/ Rejected(n) \/ OpenManifest(n) \/ Exchange(n) \/ ExchangeFails(n)
                 \/ WriteNote(n) \/ Item(n) \/ ItemFails(n)
          PROVE  scenario' = scenario \/ Spend("faults")
      BY <3>1 DEF Take, Answer, NoAnswer, Rejected, OpenManifest, Exchange, ExchangeFails, WriteNote, Item, ItemFails
    <3>2. CASE StopFeeding \/ Finalize
      BY <3>2 DEF StopFeeding, Finalize
    <3>3. QED
      BY <1>5, <3>1, <3>2 DEF MetadataStep
  <2>2. QED
    BY <1>4, <1>5, <2>1
<1>6. CASE (Generate \/ CancelRun \/ \E n \in Note : Edit(n)) /\ UNCHANGED indexVars
  BY <1>4, <1>6 DEF Generate, CancelRun, Edit
<1>7. CASE UNCHANGED zettelVars
  BY <1>4, <1>7 DEF zettelVars
<1>8. QED
  BY <1>1, <1>2, <1>3, <1>5, <1>6, <1>7 DEF ZettelNext, Jobs, Others

\* The only way for a build at work to answer ok is its last write.
LEMMA OnlyTheLastWriteEndsWell ==
  ASSUME IndexInv, [ZettelNext]_zettelVars, NEW b \in Build, build[b].pc # "off", build'[b].answer = "ok"
  PROVE  WriteFile(b) /\ build[b].pc = "closing" /\ (Writing = {b} => file' = Saved(build[b].items))
<1>1. build[b] \in BuildSet /\ build[b].answer = "none" /\ build \in [Build -> BuildSet]
  BY DEF IndexInv, IndexTypes, BuildInv
<1>2. ASSUME NEW c \in Build, NEW state, Set(c, state) PROVE c = b /\ build'[b] = state
  <2>1. build' = [build EXCEPT ![c] = state]
    BY <1>2 DEF Set
  <2>2. c = b
    BY <1>1, <2>1
  <2>3. QED
    BY <1>1, <2>1, <2>2
<1>3. [Idle EXCEPT !.answer = "failed"].answer = "failed" /\ [Idle EXCEPT !.answer = "killed"].answer = "killed"
  BY DEF Idle
<1>4. ASSUME NEW c \in Build, End(c, "failed") PROVE FALSE
  BY <1>2, <1>3, <1>4 DEF End
<1>5. build' # build
  BY <1>1
<1>6. ASSUME NEW c \in Build, WriteFile(c)
      PROVE  WriteFile(b) /\ build[b].pc = "closing" /\ (Writing = {b} => file' = Saved(build[b].items))
  <2>1. \/ End(c, "ok") /\ build[c].pc = "closing" /\ (Writing = {c} => file' = Saved(build[c].items))
        \/ Set(c, [build[c] EXCEPT !.pc = "embed"])
        \/ End(c, "failed")
    BY <1>6 DEF WriteFile, Writing
  <2>2. ASSUME Set(c, [build[c] EXCEPT !.pc = "embed"]) PROVE FALSE
    <3>1. c = b /\ build'[b] = [build[b] EXCEPT !.pc = "embed"]
      BY <1>2, <2>2
    <3>2. [build[b] EXCEPT !.pc = "embed"].answer = "none"
      BY <1>1 DEF BuildSet
    <3>3. QED
      BY <3>1, <3>2
  <2>3. End(c, "ok") => c = b
    BY <1>2 DEF End
  <2>4. QED
    BY <1>4, <1>6, <2>1, <2>2, <2>3
<1>7. ASSUME NEW c \in Build, NEW n \in Note, ReadNote(c, n) PROVE FALSE
  <2> DEFINE new == [build[c] EXCEPT !.read[n] = note[n],
                       !.reused = IF Reused(build[c].items[n], note[n]) THEN @ \cup {n} ELSE @]
  <2>1. Set(c, new)
    BY <1>4, <1>7 DEF ReadNote
  <2>2. c = b => new.answer = "none"
    BY <1>1 DEF BuildSet
  <2> HIDE DEF new
  <2>3. QED
    BY <1>2, <2>1, <2>2
<1>8. ASSUME NEW c \in Build, NEW i, EmbedBatch(c, i) PROVE FALSE
  <2> DEFINE good == [build[c] EXCEPT !.unanswered = @ \ {i}, !.results = Append(@, [batch |-> i, ok |-> TRUE])]
             bad == [build[c] EXCEPT !.unanswered = @ \ {i}, !.results = Append(@, [batch |-> i, ok |-> FALSE]),
                       !.cancelled = TRUE]
  <2>1. Set(c, good) \/ Set(c, bad)
    BY <1>8 DEF EmbedBatch
  <2>2. c = b => good.answer = "none" /\ bad.answer = "none"
    BY <1>1 DEF BuildSet
  <2> HIDE DEF good, bad
  <2>3. QED
    BY <1>2, <2>1, <2>2
<1>9. ASSUME NEW c \in Build, StartEmbedding(c) PROVE FALSE
  <2> DEFINE batches == Batches(build[c].scanned \ build[c].reused)
             new == [build[c] EXCEPT !.batches = batches, !.unanswered = DOMAIN batches,
                       !.pc = IF batches = <<>> THEN "save" ELSE "embed"]
  <2>1. Set(c, new)
    BY <1>9 DEF StartEmbedding
  <2>2. c = b => new.answer = "none"
    BY <1>1 DEF BuildSet
  <2> HIDE DEF new
  <2>3. QED
    BY <1>2, <2>1, <2>2
<1>10. ASSUME NEW c \in Build, CollectBatch(c) PROVE FALSE
  <2> DEFINE s == build[c]
             notes == s.batches[Head(s.results).batch]
             new == [s EXCEPT
                !.items = [n \in Note |-> IF n \in notes THEN [hash |-> s.read[n], vector |-> Embedded(s.read[n])] ELSE @[n]],
                !.results = Tail(@), !.collected = @ + 1,
                !.pc = IF (s.collected + 1) % FlushEvery = 0 THEN "flush" ELSE "embed"]
  <2>1. Set(c, new)
    BY <1>4, <1>10 DEF CollectBatch
  <2>2. c = b => new.answer = "none"
    BY <1>1 DEF BuildSet
  <2> HIDE DEF new
  <2>3. QED
    BY <1>2, <2>1, <2>2
<1>11. ASSUME NEW c \in Build, DropBatches(c) \/ CancelBuild(c) \/ AllCollected(c) \/ Truncate(c) PROVE FALSE
  <2>1. \E new : /\ Set(c, new)
                 /\ \/ new = [build[c] EXCEPT !.unanswered = InFlight(c)]
                    \/ new = [build[c] EXCEPT !.cancelled = TRUE]
                    \/ \E pc \in {"save", "writing", "closing"} : new = [build[c] EXCEPT !.pc = pc]
    <3>1. CASE Truncate(c)
      <4>1. CASE build[c].pc = "flush"
        BY <1>4, <3>1, <4>1 DEF Truncate
      <4>2. CASE build[c].pc # "flush"
        BY <1>4, <3>1, <4>2 DEF Truncate
      <4>3. QED
        BY <4>1, <4>2
    <3>2. CASE DropBatches(c) \/ CancelBuild(c) \/ AllCollected(c)
      BY <1>4, <3>2 DEF DropBatches, CancelBuild, AllCollected
    <3>3. QED
      BY <1>11, <3>1, <3>2
  <2>2. PICK new : /\ Set(c, new)
                   /\ \/ new = [build[c] EXCEPT !.unanswered = InFlight(c)]
                      \/ new = [build[c] EXCEPT !.cancelled = TRUE]
                      \/ \E pc \in {"save", "writing", "closing"} : new = [build[c] EXCEPT !.pc = pc]
    BY <2>1
  <2>3. c = b => new.answer = "none"
    BY <1>1, <2>2 DEF BuildSet
  <2>4. QED
    BY <1>2, <2>2, <2>3
<1>12. ASSUME NEW c \in Build, BeginBuild(c) PROVE FALSE
  <2>1. build[c].pc = "off" /\ \E new : Set(c, new)
    BY <1>12 DEF BeginBuild, End
  <2>2. c = b
    BY <1>2, <2>1
  <2>3. QED
    BY <2>1, <2>2
<1>13. ASSUME Crash PROVE FALSE
  BY <1>1, <1>3, <1>13 DEF Crash, BuildsDie
<1>14. ASSUME UNCHANGED indexVars PROVE FALSE
  BY <1>5, <1>14 DEF indexVars
<1>15. CASE IndexStep
  BY <1>6, <1>7, <1>8, <1>9, <1>10, <1>11, <1>15 DEF IndexStep
<1>16. QED
  BY <1>11, <1>12, <1>13, <1>14, <1>15 DEF ZettelNext, Jobs, Others, zettelVars, indexVars

\* A build that ends well alone leaves a file that answers for every note.
THEOREM IndexAlwaysCurrent == ZettelSpec => IndexCurrent
<1>1. ASSUME IndexInv, [ZettelNext]_zettelVars,
             NEW b \in Build, build[b].pc # "off", build'[b].answer = "ok",
             \A c \in Build \ {b} : build[c].pc = "off"
      PROVE  /\ Parses(file')
             /\ \A n \in Note :
                  IF n \in build[b].scanned THEN file'.items[n] = [hash |-> build[b].read[n], vector |-> build[b].read[n]]
                  ELSE file'.items[n] = NoItem
             /\ \A n \in Note : Similar(file', n) = {m \in build[b].scanned \ {n} : note[m] # Gone}
  <2> DEFINE s == build[b]
  <2>1. s.pc = "closing" /\ file' = Saved(s.items)
    <3>1. WriteFile(b) /\ s.pc = "closing" /\ (Writing = {b} => file' = Saved(s.items))
      BY <1>1, OnlyTheLastWriteEndsWell
    <3>2. Writing = {b}
      BY <1>1, <3>1 DEF Writing
    <3>3. QED
      BY <3>1, <3>2
  <2>2. s \in BuildSet /\ BuildInv(s)
    BY <1>1 DEF IndexInv, IndexTypes
  <2> HIDE DEF s
  <2>3. file'.items = s.items /\ Parses(file')
    BY <2>1 DEF Saved, Parses
  <2>4. /\ \A n \in s.scanned : s.items[n] = [hash |-> s.read[n], vector |-> s.read[n]] /\ s.read[n] # Gone
        /\ \A n \in Note \ s.scanned : s.items[n] = NoItem
        /\ s.scanned \subseteq Note
    <3>1. s.scanned \subseteq Note
      BY <2>2 DEF BuildSet
    <3>2. \A n \in Note \ s.scanned : s.items[n] = NoItem
      BY <2>1, <2>2 DEF BuildInv
    <3>3. \A n \in s.scanned : s.read[n] # Gone
      BY <2>1, <2>2 DEF BuildInv
    <3>4. \A n \in s.scanned : Done(s, n)
      BY <2>1, <2>2 DEF BuildInv
    <3>5. \A n \in s.scanned : s.items[n] = [hash |-> s.read[n], vector |-> s.read[n]]
      BY <3>4 DEF Done
    <3>6. QED
      BY <3>1, <3>2, <3>3, <3>5
  <2>5. \A n \in s.scanned : s.items[n] # NoItem
    <3>1. NoItem.hash = Gone
      BY DEF NoItem
    <3>2. ASSUME NEW n \in s.scanned PROVE s.items[n] # NoItem
      <4>1. s.items[n] = [hash |-> s.read[n], vector |-> s.read[n]] /\ s.read[n] # Gone
        BY <2>4
      <4>2. s.items[n].hash = s.read[n]
        BY <4>1
      <4>3. QED
        BY <3>1, <4>1, <4>2
    <3>3. QED
      BY <3>2
  <2>6. \A n \in Note : Candidates(s.items, n) = {m \in s.scanned \ {n} : note[m] # Gone}
    BY <2>4, <2>5 DEF Candidates
  <2>7. \A n \in Note : Similar(file', n) = Candidates(s.items, n)
    BY <2>3 DEF Similar
  <2>8. QED
    BY <2>3, <2>4, <2>6, <2>7 DEF s
<1>2. IndexInv /\ [ZettelNext]_zettelVars =>
        [\A b \in Build :
           (build[b].pc # "off" /\ build'[b].answer = "ok" /\ \A c \in Build \ {b} : build[c].pc = "off") =>
             /\ Parses(file')
             /\ \A n \in Note :
                  IF n \in build[b].scanned THEN file'.items[n] = [hash |-> build[b].read[n], vector |-> build[b].read[n]]
                  ELSE file'.items[n] = NoItem
             /\ \A n \in Note : Similar(file', n) = {m \in build[b].scanned \ {n} : note[m] # Gone}]_indexVars
  BY <1>1
<1>3. MetadataInv => MetadataTypes
  BY DEF MetadataInv
<1>4. QED
  BY <1>2, <1>3, InitIndex, IndexKept, InitMetadata, MetadataKept, PTL DEF ZettelSpec, IndexCurrent

=============================================================================
