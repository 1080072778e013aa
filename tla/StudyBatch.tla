----------------------------- MODULE StudyBatch -----------------------------
(***************************************************************************)
(* Study batches (studyapi): a request makes rows for a batch and its      *)
(* copies, reads the copies once, and a pool of workers takes each copy    *)
(* through OCR, analysis and the study tables, while clients import, edit, *)
(* view and sync the same copies and other batches work on them.  The      *)
(* store is one SQLite connection: a statement, and the transaction that   *)
(* replaces a copy's tables, is atomic.  Of a copy the model keeps whether *)
(* it holds pages or an analysis; of a review its status.                  *)
(***************************************************************************)
EXTENDS Naturals, Sequences, FiniteSets, Functions

CONSTANTS
  Batch, Copy,
  Scenario,    \* what may happen: the batches that clients ask for, and the
               \* bounds on failing writes and crashes and on other requests
  Attempts     \* runs of the analysis of one copy (3 in the code)

Request == [copies : Seq(Copy), stage : {"all", "ocr", "metadata"},
            force : BOOLEAN, parallelism : Nat \ {0},
            ownOCR : BOOLEAN]  \* OCR has a model of its own

\* runStudyCopy asks for a batch of one copy.
CopyRequest(c, force, ownOCR) ==
  [copies |-> <<c>>, stage |-> "all", force |-> force, parallelism |-> 1, ownOCR |-> ownOCR]

ASSUME StudyAssumption ==
  /\ IsFiniteSet(Copy)
  /\ \A s \in Scenario :
       /\ s.ask \in [Batch -> Request] /\ s.faults \in Nat /\ s.visits \in [Copy -> Nat]
       /\ \A b \in Batch : IsInjective(s.ask[b].copies)
  /\ Attempts \in Nat \ {0}

VARIABLES
  row,        \* study_batches: status and counts
  item,       \* study_batch_items: status of each copy of a batch
  copy,       \* study_copies: one row per copy
  tables,     \* what study_pages, study_questions and study_analyses hold
  review,     \* topper_reviews: the status of the copy's archived review
  phase,      \* where the run of a batch is
  request,    \* what the batch was asked
  work,       \* a batch's worker on a copy
  snap,       \* the copy rows a batch read when it was prepared
  tally,      \* the counts the collector of a batch holds
  client,     \* the request in flight about a copy
  cancelled,  \* batches whose job context was cancelled
  broken,     \* batches that lost a write to the store
  faults, visits  \* what is left of the bounds

stored == <<row, item, copy, tables, review>>
running == <<phase, request, work, snap, tally>>
outside == <<client, visits>>
trouble == <<cancelled, broken, faults>>
studyVars == <<stored, running, outside, trouble>>
-----------------------------------------------------------------------------
NoRow == [status |-> "none", completed |-> 0, failed |-> 0]
Imported == [status |-> "imported", counted |-> FALSE, described |-> FALSE, outdated |-> FALSE]
Fresh == [at |-> "none", result |-> "none", pages |-> FALSE, ocrs |-> 0, try |-> 1, read |-> "nothing"]
Idle == [kind |-> "none"]

Hands == {"look", "ocr", "unload", "analyse", "split", "save", "store", "meta", "describe",
          "questions", "end"}
Answered == {"sent", "counted"}
Ended == {"completed", "failed", "partial_failed"}

CopiesOf(b) == Range(request[b].copies)
Total(b) == Len(request[b].copies)
In(b, places) == {c \in Copy : work[b][c].at \in places}

\* studyBatchWorkerAllocation: workers on copies, and models in each.
CopyWorkers(parallelism, copies) == IF parallelism < copies THEN parallelism ELSE copies
ModelWorkers(parallelism, copies) == parallelism \div CopyWorkers(parallelism, copies)
Workers(b) == CopyWorkers(request[b].parallelism, Total(b))

\* isCompleteTopperReview (mutant: any review), the statuses a checkpoint is
\* loaded from, shouldSkipStudyBatchCopy and shouldSyncStudyCopy.
CompleteAny(r) == r # "none"
Complete(r) == r = "ready"
Resumable(r) == r \in {"ocr_ready", "needs_review"}
Skips(record) == record.counted /\ record.status = "ready"
ShouldSync(record) == ~record.counted \/ record.status = "imported" \/ record.outdated

\* syncStudyCopyFromMatchingTopper: the archive has a complete review of the
\* copy, and the row at hand is not made of it.
Syncs(c, record) == Complete(review[c]) /\ ShouldSync(record)

\* The copy row and the tables saveStudyFromTopperRecordAsCopy makes of a
\* review.
CopyOf(r) == [status |-> r, counted |-> r # "ocr_ready", described |-> TRUE, outdated |-> FALSE]
TablesOf(r) == IF r = "ocr_ready" THEN "pages" ELSE "analysis"

Init ==
  /\ row = [b \in Batch |-> NoRow]
  /\ item = [b \in Batch |-> [c \in Copy |-> "none"]]
  /\ copy = [c \in Copy |-> Imported]
  /\ tables = [c \in Copy |-> "nothing"]
  /\ review = [c \in Copy |-> "none"]
  /\ phase = [b \in Batch |-> "none"]
  /\ \E s \in Scenario : request = s.ask /\ faults = s.faults /\ visits = s.visits
  /\ work = [b \in Batch |-> [c \in Copy |-> Fresh]]
  /\ snap = [b \in Batch |-> copy]
  /\ tally = [b \in Batch |-> NoRow]
  /\ client = Idle
  /\ cancelled = {} /\ broken = {}
-----------------------------------------------------------------------------
\* Writes of a batch: they fail once its context is cancelled.
Written(b) == b \notin cancelled /\ UNCHANGED <<faults, broken>>
Lost(b) ==
  \/ b \in cancelled /\ UNCHANGED <<faults, broken>>
  \/ /\ b \notin cancelled /\ faults > 0
     /\ faults' = faults - 1 /\ broken' = broken \cup {b}

\* The row of the copy is still to be used by the batch.
Holds(b, c) ==
  /\ phase[b] \in {"prepared", "running"} /\ c \in CopiesOf(b)
  /\ phase[b] = "prepared" \/ work[b][c].at \in {"waiting", "look", "meta", "describe"}

\* SaveTopperReview makes the review newer than every row read so far.
SaveReview(c, r) ==
  /\ review' = [review EXCEPT ![c] = r]
  /\ copy' = [copy EXCEPT ![c].outdated = TRUE]
  /\ snap' = [b \in Batch |-> [snap[b] EXCEPT ![c].outdated = @ \/ Holds(b, c)]]

\* Statements of the store: a record replaces the one of its id, whatever was
\* written since it was read.
SaveStudyCopy(c, record) == copy' = [copy EXCEPT ![c] = record]
SaveStudyBatch(b, record) == row' = [row EXCEPT ![b] = record]
SaveStudyQuestions(c, read) == tables' = [tables EXCEPT ![c] = IF read = "analysis" THEN read ELSE @]
SaveTables(c, kind) == tables' = [tables EXCEPT ![c] = kind]

\* One transaction: the row, and its pages, questions and analyses.
ReplaceStudyCopyResult(c, r) == SaveStudyCopy(c, CopyOf(r)) /\ SaveTables(c, TablesOf(r))

Go(b, c, place) == work' = [work EXCEPT ![b][c].at = place]
Result(b, c, status) == work' = [work EXCEPT ![b][c].at = "end", ![b][c].result = status]
Fail(b, c) == Result(b, c, "failed")
-----------------------------------------------------------------------------
(***************************************************************************)
(* From the request to the run.                                            *)
(***************************************************************************)
QueuedItems(b, saved) ==
  item' = [item EXCEPT ![b] = [c \in Copy |-> IF c \in saved THEN "queued" ELSE item[b][c]]]

\* prepareStudyBatch; an item that cannot be saved leaves a running row that
\* nothing runs.
Prepare(b) ==
  /\ phase[b] = "none" /\ Total(b) > 0
  /\ SaveStudyBatch(b, [NoRow EXCEPT !.status = "running"])
  /\ snap' = [snap EXCEPT ![b] = copy]
  /\ \/ /\ QueuedItems(b, CopiesOf(b))
        /\ phase' = [phase EXCEPT ![b] = "prepared"]
        /\ UNCHANGED <<faults, broken>>
     \/ /\ \E n \in 0..(Total(b) - 1) : QueuedItems(b, {request[b].copies[i] : i \in 1..n})
        /\ phase' = [phase EXCEPT ![b] = "over"]
        /\ faults > 0 /\ faults' = faults - 1 /\ broken' = broken \cup {b}
  /\ UNCHANGED <<copy, tables, review, request, work, tally, outside, cancelled>>

\* startStudyStage saves rows that nothing ever runs.
QueueStage(b) ==
  /\ phase[b] = "none" /\ Total(b) = 1
  /\ SaveStudyBatch(b, [NoRow EXCEPT !.status = "queued"])
  /\ phase' = [phase EXCEPT ![b] = "over"]
  /\ \/ QueuedItems(b, CopiesOf(b)) /\ UNCHANGED <<faults, broken>>
     \/ UNCHANGED item /\ faults > 0 /\ faults' = faults - 1 /\ broken' = broken \cup {b}
  /\ UNCHANGED <<copy, tables, review, request, work, snap, tally, outside, cancelled>>

\* startStudyBatchJob and the head of runStudyBatch.
Launch(b) ==
  /\ phase[b] = "prepared"
  /\ phase' = [phase EXCEPT ![b] = "running"]
  /\ work' = [work EXCEPT ![b] = [c \in Copy |->
               IF c \in CopiesOf(b) THEN [Fresh EXCEPT !.at = "waiting"] ELSE Fresh]]
  /\ UNCHANGED <<stored, request, snap, tally, outside, trouble>>

\* The job cannot be created, or the provider or a model it needs is gone by
\* now: the row stays running.
ResolveFails(b) ==
  /\ phase[b] = "prepared"
  /\ phase' = [phase EXCEPT ![b] = "over"]
  /\ UNCHANGED <<stored, request, work, snap, tally, outside, trouble>>

CancelJob(b) ==
  /\ phase[b] = "running" /\ b \notin cancelled
  /\ cancelled' = cancelled \cup {b}
  /\ UNCHANGED <<stored, running, outside, broken, faults>>

\* The feeder hands the copies out in order; once the context is cancelled
\* it may stop or go on.
NextCopy(b, c) ==
  \E i \in 1..Total(b) :
    /\ c = request[b].copies[i]
    /\ \A j \in 1..(i - 1) : work[b][request[b].copies[j]].at # "waiting"

\* runStudyBatchCopy begins: without its running row a copy has failed.
Take(b, c) ==
  /\ phase[b] = "running" /\ work[b][c].at = "waiting"
  /\ NextCopy(b, c)
  /\ Cardinality(In(b, Hands)) < Workers(b)
  /\ \/ Written(b) /\ item' = [item EXCEPT ![b][c] = "running"] /\ Go(b, c, "look")
     \/ Lost(b) /\ UNCHANGED item
        /\ work' = [work EXCEPT ![b][c].at = "sent", ![b][c].result = "failed"]
  /\ UNCHANGED <<row, copy, tables, review, phase, request, snap, tally, outside, cancelled>>

At(b, c, place) == phase[b] = "running" /\ work[b][c].at = place
-----------------------------------------------------------------------------
(***************************************************************************)
(* A worker and its copy (analyzeStudyBatchCopy).                          *)
(***************************************************************************)
\* Where a copy that is not skipped goes, with the pages of its checkpoint.
Begin(b, c) ==
  LET pages == ~request[b].force /\ Resumable(review[c])
      place == IF request[b].stage = "ocr" THEN IF pages THEN "end" ELSE "ocr"
               ELSE IF ~request[b].ownOCR THEN "analyse"
               ELSE IF pages THEN "unload" ELSE "ocr"
  IN work' = [work EXCEPT ![b][c].at = place, ![b][c].pages = pages,
                          ![b][c].result = IF place = "end" THEN "ready" ELSE "none"]

\* A copy without a source path, or whose review cannot be read, fails; a
\* finished copy is skipped by the row the batch read when it was prepared,
\* or taken from a complete review that is newer.
LookForAnalysis(b, c) ==
  LET seen == snap[b][c]
      skip == ~request[b].force /\ Skips(seen)
      sync == ~request[b].force /\ ~skip /\ Syncs(c, seen) IN
  \/ skip /\ Result(b, c, "ready") /\ UNCHANGED <<copy, tables, faults, broken>>
  \/ sync /\ Written(b) /\ ReplaceStudyCopyResult(c, review[c]) /\ Result(b, c, "ready")
  \/ ~skip /\ ~sync /\ Written(b) /\ Begin(b, c) /\ UNCHANGED <<copy, tables>>
  \/ ~skip /\ Lost(b) /\ Fail(b, c) /\ UNCHANGED <<copy, tables>>
  \/ Fail(b, c) /\ UNCHANGED <<copy, tables, faults, broken>>

\* generateStudyBatchMetadata needs saved text, and an unforced run keeps
\* metadata that is there.
LookForText(b, c) ==
  /\ \/ /\ Written(b)
        /\ IF ~request[b].force /\ snap[b][c].described THEN Result(b, c, "ready")
           ELSE IF tables[c] = "nothing" THEN Fail(b, c)
           ELSE work' = [work EXCEPT ![b][c].at = "meta", ![b][c].read = tables[c]]
     \/ Lost(b) /\ Fail(b, c)
  /\ UNCHANGED <<copy, tables>>

\* An analysis looks at that row no more.
Look(b, c) ==
  /\ At(b, c, "look")
  /\ IF request[b].stage = "metadata"
     THEN LookForText(b, c) /\ UNCHANGED snap
     ELSE LookForAnalysis(b, c) /\ snap' = [snap EXCEPT ![b][c] = Imported]
  /\ UNCHANGED <<row, item, review, phase, request, tally, outside, cancelled>>

\* studyTopperReviewRecord and its file: the row may be there and review.json
\* not; the copy goes on to `then' or fails.
Archive(b, c, r, then, failed) ==
  \/ Written(b) /\ SaveReview(c, r) /\ (then \/ failed)
  \/ Lost(b) /\ failed /\ UNCHANGED <<review, copy, snap>>

\* saveStudyOCRCheckpoint keeps the pages in memory first.
Checkpoint(b, c, place, status) ==
  LET Read(at, result) ==
        work' = [work EXCEPT ![b][c].pages = TRUE,
                             ![b][c].ocrs = @ + (IF work[b][c].pages THEN 0 ELSE 1),
                             ![b][c].at = at, ![b][c].result = result]
  IN Archive(b, c, "ocr_ready", Read(place, status), Read("end", "failed"))

\* runStudyOCRPhase is not retried.
OCRPhase(b, c) ==
  /\ At(b, c, "ocr")
  /\ \/ Fail(b, c) /\ UNCHANGED <<review, copy, snap, faults, broken>>
     \/ IF request[b].stage = "ocr" THEN Checkpoint(b, c, "end", "ready")
                                    ELSE Checkpoint(b, c, "unload", "none")
  /\ UNCHANGED <<row, item, tables, phase, request, tally, outside, cancelled>>

UnloadModel(b, c) ==
  /\ At(b, c, "unload")
  /\ Go(b, c, "analyse") \/ Fail(b, c)
  /\ UNCHANGED <<stored, phase, request, snap, tally, outside, trouble>>

\* Mutant: a retry starts from the pages the batch had loaded.
RetriedAfresh(b, c) ==
  IF work[b][c].try < Attempts /\ b \notin cancelled
  THEN work' = [work EXCEPT ![b][c].at = "analyse", ![b][c].try = @ + 1, ![b][c].pages = FALSE]
  ELSE Fail(b, c)

\* Mutant: attempts are not counted.
RetriedForever(b, c) == Go(b, c, "analyse")

\* A transient error is waited out and tried again, the last one is not;
\* the pages that were read are kept.
Retried(b, c) ==
  IF work[b][c].try < Attempts /\ b \notin cancelled
  THEN work' = [work EXCEPT ![b][c].at = "analyse", ![b][c].try = @ + 1]
  ELSE Fail(b, c)

\* An attempt of runImageAnalysisWithRetry: OCR unless the pages are there,
\* and the checkpoint in any case ...
AnalyseOCR(b, c) ==
  /\ At(b, c, "analyse")
  /\ \/ (Retried(b, c) \/ Fail(b, c)) /\ UNCHANGED <<review, copy, snap, faults, broken>>
     \/ Checkpoint(b, c, "split", "none")
  /\ UNCHANGED <<row, item, tables, phase, request, tally, outside, cancelled>>

\* ... and the questions, their dimensions and the report.
Analyse(b, c) ==
  /\ At(b, c, "split")
  /\ \/ \E status \in {"ready", "needs_review"} :
          work' = [work EXCEPT ![b][c].at = "save", ![b][c].result = status]
     \/ Retried(b, c)
     \/ Fail(b, c)
  /\ UNCHANGED <<stored, phase, request, snap, tally, outside, trouble>>

\* The archived review and its file.
SaveAnalysis(b, c) ==
  /\ At(b, c, "save")
  /\ Archive(b, c, work[b][c].result, Go(b, c, "store"), Fail(b, c))
  /\ UNCHANGED <<row, item, tables, phase, request, tally, outside, cancelled>>

\* saveStudyFromTopperRecordAsCopy.
StoreAnalysis(b, c) ==
  /\ At(b, c, "store")
  /\ \/ Written(b) /\ ReplaceStudyCopyResult(c, work[b][c].result) /\ Go(b, c, "end")
     \/ Lost(b) /\ Fail(b, c) /\ UNCHANGED <<copy, tables>>
  /\ UNCHANGED <<row, item, review, phase, request, snap, tally, outside, cancelled>>

\* One call of the model, which is not retried.
AskForMetadata(b, c) ==
  /\ At(b, c, "meta")
  /\ Go(b, c, "describe") \/ Fail(b, c)
  /\ UNCHANGED <<stored, phase, request, snap, tally, outside, trouble>>

Described(record) == [record EXCEPT !.described = TRUE, !.outdated = FALSE]

\* saveStudyMetadata writes the whole row the batch read when it was
\* prepared ...
DescribeCopy(b, c) ==
  /\ At(b, c, "describe")
  /\ \/ Written(b) /\ Go(b, c, "questions") /\ SaveStudyCopy(c, Described(snap[b][c]))
     \/ Lost(b) /\ Fail(b, c) /\ UNCHANGED copy
  /\ UNCHANGED <<row, item, tables, review, phase, request, snap, tally, outside, cancelled>>

\* ... and then, one by one, the questions it read.
DescribeQuestions(b, c) ==
  /\ At(b, c, "questions")
  /\ SaveStudyQuestions(c, work[b][c].read)
  /\ \/ Written(b) /\ Result(b, c, "ready")
     \/ Lost(b) /\ Fail(b, c)
  /\ UNCHANGED <<row, item, copy, review, phase, request, snap, tally, outside, cancelled>>

\* Mutant: only a result that is not a failure ends the copy's row.
SaveItemIfReady(b, c) ==
  /\ At(b, c, "end")
  /\ IF work[b][c].result # "failed" /\ b \notin cancelled
     THEN item' = [item EXCEPT ![b][c] = work[b][c].result]
     ELSE UNCHANGED item
  /\ Go(b, c, "sent")
  /\ UNCHANGED <<row, copy, tables, review, phase, request, snap, tally, outside, trouble>>

\* The copy's last row, whose failure is ignored, and its answer.
SaveItem(b, c) ==
  /\ At(b, c, "end")
  /\ \/ Written(b) /\ item' = [item EXCEPT ![b][c] = work[b][c].result]
     \/ Lost(b) /\ UNCHANGED item
  /\ work' = [work EXCEPT ![b][c] = [Fresh EXCEPT !.at = "sent", !.result = work[b][c].result,
                                                  !.ocrs = work[b][c].ocrs]]
  /\ UNCHANGED <<row, copy, tables, review, phase, request, snap, tally, outside, cancelled>>
-----------------------------------------------------------------------------
(***************************************************************************)
(* collectStudyBatchResults: the row after each answer, and the last row.  *)
(***************************************************************************)
Counted(b, status) ==
  LET completed == tally[b].completed + (IF status = "failed" THEN 0 ELSE 1)
      failed == tally[b].failed + (IF status = "failed" THEN 1 ELSE 0)
  IN [completed |-> completed, failed |-> failed,
      status |-> IF completed + failed < Total(b) THEN "running"
                 ELSE IF failed > 0 THEN "failed" ELSE "completed"]

Collect(b, c) ==
  /\ At(b, c, "sent")
  /\ Go(b, c, "counted")
  /\ tally' = [tally EXCEPT ![b] = Counted(b, work[b][c].result)]
  /\ (Written(b) /\ SaveStudyBatch(b, tally'[b])) \/ (Lost(b) /\ UNCHANGED row)
  /\ UNCHANGED <<item, copy, tables, review, phase, request, snap, outside, cancelled>>

LastRow(b) ==
  IF tally[b].failed > 0 /\ tally[b].completed > 0
  THEN [tally[b] EXCEPT !.status = "partial_failed"] ELSE tally[b]

\* Mutant: the run returns when its workers do, with answers on their way.
FinishUndrained(b) ==
  /\ phase[b] = "running" /\ In(b, Hands) = {}
  /\ In(b, {"waiting"}) # {} => b \in cancelled
  /\ phase' = [phase EXCEPT ![b] = "over"]
  /\ UNCHANGED <<stored, request, work, snap, tally, outside, trouble>>

\* The workers are gone and the answers are in.
Finish(b) ==
  /\ phase[b] = "running"
  /\ In(b, Hands \cup {"sent"}) = {}
  /\ In(b, {"waiting"}) # {} => b \in cancelled
  /\ phase' = [phase EXCEPT ![b] = "over"]
  /\ IF tally[b].completed + tally[b].failed < Total(b)
     THEN UNCHANGED <<row, faults, broken>>
     ELSE \/ Written(b) /\ SaveStudyBatch(b, LastRow(b))
          \/ Lost(b) /\ UNCHANGED row
  /\ UNCHANGED <<item, copy, tables, review, request, work, snap, tally, outside, cancelled>>
-----------------------------------------------------------------------------
(***************************************************************************)
(* Clients, and a crash.                                                   *)
(***************************************************************************)
Visit(c, answer) ==
  /\ visits[c] > 0 /\ visits' = [visits EXCEPT ![c] = @ - 1]
  /\ client = Idle /\ client' = answer

\* Importing a known path again resets its row, not its tables.
Import(c) ==
  /\ Visit(c, Idle)
  /\ SaveStudyCopy(c, Imported)
  /\ UNCHANGED <<row, item, tables, review, running, trouble>>

\* getStudyCopy takes over a complete review that is newer.
View(c) ==
  /\ Visit(c, Idle)
  /\ IF Syncs(c, copy[c])
     THEN ReplaceStudyCopyResult(c, review[c]) ELSE UNCHANGED <<copy, tables>>
  /\ UNCHANGED <<row, item, review, running, trouble>>

\* updateStudyCopy and syncStudyCopy read first and write later; a sync
\* takes the archived review as it is, or archives the one it was sent.
ReadForEdit(c) ==
  /\ Visit(c, [kind |-> "edit", copy |-> c, record |-> copy[c], review |-> "none"])
  /\ UNCHANGED <<stored, running, trouble>>

ReadForSync(c) ==
  /\ review[c] # "none"
  /\ Visit(c, [kind |-> "sync", copy |-> c, record |-> copy[c], review |-> review[c]])
  /\ UNCHANGED <<stored, running, trouble>>

SyncPayload(c, status) ==
  /\ Visit(c, [kind |-> "sync", copy |-> c, record |-> copy[c], review |-> status])
  /\ SaveReview(c, status)
  /\ UNCHANGED <<row, item, tables, phase, request, work, tally, trouble>>

SaveEdit(c, status) ==
  /\ client.kind = "edit" /\ client.copy = c
  /\ SaveStudyCopy(c, [client.record EXCEPT !.status = status, !.outdated = FALSE])
  /\ client' = Idle
  /\ UNCHANGED <<row, item, tables, review, running, visits, trouble>>

SaveSync(c) ==
  /\ client.kind = "sync" /\ client.copy = c
  /\ ReplaceStudyCopyResult(c, client.review)
  /\ client' = Idle
  /\ UNCHANGED <<row, item, review, running, visits, trouble>>

\* The archive's own delete.
DeleteTopperReview(c) ==
  /\ review[c] # "none"
  /\ Visit(c, Idle)
  /\ review' = [review EXCEPT ![c] = "none"]
  /\ UNCHANGED <<row, item, copy, tables, running, trouble>>

\* Nothing repairs the rows of the batches that ran.
Crash ==
  /\ faults > 0 /\ faults' = faults - 1
  /\ \E b \in Batch : phase[b] \in {"prepared", "running"}
  /\ phase' = [b \in Batch |-> IF phase[b] \in {"prepared", "running"} THEN "crashed" ELSE phase[b]]
  /\ client' = Idle
  /\ UNCHANGED <<stored, request, work, snap, tally, visits, cancelled, broken>>
-----------------------------------------------------------------------------
Step(b, c) ==
  \/ Take(b, c) \/ Look(b, c) \/ OCRPhase(b, c) \/ UnloadModel(b, c)
  \/ AnalyseOCR(b, c) \/ Analyse(b, c) \/ SaveAnalysis(b, c) \/ StoreAnalysis(b, c)
  \/ AskForMetadata(b, c) \/ DescribeCopy(b, c) \/ DescribeQuestions(b, c) \/ SaveItem(b, c) \/ Collect(b, c)

ClientStep(c) ==
  \/ Import(c) \/ View(c) \/ ReadForEdit(c) \/ ReadForSync(c) \/ SaveSync(c) \/ DeleteTopperReview(c)
  \/ \E status \in {"ready", "needs_review"} : SyncPayload(c, status)
  \/ \E status \in {"imported", "ready"} : SaveEdit(c, status)

Next ==
  \/ \E b \in Batch : Prepare(b) \/ QueueStage(b) \/ Launch(b) \/ ResolveFails(b) \/ CancelJob(b) \/ Finish(b)
  \/ \E b \in Batch, c \in Copy : Step(b, c)
  \/ \E c \in Copy : ClientStep(c)
  \/ Crash

Spec == Init /\ [][Next]_studyVars

\* Goroutines run, and every call of a model answers or times out.
Fairness ==
  /\ \A b \in Batch : WF_studyVars(Finish(b))
  /\ \A b \in Batch, c \in Copy : WF_studyVars(Step(b, c))

FairSpec == Spec /\ Fairness
-----------------------------------------------------------------------------
(***************************************************************************)
(* Properties.                                                             *)
(***************************************************************************)
Count(b, statuses) == Cardinality({c \in CopiesOf(b) : item[b][c] \in statuses})

\* The row of a batch that ended tells what the rows of its copies tell,
\* however it was cancelled, unless the store refused one of its writes.
EndedBatchAgreesWithItems ==
  \A b \in Batch :
    row[b].status \in Ended /\ b \notin broken =>
      /\ row[b].completed = Count(b, {"ready", "needs_review"})
      /\ row[b].failed = Count(b, {"failed"})
      /\ row[b].completed + row[b].failed = Total(b)
      /\ row[b].status = "completed" <=> row[b].failed = 0

\* A batch whose row says running is about to run or runs, or was cancelled,
\* crashed, lost a write or never began.
RunningRowExplained ==
  \A b \in Batch :
    row[b].status = "running" /\ phase[b] = "over" =>
      b \in cancelled \cup broken \/ In(b, Answered) = {}

\* OCR is the expensive part: whatever fails after it and however often the
\* analysis is tried again, a batch has a copy read once.
OCROncePerBatch == \A b \in Batch, c \in Copy : work[b][c].ocrs <= 1

\* A finished analysis leaves the study tables only when a client syncs the
\* copy with a review that a new run has already set back to its OCR.
AnalysisKept ==
  [][\A c \in Copy : tables[c] = "analysis" =>
       \/ tables'[c] = "analysis"
       \/ client.kind = "sync" /\ client.copy = c /\ client.review = "ocr_ready"]_studyVars

\* A batch that runs ends, or was cancelled, crashed or lost a write.
UndisturbedBatchEnds ==
  \A b \in Batch :
    phase[b] = "running" ~>
      row[b].status \in Ended \/ b \in cancelled \/ b \in broken \/ phase[b] = "crashed"
=============================================================================
