--------------------------- MODULE ReviewArchive ---------------------------
(***************************************************************************)
(* The topper archive (documentapi) for PDFs that are reviewed directly: a *)
(* review is kept as a row, as a file and as the output of the jobs that   *)
(* made or reused it.  Every list and every request to analyse first       *)
(* writes rows back from the outputs and then from the files.  Job n's     *)
(* analysis makes review n.  Of a review's text the model keeps whether it *)
(* holds a user's edit and whether it was analysed again.                  *)
(***************************************************************************)
EXTENDS Naturals, Sequences, FiniteSets, FiniteSetsExt

CONSTANTS
  Copy,      \* source PDFs, by path
  NameOf,    \* their file names: PDFs of two directories may share one
  Renamed,   \* those whose review suggests another file name
  Handler,   \* requests in flight
  MaxJobs,   \* bound on jobs
  Chances,   \* the requests and faults that may happen, and how often
  None

Kinds == {"list", "edit", "delete", "rerun", "clear", "crash", "unsaved", "lost", "expiry", "kill"}
ASSUME ArchiveAssumption ==
  DOMAIN NameOf = Copy /\ Renamed \subseteq Copy /\ MaxJobs \in Nat /\ \A c \in Chances : c \in [Kinds -> Nat]

Review == 1..MaxJobs
Text == SUBSET {"edit", "again"}
RowRecord ==
  [text : Text, status : {"ready", "edited"}, source : Copy \cup {None}, job : Review \cup {None}]
Request ==
  [kind : {"list", "analyze", "edit", "delete"}, about : Copy \cup Review \cup {None},
   at : {"jobs", "outputs", "files", "answer", "row", "file", "job"},
   seen : {None} \cup Text \cup Review \cup RowRecord \cup [Review -> RowRecord \cup {None}],
   todo : SUBSET Review, owed : SUBSET Review]
ASSUME NothingAssumption == (\A t \in Text : t # None) /\ None \notin RowRecord /\ None \notin Request

VARIABLES
  rows,     \* topper_reviews
  files,    \* artifacts/topper-copy/<id>/review.json
  jobs,     \* the jobs about reviews, with their outputs
  calls,    \* the request each handler serves
  edited,   \* reviews whose last change is an edit that was answered
  chances   \* what is left of the bounds

archiveVars == <<rows, files, jobs, calls, edited, chances>>
-----------------------------------------------------------------------------
Spend(kind) == chances[kind] > 0 /\ chances' = [chances EXCEPT ![kind] = @ - 1]

Row(text, status, source, job) == [text |-> text, status |-> status, source |-> source, job |-> job]
CopyOf(r) == jobs[r].copy
Output(j) == jobs[j].listed /\ jobs[j].state = "completed"
Live == {"queued", "running", "rowed", "filed"}
UnderWork(r) == \E j \in DOMAIN jobs : jobs[j].review = r /\ jobs[j].kind # "reuse" /\ jobs[j].state \in Live

ArchiveInit ==
  /\ rows = [r \in Review |-> None] /\ files = [r \in Review |-> None]
  /\ jobs = <<>>
  /\ calls = [h \in Handler |-> None]
  /\ edited = {}
  /\ chances \in Chances

\* A request arrives.  "owed" is history: the reviews of the copy that exist
\* when an analysis is asked for, the edits a list has to show.
OnDisk(r) == files[r] # None \/ (rows[r] # None /\ rows[r].status = "ready")
Kept(c) == {r \in DOMAIN jobs : CopyOf(r) = c /\ r = jobs[r].review /\
              (OnDisk(r) \/ \E j \in DOMAIN jobs : jobs[j].review = r /\ Output(j))}
Arrive(h, kind, about, owed) ==
  /\ calls[h] = None
  /\ calls' = [calls EXCEPT ![h] =
       [kind |-> kind, about |-> about, at |-> "jobs", seen |-> None, todo |-> {}, owed |-> owed]]

List(h) == Arrive(h, "list", None, edited) /\ Spend("list") /\ UNCHANGED <<rows, files, jobs, edited>>

\* backfillTopperReviewJobs: the jobs are listed; then, newest first, each
\* output becomes its review's row again, with the job's input as its source
\* path, which of a rerun is the review and no PDF.
Outputs == {j \in DOMAIN jobs : Output(j)}
OutputRow(j) == Row(jobs[j].text, "ready", IF jobs[j].kind = "rerun" THEN None ELSE jobs[j].copy, j)
ListJobs(h) ==
  /\ calls[h] # None /\ calls[h].at = "jobs"
  /\ calls' = [calls EXCEPT ![h].at = "outputs", ![h].todo = Outputs,
                            ![h].seen = [j \in Review |-> IF j \in Outputs THEN OutputRow(j) ELSE None]]
  /\ UNCHANGED <<rows, files, jobs, edited, chances>>

\* Another list that is being served owes nothing any more.
Overtaken(h) == [g \in Handler |-> IF g = h \/ calls[g] = None \/ calls[g].kind # "list" THEN calls[g]
                                   ELSE [calls[g] EXCEPT !.owed = {}]]
\* Mutant: the output is not looked at.
ForgetJob(j, row) == rows
FromJob(j, row) == [rows EXCEPT ![jobs[j].review] = row]
BackfillJob(h) ==
  /\ calls[h] # None /\ calls[h].at = "outputs" /\ calls[h].todo # {}
  /\ LET j == Max(calls[h].todo) IN
     /\ rows' = FromJob(j, calls[h].seen[j])
     /\ calls' = [Overtaken(h) EXCEPT ![h].todo = @ \ {j}]
  /\ UNCHANGED <<files, jobs, edited, chances>>
ListFiles(h) ==
  /\ calls[h] # None /\ calls[h].at = "outputs" /\ calls[h].todo = {}
  /\ calls' = [calls EXCEPT ![h].at = "files", ![h].seen = None, ![h].todo = {r \in Review : files[r] # None}]
  /\ UNCHANGED <<rows, files, jobs, edited, chances>>

\* backfillTopperReviewArtifacts: file by file, read and then saved as a row
\* without source path or job.
ReadFile(h) ==
  /\ calls[h] # None /\ calls[h].at = "files" /\ calls[h].todo # {} /\ calls[h].seen = None
  /\ LET r == Min(calls[h].todo) IN
     calls' = [calls EXCEPT ![h].seen = files[r], ![h].todo = IF files[r] = None THEN @ \ {r} ELSE @]
  /\ UNCHANGED <<rows, files, jobs, edited, chances>>
BackfillFile(h) ==
  /\ calls[h] # None /\ calls[h].at = "files" /\ calls[h].seen # None
  /\ rows' = [rows EXCEPT ![Min(calls[h].todo)] = Row(calls[h].seen, "ready", None, None)]
  /\ calls' = [Overtaken(h) EXCEPT ![h].seen = None, ![h].todo = @ \ {Min(@)}]
  /\ UNCHANGED <<files, jobs, edited, chances>>

Backfilled(h) == calls[h] # None /\ calls[h].at = "files" /\ calls[h].todo = {}
Shown(h) ==
  /\ Backfilled(h) /\ calls[h].kind = "list"
  /\ calls' = [calls EXCEPT ![h] = None]
  /\ UNCHANGED <<rows, files, jobs, edited, chances>>

\* findReusableTopperReview: a review made of this path, or of a PDF of the
\* same file name wherever it is; and runAnalyze's new job, which reuses what
\* was found or analyses.
Reusable(c) ==
  {r \in DOMAIN jobs : /\ rows[r] # None /\ rows[r].status = "ready"
                       /\ \/ rows[r].source = c
                          \/ NameOf[CopyOf(r)] = NameOf[c] /\ CopyOf(r) \notin Renamed}
NewJob(kind, c, review, text) ==
  [kind |-> kind, copy |-> c, source |-> c, review |-> review, state |-> "running", text |-> text, listed |-> TRUE]
StartAnalyze(h) ==
  /\ Backfilled(h) /\ calls[h].kind = "analyze" /\ Len(jobs) < MaxJobs
  /\ LET c == calls[h].about IN
     \/ \E r \in Reusable(c) : jobs' = Append(jobs, NewJob("reuse", c, r, rows[r].text))
     \/ Reusable(c) = {} /\ jobs' = Append(jobs, NewJob("analyze", c, Len(jobs) + 1, {}))
  /\ calls' = [calls EXCEPT ![h].at = "answer", ![h].seen = Len(jobs) + 1]
  /\ UNCHANGED <<rows, files, edited, chances>>

\* updateTopperReview: the record is read, then row and file are written.
ReadForEdit(h, r) ==
  /\ rows[r] # None /\ calls[h] = None
  /\ calls' = [calls EXCEPT ![h] =
       [kind |-> "edit", about |-> r, at |-> "row", todo |-> {}, owed |-> {},
        seen |-> [rows[r] EXCEPT !.text = @ \cup {"edit"}, !.status = "edited"]]]
  /\ Spend("edit")
  /\ UNCHANGED <<rows, files, jobs, edited>>
\* From here on an analysis of the copy may miss the review.
SaveEdit(h) ==
  /\ calls[h] # None /\ calls[h].kind = "edit" /\ calls[h].at = "row"
  /\ rows' = [rows EXCEPT ![calls[h].about] = calls[h].seen]
  /\ calls' = [g \in Handler |->
       IF g = h THEN [calls[h] EXCEPT !.at = "file"]
       ELSE IF calls[g] # None /\ calls[g].kind = "analyze" THEN [calls[g] EXCEPT !.owed = @ \ {calls[h].about}]
       ELSE calls[g]]
  /\ UNCHANGED <<files, jobs, edited, chances>>
\* Mutant: the edit stays in its row.
KeepFile(r, text) == files
ToFile(r, text) == [files EXCEPT ![r] = text]
SyncEdit(h) ==
  /\ calls[h] # None /\ calls[h].kind = "edit" /\ calls[h].at = "file"
  /\ files' = ToFile(calls[h].about, calls[h].seen.text)
  /\ edited' = IF UnderWork(calls[h].about) THEN edited ELSE edited \cup {calls[h].about}
  /\ calls' = [calls EXCEPT ![h] = None]
  /\ UNCHANGED <<rows, jobs, chances>>

\* deleteTopperReview: the files, the row, and the job the record names.
Disown(r) == [g \in Handler |-> IF calls[g] = None THEN None ELSE [calls[g] EXCEPT !.owed = @ \ {r}]]
WithoutFiles(r) == [files EXCEPT ![r] = None]
ReadForDelete(h, r) ==
  /\ rows[r] # None /\ calls[h] = None
  /\ files' = WithoutFiles(r)
  /\ calls' = [Disown(r) EXCEPT ![h] =
       [kind |-> "delete", about |-> r, at |-> "row", seen |-> rows[r], todo |-> {}, owed |-> {}]]
  /\ edited' = edited \ {r}
  /\ Spend("delete") /\ UNCHANGED <<rows, jobs>>
DeleteRow(h) ==
  /\ calls[h] # None /\ calls[h].kind = "delete" /\ calls[h].at = "row"
  /\ rows' = [rows EXCEPT ![calls[h].about] = None]
  /\ calls' = [Disown(calls[h].about) EXCEPT ![h].at = "job"]
  /\ UNCHANGED <<files, jobs, edited, chances>>
DeleteItsJob(h) ==
  /\ calls[h] # None /\ calls[h].kind = "delete" /\ calls[h].at = "job"
  /\ jobs' = IF calls[h].seen.job = None THEN jobs ELSE [jobs EXCEPT ![calls[h].seen.job].listed = FALSE]
  /\ calls' = [Disown(calls[h].about) EXCEPT ![h] = None]
  /\ UNCHANGED <<rows, files, edited, chances>>

\* rerunTopperReview: the job reads the row when it starts and writes all of
\* it when it ends, with the source path it read.
Rerun(r) ==
  /\ rows[r] # None /\ Len(jobs) < MaxJobs /\ Spend("rerun")
  /\ jobs' = Append(jobs, [NewJob("rerun", CopyOf(r), r, {}) EXCEPT !.state = "queued", !.source = None])
  /\ edited' = edited \ {r}
  /\ calls' = Disown(r)
  /\ UNCHANGED <<rows, files>>
RerunReads(j) ==
  /\ jobs[j].state = "queued"
  /\ \E text \in {{"again"}, IF rows[jobs[j].review] = None THEN {"again"}
                             ELSE rows[jobs[j].review].text \cup {"again"}} :
       jobs' = [jobs EXCEPT ![j].text = text,
                            ![j].source = IF rows[jobs[j].review] = None THEN None ELSE rows[jobs[j].review].source,
                            ![j].state = IF rows[jobs[j].review] = None THEN "failed" ELSE "running"]
  /\ UNCHANGED <<rows, files, calls, edited, chances>>

\* The end of an analysis or a rerun: row, file, then the job's output.  An
\* analysis goes on when it could not be saved, a rerun fails.
SaveRow(j) ==
  /\ jobs[j].state = "running" /\ jobs[j].kind # "reuse"
  /\ \/ /\ rows' = [rows EXCEPT ![jobs[j].review] = Row(jobs[j].text, "ready", jobs[j].source, j)]
        /\ jobs' = [jobs EXCEPT ![j].state = "rowed"]
        /\ UNCHANGED chances
     \/ /\ Spend("unsaved") /\ UNCHANGED rows
        /\ jobs' = [jobs EXCEPT ![j].state = IF jobs[j].kind = "rerun" THEN "failed" ELSE "filed"]
  /\ UNCHANGED <<files, calls, edited>>
SaveFile(j) ==
  /\ jobs[j].state = "rowed"
  /\ files' = [files EXCEPT ![jobs[j].review] = jobs[j].text]
  /\ jobs' = [jobs EXCEPT ![j].state = "filed"]
  /\ UNCHANGED <<rows, calls, edited, chances>>
Complete(j) ==
  /\ jobs[j].state = "filed" \/ (jobs[j].kind = "reuse" /\ jobs[j].state = "running")
  /\ jobs' = [jobs EXCEPT ![j].state = "completed"]
  /\ UNCHANGED <<rows, files, calls, edited, chances>>

\* DeleteFinishedJobs; and the server dies and starts again.
ClearJobs ==
  /\ Spend("clear")
  /\ jobs' = [j \in DOMAIN jobs |->
       IF jobs[j].state \in {"completed", "failed"} THEN [jobs[j] EXCEPT !.listed = FALSE] ELSE jobs[j]]
  /\ calls' = [h \in Handler |-> IF calls[h] = None THEN None ELSE
                 [calls[h] EXCEPT !.owed = {r \in @ : OnDisk(r)}]]
  /\ UNCHANGED <<rows, files, edited>>
Restart ==
  /\ Spend("crash")
  /\ jobs' = [j \in DOMAIN jobs |->
       IF jobs[j].state \in Live THEN [jobs[j] EXCEPT !.state = "failed"] ELSE jobs[j]]
  /\ calls' = [h \in Handler |-> None]
  /\ UNCHANGED <<rows, files, edited>>

Served(h) ==
  \/ List(h) \/ ListJobs(h) \/ BackfillJob(h) \/ ListFiles(h) \/ ReadFile(h) \/ BackfillFile(h)
  \/ Shown(h) \/ StartAnalyze(h)
  \/ SaveEdit(h) \/ SyncEdit(h) \/ DeleteRow(h) \/ DeleteItsJob(h)
  \/ \E r \in Review : ReadForEdit(h, r) \/ ReadForDelete(h, r)
Worked == \E j \in DOMAIN jobs : RerunReads(j) \/ SaveRow(j) \/ SaveFile(j) \/ Complete(j)
ArchiveNext ==
  \/ \E h \in Handler : Served(h)
  \/ Worked
  \/ \E r \in Review : Rerun(r)
  \/ ClearJobs \/ Restart
=============================================================================
