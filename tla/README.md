# aicli in TLA+

`aicli` is a Go server for AI work on one machine: it runs document, video and
note workflows as background jobs, and it executes prompts for other services
against a list of provider targets with budgets. This directory holds TLA+
models of the parts of it whose correctness depends on order, on concurrency or
on what survives a failure, the TLC runs that check them, and TLAPS proofs of
what matters most.

* [The system](#the-system): components, state, operations, how they meet
* [The modules](#the-modules): what models what
* [The runs](#the-runs): what each shows, its bounds, why they are enough
* [Fairness](#fairness)
* [The proofs](#the-proofs)
* [Where code and text disagree](#where-code-and-text-disagree)
* [Not modelled](#not-modelled), [Plan](#plan)

Source paths are relative to `src/`; `z/` is `internal/workflow/zettel/`.

## The system

```
 HTTP clients (web UI, Frappe, Obsidian plugin, aicli topper-batch-run)
      |                                   |
      | /api/execution/...                | /api/workflows/..., /api/jobs, /api/study/...
      v                                   v
 internal/execution  -- reserve/release   internal/server/workflowapi/core (Runtime)
   Service.Execute      usage rows          |  one goroutine per job
      |                    |                v
      v                    v              workflows: zettel inbox merge, metadata, index;
 internal/provider      internal/storage    study batches; topper analysis (pages or PDF);
   (HTTP, CLIs)          (SQLite, one       video course; small conversions
                          connection)       |
                             ^              v
                             +---- rows ----+---- files of the user
```

Jobs are independent goroutines: no workflow waits for another. They meet in
SQLite (one connection, so a statement or a transaction is one step), in files
(nothing locks those across jobs), and, inside one process, in the execution
limiter and in the quota gates of the Gemini lanes.

**Execution limiter** (`internal/execution/limiter.go`, `storage/execution_usage.go`).
*State*: per usage key (provider and model, shared by the targets that name it)
the calls in flight and the calls of the last day; cooldowns; the usage rows.
*Operations*: reserve (refuse, grant, fail to persist), release, cooldown,
load at start. *Hard*: sliding windows, prunings with different horizons, a
store that fails after the counters were read, restarts. *Correct when* no
sliding minute and no UTC day holds more calls or tokens than allowed, also
across restarts, no target more calls in flight, and a refused caller is told
how long to wait.

**Execution service** (`internal/execution/service.go`).
*State*: profiles, a semaphore for each, rotation counters, one wake channel
with room for one token; per request its targets, refusals, deadline.
*Operations*: `Execute` (take a slot, try the targets, sleep, start over, give
up), `UpdateProfiles`. *Hard*: requests of all profiles meet in the limiter and
the wake channel; settings replace semaphores under requests; timeouts and
disconnects anywhere. *Correct when* leases and slots match calls and requests
on every path out, every request returns, rotation keeps the tiers and is fair.

**Job lifecycle** (`workflowapi/core`, `storage/jobs.go`, `app/app.go`).
*State*: the jobs table, the goroutine of each job, the map of cancel
functions. *Operations*: start, progress, finish, cancel, clear, delete, start
of a server. *Hard*: handlers and goroutine write whole rows they read earlier.
*Correct when* the row of an ended job says how it ended, and a cancelled job
stops being listed as running.

**Zettel inbox merge, archive, rollback** (`z/inbox`, `z/archive`).
*State*: destination notes, inbox and processed folders, a manifest per run;
per run a commit mutex and workers. *Operations*: choose and process sources
(exact duplicate, model call, check, archive, write, move, record), finalize,
roll back. *Hard*: decisions on texts read before a slow call, file writes
without a transaction, rollbacks that fail half way. *Correct when* nothing
becomes unreachable, merges only add, a rollback restores.

**Zettel metadata run and index** (`z/metadata`, `z/archive/metadata_archive.go`, `z/indexer`).
*State*: the notes, a manifest with before-images per run, the embeddings
file. *Operations*: select, ask, write the note, archive it, finalize; scan,
read, embed in batches, flush, search. *Hard*: the note is written before its
old text is archived; a manifest read and written whole by several workers; the
user edits the same notes; a cache rewritten in place by overlapping builds.
*Correct when* what a run overwrote is in its archive and a build that ends
well answers for every note as it is.

**Study batches and copies** (`workflowapi/studyapi`, `storage/study.go`).
*State*: copies, batches, items, pages, questions, analyses in SQLite; OCR
checkpoints among the topper reviews. *Operations*: import, start a batch of
all stages, OCR or metadata, run it (copy workers, OCR, up to three analyses,
tables), collect; edit, view, sync. *Hard*: rows written under a cancelled
context, whole-row writes of several actors, retries that must not pay OCR
twice. *Correct when* batch and item rows agree with what became of the work,
nobody loses a finished analysis unless it is told to, and batches end.

**Topper page analysis** (`workflow/analyze`, `workflow/document`).
*State*: pages with text, kind and assessment; questions; a review. *Operations*:
render, OCR in batches with retries, checkpoint, split page by page or by a
ledger of boundaries, dimensions, report, quality; reruns of any stage for some
pages. *Hard*: pools whose workers leave on the first error, partial reruns over
stored questions. *Correct when* every readable answer is in exactly one
question, "no review needed" is never said of pages nobody read, and runs end.

**Direct PDF reviews** (`workflow/analyze/direct_pdf*.go`).
*State*: page ranges, a checkpoint file per range, per lane a gate with the
time of the last call. *Operations*: one shot or ranges, split a range whose
answer is unusable, a plan that merges the candidates of overlapping ranges,
report, refresh. *Hard*: what survives a failure or crash, the acceptance of the
plan, a mutex held over a minute's wait. *Correct when* every page is assessed,
no answer is lost or counted twice, nothing is paid twice, calls of a lane keep
their distance.

**Topper archive and batch command** (`workflowapi/documentapi`, `cmd/aicli/topper_batch_run.go`).
*State*: review rows, review files, job outputs (three copies of a review);
lanes, active jobs, an output directory. *Operations*: analyse or reuse, list
(which writes rows back from the other two), edit, rerun, delete; submit, poll,
write, time out, start again. *Hard*: lost answers, the copies of a review that
differ. *Correct when* each copy of a manifest is accounted for once, outputs
never change, an existing review is reused, edits are not undone.

**Video course pipeline** (`workflow/video`).
*State*: raw videos, transcripts, compressed slides, parts; channels between
transcription, compression and export. *Operations*: plan parts (resume what is
verified), transcribe, compress, export in order, verify, delete the sources.
*Hard*: three kinds of goroutine that end on error and cancellation, and sources
that are deleted. *Correct when* no source is deleted unless a verified part
holds it, and success means that every video is in a part.

**Others**: settings (one mutex from reading to saving), providers, uploads,
small conversions around one or two external calls, the web interface. They are
listed with the reason for their status in `PROJECT.json`.

## The modules

| module | models | abstracts |
|---|---|---|
| `Limiter` | the limiter and its rows | time is an integer clock; token counts are constants of the callers |
| `TargetOrder`, `Rotation` | `targetsFor`; a round-robin profile serving requests | every call succeeds |
| `Admission` | what the package promises: a gate that remembers every call | no keys, no memory, no table |
| `Execution` (extends `Limiter` and `TargetOrder`) | `Service.Execute`, all of it | an error is a rate limit or not, which is all the code asks of it |
| `Jobs` | the job lifecycle | progress numbers |
| `InboxMerge` | inbox runs and rollbacks | a note is a set of facts |
| `ZettelVault`, `MetadataRun`, `ZettelIndex`, `ZettelJobs` | the notes and their user; metadata runs; index builds; all three together | a text is `[body, meta, cut]` and stands for its hash and its vector |
| `StudyBatch` | batches, copies, clients | of a copy's tables: nothing, pages or an analysis; of a review its status |
| `AnswerLedger`, `PageAnalysis` | which pages make which questions; the analysis with its pools, and reruns | a page is `[text, kind, assessed]`; labels are new, unlabelled, continuation or uncertain |
| `Reconcile`, `DirectPDF` | ranges and the acceptance of a plan; the reviews with checkpoints and the lane's gate | checks of wording are one Boolean, `sound` |
| `ReviewArchive`, `TopperBatch` | the server's archive; the command against it | a review's text is the set of what was done to it |
| `CoursePipeline` | course jobs on one folder | all videos have one length, so the limit is a number of videos |

`MC*` modules hold the instances for TLC, `*Proofs` modules the proofs. The
first module of a pair is pure (operators only) or a component of its own, the
second EXTENDS it. A definition named "mutant" in its comment states a plausible
bug; `PROJECT.json` names the definition it replaces and the property that
then fails.

**Limiter.** `events` is `usage[key].events` of all keys, `store` the table;
`Kept`, `Pruned`, `StoreTrimmed` are the three prunings, each with its own
horizon. `Grant`, `Refuse` and `PersistFails` are the three ends of `reserve`:
the counters are looked at, the row is written and only then memory counts, all
under `s.mu`. `Restart` loses the memory and loads the rows
(`LoadExecutionUsage`), or fails to, after which limited targets are refused.
`granted` is history: the calls the limiter let go ahead.

**Execution.** Every request is one caller of `Limiter`. `pc` names where it is:
*queued* for a slot, *scan* in the loop over the targets, *call* in the
provider, *cool* between the release of the lease and `setCooldown`, *wait* in
`waitUntilAvailable`. An action is one critical section of `s.mu` or one step
between two, and names the Limiter action it is (`Dispatch` is `Grant`,
`Succeed` and `Fail` are `Release`, ...). `profiles` has the settings of each epoch,
of which a request keeps the ones it started under: `UpdateProfiles` puts any
member of `Settings` in their place (whether a profile is on, its targets,
strategy, slots, timeout), with new semaphores. A target whose own limits
change is another member of `Target` with the same key, as it is to the code,
which counts by key. `ImplementsAdmission` states what a caller may rely on: the
calls that are out (`Calls`, read off `pc`, not off the leases) and the calls
ever made are those of a gate that forgets nothing and counts by target; it
would fail for a lease kept or lost on some path, a pruning or trimming too
early, a restart that loads too little. A timeout of the profile appears as a rate limit
(`isRateLimit` takes any exceeded deadline for one), a disconnect as a plain
error (`Answers`).

**Jobs.** Between two statements on the store anything may happen. `CancelRead`,
`CancelSignal` and `CancelWrite` are the three parts of `CancelJob`; `Progress`
and `Finish` write the goroutine's own copy of the row. `SecondStart` is a second
server on the same data directory. `CreateByHand` is `POST /api/jobs`, which
inserts whatever the client wrote under any id that is free at the moment: a
second row for a job that was cleared, completed while its workflow runs, or with
an output and any status. The history variable `byHand` keeps those ids, and the
properties speak of the others.

**InboxMerge.** A source holds one fact of its own, a destination starts with
its own fact or is a copy of a source (the exact duplicate). The merge model is
a contract, as its prompt states it: of each candidate it chooses it returns
what it was shown (`Excerpts`, cut as `NumberedExcerpt` cuts the text) and the
fact of the source. A worker's steps are the file operations of
`processInboxSource`; `commit[r]` is the run's mutex, the archive mutex is not a
variable because each manifest update is one step. `FailSource` fails any
operation and takes the error path; a rollback reads the manifest once and
goes through its items from the last to the first, passing over those that were
not applied and undoing the others file by file. A source makes a single claim, so the
per-source status "partial" cannot occur (the manifest's can). Runs lock only
themselves, so the properties are stated for runs that do not overlap
(`Orderly`), except `Recoverable`, which holds under any overlap but a rollback
of a run that is still going.

**ZettelVault, MetadataRun, ZettelIndex, ZettelJobs.** `Edit` is the user in
Obsidian, at any time. A metadata run writes the note and then archives before-
and after-text; `Free` is the archive mutex. `ChangesArchived` therefore
excludes texts that were changed since they were read (the user's edit is then
lost, which the code cannot see), notes whose item failed, and runs whose
manifest was cut while it was written. The index reads every note, reuses a
vector if the text is the same (`Reused`), embeds the rest in batches, and
flushes after every `FlushEvery` batches (4 in the code, 2 here); the file is
truncated and written in two steps, and `Parses` is what the next build makes
of it. Two builds that overlap overwrite each other's file, so `IndexCurrent` is
stated for a build with no other at work.

**StudyBatch.** A batch is read once (`snap`) and then works on what it read.
`work[b][c].at` is where a worker is with a copy; each write of a row is its own
step, fails if the batch is cancelled, and may fail otherwise (`faults`; a lost
write marks the batch `broken`). Clients read a row in one step and write it in
another. There is no recovery of batches at a restart: rows stay running, which
`RunningRowExplained` says is the only way, with cancels and lost writes. What a
reader may miss: a metadata stage writes the whole row it read before; a
checkpoint demotes a complete review to `ocr_ready`; a client's POST sync takes
such a review and empties the tables, while GET syncs only complete ones;
`startStudyStage` makes rows that nothing runs (`QueueStage`).

**AnswerLedger, PageAnalysis.** One copy, one job at a time. `plan` is the list of
stages of the run (`Analysis`, `Resumed`, `Rerun`), `pool` the pool at work. Each
external call fails, answers with something useless, or answers; a call under
a cancelled context fails. Retries of pages follow after the batches. `saved`
holds the review a client sees; `Again` starts from it. Percentages are
computed as the code rounds them (`Percent`).

**Reconcile, DirectPDF.** `Windows` is the loop of `planDirectPDFChunks`;
`Accepts` all checks of `applyDirectPDFReconciliation`, in the code's words. A
candidate's id is `[chunk, range, answer]`. The model's plan (`PlanOf`) is right,
leaves candidates out, doubles one, puts two together that are not one
answer, or makes a question of one candidate or of each: what it accepts may have
more questions than the copy has answers, and each may be refreshed. A
checkpoint is saved, missing, or from an older file. `extracted` counts a chunk when
its last range is in, `lost` what could not be saved or died with the process
before it was: the next run pays for that again. The gate of a
lane is taken before the wait and released after the call; the clock moves only
while somebody holds it, and a new process has a new gate. One-shot reviews do
not check pages, so `PagesAssessed` and `AnswersKept` are about chunked ones.

**ReviewArchive, TopperBatch.** A review is in a row, a file and a job's
output; `List` writes rows from the other two, output by output and file by file.
A row names the copy it was made of, or none (`source`): rows from files have no
path, a rerun keeps what its row had, and its job's input is the review's id.
`Reusable` goes by that path or by the file name (`NameOf`). A handler is in
`calls`; `owed` and `seen` are what it must not lose. The command is one process;
`Kill` and `Begin` are its end and its next start over the same directory.
Image analyses and imports of OCR, forced analysis, a preferred review id and
the filters of the listing are left out.

**CoursePipeline.** The pipelined path (cleanup or several workers) and the
plain one. A slide is absent, cut (a crash in the middle of ffmpeg) or whole; a
part is merged out of the slides as they are and remembers which were cut
(`cut`). Which cuts `verifyCoursePart` lets pass (two minutes, half a percent, or
anything where no length is known) is a constant of the scenario, `tolerated`,
any set of sets of videos with the empty one in it. The order in which workers
take jobs is left open. Videos of the same base name, silent
videos, unreadable files and shutdown are left out.

## The runs

Twelve runs, all passing. The bounds are constants of the modules, given in the
`.cfg` files and `MC*` modules.

| run | shows | instance |
|---|---|---|
| `limiter_solo` | budgets and waits of one target | 2 callers of 1 and 2 tokens, a minute of 3 ticks, a day of 4, clock to 5, 4 rows |
| `execution_budgets` | refinement of `Admission` with budgets, store failures, crashes; slots match requests and leases match calls through a change of settings | 2 requests for 1 or 2 slots, 4 targets (one off, one without provider), 3 settings (other targets, order, slots, timeout; profile off), 1 update, clock to 2, 2 rows |
| `execution_returns` | every admitted request returns; no sleeper over one lease is forgotten | 3 requests of 2 profiles for 1 lease |
| `rotation_tiers` | rotation keeps tiers, and is fair while all targets are on | every list of 2 to 4 targets in up to 2 tiers, 6 requests |
| `jobs` | rows tell endings, cancellation settles | 1 job, 3 cancel requests at a time |
| `inbox_merge` | nothing lost, `completed`, rollback, no fact overwritten | 2 runs of 2 workers, 2 sources, 1 note, 1 trouble |
| `zettel_jobs` | archives complete, index current, all jobs end | 6 scenarios of 2 or 3 notes: runs of 1 or 2 workers, builds after or beside each other, with edits, faults, stops, crashes |
| `study_batch` | rows agree, OCR once, analyses kept, batches end, pools | 6 scenarios: 1 or 2 copies, 1 or 2 batches (all, OCR, metadata, forced), a failing write, cancels, crashes, 2 client requests |
| `page_analysis` | answers once, readiness sound, runs end | copies of 2 to 4 pages, 2 workers, batches of 2, 2 faults, a cancel, 1 rerun |
| `direct_pdf` | pages, answers, payments, calls, gate, end | copies of 3, 5 and 6 pages, 1 or 2 reviews, up to 50 bad answers, cancels, a crash |
| `topper_batch` | nothing dropped, outputs final, reuse, edits | 1 copy over 2 runs of the command, 2 copies of one file name over 1; 2 lanes, 2 server requests, 12 pairs of troubles |
| `course_pipeline` | sources deleted only behind a verified part, success means whole, jobs end | 3 videos, 2 workers, parts of 1 or 2 or all, 2 runs; faults, a crash, a cancel, late videos, one that cannot be deleted; a cut of the second video alone passes the check, others do not |

*Why the bounds are enough.* `limiter_solo`: the window slides over two days
and past the retention, so events are pruned, trimmed, forgotten by a restart
and still counted; the four rows are one more than the largest budget; the
proofs cover all other sizes. `execution_budgets`: one request holds the slot
while the settings change under the other. `execution_returns`: a lost wake-up
needs one holder and two sleepers, of which one takes the token of the other.
`rotation_tiers`: two tiers of two, or one of four; six requests go round each.
`jobs`: jobs share only the table, whose statements treat rows one by one, so
one job suffices; three cancel requests allow one to be stale against two
others. `inbox_merge`: one trouble (an error, a crash, or a job begun out of
order) at any step; two workers race for one note, a second run is begun before
or after. `zettel_jobs`: two workers race for one manifest; a
third note leaves one to be selected when two are in hand; two flushes
per build, so that a failure falls before, between and after them.
`study_batch`: two workers or one for two copies, so that one may be waiting,
in hand or answered when the other ends; two batches on one copy cover every
overlap of two writers; retries are 2 of the 3 in the code, because the second
already differs from the first in all that a third would.
`page_analysis`: three pages for two workers make a sender wait, which two would
not; four pages are two OCR batches; two faults end both workers of a pool.
`direct_pdf`: 5 pages are the shortest copy of two ranges and 6 leave a
second range as long as the first; 50 bad answers are more than a copy of 5
pages can ask for; two reviews contend for a gate.
`topper_batch`: a copy's fate depends on its own review and a namesake's, so one
copy in two runs; two copies of one file name on two lanes show lanes handed on and
a review reused for the other copy. Pairs of troubles are
chosen so that each meets a crash, a list or a new run of the command.
`course_pipeline`: with three videos a part of two, a last part of one and a
resumed numbering all occur.

Deadlock checking is off where the system really stops: bounded clocks and
requests, and jobs and clients that have nothing left to do.

Some properties are narrower than one would wish, because the code promises
no more; their comments say so. `NoSleeperForgotten` is about one key with one
lease: with a budget, a second key, or a cooldown set after the lease was
released, a sleeper can be left without a timer over a free target, and wakes
with its own timeout. `WaitIsRight` promises one wait only where all calls in
the window are calls let through to the target. `NothingLost` is about runs whose
parts are safely numbered (`SafelyNumbered`), excepts videos before one that
could not be deleted, and takes a part for complete that lacks what the check
tolerates. `AnalysedOnce` excepts copies whose review suggests another
name (`Renamed`), `EditsShown` reviews that another request rewrites at the same
time. All four are in [Where code and text disagree](#where-code-and-text-disagree).

## Fairness

* `execution_returns`: time passes and each request does its next possible step
  (`WF` of `Work(r)`): the Go scheduler, a provider client that honours its
  context, the profile's timeout. A request that waits for a slot has no
  timeout and is not promised a return.
* `jobs`: a spawned goroutine registers and tries its last write, and a workflow
  whose context is done returns. A workflow that is not cancelled owes nothing.
* `study_batch`, `page_analysis`, `course_pipeline`, `zettel_jobs`: goroutines take
  their next step (`WF`): external calls return, because they carry a context
  with a timeout or belong to a process that is waited for. Cancels, crashes,
  clients and users are never assumed to come.
* `direct_pdf`: `SF` for each review, because a `sync.Mutex` hands itself to a
  waiter that starves; time passes for the holder of the gate.
* The others check safety only.

## The proofs

All are checked by TLAPS for every value of the constants that satisfies the
named assumptions (`LimiterAssumption`, `ExecutionAssumption`,
`JobsAssumption`, `RotationAssumption`, `InboxAssumption`, `VaultAssumption`,
`IndexAssumption`, `StudyAssumption`, `DirectAssumption`, `PageAnalysisAssumption`,
`ArchiveAssumption`, `NothingAssumption`, `BatchAssumption`, `CourseAssumption`): any
number of callers, targets, jobs, notes, builds, copies, pages, batches, reviews, lanes
and videos, any limits, any clock, any number of faults, crashes and runs.
Nothing is assumed that the code does not ensure: `Minute <= Day <= Retention <=
StoreRetention` are the code's constants, `prepareStudyBatch` puts each copy once in a
batch, pages, workers and sizes of batches are at least one, and a value that stands
for "nothing" is not one of the others (`NothingAssumption`). Of a scenario
only the type is assumed. Three theorems have a hypothesis beyond these, which
they state (`OneLease` of `SleepersAreRemembered`; `AllShown` of `FactsAlwaysKept` and
`CompletedAlwaysMerged`).

* `ExecutionProofs`, on the limiter. `LimiterInv` joins the types, finiteness of the
  sets that are counted, `StoreIsComplete` (a grant younger than the store's
  retention has its row) and `NothingFromTheFuture` with the properties. The budgets
  alone are not inductive: the counters see `events`, the budgets speak of
  `granted`. The bridge is `MemoryIsComplete`, and that survives a restart only
  because of `StoreIsComplete`. A grant then adds one call to a window that, being
  within the retention, memory counted in full. Results: `LimiterTypes`,
  `LeasesAreCounted`, `LeasesAreBounded`, `RestartsForgetNothing`,
  `MinuteBudgetHolds`, `DailyBudgetHolds`. Tokens are a sum over a set; what is needed of
  it (it is a number, grows with the set, and splits at an element) follows
  from the existence of a smallest set that would contradict it, without a
  definition by recursion: `TokenBudgetHolds`. `WaitsAreRight` takes the waits for what they
  are, the time until a certain call leaves the window (`RequestWaitIs`,
  `TokenWaitIs`), and counts what the window holds just before and after it.
* `ExecutionProofs`, on rotation. Rotation by an offset is a permutation of each
  tier: positions of a tier are an interval of the sorted list, and the
  source of a place is injective modulo its length. Results: `TiersAreKept`,
  `NoTargetIsLost`, and as invariants `TiersKeptAlways`, `EveryTargetInOrderAlways`.
  For `RotationIsFair` the invariant says how often each target of the best
  tier was first: of `m` targets, the one in place `i` was `offset \div m` times,
  and once more if `i <= offset % m` (`Share`).
* `ExecutionProofs`, on calls. `Placed` (a request's position lies in its list, a lease
  is out exactly while its call is: `LeasesAlwaysMatchCalls`) is inductive with
  `SettingsInv` (a request's settings are some that were in force). It turns
  statements on leases into statements on calls, and each step into one of `Limiter`
  or none, so that `LimiterInv` holds. For `ExecutionImplementsAdmission`, a step that
  begins a call found room and budget in what the limiter has; the calls of
  the whole history in the same window are a subset of that (`BudgetIsLeft`:
  `MemoryIsComplete` once more, and two instants of one day are less than a retention
  apart), and the calls to a target a subset of the leases on its key (`RoomIsLeft`).
  `ExecutionStaysInBudget` says the same of every window, not only of one that ends now.
  `SlotsAlwaysMatchRequests` counts the requests of each epoch with the
  cardinality theorems of the library. `SleepersAreRemembered` has the hypothesis
  `OneLease`: all targets share one key of one lease and have no budget. `SleepInv`
  says that whoever is put to sleep there has somebody who will wake it: a request in
  a call or on its way out of one, a request that still has targets to try and was
  refused by none, or a token in the channel. The token is passed on because the
  request that takes it looks at a target it may reserve.
* `JobsProofs`. `JobsInv` says for each place of the goroutine what the row may
  be, and that the copies cancel requests hold carry no output, of the jobs no
  client inserted by hand. Results:
  `JobTypes`, `EndingsAreTold`, `OutputsAreComplete`, `ClearedRowsStayCleared`.
* `JobsProofs`, on the vault's jobs. `MetadataInv`: at most one worker is between its
  reading and its writing of the manifest, and the manifest reads as it read it
  (`OneWriter`); what was overwritten is listed, reported, or in the hands of the
  worker that will list it (`Accounted`). A write that is cut ends this (`torn`), and
  a crash ends the workers with the run. Result: `ChangesAlwaysArchived`. `IndexInv`:
  in memory and in the file a vector stands beside the hash of its own text
  (`Sound`), so that a reused one is right; while a build embeds, each note it scanned
  is done or in a batch that is unanswered or not yet collected (`Done`, `Coming`),
  and the batches hold all that was not reused (`BatchesHoldNotes`, by the place
  of a note in its set). Its last write is the only step with which a build ends well.
  Result: `IndexAlwaysCurrent`.
* `InboxProofs`. `LockInv` adds to the property that a run's sources rest when the
  run does not run and that it works only on what it chose; without the two, a
  crash or a new run could be imagined to find a source in the middle of its
  commit. Results: `LockAlwaysHeldWhileCommitting`, and `OneCommitAtATime`: the
  check of one source's destinations and the writes of another of the same run
  never interleave. All else rests on `TypeInv` (`InboxTypes`).
  `SourcesAlwaysRecoverable` holds under any overlap: `RecInv` says that what a
  rollback has undone lies in the inbox or was applied again by another run, and
  that the rollback works on the manifest as it stands, which only a rollback of a
  running run breaks. The rest assumes, as its properties do, that jobs do not
  overlap: then only the newest run works or is undone (`Alone`).
  `FactsAlwaysKept` and `CompletedAlwaysMerged` also assume that every candidate
  fits in its excerpt (`AllShown`), as in the run: a text decided on from
  an excerpt may drop facts. `GrowInv`: what a worker has still to write holds all the
  note holds. `UndoInv`, for `RollbacksAlwaysRestore`: along the runs not undone,
  undoing the manifest of each takes the notes the next one found to those it found
  itself (`Chain`); before a worker overwrites a note, the manifest holds its text
  (`Archived`); and notes that no item left to undo touches are restored already
  (`Undoing`), also after an attempt that stopped half-way. `MergeInv`: what a run
  merged is out of the inbox and in the notes it left, and no later run chose it
  (`Stays`, `Apart`), so that undoing later runs brings none of it back.
* `StudyProofs`. A step of a batch takes the work on one copy from one place to
  another (`Becomes`, `Moves`), and the record of a copy that was answered no
  longer changes: with that `WorkInv` gives `CopiesAreReadOnce`.
  `EndedBatchesAgree` is not inductive: between an item's row and the batch's
  row lie an answer and a count. `RowInv` therefore says that the tallies are the
  cardinalities of the sets of counted copies, and that the rows of items match
  the answers while nothing was cancelled and no write was lost. `RunningRowsAreExplained`
  needs only the phase and the last row, `AnalysesAreKept` is an action
  property: of all steps that write tables, only a client's sync can take them back.
* `DirectProofs`. Two facts hold of any input: `ChunksCoverCopy` (the starts of the
  ranges are 1, 3, 5, ... up to the range that meets the end) and
  `AcceptedPlansKeepAnswers` (what the checks of a plan entail). `ReviewInv`
  carries them through a run: a run at a chunk has covered all chunks before
  it, every usable checkpoint covers its chunk, and questions once accepted keep
  the candidates of that run. Results: `PagesAlwaysAssessed`, `AnswersAlwaysKept`.
  `ExtractInv` says of a chunk without a usable checkpoint that what was extracted was
  lost or is held by a run about to save it, and of one with a checkpoint that what was
  extracted, with the runs still extracting, is at most the reviews there are and what was
  lost (`ChunksExtractedOnce`); `GateInv` says that the gate is held by exactly
  the run that waits or calls and that its wait ends no sooner than the window
  (`CallsAreApart`). For `CallsAlwaysBounded` no tree of halved ranges is needed: the
  ranges still to extract are worth (`Due`) 10, 7, 3 or 1, by their pages, and a split
  leaves parts worth one less (`DueOfSplit`), and a range whose answer is used
  leaves with all its worth; so two calls per unit are an upper bound. `SpentInv` says at each place of a run
  what it may have spent: 20 calls for each chunk it left, at the chunk at hand 20 but two
  for each unit of worth still to come, then the attempts at the plan and the report, and
  two for each question of the accepted plan that has an answer. How many those are the
  provider decides, up to the candidates it found (`QuestionsWithinCandidates`).
* `PageProofs`. `Base` holds the types, the numbering of pages, and the plan as a chain of
  stages of which each may follow the one before (`IsPlan`, `Leads`): which of them
  are still to come is what the other invariants are conditioned on. `Parted`: from the
  ledger on, the questions of a run that has the whole copy partition its
  answers. A question of a ledger is the block of answers since one start and before the
  next, and each answer has one last start before it (`FromLedger`).
  `Texts`: past the OCR every page was read, for better or worse; before, one that was
  not is in the pool, or will be. `Judged`: nothing is assessed before the checkpoint, and a page that is
  assessed and not readable lost its text to a reread that failed. Results:
  `PageTypesHold`, `AnswersInOneQuestion`, `ReadyReviewsAreSound`.
* `TopperProofs`. The archive and the command are typed together (`TopperTypes`), since
  a row, a request and a lane refer to jobs: jobs are only appended and keep what
  they are about (`Grows`, `Eased`), so that references stay good.
  `NothingEverDropped` is a balance: no step changes in how many places a copy or a
  lane is (`CopyCount`, `LaneCount`). `ReviewsAlwaysKept` needs that what was told is what
  is in the directory. For the two action properties the invariant follows a handler:
  a review it owes is in a row, or in a copy that it has not read yet (`OwedInReach`);
  an edit is in the file (`EditsHold`), and a list will have overtaken the older
  copies by it before it answers (`ListsShow`). Results: `TopperTypesHold`,
  `ReviewsAlwaysKept`, `NothingEverDropped`, `NeverAnalysedTwice`, `EditsAlwaysShown`.
* `CourseProofs`. First the operators: a plan takes the videos in order (a sorted set is
  its bijection with ranks), its parts cover them, have at most the limit, and have numbers
  that differ from each other and from those of finished parts. `CourseTypes`: a run's
  state belongs together. `Loss`: a part whose sources are being deleted was
  verified with all of them (`PartInHand`), and every video is in the folder, was
  just deleted from that part, or is in a part that passed the check and that this
  run will not write (`AllPlaced`). `Success`: as long as nothing failed, each pool still has in it
  what it owes (`PoolSmooth`), and the parts up to the aggregator's are good
  (`GoodParts`). Results: `CourseTypesHold`, `NothingEverLost`, `SuccessIsWhole`.

Some theorems are about definitions no run checks (`ActiveCountsHolders`,
`MemoryIsComplete`, `ConcurrencyBound`, `DailyBudget` of `Limiter`,
`EveryTargetInOrder` of `Rotation`,
`OutputMeansCompleted` and `ClearedStaysCleared` of `Jobs`,
`TypeOK` and `LockHeldWhileCommitting` of `InboxMerge`): a proof for all instances makes a run
of one unnecessary.

*Model-checked only*: liveness and all that rests on `ENABLED`
(`EveryRequestReturns`, `CancelSettles`, `UndisturbedBatchEnds`, `ReviewEnds`,
`AnalysisEnds`, `PipelineEnds`, `JobsEnd`), which is out of the prover's reach.

## Where code and text disagree

The properties state what the code promises, so no run fails. Where a comment,
a message or the documentation says more, or a user would expect more:

*Execution and jobs*
* `ErrDailyRateLimit` says "for every available execution target"
  (`internal/execution/errors.go:11`) and is returned as soon as all targets that
  refused for a limit are out of their day (`service.go:155`), although another
  is only busy.
* The README promises that targets of equal priority "rotate fairly"
  (`README.md:297`). The rotation counts targets that are switched off or have no
  provider (`limiter.go:78`), so their turns go to the next target;
  `FairWhenAllOn` says when it is fair.
* A reservation whose row was written but whose write answered an error is refused,
  and its row counts after a restart: the wait that a refused caller is then told
  (`limiter.go`, from the oldest calls of the window) can be too short, since more
  calls are in the window than the target may make. The same holds of targets that
  share a key and have different limits. `WaitIsRight` excepts both.
* A cancel request served between the 202 answer and the registration of the
  cancel function (`core/progress.go:46`) is answered as done, and the job goes on.

*Notes*
* A destination longer than its share of the prompt is replaced by a text the
  model wrote from an excerpt of it (`z/inbox/inbox_prompts.go:86`), while the same
  prompt says that "no useful existing destination fact may disappear"
  (`inbox_prompts.go:54`). The archive has it, and a rollback restores it.
* A metadata run writes a note before it archives its text (`z/metadata/run.go:244`):
  a crash between the two leaves a note that cannot be restored, and what a user
  wrote while the model was asked is lost. Metadata runs have no rollback. With one
  worker the run does not look at its cancellation between notes.
* `manifest.json` is written in place; one that was cut reads as empty and is
  replaced, so earlier items are gone.

*Study*
* A client's POST sync of a review that holds only OCR empties the tables of a
  finished analysis, and a forced rerun's checkpoint sets a finished review back
  to that state. `AnalysisKept` names this exception.
* `startStudyStage` makes rows that nothing runs, and a restart leaves batches
  as they are: their rows read "queued" or "running" for good.

*Direct PDF and topper*
* An answered and an unanswered group must not share pages, but only the pages
  the plan names are compared (`direct_pdf_reconcile.go:505`), not those of its candidates.
* A partial rerun replaces every question that has one of the selected pages
  (`reprocess.go:197`): what it had from other pages is lost unless they are
  selected too.
* A deleted review whose row came back from its file has no job id
  (`topper_archive.go:600`), so a second delete leaves the job's output and the
  next listing brings the review back.
* A review that was edited makes the next run of the command fail: "immutable
  output already contains a different review" (`topper_batch_run.go:351`).
  Resumed runs reuse a finished review (`README.md:151`) by path or by file name:
  a copy that was renamed is analysed again, and one with a namesake in another
  directory gets the namesake's review (`handler.go:311`), which the command
  writes as its own.
* `rejectAlreadyProcessedPDF` (`topper_archive.go:395`) is called by nobody.

*Courses*
* A source that cannot be deleted makes a part fail after it was verified, when
  the sources before it are gone. The pipeline then looks at its parts once more
  (`exportReadyCourseParts` after the loop), under the context the error cancelled,
  and the attempt to merge removes the verified video. `NothingLost` excepts
  these videos (`sticky`).
* A compression that was killed leaves a half-written file, which the next run
  takes for the compressed video (`course_pipeline.go:414`). Verification misses
  what is within 120 s or half a percent of the part, and anything where no length
  is known (`course_pipeline.go:672`): with cleanup the source is deleted then.
  `NothingLost` allows it (`tolerated`), and the run meets it.
* With cleanup and no limit of hours (possible through the API only), the next
  run writes the single part again, without the videos it had.
* A run that falls back from pipelining starts numbering at 1, over the parts of
  an earlier run whose sources are gone.
* A cancelled job returns success. A crash between the verification of a part and
  the deletion of its sources leaves videos that the next run exports again.
* A slide that was cut by a crash is taken for finished, and makes verification
  fail each time until it is deleted by hand. Videos of the same base name share
  their cache.

## Not modelled

Of the modelled parts, beside wording, logging, listing and progress:

* `InboxMerge`: the choice of the latest run when a rollback names none,
  destinations deleted by hand during a run (the `Created` case of a
  before-image), counts of API calls (with which a run over an empty inbox fails),
  training examples, torn writes of `manifest.json`. A run that is rolled
  back while it goes on: the code does not forbid it, and `Recoverable`,
  `RollbackRestores` exclude it.
* `ZettelIndex`: the values of similarities, and the import of an older cache file.
* `StudyBatch`: reviews archived under another id; the texts of prompts.
* `PageAnalysis`: two jobs on one review at the same time (`EditsShown` of
  `TopperBatch` has requests that overlap), the local image pipeline.
* `DirectPDF`: wording checks of questions (one Boolean), metadata, the layout
  of the report, changes of the PDF between two reviews (a checkpoint is "old").
* `TopperBatch`: image analyses, imports of OCR, forced analyses, a preferred
  review id, filters of listings.
* `CoursePipeline`: videos of the same base name or without sound, unreadable
  files, the shutdown of the machine, the shares of workers.

The rest is straight-line conversion around one or two external calls
(documents, images, audio, lectures, news, WhatsApp, Whisper, Codex and Gemini
workflows), HTTP and subprocess clients (`Execution` takes every outcome a call
may have), transfer of files under names of their own, settings (one mutex from
reading to saving), the SQLite schema, pure numbers shown to the user, and the
user interface. They keep no state that two actors share, and a model would only
repeat them; `PROJECT.json` lists each part with the reason.

## Plan

1. `Limiter`: done, proved.
2. `TargetOrder`, `Rotation`, `Execution`: done, proved to implement `Admission`.
3. `Jobs`: done, proved.
4. `InboxMerge`: done, proved.
5. `StudyBatch`: done, proved but for liveness.
6. `Reconcile`, `DirectPDF`: done, proved but for liveness.
7. `AnswerLedger`, `PageAnalysis`; `ReviewArchive`, `TopperBatch`; `CoursePipeline`;
   `ZettelVault`, `MetadataRun`, `ZettelIndex`, `ZettelJobs`: done, proved but for
   liveness.

Of the hazards, a rollback under a
running run and the two torn or late writes of an archive have no property,
because the code does nothing about them.
