----------------------------- MODULE DirectPDF ------------------------------
(***************************************************************************)
(* The review of an answer copy that a provider reads as a PDF.  A short   *)
(* copy is one request.  A longer one is cut into overlapping chunks; each *)
(* is extracted (in smaller ranges when its answer cannot be used) and     *)
(* kept in a checkpoint file, then the answers found are reconciled, a     *)
(* report is written and analyses are refreshed.  Reviews of one copy      *)
(* share its checkpoints, and those of one Gemini lane a gate that starts  *)
(* a reconciliation call at most once in a window.                         *)
(***************************************************************************)
EXTENDS Reconcile, Sequences, Functions

CONSTANTS
  Review,
  Scenario,      \* what may happen: see DirectAssumption
  Window         \* the quota window in ticks (61 s in the code)

\* Number of the attempts at a prompt, a plan, a report and a refresh.
Prompts == 2
Plans == 3
Reports == 3
Refreshes == 2

\* A scenario has the pages of the copy and its answers (sets of pages),
\* whether the provider is a Gemini lane, whether an earlier review kept all
\* chunks, whether plans are other than the right one, and bounds on bad
\* answers of the provider, crashes, cancels and how often a review is asked.
ASSUME DirectAssumption ==
  /\ IsFiniteSet(Review) /\ "free" \notin Review
  /\ Window \in Nat
  /\ \A s \in Scenario :
       /\ s.pages \in Nat \ {0}
       /\ s.answers \subseteq (SUBSET (1 .. s.pages)) \ {{}}
       /\ s.lane \in BOOLEAN /\ s.kept \in BOOLEAN /\ s.strays \in BOOLEAN
       /\ s.bad \in Nat /\ s.crashes \in Nat /\ s.cancels \in Nat
       /\ s.runs \in [Review -> Nat]

VARIABLES
  copy, chunks, \* the scenario, and the ranges planned: they do not change
  checkpoint,   \* the checkpoint file of each chunk
  job,          \* each review's run
  gate,         \* directPDFReconciliationQuotaGates of the lane
  quiet,        \* ticks since a reconciliation call last started
  extracted,    \* how often each chunk was extracted to its end (counted to see it)
  lost,         \* and how often what was extracted could not be kept
  left          \* what is left of the scenario's bounds

paid == <<extracted, lost>>
directVars == <<copy, chunks, checkpoint, job, gate, quiet, paid, left>>
-----------------------------------------------------------------------------
Short == copy.pages <= ChunkPages
NoRange == [first |-> 0, last |-> 0]
NoFile == [is |-> "none", ranges |-> {}]
OldFile == [is |-> "old", ranges |-> {}]   \* of other prompts or another version

\* A run: the chunk at hand, the ranges of it still to extract and those
\* done, the results by chunk, the questions accepted.
NoRun == [at |-> "idle", chunk |-> NoRange, todo |-> <<>>, got |-> {},
          results |-> [c \in chunks |-> {}], attempt |-> 1, questions |-> {},
          stale |-> 0, wait |-> 0, calls |-> 0, cancelled |-> FALSE]

\* reconcileDirectPDFChunks: first the boundaries, with them the report.
Asking == {"boundaries", "report"}
At(r, place) == job[r].at = place
Set(r, run) == job' = [job EXCEPT ![r] = run]
Failed(r) == [job[r] EXCEPT !.at = "failed"]
Call(run) == [run EXCEPT !.calls = @ + 1]

Init ==
  /\ copy \in Scenario
  /\ chunks = Chunks(copy.pages)
  /\ IF copy.kept THEN checkpoint = [c \in chunks |-> [is |-> "saved", ranges |-> {c}]]
     ELSE checkpoint \in [chunks -> {NoFile, OldFile}]
  /\ job = [r \in Review |-> NoRun]
  /\ gate = [holder |-> "free", started |-> FALSE]
  /\ quiet = Window
  /\ extracted = [c \in chunks |-> 0] /\ lost = [c \in chunks |-> 0]
  /\ left = [bad |-> copy.bad, crashes |-> copy.crashes, cancels |-> copy.cancels,
             runs |-> copy.runs]

\* An answer that cannot be used (the parsers and normalizers of manifests tell,
\* for a whole copy and for a chunk); a call that fails, as those of a cancelled
\* run do, or a file that cannot be read or written; and none of these.
Bad == left.bad > 0 /\ left' = [left EXCEPT !.bad = @ - 1]
Good == UNCHANGED left
Broken(r) == IF job[r].cancelled THEN Good ELSE Bad
-----------------------------------------------------------------------------
\* directPDFReview.
Begin(r) ==
  /\ job[r].at \in {"idle", "failed"} /\ left.runs[r] > 0
  /\ left' = [left EXCEPT !.runs[r] = @ - 1]
  /\ Set(r, [NoRun EXCEPT !.at = IF Short THEN "oneshot" ELSE "look",
                          !.chunk = [first |-> 1, last |-> Least(ChunkPages, copy.pages)]])
  /\ UNCHANGED <<copy, chunks, checkpoint, gate, quiet, paid>>

\* directPDFOneShotReview: the answer is taken if it covers the questions it
\* detected; no page is checked.
OneShot(r) ==
  /\ At(r, "oneshot")
  /\ LET run == Call(job[r]) IN
     \/ Good /\ Set(r, [run EXCEPT !.at = "done"])
     \/ Bad /\ job[r].attempt < Prompts /\ Set(r, [run EXCEPT !.attempt = @ + 1])
     \/ Broken(r) /\ Set(r, [run EXCEPT !.at = "failed"])
  /\ UNCHANGED <<copy, chunks, checkpoint, gate, quiet, paid>>

\* loadDirectPDFChunkCheckpoint, of the run's chunk; then the next chunk.
Current(c) == checkpoint[c].is = "saved"
NextChunk(chunk) ==
  CHOOSE c \in chunks : c.first = chunk.first + ChunkPages - ChunkOverlap
After(run) ==
  IF \A c \in chunks : c.first <= run.chunk.first
  THEN [run EXCEPT !.at = "boundaries", !.attempt = 1]
  ELSE [run EXCEPT !.at = "look", !.todo = <<>>, !.got = {}, !.chunk = NextChunk(@)]
Keep(run, ranges) == After([run EXCEPT !.results[run.chunk] = ranges])

LookAtChunk(r) ==
  /\ At(r, "look")
  /\ \/ Broken(r) /\ Set(r, Failed(r))
     \/ /\ ~job[r].cancelled /\ Good
        /\ \/ /\ Current(job[r].chunk)
              /\ Set(r, Keep(job[r], checkpoint[job[r].chunk].ranges))
           \/ /\ ~Current(job[r].chunk)
              /\ Set(r, [job[r] EXCEPT !.at = "extract", !.todo = <<job[r].chunk>>,
                                       !.attempt = 1])
  /\ UNCHANGED <<copy, chunks, checkpoint, gate, quiet, paid>>

\* extractDirectPDFChunk, one call for a range: its answer is complete; or the
\* range is asked for again; or the call itself fails.
ExtractRange(r, run) ==
  \/ Good /\ Set(r, [run EXCEPT !.got = @ \cup {Head(run.todo)}, !.todo = Tail(@), !.attempt = 1])
  \/ Bad /\ run.attempt < Prompts /\ Set(r, [run EXCEPT !.attempt = @ + 1])
  \/ Broken(r) /\ Set(r, [run EXCEPT !.at = "failed"])

\* extractDirectPDFChunkWithFallback: a range whose answers cannot be used is
\* split, and its parts come next; after the last one the chunk is paid for.
InOrder(ranges) ==
  CHOOSE s \in [1..Cardinality(ranges) -> ranges] :
    \A i, j \in DOMAIN s : i < j => s[i].first < s[j].first
Extract(r) ==
  /\ At(r, "extract") /\ job[r].todo # <<>>
  /\ LET run == Call(job[r])
         range == Head(run.todo)
     IN \/ ExtractRange(r, run)
        \/ /\ Bad /\ range.first < range.last
           /\ Set(r, [run EXCEPT !.todo = InOrder(Split(range)) \o Tail(@), !.attempt = 1])
  /\ extracted' = IF job'[r].todo = <<>> THEN [extracted EXCEPT ![job[r].chunk] = @ + 1] ELSE extracted
  /\ UNCHANGED <<copy, chunks, checkpoint, gate, quiet, lost>>

\* mergeDirectPDFFallbackChunk: no page of the chunk may be left out.
Merged(run) == PagesOf(run.chunk) \subseteq UNION {PagesOf(range) : range \in run.got}

\* saveDirectPDFChunkCheckpoint: a file that can be used is kept, any other is
\* replaced by a rename (mutant: any file is kept).
SavedOnce(c, ranges) ==
  IF checkpoint[c] # NoFile THEN checkpoint[c] ELSE [is |-> "saved", ranges |-> ranges]
Saved(c, ranges) == IF Current(c) THEN checkpoint[c] ELSE [is |-> "saved", ranges |-> ranges]
SaveChunk(r) ==
  /\ At(r, "extract") /\ job[r].todo = <<>>
  /\ \/ /\ Merged(job[r]) /\ Good /\ UNCHANGED lost
        /\ checkpoint' = [checkpoint EXCEPT ![job[r].chunk] = Saved(job[r].chunk, job[r].got)]
        /\ Set(r, Keep(job[r], job[r].got))
     \/ /\ Set(r, Failed(r)) /\ UNCHANGED checkpoint
        /\ lost' = [lost EXCEPT ![job[r].chunk] = @ + 1]
        /\ \/ ~Merged(job[r]) /\ Good
           \/ Bad
  /\ UNCHANGED <<copy, chunks, gate, quiet, extracted>>
-----------------------------------------------------------------------------
(***************************************************************************)
(* runDirectPDFReconciliationDocument: on a Gemini lane a call holds the   *)
(* lane's gate from the time it looks at the clock until it is answered.   *)
(***************************************************************************)
Delay == IF gate.started /\ quiet < Window THEN Window - quiet ELSE 0

\* Mutant: the gate is free during the wait.
GateOpen == TRUE
GateFree == gate.holder = "free"
EnterGate(r) ==
  /\ job[r].at \in Asking /\ copy.lane /\ GateFree
  /\ gate' = [gate EXCEPT !.holder = r]
  /\ Set(r, [job[r] EXCEPT !.at = IF @ = "report" THEN "wait report" ELSE "wait boundaries",
                           !.wait = Delay])
  /\ UNCHANGED <<copy, chunks, checkpoint, quiet, paid, left>>

Waiting == {"wait boundaries", "wait report"}
Leave == gate' = [gate EXCEPT !.holder = "free"]
\* Mutant: without a deferred unlock.
KeepGate == UNCHANGED gate
LeaveAfterWait == Leave
GiveUpWait(r) ==
  /\ job[r].at \in Waiting /\ job[r].cancelled /\ job[r].wait > 0
  /\ LeaveAfterWait /\ Set(r, Failed(r))
  /\ UNCHANGED <<copy, chunks, checkpoint, quiet, paid, left>>

\* The call starts; without a lane there is no gate.
StartCall(r) ==
  /\ \/ copy.lane /\ job[r].at \in Waiting /\ job[r].wait = 0
     \/ ~copy.lane /\ job[r].at \in Asking
  /\ gate' = IF copy.lane THEN [gate EXCEPT !.started = TRUE] ELSE gate
  /\ quiet' = IF copy.lane THEN 0 ELSE quiet
  /\ Set(r, [Call(job[r]) EXCEPT
               !.at = IF @ \in {"report", "wait report"} THEN "reporting" ELSE "reconciling"])
  /\ UNCHANGED <<copy, chunks, checkpoint, paid, left>>

Tick ==
  /\ gate.holder # "free" /\ quiet < Window
  /\ quiet' = Least(quiet + 1, Window)
  /\ job' = [r \in Review |-> [job[r] EXCEPT !.wait = IF @ > 0 THEN @ - 1 ELSE 0]]
  /\ UNCHANGED <<copy, chunks, checkpoint, gate, paid, left>>
-----------------------------------------------------------------------------
(***************************************************************************)
(* What the model answers.  directPDFCandidates: every answer of the copy  *)
(* that a range shows is a candidate.  Of plans the model may return, the  *)
(* right one has a group for each answer; the others give one candidate,   *)
(* or each, a group of its own, put one in other groups, in none or in     *)
(* two, call an answer blank, claim too few pages, merge the text or not.  *)
(***************************************************************************)
CandidateIds(run) ==
  {[chunk |-> c, range |-> g, answer |-> a] :
     c \in chunks, g \in UNION Range(run.results), a \in copy.answers}
Candidates(run) ==
  LET seen == {id \in CandidateIds(run) :
                 id.range \in run.results[id.chunk] /\ id.answer \cap PagesOf(id.range) # {}}
  IN  [id \in seen |-> [pages |-> id.answer \cap PagesOf(id.range), written |-> TRUE]]

NoCandidate == [chunk |-> NoRange, range |-> NoRange, answer |-> {}]
Fullest(cands, ids) ==
  CHOOSE i \in ids : \A j \in ids : Cardinality(cands[j].pages) <= Cardinality(cands[i].pages)

\* A group has the id of a candidate that is alone in it, or of an answer.
OfAnswer(a) == [NoCandidate EXCEPT !.answer = a]
PlanOf(cands, v) ==
  LET ids(g) == IF g \in v.alone THEN {g}
                ELSE {i \in DOMAIN cands \ v.alone :
                        IF i = v.moved THEN g.answer \in v.to ELSE i.answer = g.answer}
      pages(g) == IF v.wide \/ ids(g) = {} THEN g.answer ELSE cands[Fullest(cands, ids(g))].pages
      blank(g) == g \notin v.alone /\ g.answer = v.blank
      group(g) == [id |-> g, ids |-> ids(g), pages |-> pages(g), sound |-> TRUE,
                   status |-> IF blank(g) THEN "unanswered" ELSE "answered",
                   canonical |-> IF blank(g) \/ ids(g) = {} THEN {}
                                 ELSE {Fullest(cands, ids(g))},
                   merged |-> v.merged /\ ~blank(g)]
      used == v.alone \cup {g \in {OfAnswer(a) : a \in copy.answers} : v.alone = {} \/ ids(g) # {}}
  IN  [groups |-> [g \in used |-> group(g)], slots |-> Cardinality(used),
       answered |-> Cardinality({g \in used : ~blank(g)})]
Variants(cands) ==
  IF copy.strays
  THEN [moved : DOMAIN cands \cup {NoCandidate}, alone : {{}}, to : SUBSET copy.answers,
        blank : copy.answers \cup {{}}, merged : BOOLEAN, wide : BOOLEAN]
       \cup [moved : {NoCandidate}, alone : {{i} : i \in DOMAIN cands} \cup {DOMAIN cands}, to : {{}},
             blank : copy.answers \cup {{}}, merged : BOOLEAN, wide : BOOLEAN]
  ELSE {[moved |-> NoCandidate, alone |-> {}, to |-> {}, blank |-> {}, merged |-> TRUE, wide |-> TRUE]}

\* One attempt of reconcileDirectPDFBoundaries.
AnswerPlan(r) ==
  /\ At(r, "reconciling") /\ Leave
  /\ LET run == job[r]
         cands == Candidates(run)
     IN \/ \E v \in Variants(cands) :
             LET plan == PlanOf(cands, v) IN
             /\ Accepts(cands, plan, copy.pages) /\ Good
             /\ Set(r, [run EXCEPT !.at = "report", !.attempt = 1,
                                   !.questions = QuestionsOf(cands, plan)])
        \/ /\ \/ copy.strays /\ Good
              \/ ~copy.strays /\ Bad
           /\ Set(r, IF run.attempt < Plans
                     THEN [run EXCEPT !.at = "boundaries", !.attempt = @ + 1]
                     ELSE Failed(r))
        \/ Broken(r) /\ Set(r, Failed(r))
  /\ UNCHANGED <<copy, chunks, checkpoint, quiet, paid>>

\* One attempt of synthesizeDirectPDFReport; then some analyses are stale.
AnswerReport(r) ==
  /\ At(r, "reporting") /\ Leave
  /\ LET run == job[r] IN
     \/ \E n \in 0 .. Cardinality({q \in run.questions : q.status = "answered"}) :
          Good /\ Set(r, [run EXCEPT !.at = "refresh", !.attempt = 1, !.stale = n])
     \/ /\ Bad
        /\ Set(r, IF run.attempt < Reports
                  THEN [run EXCEPT !.at = "report", !.attempt = @ + 1] ELSE Failed(r))
     \/ Broken(r) /\ Set(r, Failed(r))
  /\ UNCHANGED <<copy, chunks, checkpoint, quiet, paid>>

\* refreshDirectPDFInternalProcessingAnalysis, a call for one question.
Refresh(r) ==
  /\ At(r, "refresh")
  /\ LET run == Call(job[r]) IN
     \/ job[r].stale = 0 /\ Good /\ Set(r, [job[r] EXCEPT !.at = "done"])
     \/ run.stale > 0 /\ Good /\ Set(r, [run EXCEPT !.stale = @ - 1, !.attempt = 1])
     \/ /\ run.stale > 0 /\ Bad /\ run.attempt < Refreshes
        /\ Set(r, [run EXCEPT !.attempt = @ + 1])
     \/ run.stale > 0 /\ Broken(r) /\ Set(r, Failed(r))
  /\ UNCHANGED <<copy, chunks, checkpoint, gate, quiet, paid>>
-----------------------------------------------------------------------------
Cancel(r) ==
  /\ job[r].at \notin {"idle", "done", "failed"} /\ ~job[r].cancelled
  /\ left.cancels > 0 /\ left' = [left EXCEPT !.cancels = @ - 1]
  /\ Set(r, [job[r] EXCEPT !.cancelled = TRUE])
  /\ UNCHANGED <<copy, chunks, checkpoint, gate, quiet, paid>>

\* The process dies: runs and gates are gone, with what they had extracted and
\* not yet kept; checkpoint files are whole.
Unkept(c) == {r \in Review : At(r, "extract") /\ job[r].chunk = c /\ job[r].todo = <<>>}
Crash ==
  /\ left.crashes > 0 /\ left' = [left EXCEPT !.crashes = @ - 1]
  /\ job' = [r \in Review |-> NoRun]
  /\ gate' = [holder |-> "free", started |-> FALSE]
  /\ lost' = [c \in chunks |-> lost[c] + Cardinality(Unkept(c))]
  /\ UNCHANGED <<copy, chunks, checkpoint, quiet, extracted>>

Step(r) ==
  \/ OneShot(r) \/ LookAtChunk(r) \/ Extract(r) \/ SaveChunk(r)
  \/ EnterGate(r) \/ GiveUpWait(r) \/ StartCall(r)
  \/ AnswerPlan(r) \/ AnswerReport(r) \/ Refresh(r)
Next == (\E r \in Review : Begin(r) \/ Step(r) \/ Cancel(r)) \/ Tick \/ Crash

Spec == Init /\ [][Next]_directVars
\* Runs go on; a review that waits for the gate gets it although others take
\* it (a sync.Mutex hands itself to a starving goroutine).
FairSpec == Spec /\ WF_directVars(Tick) /\ \A r \in Review : SF_directVars(Step(r))

\* mergeDirectPDFChunkPages: a page that no range shows has no assessment.
Assessed(run) == {p \in 1 .. copy.pages : \E c \in chunks : \E g \in run.results[c] : p \in PagesOf(g)}
-----------------------------------------------------------------------------
\* A chunked review that ends well has assessed every page of the copy: the
\* ranges of each chunk cover the chunk, whether they were extracted in this
\* run, split in smaller ones or read from a checkpoint.
PagesAssessed ==
  \A r \in Review : At(r, "done") /\ ~Short =>
    /\ \A c \in chunks : PagesOf(c) \subseteq UNION {PagesOf(g) : g \in job[r].results[c]}
    /\ Assessed(job[r]) = 1 .. copy.pages

\* No answer found is dropped or put in two questions, a question has all
\* pages its candidates were seen on, and an answer taken over from one
\* candidate was seen on all of them.
AnswersKept ==
  \A r \in Review : At(r, "done") /\ ~Short =>
    LET cands == Candidates(job[r]) IN
    /\ \A i \in DOMAIN cands :
         \E q \in job[r].questions :
            /\ cands[i].pages \subseteq q.pages
            /\ {p \in job[r].questions : i \in p.from} = {q}
    /\ \A q \in job[r].questions : q.status = "answered" /\ ~q.merged =>
         \E i \in q.from : q.canonical = {i} /\ q.pages \subseteq cands[i].pages

\* However often a review fails, is cut off or is asked for again, a chunk is
\* paid for once, by each of the reviews that are at it together, and once more
\* only for each time that what was extracted could not be saved, or the
\* process died before it was.
ExtractedOnce == \A c \in chunks : extracted[c] <= Cardinality(Review) + lost[c]

\* A run makes a bounded number of calls, however the answers are split in
\* questions: at most 10 ranges come of a chunk of 4 pages, and two calls go to
\* each question of the accepted plan that has an answer.
CallsBounded ==
  \A r \in Review :
    job[r].calls <= Cardinality(chunks) * 10 * Prompts + Plans + Reports
                      + Refreshes * Cardinality({q \in job[r].questions : q.status = "answered"})

\* Reconciliation calls of one lane start a window apart, unless the process
\* was restarted in between, and only one is in flight.
CallsApart ==
  [][\A r \in Review : StartCall(r) /\ copy.lane =>
       /\ gate.started => quiet = Window
       /\ \A o \in Review : job[o].at \notin {"reconciling", "reporting"}]_directVars

\* A review ends, done or failed (or dies with the process).
ReviewEnds ==
  \A r \in Review :
    job[r].at \notin {"idle", "done", "failed"} ~> job[r].at \in {"idle", "done", "failed"}
=============================================================================
