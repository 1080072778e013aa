---------------------------- MODULE PageAnalysis ----------------------------
(***************************************************************************)
(* The analysis of a scanned copy and its partial reruns: the pages are    *)
(* rendered and read by pools of workers, failed pages are read once more, *)
(* the OCR is saved as a checkpoint, a second pool classifies the pages,   *)
(* one request draws the boundaries of the answers, and the questions are  *)
(* analysed and reported on.  A run is the list of the stages it still     *)
(* has to do; a call of a model may fail (at most Faults times), be        *)
(* answered badly, or meet a cancelled context.                            *)
(***************************************************************************)
EXTENDS AnswerLedger, Sequences

CONSTANTS Workers,    \* of every pool
          BatchSize,  \* pages of one OCR request
          Faults,     \* bound on failing calls and writes
          Scenarios   \* [pages, kinds, split, serial, reruns]: copies, the
                      \* page kinds a model may report, and requests

ASSUME PageAnalysisAssumption ==
  /\ Workers \in Nat \ {0} /\ BatchSize \in 1..10 /\ Faults \in Nat
  /\ Scenarios \subseteq [pages : Nat \ {0}, kinds : SUBSET STRING, split : BOOLEAN,
                          serial : BOOLEAN, reruns : Nat]

VARIABLES scene,      \* the scenario, with the reruns left
          plan,       \* the stages the run has to do
          selected,   \* the pages a rerun was asked for; {} in a new analysis
          pool,       \* [of, todo, hand, live, erred]: a stage's workers
          failures,   \* pages whose OCR failed and was not yet retried
          page,       \* the pages of the run, see AnswerLedger
          questions, target,  \* its questions, those newly split
          status,     \* "running", "done" or "failed"
          saved,      \* the review stored last: {} or a set of one
          cancelled, faults

content == <<failures, page, questions, target>>
vars == <<scene, plan, selected, pool, content, status, saved, cancelled, faults>>

NoPool == [of |-> "none", todo |-> {}, hand |-> {}, live |-> 0, erred |-> FALSE]
Unread == [text |-> "none", kind |-> "unknown", assessed |-> FALSE]

Fresh == selected = {}
Scope == IF Fresh THEN DOMAIN page ELSE selected
Stage(name) == status = "running" /\ Head(plan) = name
ReadAgain == <<"preflight", "ocr", "retry">>
Regroup == <<"split", "ledger", "dimensions", "report">>

\* The stages of RunWithProgress, from the PDF or from saved pages, and those
\* of ReprocessReview.
Analysis(split) ==
  <<"render">> \o ReadAgain \o <<"checkpoint", "fallback">>
    \o (IF split THEN Regroup ELSE <<"report">>) \o <<"write", "finish">>
Resumed(split) == <<"fallback">> \o (IF split THEN Regroup ELSE <<"report">>) \o <<"finish">>
Rerun(action) ==
  (CASE action = "ocr" -> ReadAgain
     [] action = "questions" -> Regroup
     [] action = "analytics" -> <<"dimensions">>
     [] action = "report" -> <<"report">>
     [] action = "all" -> ReadAgain \o Regroup) \o <<"finish">>

Init ==
  /\ scene \in Scenarios
  /\ plan = Analysis(scene.split) /\ selected = {} /\ pool = NoPool
  /\ failures = {} /\ page = [p \in {} |-> Unread] /\ questions = {} /\ target = {}
  /\ status = "running" /\ saved = {} /\ cancelled = FALSE /\ faults = Faults

Advance == plan' = Tail(plan) /\ pool' = NoPool
           /\ UNCHANGED <<scene, selected, status, cancelled>>

\* A run that ends keeps nothing but what it saved.
Leaves(how) ==
  /\ status' = how /\ plan' = <<>> /\ selected' = {} /\ pool' = NoPool /\ cancelled' = FALSE
  /\ failures' = {} /\ page' = [p \in {} |-> Unread] /\ questions' = {} /\ target' = {}
  /\ UNCHANGED scene
Fail == Leaves("failed") /\ UNCHANGED saved

\* A call fails under a cancelled context, and may fail otherwise.
CallFails == \/ cancelled /\ faults' = faults
             \/ ~cancelled /\ faults > 0 /\ faults' = faults - 1
CallAnswers == ~cancelled /\ faults' = faults
-----------------------------------------------------------------------------
(* Pools: an unbuffered channel between a sender and workers.              *)

Preflighted == CHOOSE p \in Scope : First(Scope, p)
Cut(pages) ==  \* the batches the dispatch loop cuts
  {{p \in pages : Cardinality({q \in pages : q < p}) \div BatchSize = k} : k \in 0..Cardinality(pages)}
    \ {{}}
Asked == IF Fresh THEN ForSplit(page) ELSE AnswerBearing(page) \cap selected
Units(stage) == CASE stage = "render" -> {{p} : p \in 1..scene.pages}
                  [] stage = "ocr" -> Cut(Scope \ {Preflighted})
                  [] stage = "split" -> {{p} : p \in Asked}

OpenPool(stage) ==
  LET size == Cardinality(Units(stage))
  IN  /\ Stage(stage) /\ pool = NoPool
      /\ pool' = [NoPool EXCEPT !.of = stage, !.todo = Units(stage),
                                !.live = IF Workers < size THEN Workers ELSE size]
      /\ UNCHANGED <<scene, plan, selected, content, status, saved, cancelled, faults>>

HandOver ==
  /\ status = "running" /\ Cardinality(pool.hand) < pool.live
  /\ \E unit \in pool.todo :
       pool' = [pool EXCEPT !.todo = @ \ {unit}, !.hand = @ \cup {unit}]
  /\ UNCHANGED <<scene, plan, selected, content, status, saved, cancelled, faults>>

\* The sender leaves when its context is done: the caller's, or the pool's
\* own, which the first error cancels.
StopSending ==
  /\ status = "running" /\ pool.todo # {} /\ (cancelled \/ pool.erred)
  /\ pool' = [pool EXCEPT !.todo = {}]
  /\ UNCHANGED <<scene, plan, selected, content, status, saved, cancelled, faults>>

Drained(stage) == Stage(stage) /\ pool.of = stage /\ pool.todo = {} /\ pool.hand = {}
PutDown(unit) == [pool EXCEPT !.hand = @ \ {unit}]
-----------------------------------------------------------------------------
(* Rendering: renderPDFPagesParallel, or one command for all the pages.    *)

RenderPage == \E unit \in pool.hand :
  /\ Stage("render") /\ ~scene.serial
  /\ \/ /\ ~pool.erred /\ CallAnswers
        /\ page' = [p \in DOMAIN page \cup unit |-> Unread]
        /\ pool' = PutDown(unit)
     \/ /\ CallFails \/ (pool.erred /\ faults' = faults)
        /\ pool' = [PutDown(unit) EXCEPT !.erred = TRUE]
        /\ page' = page
  /\ UNCHANGED <<scene, plan, selected, failures, questions, target, status, saved, cancelled>>

\* The images are numbered in the order of their names.
EndRender ==
  /\ Drained("render") /\ ~scene.serial
  /\ IF pool.erred \/ DOMAIN page = {} THEN Fail
     ELSE /\ Advance
          /\ page' = [p \in 1..Cardinality(DOMAIN page) |-> Unread]
          /\ UNCHANGED <<failures, questions, target, saved>>
  /\ UNCHANGED faults

RenderAtOnce ==
  /\ Stage("render") /\ scene.serial
  /\ \/ CallFails /\ Fail
     \/ /\ CallAnswers /\ Advance
        /\ page' = [p \in 1..scene.pages |-> Unread]
        /\ UNCHANGED <<failures, questions, target, saved>>
-----------------------------------------------------------------------------
(* Reading: OCRImagesWithOptions.                                          *)

ReadAs(pages, text) == page' = [p \in DOMAIN page |->
                                  IF p \in pages THEN [page[p] EXCEPT !.text = text] ELSE page[p]]

\* validateVisionModel: the first page alone; a model without vision and a
\* cancelled context end the run.
Preflight ==
  /\ Stage("preflight")
  /\ \/ /\ CallAnswers /\ Advance
        /\ ReadAs({Preflighted}, "ok") /\ failures' = {}
        /\ UNCHANGED <<questions, target, saved>>
     \/ /\ CallFails /\ ~cancelled /\ Advance
        /\ ReadAs({Preflighted}, "failed") /\ failures' = {Preflighted}
        /\ UNCHANGED <<questions, target, saved>>
     \/ CallFails /\ Fail

ReadBatch == \E unit \in pool.hand :
  /\ Stage("ocr")
  /\ \/ CallAnswers /\ ReadAs(unit, "ok") /\ failures' = failures
     \/ CallFails /\ ReadAs(unit, "failed") /\ failures' = failures \cup unit
  /\ pool' = PutDown(unit)
  /\ UNCHANGED <<scene, plan, selected, questions, target, status, saved, cancelled>>

EndRead ==
  /\ Drained("ocr")
  /\ IF cancelled THEN Fail ELSE Advance /\ UNCHANGED <<content, saved>>
  /\ UNCHANGED faults

\* retryFailedOCRPages: one by one, without a call once cancelled.
RetryPage == \E p \in failures :
  /\ Stage("retry")
  /\ \/ CallAnswers /\ ReadAs({p}, "ok")
     \/ CallFails /\ ReadAs({p}, "failed")
  /\ failures' = failures \ {p}
  /\ UNCHANGED <<scene, plan, selected, pool, questions, target, status, saved, cancelled>>

EndRetry ==
  /\ Stage("retry") /\ failures = {}
  /\ IF \A p \in Scope : page[p].text = "failed"
     THEN Fail ELSE Advance /\ UNCHANGED <<content, saved>>
  /\ UNCHANGED faults

\* The callback saves the review with a question for every page.
Review(qs, ready, whole) ==
  [page |-> page, questions |-> qs, ready |-> ready, whole |-> whole, reread |-> FALSE]
Checkpoint ==
  /\ Stage("checkpoint")
  /\ \/ CallFails /\ Fail
     \/ /\ CallAnswers /\ Advance
        /\ saved' = {Review(OnePerPage(DOMAIN page), FALSE, FALSE)}
        /\ UNCHANGED content
-----------------------------------------------------------------------------
(* The questions: splitQuestions, extractDimensions and the report.        *)

Fallback ==
  /\ Stage("fallback") /\ Advance
  /\ questions' = OnePerPage(AnswerBearing(page))
  /\ UNCHANGED <<failures, page, target, saved, faults>>

\* A page is classified; a page whose two answers cannot be parsed counts as
\* unknown; a worker whose request failed leaves (mutant: without cancelling
\* the pool).
Classified(p, kind, assessed) ==
  page' = [page EXCEPT ![p].kind = kind, ![p].assessed = assessed]
SplitPage == \E unit \in pool.hand, p \in DOMAIN page :
  /\ Stage("split") /\ unit = {p} /\ ~pool.erred /\ CallAnswers
  /\ \/ \E kind \in scene.kinds, told \in BOOLEAN : Classified(p, kind, told)
     \/ Classified(p, "unknown", FALSE)
  /\ pool' = PutDown(unit)
  /\ UNCHANGED <<scene, plan, selected, failures, questions, target, status, saved, cancelled>>

LeaveQuietly(unit) == [PutDown(unit) EXCEPT !.live = @ - 1]
Leave(unit) == [PutDown(unit) EXCEPT !.live = @ - 1, !.erred = TRUE]
SplitFails == \E unit \in pool.hand :
  /\ Stage("split")
  /\ CallFails \/ (pool.erred /\ faults' = faults)
  /\ pool' = Leave(unit)
  /\ UNCHANGED <<scene, plan, selected, content, status, saved, cancelled>>

EndSplit ==
  /\ Drained("split")
  /\ IF pool.erred THEN Fail ELSE Advance /\ UNCHANGED <<content, saved>>
  /\ UNCHANGED faults

\* groupAnswerPages, with a page of its own for every answer if it fails.
Answers == AnswerBearing(page) \cap Scope
\* requestAnswerBoundaryLedger: one call, which is not tried again.
AskedLedgers == IF cancelled THEN {} ELSE Ledgers(Answers)
NewlySplit(qs) ==
  /\ target' = qs
  /\ questions' = IF Fresh THEN qs ELSE Replaced(questions, qs, selected)
Ledger ==
  /\ Stage("ledger") /\ Advance
  /\ IF Answers = {} THEN NewlySplit({}) ELSE
       \/ NewlySplit(OnePerPage(Answers))
       \/ \E ledger \in AskedLedgers :
            Fits(Answers, ledger) /\ NewlySplit(FromLedger(Answers, ledger))
  /\ UNCHANGED <<failures, page, saved, faults>>

\* Each question that needs no review is asked about; a failure leaves what
\* it had.
Dimensions ==
  LET about == IF Fresh THEN questions
               ELSE IF target # {} THEN target
               ELSE Touching(questions, AnswerBearing(page) \cap selected)
      able == IF cancelled THEN {} ELSE {q \in about : ~q.review}
  IN  /\ Stage("dimensions") /\ Advance
      /\ \E told \in SUBSET able :
           LET next == (about \ told) \cup {[q EXCEPT !.analysed = TRUE] : q \in told}
           IN  questions' = IF Fresh THEN next ELSE Replaced(questions, next, selected)
      /\ UNCHANGED <<failures, page, target, saved, faults>>

Call(stage) ==
  /\ Stage(stage)
  /\ \/ CallFails /\ Fail
     \/ CallAnswers /\ Advance /\ UNCHANGED <<content, saved>>
Report == Call("report")
Write == Stage("write") /\ (\/ faults > 0 /\ faults' = faults - 1 /\ Fail
                            \/ Advance /\ UNCHANGED <<content, saved, faults>>)

\* The end of a run, with some or all of the prompts found.
Regrouped == Fresh /\ scene.split
WasReread == \E s \in saved : s.reread \/ (~Fresh /\ \E p \in selected : s.page[p].assessed
                                              /\ page[p].text = "failed")
Finish ==
  /\ Stage("finish") /\ Leaves("done")
  /\ \E matched \in BOOLEAN :
       saved' = {[Review(questions, Satisfies(page, questions, matched), Regrouped)
                    EXCEPT !.reread = WasReread]}
  /\ UNCHANGED faults
-----------------------------------------------------------------------------
Cancel ==
  /\ status = "running" /\ ~cancelled /\ cancelled' = TRUE
  /\ UNCHANGED <<scene, plan, selected, pool, content, status, saved, faults>>

\* A later request for a stored review: the analysis again on its pages, or a
\* rerun of some stages for some pages.
Again == \E s \in saved :
  /\ status # "running" /\ scene.reruns > 0
  /\ scene' = [scene EXCEPT !.reruns = @ - 1]
  /\ \/ selected' = {} /\ plan' = Resumed(scene.split)
     \/ /\ selected' \in SUBSET DOMAIN s.page /\ selected' # {}
        /\ \E action \in {"ocr", "questions", "analytics", "report", "all"} : plan' = Rerun(action)
  /\ page' = s.page /\ questions' = s.questions
  /\ status' = "running"
  /\ UNCHANGED <<pool, failures, target, saved, cancelled, faults>>

Step ==
  \/ \E stage \in {"render", "ocr", "split"} : (stage = "render" => ~scene.serial) /\ OpenPool(stage)
  \/ HandOver \/ StopSending
  \/ RenderPage \/ EndRender \/ RenderAtOnce
  \/ Preflight \/ ReadBatch \/ EndRead \/ RetryPage \/ EndRetry \/ Checkpoint
  \/ Fallback \/ SplitPage \/ SplitFails \/ EndSplit \/ Ledger \/ Dimensions
  \/ Report \/ Write \/ Finish

Next == Step \/ Cancel \/ Again
Spec == Init /\ [][Next]_vars /\ WF_vars(Step)
-----------------------------------------------------------------------------
\* An analysis that was told to split and came to its end covers the copy:
\* every page was rendered and numbered, and every answer on a readable page
\* is in exactly one question, with no other page in any; whatever failed,
\* was retried or could not be parsed on the way.
EveryAnswerOnce == \A s \in saved : s.whole =>
  /\ DOMAIN s.page = 1..scene.pages
  /\ UNION {q.pages : q \in s.questions} = AnswerBearing(s.page)
  /\ \A p \in AnswerBearing(s.page) : Cardinality({q \in s.questions : p \in q.pages}) = 1

\* A review that asks for no review has every page read, unless a later OCR
\* rerun of the page failed, and assessed; its questions are analysed.
ReadyIsSound == \A s \in saved : s.ready /\ ~s.reread =>
  \A p \in DOMAIN s.page : s.page[p].text = "ok" /\ s.page[p].assessed

\* Every run ends, whatever fails and wherever it is cancelled: no sender and
\* no worker of a pool waits for ever for the other.
AnalysisEnds == (status = "running") ~> (status # "running")
=============================================================================
