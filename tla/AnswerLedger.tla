---------------------------- MODULE AnswerLedger ----------------------------
(***************************************************************************)
(* The pure part of the analysis of a copy's pages: which pages hold       *)
(* answers, the questions that a ledger of boundary decisions makes of     *)
(* them, what a partial rerun puts in the place of questions, and what the *)
(* quality summary says of the result.                                     *)
(*                                                                         *)
(* A page is [text, kind, assessed]: its OCR text ("failed" for the notice *)
(* of a failure), its kind, and whether a model assessed its OCR.  A       *)
(* question is [pages, review, analysed]; `review' is "needs review".      *)
(***************************************************************************)
EXTENDS Naturals, FiniteSets

\* answerBearingPages and pagesForQuestionSplit; a page without a kind counts
\* as unknown.
OfKind(page, kinds) == {p \in DOMAIN page : page[p].kind \in kinds}
Readable(page) == {p \in DOMAIN page : page[p].text # "failed"}
AnswerBearing(page) == OfKind(page, {"answer", "unknown"}) \cap Readable(page)
ForSplit(page) == OfKind(page, {"answer", "unknown", "question_paper"}) \cap Readable(page)

\* A ledger says of pages whether an answer is new (with a label that the
\* text shows, or without), continues, or cannot be told: low confidence, a
\* label that is not in the text or one on a continuation all count as that.
Boundaries == {"new", "unlabelled", "continuation", "uncertain"}

\* parseAnswerBoundaryLedger returns decisions on some of the pages, at least on
\* one; a decision with a field that is missing or out of its range, and one on
\* a page there is not, makes the whole answer useless.
Ledgers(pages) == UNION {[decided -> Boundaries] : decided \in (SUBSET pages) \ {{}}}

\* questionsFromBoundaryLedger refuses a ledger that does not decide exactly
\* on the pages.
Fits(pages, ledger) == DOMAIN ledger = pages

\* mergeQuestionBlocks: pages between two starts are one question; the first
\* page starts one whatever the ledger says, and is then to be reviewed
\* (mutant: a continuation without a question before it is left out).
First(pages, p) == \A q \in pages : p <= q
StartsAsTold(pages, ledger) == {p \in pages : ledger[p] # "continuation"}
Starts(pages, ledger) == {p \in pages : First(pages, p) \/ ledger[p] # "continuation"}
Since(pages, ledger, p) == {s \in Starts(pages, ledger) : s <= p}
Block(pages, ledger, p) ==
  {q \in pages : Since(pages, ledger, q) = Since(pages, ledger, p)}
Sure(pages, ledger, p) == ledger[p] = "new"
FromLedger(pages, ledger) ==
  {[pages |-> Block(pages, ledger, p), review |-> ~Sure(pages, ledger, p), analysed |-> FALSE] :
     p \in Starts(pages, ledger)}

\* pageFallbackQuestions.
OnePerPage(pages) == {[pages |-> {p}, review |-> TRUE, analysed |-> FALSE] : p \in pages}

\* replaceQuestionsForPages takes out what touches the selected pages;
\* questionsForPages finds it.
Replaced(questions, next, selected) ==
  {q \in questions : q.pages \cap selected = {}} \cup next
Touching(questions, pages) == {q \in questions : q.pages \cap pages # {}}

\* percent, for numbers of pages and questions, rounded half up.
Percent(part, total) == IF total = 0 THEN 0 ELSE (200 * part + total) \div (2 * total)

\* analysisQuality with `matched' of the questions' prompts found: nothing is
\* left to review.  The pages in question are those nobody assessed (mutant:
\* none is).
NoneInDoubt(page) == {}
InDoubt(page) == {p \in DOMAIN page : ~page[p].assessed}
Satisfies(page, questions, matched) ==
  LET count(set) == Cardinality(set)
  IN  /\ DOMAIN page # {} /\ questions # {}
      /\ Percent(count(DOMAIN page \ OfKind(page, {"unknown"})), count(DOMAIN page)) >= 90
      /\ InDoubt(page) = {}
      /\ matched
      /\ Percent(count({q \in questions : q.analysed}), count(questions)) >= 90
      /\ \A q \in questions : ~q.review
=============================================================================
