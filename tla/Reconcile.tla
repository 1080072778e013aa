----------------------------- MODULE Reconcile ------------------------------
(***************************************************************************)
(* The pure part of a direct PDF review: how a copy is cut into page       *)
(* ranges, and when the plan that a model returns for the answers found in *)
(* the ranges is accepted, and what questions it makes.  A candidate is an *)
(* answer seen in one range, with the pages of it that the range shows;    *)
(* `sound' stands for what is checked of a group's wording: a label or     *)
(* title, a reason, a confidence between 0 and 1, nothing listed twice.    *)
(***************************************************************************)
EXTENDS Naturals, FiniteSets

ChunkPages == 4
ChunkOverlap == 2
FallbackPages == 2
FallbackOverlap == 1

PagesOf(range) == range.first .. range.last

\* Mutant: the last range is as long as the others.
FirstOf(a, b) == a
Least(a, b) == IF a < b THEN a ELSE b

\* The loop of planDirectPDFChunks and of splitDirectPDFChunkForFallback:
\* windows of `size' pages that overlap, up to the one that meets the end.
\* A window follows another whose last page comes before the end (mutant:
\* unless less than a step is left).
NextFitsWhole(first, hi, size, step) == first + size - 1 + step <= hi
NextFits(first, hi, size, step) == first + size - 1 < hi
Windows(lo, hi, size, overlap) ==
  LET step == size - overlap
      starts == {lo} \cup {f \in (lo + step) .. hi :
                             /\ (f - lo) % step = 0
                             /\ NextFits(f - step, hi, size, step)}
  IN  {[first |-> f, last |-> Least(f + size - 1, hi)] : f \in starts}

Chunks(pageCount) == Windows(1, pageCount, ChunkPages, ChunkOverlap)

\* Mutant: a range of two pages is tried again as it is.
SplitKeepingPairs(range) ==
  Windows(range.first, range.last, FallbackPages, FallbackOverlap)
Split(range) ==
  IF range.last - range.first + 1 <= FallbackPages
  THEN {[first |-> p, last |-> p] : p \in PagesOf(range)}
  ELSE Windows(range.first, range.last, FallbackPages, FallbackOverlap)
-----------------------------------------------------------------------------
(***************************************************************************)
(* A plan [groups, slots, answered] for candidates, a function from ids to *)
(* [pages, written].  A group is [id, status, ids, canonical, pages,       *)
(* merged, sound]: `canonical' holds the id it names, if any, and `merged' *)
(* says that it brings a merged answer.                                    *)
(***************************************************************************)
Groups(plan) == DOMAIN plan.groups

\* validateDirectPDFReconciliationGroup.
GroupFits(group, pageCount) ==
  /\ group.status \in {"answered", "unanswered"}
  /\ group.sound
  /\ group.pages # {} /\ group.pages \subseteq 1..pageCount
  /\ group.ids # {}
  /\ group.status = "unanswered" => group.canonical = {} /\ ~group.merged

\* validateDirectPDFCandidates; that no two have one id is their being a function.
CandidatesFit(candidates, pageCount) ==
  \A id \in DOMAIN candidates : candidates[id].pages \in (SUBSET (1..pageCount)) \ {{}}

\* parseDirectPDFReconciliation: a list of groups, which is not empty.
Parsed(plan) == IsFiniteSet(Groups(plan)) /\ Groups(plan) # {}

\* normalizeDirectPDFReconciliationGroups: no two groups have one id.
GroupsFit(plan, pageCount) ==
  /\ \A g \in Groups(plan) : GroupFits(plan.groups[g], pageCount)
  /\ \A g, h \in Groups(plan) : plan.groups[g].id = plan.groups[h].id => g = h

\* validateDirectPDFAnsweredUnansweredOverlap.
StatusesApart(plan) ==
  \A g, h \in Groups(plan) :
    plan.groups[g].status # plan.groups[h].status =>
      plan.groups[g].pages \cap plan.groups[h].pages = {}

\* assignDirectPDFGroupCandidates, and validateDirectPDFCandidateAssignments,
\* which misses no candidate (the former is a mutant of the latter).
AtMostOnce(candidates, plan) ==
  /\ \A g \in Groups(plan) : plan.groups[g].ids \subseteq DOMAIN candidates
  /\ \A g, h \in Groups(plan) : plan.groups[g].ids \cap plan.groups[h].ids # {} => g = h
AssignedOnce(candidates, plan) ==
  /\ AtMostOnce(candidates, plan)
  /\ \A id \in DOMAIN candidates : \E g \in Groups(plan) : id \in plan.groups[g].ids

\* The pages of a question: its group's and directPDFCandidatePages.
CandidatePages(candidates, group) == UNION {candidates[id].pages : id \in group.ids}
AllPages(candidates, group) == group.pages \cup CandidatePages(candidates, group)

\* buildDirectPDFReconciledQuestion: the merged answer, or the answer of a
\* canonical candidate that covers all pages (mutant: the group's pages).
CoversGroup(candidates, group, id) == group.pages \subseteq candidates[id].pages
CoversAll(candidates, group, id) ==
  AllPages(candidates, group) \subseteq candidates[id].pages
AnswerStands(candidates, group) ==
  \/ group.status = "unanswered"
  \/ \E id \in group.ids :
       /\ group.canonical = {id}
       /\ \/ group.merged
          \/ CoversAll(candidates, group, id) /\ candidates[id].written

\* validateDirectPDFReconciliationInventory.
InventoryMatches(plan) ==
  /\ plan.slots = Cardinality(Groups(plan))
  /\ plan.answered = Cardinality({g \in Groups(plan) : plan.groups[g].status = "answered"})

\* applyDirectPDFReconciliation of a plan that was parsed.
Accepts(candidates, plan, pageCount) ==
  /\ Parsed(plan)
  /\ CandidatesFit(candidates, pageCount)
  /\ GroupsFit(plan, pageCount)
  /\ StatusesApart(plan)
  /\ AssignedOnce(candidates, plan)
  /\ \A g \in Groups(plan) : AnswerStands(candidates, plan.groups[g])
  /\ InventoryMatches(plan)

QuestionOf(candidates, group) ==
  [status |-> group.status, from |-> group.ids, pages |-> AllPages(candidates, group),
   merged |-> group.merged, canonical |-> group.canonical]
QuestionsOf(candidates, plan) ==
  {QuestionOf(candidates, plan.groups[g]) : g \in Groups(plan)}
=============================================================================
