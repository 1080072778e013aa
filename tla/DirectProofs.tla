---------------------------- MODULE DirectProofs ----------------------------
(***************************************************************************)
(* Direct PDF reviews for copies of any length, any answers and plans of   *)
(* the provider, any number of reviews at once: a review that ends well    *)
(* has read every page and kept every answer, a chunk is extracted once by *)
(* each review at most and once more for each time that was lost, the      *)
(* calls of a lane are a window apart, and those of a run are bounded by   *)
(* the length of the copy and the questions of its plan.                   *)
(***************************************************************************)
EXTENDS DirectPDF, FiniteSetTheorems, TLAPS

\* The chunks of a copy begin two pages apart, up to the one that meets its end.
LEMMA ChunkStarts ==
  ASSUME NEW n \in Nat \ {0}
  PROVE  Chunks(n) = {[first |-> f, last |-> Least(f + 3, n)] :
                        f \in {1} \cup {g \in 3..n : g % 2 = 1 /\ g + 1 < n}}
<1>1. \A f \in 3..n : (f - 1) % 2 = 0 <=> f % 2 = 1
  OBVIOUS
<1>2. QED
  BY <1>1 DEF Chunks, Windows, NextFits, ChunkPages, ChunkOverlap

THEOREM ChunksCoverCopy ==
  ASSUME NEW n \in Nat \ {0}
  PROVE  UNION {PagesOf(c) : c \in Chunks(n)} = 1..n
<1>1. ASSUME NEW c \in Chunks(n) PROVE PagesOf(c) \subseteq 1..n
  BY ChunkStarts DEF PagesOf, Least
<1>2. ASSUME NEW p \in 1..n PROVE \E c \in Chunks(n) : p \in PagesOf(c)
  <2> DEFINE f == IF p % 2 = 1 THEN IF p = 1 \/ p + 1 < n THEN p ELSE p - 2
                  ELSE IF p = 2 \/ p < n THEN p - 1 ELSE p - 3
             c == [first |-> f, last |-> Least(f + 3, n)]
  <2>1. p % 2 \in {0, 1} /\ (p % 2 = 1 => (p - 2) % 2 = 1) /\ (p % 2 = 0 => (p - 1) % 2 = 1 /\ (p - 3) % 2 = 1)
    OBVIOUS
  <2>2. f \in {1} \cup {g \in 3..n : g % 2 = 1 /\ g + 1 < n}
    BY <2>1
  <2>3. c \in Chunks(n)
    BY <2>2, ChunkStarts
  <2>4. p \in PagesOf(c)
    BY <2>1 DEF PagesOf, Least
  <2>5. QED
    BY <2>3, <2>4
<1>3. QED
  BY <1>1, <1>2
-----------------------------------------------------------------------------
(***************************************************************************)
(* An accepted plan keeps every candidate in one question.                 *)
(***************************************************************************)
KeepsAnswers(cands, questions) ==
  /\ \A i \in DOMAIN cands :
       \E q \in questions :
          /\ cands[i].pages \subseteq q.pages
          /\ {p \in questions : i \in p.from} = {q}
  /\ \A q \in questions : q.status = "answered" /\ ~q.merged =>
       \E i \in q.from : q.canonical = {i} /\ q.pages \subseteq cands[i].pages

\* What applyDirectPDFReconciliation accepts loses no answer.
THEOREM AcceptedPlansKeepAnswers ==
  ASSUME NEW cands, NEW plan, NEW n, Accepts(cands, plan, n)
  PROVE  KeepsAnswers(cands, QuestionsOf(cands, plan))
<1> DEFINE q(g) == QuestionOf(cands, plan.groups[g])
<1>1. QuestionsOf(cands, plan) = {q(g) : g \in Groups(plan)}
  BY DEF QuestionsOf
<1>2. \A g \in Groups(plan) : /\ q(g).status = plan.groups[g].status /\ q(g).from = plan.groups[g].ids
                              /\ q(g).pages = AllPages(cands, plan.groups[g])
                              /\ q(g).merged = plan.groups[g].merged
                              /\ q(g).canonical = plan.groups[g].canonical
  BY DEF QuestionOf
<1>3. AssignedOnce(cands, plan) /\ \A g \in Groups(plan) : AnswerStands(cands, plan.groups[g])
  BY DEF Accepts
<1> HIDE DEF q
<1>4. ASSUME NEW i \in DOMAIN cands
      PROVE  \E p \in QuestionsOf(cands, plan) :
               /\ cands[i].pages \subseteq p.pages
               /\ {o \in QuestionsOf(cands, plan) : i \in o.from} = {p}
  <2>1. PICK g \in Groups(plan) : i \in plan.groups[g].ids
    BY <1>3 DEF AssignedOnce
  <2>2. \A h \in Groups(plan) : i \in plan.groups[h].ids => h = g
    BY <1>3, <2>1 DEF AssignedOnce, AtMostOnce
  <2>3. cands[i].pages \subseteq q(g).pages
    BY <1>2, <2>1 DEF AllPages, CandidatePages
  <2>4. {o \in QuestionsOf(cands, plan) : i \in o.from} = {q(g)}
    BY <1>1, <1>2, <2>1, <2>2
  <2>5. QED
    BY <1>1, <2>3, <2>4
<1>5. ASSUME NEW p \in QuestionsOf(cands, plan), p.status = "answered", ~p.merged
      PROVE  \E i \in p.from : p.canonical = {i} /\ p.pages \subseteq cands[i].pages
  <2>1. PICK g \in Groups(plan) : p = q(g)
    BY <1>1
  <2>2. PICK i \in plan.groups[g].ids :
               plan.groups[g].canonical = {i} /\ CoversAll(cands, plan.groups[g], i)
    BY <1>2, <1>3, <1>5, <2>1 DEF AnswerStands
  <2>3. QED
    BY <1>2, <2>1, <2>2 DEF CoversAll
<1>6. QED
  BY <1>4, <1>5 DEF KeepsAnswers

\* What applyDirectPDFReconciliation accepts makes a question of one candidate
\* or more, so no more questions than candidates were found.
THEOREM QuestionsWithinCandidates ==
  ASSUME NEW cands, NEW plan, NEW n, Accepts(cands, plan, n), IsFiniteSet(DOMAIN cands)
  PROVE  Cardinality(QuestionsOf(cands, plan)) <= Cardinality(DOMAIN cands)
<1> DEFINE group(i) == CHOOSE g \in Groups(plan) : i \in plan.groups[g].ids
           give == [i \in DOMAIN cands |-> QuestionOf(cands, plan.groups[group(i)])]
<1>1. \A i \in DOMAIN cands : group(i) \in Groups(plan) /\ i \in plan.groups[group(i)].ids
  BY DEF Accepts, AssignedOnce
<1>2. ASSUME NEW g \in Groups(plan)
      PROVE  \E i \in DOMAIN cands : group(i) = g
  <2>1. PICK i : i \in plan.groups[g].ids
    BY DEF Accepts, GroupsFit, GroupFits
  <2>2. i \in DOMAIN cands
    BY <2>1 DEF Accepts, AssignedOnce, AtMostOnce
  <2>3. group(i) = g
    BY <1>1, <2>1, <2>2 DEF Accepts, AssignedOnce, AtMostOnce
  <2>4. QED
    BY <2>2, <2>3
<1> HIDE DEF group
<1>3. give \in Surjection(DOMAIN cands, QuestionsOf(cands, plan))
  BY <1>1, <1>2 DEF Surjection, QuestionsOf
<1>4. QED
  BY <1>3, FS_Surjection
-----------------------------------------------------------------------------
(***************************************************************************)
(* One run.  It goes through the chunks in their order, and what it has of *)
(* a chunk it left covers the chunk; from the acceptance of a plan on its  *)
(* questions keep the answers.                                             *)
(***************************************************************************)
RunRecord(S) ==
  [at : S, chunk : S, todo : S, got : S, results : S, attempt : S, questions : S,
   stale : S, wait : S, calls : S, cancelled : S]
RunFields(run) == \E S : run \in RunRecord(S)

Covers(ranges, c) == PagesOf(c) \subseteq UNION {PagesOf(g) : g \in ranges}

Reported == {"report", "wait report", "reporting", "refresh", "done"}
Reconciled == {"boundaries", "wait boundaries", "reconciling"} \cup Reported

RunOK(run) ==
  /\ RunFields(run)
  /\ run.results = [c \in chunks |-> run.results[c]]
  /\ run.at \in {"idle", "oneshot", "look", "extract", "failed"} \cup Reconciled
  /\ run.at = "oneshot" => Short
  /\ run.at \in {"look", "extract"} =>
       /\ run.chunk \in chunks
       /\ \A c \in chunks : c.first < run.chunk.first => Covers(run.results[c], c)
  /\ run.at \in Reconciled /\ ~Short => \A c \in chunks : Covers(run.results[c], c)
  /\ run.at \in Reported /\ ~Short => KeepsAnswers(Candidates(run), run.questions)

ReviewInv ==
  /\ copy \in Scenario /\ chunks = Chunks(copy.pages)
  /\ \A c \in chunks : Current(c) => Covers(checkpoint[c].ranges, c)
  /\ checkpoint = [c \in chunks |-> checkpoint[c]]
  /\ job = [r \in Review |-> job[r]]
  /\ \A r \in Review : RunOK(job[r])

LEMMA SameCandidates ==
  ASSUME NEW a, NEW b, a.results = b.results
  PROVE  Candidates(a) = Candidates(b)
  BY DEF Candidates, CandidateIds

\* A run that only goes to another place, at which no more is asked of it.
LEMMA PlaceChanges ==
  ASSUME NEW run, RunOK(run), NEW next, RunFields(next), next.results = run.results,
         next.questions = run.questions, next.chunk = run.chunk,
         \/ next.at = run.at
         \/ next.at = "failed"
         \/ run.at = "oneshot" /\ next.at = "done"
         \/ run.at \in {"look", "extract"} /\ next.at \in {"look", "extract"}
         \/ run.at \in Reconciled /\ next.at \in Reconciled \ Reported
         \/ run.at \in Reported /\ next.at \in Reported
  PROVE  RunOK(next)
  BY SameCandidates DEF RunOK, Reconciled, Reported

LEMMA ChunkFacts ==
  ASSUME ReviewInv
  PROVE  /\ copy.pages \in Nat \ {0}
         /\ chunks = {[first |-> f, last |-> Least(f + 3, copy.pages)] :
                        f \in {1} \cup {g \in 3..copy.pages : g % 2 = 1 /\ g + 1 < copy.pages}}
  BY ChunkStarts, DirectAssumption DEF ReviewInv

\* After a chunk comes the one that begins two pages later, or the end.
\* The chunk after a chunk that is not the last begins two pages later.
LEMMA NextFollows ==
  ASSUME ReviewInv, NEW c \in chunks, ~ \A d \in chunks : d.first <= c.first
  PROVE  NextChunk(c) \in chunks /\ NextChunk(c).first = c.first + 2
<1> DEFINE n == copy.pages
           Starts == {1} \cup {g \in 3..n : g % 2 = 1 /\ g + 1 < n}
           ChunkAt(f) == [first |-> f, last |-> Least(f + 3, n)]
<1>1. n \in Nat \ {0} /\ chunks = {ChunkAt(f) : f \in Starts}
  BY ChunkFacts
<1>2. PICK f \in Starts : c = ChunkAt(f)
  BY <1>1
<1>3. PICK g \in Starts : g > f
  BY <1>1, <1>2
<1>4. f \in Nat /\ g \in Nat /\ f % 2 = 1 /\ g % 2 = 1
  BY <1>1
<1>5. f + 2 <= g /\ (f + 2) % 2 = 1
  BY <1>3, <1>4
<1>6. f + 2 \in Starts
  BY <1>1, <1>3, <1>4, <1>5
<1>7. ChunkAt(f + 2) \in chunks /\ ChunkAt(f + 2).first = c.first + ChunkPages - ChunkOverlap
  BY <1>1, <1>2, <1>4, <1>6 DEF ChunkPages, ChunkOverlap
<1>8. QED
  BY <1>2, <1>4, <1>7 DEF ChunkPages, ChunkOverlap, NextChunk

LEMMA AfterChunk ==
  ASSUME ReviewInv, NEW run, RunFields(run), run.results = [c \in chunks |-> run.results[c]],
         run.chunk \in chunks,
         \A c \in chunks : c.first <= run.chunk.first => Covers(run.results[c], c)
  PROVE  RunOK(After(run)) /\ After(run).at \in {"boundaries", "look"}
<1> DEFINE n == copy.pages
           Starts == {1} \cup {g \in 3..n : g % 2 = 1 /\ g + 1 < n}
           ChunkAt(f) == [first |-> f, last |-> Least(f + 3, n)]
<1>1. n \in Nat \ {0} /\ chunks = {ChunkAt(f) : f \in Starts}
  BY ChunkFacts
<1>2. PICK f \in Starts : run.chunk = ChunkAt(f)
  BY <1>1
<1>3. CASE \A c \in chunks : c.first <= run.chunk.first
  <2> DEFINE next == [run EXCEPT !.at = "boundaries", !.attempt = 1]
  <2>1. After(run) = next
    BY <1>3 DEF After
  <2>2. PICK S : run \in RunRecord(S)
    BY DEF RunFields
  <2>3. next \in RunRecord(S \cup {"boundaries", 1})
    BY <2>2 DEF RunRecord
  <2>4. next.at = "boundaries" /\ next.results = run.results
    BY <2>2 DEF RunRecord
  <2>5. RunFields(next)
    BY <2>3 DEF RunFields
  <2> HIDE DEF next
  <2>6. RunOK(next)
    BY <1>3, <2>4, <2>5 DEF RunOK, Reconciled, Reported
  <2>7. QED
    BY <2>1, <2>4, <2>6
<1>4. CASE ~ \A c \in chunks : c.first <= run.chunk.first
  <2> DEFINE d == NextChunk(run.chunk)
             next == [run EXCEPT !.at = "look", !.todo = <<>>, !.got = {}, !.chunk = d]
  <2>1. f \in Nat /\ run.chunk.first = f
    BY <1>1, <1>2
  <2>2. d \in chunks /\ d.first = f + 2
    BY <1>4, <2>1, NextFollows
  <2>3. \A c \in chunks : c.first < f + 2 => c.first <= f
    <3>1. \A h \in Starts : h < f + 2 => h <= f
      BY <1>1, <2>1
    <3>2. QED
      BY <1>1, <3>1
  <2>4. After(run) = next
    BY <1>4 DEF After
  <2>5. PICK S : run \in RunRecord(S)
    BY DEF RunFields
  <2>6. next \in RunRecord(S \cup {"look", <<>>, {}, d})
    BY <2>5 DEF RunRecord
  <2>7. next.at = "look" /\ next.chunk = d /\ next.results = run.results
    BY <2>5 DEF RunRecord
  <2>8. RunFields(next)
    BY <2>6 DEF RunFields
  <2> HIDE DEF next, d
  <2>9. RunOK(next)
    BY <1>2, <2>2, <2>3, <2>7, <2>8 DEF RunOK, Reconciled, Reported
  <2>10. QED
    BY <2>4, <2>7, <2>9
<1>5. QED
  BY <1>3, <1>4

LEMMA KeptChunk ==
  ASSUME ReviewInv, NEW r \in Review, job[r].at \in {"look", "extract"},
         NEW ranges, Covers(ranges, job[r].chunk)
  PROVE  RunOK(Keep(job[r], ranges)) /\ Keep(job[r], ranges).at \in {"boundaries", "look"}
<1> DEFINE run == job[r]
           next == [run EXCEPT !.results[run.chunk] = ranges]
<1>1. RunOK(run) /\ run.chunk \in chunks
  BY DEF ReviewInv, RunOK
<1>2. /\ RunFields(next) /\ next.chunk = run.chunk
      /\ next.results = [run.results EXCEPT ![run.chunk] = ranges]
  <2>1. PICK S : run \in RunRecord(S)
    BY <1>1 DEF RunOK, RunFields
  <2>2. next \in RunRecord(S \cup {[run.results EXCEPT ![run.chunk] = ranges]})
    BY <2>1 DEF RunRecord
  <2>3. next.chunk = run.chunk /\ next.results = [run.results EXCEPT ![run.chunk] = ranges]
    BY <2>1 DEF RunRecord
  <2>4. QED
    BY <2>2, <2>3 DEF RunFields
<1>3. next.results = [c \in chunks |-> IF c = run.chunk THEN ranges ELSE run.results[c]]
  BY <1>1, <1>2 DEF RunOK
<1>4. next.results = [c \in chunks |-> next.results[c]]
  BY <1>3
<1>5. ASSUME NEW c \in chunks, c.first <= run.chunk.first PROVE Covers(next.results[c], c)
  <2>1. c = run.chunk \/ c.first < run.chunk.first
    BY <1>1, <1>5, ChunkFacts
  <2>2. QED
    BY <1>1, <1>3, <2>1 DEF RunOK
<1>6. QED
  BY <1>1, <1>2, <1>4, <1>5, AfterChunk DEF Keep
-----------------------------------------------------------------------------
\* A run of which only its place and its counters changed.
Alike(run, next, place) ==
  /\ RunFields(next) /\ next.at = place
  /\ next.results = run.results /\ next.questions = run.questions /\ next.chunk = run.chunk

\* The ways a step writes its run: the fields it sets are not those of RunOK.
LEMMA SetPlace ==
  ASSUME NEW run, RunFields(run), NEW x
  PROVE  Alike(run, [run EXCEPT !.at = x], x)
<1> DEFINE next == [run EXCEPT !.at = x]
<1>1. PICK S : run \in RunRecord(S)
  BY DEF RunFields
<1>2. next \in RunRecord(S \cup {x})
  BY <1>1 DEF RunRecord
<1>3. /\ next.at = x /\ next.chunk = run.chunk
      /\ next.results = run.results /\ next.questions = run.questions
  BY <1>1 DEF RunRecord
<1>4. QED
  BY <1>2, <1>3 DEF Alike, RunFields

LEMMA SetPlaceAttempt ==
  ASSUME NEW run, RunFields(run), NEW x, NEW y
  PROVE  Alike(run, [run EXCEPT !.at = x, !.attempt = y], x)
<1> DEFINE next == [run EXCEPT !.at = x, !.attempt = y]
<1>1. PICK S : run \in RunRecord(S)
  BY DEF RunFields
<1>2. next \in RunRecord(S \cup {x, y})
  BY <1>1 DEF RunRecord
<1>3. /\ next.at = x /\ next.chunk = run.chunk
      /\ next.results = run.results /\ next.questions = run.questions
  BY <1>1 DEF RunRecord
<1>4. QED
  BY <1>2, <1>3 DEF Alike, RunFields

LEMMA SetPlaceWait ==
  ASSUME NEW run, RunFields(run), NEW x, NEW y
  PROVE  Alike(run, [run EXCEPT !.at = x, !.wait = y], x)
<1> DEFINE next == [run EXCEPT !.at = x, !.wait = y]
<1>1. PICK S : run \in RunRecord(S)
  BY DEF RunFields
<1>2. next \in RunRecord(S \cup {x, y})
  BY <1>1 DEF RunRecord
<1>3. /\ next.at = x /\ next.chunk = run.chunk
      /\ next.results = run.results /\ next.questions = run.questions
  BY <1>1 DEF RunRecord
<1>4. QED
  BY <1>2, <1>3 DEF Alike, RunFields

\* The time to wait, when it is set and when another field is.
LEMMA WaitIsSet ==
  ASSUME NEW run, RunFields(run), NEW x, NEW y
  PROVE  /\ [run EXCEPT !.at = x, !.wait = y].wait = y
         /\ [run EXCEPT !.wait = y].wait = y
         /\ [run EXCEPT !.cancelled = x].wait = run.wait
<1>1. PICK S : run \in RunRecord(S)
  BY DEF RunFields
<1>2. QED
  BY <1>1 DEF RunRecord

LEMMA SetPlaceTodo ==
  ASSUME NEW run, RunFields(run), NEW x, NEW y, NEW z
  PROVE  Alike(run, [run EXCEPT !.at = x, !.todo = y, !.attempt = z], x)
<1> DEFINE next == [run EXCEPT !.at = x, !.todo = y, !.attempt = z]
<1>1. PICK S : run \in RunRecord(S)
  BY DEF RunFields
<1>2. next \in RunRecord(S \cup {x, y, z})
  BY <1>1 DEF RunRecord
<1>3. /\ next.at = x /\ next.chunk = run.chunk
      /\ next.results = run.results /\ next.questions = run.questions
  BY <1>1 DEF RunRecord
<1>4. QED
  BY <1>2, <1>3 DEF Alike, RunFields

LEMMA SetPlaceStale ==
  ASSUME NEW run, RunFields(run), NEW x, NEW y, NEW z
  PROVE  Alike(run, [run EXCEPT !.at = x, !.attempt = y, !.stale = z], x)
<1> DEFINE next == [run EXCEPT !.at = x, !.attempt = y, !.stale = z]
<1>1. PICK S : run \in RunRecord(S)
  BY DEF RunFields
<1>2. next \in RunRecord(S \cup {x, y, z})
  BY <1>1 DEF RunRecord
<1>3. /\ next.at = x /\ next.chunk = run.chunk
      /\ next.results = run.results /\ next.questions = run.questions
  BY <1>1 DEF RunRecord
<1>4. QED
  BY <1>2, <1>3 DEF Alike, RunFields

LEMMA SetAttempt ==
  ASSUME NEW run, RunFields(run), NEW x
  PROVE  Alike(run, [run EXCEPT !.attempt = x], run.at)
<1> DEFINE next == [run EXCEPT !.attempt = x]
<1>1. PICK S : run \in RunRecord(S)
  BY DEF RunFields
<1>2. next \in RunRecord(S \cup {x})
  BY <1>1 DEF RunRecord
<1>3. /\ next.at = run.at /\ next.chunk = run.chunk
      /\ next.results = run.results /\ next.questions = run.questions
  BY <1>1 DEF RunRecord
<1>4. QED
  BY <1>2, <1>3 DEF Alike, RunFields

LEMMA SetCalls ==
  ASSUME NEW run, RunFields(run), NEW x
  PROVE  Alike(run, [run EXCEPT !.calls = x], run.at)
<1> DEFINE next == [run EXCEPT !.calls = x]
<1>1. PICK S : run \in RunRecord(S)
  BY DEF RunFields
<1>2. next \in RunRecord(S \cup {x})
  BY <1>1 DEF RunRecord
<1>3. /\ next.at = run.at /\ next.chunk = run.chunk
      /\ next.results = run.results /\ next.questions = run.questions
  BY <1>1 DEF RunRecord
<1>4. QED
  BY <1>2, <1>3 DEF Alike, RunFields

LEMMA SetWait ==
  ASSUME NEW run, RunFields(run), NEW x
  PROVE  Alike(run, [run EXCEPT !.wait = x], run.at)
<1> DEFINE next == [run EXCEPT !.wait = x]
<1>1. PICK S : run \in RunRecord(S)
  BY DEF RunFields
<1>2. next \in RunRecord(S \cup {x})
  BY <1>1 DEF RunRecord
<1>3. /\ next.at = run.at /\ next.chunk = run.chunk
      /\ next.results = run.results /\ next.questions = run.questions
  BY <1>1 DEF RunRecord
<1>4. QED
  BY <1>2, <1>3 DEF Alike, RunFields

LEMMA SetCancelled ==
  ASSUME NEW run, RunFields(run), NEW x
  PROVE  Alike(run, [run EXCEPT !.cancelled = x], run.at)
<1> DEFINE next == [run EXCEPT !.cancelled = x]
<1>1. PICK S : run \in RunRecord(S)
  BY DEF RunFields
<1>2. next \in RunRecord(S \cup {x})
  BY <1>1 DEF RunRecord
<1>3. /\ next.at = run.at /\ next.chunk = run.chunk
      /\ next.results = run.results /\ next.questions = run.questions
  BY <1>1 DEF RunRecord
<1>4. QED
  BY <1>2, <1>3 DEF Alike, RunFields

LEMMA SetTodo ==
  ASSUME NEW run, RunFields(run), NEW x, NEW y
  PROVE  Alike(run, [run EXCEPT !.todo = x, !.attempt = y], run.at)
<1> DEFINE next == [run EXCEPT !.todo = x, !.attempt = y]
<1>1. PICK S : run \in RunRecord(S)
  BY DEF RunFields
<1>2. next \in RunRecord(S \cup {x, y})
  BY <1>1 DEF RunRecord
<1>3. /\ next.at = run.at /\ next.chunk = run.chunk
      /\ next.results = run.results /\ next.questions = run.questions
  BY <1>1 DEF RunRecord
<1>4. QED
  BY <1>2, <1>3 DEF Alike, RunFields

LEMMA SetStale ==
  ASSUME NEW run, RunFields(run), NEW x, NEW y
  PROVE  Alike(run, [run EXCEPT !.stale = x, !.attempt = y], run.at)
<1> DEFINE next == [run EXCEPT !.stale = x, !.attempt = y]
<1>1. PICK S : run \in RunRecord(S)
  BY DEF RunFields
<1>2. next \in RunRecord(S \cup {x, y})
  BY <1>1 DEF RunRecord
<1>3. /\ next.at = run.at /\ next.chunk = run.chunk
      /\ next.results = run.results /\ next.questions = run.questions
  BY <1>1 DEF RunRecord
<1>4. QED
  BY <1>2, <1>3 DEF Alike, RunFields

LEMMA SetGot ==
  ASSUME NEW run, RunFields(run), NEW x, NEW y, NEW z
  PROVE  Alike(run, [run EXCEPT !.got = x, !.todo = y, !.attempt = z], run.at)
<1> DEFINE next == [run EXCEPT !.got = x, !.todo = y, !.attempt = z]
<1>1. PICK S : run \in RunRecord(S)
  BY DEF RunFields
<1>2. next \in RunRecord(S \cup {x, y, z})
  BY <1>1 DEF RunRecord
<1>3. /\ next.at = run.at /\ next.chunk = run.chunk
      /\ next.results = run.results /\ next.questions = run.questions
  BY <1>1 DEF RunRecord
<1>4. QED
  BY <1>2, <1>3 DEF Alike, RunFields

LEMMA CallAlike ==
  ASSUME NEW run, RunFields(run)
  PROVE  Alike(run, Call(run), run.at)
  BY SetCalls DEF Call

LEMMA NoRunOK ==
  ASSUME ReviewInv
  PROVE  RunOK(NoRun)
<1> DEFINE S == {"idle", NoRange, <<>>, {}, [c \in chunks |-> {}], 1, 0, FALSE}
<1>1. NoRun \in RunRecord(S)
  BY DEF NoRun, RunRecord
<1>2. NoRun.at = "idle" /\ NoRun.results = [c \in chunks |-> {}]
  BY DEF NoRun
<1>3. QED
  BY <1>1, <1>2 DEF RunOK, RunFields, Reconciled, Reported

\* A step changes one run, which is right and at one of some places after it.
Goes(r, places) ==
  job' = [job EXCEPT ![r] = job'[r]] /\ RunOK(job'[r]) /\ job'[r].at \in places

LEMMA SetGoes ==
  ASSUME ReviewInv, NEW r \in Review, NEW next, Set(r, next), RunOK(next),
         NEW places, next.at \in places
  PROVE  Goes(r, places) /\ job'[r] = next
<1>1. job'[r] = next
  BY DEF Set, ReviewInv
<1>2. QED
  BY <1>1 DEF Set, Goes

LEMMA PlaceBecomes ==
  ASSUME ReviewInv, NEW r \in Review, NEW next, NEW place, Set(r, next), Alike(job[r], next, place),
         \/ place = job[r].at
         \/ place = "failed"
         \/ job[r].at = "oneshot" /\ place = "done"
         \/ job[r].at \in {"look", "extract"} /\ place \in {"look", "extract"}
         \/ job[r].at \in Reconciled /\ place \in Reconciled \ Reported
         \/ job[r].at \in Reported /\ place \in Reported
  PROVE  Goes(r, {place}) /\ job'[r] = next
  BY PlaceChanges, SetGoes DEF ReviewInv, Alike

LEMMA BeginBecomes ==
  ASSUME ReviewInv, NEW r \in Review, Begin(r)
  PROVE  Goes(r, {"oneshot", "look"})
<1> DEFINE place == IF Short THEN "oneshot" ELSE "look"
           first == [first |-> 1, last |-> Least(ChunkPages, copy.pages)]
           next == [NoRun EXCEPT !.at = place, !.chunk = first]
           S == {"idle", NoRange, <<>>, {}, [c \in chunks |-> {}], 1, 0, FALSE}
<1>1. Set(r, next)
  BY DEF Begin
<1>2. NoRun \in RunRecord(S)
  BY DEF NoRun, RunRecord
<1>3. next \in RunRecord(S \cup {place, first})
  BY <1>2 DEF RunRecord
<1>4. next.at = place /\ next.chunk = first /\ next.results = [c \in chunks |-> {}]
  BY <1>2 DEF RunRecord, NoRun
<1>5. first \in chunks /\ \A c \in chunks : ~(c.first < 1)
  BY ChunkFacts DEF ChunkPages, Least
<1> HIDE DEF next
<1>6. RunOK(next)
  BY <1>3, <1>4, <1>5 DEF RunOK, RunFields, Reconciled, Reported
<1>7. QED
  BY <1>1, <1>4, <1>6, SetGoes

LEMMA RunIsOK ==
  ASSUME ReviewInv, NEW r \in Review
  PROVE  RunOK(job[r]) /\ RunFields(job[r])
  BY DEF ReviewInv, RunOK

LEMMA FailedBecomes ==
  ASSUME ReviewInv, NEW r \in Review, Set(r, Failed(r))
  PROVE  Goes(r, {"failed"})
<1>1. Alike(job[r], Failed(r), "failed")
  BY RunIsOK, SetPlace DEF Failed
<1>2. QED
  BY <1>1, PlaceBecomes

\* A step that made a call: the counters changed, and perhaps the place.
LEMMA CalledBecomes ==
  ASSUME ReviewInv, NEW r \in Review, NEW next, NEW place, Set(r, next),
         Alike(Call(job[r]), next, place),
         \/ place = job[r].at
         \/ place = "failed"
         \/ job[r].at = "oneshot" /\ place = "done"
         \/ job[r].at \in Reconciled /\ place \in Reconciled \ Reported
         \/ job[r].at \in Reported /\ place \in Reported
  PROVE  Goes(r, {place}) /\ job'[r] = next
<1>1. Alike(job[r], next, place)
  BY RunIsOK, CallAlike DEF Alike
<1>2. QED
  BY <1>1, PlaceBecomes

LEMMA OneShotBecomes ==
  ASSUME ReviewInv, NEW r \in Review, OneShot(r)
  PROVE  Goes(r, {"oneshot", "done", "failed"})
<1> DEFINE run == Call(job[r])
<1>1. RunFields(run) /\ run.at = "oneshot" /\ job[r].at = "oneshot"
  BY RunIsOK, CallAlike DEF OneShot, At, Alike
<1>2. ASSUME NEW x, NEW place \in {"done", "failed"}, Set(r, [run EXCEPT !.at = place])
      PROVE  Goes(r, {"oneshot", "done", "failed"})
  BY <1>1, <1>2, SetPlace, CalledBecomes DEF Goes
<1>3. ASSUME NEW x, Set(r, [run EXCEPT !.attempt = x])
      PROVE  Goes(r, {"oneshot", "done", "failed"})
  BY <1>1, <1>3, SetAttempt, CalledBecomes DEF Goes
<1>4. QED
  BY <1>2, <1>3 DEF OneShot

LEMMA LookBecomes ==
  ASSUME ReviewInv, NEW r \in Review, LookAtChunk(r)
  PROVE  \/ Goes(r, {"look", "boundaries", "failed"})
         \/ ~Current(job[r].chunk) /\ Goes(r, {"extract"}) /\ job'[r].chunk = job[r].chunk
<1>1. RunFields(job[r]) /\ job[r].at = "look" /\ job[r].chunk \in chunks
  BY RunIsOK DEF LookAtChunk, At, RunOK
<1>2. CASE Set(r, Failed(r))
  BY <1>2, FailedBecomes DEF Goes
<1>3. CASE Current(job[r].chunk) /\ Set(r, Keep(job[r], checkpoint[job[r].chunk].ranges))
  <2>1. Covers(checkpoint[job[r].chunk].ranges, job[r].chunk)
    BY <1>1, <1>3 DEF ReviewInv
  <2>2. QED
    BY <1>1, <1>3, <2>1, KeptChunk, SetGoes
<1>4. CASE /\ ~Current(job[r].chunk)
           /\ Set(r, [job[r] EXCEPT !.at = "extract", !.todo = <<job[r].chunk>>, !.attempt = 1])
  <2> DEFINE next == [job[r] EXCEPT !.at = "extract", !.todo = <<job[r].chunk>>, !.attempt = 1]
  <2>1. Alike(job[r], next, "extract") /\ Set(r, next)
    BY <1>1, <1>4, SetPlaceTodo
  <2> HIDE DEF next
  <2>2. Goes(r, {"extract"}) /\ job'[r] = next
    BY <1>1, <2>1, PlaceBecomes
  <2>3. QED
    BY <1>4, <2>1, <2>2 DEF Alike
<1>5. QED
  BY <1>2, <1>3, <1>4 DEF LookAtChunk

LEMMA ExtractBecomes ==
  ASSUME ReviewInv, NEW r \in Review, Extract(r)
  PROVE  Goes(r, {"extract", "failed"}) /\ job'[r].chunk = job[r].chunk
<1> DEFINE run == Call(job[r])
           Goal == Goes(r, {"extract", "failed"}) /\ job'[r].chunk = job[r].chunk
<1>1. RunFields(run) /\ run.at = "extract" /\ job[r].at = "extract" /\ run.chunk = job[r].chunk
  BY RunIsOK, CallAlike DEF Extract, At, Alike
<1>2. ASSUME NEW next, NEW place \in {"extract", "failed"}, Alike(run, next, place), Set(r, next)
      PROVE  Goal
  <2>1. Goes(r, {place}) /\ job'[r] = next
    BY <1>1, <1>2, CalledBecomes
  <2>2. QED
    BY <1>1, <1>2, <2>1 DEF Alike, Goes
<1> HIDE DEF Goal
<1>3. ASSUME NEW x, Set(r, [run EXCEPT !.attempt = x]) PROVE Goal
  BY <1>1, <1>2, <1>3, SetAttempt
<1>4. ASSUME Set(r, [run EXCEPT !.at = "failed"]) PROVE Goal
  BY <1>1, <1>2, <1>4, SetPlace
<1>5. ASSUME NEW x, NEW y, Set(r, [run EXCEPT !.got = x, !.todo = y, !.attempt = 1]) PROVE Goal
  <2> DEFINE next == [run EXCEPT !.got = x, !.todo = y, !.attempt = 1]
  <2>1. Alike(run, next, run.at)
    BY <1>1, SetGot
  <2> HIDE DEF next
  <2>2. Set(r, next)
    BY <1>5 DEF next
  <2>3. QED
    BY <1>1, <1>2, <2>1, <2>2
<1>6. ASSUME NEW x, Set(r, [run EXCEPT !.todo = x, !.attempt = 1]) PROVE Goal
  BY <1>1, <1>2, <1>6, SetTodo
<1>7. QED
  BY <1>3, <1>4, <1>5, <1>6 DEF Extract, ExtractRange, Goal

LEMMA SaveBecomes ==
  ASSUME ReviewInv, NEW r \in Review, SaveChunk(r)
  PROVE  Goes(r, {"look", "boundaries", "failed"})
<1>1. job[r].at = "extract" /\ (Set(r, Failed(r)) \/ (Merged(job[r]) /\ Set(r, Keep(job[r], job[r].got))))
  <2>1. At(r, "extract")
    BY DEF SaveChunk
  <2>2. Set(r, Failed(r)) \/ (Merged(job[r]) /\ Set(r, Keep(job[r], job[r].got)))
    BY DEF SaveChunk
  <2>3. QED
    BY <2>1, <2>2 DEF At
<1>2. Merged(job[r]) => Covers(job[r].got, job[r].chunk)
  BY DEF Merged, Covers
<1>3. QED
  BY <1>1, <1>2, FailedBecomes, KeptChunk, SetGoes DEF Goes

LEMMA EnterBecomes ==
  ASSUME ReviewInv, NEW r \in Review, EnterGate(r)
  PROVE  Goes(r, Waiting) /\ job'[r].wait = Delay
<1> DEFINE place == IF job[r].at = "report" THEN "wait report" ELSE "wait boundaries"
           next == [job[r] EXCEPT !.at = place, !.wait = Delay]
<1>1. Set(r, next) /\ job[r].at \in {"boundaries", "report"}
  BY DEF EnterGate, Asking
<1>2. Alike(job[r], next, place)
  BY RunIsOK, SetPlaceWait
<1>3. next.wait = Delay
  BY RunIsOK, WaitIsSet
<1> HIDE DEF next
<1>4. Goes(r, {place}) /\ job'[r] = next
  BY <1>1, <1>2, PlaceBecomes DEF Reconciled, Reported
<1>5. QED
  BY <1>3, <1>4 DEF Goes, Waiting

LEMMA GiveUpBecomes ==
  ASSUME ReviewInv, NEW r \in Review, GiveUpWait(r)
  PROVE  Goes(r, {"failed"})
  BY FailedBecomes DEF GiveUpWait

LEMMA StartBecomes ==
  ASSUME ReviewInv, NEW r \in Review, StartCall(r)
  PROVE  Goes(r, {"reconciling", "reporting"})
<1> DEFINE run == Call(job[r])
           place == IF run.at \in {"report", "wait report"} THEN "reporting" ELSE "reconciling"
           next == [run EXCEPT !.at = place]
<1>1. Set(r, next) /\ job[r].at \in {"boundaries", "report", "wait boundaries", "wait report"}
  BY DEF StartCall, Asking, Waiting
<1>2. RunFields(run) /\ run.at = job[r].at
  BY RunIsOK, CallAlike DEF Alike
<1>3. Alike(run, next, place)
  BY <1>2, SetPlace
<1> HIDE DEF next
<1>4. Goes(r, {place})
  BY <1>1, <1>2, <1>3, CalledBecomes DEF Reconciled, Reported
<1>5. QED
  BY <1>4 DEF Goes

\* The questions of an accepted plan keep the answers; other answers of the
\* provider leave the run without questions.
LEMMA PlanBecomes ==
  ASSUME ReviewInv, NEW r \in Review, AnswerPlan(r)
  PROVE  Goes(r, {"report", "boundaries", "failed"})
<1> DEFINE run == job[r]
           cands == Candidates(run)
<1>1. RunOK(run) /\ RunFields(run) /\ run.at = "reconciling"
  BY RunIsOK DEF AnswerPlan, At
<1>2. ASSUME NEW plan, Accepts(cands, plan, copy.pages),
             Set(r, [run EXCEPT !.at = "report", !.attempt = 1, !.questions = QuestionsOf(cands, plan)])
      PROVE  Goes(r, {"report", "boundaries", "failed"})
  <2> DEFINE qs == QuestionsOf(cands, plan)
             next == [run EXCEPT !.at = "report", !.attempt = 1, !.questions = qs]
  <2>1. PICK S : run \in RunRecord(S)
    BY <1>1 DEF RunFields
  <2> HIDE DEF qs
  <2>2. next \in RunRecord(S \cup {"report", 1, qs})
    BY <2>1 DEF RunRecord
  <2>3. next.at = "report" /\ next.results = run.results /\ next.questions = qs
    BY <2>1 DEF RunRecord
  <2>4. KeepsAnswers(cands, qs)
    BY <1>2, AcceptedPlansKeepAnswers DEF qs
  <2>5. Set(r, next)
    BY <1>2 DEF qs
  <2> HIDE DEF next, cands
  <2>6. KeepsAnswers(Candidates(next), next.questions)
    BY <2>3, <2>4, SameCandidates DEF cands
  <2>7. RunOK(next)
    BY <1>1, <2>2, <2>3, <2>6 DEF RunOK, RunFields, Reconciled, Reported
  <2>8. QED
    BY <2>3, <2>5, <2>7, SetGoes
<1>3. CASE Set(r, [run EXCEPT !.at = "boundaries", !.attempt = @ + 1])
  <2> DEFINE next == [run EXCEPT !.at = "boundaries", !.attempt = run.attempt + 1]
  <2>1. Alike(run, next, "boundaries")
    BY <1>1, SetPlaceAttempt
  <2>2. Set(r, next)
    BY <1>3
  <2> HIDE DEF next
  <2>3. Goes(r, {"boundaries"})
    BY <1>1, <2>1, <2>2, PlaceBecomes DEF Reconciled, Reported
  <2>4. QED
    BY <2>3 DEF Goes
<1>4. CASE Set(r, Failed(r))
  BY <1>4, FailedBecomes DEF Goes
<1>5. QED
  BY <1>2, <1>3, <1>4 DEF AnswerPlan

LEMMA ReportBecomes ==
  ASSUME ReviewInv, NEW r \in Review, AnswerReport(r)
  PROVE  Goes(r, {"refresh", "report", "failed"})
<1> DEFINE run == job[r]
<1>1. RunFields(run) /\ run.at = "reporting"
  BY RunIsOK DEF AnswerReport, At
<1>2. ASSUME NEW n, Set(r, [run EXCEPT !.at = "refresh", !.attempt = 1, !.stale = n])
      PROVE  Goes(r, {"refresh", "report", "failed"})
  <2> DEFINE next == [run EXCEPT !.at = "refresh", !.attempt = 1, !.stale = n]
  <2>1. Alike(run, next, "refresh")
    BY <1>1, SetPlaceStale
  <2>2. Set(r, next)
    BY <1>2
  <2> HIDE DEF next
  <2>3. Goes(r, {"refresh"})
    BY <1>1, <2>1, <2>2, PlaceBecomes DEF Reconciled, Reported
  <2>4. QED
    BY <2>3 DEF Goes
<1>3. CASE Set(r, [run EXCEPT !.at = "report", !.attempt = @ + 1])
  <2> DEFINE next == [run EXCEPT !.at = "report", !.attempt = run.attempt + 1]
  <2>1. Alike(run, next, "report")
    BY <1>1, SetPlaceAttempt
  <2>2. Set(r, next)
    BY <1>3
  <2> HIDE DEF next
  <2>3. Goes(r, {"report"})
    BY <1>1, <2>1, <2>2, PlaceBecomes DEF Reconciled, Reported
  <2>4. QED
    BY <2>3 DEF Goes
<1>4. CASE Set(r, Failed(r))
  BY <1>4, FailedBecomes DEF Goes
<1>5. QED
  BY <1>2, <1>3, <1>4 DEF AnswerReport

LEMMA RefreshBecomes ==
  ASSUME ReviewInv, NEW r \in Review, Refresh(r)
  PROVE  Goes(r, {"refresh", "done", "failed"})
<1> DEFINE run == Call(job[r])
<1>1. RunFields(job[r]) /\ RunFields(run) /\ run.at = "refresh" /\ job[r].at = "refresh"
  BY RunIsOK, CallAlike DEF Refresh, At, Alike
<1>2. CASE Set(r, [job[r] EXCEPT !.at = "done"])
  <2> DEFINE next == [job[r] EXCEPT !.at = "done"]
  <2>1. Alike(job[r], next, "done") /\ Set(r, next)
    BY <1>1, <1>2, SetPlace
  <2> HIDE DEF next
  <2>2. Goes(r, {"done"})
    BY <1>1, <2>1, PlaceBecomes DEF Reported
  <2>3. QED
    BY <2>2 DEF Goes
<1>3. CASE Set(r, [run EXCEPT !.stale = @ - 1, !.attempt = 1])
  <2> DEFINE next == [run EXCEPT !.stale = run.stale - 1, !.attempt = 1]
  <2>1. Alike(run, next, "refresh") /\ Set(r, next)
    BY <1>1, <1>3, SetStale
  <2> HIDE DEF next
  <2>2. Goes(r, {"refresh"})
    BY <1>1, <2>1, CalledBecomes DEF Reported
  <2>3. QED
    BY <2>2 DEF Goes
<1>4. CASE Set(r, [run EXCEPT !.attempt = @ + 1])
  <2> DEFINE next == [run EXCEPT !.attempt = run.attempt + 1]
  <2>1. Alike(run, next, "refresh") /\ Set(r, next)
    BY <1>1, <1>4, SetAttempt
  <2> HIDE DEF next
  <2>2. Goes(r, {"refresh"})
    BY <1>1, <2>1, CalledBecomes DEF Reported
  <2>3. QED
    BY <2>2 DEF Goes
<1>5. CASE Set(r, Failed(r))
  BY <1>5, FailedBecomes DEF Goes
<1>6. QED
  BY <1>2, <1>3, <1>4, <1>5 DEF Refresh

LEMMA CancelBecomes ==
  ASSUME ReviewInv, NEW r \in Review, Cancel(r)
  PROVE  /\ Goes(r, {job[r].at})
         /\ job'[r].chunk = job[r].chunk /\ job'[r].wait = job[r].wait
<1> DEFINE next == [job[r] EXCEPT !.cancelled = TRUE]
<1>1. Alike(job[r], next, job[r].at) /\ Set(r, next)
  BY RunIsOK, SetCancelled DEF Cancel
<1>2. next.wait = job[r].wait
  BY RunIsOK, WaitIsSet
<1> HIDE DEF next
<1>3. Goes(r, {job[r].at}) /\ job'[r] = next
  BY <1>1, PlaceBecomes
<1>4. QED
  BY <1>1, <1>2, <1>3 DEF Alike

LEMMA StepBecomes ==
  ASSUME ReviewInv, NEW r \in Review, Begin(r) \/ Step(r) \/ Cancel(r)
  PROVE  job' = [job EXCEPT ![r] = job'[r]] /\ RunOK(job'[r])
  BY BeginBecomes, OneShotBecomes, LookBecomes, ExtractBecomes, SaveBecomes, EnterBecomes,
     GiveUpBecomes, StartBecomes, PlanBecomes, ReportBecomes, RefreshBecomes, CancelBecomes
     DEF Step, Goes
-----------------------------------------------------------------------------
(***************************************************************************)
(* ReviewInv is inductive.                                                 *)
(***************************************************************************)
LEMMA InitReviews == Init => ReviewInv
<1> SUFFICES ASSUME Init PROVE ReviewInv
  OBVIOUS
<1>1. copy \in Scenario /\ chunks = Chunks(copy.pages) /\ job = [r \in Review |-> NoRun]
  BY DEF Init
<1>2. /\ checkpoint = [c \in chunks |-> checkpoint[c]]
      /\ \A c \in chunks : Current(c) => Covers(checkpoint[c].ranges, c)
  <2>1. CASE checkpoint = [c \in chunks |-> [is |-> "saved", ranges |-> {c}]]
    BY <2>1 DEF Covers
  <2>2. CASE checkpoint \in [chunks -> {NoFile, OldFile}]
    BY <2>2 DEF Current, NoFile, OldFile
  <2>3. QED
    BY <2>1, <2>2 DEF Init
<1>3. RunOK(NoRun)
  <2> DEFINE S == {"idle", NoRange, <<>>, {}, [c \in chunks |-> {}], 1, 0, FALSE}
  <2>1. NoRun \in RunRecord(S)
    BY DEF NoRun, RunRecord
  <2>2. NoRun.at = "idle" /\ NoRun.results = [c \in chunks |-> {}]
    BY DEF NoRun
  <2>3. QED
    BY <2>1, <2>2 DEF RunOK, RunFields, Reconciled, Reported
<1>4. QED
  BY <1>1, <1>2, <1>3 DEF ReviewInv

\* What a run has is right whatever the rest of the state becomes: the copy
\* and its chunks do not change.
LEMMA RunStaysOK ==
  ASSUME copy' = copy, chunks' = chunks, NEW r \in Review, RunOK(job'[r])
  PROVE  RunOK(job[r])'
  BY DEF RunOK, Short, Candidates, CandidateIds

LEMMA CopyStays ==
  ASSUME [Next]_directVars
  PROVE  copy' = copy /\ chunks' = chunks
  BY DEF Next, Step, directVars, Begin, OneShot, LookAtChunk, Extract, SaveChunk, EnterGate,
         GiveUpWait, StartCall, AnswerPlan, AnswerReport, Refresh, Cancel, Tick, Crash

\* A checkpoint is written by SaveChunk alone, with ranges that cover its chunk.
LEMMA CheckpointsCover ==
  ASSUME ReviewInv, [Next]_directVars
  PROVE  /\ checkpoint' = [c \in chunks |-> checkpoint'[c]]
         /\ \A c \in chunks : checkpoint'[c].is = "saved" => Covers(checkpoint'[c].ranges, c)
<1>1. CASE UNCHANGED checkpoint
  BY <1>1 DEF ReviewInv, Current
<1>2. ASSUME NEW r \in Review, SaveChunk(r), ~ UNCHANGED checkpoint
      PROVE  /\ checkpoint' = [c \in chunks |-> checkpoint'[c]]
             /\ \A c \in chunks : checkpoint'[c].is = "saved" => Covers(checkpoint'[c].ranges, c)
  <2>1. Merged(job[r]) /\ checkpoint' = [checkpoint EXCEPT ![job[r].chunk] = Saved(job[r].chunk, job[r].got)]
    BY <1>2 DEF SaveChunk
  <2>2. Covers(job[r].got, job[r].chunk)
    BY <2>1 DEF Merged, Covers
  <2>3. QED
    BY <2>1, <2>2 DEF ReviewInv, Saved, Current
<1>3. QED
  BY <1>1, <1>2 DEF Next, Step, directVars, Begin, OneShot, LookAtChunk, Extract, EnterGate,
         GiveUpWait, StartCall, AnswerPlan, AnswerReport, Refresh, Cancel, Tick, Crash

\* Every run of the next state is right.
LEMMA RunsStayOK ==
  ASSUME ReviewInv, [Next]_directVars
  PROVE  job' = [r \in Review |-> job'[r]] /\ \A r \in Review : RunOK(job'[r])
<1>1. ASSUME NEW r \in Review, Begin(r) \/ Step(r) \/ Cancel(r)
      PROVE  job' = [o \in Review |-> job'[o]] /\ \A o \in Review : RunOK(job'[o])
  <2>1. job' = [job EXCEPT ![r] = job'[r]] /\ RunOK(job'[r])
    BY <1>1, StepBecomes
  <2>2. QED
    BY <2>1 DEF ReviewInv
<1>2. CASE Tick
  <2> DEFINE left_(o) == IF job[o].wait > 0 THEN job[o].wait - 1 ELSE 0
             next(o) == [job[o] EXCEPT !.wait = left_(o)]
  <2>1. job' = [o \in Review |-> next(o)]
    BY <1>2 DEF Tick
  <2>2. \A o \in Review : Alike(job[o], next(o), job[o].at)
    BY RunIsOK, SetWait
  <2> HIDE DEF next
  <2>3. \A o \in Review : RunOK(next(o))
    BY <2>2, RunIsOK, PlaceChanges DEF Alike
  <2>4. QED
    BY <2>1, <2>3
<1>3. CASE Crash
  BY <1>3, NoRunOK DEF Crash
<1>4. CASE UNCHANGED directVars
  BY <1>4 DEF directVars, ReviewInv
<1>5. QED
  BY <1>1, <1>2, <1>3, <1>4 DEF Next

LEMMA NextReviews == ReviewInv /\ [Next]_directVars => ReviewInv'
<1> SUFFICES ASSUME ReviewInv, [Next]_directVars PROVE ReviewInv'
  OBVIOUS
<1>1. copy' = copy /\ chunks' = chunks
  BY CopyStays
<1>2. \A r \in Review : RunOK(job[r])'
  BY <1>1, RunsStayOK, RunStaysOK
<1>3. (\A c \in chunks : Current(c) => Covers(checkpoint[c].ranges, c))'
  BY <1>1, CheckpointsCover DEF Current, Covers
<1>4. (job = [r \in Review |-> job[r]])' /\ (checkpoint = [c \in chunks |-> checkpoint[c]])'
  BY <1>1, CheckpointsCover, RunsStayOK
<1>5. QED
  BY <1>1, <1>2, <1>3, <1>4 DEF ReviewInv

LEMMA ReviewsStayRight == Spec => []ReviewInv
<1>1. QED
  BY InitReviews, NextReviews, PTL DEF Spec

\* What a chunked review returns has every page of the copy, for copies of any
\* length, however its chunks were split and wherever they came from.
THEOREM PagesAlwaysAssessed == Spec => []PagesAssessed
<1>1. ReviewInv => PagesAssessed
  <2> SUFFICES ASSUME ReviewInv, NEW r \in Review, job[r].at = "done", ~Short
               PROVE  /\ \A c \in chunks : PagesOf(c) \subseteq UNION {PagesOf(g) : g \in job[r].results[c]}
                      /\ Assessed(job[r]) = 1 .. copy.pages
    BY DEF PagesAssessed, At
  <2>1. \A c \in chunks : Covers(job[r].results[c], c)
    BY DEF ReviewInv, RunOK, Reconciled, Reported
  <2>2. UNION {PagesOf(c) : c \in chunks} = 1 .. copy.pages
    BY ChunkFacts, ChunksCoverCopy DEF ReviewInv
  <2>3. QED
    BY <2>1, <2>2 DEF Covers, Assessed
<1>2. QED
  BY <1>1, ReviewsStayRight, PTL

\* No answer that was extracted is lost on the way to the result, whatever
\* plans the provider proposes.
THEOREM AnswersAlwaysKept == Spec => []AnswersKept
<1>1. ReviewInv => AnswersKept
  <2> SUFFICES ASSUME ReviewInv, NEW r \in Review, job[r].at = "done", ~Short
               PROVE  KeepsAnswers(Candidates(job[r]), job[r].questions)
    BY DEF AnswersKept, At, KeepsAnswers
  <2>1. QED
    BY DEF ReviewInv, RunOK, Reconciled, Reported
<1>2. QED
  BY <1>1, ReviewsStayRight, PTL
-----------------------------------------------------------------------------
(***************************************************************************)
(* What was extracted of a chunk is kept in its checkpoint, is lost, or is *)
(* still held by a run that is to save it.  A chunk that can be read from  *)
(* its checkpoint is not extracted by a run that comes to it, so then what *)
(* was counted, with the runs that are still at it, is at most the reviews *)
(* there are and what was lost.                                            *)
(***************************************************************************)
AtWork(c) == {r \in Review : job[r].at = "extract" /\ job[r].chunk = c}
Ended(c) == {r \in AtWork(c) : job[r].todo = <<>>}
Going(c) == {r \in AtWork(c) : job[r].todo # <<>>}

Counted(c) ==
  IF Current(c) THEN extracted[c] + Cardinality(Going(c)) <= Cardinality(Review) + lost[c]
  ELSE extracted[c] <= lost[c] + Cardinality(Ended(c))
ExtractInv ==
  /\ extracted \in [chunks -> Nat] /\ lost \in [chunks -> Nat]
  /\ \A c \in chunks : Counted(c)

LEMMA Workers ==
  ASSUME NEW S \in SUBSET Review
  PROVE  IsFiniteSet(S) /\ Cardinality(S) \in Nat /\ Cardinality(S) <= Cardinality(Review)
         /\ Cardinality(Review) \in Nat
  BY DirectAssumption, FS_Subset, FS_CardinalityType

LEMMA Fewer ==
  ASSUME NEW S \in SUBSET Review, NEW T \in SUBSET S
  PROVE  Cardinality(T) <= Cardinality(S) /\ Cardinality(T) \in Nat /\ Cardinality(S) \in Nat
<1>1. IsFiniteSet(S) /\ T \in SUBSET Review
  BY Workers
<1>2. QED
  BY <1>1, Workers, FS_Subset

LEMMA WithoutOne ==
  ASSUME NEW S \in SUBSET Review, NEW r \in S
  PROVE  Cardinality(S \ {r}) = Cardinality(S) - 1
  BY Workers, FS_RemoveElement

\* A step for which a chunk's counters and file are the same, and no run begins
\* with it (once it can be read) or gives up what it extracted (before).
LEMMA QuietChunk ==
  ASSUME ExtractInv, NEW c \in chunks,
         Current(c)' <=> Current(c), extracted'[c] = extracted[c], lost'[c] = lost[c],
         Current(c) => Going(c)' \subseteq Going(c),
         ~Current(c) => Ended(c) \subseteq Ended(c)'
  PROVE  Counted(c)'
<1>1. Going(c) \in SUBSET Review /\ Ended(c)' \in SUBSET Review
  BY DEF Going, Ended, AtWork
<1>2. CASE Current(c)
  <2> DEFINE n == Cardinality(Going(c))
             m == Cardinality(Going(c)')
             all == Cardinality(Review)
  <2>1. m <= n /\ m \in Nat /\ n \in Nat /\ all \in Nat
    BY <1>1, <1>2, Fewer, Workers
  <2>2. extracted[c] \in Nat /\ lost[c] \in Nat /\ extracted[c] + n <= all + lost[c]
    BY <1>2 DEF ExtractInv, Counted
  <2>3. Counted(c)' <=> extracted'[c] + m <= all + lost'[c]
    BY <1>2 DEF Counted
  <2> HIDE DEF n, m, all
  <2>4. QED
    BY <2>1, <2>2, <2>3
<1>3. CASE ~Current(c)
  <2> DEFINE n == Cardinality(Ended(c))
             m == Cardinality(Ended(c)')
  <2>1. n <= m /\ m \in Nat /\ n \in Nat
    BY <1>1, <1>3, Fewer
  <2>2. extracted[c] \in Nat /\ lost[c] \in Nat /\ extracted[c] <= lost[c] + n
    BY <1>3 DEF ExtractInv, Counted
  <2>3. Counted(c)' <=> extracted'[c] <= lost'[c] + m
    BY <1>3 DEF Counted
  <2> HIDE DEF n, m
  <2>4. QED
    BY <2>1, <2>2, <2>3
<1>4. QED
  BY <1>2, <1>3

\* The runs at a chunk after a step of one run.
LEMMA OthersStay ==
  ASSUME ReviewInv, NEW r \in Review, job' = [job EXCEPT ![r] = job'[r]], NEW c
  PROVE  \A o \in Review \ {r} : (o \in Ended(c)' <=> o \in Ended(c)) /\ (o \in Going(c)' <=> o \in Going(c))
  BY DEF Ended, Going, AtWork, ReviewInv

\* A step of a run that extracts nothing and saves nothing: it begins with a
\* chunk only if that cannot be read.
LEMMA OtherSteps ==
  ASSUME ReviewInv, NEW r \in Review, Begin(r) \/ Step(r) \/ Cancel(r), ~Extract(r), ~SaveChunk(r)
  PROVE  \/ job[r].at # "extract" /\ job'[r].at # "extract"
         \/ job[r].at # "extract" /\ job'[r].at = "extract" /\ job'[r].todo # <<>>
            /\ ~Current(job'[r].chunk)
         \/ job'[r].at = job[r].at /\ job'[r].chunk = job[r].chunk /\ job'[r].todo = job[r].todo
<1>2. CASE Begin(r)
  BY <1>2, BeginBecomes DEF Goes, Begin
<1>3. CASE OneShot(r)
  BY <1>3, OneShotBecomes DEF Goes, OneShot, At
<1>4. CASE LookAtChunk(r)
  <2>1. RunFields(job[r]) /\ job[r].at = "look"
    BY <1>4, RunIsOK DEF LookAtChunk, At
  <2> DEFINE next == [job[r] EXCEPT !.at = "extract", !.todo = <<job[r].chunk>>, !.attempt = 1]
  <2>2. CASE ~Current(job[r].chunk) /\ Set(r, next)
    <3>1. PICK S : job[r] \in RunRecord(S)
      BY <2>1 DEF RunFields
    <3>2. next.at = "extract" /\ next.chunk = job[r].chunk /\ next.todo = <<job[r].chunk>>
      BY <3>1 DEF RunRecord
    <3> HIDE DEF next
    <3>3. job'[r] = next
      BY <2>2 DEF Set, ReviewInv
    <3>4. <<job[r].chunk>> # <<>>
      OBVIOUS
    <3>5. QED
      BY <2>1, <2>2, <3>2, <3>3, <3>4
  <2>3. CASE Set(r, Failed(r)) \/ Current(job[r].chunk)
    <3>1. CASE Set(r, Failed(r))
      BY <2>1, <3>1, FailedBecomes DEF Goes
    <3>2. CASE Current(job[r].chunk)
      BY <1>4, <2>1, <3>2, LookBecomes DEF Goes
    <3>3. QED
      BY <2>3, <3>1, <3>2
  <2>4. QED
    BY <1>4, <2>2, <2>3 DEF LookAtChunk
<1>5. CASE EnterGate(r)
  BY <1>5, EnterBecomes DEF Goes, Waiting, EnterGate, Asking
<1>6. CASE GiveUpWait(r)
  BY <1>6, GiveUpBecomes DEF Goes, GiveUpWait, Waiting
<1>7. CASE StartCall(r)
  BY <1>7, StartBecomes DEF Goes, StartCall, Waiting, Asking
<1>8. CASE AnswerPlan(r)
  BY <1>8, PlanBecomes DEF Goes, AnswerPlan, At
<1>9. CASE AnswerReport(r)
  BY <1>9, ReportBecomes DEF Goes, AnswerReport, At
<1>10. CASE Refresh(r)
  BY <1>10, RefreshBecomes DEF Goes, Refresh, At
<1>11. CASE Cancel(r)
  <2> DEFINE next == [job[r] EXCEPT !.cancelled = TRUE]
  <2>1. PICK S : job[r] \in RunRecord(S)
    BY RunIsOK DEF RunFields
  <2>2. next.at = job[r].at /\ next.chunk = job[r].chunk /\ next.todo = job[r].todo
    BY <2>1 DEF RunRecord
  <2> HIDE DEF next
  <2>3. job'[r] = next
    <3>1. Set(r, next)
      BY <1>11 DEF Cancel, next
    <3>2. QED
      BY <3>1 DEF Set, ReviewInv
  <2>4. QED
    BY <2>2, <2>3
<1>12. QED
  BY <1>2, <1>3, <1>4, <1>5, <1>6, <1>7, <1>8, <1>9, <1>10, <1>11 DEF Step

LEMMA OtherStepsCount ==
  ASSUME ReviewInv, ExtractInv, NEW r \in Review, Begin(r) \/ Step(r) \/ Cancel(r),
         ~Extract(r), ~SaveChunk(r)
  PROVE  ExtractInv'
<1>1. UNCHANGED <<checkpoint, extracted, lost>> /\ chunks' = chunks
  BY DEF Step, Begin, OneShot, LookAtChunk, EnterGate, GiveUpWait, StartCall, AnswerPlan, AnswerReport,
         Refresh, Cancel, paid
<1>2. job' = [job EXCEPT ![r] = job'[r]]
  BY StepBecomes
<1>3. ASSUME NEW c \in chunks PROVE Counted(c)'
  <2>1. \A o \in Review \ {r} : (o \in Ended(c)' <=> o \in Ended(c)) /\ (o \in Going(c)' <=> o \in Going(c))
    BY <1>2, OthersStay
  <2>2. Current(c) => (r \in Going(c)' => r \in Going(c))
    BY OtherSteps DEF Going, AtWork
  <2>3. r \in Ended(c) => r \in Ended(c)'
    BY OtherSteps DEF Ended, AtWork
  <2>4. Going(c)' \subseteq Review /\ Ended(c) \subseteq Review
    BY DEF Going, Ended, AtWork
  <2>5. (Current(c) => Going(c)' \subseteq Going(c)) /\ Ended(c) \subseteq Ended(c)'
    BY <2>1, <2>2, <2>3, <2>4
  <2>6. Current(c)' <=> Current(c)
    BY <1>1 DEF Current
  <2>7. QED
    BY <1>1, <2>5, <2>6, QuietChunk
<1>4. QED
  BY <1>1, <1>3 DEF ExtractInv

LEMMA InitExtract == Init => ExtractInv
<1> SUFFICES ASSUME Init PROVE ExtractInv
  OBVIOUS
<1>1. \A c \in chunks : Going(c) = {} /\ Ended(c) = {}
  BY DEF Init, Going, Ended, AtWork, NoRun
<1>2. Cardinality({}) = 0 /\ Cardinality(Review) \in Nat
  BY FS_EmptySet, Workers
<1>3. extracted = [c \in chunks |-> 0] /\ lost = [c \in chunks |-> 0]
  BY DEF Init
<1>4. ASSUME NEW c \in chunks PROVE Counted(c)
  <2> DEFINE all == Cardinality(Review)
             none == Cardinality({})
  <2>1. /\ extracted[c] = 0 /\ lost[c] = 0 /\ none = 0 /\ all \in Nat
        /\ Cardinality(Going(c)) = none /\ Cardinality(Ended(c)) = none
    BY <1>1, <1>2, <1>3
  <2> HIDE DEF all, none
  <2>2. QED
    BY <2>1 DEF Counted, all
<1>5. QED
  BY <1>3, <1>4 DEF ExtractInv

\* The run keeps its chunk, and has nothing to do only if it is not failed.
LEMMA ExtractKeeps ==
  ASSUME ReviewInv, NEW r \in Review, Extract(r)
  PROVE  /\ job[r].at = "extract" /\ job[r].todo # <<>> /\ job[r].chunk \in chunks
         /\ job'[r].chunk = job[r].chunk
         /\ job'[r].at = "extract" \/ (job'[r].at = "failed" /\ job'[r].todo = job[r].todo)
<1> DEFINE run == Call(job[r])
           failed == [run EXCEPT !.at = "failed"]
<1>1. job[r].at = "extract" /\ job[r].todo # <<>> /\ job[r].chunk \in chunks
  BY RunIsOK DEF Extract, At, RunOK
<1>2. job'[r].chunk = job[r].chunk /\ job'[r].at \in {"extract", "failed"}
  BY ExtractBecomes DEF Goes
<1>3. PICK S : job[r] \in RunRecord(S)
  BY RunIsOK DEF RunFields
<1>4. run.at = "extract" /\ run.todo = job[r].todo /\ run \in RunRecord(S \cup {job[r].calls + 1})
  BY <1>1, <1>3 DEF Call, RunRecord
<1>5. failed.todo = run.todo
  BY <1>4 DEF RunRecord
<1>6. ASSUME NEW next, Set(r, next) PROVE job'[r] = next
  BY <1>6 DEF Set, ReviewInv
<1> HIDE DEF run
<1>7. /\ \A x, y : [run EXCEPT !.got = x, !.todo = y, !.attempt = 1].at = run.at
      /\ \A x : [run EXCEPT !.attempt = x].at = run.at
      /\ \A x : [run EXCEPT !.todo = x, !.attempt = 1].at = run.at
  BY <1>4 DEF RunRecord
<1>8. \/ \E x, y : Set(r, [run EXCEPT !.got = x, !.todo = y, !.attempt = 1])
      \/ \E x : Set(r, [run EXCEPT !.attempt = x])
      \/ \E x : Set(r, [run EXCEPT !.todo = x, !.attempt = 1])
      \/ Set(r, failed)
  BY DEF Extract, ExtractRange, run
<1> HIDE DEF failed
<1>9. job'[r].at = "extract" \/ job'[r] = failed
  <2>1. CASE \E x, y : Set(r, [run EXCEPT !.got = x, !.todo = y, !.attempt = 1])
    <3>1. PICK x, y : Set(r, [run EXCEPT !.got = x, !.todo = y, !.attempt = 1])
      BY <2>1
    <3> DEFINE next == [run EXCEPT !.got = x, !.todo = y, !.attempt = 1]
    <3>2. next.at = "extract"
      BY <1>4, <1>7
    <3>3. Set(r, next)
      BY <3>1
    <3> HIDE DEF next
    <3>4. QED
      BY <1>6, <3>2, <3>3
  <2>2. CASE \E x : Set(r, [run EXCEPT !.attempt = x])
    BY <1>4, <1>6, <1>7, <2>2
  <2>3. CASE \E x : Set(r, [run EXCEPT !.todo = x, !.attempt = 1])
    BY <1>4, <1>6, <1>7, <2>3
  <2>4. CASE Set(r, failed)
    BY <1>6, <2>4
  <2>5. QED
    BY <1>8, <2>1, <2>2, <2>3, <2>4
<1>10. CASE job'[r] = failed /\ job'[r].at # "extract"
  <2>1. job'[r].todo = job[r].todo
    BY <1>4, <1>5, <1>10
  <2>2. job'[r].at = "failed"
    BY <1>2, <1>10
  <2>3. QED
    BY <1>1, <1>2, <2>1, <2>2
<1>11. CASE job'[r].at = "extract"
  BY <1>1, <1>2, <1>11
<1>12. QED
  BY <1>9, <1>10, <1>11, Zenon

\* A run that extracts the last range goes from those at work to those that
\* have ended, as the chunk is counted.
LEMMA ExtractCounts ==
  ASSUME ReviewInv, ExtractInv, NEW r \in Review, Extract(r)
  PROVE  ExtractInv'
<1> SUFFICES ASSUME NEW d \in chunks, d = job[r].chunk PROVE ExtractInv'
  BY ExtractKeeps
<1>1. /\ UNCHANGED <<checkpoint, lost>> /\ chunks' = chunks
      /\ extracted' = IF job'[r].todo = <<>> THEN [extracted EXCEPT ![d] = @ + 1] ELSE extracted
  BY DEF Extract
<1>2. job' = [job EXCEPT ![r] = job'[r]]
  BY StepBecomes DEF Step
<1>3. /\ r \in Going(d) /\ r \notin Ended(d) /\ \A c \in chunks \ {d} : r \notin Going(c)' /\ r \notin Ended(c)
      /\ r \in Ended(d)' <=> job'[r].todo = <<>>
      /\ r \in Going(d)' => job'[r].todo # <<>>
  BY ExtractKeeps DEF Going, Ended, AtWork
<1>4. \A c \in chunks : \A o \in Review \ {r} :
        (o \in Ended(c)' <=> o \in Ended(c)) /\ (o \in Going(c)' <=> o \in Going(c))
  BY <1>2, OthersStay
<1>5. \A c \in chunks : /\ Going(c) \subseteq Review /\ Ended(c) \subseteq Review
                        /\ Going(c)' \subseteq Review /\ Ended(c)' \subseteq Review
  BY DEF Going, Ended, AtWork
<1>6. \A c \in chunks : Current(c)' <=> Current(c)
  BY <1>1 DEF Current
<1>7. ASSUME NEW c \in chunks, c # d \/ job'[r].todo # <<>> PROVE Counted(c)'
  <2>1. Going(c)' \subseteq Going(c) /\ Ended(c) \subseteq Ended(c)'
    BY <1>3, <1>4, <1>5, <1>7
  <2>2. extracted'[c] = extracted[c] /\ lost'[c] = lost[c]
    BY <1>1, <1>7 DEF ExtractInv
  <2>3. QED
    BY <1>6, <2>1, <2>2, QuietChunk
<1>8. ASSUME job'[r].todo = <<>> PROVE Counted(d)'
  <2> DEFINE n == Cardinality(Going(d))
             m == Cardinality(Ended(d))
             all == Cardinality(Review)
  <2>1. Going(d)' = Going(d) \ {r} /\ Ended(d) = Ended(d)' \ {r} /\ r \in Ended(d)'
    BY <1>3, <1>4, <1>5, <1>8
  <2>2. Cardinality(Going(d)') = n - 1 /\ m = Cardinality(Ended(d)') - 1
    BY <1>3, <1>5, <2>1, WithoutOne
  <2>3. n \in Nat /\ m \in Nat /\ all \in Nat /\ Cardinality(Ended(d)') \in Nat
    BY <1>5, Workers
  <2>4. Cardinality(Ended(d)') = m + 1
    BY <2>2, <2>3
  <2>5. extracted[d] \in Nat /\ lost[d] \in Nat /\ extracted'[d] = extracted[d] + 1 /\ lost'[d] = lost[d]
    BY <1>1, <1>8 DEF ExtractInv
  <2>6. IF Current(d) THEN extracted[d] + n <= all + lost[d] ELSE extracted[d] <= lost[d] + m
    BY DEF ExtractInv, Counted
  <2>7. Counted(d)' <=> IF Current(d) THEN extracted'[d] + (n - 1) <= all + lost'[d]
                        ELSE extracted'[d] <= lost'[d] + (m + 1)
    BY <1>6, <2>2, <2>4 DEF Counted
  <2> HIDE DEF n, m, all
  <2>8. QED
    BY <2>3, <2>5, <2>6, <2>7
<1>9. extracted' \in [chunks -> Nat] /\ lost' \in [chunks -> Nat]
  BY <1>1 DEF ExtractInv
<1>10. QED
  BY <1>1, <1>7, <1>8, <1>9 DEF ExtractInv

\* A run that ends with its chunk: what it extracted is in the file, or is lost.
LEMMA SaveCounts ==
  ASSUME ReviewInv, ExtractInv, NEW r \in Review, SaveChunk(r)
  PROVE  ExtractInv'
<1>0. job[r].chunk \in chunks /\ job[r].at = "extract" /\ job[r].todo = <<>>
  BY RunIsOK DEF RunOK, SaveChunk, At
<1> SUFFICES ASSUME NEW d \in chunks, d = job[r].chunk PROVE ExtractInv'
  BY <1>0
<1>1. /\ UNCHANGED extracted /\ chunks' = chunks
      /\ \/ UNCHANGED lost /\ checkpoint' = [checkpoint EXCEPT ![d] = Saved(d, job[r].got)]
         \/ UNCHANGED checkpoint /\ lost' = [lost EXCEPT ![d] = @ + 1]
  BY DEF SaveChunk
<1>2. job' = [job EXCEPT ![r] = job'[r]] /\ job'[r].at # "extract"
  BY SaveBecomes DEF Goes
<1>3. /\ r \in Ended(d) /\ r \notin Going(d) /\ \A c \in chunks \ {d} : r \notin Ended(c)
      /\ \A c \in chunks : r \notin Going(c)' /\ r \notin Ended(c)'
  BY <1>0, <1>2 DEF Going, Ended, AtWork
<1>4. \A c \in chunks : \A o \in Review \ {r} :
        (o \in Ended(c)' <=> o \in Ended(c)) /\ (o \in Going(c)' <=> o \in Going(c))
  BY <1>2, OthersStay
<1>5. \A c \in chunks : /\ Going(c) \subseteq Review /\ Ended(c) \subseteq Review
                        /\ Going(c)' \subseteq Review /\ Ended(c)' \subseteq Review
  BY DEF Going, Ended, AtWork
<1>6. ASSUME NEW c \in chunks, c # d PROVE Counted(c)'
  <2>1. Going(c)' \subseteq Going(c) /\ Ended(c) \subseteq Ended(c)'
    BY <1>3, <1>4, <1>5, <1>6
  <2>2. extracted'[c] = extracted[c] /\ lost'[c] = lost[c] /\ checkpoint'[c] = checkpoint[c]
    BY <1>1, <1>6 DEF ExtractInv, ReviewInv
  <2>3. Current(c)' <=> Current(c)
    BY <2>2 DEF Current
  <2>4. QED
    BY <2>1, <2>2, <2>3, QuietChunk
<1>7. Counted(d)'
  <2> DEFINE n == Cardinality(Going(d))
             m == Cardinality(Ended(d))
             all == Cardinality(Review)
  <2>1. Going(d)' = Going(d) /\ Ended(d)' = Ended(d) \ {r}
    BY <1>3, <1>4, <1>5
  <2>2. Cardinality(Ended(d)') = m - 1
    BY <1>3, <1>5, <2>1, WithoutOne
  <2>3. n + m <= all /\ n \in Nat /\ m \in Nat /\ all \in Nat
    <3>1. Going(d) \cap Ended(d) = {} /\ Going(d) \cup Ended(d) \in SUBSET Review
      BY DEF Going, Ended, AtWork
    <3>2. IsFiniteSet(Going(d)) /\ IsFiniteSet(Ended(d)) /\ n \in Nat /\ m \in Nat /\ all \in Nat
      BY <1>5, Workers
    <3>3. Cardinality(Going(d) \cup Ended(d)) = n + m
      BY <3>1, <3>2, FS_Union, FS_EmptySet
    <3>4. QED
      BY <3>1, <3>2, <3>3, Workers
  <2>4. extracted[d] \in Nat /\ lost[d] \in Nat /\ extracted'[d] = extracted[d]
    BY <1>1 DEF ExtractInv
  <2>5. IF Current(d) THEN extracted[d] + n <= all + lost[d] ELSE extracted[d] <= lost[d] + m
    BY DEF ExtractInv, Counted
  <2>6. Counted(d)' <=> IF Current(d)' THEN extracted'[d] + n <= all + lost'[d]
                        ELSE extracted'[d] <= lost'[d] + (m - 1)
    BY <2>1, <2>2 DEF Counted
  <2>7. CASE UNCHANGED lost /\ checkpoint' = [checkpoint EXCEPT ![d] = Saved(d, job[r].got)]
    <3>1. Current(d)'
      BY <2>7 DEF Current, Saved, ReviewInv
    <3>2. lost'[d] = lost[d]
      BY <2>7
    <3> HIDE DEF n, m, all
    <3>3. QED
      BY <2>3, <2>4, <2>5, <2>6, <3>1, <3>2
  <2>8. CASE UNCHANGED checkpoint /\ lost' = [lost EXCEPT ![d] = @ + 1]
    <3>1. Current(d)' <=> Current(d)
      BY <2>8 DEF Current
    <3>2. lost'[d] = lost[d] + 1
      BY <2>8 DEF ExtractInv
    <3> HIDE DEF n, m, all
    <3>3. QED
      BY <2>3, <2>4, <2>5, <2>6, <3>1, <3>2
  <2>9. QED
    BY <1>1, <2>7, <2>8
<1>8. extracted' \in [chunks -> Nat] /\ lost' \in [chunks -> Nat]
  BY <1>1 DEF ExtractInv
<1>9. QED
  BY <1>1, <1>6, <1>7, <1>8 DEF ExtractInv

\* What the runs hold when the process dies is lost.
LEMMA CrashCounts ==
  ASSUME ReviewInv, ExtractInv, Crash
  PROVE  ExtractInv'
<1>1. /\ UNCHANGED <<checkpoint, extracted>> /\ chunks' = chunks
      /\ lost' = [c \in chunks |-> lost[c] + Cardinality(Unkept(c))]
      /\ \A r \in Review : job'[r].at = "idle"
  BY DEF Crash, NoRun
<1>2. \A c \in chunks : Unkept(c) = Ended(c)
  BY DEF Unkept, Ended, AtWork, At
<1>3. \A c \in chunks : Going(c)' = {} /\ Ended(c)' = {} /\ Going(c) \subseteq Review /\ Ended(c) \subseteq Review
  BY <1>1 DEF Going, Ended, AtWork
<1>4. Cardinality({}) = 0
  BY FS_EmptySet
<1>5. ASSUME NEW c \in chunks PROVE Counted(c)' /\ lost'[c] \in Nat
  <2> DEFINE n == Cardinality(Going(c))
             m == Cardinality(Ended(c))
             all == Cardinality(Review)
  <2>1. n \in Nat /\ m \in Nat /\ all \in Nat
    BY <1>3, Workers
  <2>2. extracted[c] \in Nat /\ lost[c] \in Nat /\ extracted'[c] = extracted[c] /\ lost'[c] = lost[c] + m
    BY <1>1, <1>2 DEF ExtractInv
  <2>3. IF Current(c) THEN extracted[c] + n <= all + lost[c] ELSE extracted[c] <= lost[c] + m
    BY DEF ExtractInv, Counted
  <2>4. Current(c)' <=> Current(c)
    BY <1>1 DEF Current
  <2>5. Counted(c)' <=> IF Current(c) THEN extracted'[c] + 0 <= all + lost'[c]
                        ELSE extracted'[c] <= lost'[c] + 0
    BY <1>3, <1>4, <2>4 DEF Counted
  <2> HIDE DEF n, m, all
  <2>6. QED
    BY <2>1, <2>2, <2>3, <2>5
<1>6. QED
  BY <1>1, <1>5 DEF ExtractInv

LEMMA NextExtract == ReviewInv /\ ExtractInv /\ [Next]_directVars => ExtractInv'
<1> SUFFICES ASSUME ReviewInv, ExtractInv, [Next]_directVars PROVE ExtractInv'
  OBVIOUS
<1>1. ASSUME UNCHANGED <<chunks, checkpoint, extracted, lost>>,
             \A r \in Review : /\ job'[r].at = job[r].at /\ job'[r].chunk = job[r].chunk
                               /\ job'[r].todo = job[r].todo
      PROVE  ExtractInv'
  <2>1. \A c \in chunks : Going(c)' = Going(c) /\ Ended(c)' = Ended(c)
    BY <1>1 DEF Going, Ended, AtWork
  <2>2. \A c \in chunks : Counted(c)'
    BY <1>1, <2>1 DEF ExtractInv, Counted, Current
  <2>3. QED
    BY <1>1, <2>2 DEF ExtractInv
<1>2. CASE UNCHANGED directVars
  BY <1>1, <1>2 DEF directVars, paid
<1>3. CASE Tick
  <2> DEFINE wait(o) == IF job[o].wait > 0 THEN job[o].wait - 1 ELSE 0
             next(o) == [job[o] EXCEPT !.wait = wait(o)]
  <2>1. job' = [o \in Review |-> next(o)] /\ UNCHANGED <<chunks, checkpoint, extracted, lost>>
    BY <1>3 DEF Tick, paid
  <2>2. ASSUME NEW o \in Review
        PROVE  next(o).at = job[o].at /\ next(o).chunk = job[o].chunk /\ next(o).todo = job[o].todo
    <3>1. PICK S : job[o] \in RunRecord(S)
      BY RunIsOK DEF RunFields
    <3>2. QED
      BY <3>1 DEF RunRecord
  <2> HIDE DEF next
  <2>3. QED
    BY <1>1, <2>1, <2>2
<1>4. ASSUME NEW r \in Review, Begin(r) \/ Step(r) \/ Cancel(r) PROVE ExtractInv'
  BY <1>4, ExtractCounts, SaveCounts, OtherStepsCount
<1>5. QED
  BY <1>2, <1>3, <1>4, CrashCounts DEF Next

\* However many reviews of a copy fail, are cut off and are asked for again,
\* each of its chunks is extracted to the end once by each review at most, and
\* once more for each time that what was extracted was lost before it could be
\* kept: directPDFReview and extractOrLoadDirectPDFChunk.
THEOREM ChunksExtractedOnce == Spec => []ExtractedOnce
<1>1. ExtractInv => ExtractedOnce
  <2> SUFFICES ASSUME ExtractInv, NEW c \in chunks
               PROVE  extracted[c] <= Cardinality(Review) + lost[c]
    BY DEF ExtractedOnce
  <2> DEFINE n == Cardinality(Going(c))
             m == Cardinality(Ended(c))
             all == Cardinality(Review)
  <2>1. n \in Nat /\ m \in Nat /\ all \in Nat /\ m <= all
    BY Workers DEF Going, Ended, AtWork
  <2>2. /\ extracted[c] \in Nat /\ lost[c] \in Nat
        /\ IF Current(c) THEN extracted[c] + n <= all + lost[c] ELSE extracted[c] <= lost[c] + m
    BY DEF ExtractInv, Counted
  <2> HIDE DEF n, m, all
  <2>3. extracted[c] <= all + lost[c]
    BY <2>1, <2>2
  <2>4. QED
    BY <2>3 DEF all
<1>2. Init => ReviewInv /\ ExtractInv
  BY InitReviews, InitExtract
<1>3. (ReviewInv /\ ExtractInv) /\ [Next]_directVars => (ReviewInv /\ ExtractInv)'
  BY NextReviews, NextExtract
<1>4. QED
  BY <1>1, <1>2, <1>3, PTL DEF Spec
-----------------------------------------------------------------------------
(***************************************************************************)
(* On a Gemini lane the gate is held by the run that waits or calls, and   *)
(* one that waits will be done when the window is over.                    *)
(***************************************************************************)
Calling == {"reconciling", "reporting"}
Held == Waiting \cup Calling

GateInv ==
  /\ quiet \in 0 .. Window
  /\ copy.lane =>
       /\ \A r \in Review : gate.holder = r <=> job[r].at \in Held
       /\ \A r \in Review : job[r].at \in Waiting =>
            job[r].wait \in Nat /\ (gate.started => job[r].wait >= Window - quiet)
  /\ \E S : gate \in [holder : S, started : BOOLEAN]

LEMMA InitGate == Init => GateInv
<1> SUFFICES ASSUME Init PROVE GateInv
  OBVIOUS
<1>1. quiet \in 0 .. Window /\ gate.holder = "free" /\ gate \in [holder : {"free"}, started : BOOLEAN]
  BY DirectAssumption DEF Init
<1>2. \A r \in Review : job[r].at = "idle"
  BY DEF Init, NoRun
<1>3. QED
  BY <1>1, <1>2, DirectAssumption DEF GateInv, Held, Waiting, Calling

\* A step of a run without the gate, that leaves the gate alone.
LEMMA Outside ==
  ASSUME GateInv, UNCHANGED <<copy, gate, quiet>>, NEW r \in Review,
         job' = [job EXCEPT ![r] = job'[r]], job = [o \in Review |-> job[o]],
         job[r].at \notin Held, job'[r].at \notin Held
  PROVE  GateInv'
<1>1. \A o \in Review : o # r => job'[o] = job[o]
  OBVIOUS
<1>2. QED
  BY <1>1 DEF GateInv, Held

\* A step that gives the gate back.
LEMMA Leaving ==
  ASSUME GateInv, Leave, UNCHANGED <<copy, quiet>>, NEW r \in Review,
         job' = [job EXCEPT ![r] = job'[r]], job = [o \in Review |-> job[o]],
         job[r].at \in Held, job'[r].at \notin Held
  PROVE  GateInv'
<1>1. \A o \in Review : o # r => job'[o] = job[o]
  OBVIOUS
<1>2. PICK S : gate \in [holder : S, started : BOOLEAN]
  BY DEF GateInv
<1>3. /\ gate' \in [holder : S \cup {"free"}, started : BOOLEAN]
      /\ gate'.holder = "free" /\ gate'.started = gate.started
  BY <1>2 DEF Leave
<1>4. ASSUME copy.lane, NEW o \in Review PROVE job'[o].at \notin Held
  BY <1>1, <1>4 DEF GateInv
<1>5. quiet' \in 0 .. Window /\ copy' = copy
  BY DEF GateInv
<1>6. \E T : gate' \in [holder : T, started : BOOLEAN]
  BY <1>3
<1>7. copy.lane => /\ \A o \in Review : gate'.holder = o <=> job'[o].at \in Held
                   /\ \A o \in Review : job'[o].at \notin Waiting
  BY <1>3, <1>4, DirectAssumption DEF Held
<1>8. QED
  BY <1>5, <1>6, <1>7 DEF GateInv

LEMMA EnterKeepsGate ==
  ASSUME ReviewInv, GateInv, NEW r \in Review, EnterGate(r)
  PROVE  GateInv'
<1>1. /\ job' = [job EXCEPT ![r] = job'[r]] /\ job'[r].at \in Waiting /\ job'[r].wait = Delay
      /\ job = [o \in Review |-> job[o]]
  BY EnterBecomes DEF Goes, ReviewInv
<1>2. \A o \in Review : o # r => job'[o] = job[o]
  BY <1>1
<1>3. PICK S : gate \in [holder : S, started : BOOLEAN]
  BY DEF GateInv
<1>4. /\ gate' \in [holder : S \cup {r}, started : BOOLEAN]
      /\ gate'.holder = r /\ gate'.started = gate.started
  BY <1>3 DEF EnterGate
<1>5. copy' = copy /\ quiet' = quiet /\ copy.lane /\ gate.holder = "free"
  BY DEF EnterGate, GateFree
<1>6. \A o \in Review : job[o].at \notin Held
  BY <1>5, DirectAssumption DEF GateInv
<1>7. job'[r].wait \in Nat /\ (gate.started => job'[r].wait >= Window - quiet)
  BY <1>1, DirectAssumption DEF Delay, GateInv
<1>8. \A o \in Review : gate'.holder = o <=> job'[o].at \in Held
  BY <1>1, <1>2, <1>4, <1>6 DEF Held
<1>9. \A o \in Review : job'[o].at \in Waiting =>
        job'[o].wait \in Nat /\ (gate'.started => job'[o].wait >= Window - quiet')
  BY <1>2, <1>4, <1>5, <1>6, <1>7 DEF Held
<1>10. QED
  BY <1>4, <1>5, <1>8, <1>9 DEF GateInv

LEMMA StartKeepsGate ==
  ASSUME ReviewInv, GateInv, NEW r \in Review, StartCall(r)
  PROVE  GateInv'
<1>1. /\ job' = [job EXCEPT ![r] = job'[r]] /\ job'[r].at \in Calling
      /\ job = [o \in Review |-> job[o]] /\ copy' = copy
  BY StartBecomes DEF Goes, ReviewInv, Calling, StartCall
<1>2. \A o \in Review : o # r => job'[o] = job[o]
  BY <1>1
<1>3. PICK S : gate \in [holder : S, started : BOOLEAN]
  BY DEF GateInv
<1>4. CASE ~copy.lane
  BY <1>1, <1>4 DEF StartCall, GateInv
<1>5. CASE copy.lane
  <2>1. job[r].at \in Waiting /\ quiet' = 0 /\ gate' = [gate EXCEPT !.started = TRUE]
    BY <1>5 DEF StartCall
  <2>2. gate' \in [holder : S, started : BOOLEAN] /\ gate'.holder = gate.holder
    BY <1>3, <2>1
  <2>3. gate.holder = r
    BY <1>5, <2>1 DEF GateInv, Held
  <2>4. \A o \in Review : o # r => job[o].at \notin Held
    BY <1>5, <2>3 DEF GateInv
  <2>5. \A o \in Review : gate'.holder = o <=> job'[o].at \in Held
    BY <1>1, <1>2, <2>2, <2>3, <2>4 DEF Held
  <2>6. \A o \in Review : job'[o].at \notin Waiting
    BY <1>1, <1>2, <2>4 DEF Held, Waiting, Calling
  <2>7. QED
    BY <1>1, <2>1, <2>2, <2>5, <2>6, DirectAssumption DEF GateInv
<1>6. QED
  BY <1>4, <1>5

\* While time passes for a run that waits, as much of its wait is over.
LEMMA TickKeepsGate ==
  ASSUME ReviewInv, GateInv, Tick
  PROVE  GateInv'
<1> DEFINE wait(o) == IF job[o].wait > 0 THEN job[o].wait - 1 ELSE 0
           next(o) == [job[o] EXCEPT !.wait = wait(o)]
<1>1. job' = [o \in Review |-> next(o)]
  BY DEF Tick
<1>2. \A o \in Review : Alike(job[o], next(o), job[o].at) /\ next(o).wait = wait(o)
  BY RunIsOK, SetWait, WaitIsSet
<1> HIDE DEF next
<1>3. \A o \in Review : job'[o].at = job[o].at /\ job'[o].wait = wait(o)
  BY <1>1, <1>2 DEF Alike
<1>4. /\ copy' = copy /\ gate' = gate
      /\ quiet < Window /\ quiet' = Least(quiet + 1, Window)
  BY DEF Tick
<1>5. quiet' = quiet + 1 /\ quiet' \in 0 .. Window /\ Window \in Nat /\ quiet \in Nat
  BY <1>4, DirectAssumption DEF Least, GateInv
<1>6. ASSUME copy.lane, NEW o \in Review, job[o].at \in Waiting
      PROVE  wait(o) \in Nat /\ (gate.started => wait(o) >= Window - quiet')
  BY <1>5, <1>6 DEF GateInv
<1>7. QED
  BY <1>3, <1>4, <1>5, <1>6 DEF GateInv

LEMMA NextGate == ReviewInv /\ GateInv /\ [Next]_directVars => GateInv'
<1> SUFFICES ASSUME ReviewInv, GateInv, [Next]_directVars PROVE GateInv'
  OBVIOUS
<1>0. job = [o \in Review |-> job[o]]
  BY DEF ReviewInv
<1>1. ASSUME NEW r \in Review, Begin(r) PROVE GateInv'
  <2>1. job[r].at \notin Held /\ UNCHANGED <<copy, gate, quiet>>
    BY <1>1 DEF Begin, Held, Waiting, Calling
  <2>2. QED
    BY <1>0, <1>1, <2>1, BeginBecomes, Outside DEF Goes, Held, Waiting, Calling
<1>2. ASSUME NEW r \in Review, OneShot(r) PROVE GateInv'
  <2>1. job[r].at \notin Held /\ UNCHANGED <<copy, gate, quiet>>
    BY <1>2 DEF OneShot, At, Held, Waiting, Calling
  <2>2. QED
    BY <1>0, <1>2, <2>1, OneShotBecomes, Outside DEF Goes, Held, Waiting, Calling
<1>3. ASSUME NEW r \in Review, LookAtChunk(r) PROVE GateInv'
  <2>1. job[r].at \notin Held /\ UNCHANGED <<copy, gate, quiet>>
    BY <1>3 DEF LookAtChunk, At, Held, Waiting, Calling
  <2>2. QED
    BY <1>0, <1>3, <2>1, LookBecomes, Outside DEF Goes, Held, Waiting, Calling
<1>4. ASSUME NEW r \in Review, Extract(r) PROVE GateInv'
  <2>1. job[r].at \notin Held /\ UNCHANGED <<copy, gate, quiet>>
    BY <1>4 DEF Extract, At, Held, Waiting, Calling
  <2>2. QED
    BY <1>0, <1>4, <2>1, ExtractBecomes, Outside DEF Goes, Held, Waiting, Calling
<1>5. ASSUME NEW r \in Review, SaveChunk(r) PROVE GateInv'
  <2>1. job[r].at \notin Held /\ UNCHANGED <<copy, gate, quiet>>
    BY <1>5 DEF SaveChunk, At, Held, Waiting, Calling
  <2>2. QED
    BY <1>0, <1>5, <2>1, SaveBecomes, Outside DEF Goes, Held, Waiting, Calling
<1>6. ASSUME NEW r \in Review, Refresh(r) PROVE GateInv'
  <2>1. job[r].at \notin Held /\ UNCHANGED <<copy, gate, quiet>>
    BY <1>6 DEF Refresh, At, Held, Waiting, Calling
  <2>2. QED
    BY <1>0, <1>6, <2>1, RefreshBecomes, Outside DEF Goes, Held, Waiting, Calling
<1>7. ASSUME NEW r \in Review, GiveUpWait(r) PROVE GateInv'
  <2>1. job[r].at \in Held /\ Leave /\ UNCHANGED <<copy, quiet>>
    BY <1>7 DEF GiveUpWait, LeaveAfterWait, Held
  <2>2. QED
    BY <1>0, <1>7, <2>1, GiveUpBecomes, Leaving DEF Goes, Held, Waiting, Calling
<1>8. ASSUME NEW r \in Review, AnswerPlan(r) PROVE GateInv'
  <2>1. job[r].at \in Held /\ Leave /\ UNCHANGED <<copy, quiet>>
    BY <1>8 DEF AnswerPlan, At, Held, Calling
  <2>2. QED
    BY <1>0, <1>8, <2>1, PlanBecomes, Leaving DEF Goes, Held, Waiting, Calling
<1>9. ASSUME NEW r \in Review, AnswerReport(r) PROVE GateInv'
  <2>1. job[r].at \in Held /\ Leave /\ UNCHANGED <<copy, quiet>>
    BY <1>9 DEF AnswerReport, At, Held, Calling
  <2>2. QED
    BY <1>0, <1>9, <2>1, ReportBecomes, Leaving DEF Goes, Held, Waiting, Calling
<1>10. ASSUME NEW r \in Review, Cancel(r) PROVE GateInv'
  <2>1. UNCHANGED <<copy, gate, quiet>>
    BY <1>10 DEF Cancel
  <2>2. \A o \in Review : job'[o].at = job[o].at /\ job'[o].wait = job[o].wait
    BY <1>0, <1>10, CancelBecomes DEF Goes
  <2>3. QED
    BY <2>1, <2>2 DEF GateInv
<1>11. CASE Crash
  <2>1. /\ gate' = [holder |-> "free", started |-> FALSE] /\ quiet' = quiet
        /\ \A o \in Review : job'[o].at = "idle"
    BY <1>11 DEF Crash, NoRun
  <2>2. gate' \in [holder : {"free"}, started : BOOLEAN] /\ gate'.holder = "free"
    BY <2>1
  <2>3. QED
    BY <2>1, <2>2, DirectAssumption DEF GateInv, Held, Waiting, Calling
<1>12. CASE UNCHANGED directVars
  BY <1>12 DEF directVars, GateInv
<1>13. QED
  BY <1>1, <1>2, <1>3, <1>4, <1>5, <1>6, <1>7, <1>8, <1>9, <1>10, <1>11, <1>12,
     EnterKeepsGate, StartKeepsGate, TickKeepsGate DEF Next, Step

\* On one Gemini lane a call starts when no other is in flight and, unless the
\* process was restarted in between, a whole window after the one before it.
THEOREM CallsAreApart == Spec => CallsApart
<1>1. GateInv /\ [Next]_directVars =>
        [\A r \in Review : StartCall(r) /\ copy.lane =>
           /\ gate.started => quiet = Window
           /\ \A o \in Review : job[o].at \notin {"reconciling", "reporting"}]_directVars
  <2> SUFFICES ASSUME GateInv, NEW r \in Review, StartCall(r), copy.lane
               PROVE  /\ gate.started => quiet = Window
                      /\ \A o \in Review : job[o].at \notin {"reconciling", "reporting"}
    OBVIOUS
  <2>1. job[r].at \in Waiting /\ job[r].wait = 0
    BY DEF StartCall
  <2>2. gate.started => quiet = Window
    BY <2>1, DirectAssumption DEF GateInv
  <2>3. gate.holder = r
    BY <2>1 DEF GateInv, Held
  <2>4. \A o \in Review : o # r => job[o].at \notin Held
    BY <2>3 DEF GateInv
  <2>5. QED
    BY <2>1, <2>2, <2>4 DEF Held, Waiting, Calling
<1>2. Init => ReviewInv /\ GateInv
  BY InitReviews, InitGate
<1>3. (ReviewInv /\ GateInv) /\ [Next]_directVars => (ReviewInv /\ GateInv)'
  BY NextReviews, NextGate
<1>4. QED
  BY <1>1, <1>2, <1>3, PTL DEF Spec, CallsApart
-----------------------------------------------------------------------------
(***************************************************************************)
(* Calls.  Of a range of 4 pages come at most 10 ranges, counting those    *)
(* that are split on the way, of 3 pages 7, of 2 pages 3 and of one page   *)
(* 1: the ranges still to extract are worth the sum, and a call that is    *)
(* used or a split spends at least one.                                    *)
(***************************************************************************)
Range0(f, d) == [first |-> f, last |-> f + d]
Pieces == {Range0(f, d) : f \in Nat, d \in 0..3}
Longer(todo, d) == {i \in DOMAIN todo : todo[i].last = todo[i].first + d}
Many(todo, d) == Cardinality(Longer(todo, d))
Due(todo) == Many(todo, 0) + 3 * Many(todo, 1) + 7 * Many(todo, 2) + 10 * Many(todo, 3)
Worth(d) == IF d = 0 THEN 1 ELSE IF d = 1 THEN 3 ELSE IF d = 2 THEN 7 ELSE 10

LEMMA ManyIsNumber ==
  ASSUME NEW todo \in Seq(Pieces), NEW d \in 0..3
  PROVE  IsFiniteSet(Longer(todo, d)) /\ Many(todo, d) \in Nat
<1>1. Len(todo) \in Nat /\ DOMAIN todo = 1..Len(todo)
  OBVIOUS
<1>2. IsFiniteSet(1..Len(todo)) /\ Longer(todo, d) \in SUBSET (1..Len(todo))
  BY <1>1, FS_Interval DEF Longer
<1>3. QED
  BY <1>2, FS_Subset, FS_CardinalityType DEF Many

\* Ranges of one length, put before others.
LEMMA ManyOfJoined ==
  ASSUME NEW parts \in Seq(Pieces), NEW todo \in Seq(Pieces), NEW d \in 0..3, NEW e \in 0..3,
         \A i \in DOMAIN parts : parts[i].last = parts[i].first + e
  PROVE  Many(parts \o todo, d) = Many(todo, d) + (IF d = e THEN Len(parts) ELSE 0)
<1> DEFINE k == Len(parts)
           l == Len(todo)
           joined == parts \o todo
           Front == IF d = e THEN 1..k ELSE {}
           Back == {i + k : i \in Longer(todo, d)}
<1>1. /\ k \in Nat /\ l \in Nat /\ DOMAIN parts = 1..k /\ DOMAIN todo = 1..l /\ DOMAIN joined = 1..(k + l)
      /\ \A i \in 1..k : joined[i] = parts[i] /\ parts[i].first \in Nat
      /\ \A i \in (k + 1)..(k + l) : joined[i] = todo[i - k]
  <2>1. /\ k \in Nat /\ l \in Nat /\ DOMAIN parts = 1..k /\ DOMAIN todo = 1..l /\ DOMAIN joined = 1..(k + l)
    OBVIOUS
  <2>2. \A i \in 1..(k + l) : joined[i] = IF i <= k THEN parts[i] ELSE todo[i - k]
    OBVIOUS
  <2>3. \A i \in 1..k : parts[i] \in Pieces
    BY <2>1
  <2>4. \A g \in Pieces : g.first \in Nat
    BY DEF Pieces, Range0
  <2>5. QED
    BY <2>1, <2>2, <2>3, <2>4
<1>2. ASSUME NEW i \in 1..(k + l) PROVE i \in Longer(joined, d) <=> i \in Front \cup Back
  <2>1. CASE i \in 1..k
    <3>1. i \notin Back
      BY <1>1, <2>1 DEF Longer
    <3>2. joined[i].last = joined[i].first + e /\ joined[i].first \in Nat
      BY <1>1, <2>1
    <3>3. joined[i].last = joined[i].first + d <=> d = e
      BY <3>2
    <3>4. QED
      BY <1>1, <2>1, <3>1, <3>3 DEF Longer
  <2>2. CASE i \notin 1..k
    <3>1. i \in (k + 1)..(k + l) /\ i - k \in 1..l
      BY <1>1, <2>2
    <3>2. i \in Back <=> i - k \in Longer(todo, d)
      BY <1>1, <3>1 DEF Longer
    <3>3. QED
      BY <1>1, <2>2, <3>1, <3>2 DEF Longer
  <2>3. QED
    BY <2>1, <2>2
<1>3. Longer(joined, d) = Front \cup Back
  <2>1. Longer(joined, d) \subseteq 1..(k + l) /\ Front \cup Back \subseteq 1..(k + l)
    BY <1>1 DEF Longer
  <2>2. QED
    BY <1>2, <2>1
<1>4. IsFiniteSet(Back) /\ Cardinality(Back) = Many(todo, d)
  <2> DEFINE move == [i \in Longer(todo, d) |-> i + k]
  <2>1. Longer(todo, d) \subseteq Nat
    BY <1>1 DEF Longer
  <2>2. move \in Bijection(Longer(todo, d), Back)
    BY <1>1, <2>1 DEF Bijection, Injection, Surjection, IsInjective
  <2>3. QED
    BY <2>2, ManyIsNumber, FS_Bijection DEF ExistsBijection, Many
<1>5. IsFiniteSet(Front) /\ Cardinality(Front) = IF d = e THEN k ELSE 0
  <2>1. IsFiniteSet(1..k) /\ Cardinality(1..k) = k
    <3>1. 1 \in Int /\ k \in Int /\ (1 > k => k = 0) /\ k - 1 + 1 = k
      BY <1>1
    <3>2. QED
      BY <3>1, FS_Interval
  <2>2. QED
    BY <2>1, FS_EmptySet
<1>6. Front \cap Back = {}
  BY <1>1 DEF Longer
<1>7. Cardinality(Front \cup Back) = Cardinality(Front) + Cardinality(Back)
  <2>1. Cardinality(Front \cap Back) = 0
    BY <1>6, FS_EmptySet
  <2>2. Cardinality(Front) \in Nat /\ Cardinality(Back) \in Nat
    BY <1>1, <1>4, <1>5, ManyIsNumber
  <2> HIDE DEF Front, Back
  <2>3. Cardinality(Front \cup Back) = Cardinality(Front) + Cardinality(Back) - Cardinality(Front \cap Back)
    BY <1>4, <1>5, FS_Union
  <2>4. QED
    BY <2>1, <2>2, <2>3
<1>8. QED
  BY <1>3, <1>4, <1>5, <1>7, ManyIsNumber DEF Many

LEMMA DueOfJoined ==
  ASSUME NEW parts \in Seq(Pieces), NEW todo \in Seq(Pieces), NEW e \in 0..3,
         \A i \in DOMAIN parts : parts[i].last = parts[i].first + e
  PROVE  /\ Due(parts \o todo) = Due(todo) + Len(parts) * Worth(e)
         /\ Due(todo) \in Nat
<1>1. \A d \in 0..3 : Many(parts \o todo, d) = Many(todo, d) + (IF d = e THEN Len(parts) ELSE 0)
  BY ManyOfJoined
<1>2. \A d \in 0..3 : Many(todo, d) \in Nat
  BY ManyIsNumber
<1>3. Len(parts) \in Nat
  OBVIOUS
<1> DEFINE n == Len(parts)
           joined == parts \o todo
<1>4. /\ Many(joined, 0) = Many(todo, 0) + (IF e = 0 THEN n ELSE 0)
      /\ Many(joined, 1) = Many(todo, 1) + (IF e = 1 THEN n ELSE 0)
      /\ Many(joined, 2) = Many(todo, 2) + (IF e = 2 THEN n ELSE 0)
      /\ Many(joined, 3) = Many(todo, 3) + (IF e = 3 THEN n ELSE 0)
  BY <1>1
<1> DEFINE a == Many(todo, 0)
           b == Many(todo, 1)
           c == Many(todo, 2)
           d == Many(todo, 3)
<1>5. a \in Nat /\ b \in Nat /\ c \in Nat /\ d \in Nat
  BY <1>2
<1>6. n \in Nat
  BY <1>3
<1> HIDE DEF joined, n, a, b, c, d
<1>7. Due(joined) = (a + 3 * b + 7 * c + 10 * d) + n * Worth(e)
  <2>1. CASE e = 0
    <3>1. Worth(e) = 1
      BY <2>1 DEF Worth
    <3>2. Due(joined) = (a + n) + 3 * b + 7 * c + 10 * d
      BY <1>4, <1>5, <2>1 DEF Due, a, b, c, d
    <3>3. QED
      BY <1>5, <1>6, <3>1, <3>2
  <2>2. CASE e = 1
    <3>1. Worth(e) = 3
      BY <2>2 DEF Worth
    <3>2. Due(joined) = a + 3 * (b + n) + 7 * c + 10 * d
      BY <1>4, <1>5, <2>2 DEF Due, a, b, c, d
    <3>3. QED
      BY <1>5, <1>6, <3>1, <3>2
  <2>3. CASE e = 2
    <3>1. Worth(e) = 7
      BY <2>3 DEF Worth
    <3>2. Due(joined) = a + 3 * b + 7 * (c + n) + 10 * d
      BY <1>4, <1>5, <2>3 DEF Due, a, b, c, d
    <3>3. QED
      BY <1>5, <1>6, <3>1, <3>2
  <2>4. CASE e = 3
    <3>1. Worth(e) = 10
      BY <2>4 DEF Worth
    <3>2. Due(joined) = a + 3 * b + 7 * c + 10 * (d + n)
      BY <1>4, <1>5, <2>4 DEF Due, a, b, c, d
    <3>3. QED
      BY <1>5, <1>6, <3>1, <3>2
  <2>5. QED
    BY <2>1, <2>2, <2>3, <2>4
<1>8. Due(todo) = a + 3 * b + 7 * c + 10 * d /\ Due(todo) \in Nat
  BY <1>5 DEF Due, a, b, c, d
<1>9. QED
  BY <1>7, <1>8 DEF joined, n

LEMMA DueIsNumber ==
  ASSUME NEW todo \in Seq(Pieces)
  PROVE  Due(todo) \in Nat
<1>1. \A d \in 0..3 : Many(todo, d) \in Nat
  BY ManyIsNumber
<1> DEFINE a == Many(todo, 0)
           b == Many(todo, 1)
           c == Many(todo, 2)
           d == Many(todo, 3)
<1>2. a \in Nat /\ b \in Nat /\ c \in Nat /\ d \in Nat
  BY <1>1
<1>3. Due(todo) = a + 3 * b + 7 * c + 10 * d
  BY DEF Due
<1> HIDE DEF a, b, c, d
<1>4. QED
  BY <1>2, <1>3

\* What is left when the first range is done.
LEMMA DueOfTail ==
  ASSUME NEW todo \in Seq(Pieces), todo # <<>>, NEW f \in Nat, NEW d \in 0..3, Head(todo) = Range0(f, d)
  PROVE  /\ Tail(todo) \in Seq(Pieces)
         /\ Due(todo) = Due(Tail(todo)) + Worth(d)
         /\ Due(Tail(todo)) \in Nat
<1> DEFINE head == <<Head(todo)>>
<1>1. head \in Seq(Pieces) /\ Len(head) = 1 /\ Tail(todo) \in Seq(Pieces)
  OBVIOUS
<1>2. \A i \in DOMAIN head : head[i].last = head[i].first + d
  BY DEF Range0
<1>3. todo = head \o Tail(todo)
  OBVIOUS
<1> HIDE DEF head
<1>4. QED
  <2>1. Due(head \o Tail(todo)) = Due(Tail(todo)) + Len(head) * Worth(d) /\ Due(Tail(todo)) \in Nat
    BY <1>1, <1>2, DueOfJoined
  <2>2. Len(head) * Worth(d) = Worth(d)
    BY <1>1 DEF Worth
  <2>3. QED
    BY <1>1, <1>3, <2>1, <2>2

\* The parts of a range, in their order, are worth two less than it and one
\* call more.
SplitInto(d) == IF d = 1 THEN 2 ELSE d
PartSize(d) == IF d = 1 THEN 0 ELSE 1

LEMMA PartsOf ==
  ASSUME NEW f \in Nat, NEW d \in 1..3
  PROVE  Split(Range0(f, d)) = {Range0(f + i - 1, PartSize(d)) : i \in 1..SplitInto(d)}
<1> DEFINE parts == {Range0(f + i - 1, PartSize(d)) : i \in 1..SplitInto(d)}
<1>1. CASE d = 1
  <2>1. Split(Range0(f, d)) = {[first |-> p, last |-> p] : p \in f..(f + 1)}
    BY <1>1 DEF Split, Range0, PagesOf, FallbackPages
  <2>2. parts = {[first |-> f + i - 1, last |-> f + i - 1 + 0] : i \in 1..2}
    BY <1>1 DEF Range0, PartSize, SplitInto
  <2>3. ASSUME NEW p \in f..(f + 1) PROVE [first |-> p, last |-> p] \in parts
    <3>1. p - f + 1 \in 1..2 /\ f + (p - f + 1) - 1 = p /\ p + 0 = p
      OBVIOUS
    <3>2. QED
      BY <2>2, <3>1
  <2>4. ASSUME NEW i \in 1..2
        PROVE  [first |-> f + i - 1, last |-> f + i - 1 + 0] \in {[first |-> p, last |-> p] : p \in f..(f + 1)}
    <3>1. f + i - 1 \in f..(f + 1) /\ f + i - 1 + 0 = f + i - 1
      OBVIOUS
    <3>2. QED
      BY <3>1
  <2>5. QED
    BY <2>1, <2>2, <2>3, <2>4
<1>2. CASE d # 1
  <2> DEFINE starts == {f} \cup {g \in (f + 1)..(f + d) : (g - f) % 1 = 0 /\ g - 1 + 2 - 1 < f + d}
  <2>1. Split(Range0(f, d)) = {[first |-> g, last |-> Least(g + 2 - 1, f + d)] : g \in starts}
    BY <1>2 DEF Split, Range0, Windows, NextFits, FallbackPages, FallbackOverlap
  <2>2. starts = f..(f + d - 1)
    BY <1>2
  <2> HIDE DEF starts
  <2>3. \A g \in starts : Least(g + 2 - 1, f + d) = g + 1
    BY <1>2, <2>2 DEF Least
  <2>4. Split(Range0(f, d)) = {[first |-> g, last |-> g + 1] : g \in starts}
    BY <2>1, <2>3
  <2>5. parts = {[first |-> f + i - 1, last |-> f + i - 1 + 1] : i \in 1..d}
    BY <1>2 DEF Range0, PartSize, SplitInto
  <2>6. ASSUME NEW g \in starts PROVE [first |-> g, last |-> g + 1] \in parts
    <3>1. g - f + 1 \in 1..d /\ f + (g - f + 1) - 1 = g
      BY <1>2, <2>2
    <3>2. QED
      BY <2>5, <3>1
  <2>7. ASSUME NEW i \in 1..d PROVE [first |-> f + i - 1, last |-> f + i - 1 + 1] \in Split(Range0(f, d))
    <3>1. f + i - 1 \in starts
      BY <1>2, <2>2
    <3>2. QED
      BY <2>4, <3>1
  <2>8. QED
    BY <2>4, <2>5, <2>6, <2>7
<1>3. QED
  BY <1>1, <1>2

LEMMA OrderedParts ==
  ASSUME NEW f \in Nat, NEW d \in 1..3
  PROVE  LET parts == InOrder(Split(Range0(f, d)))
         IN  /\ parts \in Seq(Pieces) /\ Len(parts) = SplitInto(d)
             /\ \A i \in DOMAIN parts : parts[i].last = parts[i].first + PartSize(d)
<1> DEFINE k == SplitInto(d)
           e == PartSize(d)
           Part(i) == Range0(f + i - 1, e)
           S == {Part(i) : i \in 1..k}
           s == [i \in 1..k |-> Part(i)]
           parts == InOrder(S)
<1>1. k \in 1..3 /\ e \in 0..1
  BY DEF SplitInto, PartSize
<1>2. ASSUME NEW i \in 1..k
      PROVE  Part(i).first = f + i - 1 /\ Part(i).last = Part(i).first + e /\ Part(i) \in Pieces
  <2>1. f + i - 1 \in Nat /\ e \in 0..3
    BY <1>1
  <2>2. Part(i) \in Pieces
    BY <2>1 DEF Pieces
  <2>3. QED
    BY <2>2 DEF Range0
<1> HIDE DEF k, e, Part
<1>3. s \in Bijection(1..k, S)
  <2>1. \A i, j \in 1..k : Part(i) = Part(j) => i = j
    BY <1>1, <1>2
  <2>2. QED
    BY <2>1 DEF Bijection, Injection, Surjection, IsInjective
<1>4. Cardinality(S) = k
  <2>1. IsFiniteSet(1..k) /\ Cardinality(1..k) = k
    <3>1. 1 \in Int /\ k \in Int /\ ~(1 > k) /\ k - 1 + 1 = k
      BY <1>1
    <3>2. QED
      BY <3>1, FS_Interval
  <2>2. QED
    BY <1>3, <2>1, FS_Bijection DEF ExistsBijection
<1>5. \A i, j \in DOMAIN s : i < j => s[i].first < s[j].first
  BY <1>1, <1>2
<1>6. s \in [1..Cardinality(S) -> S]
  BY <1>4
<1>7. parts \in [1..k -> S]
  BY <1>4, <1>5, <1>6 DEF InOrder
<1>8. \A g \in S : g \in Pieces /\ g.last = g.first + e
  BY <1>2
<1> HIDE DEF S, parts
<1>9. parts \in Seq(Pieces) /\ Len(parts) = k /\ DOMAIN parts = 1..k
  BY <1>1, <1>7, <1>8
<1>10. S = Split(Range0(f, d))
  BY PartsOf DEF S, Part, k, e
<1>11. QED
  BY <1>7, <1>8, <1>9, <1>10 DEF parts, k, e

\* A split spends one.
LEMMA DueOfSplit ==
  ASSUME NEW todo \in Seq(Pieces), todo # <<>>, Head(todo).first < Head(todo).last
  PROVE  LET split == InOrder(Split(Head(todo))) \o Tail(todo)
         IN  split \in Seq(Pieces) /\ Due(split) \in Nat /\ Due(todo) = Due(split) + 1 /\ split # <<>>
<1>1. PICK f \in Nat, d \in 0..3 : Head(todo) = Range0(f, d)
  BY DEF Pieces
<1>2. d \in 1..3
  BY <1>1 DEF Range0
<1> DEFINE parts == InOrder(Split(Range0(f, d)))
<1>3. /\ parts \in Seq(Pieces) /\ Len(parts) = SplitInto(d)
      /\ \A i \in DOMAIN parts : parts[i].last = parts[i].first + PartSize(d)
  BY <1>2, OrderedParts
<1> HIDE DEF parts
<1>4. Tail(todo) \in Seq(Pieces) /\ Due(todo) = Due(Tail(todo)) + Worth(d) /\ Due(Tail(todo)) \in Nat
  BY <1>1, DueOfTail
<1>5. PartSize(d) \in 0..3
  BY <1>2 DEF PartSize
<1>6. Due(parts \o Tail(todo)) = Due(Tail(todo)) + Len(parts) * Worth(PartSize(d))
  BY <1>3, <1>4, <1>5, DueOfJoined
<1>7. Worth(d) = SplitInto(d) * Worth(PartSize(d)) + 1
  BY <1>2 DEF Worth, SplitInto, PartSize
<1>8. SplitInto(d) * Worth(PartSize(d)) \in Nat
  BY <1>2 DEF Worth, SplitInto, PartSize
<1>9. Len(parts) # 0
  BY <1>2, <1>3 DEF SplitInto
<1>10. parts \o Tail(todo) \in Seq(Pieces) /\ parts \o Tail(todo) # <<>>
  BY <1>3, <1>4, <1>9
<1>11. QED
  BY <1>1, <1>3, <1>4, <1>6, <1>7, <1>8, <1>10 DEF parts

-----------------------------------------------------------------------------
\* What a run may have spent where it is: 20 calls for each chunk it left, of
\* the chunk at hand 20 but two for each range still to come, and then the
\* attempts at the plan, the report and each stale analysis.
Before(c) == {d \in chunks : d.first < c.first}
Extracting == 20 * Cardinality(chunks)
Limit == Extracting + 6
Analyses(run) == Cardinality({q \in run.questions : q.status = "answered"})

SpentOK(run) ==
  /\ run.calls \in Nat /\ run.attempt \in Nat \ {0}
  /\ IsFiniteSet(run.questions) /\ run.calls <= Limit + 2 * Analyses(run)
  /\ run.at = "oneshot" => run.attempt <= 2 /\ run.calls < run.attempt
  /\ run.at \in {"look", "extract"} => run.chunk \in chunks
  /\ run.at = "look" => run.calls <= 20 * Cardinality(Before(run.chunk))
  /\ run.at = "extract" =>
       /\ run.todo \in Seq(Pieces) /\ run.attempt <= 2 /\ (run.todo = <<>> => run.attempt = 1)
       /\ run.calls + 2 * Due(run.todo) < 20 * Cardinality(Before(run.chunk)) + 20 + run.attempt
  /\ run.at \in {"boundaries", "wait boundaries"} => run.calls < Extracting + run.attempt
  /\ run.at = "reconciling" => run.calls <= Extracting + run.attempt
  /\ run.at \in {"boundaries", "wait boundaries", "reconciling", "report", "wait report", "reporting"} =>
       run.attempt <= 3
  /\ run.at \in {"report", "wait report"} => run.calls < Extracting + 3 + run.attempt
  /\ run.at = "reporting" => run.calls <= Extracting + 3 + run.attempt
  /\ run.at = "refresh" =>
       /\ run.stale \in Nat /\ run.attempt <= 2 /\ (run.stale = 0 => run.attempt = 1)
       /\ run.calls + 2 * run.stale < Limit + 2 * Analyses(run) + run.attempt

SpentInv == \A r \in Review : SpentOK(job[r])

LEMMA ChunksAreFinite ==
  ASSUME ReviewInv
  PROVE  /\ IsFiniteSet(chunks) /\ Cardinality(chunks) \in Nat
         /\ chunks \subseteq Pieces
         /\ Extracting \in Nat /\ Limit \in Nat /\ Limit >= 6
<1> DEFINE n == copy.pages
           Starts == {1} \cup {g \in 3..n : g % 2 = 1 /\ g + 1 < n}
           ChunkAt(f) == [first |-> f, last |-> Least(f + 3, n)]
           give == [f \in Starts |-> ChunkAt(f)]
<1>1. n \in Nat \ {0} /\ chunks = {ChunkAt(f) : f \in Starts}
  BY ChunkFacts
<1>2. IsFiniteSet(Starts)
  <2>1. IsFiniteSet(1..n)
    BY <1>1, FS_Interval
  <2>2. Starts \in SUBSET (1..n)
    BY <1>1
  <2>3. QED
    BY <2>1, <2>2, FS_Subset
<1>3. IsFiniteSet(chunks)
  <2>1. give \in Surjection(Starts, chunks)
    BY <1>1 DEF Surjection
  <2>2. QED
    BY <1>2, <2>1, FS_Surjection
<1>4. ASSUME NEW f \in Starts PROVE ChunkAt(f) \in Pieces
  <2>1. f \in Nat /\ Least(f + 3, n) - f \in 0..3
    BY <1>1 DEF Least
  <2>2. ChunkAt(f) = Range0(f, Least(f + 3, n) - f)
    BY <1>1, <2>1 DEF Range0, Least
  <2>3. QED
    BY <2>1, <2>2 DEF Pieces
<1>5. Cardinality(chunks) \in Nat
  BY <1>3, FS_CardinalityType
<1>6. QED
  BY <1>1, <1>3, <1>4, <1>5 DEF Extracting, Limit

\* What is allowed to a run whose plan is not refreshed yet.
LEMMA InLimit ==
  ASSUME ReviewInv, NEW run, IsFiniteSet(run.questions)
  PROVE  /\ Analyses(run) \in Nat
         /\ \A n \in Nat : n <= Limit => n <= Limit + 2 * Analyses(run)
<1> DEFINE answered == {q \in run.questions : q.status = "answered"}
<1>1. IsFiniteSet(answered)
  <2>1. answered \in SUBSET run.questions
    OBVIOUS
  <2>2. QED
    BY <2>1, FS_Subset
<1>2. Analyses(run) \in Nat
  BY <1>1, FS_CardinalityType DEF Analyses
<1>3. Limit \in Nat
  BY ChunksAreFinite
<1> DEFINE m == Analyses(run)
<1>4. m \in Nat
  BY <1>2
<1> HIDE DEF m
<1>5. \A n \in Nat : n <= Limit => n <= Limit + 2 * m
  BY <1>3, <1>4
<1>6. QED
  BY <1>4, <1>5 DEF m

\* A chunk is one of those before the next.
LEMMA OneMoreBefore ==
  ASSUME ReviewInv, NEW c \in chunks
  PROVE  /\ Cardinality(Before(c)) \in Nat /\ Cardinality(Before(c)) + 1 <= Cardinality(chunks)
         /\ \A d \in chunks : c.first < d.first =>
              Cardinality(Before(c)) + 1 <= Cardinality(Before(d)) /\ Cardinality(Before(d)) \in Nat
<1>1. \A d \in chunks : d.first \in Nat
  BY ChunksAreFinite DEF Pieces, Range0
<1>2. \A d \in chunks : IsFiniteSet(Before(d)) /\ Cardinality(Before(d)) \in Nat
  BY ChunksAreFinite, FS_Subset, FS_CardinalityType DEF Before
<1>3. c \notin Before(c)
  BY <1>1 DEF Before
<1>4. IsFiniteSet(Before(c) \cup {c}) /\ Cardinality(Before(c) \cup {c}) = Cardinality(Before(c)) + 1
  BY <1>2, <1>3, FS_AddElement
<1>5. Cardinality(Before(c) \cup {c}) <= Cardinality(chunks)
  <2>1. Before(c) \cup {c} \in SUBSET chunks
    BY DEF Before
  <2>2. QED
    BY <2>1, ChunksAreFinite, FS_Subset
<1>6. ASSUME NEW d \in chunks, c.first < d.first
      PROVE  Cardinality(Before(c) \cup {c}) <= Cardinality(Before(d))
  <2>1. Before(c) \cup {c} \in SUBSET Before(d)
    BY <1>1, <1>6 DEF Before
  <2>2. QED
    BY <1>2, <2>1, FS_Subset
<1>7. QED
  BY <1>2, <1>4, <1>5, <1>6

\* A piece is worth 10 ranges at most.
LEMMA DueOfOne ==
  ASSUME NEW g \in Pieces
  PROVE  <<g>> \in Seq(Pieces) /\ Due(<<g>>) \in Nat /\ Due(<<g>>) <= 10
<1>1. PICK f \in Nat, d \in 0..3 : g = Range0(f, d)
  BY DEF Pieces
<1>2. <<g>> \in Seq(Pieces) /\ Head(<<g>>) = g /\ Tail(<<g>>) = <<>> /\ <<g>> # <<>>
  OBVIOUS
<1>3. Due(<<g>>) = Due(<<>>) + Worth(d)
  BY <1>1, <1>2, DueOfTail
<1>4. Due(<<>>) = 0
  <2>1. \A d0 \in 0..3 : Longer(<<>>, d0) = {}
    BY DEF Longer
  <2>2. QED
    <3>1. \A d0 \in 0..3 : Many(<<>>, d0) = 0
      BY <2>1, FS_EmptySet DEF Many
    <3>2. QED
      BY <3>1 DEF Due
<1>5. QED
  BY <1>2, <1>3, <1>4 DEF Worth

\* The chunk at hand is paid for with 20 calls.
LEMMA SpentAfter ==
  ASSUME ReviewInv, NEW run, RunFields(run), run.chunk \in chunks,
         run.calls \in Nat, run.attempt \in Nat \ {0}, IsFiniteSet(run.questions),
         run.calls <= 20 * Cardinality(Before(run.chunk)) + 20
  PROVE  SpentOK(After(run))
<1> DEFINE b == Cardinality(Before(run.chunk))
<1>1. PICK S : run \in RunRecord(S)
  BY DEF RunFields
<1>2. b \in Nat /\ Cardinality(chunks) \in Nat /\ b + 1 <= Cardinality(chunks)
  BY OneMoreBefore, ChunksAreFinite
<1>3. CASE \A c \in chunks : c.first <= run.chunk.first
  <2> DEFINE next == [run EXCEPT !.at = "boundaries", !.attempt = 1]
  <2>1. After(run) = next
    BY <1>3 DEF After
  <2>2. /\ next.at = "boundaries" /\ next.attempt = 1 /\ next.calls = run.calls
        /\ next.questions = run.questions
    BY <1>1 DEF RunRecord
  <2> HIDE DEF next, b
  <2>3. run.calls <= Extracting /\ Extracting \in Nat /\ run.calls <= Limit
    BY <1>2 DEF Extracting, Limit, b
  <2>4. SpentOK(next)
    BY <2>2, <2>3, InLimit DEF SpentOK
  <2>5. QED
    BY <2>1, <2>4
<1>4. CASE ~ \A c \in chunks : c.first <= run.chunk.first
  <2> DEFINE d == NextChunk(run.chunk)
             next == [run EXCEPT !.at = "look", !.todo = <<>>, !.got = {}, !.chunk = d]
  <2>1. After(run) = next
    BY <1>4 DEF After
  <2>2. /\ next.at = "look" /\ next.chunk = d /\ next.attempt = run.attempt /\ next.calls = run.calls
        /\ next.questions = run.questions
    BY <1>1 DEF RunRecord
  <2>3. d \in chunks /\ run.chunk.first < d.first
    <3>1. run.chunk.first \in Nat
      BY ChunksAreFinite DEF Pieces, Range0
    <3>2. QED
      BY <1>4, <3>1, NextFollows
  <2>4. b + 1 <= Cardinality(Before(d)) /\ Cardinality(Before(d)) \in Nat /\ Cardinality(Before(d)) + 1 <= Cardinality(chunks)
    BY <2>3, OneMoreBefore
  <2> HIDE DEF next, d, b
  <2>5. run.calls <= 20 * Cardinality(Before(d)) /\ run.calls <= Limit
    BY <1>2, <2>4 DEF b, Limit, Extracting
  <2>6. SpentOK(next)
    BY <2>2, <2>3, <2>5, InLimit DEF SpentOK
  <2>7. QED
    BY <2>1, <2>6
<1>5. QED
  BY <1>3, <1>4

\* What counts of a run.
SameSpent(run, next) ==
  /\ next.at = run.at /\ next.chunk = run.chunk /\ next.todo = run.todo /\ next.attempt = run.attempt
  /\ next.questions = run.questions /\ next.stale = run.stale /\ next.calls = run.calls

LEMMA SpentSame ==
  ASSUME NEW run, NEW next, SpentOK(run), SameSpent(run, next)
  PROVE  SpentOK(next)
BY DEF SpentOK, SameSpent, Analyses

LEMMA NothingSpent ==
  ASSUME ReviewInv
  PROVE  SpentOK(NoRun)
<1>1. NoRun.at = "idle" /\ NoRun.calls = 0 /\ NoRun.attempt = 1 /\ NoRun.questions = {}
  BY DEF NoRun
<1>2. IsFiniteSet(NoRun.questions)
  BY <1>1, FS_EmptySet
<1>3. NoRun.calls <= Limit + 2 * Analyses(NoRun)
  <2>1. 0 <= Limit /\ 0 \in Nat
    BY ChunksAreFinite
  <2>2. 0 <= Limit + 2 * Analyses(NoRun)
    BY <1>2, <2>1, InLimit, Zenon
  <2>3. QED
    BY <1>1, <2>2
<1> HIDE DEF NoRun
<1>4. QED
  BY <1>1, <1>2, <1>3 DEF SpentOK

\* A step of one run.
LEMMA SpentStep ==
  ASSUME ReviewInv, SpentInv, NEW r \in Review, NEW next, Set(r, next), SpentOK(next),
         UNCHANGED <<copy, chunks>>
  PROVE  SpentInv'
<1>1. \A q \in Review : job'[q] = IF q = r THEN next ELSE job[q]
  BY DEF ReviewInv, Set
<1>2. \A q \in Review : SpentOK(job'[q])
  BY <1>1 DEF SpentInv
<1>3. QED
  BY <1>2 DEF SpentInv, SpentOK, Before, Extracting, Analyses, Limit

LEMMA FailedSpends ==
  ASSUME ReviewInv, NEW run, RunFields(run), run.calls \in Nat, run.attempt \in Nat \ {0},
         IsFiniteSet(run.questions), run.calls <= Limit + 2 * Analyses(run)
  PROVE  SpentOK([run EXCEPT !.at = "failed"]) /\ SpentOK([run EXCEPT !.at = "done"])
<1>1. PICK S : run \in RunRecord(S)
  BY DEF RunFields
<1> DEFINE failed == [run EXCEPT !.at = "failed"]
           done == [run EXCEPT !.at = "done"]
<1>2. /\ failed.at = "failed" /\ failed.calls = run.calls /\ failed.attempt = run.attempt
      /\ failed.questions = run.questions /\ done.questions = run.questions
      /\ done.at = "done" /\ done.calls = run.calls /\ done.attempt = run.attempt
  BY <1>1 DEF RunRecord
<1> HIDE DEF failed, done
<1>3. Analyses(failed) = Analyses(run) /\ Analyses(done) = Analyses(run)
  BY <1>2 DEF Analyses
<1>4. SpentOK(failed) /\ SpentOK(done)
  BY <1>2, <1>3 DEF SpentOK
<1>5. QED
  BY <1>4 DEF failed, done

LEMMA BeginSpends ==
  ASSUME ReviewInv, SpentInv, NEW r \in Review, Begin(r)
  PROVE  SpentInv'
<1> DEFINE place == IF Short THEN "oneshot" ELSE "look"
           first == [first |-> 1, last |-> Least(ChunkPages, copy.pages)]
           next == [NoRun EXCEPT !.at = place, !.chunk = first]
<1>1. Set(r, next) /\ UNCHANGED <<copy, chunks>>
  BY DEF Begin
<1>2. next.at = place /\ next.chunk = first /\ next.calls = 0 /\ next.attempt = 1 /\ next.questions = {}
  BY DEF NoRun
<1>3. first \in chunks
  BY ChunkFacts DEF ChunkPages, Least
<1>4. Cardinality(Before(first)) \in Nat /\ 0 <= Limit /\ IsFiniteSet({})
  BY <1>3, OneMoreBefore, ChunksAreFinite, FS_EmptySet
<1> HIDE DEF next, first
<1>5. SpentOK(next)
  <2>1. 0 <= Limit + 2 * Analyses(next)
    <3>1. 0 \in Nat /\ IsFiniteSet(next.questions) /\ 0 <= Limit
      BY <1>2, <1>4
    <3>2. QED
      BY <3>1, InLimit, Zenon
  <2>2. QED
    BY <1>2, <1>3, <1>4, <2>1 DEF SpentOK
<1>6. QED
  BY <1>1, <1>5, SpentStep

\* The run that made one call more.
LEMMA CallFields ==
  ASSUME ReviewInv, NEW r \in Review
  PROVE  LET run == Call(job[r])
         IN  /\ RunFields(run) /\ RunFields(job[r])
             /\ run.at = job[r].at /\ run.chunk = job[r].chunk /\ run.todo = job[r].todo
             /\ run.attempt = job[r].attempt /\ run.questions = job[r].questions
             /\ run.stale = job[r].stale /\ run.calls = job[r].calls + 1
<1>1. RunFields(job[r]) /\ RunFields(Call(job[r]))
  BY RunIsOK, CallAlike DEF Alike
<1>2. PICK S : job[r] \in RunRecord(S)
  BY <1>1 DEF RunFields
<1>3. QED
  BY <1>1, <1>2 DEF Call, RunRecord

LEMMA AttemptFields ==
  ASSUME NEW run, RunFields(run), NEW x
  PROVE  LET next == [run EXCEPT !.attempt = x]
         IN  /\ next.at = run.at /\ next.chunk = run.chunk /\ next.todo = run.todo /\ next.attempt = x
             /\ next.questions = run.questions /\ next.stale = run.stale /\ next.calls = run.calls
<1>1. PICK S : run \in RunRecord(S)
  BY DEF RunFields
<1>2. QED
  BY <1>1 DEF RunRecord

LEMMA OneShotSpends ==
  ASSUME ReviewInv, SpentInv, NEW r \in Review, OneShot(r)
  PROVE  SpentInv'
<1> DEFINE run == Call(job[r])
           next == [run EXCEPT !.attempt = run.attempt + 1]
<1>1. /\ job[r].at = "oneshot" /\ SpentOK(job[r]) /\ UNCHANGED <<copy, chunks>>
      /\ \/ Set(r, [run EXCEPT !.at = "done"])
         \/ job[r].attempt < 2 /\ Set(r, next)
         \/ Set(r, [run EXCEPT !.at = "failed"])
  BY DEF OneShot, At, SpentInv, Prompts
<1>2. Limit \in Nat /\ Limit >= 6
  BY ChunksAreFinite
<1>3. /\ RunFields(run) /\ run.at = "oneshot" /\ run.attempt = job[r].attempt
      /\ run.calls \in Nat /\ run.calls <= run.attempt /\ run.attempt \in 1..2 /\ run.calls <= Limit
      /\ IsFiniteSet(run.questions)
  BY <1>1, <1>2, CallFields DEF SpentOK
<1>4. job[r].attempt < 2 => SpentOK(next)
  <2>1. /\ next.at = "oneshot" /\ next.attempt = run.attempt + 1 /\ next.calls = run.calls
        /\ next.questions = run.questions
    BY <1>3, AttemptFields
  <2> HIDE DEF next
  <2>2. QED
    BY <1>3, <2>1, InLimit DEF SpentOK
<1> HIDE DEF run, next
<1>5. SpentOK([run EXCEPT !.at = "failed"]) /\ SpentOK([run EXCEPT !.at = "done"])
  BY <1>3, InLimit, FailedSpends
<1>6. QED
  BY <1>1, <1>4, <1>5, SpentStep

LEMMA FailsWithin ==
  ASSUME ReviewInv, SpentInv, NEW r \in Review, Set(r, Failed(r)), UNCHANGED <<copy, chunks>>
  PROVE  SpentInv'
<1>1. SpentOK(job[r]) /\ RunFields(job[r])
  BY RunIsOK DEF SpentInv
<1>2. SpentOK(Failed(r))
  BY <1>1, FailedSpends DEF Failed, SpentOK
<1>3. QED
  BY <1>2, SpentStep

\* Keeping a chunk does not change what counts.
LEMMA KeepSpends ==
  ASSUME ReviewInv, SpentInv, NEW r \in Review, NEW ranges, Set(r, Keep(job[r], ranges)),
         UNCHANGED <<copy, chunks>>, job[r].chunk \in chunks,
         job[r].calls <= 20 * Cardinality(Before(job[r].chunk)) + 20
  PROVE  SpentInv'
<1> DEFINE run == job[r]
           kept == [run EXCEPT !.results[run.chunk] = ranges]
<1>1. PICK S : run \in RunRecord(S)
  BY RunIsOK DEF RunFields
<1>2. kept \in RunRecord(S \cup {[run.results EXCEPT ![run.chunk] = ranges]})
  BY <1>1 DEF RunRecord
<1>3. /\ kept.chunk = run.chunk /\ kept.calls = run.calls /\ kept.attempt = run.attempt
      /\ kept.questions = run.questions
  BY <1>1 DEF RunRecord
<1>4. run.calls \in Nat /\ run.attempt \in Nat \ {0} /\ IsFiniteSet(run.questions)
  BY DEF SpentInv, SpentOK
<1>5. RunFields(kept)
  BY <1>2 DEF RunFields
<1>6. Set(r, After(kept))
  BY DEF Keep
<1> HIDE DEF kept
<1>7. SpentOK(After(kept))
  BY <1>3, <1>4, <1>5, SpentAfter
<1>8. QED
  BY <1>6, <1>7, SpentStep

LEMMA LookSpends ==
  ASSUME ReviewInv, SpentInv, NEW r \in Review, LookAtChunk(r)
  PROVE  SpentInv'
<1> DEFINE c == job[r].chunk
           next == [job[r] EXCEPT !.at = "extract", !.todo = <<c>>, !.attempt = 1]
           b == Cardinality(Before(c))
<1>1. /\ job[r].at = "look" /\ SpentOK(job[r]) /\ UNCHANGED <<copy, chunks>>
      /\ Set(r, Failed(r)) \/ Set(r, Keep(job[r], checkpoint[c].ranges)) \/ Set(r, next)
  BY DEF LookAtChunk, At, SpentInv
<1>2. c \in chunks /\ job[r].calls \in Nat /\ job[r].calls <= 20 * b /\ IsFiniteSet(job[r].questions)
  BY <1>1 DEF SpentOK
<1>3. b \in Nat /\ job[r].calls <= Limit
  <2>1. b \in Nat /\ b + 1 <= Cardinality(chunks) /\ Cardinality(chunks) \in Nat
    BY <1>2, OneMoreBefore, ChunksAreFinite
  <2> HIDE DEF b
  <2>2. QED
    BY <1>2, <2>1 DEF Limit, Extracting
<1>4. SpentOK(next)
  <2>1. PICK S : job[r] \in RunRecord(S)
    BY RunIsOK DEF RunFields
  <2>2. /\ next.at = "extract" /\ next.chunk = c /\ next.todo = <<c>> /\ next.attempt = 1
        /\ next.calls = job[r].calls /\ next.questions = job[r].questions
    BY <2>1 DEF RunRecord
  <2>3. <<c>> \in Seq(Pieces) /\ Due(<<c>>) \in Nat /\ Due(<<c>>) <= 10 /\ <<c>> # <<>>
    BY <1>2, ChunksAreFinite, DueOfOne
  <2> HIDE DEF next
  <2>4. QED
    BY <1>2, <1>3, <2>2, <2>3, InLimit DEF SpentOK
<1>5. CASE Set(r, Keep(job[r], checkpoint[c].ranges))
  BY <1>1, <1>2, <1>3, <1>5, KeepSpends
<1>6. QED
  BY <1>1, <1>4, <1>5, FailsWithin, SpentStep

\* A call for a range: it is done, asked for again, split, or the run fails.
LEMMA ExtractSpends ==
  ASSUME ReviewInv, SpentInv, NEW r \in Review, Extract(r)
  PROVE  SpentInv'
<1> DEFINE run == Call(job[r])
           range == Head(run.todo)
           split == InOrder(Split(range)) \o Tail(run.todo)
           good == [run EXCEPT !.got = run.got \cup {range}, !.todo = Tail(run.todo), !.attempt = 1]
           retry == [run EXCEPT !.attempt = run.attempt + 1]
           parts == [run EXCEPT !.todo = split, !.attempt = 1]
           b == Cardinality(Before(run.chunk))
<1>1. /\ job[r].at = "extract" /\ job[r].todo # <<>> /\ SpentOK(job[r]) /\ UNCHANGED <<copy, chunks>>
      /\ \/ Set(r, good)
         \/ run.attempt < 2 /\ Set(r, retry)
         \/ Set(r, [run EXCEPT !.at = "failed"])
         \/ range.first < range.last /\ Set(r, parts)
  BY DEF Extract, ExtractRange, At, SpentInv, Prompts
<1>2. PICK S : run \in RunRecord(S)
  BY CallFields DEF RunFields
<1>3. /\ RunFields(run) /\ run.at = "extract" /\ run.chunk \in chunks /\ run.todo \in Seq(Pieces) /\ run.todo # <<>>
      /\ run.attempt \in 1..2 /\ run.calls \in Nat /\ run.calls >= 1
      /\ run.calls + 2 * Due(run.todo) < 20 * b + 21 + run.attempt
      /\ IsFiniteSet(run.questions)
  <2>1. /\ RunFields(run) /\ run.at = "extract" /\ run.chunk = job[r].chunk /\ run.todo = job[r].todo
        /\ run.attempt = job[r].attempt /\ run.calls = job[r].calls + 1
        /\ run.questions = job[r].questions
    BY <1>1, CallFields
  <2> HIDE DEF run
  <2>2. job[r].calls \in Nat /\ job[r].attempt \in 1..2 /\ job[r].chunk \in chunks /\ job[r].todo \in Seq(Pieces)
        /\ IsFiniteSet(job[r].questions)
        /\ job[r].calls + 2 * Due(job[r].todo) < 20 * Cardinality(Before(job[r].chunk)) + 20 + job[r].attempt
    BY <1>1 DEF SpentOK
  <2> DEFINE old == job[r].calls
             due == Due(run.todo)
  <2>3. run.chunk \in chunks /\ run.todo \in Seq(Pieces) /\ run.todo # <<>> /\ run.attempt \in 1..2
    BY <1>1, <2>1, <2>2
  <2>4. b \in Nat /\ due \in Nat /\ old \in Nat
    BY <2>2, <2>3, OneMoreBefore, DueIsNumber
  <2>5. old + 2 * due < 20 * b + 20 + run.attempt /\ run.calls = old + 1
    BY <2>1, <2>2
  <2> HIDE DEF b, due, old
  <2>6. run.calls + 2 * due < 20 * b + 21 + run.attempt /\ run.calls \in Nat /\ run.calls >= 1
    BY <2>3, <2>4, <2>5
  <2>7. QED
    BY <2>1, <2>2, <2>3, <2>6 DEF b, due
<1> HIDE DEF run
<1>4. PICK f \in Nat, d \in 0..3 : range = Range0(f, d)
  BY <1>3 DEF Pieces
<1>5. /\ Tail(run.todo) \in Seq(Pieces) /\ Due(Tail(run.todo)) \in Nat
      /\ Due(run.todo) = Due(Tail(run.todo)) + Worth(d) /\ Worth(d) \in Nat /\ Worth(d) >= 1
  BY <1>3, <1>4, DueOfTail DEF Worth
<1>6. b \in Nat /\ b + 1 <= Cardinality(chunks) /\ Cardinality(chunks) \in Nat
  BY <1>3, OneMoreBefore, ChunksAreFinite
<1> HIDE DEF range, b
<1> DEFINE due == Due(run.todo)
           rest == Due(Tail(run.todo))
           w == Worth(d)
<1>7. run.calls + 2 * rest < 20 * b + 19 + run.attempt
  <2> DEFINE calls == run.calls
             attempt == run.attempt
  <2>1. /\ due = rest + w /\ rest \in Nat /\ w \in Nat /\ w >= 1 /\ calls \in Nat /\ attempt \in 1..2 /\ b \in Nat
        /\ calls + 2 * due < 20 * b + 21 + attempt
    BY <1>3, <1>5, <1>6 DEF b
  <2> HIDE DEF due, rest, w, calls, attempt
  <2>2. calls + 2 * rest < 20 * b + 19 + attempt
    BY <2>1
  <2>3. QED
    BY <2>2 DEF calls, attempt
<1>8. run.calls <= Limit
  <2>1. rest \in Nat
    BY <1>5
  <2> HIDE DEF rest
  <2>2. run.calls < 20 * b + 21
    BY <1>3, <1>6, <1>7, <2>1
  <2>3. QED
    BY <1>3, <1>6, <2>2 DEF Limit, Extracting
<1>9. SpentOK(good)
  <2>1. /\ good.at = "extract" /\ good.chunk = run.chunk /\ good.todo = Tail(run.todo) /\ good.attempt = 1
        /\ good.calls = run.calls /\ good.questions = run.questions
    BY <1>2, <1>3 DEF RunRecord
  <2> HIDE DEF good
  <2>2. good.calls + 2 * Due(good.todo) < 20 * Cardinality(Before(good.chunk)) + 20 + good.attempt
    <3>1. rest \in Nat
      BY <1>5
    <3>2. good.calls = run.calls /\ Due(good.todo) = rest /\ Cardinality(Before(good.chunk)) = b /\ good.attempt = 1
      BY <2>1 DEF b
    <3> HIDE DEF rest
    <3>3. QED
      BY <1>3, <1>6, <1>7, <3>1, <3>2
  <2>3. QED
    BY <1>3, <1>5, <1>8, <2>1, <2>2, InLimit DEF SpentOK
<1>10. run.attempt < 2 => SpentOK(retry)
  <2>1. /\ retry.at = "extract" /\ retry.chunk = run.chunk /\ retry.todo = run.todo
        /\ retry.attempt = run.attempt + 1 /\ retry.calls = run.calls /\ retry.questions = run.questions
    BY <1>3, AttemptFields
  <2> HIDE DEF retry
  <2>2. Due(retry.todo) = due /\ Cardinality(Before(retry.chunk)) = b /\ due \in Nat
    BY <1>3, <2>1, DueIsNumber DEF b
  <2>3. run.calls + 2 * due < 20 * b + 21 + run.attempt
    BY <1>3 DEF b
  <2> HIDE DEF due
  <2>4. retry.calls + 2 * Due(retry.todo) < 20 * Cardinality(Before(retry.chunk)) + 20 + retry.attempt
    BY <1>3, <1>6, <2>1, <2>2, <2>3
  <2>5. QED
    BY <1>3, <1>8, <2>1, <2>4, InLimit DEF SpentOK
<1>11. range.first < range.last => SpentOK(parts)
  <2>1. /\ parts.at = "extract" /\ parts.chunk = run.chunk /\ parts.todo = split /\ parts.attempt = 1
        /\ parts.calls = run.calls /\ parts.questions = run.questions
    BY <1>2, <1>3 DEF RunRecord
  <2>2. ASSUME range.first < range.last
        PROVE  split \in Seq(Pieces) /\ Due(split) \in Nat /\ Due(run.todo) = Due(split) + 1 /\ split # <<>>
    BY <1>3, <2>2, DueOfSplit DEF range
  <2> HIDE DEF parts, split
  <2>3. ASSUME range.first < range.last
        PROVE  parts.calls + 2 * Due(parts.todo) < 20 * Cardinality(Before(parts.chunk)) + 20 + parts.attempt
    <3>1. /\ due = Due(split) + 1 /\ Due(split) \in Nat /\ Due(parts.todo) = Due(split)
          /\ Cardinality(Before(parts.chunk)) = b /\ run.calls + 2 * due < 20 * b + 21 + run.attempt
      BY <1>3, <2>1, <2>2, <2>3 DEF b
    <3> DEFINE after == Due(split)
    <3> HIDE DEF due, after
    <3>2. due = after + 1 /\ after \in Nat /\ run.calls + 2 * due < 20 * b + 21 + run.attempt
      BY <3>1 DEF after
    <3>3. run.calls + 2 * after < 20 * b + 21
      BY <1>3, <1>6, <3>2
    <3>4. /\ parts.calls = run.calls /\ Due(parts.todo) = after /\ Cardinality(Before(parts.chunk)) = b
          /\ parts.attempt = 1
      BY <2>1, <3>1 DEF after
    <3>5. QED
      BY <1>3, <1>6, <3>2, <3>3, <3>4
  <2>4. QED
    BY <1>3, <1>8, <2>1, <2>2, <2>3, InLimit DEF SpentOK
<1>12. SpentOK([run EXCEPT !.at = "failed"])
  <2>1. run.attempt \in Nat \ {0} /\ run.calls <= Limit + 2 * Analyses(run)
    BY <1>3, <1>8, InLimit
  <2>2. QED
    BY <1>3, <2>1, FailedSpends
<1>13. QED
  <2> HIDE DEF good, retry, parts
  <2>1. QED
    BY <1>1, <1>9, <1>10, <1>11, <1>12, SpentStep

LEMMA SaveSpends ==
  ASSUME ReviewInv, SpentInv, NEW r \in Review, SaveChunk(r)
  PROVE  SpentInv'
<1>1. /\ job[r].at = "extract" /\ job[r].todo = <<>> /\ SpentOK(job[r]) /\ UNCHANGED <<copy, chunks>>
      /\ Set(r, Failed(r)) \/ Set(r, Keep(job[r], job[r].got))
  BY DEF SaveChunk, At, SpentInv
<1> DEFINE b == Cardinality(Before(job[r].chunk))
           due == Due(job[r].todo)
<1>2. /\ job[r].chunk \in chunks /\ job[r].attempt = 1 /\ job[r].calls \in Nat /\ job[r].todo \in Seq(Pieces)
      /\ job[r].calls + 2 * due < 20 * b + 20 + job[r].attempt
  BY <1>1 DEF SpentOK
<1>3. due \in Nat /\ b \in Nat
  BY <1>2, DueIsNumber, OneMoreBefore
<1> HIDE DEF b, due
<1>4. job[r].calls <= 20 * b + 20
  BY <1>2, <1>3
<1>5. job[r].calls <= 20 * Cardinality(Before(job[r].chunk)) + 20
  BY <1>4 DEF b
<1>6. QED
  BY <1>1, <1>2, <1>5, FailsWithin, KeepSpends

\* Only the place changes.
LEMMA PlaceFields ==
  ASSUME NEW run, RunFields(run), NEW x
  PROVE  LET next == [run EXCEPT !.at = x]
         IN  /\ next.at = x /\ next.chunk = run.chunk /\ next.todo = run.todo /\ next.attempt = run.attempt
             /\ next.questions = run.questions /\ next.stale = run.stale /\ next.calls = run.calls
<1>1. PICK S : run \in RunRecord(S)
  BY DEF RunFields
<1>2. QED
  BY <1>1 DEF RunRecord

LEMMA EnterSpends ==
  ASSUME ReviewInv, SpentInv, NEW r \in Review, EnterGate(r)
  PROVE  SpentInv'
<1> DEFINE run == job[r]
           place == IF run.at = "report" THEN "wait report" ELSE "wait boundaries"
           next == [run EXCEPT !.at = place, !.wait = Delay]
<1>1. /\ run.at \in {"boundaries", "report"} /\ SpentOK(run) /\ UNCHANGED <<copy, chunks>>
      /\ Set(r, [run EXCEPT !.at = IF @ = "report" THEN "wait report" ELSE "wait boundaries",
                            !.wait = Delay])
  BY DEF EnterGate, Asking, SpentInv
<1>2. PICK S : run \in RunRecord(S)
  BY RunIsOK DEF RunFields
<1>3. Set(r, next)
  BY <1>1, <1>2 DEF RunRecord
<1>4. /\ next.at = place /\ next.chunk = run.chunk /\ next.todo = run.todo /\ next.attempt = run.attempt
      /\ next.questions = run.questions /\ next.stale = run.stale /\ next.calls = run.calls
  BY <1>2 DEF RunRecord
<1> HIDE DEF next
<1>5. SpentOK(next)
  BY <1>1, <1>4 DEF SpentOK, Analyses
<1>6. QED
  BY <1>1, <1>3, <1>5, SpentStep

LEMMA UpToThree ==
  ASSUME NEW n \in Nat \ {0}, n <= 3
  PROVE  n \in 1..3
  OBVIOUS

\* What SpentOK says of a run that asks for its plan or its report.
LEMMA SpentAsking ==
  ASSUME NEW run, SpentOK(run),
         run.at \in {"boundaries", "wait boundaries", "reconciling", "report", "wait report", "reporting"}
  PROVE  /\ run.calls \in Nat /\ run.attempt \in 1..3
         /\ run.at \in {"boundaries", "wait boundaries"} => run.calls < Extracting + run.attempt
         /\ run.at = "reconciling" => run.calls <= Extracting + run.attempt
         /\ run.at \in {"report", "wait report"} => run.calls < Extracting + 3 + run.attempt
         /\ run.at = "reporting" => run.calls <= Extracting + 3 + run.attempt
         /\ IsFiniteSet(run.questions)
<1>1. run.attempt \in Nat \ {0} /\ run.attempt <= 3
  BY Zenon DEF SpentOK
<1>2. run.attempt \in 1..3
  BY <1>1, UpToThree, Zenon
<1>3. QED
  BY <1>2, Zenon DEF SpentOK

\* A call for a plan or for a report is made.
LEMMA StartSpends ==
  ASSUME ReviewInv, SpentInv, NEW r \in Review, StartCall(r)
  PROVE  SpentInv'
<1> DEFINE run == Call(job[r])
           place == IF run.at \in {"report", "wait report"} THEN "reporting" ELSE "reconciling"
           next == [run EXCEPT !.at = place]
<1>1. /\ job[r].at \in {"boundaries", "report", "wait boundaries", "wait report"}
      /\ SpentOK(job[r]) /\ UNCHANGED <<copy, chunks>>
      /\ Set(r, [run EXCEPT !.at = IF @ \in {"report", "wait report"} THEN "reporting" ELSE "reconciling"])
  BY DEF StartCall, Asking, Waiting, SpentInv
<1>2. /\ RunFields(run) /\ run.at = job[r].at /\ run.attempt = job[r].attempt
      /\ run.questions = job[r].questions /\ run.calls = job[r].calls + 1
  BY CallFields
<1>3. Set(r, next)
  <2>1. PICK S : run \in RunRecord(S)
    BY <1>2 DEF RunFields
  <2> HIDE DEF run
  <2>2. QED
    BY <1>1, <2>1 DEF RunRecord
<1>4. /\ next.at = place /\ next.attempt = run.attempt /\ next.questions = run.questions
      /\ next.calls = run.calls
  BY <1>2, PlaceFields
<1> HIDE DEF run
<1>5. Extracting \in Nat /\ IsFiniteSet(next.questions)
  BY <1>1, <1>2, <1>4, ChunksAreFinite, SpentAsking
<1> HIDE DEF next
<1>6. SpentOK(next)
  <2>1. CASE job[r].at \in {"boundaries", "wait boundaries"}
    <3>1. next.at = "reconciling" /\ next.attempt \in 1..3
      BY <1>1, <1>2, <1>4, <2>1, SpentAsking
    <3>2. next.calls \in Nat /\ next.calls <= Extracting + next.attempt
      <4> DEFINE calls == job[r].calls
                 attempt == job[r].attempt
      <4>1. /\ calls \in Nat /\ attempt \in 1..3 /\ calls < Extracting + attempt
            /\ next.calls = calls + 1 /\ next.attempt = attempt
        BY <1>1, <1>2, <1>4, <2>1, SpentAsking
      <4> HIDE DEF calls, attempt
      <4>2. QED
        BY <1>5, <4>1
    <3>3. next.calls <= Limit
      BY <1>5, <3>1, <3>2 DEF Limit
    <3>4. QED
      BY <1>5, <3>1, <3>2, <3>3, InLimit DEF SpentOK
  <2>2. CASE job[r].at \in {"report", "wait report"}
    <3>1. next.at = "reporting" /\ next.attempt \in 1..3
      BY <1>1, <1>2, <1>4, <2>2, SpentAsking
    <3>2. next.calls \in Nat /\ next.calls <= Extracting + 3 + next.attempt
      <4> DEFINE calls == job[r].calls
                 attempt == job[r].attempt
      <4>1. /\ calls \in Nat /\ attempt \in 1..3 /\ calls < Extracting + 3 + attempt
            /\ next.calls = calls + 1 /\ next.attempt = attempt
        BY <1>1, <1>2, <1>4, <2>2, SpentAsking
      <4> HIDE DEF calls, attempt
      <4>2. QED
        BY <1>5, <4>1
    <3>3. next.calls <= Limit
      BY <1>5, <3>1, <3>2 DEF Limit
    <3>4. QED
      BY <1>5, <3>1, <3>2, <3>3, InLimit DEF SpentOK
  <2>3. QED
    BY <1>1, <2>1, <2>2
<1>7. QED
  BY <1>1, <1>3, <1>6, SpentStep

\* An accepted plan makes finitely many questions.
LEMMA FiniteQuestions ==
  ASSUME NEW cands, NEW plan, NEW n, Accepts(cands, plan, n)
  PROVE  IsFiniteSet(QuestionsOf(cands, plan))
<1> DEFINE give == [g \in Groups(plan) |-> QuestionOf(cands, plan.groups[g])]
<1>1. IsFiniteSet(Groups(plan))
  BY DEF Accepts, Parsed
<1>2. give \in Surjection(Groups(plan), QuestionsOf(cands, plan))
  BY DEF Surjection, QuestionsOf
<1>3. QED
  BY <1>1, <1>2, FS_Surjection

LEMMA PlanSpends ==
  ASSUME ReviewInv, SpentInv, NEW r \in Review, AnswerPlan(r)
  PROVE  SpentInv'
<1> DEFINE run == job[r]
           cands == Candidates(run)
           retry == [run EXCEPT !.at = "boundaries", !.attempt = run.attempt + 1]
<1>1. PICK S : run \in RunRecord(S)
  BY RunIsOK DEF RunFields
<1>2. /\ run.at = "reconciling" /\ SpentOK(run) /\ UNCHANGED <<copy, chunks>>
      /\ \/ \E v : /\ Accepts(cands, PlanOf(cands, v), copy.pages)
                   /\ Set(r, [run EXCEPT !.at = "report", !.attempt = 1,
                                         !.questions = QuestionsOf(cands, PlanOf(cands, v))])
         \/ run.attempt < 3 /\ Set(r, retry)
         \/ Set(r, Failed(r))
  <2>1. run.at = "reconciling" /\ SpentOK(run) /\ UNCHANGED <<copy, chunks>>
    BY DEF AnswerPlan, At, SpentInv
  <2>2. \/ \E v \in Variants(cands) :
             /\ Accepts(cands, PlanOf(cands, v), copy.pages)
             /\ Set(r, [run EXCEPT !.at = "report", !.attempt = 1,
                                   !.questions = QuestionsOf(cands, PlanOf(cands, v))])
        \/ Set(r, IF run.attempt < Plans THEN [run EXCEPT !.at = "boundaries", !.attempt = @ + 1]
                  ELSE Failed(r))
        \/ Set(r, Failed(r))
    BY DEF AnswerPlan
  <2>3. QED
    BY <2>1, <2>2 DEF Plans
<1>3. Extracting \in Nat
  BY ChunksAreFinite
<1>4. /\ run.calls \in Nat /\ run.attempt \in 1..3 /\ run.calls <= Extracting + run.attempt
      /\ IsFiniteSet(run.questions)
  BY <1>2, SpentAsking
<1>5. ASSUME NEW v, Accepts(cands, PlanOf(cands, v), copy.pages),
             Set(r, [run EXCEPT !.at = "report", !.attempt = 1,
                                 !.questions = QuestionsOf(cands, PlanOf(cands, v))])
      PROVE  SpentInv'
  <2> DEFINE questions == QuestionsOf(cands, PlanOf(cands, v))
             next == [run EXCEPT !.at = "report", !.attempt = 1, !.questions = questions]
  <2>1. IsFiniteSet(questions)
    BY <1>5, FiniteQuestions
  <2> HIDE DEF questions
  <2>2. next.at = "report" /\ next.attempt = 1 /\ next.questions = questions /\ next.calls = run.calls
    BY <1>1 DEF RunRecord
  <2>3. Set(r, next)
    BY <1>5 DEF questions
  <2> HIDE DEF next
  <2>4. SpentOK(next)
    <3>1. next.calls <= Limit
      BY <1>3, <1>4, <2>2 DEF Limit
    <3>2. QED
      BY <1>3, <1>4, <2>1, <2>2, <3>1, InLimit DEF SpentOK
  <2>5. QED
    BY <1>2, <2>3, <2>4, SpentStep
<1>6. run.attempt < 3 => SpentOK(retry)
  <2>1. /\ retry.at = "boundaries" /\ retry.attempt = run.attempt + 1 /\ retry.calls = run.calls
        /\ retry.questions = run.questions
    BY <1>1 DEF RunRecord
  <2> HIDE DEF retry
  <2>2. run.attempt < 3 => retry.calls <= Limit
    BY <1>3, <1>4, <2>1 DEF Limit
  <2>3. QED
    BY <1>3, <1>4, <2>1, <2>2, InLimit DEF SpentOK
<1>7. QED
  BY <1>2, <1>5, <1>6, FailsWithin, SpentStep

LEMMA ReportSpends ==
  ASSUME ReviewInv, SpentInv, NEW r \in Review, AnswerReport(r)
  PROVE  SpentInv'
<1> DEFINE run == job[r]
           answered == {q \in run.questions : q.status = "answered"}
           retry == [run EXCEPT !.at = "report", !.attempt = run.attempt + 1]
<1>1. PICK S : run \in RunRecord(S)
  BY RunIsOK DEF RunFields
<1>2. /\ run.at = "reporting" /\ SpentOK(run) /\ UNCHANGED <<copy, chunks>>
      /\ \/ \E n \in 0..Cardinality(answered) :
              Set(r, [run EXCEPT !.at = "refresh", !.attempt = 1, !.stale = n])
         \/ run.attempt < 3 /\ Set(r, retry)
         \/ Set(r, Failed(r))
  BY DEF AnswerReport, At, SpentInv, Reports
<1>3. Extracting \in Nat
  BY ChunksAreFinite
<1>4. /\ run.calls \in Nat /\ run.attempt \in 1..3 /\ run.calls <= Extracting + 3 + run.attempt
      /\ IsFiniteSet(run.questions)
  BY <1>2, SpentAsking
<1>5. Cardinality(answered) = Analyses(run) /\ Analyses(run) \in Nat
  BY <1>4, InLimit DEF Analyses
<1>6. ASSUME NEW n \in 0..Cardinality(answered),
             Set(r, [run EXCEPT !.at = "refresh", !.attempt = 1, !.stale = n])
      PROVE  SpentInv'
  <2> DEFINE next == [run EXCEPT !.at = "refresh", !.attempt = 1, !.stale = n]
  <2>1. /\ next.at = "refresh" /\ next.attempt = 1 /\ next.stale = n /\ next.calls = run.calls
        /\ next.questions = run.questions
    BY <1>1 DEF RunRecord
  <2>2. n \in Nat /\ n <= Analyses(run)
    BY <1>5
  <2>3. Set(r, next)
    BY <1>6
  <2> HIDE DEF next
  <2>4. SpentOK(next)
    <3> DEFINE m == Analyses(run)
    <3>1. Analyses(next) = m /\ m \in Nat /\ n <= m
      BY <1>5, <2>1, <2>2 DEF Analyses
    <3> HIDE DEF m
    <3>2. next.calls + 2 * next.stale < Limit + 2 * m + next.attempt /\ next.calls <= Limit + 2 * m
      BY <1>3, <1>4, <2>1, <2>2, <3>1 DEF Limit
    <3>3. QED
      BY <1>4, <2>1, <2>2, <3>1, <3>2 DEF SpentOK
  <2>5. QED
    BY <1>2, <2>3, <2>4, SpentStep
<1>7. run.attempt < 3 => SpentOK(retry)
  <2>1. /\ retry.at = "report" /\ retry.attempt = run.attempt + 1 /\ retry.calls = run.calls
        /\ retry.questions = run.questions
    BY <1>1 DEF RunRecord
  <2> HIDE DEF retry
  <2>2. run.attempt < 3 => retry.calls <= Limit
    BY <1>3, <1>4, <2>1 DEF Limit
  <2>3. QED
    BY <1>3, <1>4, <2>1, <2>2, InLimit DEF SpentOK
<1>8. QED
  BY <1>2, <1>6, <1>7, FailsWithin, SpentStep

\* Two calls for each analysis that is stale.
LEMMA RefreshSpends ==
  ASSUME ReviewInv, SpentInv, NEW r \in Review, Refresh(r)
  PROVE  SpentInv'
<1> DEFINE run == Call(job[r])
           good == [run EXCEPT !.stale = run.stale - 1, !.attempt = 1]
           retry == [run EXCEPT !.attempt = run.attempt + 1]
<1>1. /\ job[r].at = "refresh" /\ SpentOK(job[r]) /\ UNCHANGED <<copy, chunks>>
      /\ \/ Set(r, [job[r] EXCEPT !.at = "done"])
         \/ run.stale > 0 /\ Set(r, [run EXCEPT !.stale = @ - 1, !.attempt = 1])
         \/ run.stale > 0 /\ run.attempt < 2 /\ Set(r, retry)
         \/ Set(r, Failed(r))
  BY DEF Refresh, At, SpentInv, Refreshes
<1>2. /\ RunFields(run) /\ run.at = "refresh" /\ run.attempt = job[r].attempt
      /\ run.stale = job[r].stale /\ run.calls = job[r].calls + 1 /\ RunFields(job[r])
      /\ run.questions = job[r].questions
  BY <1>1, CallFields
<1> HIDE DEF run
<1>3. PICK S : run \in RunRecord(S)
  BY <1>2 DEF RunFields
<1> DEFINE m == Analyses(run)
<1>4. Limit \in Nat /\ m \in Nat /\ m = Analyses(job[r]) /\ IsFiniteSet(run.questions)
  <2>1. IsFiniteSet(run.questions)
    BY <1>1, <1>2 DEF SpentOK
  <2>2. QED
    BY <1>2, <2>1, ChunksAreFinite, InLimit DEF Analyses
<1>5. /\ run.calls \in Nat /\ run.attempt \in 1..2 /\ run.stale \in Nat
      /\ run.calls + 2 * run.stale <= Limit + 2 * m + run.attempt
  <2> HIDE DEF m
  <2>1. /\ job[r].calls \in Nat /\ job[r].attempt \in Nat \ {0} /\ job[r].attempt <= 2
        /\ job[r].stale \in Nat /\ job[r].calls + 2 * job[r].stale < Limit + 2 * Analyses(job[r]) + job[r].attempt
    BY <1>1, Zenon DEF SpentOK
  <2> DEFINE calls == job[r].calls
             stale == job[r].stale
             attempt == job[r].attempt
  <2>2. /\ calls \in Nat /\ attempt \in Nat \ {0} /\ attempt <= 2 /\ stale \in Nat
        /\ calls + 2 * stale < Limit + 2 * m + attempt
        /\ run.calls = calls + 1 /\ run.stale = stale /\ run.attempt = attempt
    BY <1>2, <1>4, <2>1
  <2> HIDE DEF calls, stale, attempt
  <2>3. attempt \in 1..2 /\ calls + 1 \in Nat /\ (calls + 1) + 2 * stale <= Limit + 2 * m + attempt
    BY <1>4, <2>2
  <2>4. QED
    BY <2>2, <2>3
<1>6. run.stale > 0 => SpentOK(good) /\ (run.attempt < 2 => SpentOK(retry))
  <2>1. /\ good.at = "refresh" /\ good.attempt = 1 /\ good.stale = run.stale - 1
        /\ good.calls = run.calls
        /\ retry.at = "refresh" /\ retry.attempt = run.attempt + 1 /\ retry.stale = run.stale
        /\ retry.calls = run.calls /\ good.questions = run.questions /\ retry.questions = run.questions
    BY <1>2, <1>3 DEF RunRecord
  <2>2. Analyses(good) = m /\ Analyses(retry) = m
    BY <2>1 DEF Analyses
  <2> HIDE DEF good, retry, m
  <2>3. QED
    BY <1>4, <1>5, <2>1, <2>2 DEF SpentOK
<1>7. SpentOK([job[r] EXCEPT !.at = "done"])
  <2>1. /\ job[r].calls \in Nat /\ job[r].attempt \in Nat \ {0} /\ IsFiniteSet(job[r].questions)
        /\ job[r].calls <= Limit + 2 * Analyses(job[r])
    BY <1>1 DEF SpentOK
  <2>2. QED
    BY <1>2, <2>1, FailedSpends
<1>8. CASE run.stale > 0 /\ Set(r, [run EXCEPT !.stale = @ - 1, !.attempt = 1])
  <2>1. Set(r, good)
    BY <1>8
  <2>2. QED
    BY <1>1, <1>6, <1>8, <2>1, SpentStep
<1>9. QED
  BY <1>1, <1>6, <1>7, <1>8, FailsWithin, SpentStep

LEMMA CancelSpends ==
  ASSUME ReviewInv, SpentInv, NEW r \in Review, Cancel(r)
  PROVE  SpentInv'
<1> DEFINE next == [job[r] EXCEPT !.cancelled = TRUE]
<1>1. Set(r, next) /\ SpentOK(job[r]) /\ UNCHANGED <<copy, chunks>>
  BY DEF Cancel, SpentInv
<1>2. PICK S : job[r] \in RunRecord(S)
  BY RunIsOK DEF RunFields
<1>3. SameSpent(job[r], next)
  BY <1>2 DEF RunRecord, SameSpent
<1> HIDE DEF next
<1>4. QED
  BY <1>1, <1>3, SpentSame, SpentStep

\* A step of no run but of all: the runs count as before, or start anew.
LEMMA AllSpend ==
  ASSUME ReviewInv, SpentInv, Tick \/ Crash
  PROVE  SpentInv'
<1>1. \A r \in Review : SpentOK(job'[r])
  <2> TAKE r \in Review
  <2>1. CASE Tick
    <3> DEFINE x == IF job[r].wait > 0 THEN job[r].wait - 1 ELSE 0
               next == [job[r] EXCEPT !.wait = x]
    <3>1. PICK S : job[r] \in RunRecord(S)
      BY RunIsOK DEF RunFields
    <3>2. job'[r] = next
      BY <2>1, <3>1 DEF Tick, RunRecord
    <3>3. SameSpent(job[r], next)
      BY <3>1 DEF RunRecord, SameSpent
    <3> HIDE DEF next
    <3>4. QED
      BY <3>2, <3>3, SpentSame DEF SpentInv
  <2>2. CASE Crash
    BY <2>2, NothingSpent DEF Crash
  <2>3. QED
    BY <2>1, <2>2
<1>2. UNCHANGED <<copy, chunks>>
  BY DEF Tick, Crash
<1>3. QED
  BY <1>1, <1>2 DEF SpentInv, SpentOK, Before, Extracting, Analyses, Limit

LEMMA InitSpent == Init => SpentInv
<1> SUFFICES ASSUME Init PROVE SpentInv
  OBVIOUS
<1>1. \A r \in Review : job[r] = NoRun
  BY DEF Init
<1>2. QED
  BY <1>1, InitReviews, NothingSpent DEF SpentInv

LEMMA NextSpent == ReviewInv /\ SpentInv /\ [Next]_directVars => SpentInv'
<1> SUFFICES ASSUME ReviewInv, SpentInv, [Next]_directVars PROVE SpentInv'
  OBVIOUS
<1>1. CASE UNCHANGED directVars
  BY <1>1 DEF SpentInv, SpentOK, Before, Extracting, Analyses, Limit, directVars
<1>2. ASSUME NEW r \in Review, Begin(r) \/ Step(r) \/ Cancel(r) PROVE SpentInv'
  <2>1. CASE GiveUpWait(r)
    BY <2>1, FailsWithin DEF GiveUpWait
  <2>2. QED
    BY <1>2, <2>1, BeginSpends, OneShotSpends, LookSpends, ExtractSpends, SaveSpends, EnterSpends,
       StartSpends, PlanSpends, ReportSpends, RefreshSpends, CancelSpends DEF Step
<1>3. QED
  BY <1>1, <1>2, AllSpend DEF Next

\* However often the provider's answers cannot be used, whatever ranges are
\* split and asked for again, a run calls the provider a bounded number of
\* times, two of them for each question of the plan that has an answer:
\* directPDFReview.
THEOREM CallsAlwaysBounded == Spec => []CallsBounded
<1>1. SpentInv /\ ReviewInv => CallsBounded
  <2> SUFFICES ASSUME SpentInv, ReviewInv, NEW r \in Review
               PROVE  job[r].calls <= Cardinality(chunks) * 10 * Prompts + Plans + Reports
                                        + Refreshes * Analyses(job[r])
    BY DEF CallsBounded, Analyses
  <2>1. job[r].calls \in Nat /\ job[r].calls <= Limit + 2 * Analyses(job[r]) /\ Analyses(job[r]) \in Nat
    BY InLimit DEF SpentInv, SpentOK
  <2> DEFINE n == Cardinality(chunks)
             m == Analyses(job[r])
  <2>2. n \in Nat /\ m \in Nat /\ Limit = 20 * n + 6
    BY <2>1, ChunksAreFinite DEF Limit, Extracting
  <2> HIDE DEF n, m
  <2>3. job[r].calls <= n * 10 * Prompts + Plans + Reports + Refreshes * m
    BY <2>1, <2>2 DEF Prompts, Plans, Reports, Refreshes, m
  <2>4. QED
    BY <2>3 DEF n, m
<1>2. QED
  BY <1>1, InitSpent, NextSpent, ReviewsStayRight, PTL DEF Spec
=============================================================================
