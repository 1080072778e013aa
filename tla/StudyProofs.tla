---------------------------- MODULE StudyProofs -----------------------------
(***************************************************************************)
(* Study batches for every set of batches and copies, every number of      *)
(* workers and attempts, and any faults and requests: the workers of a     *)
(* batch are a pool over its copies, a batch has a copy read once, and an  *)
(* analysis that was stored stays.                                         *)
(***************************************************************************)
EXTENDS StudyBatch, FiniteSetTheorems, TLAPS

Results == {"none", "ready", "needs_review", "failed"}
Places == {"none", "waiting"} \cup Hands \cup Answered
WorkRecord ==
  [at : Places, result : Results, pages : BOOLEAN, ocrs : Nat, try : Nat,
   read : {"nothing", "pages", "analysis"}]

\* What a worker has in hand: the result of an analysis that is to be saved is
\* one, and a copy that was read keeps its pages until it ends.
Sound(w) ==
  /\ w.at \in {"save", "store"} => w.result \in {"ready", "needs_review"}
  /\ w.at \in {"none", "waiting", "look", "meta", "describe", "questions"} => w.ocrs = 0
  /\ w.at \in {"end"} \cup Answered => w.result # "none"
  /\ w.ocrs = 0 \/ (w.ocrs = 1 /\ (w.pages \/ w.at \in {"end"} \cup Answered))

WorkInv ==
  /\ request \in [Batch -> Request]
  /\ phase \in [Batch -> {"none", "prepared", "running", "over", "crashed"}]
  /\ work \in [Batch -> [Copy -> WorkRecord]]
  /\ tables \in [Copy -> {"nothing", "pages", "analysis"}]
  /\ \A b \in Batch, c \in Copy : Sound(work[b][c])
  /\ \A b \in Batch : phase[b] \in {"none", "prepared"} => \A c \in Copy : work[b][c] = Fresh
  /\ \A b \in Batch : phase[b] = "running" => \A c \in Copy \cap CopiesOf(b) : work[b][c].at # "none"

\* The work of b on c is w now, and all else is as it was.
Becomes(b, c, w) ==
  /\ w \in WorkRecord /\ Sound(w)
  /\ work' = [work EXCEPT ![b][c] = w]
  /\ UNCHANGED <<phase, request>>

\* The ways the place of a copy changes.
Moves(b, c, w) ==
  /\ phase[b] = "running"
  /\ \/ /\ work[b][c].at = "waiting" /\ w.at \in {"look", "sent"}
        /\ Cardinality(In(b, Hands)) < Workers(b)
     \/ work[b][c].at \in Hands /\ w.at \in Hands
     \/ work[b][c].at = "end" /\ w.at = "sent"
     \/ work[b][c].at = "sent" /\ w.at = "counted"

LEMMA WorkIsRecord ==
  ASSUME WorkInv, NEW b \in Batch, NEW c \in Copy
  PROVE  work[b][c] \in WorkRecord /\ Sound(work[b][c])
  BY DEF WorkInv

LEMMA GoBecomes ==
  ASSUME WorkInv, NEW b \in Batch, NEW c \in Copy, NEW place \in Hands \cup Answered,
         Go(b, c, place), UNCHANGED <<phase, request>>,
         Sound([work[b][c] EXCEPT !.at = place])
  PROVE  Becomes(b, c, [work[b][c] EXCEPT !.at = place])
<1> DEFINE w == [work[b][c] EXCEPT !.at = place]
<1>1. work[b][c] \in WorkRecord
  BY WorkIsRecord
<1>2. w \in WorkRecord
  BY <1>1 DEF WorkRecord, Places
<1>3. work' = [work EXCEPT ![b][c] = w]
  BY DEF Go
<1>4. QED
  BY <1>2, <1>3 DEF Becomes

\* A copy whose work ends: nothing is asked of what it holds.
LEMMA ResultBecomes ==
  ASSUME WorkInv, NEW b \in Batch, NEW c \in Copy, NEW status \in Results \ {"none"},
         Result(b, c, status), UNCHANGED <<phase, request>>
  PROVE  Becomes(b, c, [work[b][c] EXCEPT !.at = "end", !.result = status])
<1> DEFINE w == [work[b][c] EXCEPT !.at = "end", !.result = status]
<1>1. work[b][c] \in WorkRecord /\ Sound(work[b][c])
  BY WorkIsRecord
<1>2. w \in WorkRecord /\ Sound(w)
  BY <1>1 DEF WorkRecord, Places, Hands, Answered, Sound
<1>3. work' = [work EXCEPT ![b][c] = w]
  BY DEF Result
<1>4. QED
  BY <1>2, <1>3 DEF Becomes

\* The ends of work that is in a worker's hands.
LEMMA EndMoves ==
  ASSUME WorkInv, NEW b \in Batch, NEW c \in Copy, NEW place \in Hands, At(b, c, place),
         NEW status \in Results \ {"none"}, Result(b, c, status), UNCHANGED <<phase, request>>
  PROVE  \E w : Becomes(b, c, w) /\ Moves(b, c, w)
<1> DEFINE w == [work[b][c] EXCEPT !.at = "end", !.result = status]
<1>1. Becomes(b, c, w)
  BY ResultBecomes
<1>2. w.at = "end"
  BY WorkIsRecord DEF WorkRecord
<1>3. Moves(b, c, w)
  BY <1>2 DEF Moves, At, Hands
<1>4. QED
  BY <1>1, <1>3

\* A copy that goes on with what it has.
LEMMA GoMoves ==
  ASSUME WorkInv, NEW b \in Batch, NEW c \in Copy, NEW place \in Hands, At(b, c, place),
         NEW next \in Hands, Go(b, c, next), UNCHANGED <<phase, request>>,
         Sound([work[b][c] EXCEPT !.at = next])
  PROVE  \E w : Becomes(b, c, w) /\ Moves(b, c, w)
<1> DEFINE w == [work[b][c] EXCEPT !.at = next]
<1>1. Becomes(b, c, w)
  BY GoBecomes
<1>2. w.at = next
  BY WorkIsRecord DEF WorkRecord
<1>3. Moves(b, c, w)
  BY <1>2 DEF Moves, At
<1>4. QED
  BY <1>1, <1>3

LEMMA TakeMoves ==
  ASSUME WorkInv, NEW b \in Batch, NEW c \in Copy, Take(b, c)
  PROVE  \E w : Becomes(b, c, w) /\ Moves(b, c, w)
<1> DEFINE sent == [work[b][c] EXCEPT !.at = "sent", !.result = "failed"]
           look == [work[b][c] EXCEPT !.at = "look"]
<1>1. work[b][c] \in WorkRecord /\ Sound(work[b][c])
  BY WorkIsRecord
<1>2. /\ phase[b] = "running" /\ work[b][c].at = "waiting"
      /\ Cardinality(In(b, Hands)) < Workers(b)
      /\ UNCHANGED <<phase, request>>
  BY DEF Take
<1>3. CASE Go(b, c, "look")
  <2>1. Sound(look)
    BY <1>1, <1>2 DEF Sound, WorkRecord, Answered
  <2>2. Becomes(b, c, look)
    BY <1>2, <1>3, <2>1, GoBecomes DEF Hands
  <2>3. Moves(b, c, look)
    BY <1>1, <1>2 DEF Moves, WorkRecord
  <2>4. QED
    BY <2>2, <2>3
<1>4. CASE work' = [work EXCEPT ![b][c].at = "sent", ![b][c].result = "failed"]
  <2>1. sent \in WorkRecord /\ Sound(sent)
    BY <1>1, <1>2 DEF Sound, WorkRecord, Answered, Results, Places
  <2>2. Becomes(b, c, sent)
    BY <1>2, <1>4, <2>1 DEF Becomes
  <2>3. Moves(b, c, sent)
    BY <1>1, <1>2 DEF Moves, WorkRecord
  <2>4. QED
    BY <2>2, <2>3
<1>5. QED
  BY <1>3, <1>4 DEF Take

LEMMA LookMoves ==
  ASSUME WorkInv, NEW b \in Batch, NEW c \in Copy, Look(b, c)
  PROVE  \E w : Becomes(b, c, w) /\ Moves(b, c, w)
<1>1. work[b][c] \in WorkRecord /\ Sound(work[b][c])
  BY WorkIsRecord
<1>2. At(b, c, "look") /\ UNCHANGED <<phase, request>>
  BY DEF Look
<1>3. ASSUME NEW status \in {"ready", "failed"}, Result(b, c, status)
      PROVE  \E w : Becomes(b, c, w) /\ Moves(b, c, w)
  BY <1>2, <1>3, EndMoves DEF Results, Hands
<1>4. CASE work' = [work EXCEPT ![b][c].at = "meta", ![b][c].read = tables[c]]
  <2> DEFINE w == [work[b][c] EXCEPT !.at = "meta", !.read = tables[c]]
  <2>1. w \in WorkRecord /\ Sound(w)
    BY <1>1, <1>2 DEF Sound, WorkRecord, WorkInv, At, Places, Hands, Answered
  <2>2. Becomes(b, c, w)
    BY <1>2, <1>4, <2>1 DEF Becomes
  <2>3. Moves(b, c, w)
    BY <1>1, <1>2 DEF Moves, WorkRecord, At, Hands
  <2>4. QED
    BY <2>2, <2>3
<1>5. CASE Begin(b, c)
  <2> DEFINE Held(pages, place, result) ==
               [work[b][c] EXCEPT !.at = place, !.pages = pages, !.result = result]
  <2>1. PICK pages \in BOOLEAN, place \in {"end", "ocr", "analyse", "unload"},
             result \in {"ready", "none"} :
          /\ place = "end" => result = "ready"
          /\ work' = [work EXCEPT ![b][c].at = place, ![b][c].pages = pages, ![b][c].result = result]
    <3> DEFINE pg == ~request[b].force /\ Resumable(review[c])
               pl == IF request[b].stage = "ocr" THEN IF pg THEN "end" ELSE "ocr"
                     ELSE IF ~request[b].ownOCR THEN "analyse"
                     ELSE IF pg THEN "unload" ELSE "ocr"
    <3>1. pg \in BOOLEAN
      BY DEF WorkInv, Request, Resumable
    <3>2. pl \in {"end", "ocr", "analyse", "unload"}
      OBVIOUS
    <3>3. work' = [work EXCEPT ![b][c].at = pl, ![b][c].pages = pg,
                               ![b][c].result = IF pl = "end" THEN "ready" ELSE "none"]
      BY <1>5 DEF Begin
    <3>4. QED
      BY <3>1, <3>2, <3>3
  <2>2. Held(pages, place, result) \in WorkRecord /\ Sound(Held(pages, place, result))
    BY <1>1, <1>2, <2>1 DEF Sound, WorkRecord, At, Places, Hands, Answered, Results
  <2>3. Becomes(b, c, Held(pages, place, result))
    BY <1>2, <2>1, <2>2 DEF Becomes
  <2>4. Moves(b, c, Held(pages, place, result))
    BY <1>1, <1>2 DEF Moves, WorkRecord, At, Hands
  <2>5. QED
    BY <2>3, <2>4
<1>6. QED
  BY <1>3, <1>4, <1>5 DEF Look, LookForText, LookForAnalysis, Fail

\* OCR counts a copy that had no pages; from then on it has them.
LEMMA CheckpointMoves ==
  ASSUME WorkInv, NEW b \in Batch, NEW c \in Copy, NEW place \in {"ocr", "analyse"},
         At(b, c, place), NEW next \in {"end", "unload", "split"}, NEW status \in {"ready", "none"}, next = "end" => status = "ready",
         Checkpoint(b, c, next, status), UNCHANGED <<phase, request>>
  PROVE  \E w : Becomes(b, c, w) /\ Moves(b, c, w)
<1> DEFINE count == work[b][c].ocrs + (IF work[b][c].pages THEN 0 ELSE 1)
           Read(at, result) ==
             [work[b][c] EXCEPT !.pages = TRUE, !.ocrs = count, !.at = at, !.result = result]
<1>1. work[b][c] \in WorkRecord /\ Sound(work[b][c])
  BY WorkIsRecord
<1>2. CASE Fail(b, c)
  BY <1>2, EndMoves DEF Fail, Results, Hands
<1>3. ASSUME NEW at \in {"end", "unload", "split"}, NEW result \in {"ready", "none", "failed"},
             at = "end" => result # "none",
             work' = [work EXCEPT ![b][c].pages = TRUE,
                        ![b][c].ocrs = @ + (IF work[b][c].pages THEN 0 ELSE 1),
                        ![b][c].at = at, ![b][c].result = result]
      PROVE  \E w : Becomes(b, c, w) /\ Moves(b, c, w)
  <2>1. count \in Nat /\ count <= 1 /\ (count = 0 \/ count = 1)
    BY <1>1 DEF Sound, WorkRecord, At, Answered
  <2>2. Read(at, result) \in WorkRecord
    BY <1>1, <2>1 DEF WorkRecord, Places, Hands, Results
  <2>3. Sound(Read(at, result))
    BY <1>1, <1>3, <2>1 DEF Sound, WorkRecord, Answered
  <2>4. work' = [work EXCEPT ![b][c] = Read(at, result)]
    BY <1>3
  <2>5. Becomes(b, c, Read(at, result))
    BY <2>2, <2>3, <2>4 DEF Becomes
  <2>6. Moves(b, c, Read(at, result))
    BY <1>1 DEF Moves, WorkRecord, At, Hands
  <2>7. QED
    BY <2>5, <2>6
<1>4. QED
  BY <1>2, <1>3 DEF Checkpoint, Archive

LEMMA RetryMoves ==
  ASSUME WorkInv, NEW b \in Batch, NEW c \in Copy, NEW place \in {"analyse", "split"},
         At(b, c, place), Retried(b, c), UNCHANGED <<phase, request>>
  PROVE  \E w : Becomes(b, c, w) /\ Moves(b, c, w)
<1> DEFINE again == [work[b][c] EXCEPT !.at = "analyse", !.try = @ + 1]
<1>1. work[b][c] \in WorkRecord /\ Sound(work[b][c])
  BY WorkIsRecord
<1>2. CASE Fail(b, c)
  BY <1>2, EndMoves DEF Fail, Results, Hands
<1>3. CASE work' = [work EXCEPT ![b][c].at = "analyse", ![b][c].try = @ + 1]
  <2>1. again \in WorkRecord
    <3>1. "analyse" \in Places /\ work[b][c].try + 1 \in Nat
      BY <1>1 DEF WorkRecord, Places, Hands
    <3>2. QED
      BY <1>1, <3>1 DEF WorkRecord
  <2>2. Sound(again)
    <3>1. /\ again.at = "analyse" /\ again.ocrs = work[b][c].ocrs
          /\ again.pages = work[b][c].pages /\ work[b][c].at \in {"analyse", "split"}
      BY <1>1 DEF WorkRecord, At
    <3>2. QED
      BY <1>1, <3>1 DEF Sound, Answered
  <2>3. Becomes(b, c, again)
    BY <1>3, <2>1, <2>2 DEF Becomes
  <2>4. Moves(b, c, again)
    BY <1>1 DEF Moves, WorkRecord, At, Hands
  <2>5. QED
    BY <2>3, <2>4
<1>4. QED
  BY <1>2, <1>3 DEF Retried

\* The analysis of the pages, and what is saved of it.
LEMMA AnalysisMoves ==
  ASSUME WorkInv, NEW b \in Batch, NEW c \in Copy,
         \/ OCRPhase(b, c) \/ UnloadModel(b, c) \/ AnalyseOCR(b, c)
         \/ Analyse(b, c) \/ SaveAnalysis(b, c) \/ StoreAnalysis(b, c)
  PROVE  \E w : Becomes(b, c, w) /\ Moves(b, c, w)
<1>1. work[b][c] \in WorkRecord /\ Sound(work[b][c])
  BY WorkIsRecord
<1>2. UNCHANGED <<phase, request>>
  BY DEF OCRPhase, UnloadModel, AnalyseOCR, Analyse, SaveAnalysis, StoreAnalysis
<1>3. ASSUME NEW place \in Hands, At(b, c, place), Fail(b, c)
      PROVE  \E w : Becomes(b, c, w) /\ Moves(b, c, w)
  BY <1>2, <1>3, EndMoves DEF Fail, Results
<1>4. CASE OCRPhase(b, c)
  <2>1. At(b, c, "ocr")
    BY <1>4 DEF OCRPhase
  <2>2. Fail(b, c) \/ Checkpoint(b, c, "end", "ready") \/ Checkpoint(b, c, "unload", "none")
    BY <1>4 DEF OCRPhase
  <2>3. QED
    BY <1>2, <1>3, <2>1, <2>2, CheckpointMoves DEF Hands
<1>5. CASE UnloadModel(b, c)
  <2>1. At(b, c, "unload") /\ (Go(b, c, "analyse") \/ Fail(b, c))
    BY <1>5 DEF UnloadModel
  <2>2. Sound([work[b][c] EXCEPT !.at = "analyse"])
    BY <1>1, <2>1 DEF Sound, At, WorkRecord, Answered
  <2>3. QED
    BY <1>2, <1>3, <2>1, <2>2, GoMoves DEF Hands
<1>6. CASE AnalyseOCR(b, c)
  <2>1. At(b, c, "analyse") /\ (Retried(b, c) \/ Fail(b, c) \/ Checkpoint(b, c, "split", "none"))
    BY <1>6 DEF AnalyseOCR
  <2>2. QED
    BY <1>2, <1>3, <2>1, RetryMoves, CheckpointMoves DEF Hands
<1>7. CASE Analyse(b, c)
  <2>1. At(b, c, "split")
    BY <1>7 DEF Analyse
  <2>2. ASSUME NEW status \in {"ready", "needs_review"},
               work' = [work EXCEPT ![b][c].at = "save", ![b][c].result = status]
        PROVE  \E w : Becomes(b, c, w) /\ Moves(b, c, w)
    <3> DEFINE w == [work[b][c] EXCEPT !.at = "save", !.result = status]
    <3>1. w \in WorkRecord /\ Sound(w)
      BY <1>1, <2>1 DEF Sound, WorkRecord, Places, Hands, Results, Answered, At
    <3>2. Becomes(b, c, w)
      BY <1>2, <2>2, <3>1 DEF Becomes
    <3>3. Moves(b, c, w)
      BY <1>1, <2>1 DEF Moves, WorkRecord, At, Hands
    <3>4. QED
      BY <3>2, <3>3
  <2>3. QED
    BY <1>2, <1>3, <1>7, <2>1, <2>2, RetryMoves DEF Analyse, Hands
<1>8. CASE SaveAnalysis(b, c)
  <2>1. At(b, c, "save") /\ (Go(b, c, "store") \/ Fail(b, c))
    BY <1>8 DEF SaveAnalysis, Archive
  <2>2. Sound([work[b][c] EXCEPT !.at = "store"])
    BY <1>1, <2>1 DEF Sound, At, WorkRecord, Answered
  <2>3. QED
    BY <1>2, <1>3, <2>1, <2>2, GoMoves DEF Hands
<1>9. CASE StoreAnalysis(b, c)
  <2>1. At(b, c, "store") /\ (Go(b, c, "end") \/ Fail(b, c))
    BY <1>9 DEF StoreAnalysis
  <2>2. Sound([work[b][c] EXCEPT !.at = "end"])
    BY <1>1, <2>1 DEF Sound, At, WorkRecord, Answered
  <2>3. QED
    BY <1>2, <1>3, <2>1, <2>2, GoMoves DEF Hands
<1>10. QED
  BY <1>4, <1>5, <1>6, <1>7, <1>8, <1>9

LEMMA MetadataMoves ==
  ASSUME WorkInv, NEW b \in Batch, NEW c \in Copy,
         AskForMetadata(b, c) \/ DescribeCopy(b, c) \/ DescribeQuestions(b, c)
  PROVE  \E w : Becomes(b, c, w) /\ Moves(b, c, w)
<1>1. work[b][c] \in WorkRecord /\ Sound(work[b][c])
  BY WorkIsRecord
<1>2. UNCHANGED <<phase, request>>
  BY DEF AskForMetadata, DescribeCopy, DescribeQuestions
<1>3. CASE AskForMetadata(b, c)
  <2>1. At(b, c, "meta") /\ (Go(b, c, "describe") \/ Fail(b, c))
    BY <1>3 DEF AskForMetadata
  <2>2. Sound([work[b][c] EXCEPT !.at = "describe"])
    BY <1>1, <2>1 DEF Sound, At, WorkRecord, Answered
  <2>3. QED
    BY <1>2, <2>1, <2>2, GoMoves, EndMoves DEF Fail, Hands, Results
<1>4. CASE DescribeCopy(b, c)
  <2>1. At(b, c, "describe") /\ (Go(b, c, "questions") \/ Fail(b, c))
    BY <1>4 DEF DescribeCopy
  <2>2. Sound([work[b][c] EXCEPT !.at = "questions"])
    BY <1>1, <2>1 DEF Sound, At, WorkRecord, Answered
  <2>3. QED
    BY <1>2, <2>1, <2>2, GoMoves, EndMoves DEF Fail, Hands, Results
<1>5. CASE DescribeQuestions(b, c)
  <2>1. At(b, c, "questions") /\ (Result(b, c, "ready") \/ Fail(b, c))
    BY <1>5 DEF DescribeQuestions
  <2>2. QED
    BY <1>2, <2>1, EndMoves DEF Fail, Hands, Results
<1>6. QED
  BY <1>3, <1>4, <1>5

LEMMA SaveItemMoves ==
  ASSUME WorkInv, NEW b \in Batch, NEW c \in Copy, SaveItem(b, c)
  PROVE  \E w : Becomes(b, c, w) /\ Moves(b, c, w)
<1> DEFINE w == [Fresh EXCEPT !.at = "sent", !.result = work[b][c].result, !.ocrs = work[b][c].ocrs]
<1>1. work[b][c] \in WorkRecord /\ Sound(work[b][c])
  BY WorkIsRecord
<1>2. At(b, c, "end") /\ UNCHANGED <<phase, request>> /\ work' = [work EXCEPT ![b][c] = w]
  BY DEF SaveItem
<1>3. w \in WorkRecord /\ Sound(w)
  BY <1>1, <1>2 DEF Sound, Fresh, WorkRecord, Places, Answered, At
<1>4. Becomes(b, c, w)
  BY <1>2, <1>3 DEF Becomes
<1>5. Moves(b, c, w)
  BY <1>2 DEF Moves, At, Fresh
<1>6. QED
  BY <1>4, <1>5

LEMMA CollectMoves ==
  ASSUME WorkInv, NEW b \in Batch, NEW c \in Copy, Collect(b, c)
  PROVE  \E w : Becomes(b, c, w) /\ Moves(b, c, w)
<1> DEFINE w == [work[b][c] EXCEPT !.at = "counted"]
<1>1. work[b][c] \in WorkRecord /\ Sound(work[b][c])
  BY WorkIsRecord
<1>2. At(b, c, "sent") /\ UNCHANGED <<phase, request>> /\ Go(b, c, "counted")
  BY DEF Collect
<1>3. Sound(w)
  BY <1>1, <1>2 DEF Sound, WorkRecord, Answered, At
<1>4. Becomes(b, c, w)
  BY <1>2, <1>3, GoBecomes DEF Answered
<1>5. Moves(b, c, w)
  BY <1>1, <1>2 DEF Moves, WorkRecord, At
<1>6. QED
  BY <1>4, <1>5

LEMMA StepMoves ==
  ASSUME WorkInv, NEW b \in Batch, NEW c \in Copy, Step(b, c)
  PROVE  \E w : Becomes(b, c, w) /\ Moves(b, c, w)
  BY TakeMoves, LookMoves, AnalysisMoves, MetadataMoves, SaveItemMoves, CollectMoves DEF Step

-----------------------------------------------------------------------------
\* What a step does to the study tables.
TablesKept ==
  \/ UNCHANGED tables
  \/ \E c \in Copy, kind \in {"nothing", "pages", "analysis"} :
       /\ tables' = [tables EXCEPT ![c] = kind]
       /\ \/ kind = "analysis" \/ kind = tables[c]
          \/ client.kind = "sync" /\ client.copy = c /\ client.review = "ocr_ready"

LEMMA ReplacedTables ==
  ASSUME NEW c \in Copy, NEW r, r # "ocr_ready", ReplaceStudyCopyResult(c, r)
  PROVE  TablesKept
  BY DEF ReplaceStudyCopyResult, SaveTables, TablesOf, TablesKept

LEMMA StepKeepsTables ==
  ASSUME WorkInv, NEW b \in Batch, NEW c \in Copy, Step(b, c)
  PROVE  TablesKept
<1>1. work[b][c] \in WorkRecord /\ Sound(work[b][c])
  BY WorkIsRecord
<1>2. CASE Look(b, c)
  <2>1. ASSUME Syncs(c, snap[b][c]), ReplaceStudyCopyResult(c, review[c]) PROVE TablesKept
    BY <2>1, ReplacedTables DEF Syncs, Complete
  <2>2. QED
    BY <1>2, <2>1 DEF Look, LookForText, LookForAnalysis, TablesKept
<1>3. CASE StoreAnalysis(b, c)
  <2>1. work[b][c].result # "ocr_ready"
    BY <1>1, <1>3 DEF StoreAnalysis, At, Sound
  <2>2. QED
    BY <1>3, <2>1, ReplacedTables DEF StoreAnalysis, TablesKept
<1>4. CASE DescribeQuestions(b, c)
  <2> DEFINE kind == IF work[b][c].read = "analysis" THEN work[b][c].read ELSE tables[c]
  <2>1. tables' = [tables EXCEPT ![c] = kind]
    BY <1>4 DEF DescribeQuestions, SaveStudyQuestions
  <2>2. kind \in {"nothing", "pages", "analysis"}
    BY DEF WorkInv
  <2>3. kind = "analysis" \/ kind = tables[c]
    OBVIOUS
  <2>4. QED
    BY <2>1, <2>2, <2>3 DEF TablesKept
<1>5. CASE \/ Take(b, c) \/ OCRPhase(b, c) \/ UnloadModel(b, c) \/ AnalyseOCR(b, c) \/ Analyse(b, c)
           \/ SaveAnalysis(b, c) \/ AskForMetadata(b, c) \/ DescribeCopy(b, c)
           \/ SaveItem(b, c) \/ Collect(b, c)
  BY <1>5 DEF Take, OCRPhase, UnloadModel, AnalyseOCR, Analyse, SaveAnalysis, AskForMetadata,
              DescribeCopy, SaveItem, Collect, TablesKept, stored
<1>6. QED
  BY <1>2, <1>3, <1>4, <1>5 DEF Step

LEMMA ClientKeepsTables ==
  ASSUME WorkInv, NEW c \in Copy, ClientStep(c)
  PROVE  TablesKept
<1>1. CASE View(c)
  <2>1. CASE Syncs(c, copy[c])
    BY <1>1, <2>1, ReplacedTables DEF View, Syncs, Complete
  <2>2. QED
    BY <1>1, <2>1 DEF View, TablesKept
<1>2. CASE SaveSync(c)
  <2>1. CASE client.review = "ocr_ready"
    BY <1>2, <2>1 DEF SaveSync, ReplaceStudyCopyResult, SaveTables, TablesOf, TablesKept
  <2>2. QED
    BY <1>2, <2>1, ReplacedTables DEF SaveSync
<1>3. CASE Import(c) \/ ReadForEdit(c) \/ ReadForSync(c) \/ DeleteTopperReview(c)
  BY <1>3 DEF Import, ReadForEdit, ReadForSync, DeleteTopperReview, TablesKept, stored
<1>4. ASSUME NEW status, SyncPayload(c, status) \/ SaveEdit(c, status) PROVE TablesKept
  BY <1>4 DEF SyncPayload, SaveEdit, TablesKept
<1>5. QED
  BY <1>1, <1>2, <1>3, <1>4 DEF ClientStep

LEMMA NextKeepsTables ==
  ASSUME WorkInv, [Next]_studyVars
  PROVE  TablesKept
<1>1. ASSUME NEW b \in Batch,
             \/ Prepare(b) \/ QueueStage(b) \/ Launch(b) \/ ResolveFails(b) \/ CancelJob(b) \/ Finish(b)
      PROVE  TablesKept
  BY <1>1 DEF Prepare, QueueStage, Launch, ResolveFails, CancelJob, Finish, TablesKept, stored
<1>2. CASE Crash
  BY <1>2 DEF Crash, TablesKept, stored
<1>3. CASE UNCHANGED studyVars
  BY <1>3 DEF studyVars, TablesKept, stored
<1>4. QED
  BY <1>1, <1>2, <1>3, StepKeepsTables, ClientKeepsTables DEF Next

LEMMA WorkInvInit == Init => WorkInv
<1> SUFFICES ASSUME Init PROVE WorkInv
  OBVIOUS
<1>1. request \in [Batch -> Request]
  BY StudyAssumption DEF Init
<1>2. Fresh \in WorkRecord /\ Sound(Fresh)
  BY DEF Fresh, WorkRecord, Places, Hands, Answered, Results, Sound
<1>3. QED
  BY <1>1, <1>2 DEF Init, WorkInv

LEMMA BecomesKeepsInv ==
  ASSUME WorkInv, TablesKept, NEW b \in Batch, NEW c \in Copy, NEW w, Becomes(b, c, w), Moves(b, c, w)
  PROVE  WorkInv'
<1>1. tables' \in [Copy -> {"nothing", "pages", "analysis"}]
  BY DEF WorkInv, TablesKept
<1>2. /\ w \in WorkRecord /\ Sound(w) /\ work' = [work EXCEPT ![b][c] = w]
      /\ phase' = phase /\ request' = request
  BY DEF Becomes
<1>3. /\ work' \in [Batch -> [Copy -> WorkRecord]]
      /\ \A d \in Batch, e \in Copy : work'[d][e] = IF d = b /\ e = c THEN w ELSE work[d][e]
  BY <1>2 DEF WorkInv
<1>4. \A d \in Batch, e \in Copy : Sound(work'[d][e])
  BY <1>2, <1>3 DEF WorkInv
<1>5. Sound(work[b][c])
  BY DEF WorkInv
<1>6. ASSUME NEW d \in Batch, phase'[d] \in {"none", "prepared"}, NEW e \in Copy
      PROVE  work'[d][e] = Fresh
  BY <1>2, <1>3, <1>6 DEF WorkInv, Moves
<1>7. (\A d \in Batch, e \in Copy : Sound(work[d][e]))'
  BY <1>4 DEF Sound
<1>8. ASSUME NEW d \in Batch, phase'[d] = "running", NEW e \in Copy \cap CopiesOf(d)'
      PROVE  work'[d][e].at # "none"
  <2>1. e \in Copy \cap CopiesOf(d) /\ phase[d] = "running"
    BY <1>2, <1>8 DEF CopiesOf
  <2>2. w.at # "none"
    BY DEF Moves, Hands
  <2>3. QED
    BY <1>3, <2>1, <2>2 DEF WorkInv
<1>9. QED
  BY <1>1, <1>2, <1>3, <1>6, <1>7, <1>8 DEF WorkInv

LEMMA WorkInvNext == WorkInv /\ [Next]_studyVars => WorkInv'
<1> SUFFICES ASSUME WorkInv, [Next]_studyVars PROVE WorkInv'
  OBVIOUS
<1>1. TablesKept
  BY NextKeepsTables
<1>2. tables' \in [Copy -> {"nothing", "pages", "analysis"}]
  BY <1>1 DEF WorkInv, TablesKept
<1>3. ASSUME UNCHANGED <<request, work>>,
             phase' \in [Batch -> {"none", "prepared", "running", "over", "crashed"}],
             \A b \in Batch : phase'[b] \in {"none", "prepared"} => phase[b] \in {"none", "prepared"},
             \A b \in Batch : phase'[b] = "running" => phase[b] = "running"
      PROVE  WorkInv'
  BY <1>2, <1>3 DEF WorkInv, Sound, CopiesOf
<1>4. ASSUME NEW b \in Batch, NEW c \in Copy, Step(b, c) PROVE WorkInv'
  BY <1>1, <1>4, StepMoves, BecomesKeepsInv
<1>5. ASSUME NEW b \in Batch, Launch(b) PROVE WorkInv'
  <2> DEFINE row0 == [c \in Copy |-> IF c \in CopiesOf(b) THEN [Fresh EXCEPT !.at = "waiting"] ELSE Fresh]
  <2>1. /\ Fresh \in WorkRecord /\ Sound(Fresh)
        /\ [Fresh EXCEPT !.at = "waiting"] \in WorkRecord /\ Sound([Fresh EXCEPT !.at = "waiting"])
    BY DEF Fresh, WorkRecord, Places, Hands, Answered, Results, Sound
  <2>2. /\ work' = [work EXCEPT ![b] = row0]
        /\ phase' = [phase EXCEPT ![b] = "running"] /\ request' = request
    BY <1>5 DEF Launch
  <2>3. \A c \in Copy : row0[c] \in WorkRecord /\ Sound(row0[c])
    BY <2>1
  <2>4. work' \in [Batch -> [Copy -> WorkRecord]]
    BY <2>2, <2>3 DEF WorkInv
  <2>5. \A d \in Batch, e \in Copy : Sound(work'[d][e])
    BY <2>2, <2>3 DEF WorkInv
  <2>6. (\A d \in Batch, e \in Copy : Sound(work[d][e]))'
    BY <2>5 DEF Sound
  <2>7. ASSUME NEW d \in Batch, phase'[d] = "running", NEW e \in Copy \cap CopiesOf(d)'
        PROVE  work'[d][e].at # "none"
    BY <2>2, <2>7 DEF WorkInv, CopiesOf, Fresh
  <2>8. QED
    BY <1>2, <2>2, <2>4, <2>6, <2>7 DEF WorkInv
<1>6. ASSUME NEW b \in Batch, Prepare(b) \/ QueueStage(b) \/ ResolveFails(b) \/ CancelJob(b) \/ Finish(b)
      PROVE  WorkInv'
  <2>1. UNCHANGED <<request, work>>
    BY <1>6 DEF Prepare, QueueStage, ResolveFails, CancelJob, Finish, running
  <2>2. \/ phase' = phase
        \/ \E p \in {"prepared", "over"} : phase' = [phase EXCEPT ![b] = p] /\ (p = "prepared" => phase[b] = "none")
    BY <1>6 DEF Prepare, QueueStage, ResolveFails, CancelJob, Finish, running
  <2>3. QED
    BY <1>3, <2>1, <2>2 DEF WorkInv
<1>7. ASSUME NEW c \in Copy, ClientStep(c) PROVE WorkInv'
  <2>1. UNCHANGED <<request, work, phase>>
    BY <1>7 DEF ClientStep, Import, View, ReadForEdit, ReadForSync, SaveSync, DeleteTopperReview,
                SyncPayload, SaveEdit, running
  <2>2. QED
    BY <1>3, <2>1 DEF WorkInv
<1>8. CASE Crash
  BY <1>3, <1>8 DEF Crash, WorkInv
<1>9. CASE UNCHANGED studyVars
  BY <1>3, <1>9 DEF studyVars, WorkInv, running
<1>10. QED
  BY <1>4, <1>5, <1>6, <1>7, <1>8, <1>9 DEF Next

-----------------------------------------------------------------------------
(***************************************************************************)
(* What follows from it.                                                   *)
(***************************************************************************)
LEMMA WorkInvAlways == Spec => []WorkInv
  BY WorkInvInit, WorkInvNext, PTL DEF Spec

\* However often the analysis of a copy is tried again and whatever fails after
\* its OCR, a batch has it read once (analyzeStudyBatchCopy keeps the pages).
THEOREM CopiesAreReadOnce == Spec => []OCROncePerBatch
<1>1. WorkInv => OCROncePerBatch
  BY DEF WorkInv, OCROncePerBatch, Sound
<1>2. QED
  BY <1>1, WorkInvAlways, PTL

\* A stored analysis leaves the study tables only by a client's sync with a
\* review that was set back to its OCR.
THEOREM AnalysesAreKept == Spec => AnalysisKept
<1>1. WorkInv /\ [Next]_studyVars =>
        [\A c \in Copy : tables[c] = "analysis" =>
           \/ tables'[c] = "analysis"
           \/ client.kind = "sync" /\ client.copy = c /\ client.review = "ocr_ready"]_studyVars
  BY NextKeepsTables DEF TablesKept, WorkInv
<1>2. QED
  BY <1>1, WorkInvAlways, PTL DEF Spec, AnalysisKept
-----------------------------------------------------------------------------
(***************************************************************************)
(* The rows.  The collector's counts are those of the copies it counted;   *)
(* while nothing was cancelled or lost, the row of a copy tells its result *)
(* once it is sent; and the last row of a batch is written when all of its *)
(* copies were counted.                                                    *)
(***************************************************************************)
RowRecord == [status : {"none", "queued", "running"} \cup Ended, completed : Nat, failed : Nat]

Good(b) == {c \in Copy : work[b][c].at = "counted" /\ work[b][c].result # "failed"}
Bad(b) == {c \in Copy : work[b][c].at = "counted" /\ work[b][c].result = "failed"}
AllCounted(b) == \A c \in CopiesOf(b) : work[b][c].at = "counted"
Matches(b) == \A c \in Copy : work[b][c].at \in Answered => item[b][c] = work[b][c].result

TallyIsRight(b) ==
  LET t == tally[b] IN
  /\ t.completed = Cardinality(Good(b)) /\ t.failed = Cardinality(Bad(b))
  /\ Good(b) \cup Bad(b) = {} => t.status = "none"
  /\ Good(b) \cup Bad(b) # {} => (t.status \in Ended <=> t.completed + t.failed >= Total(b))
  /\ t.status \in Ended => (t.status = "completed" <=> t.failed = 0)

RowIsRight(b) ==
  row[b].status \in Ended /\ b \notin broken =>
    /\ AllCounted(b) /\ Matches(b)
    /\ row[b].completed = tally[b].completed /\ row[b].failed = tally[b].failed
    /\ row[b].status = "completed" <=> row[b].failed = 0

RunningIsRight(b) ==
  row[b].status = "running" /\ phase[b] = "over" =>
    b \in cancelled \cup broken \/ In(b, Answered) = {}

RowInv ==
  /\ row \in [Batch -> RowRecord] /\ tally \in [Batch -> RowRecord]
  /\ item \in [Batch -> [Copy -> {"queued", "running"} \cup Results]]
  /\ \A b \in Batch : IsInjective(request[b].copies)
  /\ \A b \in Batch, c \in Copy : work[b][c].at # "none" => c \in CopiesOf(b)
  /\ \A b \in Batch : b \notin cancelled \cup broken => Matches(b)
  /\ \A b \in Batch : phase[b] \in {"none", "prepared"} => row[b].status \notin Ended
  /\ \A b \in Batch : TallyIsRight(b) /\ RowIsRight(b) /\ RunningIsRight(b)

\* A batch asks for no copy twice (prepareStudyBatch drops repeated ids).
LEMMA CopiesAreCounted ==
  ASSUME WorkInv, RowInv, NEW b \in Batch
  PROVE  /\ CopiesOf(b) \subseteq Copy /\ IsFiniteSet(CopiesOf(b))
         /\ Cardinality(CopiesOf(b)) = Total(b) /\ Total(b) \in Nat
<1> DEFINE s == request[b].copies
<1>1. s \in Seq(Copy) /\ IsInjective(s)
  BY DEF WorkInv, RowInv, Request
<1>2. CopiesOf(b) = {s[i] : i \in 1..Len(s)} /\ Total(b) = Len(s) /\ Len(s) \in Nat
  BY <1>1 DEF CopiesOf, Range, Total
<1>3. CopiesOf(b) \subseteq Copy
  BY <1>1, <1>2
<1>4. s \in Surjection(1..Len(s), CopiesOf(b)) /\ s \in Injection(1..Len(s), CopiesOf(b))
  BY <1>1, <1>2 DEF Surjection, Injection, IsInjective
<1>5. IsFiniteSet(1..Len(s)) /\ Cardinality(1..Len(s)) = Len(s)
  <2>1. 1 \in Int /\ Len(s) \in Int /\ Len(s) >= 0
    BY <1>2
  <2>2. /\ IsFiniteSet(1..Len(s))
        /\ Cardinality(1..Len(s)) = IF 1 > Len(s) THEN 0 ELSE Len(s) - 1 + 1
    BY <2>1, FS_Interval
  <2>3. QED
    BY <2>1, <2>2
<1>6. QED
  BY <1>2, <1>3, <1>4, <1>5, FS_Surjection

LEMMA CountsAreFinite ==
  ASSUME NEW b \in Batch
  PROVE  /\ IsFiniteSet(Good(b)) /\ IsFiniteSet(Bad(b))
         /\ Cardinality(Good(b)) \in Nat /\ Cardinality(Bad(b)) \in Nat
         /\ Cardinality(Good(b) \cup Bad(b)) = Cardinality(Good(b)) + Cardinality(Bad(b))
<1>1. Good(b) \in SUBSET Copy /\ Bad(b) \in SUBSET Copy /\ Good(b) \cap Bad(b) = {}
  BY DEF Good, Bad
<1>2. IsFiniteSet(Good(b)) /\ IsFiniteSet(Bad(b))
  BY <1>1, StudyAssumption, FS_Subset
<1>3. Cardinality(Good(b)) \in Nat /\ Cardinality(Bad(b)) \in Nat
  BY <1>2, FS_CardinalityType
<1>4. Cardinality(Good(b) \cup Bad(b))
        = Cardinality(Good(b)) + Cardinality(Bad(b)) - Cardinality(Good(b) \cap Bad(b))
  BY <1>2, FS_Union
<1>5. Cardinality(Good(b) \cap Bad(b)) = 0
  BY <1>1, FS_EmptySet
<1>6. QED
  BY <1>2, <1>3, <1>4, <1>5

\* A batch whose counts make up its copies has counted them all.
LEMMA FullCount ==
  ASSUME WorkInv, RowInv, NEW b \in Batch, tally[b].completed + tally[b].failed >= Total(b)
  PROVE  AllCounted(b)
<1>1. Good(b) \cup Bad(b) \in SUBSET CopiesOf(b)
  BY DEF RowInv, Good, Bad
<1>2. Cardinality(Good(b) \cup Bad(b)) >= Cardinality(CopiesOf(b))
  BY CountsAreFinite, CopiesAreCounted DEF RowInv, TallyIsRight
<1>3. Cardinality(Good(b) \cup Bad(b)) <= Cardinality(CopiesOf(b)) 
  BY <1>1, CopiesAreCounted, FS_Subset
<1>4. Cardinality(Good(b) \cup Bad(b)) = Cardinality(CopiesOf(b))
  BY <1>2, <1>3, CountsAreFinite, CopiesAreCounted
<1>5. Good(b) \cup Bad(b) = CopiesOf(b)
  BY <1>1, <1>4, CopiesAreCounted, FS_Subset
<1>6. QED
  BY <1>5 DEF AllCounted, Good, Bad

\* What a worker's step writes: the row of its copy.
LEMMA StepWrites ==
  ASSUME WorkInv, RowInv, NEW b \in Batch, NEW c \in Copy, Step(b, c), ~Collect(b, c)
  PROVE  /\ UNCHANGED <<row, tally, cancelled>>
         /\ broken \subseteq broken' /\ broken' \subseteq broken \cup {b}
         /\ \/ item' = item
            \/ \E x \in {"running"} \cup Results : item' = [item EXCEPT ![b][c] = x]
         /\ \/ work'[b][c].at \notin Answered
            \/ b \in cancelled \cup broken'
            \/ item'[b][c] = work'[b][c].result
<1>1. work[b][c] \in WorkRecord
  BY WorkIsRecord
<1>2. PICK w : Becomes(b, c, w) /\ Moves(b, c, w)
  BY StepMoves
<1>3. work'[b][c] = w
  BY <1>2 DEF Becomes, WorkInv
<1>4. CASE Take(b, c)
  <2>1. UNCHANGED <<row, tally, cancelled>> /\ broken \subseteq broken' /\ broken' \subseteq broken \cup {b}
    BY <1>4 DEF Take, Written, Lost
  <2>2. item' = item \/ item' = [item EXCEPT ![b][c] = "running"]
    BY <1>4 DEF Take
  <2>3. work'[b][c].at \notin Answered \/ b \in cancelled \cup broken'
    <3>1. CASE Go(b, c, "look")
      BY <1>1, <1>4, <3>1 DEF Go, Answered, WorkInv, WorkRecord
    <3>2. CASE Lost(b)
      BY <3>2 DEF Lost
    <3>3. QED
      BY <1>4, <3>1, <3>2 DEF Take
  <2>4. QED
    BY <2>1, <2>2, <2>3
<1>5. CASE SaveItem(b, c)
  <2>1. /\ UNCHANGED <<row, tally, cancelled>> /\ broken \subseteq broken' /\ broken' \subseteq broken \cup {b}
        /\ \/ item' = item /\ b \in cancelled \cup broken'
           \/ item' = [item EXCEPT ![b][c] = work[b][c].result]
    BY <1>5 DEF SaveItem, Written, Lost
  <2>2. work'[b][c].result = work[b][c].result
    BY <1>5 DEF SaveItem, WorkInv, Fresh
  <2>3. work[b][c].result \in Results
    BY <1>1 DEF WorkRecord
  <2>4. CASE item' = [item EXCEPT ![b][c] = work[b][c].result]
    <3>1. item'[b][c] = work[b][c].result
      BY <2>4 DEF RowInv
    <3>2. QED
      BY <2>1, <2>2, <2>3, <2>4, <3>1
  <2>5. QED
    BY <2>1, <2>4
<1>6. CASE \/ Look(b, c) \/ OCRPhase(b, c) \/ UnloadModel(b, c) \/ AnalyseOCR(b, c) \/ Analyse(b, c)
           \/ SaveAnalysis(b, c) \/ StoreAnalysis(b, c) \/ AskForMetadata(b, c) \/ DescribeCopy(b, c)
           \/ DescribeQuestions(b, c)
  <2>1. work[b][c].at \in Hands \ {"end"}
    BY <1>6 DEF Look, OCRPhase, UnloadModel, AnalyseOCR, Analyse, SaveAnalysis, StoreAnalysis,
                AskForMetadata, DescribeCopy, DescribeQuestions, At, Hands
  <2>2. work'[b][c].at \notin Answered
    BY <1>2, <1>3, <2>1 DEF Moves, Hands, Answered
  <2>3. UNCHANGED <<row, tally, cancelled, item>>
    BY <1>6 DEF Look, OCRPhase, UnloadModel, AnalyseOCR, Analyse, SaveAnalysis, StoreAnalysis,
                AskForMetadata, DescribeCopy, DescribeQuestions, stored, trouble
  <2>4. broken \subseteq broken' /\ broken' \subseteq broken \cup {b}
    BY <1>6 DEF Look, LookForText, LookForAnalysis, OCRPhase, UnloadModel, AnalyseOCR, Analyse,
                SaveAnalysis, StoreAnalysis, AskForMetadata, DescribeCopy, DescribeQuestions,
                Checkpoint, Archive, Written, Lost, trouble
  <2>5. QED
    BY <2>2, <2>3, <2>4
<1>7. QED
  BY <1>4, <1>5, <1>6 DEF Step

\* What RowInv says of one batch.
BatchRight(b) ==
  /\ b \notin cancelled \cup broken => Matches(b)
  /\ phase[b] \in {"none", "prepared"} => row[b].status \notin Ended
  /\ TallyIsRight(b) /\ RowIsRight(b) /\ RunningIsRight(b)

RowTypes ==
  /\ row \in [Batch -> RowRecord] /\ tally \in [Batch -> RowRecord]
  /\ item \in [Batch -> [Copy -> {"queued", "running"} \cup Results]]
  /\ \A b \in Batch : IsInjective(request[b].copies)
  /\ \A b \in Batch, c \in Copy : work[b][c].at # "none" => c \in CopiesOf(b)

LEMMA RowInvParts == RowInv <=> RowTypes /\ \A b \in Batch : BatchRight(b)
  BY DEF RowInv, RowTypes, BatchRight

\* A batch of which a step changes no row, copy or count.
LEMMA Untouched ==
  ASSUME NEW b \in Batch, BatchRight(b),
         work'[b] = work[b], item'[b] = item[b], row'[b] = row[b], tally'[b] = tally[b],
         request' = request, cancelled \subseteq cancelled', broken \subseteq broken',
         \/ phase'[b] = phase[b]
         \/ phase'[b] \in {"running", "crashed"}
         \/ phase'[b] = "prepared" /\ phase[b] = "none"
         \/ phase'[b] = "over" /\ In(b, Answered) = {}
  PROVE  BatchRight(b)'
<1>1. Matches(b)' <=> Matches(b)
  BY DEF Matches
<1>2. TallyIsRight(b)' <=> TallyIsRight(b)
  BY DEF TallyIsRight, Good, Bad, Total
<1>3. AllCounted(b)' <=> AllCounted(b)
  BY DEF AllCounted, CopiesOf
<1>4. RowIsRight(b)'
  BY <1>1, <1>3 DEF RowIsRight, BatchRight
<1>5. In(b, Answered)' = In(b, Answered)
  BY DEF In
<1>6. RunningIsRight(b)'
  BY <1>5 DEF RunningIsRight, BatchRight
<1>7. QED
  BY <1>1, <1>2, <1>4, <1>6 DEF BatchRight

\* A worker that goes on: its copy is not counted yet, and was not before.
LEMMA WorkerKeepsRows ==
  ASSUME WorkInv, RowInv, NEW b \in Batch, NEW c \in Copy, Step(b, c), ~Collect(b, c)
  PROVE  RowInv'
<1>1. PICK w : Becomes(b, c, w) /\ Moves(b, c, w)
  BY StepMoves
<1>2. \A d \in Batch, e \in Copy : work'[d][e] = IF d = b /\ e = c THEN w ELSE work[d][e]
  BY <1>1 DEF Becomes, WorkInv
<1>3. w.at # "counted" /\ work[b][c].at \notin {"none", "counted"}
  <2>1. work[b][c].at = "sent" => Collect(b, c)
    BY DEF Step, Take, Look, OCRPhase, UnloadModel, AnalyseOCR, Analyse, SaveAnalysis, StoreAnalysis,
           AskForMetadata, DescribeCopy, DescribeQuestions, SaveItem, At
  <2>2. QED
    BY <1>1, <2>1 DEF Moves, Hands
<1>4. /\ UNCHANGED <<row, tally, cancelled, phase, request>>
      /\ broken \subseteq broken' /\ broken' \subseteq broken \cup {b}
  BY <1>1, StepWrites DEF Becomes
<1>5. /\ item' \in [Batch -> [Copy -> {"queued", "running"} \cup Results]]
      /\ \A d \in Batch, e \in Copy : ~(d = b /\ e = c) => item'[d][e] = item[d][e]
  <2>1. CASE item' = item
    BY <2>1 DEF RowInv
  <2>2. ASSUME NEW x \in {"running"} \cup Results, item' = [item EXCEPT ![b][c] = x]
        PROVE  <1>5!1
    BY <2>2 DEF RowInv
  <2>3. QED
    BY <2>1, <2>2, StepWrites DEF RowInv
<1>6. \/ w.at \notin Answered \/ b \in cancelled \cup broken'
      \/ item'[b][c] = w.result
  BY <1>2, StepWrites
<1>7. RowTypes'
  BY <1>2, <1>3, <1>4, <1>5 DEF RowTypes, RowInv, CopiesOf
<1>8. ASSUME NEW d \in Batch, d # b PROVE BatchRight(d)'
  <2>1. work'[d] = work[d]
    BY <1>1, <1>8 DEF Becomes, WorkInv
  <2>2. item'[d] = item[d]
    BY <1>8, StepWrites DEF RowInv
  <2>3. QED
    BY <1>4, <2>1, <2>2, Untouched, RowInvParts
<1>9. BatchRight(b)'
  <2>1. Good(b)' = Good(b) /\ Bad(b)' = Bad(b)
    BY <1>2, <1>3 DEF Good, Bad
  <2>2. TallyIsRight(b)'
    BY <1>4, <2>1 DEF TallyIsRight, Total, RowInv
  <2>3. b \notin cancelled' \cup broken' => Matches(b)'
    BY <1>2, <1>4, <1>5, <1>6 DEF Matches, RowInv
  <2>4. c \in CopiesOf(b) /\ ~AllCounted(b)
    BY <1>3 DEF RowInv, AllCounted
  <2>5. RowIsRight(b)'
    BY <1>4, <2>4 DEF RowIsRight, RowInv
  <2>6. RunningIsRight(b)' /\ phase[b] = "running"
    BY <1>1, <1>4 DEF RunningIsRight, Moves
  <2>7. QED
    BY <1>4, <2>2, <2>3, <2>5, <2>6 DEF BatchRight
<1>10. QED
  BY <1>7, <1>8, <1>9, RowInvParts DEF RowInv, RowTypes, BatchRight

\* The collector counts one copy more, and writes the row if it can.
LEMMA CollectKeepsRows ==
  ASSUME WorkInv, RowInv, NEW b \in Batch, NEW c \in Copy, Collect(b, c)
  PROVE  RowInv'
<1> DEFINE failing == work[b][c].result = "failed"
           counts == Counted(b, work[b][c].result)
<1>1. PICK w : Becomes(b, c, w) /\ Moves(b, c, w)
  BY CollectMoves
<1>2. /\ phase[b] = "running" /\ work[b][c].at = "sent"
      /\ work[b][c] \in WorkRecord /\ Sound(work[b][c])
  BY WorkIsRecord DEF Collect, At
<1>3. /\ work'[b][c] = [work[b][c] EXCEPT !.at = "counted"]
      /\ \A d \in Batch, e \in Copy : ~(d = b /\ e = c) => work'[d][e] = work[d][e]
      /\ \A d \in Batch : d # b => work'[d] = work[d]
  BY DEF Collect, Go, WorkInv
<1>4. work'[b][c].at = "counted" /\ work'[b][c].result = work[b][c].result
  BY <1>2, <1>3 DEF WorkRecord
<1>5. /\ UNCHANGED <<item, phase, request, cancelled>> /\ tally' = [tally EXCEPT ![b] = counts]
      /\ broken \subseteq broken' /\ broken' \subseteq broken \cup {b}
      /\ \/ b \notin cancelled /\ broken' = broken /\ row' = [row EXCEPT ![b] = tally'[b]]
         \/ row' = row
  BY <1>1 DEF Collect, Written, Lost, SaveStudyBatch, Becomes
<1>6. Good(b)' = (IF failing THEN Good(b) ELSE Good(b) \cup {c})
      /\ Bad(b)' = (IF failing THEN Bad(b) \cup {c} ELSE Bad(b))
      /\ c \notin Good(b) /\ c \notin Bad(b)
  BY <1>2, <1>3, <1>4 DEF Good, Bad
<1>7. /\ Cardinality(Good(b)') = Cardinality(Good(b)) + (IF failing THEN 0 ELSE 1)
      /\ Cardinality(Bad(b)') = Cardinality(Bad(b)) + (IF failing THEN 1 ELSE 0)
  <2>1. /\ IsFiniteSet(Good(b)) /\ IsFiniteSet(Bad(b))
        /\ Cardinality(Good(b)) \in Nat /\ Cardinality(Bad(b)) \in Nat
    BY CountsAreFinite
  <2>2. /\ Cardinality(Good(b) \cup {c}) = Cardinality(Good(b)) + 1
        /\ Cardinality(Bad(b) \cup {c}) = Cardinality(Bad(b)) + 1
    BY <1>6, <2>1, FS_AddElement
  <2>3. QED
    BY <1>6, <2>1, <2>2
<1>8. /\ tally[b] \in RowRecord /\ Total(b) \in Nat
      /\ tally[b].completed = Cardinality(Good(b)) /\ tally[b].failed = Cardinality(Bad(b))
  BY CopiesAreCounted DEF RowInv, TallyIsRight
<1>9. /\ counts \in RowRecord
      /\ counts.completed = Cardinality(Good(b)') /\ counts.failed = Cardinality(Bad(b)')
      /\ counts.status \in Ended <=> counts.completed + counts.failed >= Total(b)
      /\ counts.status \in Ended => (counts.status = "completed" <=> counts.failed = 0)
  <2> DEFINE completed == tally[b].completed + (IF failing THEN 0 ELSE 1)
             failed == tally[b].failed + (IF failing THEN 1 ELSE 0)
             status == IF completed + failed < Total(b) THEN "running"
                       ELSE IF failed > 0 THEN "failed" ELSE "completed"
  <2>1. counts = [completed |-> completed, failed |-> failed, status |-> status]
    BY DEF Counted
  <2>2. completed \in Nat /\ failed \in Nat
    BY <1>8 DEF RowRecord
  <2>3. /\ status \in {"running", "failed", "completed"}
        /\ status = "running" <=> completed + failed < Total(b)
        /\ status = "failed" => failed > 0
        /\ status = "completed" => failed = 0
    BY <1>8, <2>2
  <2>4. completed = Cardinality(Good(b)') /\ failed = Cardinality(Bad(b)')
    BY <1>7, <1>8
  <2> HIDE DEF status, completed, failed
  <2>5. counts \in RowRecord
    BY <2>1, <2>2, <2>3 DEF RowRecord, Ended
  <2>6. QED
    BY <1>8, <2>1, <2>2, <2>3, <2>4, <2>5 DEF Ended
<1>10. tally'[b] = counts /\ Total(b)' = Total(b)
  BY <1>5 DEF RowInv, Total
<1>11. TallyIsRight(b)'
  BY <1>6, <1>9, <1>10 DEF TallyIsRight
<1>12. c \in CopiesOf(b) /\ ~AllCounted(b)
  BY <1>2 DEF RowInv, AllCounted
<1>13. RowTypes'
  <2>1. row' \in [Batch -> RowRecord] /\ tally' \in [Batch -> RowRecord]
    BY <1>5, <1>9, <1>10 DEF RowInv
  <2>2. \A d \in Batch, e \in Copy : work'[d][e].at # "none" => e \in CopiesOf(d)
    BY <1>3, <1>12 DEF RowInv
  <2>3. QED
    BY <1>5, <2>1, <2>2 DEF RowInv, RowTypes, CopiesOf
<1>14. Matches(b) => Matches(b)'
  BY <1>2, <1>3, <1>4, <1>5 DEF Matches, Answered
<1>15. ASSUME NEW d \in Batch, d # b PROVE BatchRight(d)'
  <2>1. row'[d] = row[d] /\ tally'[d] = tally[d]
    BY <1>5, <1>15 DEF RowInv
  <2>2. QED
    BY <1>3, <1>5, <1>15, <2>1, Untouched, RowInvParts
<1>16. tally'[b].completed + tally'[b].failed >= Total(b) => AllCounted(b)'
  <2> SUFFICES ASSUME tally'[b].completed + tally'[b].failed >= Total(b) PROVE AllCounted(b)'
    OBVIOUS
  <2>1. Good(b)' \cup Bad(b)' \in SUBSET CopiesOf(b)
    BY <1>6, <1>12 DEF RowInv, Good, Bad
  <2>2. Cardinality(Good(b)' \cup Bad(b)') = Cardinality(Good(b) \cup Bad(b)) + 1
    <3>1. Good(b)' \cup Bad(b)' = (Good(b) \cup Bad(b)) \cup {c} /\ c \notin Good(b) \cup Bad(b)
      BY <1>6
    <3>2. IsFiniteSet(Good(b) \cup Bad(b))
      BY CountsAreFinite, FS_Union
    <3>3. QED
      BY <3>1, <3>2, FS_AddElement
  <2>3. Cardinality(Good(b)' \cup Bad(b)') >= Cardinality(CopiesOf(b))
    BY <1>7, <1>9, <1>10, <2>2, CountsAreFinite, CopiesAreCounted
  <2>4. Cardinality(Good(b)' \cup Bad(b)') <= Cardinality(CopiesOf(b))
    BY <2>1, CopiesAreCounted, FS_Subset
  <2>5. Cardinality(CopiesOf(b)) = Cardinality(Good(b)' \cup Bad(b)')
    BY <2>2, <2>3, <2>4, CountsAreFinite, CopiesAreCounted
  <2>6. CopiesOf(b) = Good(b)' \cup Bad(b)'
    BY <2>1, <2>5, CopiesAreCounted, FS_Subset
  <2>7. \A e \in CopiesOf(b) : work'[b][e].at = "counted"
    BY <2>6 DEF Good, Bad
  <2>8. QED
    BY <1>5, <2>7 DEF AllCounted, CopiesOf
<1>17. RowIsRight(b)'
  <2>1. CASE row' = row
    BY <1>5, <1>12, <2>1 DEF RowIsRight, RowInv
  <2>2. CASE b \notin cancelled /\ broken' = broken /\ row' = [row EXCEPT ![b] = tally'[b]]
    <3>1. row'[b] = counts
      BY <1>10, <2>2 DEF RowInv
    <3>2. b \notin broken' => Matches(b)'
      BY <1>14, <2>2 DEF RowInv
    <3>3. counts.status \in Ended => AllCounted(b)'
      BY <1>9, <1>10, <1>16
    <3>4. QED
      BY <1>9, <1>10, <3>1, <3>2, <3>3 DEF RowIsRight
  <2>3. QED
    BY <1>5, <2>1, <2>2
<1>18. BatchRight(b)'
  BY <1>2, <1>5, <1>11, <1>14, <1>17 DEF BatchRight, RunningIsRight, RowInv
<1>19. QED
  BY <1>13, <1>15, <1>18, RowInvParts DEF RowInv, RowTypes, BatchRight

LEMMA RowInvInit == Init => RowInv
<1> SUFFICES ASSUME Init PROVE RowInv
  OBVIOUS
<1>1. \A b \in Batch : IsInjective(request[b].copies)
  BY StudyAssumption DEF Init
<1>2. \A b \in Batch, c \in Copy : work[b][c].at = "none"
  BY DEF Init, Fresh
<1>3. NoRow \in RowRecord /\ NoRow.status = "none"
  BY DEF NoRow, RowRecord
<1>4. \A b \in Batch : row[b] = NoRow /\ tally[b] = NoRow
  BY DEF Init
<1>5. RowTypes
  BY <1>1, <1>2, <1>3 DEF Init, RowTypes, Results
<1>6. ASSUME NEW b \in Batch PROVE BatchRight(b)
  <2>1. Good(b) = {} /\ Bad(b) = {} /\ Matches(b)
    BY <1>2 DEF Good, Bad, Matches, Answered
  <2>2. TallyIsRight(b)
    BY <1>3, <1>4, <2>1, FS_EmptySet DEF TallyIsRight, NoRow, Ended
  <2>3. RowIsRight(b) /\ RunningIsRight(b) /\ row[b].status \notin Ended
    BY <1>3, <1>4 DEF RowIsRight, RunningIsRight, Ended
  <2>4. QED
    BY <2>1, <2>2, <2>3 DEF BatchRight
<1>7. QED
  BY <1>5, <1>6, RowInvParts

\* Before its run a batch has rows of copies, and its own says it runs or waits.
LEMMA QueueKeepsRows ==
  ASSUME WorkInv, RowInv, NEW b \in Batch, Prepare(b) \/ QueueStage(b)
  PROVE  RowInv'
<1>1. PICK status \in {"running", "queued"} : row' = [row EXCEPT ![b] = [NoRow EXCEPT !.status = status]]
  BY DEF Prepare, QueueStage, SaveStudyBatch
<1>2. /\ phase[b] = "none" /\ UNCHANGED <<work, request, tally, cancelled>> /\ broken \subseteq broken'
      /\ phase' \in {[phase EXCEPT ![b] = "prepared"], [phase EXCEPT ![b] = "over"]}
  BY DEF Prepare, QueueStage
<1>3. item' = item \/ \E saved : QueuedItems(b, saved)
  BY DEF Prepare, QueueStage
<1>4. item' \in [Batch -> [Copy -> {"queued", "running"} \cup Results]]
      /\ \A d \in Batch : d # b => item'[d] = item[d]
  BY <1>3 DEF QueuedItems, RowInv
<1>5. [NoRow EXCEPT !.status = status] \in RowRecord
  BY DEF NoRow, RowRecord
<1>6. RowTypes'
  BY <1>1, <1>2, <1>4, <1>5 DEF RowInv, RowTypes, CopiesOf
<1>7. ASSUME NEW d \in Batch, d # b PROVE BatchRight(d)'
  <2>1. row'[d] = row[d] /\ phase'[d] = phase[d]
    BY <1>1, <1>2, <1>7 DEF RowInv, WorkInv
  <2>2. QED
    BY <1>2, <1>4, <1>7, <2>1, Untouched, RowInvParts
<1>8. BatchRight(b)'
  <2>1. \A c \in Copy : work[b][c].at = "none"
    BY <1>2 DEF WorkInv, Fresh
  <2>2. Matches(b)' /\ In(b, Answered)' = {}
    BY <1>2, <2>1 DEF Matches, In, Answered
  <2>3. TallyIsRight(b)'
    BY <1>2 DEF TallyIsRight, Good, Bad, Total, RowInv
  <2>4. row'[b].status \notin Ended
    BY <1>1 DEF RowInv, NoRow, Ended
  <2>5. QED
    BY <2>2, <2>3, <2>4 DEF BatchRight, RowIsRight, RunningIsRight
<1>9. QED
  BY <1>6, <1>7, <1>8, RowInvParts DEF RowInv, RowTypes, BatchRight

LEMMA LaunchKeepsRows ==
  ASSUME WorkInv, RowInv, NEW b \in Batch, Launch(b)
  PROVE  RowInv'
<1>1. /\ phase[b] = "prepared" /\ phase' = [phase EXCEPT ![b] = "running"]
      /\ UNCHANGED <<row, item, request, tally, cancelled, broken>>
  BY DEF Launch, stored, trouble
<1>2. /\ \A d \in Batch : d # b => work'[d] = work[d]
      /\ \A c \in Copy : work'[b][c].at = IF c \in CopiesOf(b) THEN "waiting" ELSE "none"
  BY DEF Launch, WorkInv, Fresh
<1>3. \A c \in Copy : work[b][c].at = "none"
  BY <1>1 DEF WorkInv, Fresh
<1>4. RowTypes'
  BY <1>1, <1>2 DEF RowInv, RowTypes, CopiesOf
<1>5. ASSUME NEW d \in Batch, d # b PROVE BatchRight(d)'
  BY <1>1, <1>2, <1>5, Untouched, RowInvParts DEF WorkInv
<1>6. BatchRight(b)'
  <2>1. Good(b) = {} /\ Bad(b) = {} /\ Good(b)' = {} /\ Bad(b)' = {}
    BY <1>2, <1>3 DEF Good, Bad
  <2>2. TallyIsRight(b)'
    BY <1>1, <2>1 DEF TallyIsRight, Total, RowInv
  <2>3. Matches(b)'
    BY <1>2 DEF Matches, Answered
  <2>4. row'[b].status \notin Ended /\ phase'[b] = "running"
    BY <1>1 DEF RowInv, WorkInv
  <2>5. QED
    BY <2>2, <2>3, <2>4 DEF BatchRight, RowIsRight, RunningIsRight
<1>7. QED
  BY <1>4, <1>5, <1>6, RowInvParts DEF RowInv, RowTypes, BatchRight

\* The last row: nothing is on its way, so without a cancel all were counted.
LEMMA FinishKeepsRows ==
  ASSUME WorkInv, RowInv, NEW b \in Batch, Finish(b)
  PROVE  RowInv'
<1>1. /\ phase[b] = "running" /\ phase' = [phase EXCEPT ![b] = "over"]
      /\ UNCHANGED <<item, request, tally, cancelled, work>>
      /\ broken \subseteq broken' /\ broken' \subseteq broken \cup {b}
  BY DEF Finish, Written, Lost
<1>2. /\ In(b, Hands \cup {"sent"}) = {}
      /\ In(b, {"waiting"}) # {} => b \in cancelled
  BY DEF Finish
<1>3. \/ row' = row
      \/ /\ tally[b].completed + tally[b].failed >= Total(b)
         /\ b \notin cancelled /\ broken' = broken
         /\ row' = [row EXCEPT ![b] = LastRow(b)]
  BY CopiesAreCounted DEF Finish, Written, SaveStudyBatch, RowInv, RowRecord
<1>4. LastRow(b) \in RowRecord /\ LastRow(b).completed = tally[b].completed
      /\ LastRow(b).failed = tally[b].failed
      /\ LastRow(b).status = IF tally[b].failed > 0 /\ tally[b].completed > 0
                             THEN "partial_failed" ELSE tally[b].status
  BY DEF LastRow, RowInv, RowRecord, Ended
<1>5. row' \in [Batch -> RowRecord] /\ \A d \in Batch : d # b => row'[d] = row[d]
  BY <1>3, <1>4 DEF RowInv
<1>6. RowTypes'
  BY <1>1, <1>5 DEF RowInv, RowTypes, CopiesOf
<1>7. ASSUME NEW d \in Batch, d # b PROVE BatchRight(d)'
  BY <1>1, <1>5, <1>7, Untouched, RowInvParts DEF WorkInv
<1>8. BatchRight(b)'
  <2>1. TallyIsRight(b) /\ RowIsRight(b)
    BY DEF RowInv
  <2>2. TallyIsRight(b)'
    BY <1>1, <2>1 DEF TallyIsRight, Good, Bad, Total
  <2>3. (Matches(b) <=> Matches(b)') /\ (AllCounted(b) <=> AllCounted(b)')
    BY <1>1 DEF Matches, AllCounted, CopiesOf
  <2>4. b \notin cancelled' \cup broken' => Matches(b)'
    BY <1>1, <2>3 DEF RowInv
  <2>5. RowIsRight(b)'
    <3>1. CASE row' = row
      BY <1>1, <2>1, <2>3, <3>1 DEF RowIsRight
    <3>2. CASE /\ tally[b].completed + tally[b].failed >= Total(b)
               /\ b \notin cancelled /\ broken' = broken
               /\ row' = [row EXCEPT ![b] = LastRow(b)]
      <4>1. row'[b] = LastRow(b)
        BY <3>2 DEF RowInv
      <4>2. AllCounted(b)'
        BY <2>3, <3>2, FullCount
      <4>3. b \notin broken' => Matches(b)'
        BY <2>3, <3>2 DEF RowInv
      <4>4. LastRow(b).status \in Ended => (LastRow(b).status = "completed" <=> LastRow(b).failed = 0)
        <5>1. tally[b].completed \in Nat /\ tally[b].failed \in Nat
          BY DEF RowInv, RowRecord
        <5>2. QED
          BY <1>4, <2>1, <5>1 DEF TallyIsRight
      <4>5. QED
        BY <1>1, <1>4, <4>1, <4>2, <4>3, <4>4 DEF RowIsRight
    <3>3. QED
      BY <1>3, <3>1, <3>2
  <2>6. RunningIsRight(b)'
    <3> SUFFICES ASSUME row'[b].status = "running", b \notin cancelled \cup broken',
                        In(b, Answered) # {}
                 PROVE  FALSE
      BY <1>1 DEF RunningIsRight, In
    <3>1. \A c \in Copy : work[b][c].at \in {"none", "counted"}
      BY <1>1, <1>2 DEF WorkInv, WorkRecord, Places, In, Answered
    <3>2. \A c \in CopiesOf(b) : work[b][c].at = "counted"
      BY <1>1, <3>1, CopiesAreCounted DEF WorkInv
    <3>3. Good(b) \cup Bad(b) = CopiesOf(b)
      BY <3>2, CopiesAreCounted DEF Good, Bad, RowInv
    <3>4. Good(b) \cup Bad(b) # {}
      BY <3>1 DEF In, Answered, Good, Bad
    <3>5. tally[b].completed + tally[b].failed = Total(b)
      BY <2>1, <3>3, CountsAreFinite, CopiesAreCounted DEF TallyIsRight
    <3>6. tally[b].status \in Ended
      BY <2>1, <3>4, <3>5, CopiesAreCounted DEF TallyIsRight
    <3>7. row' = [row EXCEPT ![b] = LastRow(b)]
      BY <1>1, <3>5, CopiesAreCounted DEF Finish, Written, Lost, SaveStudyBatch
    <3>8. row'[b].status \in Ended
      BY <1>4, <3>6, <3>7 DEF RowInv, Ended
    <3>9. QED
      BY <3>8 DEF Ended
  <2>7. QED
    BY <1>1, <2>2, <2>4, <2>5, <2>6 DEF BatchRight
<1>9. QED
  BY <1>6, <1>7, <1>8, RowInvParts DEF RowInv, RowTypes, BatchRight

LEMMA RowInvNext == WorkInv /\ RowInv /\ [Next]_studyVars => RowInv'
<1> SUFFICES ASSUME WorkInv, RowInv, [Next]_studyVars PROVE RowInv'
  OBVIOUS
<1>1. ASSUME UNCHANGED <<row, item, work, tally, request>>,
             cancelled \subseteq cancelled', broken \subseteq broken',
             \A b \in Batch : \/ phase'[b] = phase[b]
                              \/ phase'[b] = "crashed"
                              \/ phase'[b] = "over" /\ phase[b] = "prepared"
      PROVE  RowInv'
  <2>1. RowTypes'
    BY <1>1 DEF RowInv, RowTypes, CopiesOf
  <2>2. ASSUME NEW b \in Batch PROVE BatchRight(b)'
    <3>1. phase[b] = "prepared" => In(b, Answered) = {}
      BY DEF WorkInv, In, Fresh, Answered
    <3>2. QED
      BY <1>1, <3>1, Untouched, RowInvParts
  <2>3. QED
    BY <2>1, <2>2, RowInvParts DEF RowInv, RowTypes, BatchRight
<1>2. ASSUME NEW b \in Batch, NEW c \in Copy, Step(b, c) PROVE RowInv'
  BY <1>2, WorkerKeepsRows, CollectKeepsRows
<1>3. ASSUME NEW b \in Batch, Prepare(b) \/ QueueStage(b) \/ Launch(b) \/ Finish(b) PROVE RowInv'
  BY <1>3, QueueKeepsRows, LaunchKeepsRows, FinishKeepsRows
<1>4. ASSUME NEW b \in Batch, ResolveFails(b) \/ CancelJob(b) PROVE RowInv'
  BY <1>1, <1>4 DEF ResolveFails, CancelJob, stored, trouble, running, WorkInv
<1>5. ASSUME NEW c \in Copy, ClientStep(c) PROVE RowInv'
  <2>1. UNCHANGED <<row, item, work, tally, request, phase, cancelled, broken>>
    BY <1>5 DEF ClientStep, Import, View, ReadForEdit, ReadForSync, SaveSync, DeleteTopperReview,
                SyncPayload, SaveEdit, stored, running, trouble
  <2>2. QED
    BY <1>1, <2>1
<1>6. CASE Crash
  BY <1>1, <1>6 DEF Crash, stored
<1>7. CASE UNCHANGED studyVars
  BY <1>1, <1>7 DEF studyVars, stored, running, trouble
<1>8. QED
  BY <1>2, <1>3, <1>4, <1>5, <1>6, <1>7 DEF Next

LEMMA RowInvAlways == Spec => [](WorkInv /\ RowInv)
  BY WorkInvInit, WorkInvNext, RowInvInit, RowInvNext, PTL DEF Spec

\* The row of a batch that ended agrees with the rows of its copies
\* (collectStudyBatchResults), whatever was cancelled, crashed or failed, if
\* the store took the batch's writes.
THEOREM EndedBatchesAgree == Spec => []EndedBatchAgreesWithItems
<1>1. WorkInv /\ RowInv => EndedBatchAgreesWithItems
  <2> SUFFICES ASSUME WorkInv, RowInv, NEW b \in Batch, row[b].status \in Ended, b \notin broken
               PROVE  /\ row[b].completed = Count(b, {"ready", "needs_review"})
                      /\ row[b].failed = Count(b, {"failed"})
                      /\ row[b].completed + row[b].failed = Total(b)
                      /\ row[b].status = "completed" <=> row[b].failed = 0
    BY DEF EndedBatchAgreesWithItems
  <2>1. /\ AllCounted(b) /\ Matches(b)
        /\ row[b].completed = tally[b].completed /\ row[b].failed = tally[b].failed
        /\ row[b].status = "completed" <=> row[b].failed = 0
        /\ tally[b].completed = Cardinality(Good(b)) /\ tally[b].failed = Cardinality(Bad(b))
    BY DEF RowInv, RowIsRight, TallyIsRight
  <2>2. \A c \in CopiesOf(b) : /\ item[b][c] = work[b][c].result
                               /\ work[b][c].result \in {"ready", "needs_review", "failed"}
    BY <2>1, CopiesAreCounted DEF AllCounted, Matches, WorkInv, WorkRecord, Results, Sound, Answered
  <2>3. Good(b) = {c \in CopiesOf(b) : item[b][c] \in {"ready", "needs_review"}}
    BY <2>1, <2>2, CopiesAreCounted DEF Good, AllCounted, RowInv
  <2>4. Bad(b) = {c \in CopiesOf(b) : item[b][c] \in {"failed"}}
    BY <2>1, <2>2, CopiesAreCounted DEF Bad, AllCounted, RowInv
  <2>5. Good(b) \cup Bad(b) = CopiesOf(b)
    BY <2>2, <2>3, <2>4
  <2>6. Cardinality(Good(b)) + Cardinality(Bad(b)) = Total(b)
    BY <2>5, CountsAreFinite, CopiesAreCounted
  <2>7. QED
    BY <2>1, <2>3, <2>4, <2>6 DEF Count
<1>2. QED
  BY <1>1, RowInvAlways, PTL

\* A row that says "running" after its run is explained: a cancel, a lost
\* write, or a run that never began.
THEOREM RunningRowsAreExplained == Spec => []RunningRowExplained
<1>1. RowInv => RunningRowExplained
  BY DEF RowInv, RunningIsRight, RunningRowExplained
<1>2. QED
  BY <1>1, RowInvAlways, PTL
=============================================================================
