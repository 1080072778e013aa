---------------------------- MODULE MetadataRun ----------------------------
(***************************************************************************)
(* Generating metadata for the notes of a folder: workers read a note, ask *)
(* the model, archive the exchange, overwrite the note and archive what it *)
(* was, each run in a manifest of its own that its workers read and write  *)
(* back under one lock.                                                    *)
(***************************************************************************)
EXTENDS ZettelVault

VARIABLES
  run,        \* the run: where it is, whether it was cancelled, its answer,
              \* and whether a failing write cut its manifest short
  job,        \* what became of each selected note
  lock,       \* the notes whose workers hold the archive's lock
  seen,       \* the manifest as they read it
  manifest,   \* manifest.json
  lost        \* the texts that were overwritten, with what the run knew of them

metadataVars == <<run, job, lock, seen, manifest, lost>>

Unselected == [at |-> "none", before |-> Gone, after |-> Gone, status |-> "none", archived |-> FALSE]
NoManifest == [status |-> "none", exchanges |-> {}, items |-> {}]
At(places) == {n \in Note : job[n].at \in places}
InHand == At({"ask", "exchange", "write", "item"})

MetadataInit ==
  /\ run = [pc |-> "off", cancelled |-> FALSE, answer |-> "none", torn |-> FALSE]
  /\ job = [n \in Note |-> Unselected]
  /\ lock = {} /\ seen = [n \in Note |-> NoManifest] /\ manifest = NoManifest /\ lost = {}

\* Generate: the first notes of the folder, in the order of their paths.
Selected ==
  LET sorted == SetToSortSeq(ScanNotes, <)
      limit == IF scenario.limit = 0 \/ scenario.limit > Len(sorted) THEN Len(sorted) ELSE scenario.limit
  IN  ToSet(SubSeq(sorted, 1, limit))
Generate ==
  /\ run.pc = "off" /\ ScanNotes # {} /\ Spend("runs")
  /\ run' = [pc |-> "work", cancelled |-> FALSE, answer |-> "none", torn |-> FALSE]
  /\ job' = [n \in Note |-> IF n \in Selected THEN [Unselected EXCEPT !.at = "queued"] ELSE Unselected]
  /\ lock' = {} /\ seen' = [n \in Note |-> NoManifest] /\ manifest' = NoManifest /\ lost' = {}
  /\ UNCHANGED note

\* hasCompleteMetadata: the front matter has a title, keywords and a question.
HasCompleteMetadata(text) == text.meta # 0
\* hasSubstantiveBody: a line that is no heading, bullet or label.
HasSubstantiveBody(text) == text.body # 0
Skips(text) == (HasCompleteMetadata(text) /\ ~scenario.overwrite) \/ ~HasSubstantiveBody(text)
\* applyMetadata: the generated fields are replaced, the rest is kept.
Applied(text, meta) == [text EXCEPT !.meta = meta]

\* normalizedMetadataWorkers: no more workers than notes.
Workers ==
  LET selected == Cardinality(Note \ At({"none"}))
  IN  IF scenario.workers > selected THEN selected ELSE scenario.workers

\* A worker takes the next note and reads it.
Take(n) ==
  /\ n \in At({"queued"}) /\ \A m \in At({"queued"}) : n <= m
  /\ Cardinality(InHand) < Workers
  /\ job' = [job EXCEPT ![n].before = note[n], ![n].after = note[n],
               ![n].at = IF note[n] = Gone \/ Skips(note[n]) THEN "item" ELSE "ask",
               ![n].status = IF note[n] = Gone THEN "failed" ELSE IF Skips(note[n]) THEN "skipped" ELSE "none"]
  /\ UNCHANGED <<scenario, note, run, lock, seen, manifest, lost>>

\* With several workers, a run that is cancelled may hand out no more notes.
StopFeeding ==
  /\ run.cancelled /\ Workers > 1 /\ At({"queued"}) # {}
  /\ job' = [n \in Note |-> IF n \in At({"queued"}) THEN [job[n] EXCEPT !.at = "done", !.status = "failed"] ELSE job[n]]
  /\ UNCHANGED <<scenario, note, run, lock, seen, manifest, lost>>

\* generateMetadata: the model answers, perhaps what the note has; or fails.
Answer(n) ==
  /\ n \in At({"ask"}) /\ ~run.cancelled
  /\ \E meta \in {job[n].before.meta + 1, job[n].before.meta} \ {0} :
       job' = [job EXCEPT ![n].at = "exchange", ![n].after = Applied(@, meta)]
  /\ UNCHANGED <<scenario, note, run, lock, seen, manifest, lost>>
NoAnswer(n) ==
  /\ n \in At({"ask"}) /\ (IF run.cancelled THEN UNCHANGED scenario ELSE Spend("faults"))
  /\ job' = [job EXCEPT ![n].at = "exchange", ![n].status = "failed"]
  /\ UNCHANGED <<note, run, lock, seen, manifest, lost>>
\* parseGeneratedMetadata: what is no JSON, lacks a field or asks a question
\* where a prompt is wanted is no metadata.
Rejected(n) ==
  /\ n \in At({"ask"}) /\ ~run.cancelled /\ Spend("faults")
  /\ job' = [job EXCEPT ![n].at = "exchange", ![n].status = "failed"]
  /\ UNCHANGED <<note, run, lock, seen, manifest, lost>>
-----------------------------------------------------------------------------
\* The archive's lock and the manifest under it (mutant: there is no lock).
Unlocked == TRUE
Free == lock = {}
Release(n) == lock' = lock \ {n} /\ seen' = [seen EXCEPT ![n] = NoManifest]
OpenManifest(n) ==
  /\ n \in At({"exchange", "item"}) /\ n \notin lock /\ Free
  /\ lock' = lock \cup {n} /\ seen' = [seen EXCEPT ![n] = manifest]
  /\ UNCHANGED <<scenario, note, run, job, manifest, lost>>

\* A write of the manifest that fails may cut it short, and what cannot be
\* parsed is read as a manifest of nothing.
ManifestWriteFails ==
  \/ UNCHANGED <<run, manifest>>
  \/ manifest' = NoManifest /\ run' = [run EXCEPT !.torn = TRUE]

\* WriteMetadataLLMExchange, and its failure, which is the note's.  An answer
\* that changes nothing is a note skipped.
Exchange(n) ==
  /\ n \in At({"exchange"}) /\ n \in lock
  /\ manifest' = [seen[n] EXCEPT !.status = "running", !.exchanges = @ \cup {n}]
  /\ job' = IF job[n].status = "failed" THEN [job EXCEPT ![n].at = "item"]
            ELSE IF job[n].after = job[n].before
                 THEN [job EXCEPT ![n].at = "item", ![n].status = "skipped"]
                 ELSE [job EXCEPT ![n].at = "write"]
  /\ Release(n)
  /\ UNCHANGED <<scenario, note, run, lost>>
ExchangeFails(n) ==
  /\ n \in At({"exchange"}) /\ n \in lock /\ Spend("faults")
  /\ job' = [job EXCEPT ![n].at = "item", ![n].status = "failed", ![n].after = job[n].before]
  /\ ManifestWriteFails /\ Release(n)
  /\ UNCHANGED <<note, lost>>

\* The note is overwritten with the text that was read and its metadata,
\* whatever it holds by now.  A write that fails may leave it cut.
WriteNote(n) ==
  /\ n \in At({"write"})
  /\ \/ /\ note' = [note EXCEPT ![n] = job[n].after]
        /\ job' = [job EXCEPT ![n].at = "item", ![n].status = "processed"]
        /\ UNCHANGED scenario
     \/ /\ Spend("faults")
        /\ note' \in {note, [note EXCEPT ![n] = Cut(job[n].after)]}
        /\ job' = [job EXCEPT ![n].at = "item", ![n].status = "failed"]
  /\ lost' = IF note' = note THEN lost
             ELSE lost \cup {[note |-> n, text |-> note[n], known |-> note[n] = job[n].before]}
  /\ UNCHANGED <<run, lock, seen, manifest>>

\* WriteMetadataItem: the texts before and after, then the manifest.
Item(n) ==
  /\ n \in At({"item"}) /\ n \in lock
  /\ manifest' = [seen[n] EXCEPT !.status = "running",
       !.items = @ \cup {[note |-> n, status |-> job[n].status, before |-> job[n].before, after |-> job[n].after]}]
  /\ job' = [job EXCEPT ![n].at = "done", ![n].archived = TRUE]
  /\ Release(n)
  /\ UNCHANGED <<scenario, note, run, lost>>
\* Mutant: the lock is kept when the item cannot be written.
ItemFailsLocked(n) ==
  /\ n \in At({"item"}) /\ n \in lock /\ Spend("faults")
  /\ job' = [job EXCEPT ![n].at = "done", ![n].status = "failed"]
  /\ UNCHANGED <<note, run, lock, seen, manifest, lost>>
ItemFails(n) ==
  /\ n \in At({"item"}) /\ n \in lock /\ Spend("faults")
  /\ job' = [job EXCEPT ![n].at = "done", ![n].status = "failed"]
  /\ ManifestWriteFails /\ Release(n)
  /\ UNCHANGED <<note, lost>>

\* metadataRunStatus.
RunStatus ==
  LET by(status) == {n \in Note : job[n].status = status}
  IN  IF by("failed") = {} THEN "completed"
      ELSE IF by("processed") \cup by("skipped") # {} THEN "partial" ELSE "failed"

\* FinalizeMetadataRun, when every note has its result; the run's answer.
Finalize ==
  /\ run.pc = "work" /\ At({"queued"}) \cup InHand = {}
  /\ \/ manifest' = [manifest EXCEPT !.status = RunStatus] /\ run' = [run EXCEPT !.pc = "off", !.answer = "ok"]
        /\ UNCHANGED scenario
     \/ Spend("faults") /\ run' = [run EXCEPT !.pc = "off", !.answer = "failed"] /\ UNCHANGED manifest
  /\ UNCHANGED <<note, job, lock, seen, lost>>

CancelRun ==
  /\ run.pc = "work" /\ ~run.cancelled /\ Spend("cancels")
  /\ run' = [run EXCEPT !.cancelled = TRUE]
  /\ UNCHANGED <<note, job, lock, seen, manifest, lost>>

\* The process dies with the run and its workers.
RunDies ==
  /\ run' = [run EXCEPT !.pc = "off", !.answer = IF run.pc = "off" THEN @ ELSE "killed"]
  /\ job' = [n \in Note |-> IF run.pc = "off" THEN job[n] ELSE Unselected]
  /\ lock' = {} /\ seen' = [n \in Note |-> NoManifest]
  /\ UNCHANGED <<manifest, lost>>

MetadataStep ==
  \/ \E n \in Note : \/ Take(n) \/ Answer(n) \/ NoAnswer(n) \/ Rejected(n) \/ OpenManifest(n) \/ Exchange(n) \/ ExchangeFails(n)
                     \/ WriteNote(n) \/ Item(n) \/ ItemFails(n)
  \/ StopFeeding \/ Finalize
-----------------------------------------------------------------------------
\* Whatever else the vault's other users, workers and failures do: a run that
\* came to its end archived every text that it overwrote and had read, except
\* of notes that it reports as failed; and its manifest lists every result
\* that could be archived, whatever its workers wrote at the same time.  (A
\* write of the manifest that is cut short loses the results before it.)
ChangesArchived ==
  (run.pc = "off" /\ run.answer = "ok" /\ ~run.torn) =>
    /\ \A l \in lost : l.known =>
         \/ \E i \in manifest.items : i.note = l.note /\ i.before = l.text
         \/ job[l.note].status = "failed"
    /\ \A n \in Note : job[n].archived <=> \E i \in manifest.items : i.note = n
=============================================================================
