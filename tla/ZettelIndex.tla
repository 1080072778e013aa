---------------------------- MODULE ZettelIndex ----------------------------
(***************************************************************************)
(* Building the embedding index of a vault: the notes are scanned and read *)
(* by a pool, a note whose text has the recorded hash keeps its vector,    *)
(* the others are embedded in batches by a second pool, and the builder    *)
(* collects the answers and writes embeddings.json every few batches and   *)
(* at the end.  A text stands for its hash and for its vector.             *)
(***************************************************************************)
EXTENDS ZettelVault

CONSTANTS
  Builds,     \* the builds of the index, which may overlap
  FlushEvery  \* how many collected batches are saved together (4 in the code)

ASSUME IndexAssumption == Builds \in Nat /\ FlushEvery \in Nat \ {0}

VARIABLES
  build,      \* each build: its place, its cache in memory, its batches, its answer
  file        \* embeddings.json

indexVars == <<build, file>>

Build == 1..Builds
NoItem == [hash |-> Gone, vector |-> Gone]
Torn == [torn |-> TRUE, items |-> [n \in Note |-> NoItem]]
Saved(items) == [torn |-> FALSE, items |-> items]
Idle == [pc |-> "off", items |-> [n \in Note |-> NoItem], scanned |-> {}, read |-> [n \in Note |-> Gone],
         reused |-> {}, batches |-> <<>>, unanswered |-> {}, results |-> <<>>, collected |-> 0,
         cancelled |-> FALSE, answer |-> "none"]

IndexInit == build = [b \in Build |-> Idle] /\ file = Saved([n \in Note |-> NoItem])

Set(b, state) == build' = [build EXCEPT ![b] = state]
End(b, answer) == Set(b, [Idle EXCEPT !.answer = answer])

\* load: a file that was cut short is no cache at all but an error.
Parses(cache) == ~cache.torn
\* pruneMissingCacheItems.
Pruned(items, notes) == [n \in Note |-> IF n \in notes THEN items[n] ELSE NoItem]
BeginBuild(b) ==
  /\ build[b].pc = "off" /\ Spend("builds")
  /\ IF ~Parses(file) THEN End(b, "failed")
     ELSE Set(b, [Idle EXCEPT !.pc = "read", !.items = Pruned(file.items, ScanNotes), !.scanned = ScanNotes])
  /\ UNCHANGED <<note, file>>

\* prepareEmbeddingSource: is the vector of the note still that of its text?
\* (Mutant: it is enough that the note has one.)
ReusedByPath(item, text) == item # NoItem
Reused(item, text) == item # NoItem /\ item.hash = text
Unread(b) == {n \in build[b].scanned : build[b].read[n] = Gone}
ReadNote(b, n) ==
  /\ build[b].pc = "read" /\ n \in Unread(b)
  /\ IF note[n] = Gone \/ build[b].cancelled THEN End(b, "failed")
     ELSE Set(b, [build[b] EXCEPT !.read[n] = note[n],
                    !.reused = IF Reused(build[b].items[n], note[n]) THEN @ \cup {n} ELSE @])
  /\ UNCHANGED <<scenario, note, file>>

\* buildEmbeddingBatches, when every note is read: in the order of their
\* paths, as many as fit in a batch.
Batches(notes) ==
  LET size == scenario.batch
      before(n) == Cardinality({m \in notes : m < n})
  IN  [i \in 1..((Cardinality(notes) + size - 1) \div size) |-> {n \in notes : before(n) \div size = i - 1}]
StartEmbedding(b) ==
  /\ build[b].pc = "read" /\ Unread(b) = {}
  /\ LET batches == Batches(build[b].scanned \ build[b].reused)
     IN  Set(b, [build[b] EXCEPT !.batches = batches, !.unanswered = DOMAIN batches,
                   !.pc = IF batches = <<>> THEN "save" ELSE "embed"])
  /\ UNCHANGED <<scenario, note, file>>

\* A worker's call for one of the batches handed out is answered, or fails and
\* stops the others.  One that is out when the build is stopped may end
\* either way; one that was not handed out need not be.
InFlight(b) == {i \in build[b].unanswered : Cardinality({j \in build[b].unanswered : j < i}) < scenario.workers}
EmbedBatch(b, i) ==
  /\ build[b].pc \in {"embed", "flush", "writing"} /\ i \in InFlight(b)
  /\ \/ /\ Set(b, [build[b] EXCEPT !.unanswered = @ \ {i}, !.results = Append(@, [batch |-> i, ok |-> TRUE])])
        /\ UNCHANGED scenario
     \/ /\ IF build[b].cancelled THEN UNCHANGED scenario ELSE Spend("faults")
        /\ Set(b, [build[b] EXCEPT !.unanswered = @ \ {i}, !.results = Append(@, [batch |-> i, ok |-> FALSE]),
                     !.cancelled = TRUE])
  /\ UNCHANGED <<note, file>>
DropBatches(b) ==
  /\ build[b].pc \in {"embed", "flush", "writing"} /\ build[b].cancelled /\ build[b].unanswered # InFlight(b)
  /\ Set(b, [build[b] EXCEPT !.unanswered = InFlight(b)])
  /\ UNCHANGED <<scenario, note, file>>

\* embed: an answer holds one vector for each text, in their order.
Embedded(text) == text

\* embedBatches' own loop: the first failure ends the build with what it has
\* in memory.
CollectBatch(b) ==
  /\ build[b].pc = "embed" /\ build[b].results # <<>>
  /\ LET result == Head(build[b].results)
         notes == build[b].batches[result.batch]
         text == build[b].read
     IN  IF ~result.ok THEN End(b, "failed")
         ELSE Set(b, [build[b] EXCEPT
                !.items = [n \in Note |-> IF n \in notes THEN [hash |-> text[n], vector |-> Embedded(text[n])] ELSE @[n]],
                !.results = Tail(@), !.collected = @ + 1,
                !.pc = IF (build[b].collected + 1) % FlushEvery = 0 THEN "flush" ELSE "embed"])
  /\ UNCHANGED <<scenario, note, file>>
AllCollected(b) ==
  /\ build[b].pc = "embed" /\ build[b].unanswered = {} /\ build[b].results = <<>>
  /\ IF build[b].cancelled THEN End(b, "failed") ELSE Set(b, [build[b] EXCEPT !.pc = "save"])
  /\ UNCHANGED <<scenario, note, file>>

\* save: the file is truncated, then written; when two builds write at once
\* it may keep a part of each.
Truncate(b) ==
  /\ build[b].pc \in {"flush", "save"}
  /\ \/ /\ Set(b, [build[b] EXCEPT !.pc = IF @ = "flush" THEN "writing" ELSE "closing"])
        /\ file' = Torn /\ UNCHANGED scenario
     \/ Spend("faults") /\ End(b, "failed") /\ UNCHANGED file
  /\ UNCHANGED note
Writing == {b \in Build : build[b].pc \in {"writing", "closing"}}
WriteFile(b) ==
  /\ b \in Writing
  /\ \/ /\ file' = Saved(build[b].items)
        /\ UNCHANGED scenario
        /\ IF build[b].pc = "closing" THEN End(b, "ok") ELSE Set(b, [build[b] EXCEPT !.pc = "embed"])
     \/ /\ Writing # {b} /\ file' = Torn
        /\ UNCHANGED scenario
        /\ IF build[b].pc = "closing" THEN End(b, "ok") ELSE Set(b, [build[b] EXCEPT !.pc = "embed"])
     \/ Spend("faults") /\ End(b, "failed") /\ UNCHANGED file
  /\ UNCHANGED note

CancelBuild(b) ==
  /\ build[b].pc # "off" /\ ~build[b].cancelled /\ Spend("cancels")
  /\ Set(b, [build[b] EXCEPT !.cancelled = TRUE])
  /\ UNCHANGED <<note, file>>

\* The process dies: the file stays as it is on the disk.
BuildsDie ==
  /\ build' = [b \in Build |-> IF build[b].pc = "off" THEN build[b] ELSE [Idle EXCEPT !.answer = "killed"]]
  /\ UNCHANGED file

\* scoreCandidates: a note is compared with the others whose text can be read.
Candidates(items, active) == {n \in Note \ {active} : items[n] # NoItem /\ note[n] # Gone}
\* Similar: nothing is found in a file that cannot be read.
Similar(cache, active) == IF Parses(cache) THEN Candidates(cache.items, active) ELSE {}

IndexStep ==
  \E b \in Build :
    \/ \E n \in Note : ReadNote(b, n)
    \/ \E i \in DOMAIN build[b].batches : EmbedBatch(b, i)
    \/ StartEmbedding(b) \/ DropBatches(b) \/ CollectBatch(b) \/ AllCollected(b) \/ Truncate(b) \/ WriteFile(b)
-----------------------------------------------------------------------------
\* A build that ends well, with no other at work, leaves in embeddings.json
\* the vector of every note's text as it read it (which is the note's text
\* unless it was written since) and nothing for notes that it did not find,
\* so that a search compares a note with every other that is still there,
\* whatever earlier builds that failed, were stopped or killed had saved.
IndexCurrent ==
  [][\A b \in Build :
       (build[b].pc # "off" /\ build'[b].answer = "ok" /\ \A c \in Build \ {b} : build[c].pc = "off") =>
         /\ Parses(file')
         /\ \A n \in Note :
              IF n \in build[b].scanned THEN file'.items[n] = [hash |-> build[b].read[n], vector |-> build[b].read[n]]
              ELSE file'.items[n] = NoItem
         /\ \A n \in Note : Similar(file', n) = {m \in build[b].scanned \ {n} : note[m] # Gone}]_indexVars
=============================================================================
