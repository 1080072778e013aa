----------------------------- MODULE InboxMerge -----------------------------
(***************************************************************************)
(* The zettelkasten inbox merge (internal/workflow/zettel/inbox), its      *)
(* archive and its rollback (internal/workflow/zettel/archive).            *)
(*                                                                         *)
(* A run picks notes of the inbox and hands them to its workers.  For each *)
(* one the worker reads the candidate destination notes, asks the merge    *)
(* model for their complete new text, and then, under the run's commit     *)
(* lock, checks that the destinations are still what the model saw,        *)
(* archives what it is about to overwrite, overwrites it, moves the source *)
(* out of the inbox and records where it went.  A rollback walks a run's   *)
(* manifest backwards.  Runs and rollbacks are independent HTTP jobs: the  *)
(* locks belong to one run, so two runs, or a run and a rollback, meet     *)
(* only in the files.                                                      *)
(*                                                                         *)
(* A note is the set of facts it holds.  A source holds the one fact named *)
(* like it; a destination starts with the fact named like itself, or is a  *)
(* byte-identical copy of a source.                                        *)
(***************************************************************************)
EXTENDS Integers, Sequences, FiniteSets

CONSTANTS Runs,          \* run identifiers (zettel-inbox-<nanoseconds>)
          Sources,       \* notes in the inbox folder
          Dests,         \* notes in the zettelkasten folder
          Workers,       \* options.InboxWorkers
          ExcerptFacts,  \* facts of a candidate that fit in its excerpt
          MaxTrouble,    \* bound: faults, crashes and jobs begun out of order
          NoSource, NoRun

ASSUME InboxAssumption ==
  /\ Workers \in Nat \ {0}
  /\ ExcerptFacts \in Nat
  /\ MaxTrouble \in Nat
  /\ Sources \cap Dests = {}
  /\ NoSource \notin Sources
  /\ NoRun \notin Runs

VARIABLES note,      \* the destination notes on disk
          inbox,     \* the sources that lie in the inbox folder
          moved,     \* the names each source has under _processed/<day>
          manifest,  \* manifest.json of each run
          run,       \* each InboxMerge call: its selection and its feeder
          work,      \* what each run is doing with each source
          commit,    \* who holds each run's commit mutex
          rollback,  \* the rollback in progress
          history    \* for the properties only

vars == <<note, inbox, moved, manifest, run, work, commit, rollback, history>>

Facts == Sources \cup Dests
Content == SUBSET Facts

Statuses == {"none", "running", "completed", "partial", "pending", "failed", "restored"}
Results == {"processed", "pending", "failed"}

NoNotes == [d \in {} |-> {}]

\* Texts of some of the notes, the items of a manifest, a manifest.json, a call
\* of InboxMerge, a rollback, and what a worker knows of its source.
Texts == UNION {[D -> Content] : D \in SUBSET Dests}
Item == [source : Sources, status : Results, path : Nat, before : Texts]
Manifest == [status : Statuses, restored : BOOLEAN, items : Seq(Item)]
Run == [phase : {"none", "running", "done", "crashed"}, chosen : SUBSET Sources, feeding : BOOLEAN]
Rollback == [run : Runs \cup {NoRun}, read : Seq(Item), items : Seq(Item), left : SUBSET Dests]
Places == {"idle", "queued", "duplicate", "asking", "deciding", "archiving", "writing",
           "recording", "done"}
Work == [pc : Places, seen : Texts, final : Texts, before : Texts, left : SUBSET Dests,
         path : Nat, result : Results]

\* A source nobody has started, or whose worker keeps nothing from it.
Idle(pc) == [pc |-> pc, seen |-> NoNotes, final |-> NoNotes, before |-> NoNotes,
             left |-> {}, path |-> 0, result |-> "failed"]

NoRollback == [run |-> NoRun, read |-> <<>>, items |-> <<>>, left |-> {}]

Running(r) == run[r].phase = "running"
Busy(r, s) == work[r][s].pc \notin {"idle", "queued", "done"}
Holds(r, s) == commit[r] = s
Free(r) == commit[r] = NoSource

\* The smallest name that is not taken, as uniquePath finds it.
UniqueName(taken) ==
  CHOOSE n \in 1 .. Cardinality(taken) + 1 :
    /\ n \notin taken
    /\ \A m \in 1 .. n - 1 : m \in taken

\* What the merge model is shown of a candidate: all of it, or as much as
\* fits before the "[truncated after line N]" mark.
Excerpts(c) ==
  {e \in SUBSET c :
     Cardinality(e) = IF Cardinality(c) <= ExcerptFacts THEN Cardinality(c) ELSE ExcerptFacts}

\* findExactDestinationDuplicate: a destination is byte for byte the source.
HasDuplicate(s) == \E d \in Dests : note[d] = {s}

\* WriteInboxLLMExchange: the first exchange opens the manifest.
WithExchange(m) == [m EXCEPT !.status = IF @ = "none" THEN "running" ELSE @]

HasItem(m, s) == \E i \in DOMAIN m.items : m.items[i].source = s

\* Mutant: the item goes to the front.
WithItemFirst(m, s, status, before) ==
  [m EXCEPT !.status = "running",
            !.items = <<[source |-> s, status |-> status, path |-> 0, before |-> before]>> \o @]

\* WriteInboxItem: the item goes to the end of the manifest, and whatever the
\* manifest said of the run, it is running.
WithItem(m, s, status, before) ==
  [m EXCEPT !.status = "running",
            !.items = Append(@, [source |-> s, status |-> status, path |-> 0, before |-> before])]

\* UpdateInboxItemProcessedPath: the first item of that source.
WithPath(m, s, n) ==
  [m EXCEPT !.items =
     [i \in DOMAIN @ |->
        IF @[i].source = s /\ \A j \in 1 .. i - 1 : @[j].source # s
        THEN [@[i] EXCEPT !.path = n]
        ELSE @[i]]]

\* archiveFailedInboxSource, unless the source has an item already.
WithFailed(m, s) == IF HasItem(m, s) THEN m ELSE WithItem(m, s, "failed", NoNotes)

\* Mutant: failed sources are not counted.
StatusOfTheRest(results) ==
  IF "pending" \notin results THEN "completed"
  ELSE IF "processed" \in results THEN "partial" ELSE "pending"

RunStatus(results) ==
  CASE "failed" \in results /\ results # {"failed"} -> "partial"
    [] results = {"failed"}                         -> "failed"
    [] results = {"pending", "processed"}           -> "partial"
    [] results = {"pending"}                        -> "pending"
    [] OTHER                                        -> "completed"

\* ---------------------------------------------------------------- history
\* overlaps: jobs begun while another was active, and rollbacks of anything but
\* the newest run that is not undone.  done: the runs not undone, oldest first.
\* first: the notes when a run began.  raced: runs rolled back while running.
\* tried: runs a rollback was ever begun for.  faults: failed operations and crashes.
History == [overlaps : Nat, done : Seq(Runs), raced : SUBSET Runs, tried : SUBSET Runs,
            faults : Nat, first : [Runs -> [Dests -> Content]]]
Top == IF history.done = <<>> THEN NoRun ELSE history.done[Len(history.done)]
Fault ==
  /\ history.faults + history.overlaps < MaxTrouble
  /\ history' = [history EXCEPT !.faults = @ + 1]
Orderly == history.overlaps = 0
Overlaps(orderly) == IF orderly THEN history.overlaps ELSE history.overlaps + 1
Quiet == rollback.run = NoRun /\ \A r \in Runs : ~Running(r)

Init ==
  /\ note \in {c \in [Dests -> Content] :
                 \A d \in Dests : c[d] = {d} \/ \E s \in Sources : c[d] = {s}}
  /\ inbox = Sources
  /\ moved = [s \in Sources |-> {}]
  /\ manifest = [r \in Runs |-> [status |-> "none", restored |-> FALSE, items |-> <<>>]]
  /\ run = [r \in Runs |-> [phase |-> "none", chosen |-> {}, feeding |-> FALSE]]
  /\ work = [r \in Runs |-> [s \in Sources |-> Idle("idle")]]
  /\ commit = [r \in Runs |-> NoSource]
  /\ rollback = NoRollback
  /\ history = [overlaps |-> 0, done |-> <<>>, raced |-> {}, tried |-> {}, faults |-> 0,
                first |-> [r \in Runs |-> note]]

\* ------------------------------------------------------------------- a run
\* InboxMerge scans the inbox and takes a selection (size limit, shuffle).
StartRun(r) ==
  /\ run[r].phase = "none"
  /\ \E chosen \in (SUBSET inbox) \ {{}} :
       /\ run' = [run EXCEPT ![r] = [phase |-> "running", chosen |-> chosen, feeding |-> TRUE]]
       /\ work' = [work EXCEPT ![r] =
                     [s \in Sources |-> Idle(IF s \in chosen THEN "queued" ELSE "idle")]]
  /\ history.faults + Overlaps(Quiet) <= MaxTrouble
  /\ history' = [history EXCEPT !.overlaps = Overlaps(Quiet),
                                !.done = Append(@, r),
                                !.first[r] = note]
  /\ UNCHANGED <<note, inbox, moved, manifest, commit, rollback>>

\* The context is cancelled and the feeder of the parallel path gives up.
StopFeeding(r) ==
  /\ Running(r) /\ run[r].feeding /\ Workers > 1
  /\ run' = [run EXCEPT ![r].feeding = FALSE]
  /\ UNCHANGED <<note, inbox, moved, manifest, work, commit, rollback, history>>

\* The feeder hands a source to a worker that has none.
HandedOut(r, s) ==
  /\ run[r].feeding /\ work[r][s].pc = "queued"
  /\ Cardinality({t \in Sources : Busy(r, t)}) < Workers

\* FinalizeInboxRun, when every worker is back; a source never handed out
\* counts as failed.
WorkersBack(r) ==
  \A s \in run[r].chosen :
    work[r][s].pc = "done" \/ (work[r][s].pc = "queued" /\ ~run[r].feeding)
Finalized(r) ==
  [manifest EXCEPT ![r].status = RunStatus({work[r][s].result : s \in run[r].chosen})]
FinalizeRun(r) ==
  /\ Running(r) /\ WorkersBack(r)
  /\ run' = [run EXCEPT ![r] = [@ EXCEPT !.phase = "done", !.feeding = FALSE]]
  /\ \/ manifest' = Finalized(r) /\ UNCHANGED history
     \/ UNCHANGED manifest /\ Fault    \* manifest.json could not be written
  /\ UNCHANGED <<note, inbox, moved, work, commit, rollback>>

\* -------------------------------------------------------------- one source
\* A worker takes the source, reads it, looks for a byte-identical note and,
\* when there is none, reads the candidates.
TakeSource(r, s) ==
  /\ Running(r) /\ HandedOut(r, s) /\ s \in inbox
  /\ work' = [work EXCEPT ![r][s] =
                IF HasDuplicate(s)
                THEN Idle("duplicate")
                ELSE [Idle("asking") EXCEPT !.seen = note]]
  /\ UNCHANGED <<note, inbox, moved, manifest, run, commit, rollback, history>>

\* The merge model answers PENDING, or with the final text of some candidates:
\* what it was shown of each, and the source's fact.  The exchange is archived.
AskModel(r, s) ==
  /\ Running(r) /\ work[r][s].pc = "asking"
  /\ \E chosen \in SUBSET Dests :
       \E final \in [chosen -> Content] :
         /\ \A d \in chosen : \E e \in Excerpts(work[r][s].seen[d]) : final[d] = e \cup {s}
         /\ work' = [work EXCEPT ![r][s] = [@ EXCEPT !.pc = "deciding", !.final = final]]
  /\ manifest' = [manifest EXCEPT ![r] = WithExchange(@)]
  /\ UNCHANGED <<note, inbox, moved, run, commit, rollback, history>>

\* Mutant: the destinations are not checked again under the lock.
NeverStale(w) == TRUE

\* ensureInboxDestinationsCurrent: each named candidate is still what the model saw.
Current(w) == \A d \in DOMAIN w.final : note[d] = w.seen[d]

\* Under the commit lock: nothing to apply, so the item says pending and the
\* source stays where it is.
LeavePending(r, s) ==
  /\ Running(r) /\ work[r][s].pc = "deciding" /\ Free(r)
  /\ work[r][s].final = NoNotes \/ ~Current(work[r][s])
  /\ manifest' = [manifest EXCEPT ![r] = WithItem(@, s, "pending", NoNotes)]
  /\ work' = [work EXCEPT ![r][s] = [Idle("done") EXCEPT !.result = "pending"]]
  /\ UNCHANGED <<note, inbox, moved, run, commit, rollback, history>>

\* Under the commit lock: materializeInboxDecision reads the destinations again
\* and keeps those the final text changes.
Materialize(r, s) ==
  LET w == work[r][s]
      changed == {d \in DOMAIN w.final : w.final[d] # note[d]}
  IN /\ Running(r) /\ w.pc = "deciding" /\ Free(r)
     /\ w.final # NoNotes /\ Current(w)
     /\ commit' = [commit EXCEPT ![r] = s]
     /\ work' = [work EXCEPT ![r][s] =
                   [w EXCEPT !.pc = "archiving", !.seen = NoNotes, !.left = changed,
                             !.before = [d \in changed |-> note[d]],
                             !.final = [d \in changed |-> w.final[d]]]]
     /\ UNCHANGED <<note, inbox, moved, manifest, run, rollback, history>>

\* processExactDuplicateInboxSource takes the lock; no destination changes.
TakeDuplicate(r, s) ==
  /\ Running(r) /\ work[r][s].pc = "duplicate" /\ Free(r)
  /\ commit' = [commit EXCEPT ![r] = s]
  /\ work' = [work EXCEPT ![r][s].pc = "archiving"]
  /\ UNCHANGED <<note, inbox, moved, manifest, run, rollback, history>>

\* WriteInboxItem: the item and the notes it will overwrite reach the archive.
ArchiveItem(r, s) ==
  /\ Running(r) /\ work[r][s].pc = "archiving"
  /\ manifest' = [manifest EXCEPT ![r] = WithItem(@, s, "processed", work[r][s].before)]
  /\ work' = [work EXCEPT ![r][s].pc = "writing"]
  /\ UNCHANGED <<note, inbox, moved, run, commit, rollback, history>>

\* writeDestinationNotes, one file at a time.
WriteNote(r, s) ==
  /\ Running(r) /\ work[r][s].pc = "writing"
  /\ \E d \in work[r][s].left :
       /\ note' = [note EXCEPT ![d] = work[r][s].final[d]]
       /\ work' = [work EXCEPT ![r][s].left = @ \ {d}]
  /\ UNCHANGED <<inbox, moved, manifest, run, commit, rollback, history>>

\* moveInboxSourceToProcessed: a fresh name, then a rename.
MoveSource(r, s) ==
  /\ Running(r) /\ work[r][s].pc = "writing" /\ work[r][s].left = {}
  /\ s \in inbox
  /\ inbox' = inbox \ {s}
  /\ moved' = [moved EXCEPT ![s] = @ \cup {UniqueName(@)}]
  /\ work' = [work EXCEPT ![r][s] = [@ EXCEPT !.pc = "recording", !.path = UniqueName(moved[s])]]
  /\ UNCHANGED <<note, manifest, run, commit, rollback, history>>

\* UpdateInboxItemProcessedPath, and the commit lock is released.
RecordPath(r, s) ==
  /\ Running(r) /\ work[r][s].pc = "recording"
  /\ manifest' = [manifest EXCEPT ![r] = WithPath(@, s, work[r][s].path)]
  /\ work' = [work EXCEPT ![r][s] = [Idle("done") EXCEPT !.result = "processed"]]
  /\ commit' = [commit EXCEPT ![r] = NoSource]
  /\ UNCHANGED <<note, inbox, moved, run, rollback, history>>

\* An error ends the source: the locks are released, and the failure becomes an
\* item unless the source has one already.  An item archived as processed stays.
EndFailed(r, s) ==
  /\ work' = [work EXCEPT ![r][s] = Idle("done")]
  /\ commit' = [commit EXCEPT ![r] = IF @ = s THEN NoSource ELSE @]
  /\ UNCHANGED <<note, inbox, moved, run, rollback>>

\* Any read, provider call or write may return an error, and so may the write of
\* the failed item.
FailSource(r, s) ==
  /\ Running(r) /\ Busy(r, s)
  /\ work[r][s].pc \in {"duplicate", "deciding"} => Free(r)
  /\ Fault
  /\ EndFailed(r, s)
  /\ \/ manifest' = [manifest EXCEPT ![r] = WithFailed(@, s)]
     \/ UNCHANGED manifest

\* Another job has taken the source away: it cannot be read, or not be moved.
SourceGone(r, s) ==
  /\ Running(r) /\ s \notin inbox
  /\ \/ HandedOut(r, s)
     \/ work[r][s].pc = "writing" /\ work[r][s].left = {}
  /\ EndFailed(r, s)
  /\ manifest' = [manifest EXCEPT ![r] = WithFailed(@, s)]
  /\ UNCHANGED history

\* ---------------------------------------------------------------- rollback
\* Only items that were applied are undone.
NotesOfLast(items) ==
  IF items = <<>> \/ items[Len(items)].status # "processed" THEN {}
  ELSE DOMAIN items[Len(items)].before

\* rollbackInboxRun with an explicit run id reads the manifest once, whatever
\* the run is doing and whether or not it was restored before.
BeginRollback(r) ==
  /\ rollback.run = NoRun
  /\ manifest[r].status # "none"
  /\ rollback' = [NoRollback EXCEPT !.run = r, !.read = manifest[r].items,
                                     !.items = manifest[r].items,
                                     !.left = NotesOfLast(manifest[r].items)]
  /\ history.faults + Overlaps(Quiet /\ r = Top) <= MaxTrouble
  /\ history' = [history EXCEPT !.overlaps = Overlaps(Quiet /\ r = Top),
                                !.tried = @ \cup {r},
                                !.raced = IF Running(r) THEN @ \cup {r} ELSE @]
  /\ UNCHANGED <<note, inbox, moved, manifest, run, work, commit>>

LastItem == rollback.items[Len(rollback.items)]
DropLast(items) == SubSeq(items, 1, Len(items) - 1)
NextItem ==
  rollback' = [rollback EXCEPT !.items = DropLast(@), !.left = NotesOfLast(DropLast(rollback.items))]

\* The items are gone through from the last to the first, and those that were
\* not applied passed over.
PassItem ==
  /\ rollback.items # <<>> /\ LastItem.status # "processed"
  /\ NextItem
  /\ UNCHANGED <<note, inbox, moved, manifest, run, work, commit, history>>

\* A destination gets its archived text back.
RestoreNote ==
  /\ \E d \in rollback.left :
       /\ note' = [note EXCEPT ![d] = LastItem.before[d]]
       /\ rollback' = [rollback EXCEPT !.left = @ \ {d}]
  /\ UNCHANGED <<inbox, moved, manifest, run, work, commit, history>>

\* Mutant: a source that is not where the item says is not written again.
OnlyMoveBack ==
  /\ rollback.items # <<>> /\ LastItem.status = "processed" /\ rollback.left = {}
  /\ inbox' = IF LastItem.path \in moved[LastItem.source]
              THEN inbox \cup {LastItem.source} ELSE inbox
  /\ moved' = [moved EXCEPT ![LastItem.source] = @ \ {LastItem.path}]
  /\ NextItem
  /\ UNCHANGED <<note, manifest, run, work, commit, history>>

\* The source is renamed back from where the item says it went or, when it is
\* not there, written again from the archived copy.
RestoreSource ==
  /\ rollback.items # <<>> /\ LastItem.status = "processed" /\ rollback.left = {}
  /\ inbox' = inbox \cup {LastItem.source}
  /\ moved' = [moved EXCEPT ![LastItem.source] = @ \ {LastItem.path}]
  /\ NextItem
  /\ UNCHANGED <<note, manifest, run, work, commit, history>>

\* The manifest as it was read is written back, marked restored.
FinishRollback ==
  /\ rollback.run # NoRun /\ rollback.items = <<>>
  /\ manifest' = [manifest EXCEPT ![rollback.run] =
                    [status |-> "restored", restored |-> TRUE, items |-> rollback.read]]
  /\ rollback' = NoRollback
  /\ history' = [history EXCEPT !.done = IF rollback.run = Top THEN DropLast(@) ELSE @]
  /\ UNCHANGED <<note, inbox, moved, run, work, commit>>

\* A file operation of the rollback fails: what is undone stays undone.
FailRollback ==
  /\ rollback.run # NoRun
  /\ rollback' = NoRollback
  /\ Fault
  /\ UNCHANGED <<note, inbox, moved, manifest, run, work, commit>>

\* The server dies: every run and the rollback are gone, the files stay.
Crash ==
  /\ ~Quiet /\ Fault
  /\ run' = [r \in Runs |-> IF Running(r) THEN [run[r] EXCEPT !.phase = "crashed", !.feeding = FALSE] ELSE run[r]]
  /\ work' = [r \in Runs |-> [s \in Sources |-> IF Running(r) THEN Idle("idle") ELSE work[r][s]]]
  /\ commit' = [r \in Runs |-> NoSource]
  /\ rollback' = NoRollback
  /\ UNCHANGED <<note, inbox, moved, manifest>>

SourceStep(r, s) ==
  \/ TakeSource(r, s) \/ AskModel(r, s) \/ LeavePending(r, s) \/ Materialize(r, s)
  \/ TakeDuplicate(r, s) \/ ArchiveItem(r, s) \/ WriteNote(r, s) \/ MoveSource(r, s)
  \/ RecordPath(r, s) \/ FailSource(r, s) \/ SourceGone(r, s)

RollbackStep == PassItem \/ RestoreNote \/ RestoreSource \/ FinishRollback \/ FailRollback

Next ==
  \/ \E r \in Runs : StartRun(r) \/ StopFeeding(r) \/ FinalizeRun(r) \/ BeginRollback(r)
  \/ \E r \in Runs, s \in Sources : SourceStep(r, s)
  \/ RollbackStep
  \/ Crash

Spec == Init /\ [][Next]_vars

\* -------------------------------------------------------------- properties
\* What the files, the calls and the rollback hold.
TypeOK ==
  /\ note \in [Dests -> Content]
  /\ inbox \subseteq Sources
  /\ moved \in [Sources -> SUBSET Nat]
  /\ manifest \in [Runs -> Manifest]
  /\ run \in [Runs -> Run]
  /\ work \in [Runs -> [Sources -> Work]]
  /\ commit \in [Runs -> Sources \cup {NoSource}]
  /\ rollback \in Rollback
  /\ history \in History

\* Sources whose fact some destination note holds.
InVault == (UNION {note[d] : d \in Dests}) \cap Sources

Applied(r, s) == \E i \in DOMAIN manifest[r].items :
                   manifest[r].items[i].source = s /\ manifest[r].items[i].status = "processed"

\* No source is ever out of reach: it lies in the inbox, or a run that is not
\* restored has archived it as applied, so that a rollback of that run brings
\* it back, whatever became of the notes it was merged into.  Runs may overlap, fail at any
\* file, crash and be rolled back in any order, in part and again; only a run
\* that was rolled back while it ran is excepted (its later items are lost
\* when the rollback writes the manifest back).
Recoverable ==
  history.raced = {} =>
    \A s \in Sources :
      s \in inbox \/ \E r \in Runs : ~manifest[r].restored /\ Applied(r, s)

\* A rollback that completes leaves every destination note as it was before
\* the run began and puts every source the run applied back in the inbox,
\* after any failure or crash of the run and of earlier attempts to roll it
\* back, provided that jobs did not overlap and runs are undone newest first.
RollbackRestores ==
  [][\A r \in Runs :
       (rollback.run = r /\ rollback'.run = NoRun /\ Orderly'
          /\ manifest'[r].status = "restored" /\ manifest'[r].restored # manifest[r].restored)
       => /\ note' = history.first[r]
          /\ \A s \in Sources : Applied(r, s) => s \in inbox']_vars

\* A merge only adds facts to destination notes: what one worker wrote is not
\* overwritten by another that decided on an older text.  Stated for runs that
\* do not overlap; each run may have any number of workers.
DestinationFactsKept ==
  [][(Orderly' /\ rollback.run = NoRun)
       => \A d \in Dests : note[d] \subseteq note'[d]]_vars

\* A run that ends "completed" has applied every source it selected: none is
\* left in the inbox and the zettelkasten holds all their facts.
CompletedMeansMerged ==
  \A r \in Runs :
    (Orderly /\ rollback.run = NoRun /\ r = Top /\ manifest[r].status = "completed"
       /\ r \notin history.tried)
    => run[r].chosen \cap inbox = {} /\ run[r].chosen \subseteq InVault

\* The commit lock of a run is held exactly while one of its sources is between
\* the check of its destinations and its last manifest update: no error path
\* keeps it (the other workers would wait for ever) and none gives it up early.
LockHeldWhileCommitting ==
  \A r \in Runs, s \in Sources :
    Holds(r, s) <=> work[r][s].pc \in {"archiving", "writing", "recording"}
=============================================================================
