----------------------------- MODULE InboxProofs -----------------------------
(***************************************************************************)
(* Proofs about InboxMerge, for any number of runs, workers, sources and   *)
(* destinations: the commit mutex of a run is held exactly while one of    *)
(* its sources is being committed, so no two sources of a run are; every   *)
(* source stays recoverable, whatever overlaps and fails; and, while jobs  *)
(* do not overlap, no worker overwrites what another merged, a rollback    *)
(* that completes restores the notes and the inbox, and a run that says    *)
(* completed has merged all it chose.                                      *)
(***************************************************************************)
EXTENDS InboxMerge, FiniteSetTheorems, WellFoundedInduction, SequenceTheorems, TLAPS

Committing == {"archiving", "writing", "recording"}
Resting == {"idle", "queued", "done"}

\* The functions and records the actions update are defined where they update them.
Shape ==
  /\ DOMAIN run = Runs
  /\ \A r \in Runs : {"phase", "chosen", "feeding"} \subseteq DOMAIN run[r]
  /\ commit \in [Runs -> Sources \cup {NoSource}]
  /\ DOMAIN work = Runs
  /\ \A r \in Runs :
       /\ DOMAIN work[r] = Sources
       /\ \A s \in Sources : "pc" \in DOMAIN work[r][s]

\* A run works on what it chose, and no longer than it lasts.
ChosenOnly == \A r \in Runs, s \in Sources : s \notin run[r].chosen => work[r][s].pc = "idle"
AtRest == \A r \in Runs : ~Running(r) => \A s \in Sources : work[r][s].pc \in Resting

LockInv == Shape /\ ChosenOnly /\ AtRest /\ LockHeldWhileCommitting

LEMMA IdleHasPlace ==
  ASSUME NEW pc
  PROVE  Idle(pc).pc = pc /\ "pc" \in DOMAIN Idle(pc)
BY DEF Idle

LEMMA PendingHasPlace ==
  ASSUME NEW pc, NEW x
  PROVE  /\ [Idle(pc) EXCEPT !.result = x].pc = pc
         /\ "pc" \in DOMAIN [Idle(pc) EXCEPT !.result = x]
BY DEF Idle

LEMMA PlaceMoves ==
  ASSUME NEW w, "pc" \in DOMAIN w, NEW pc
  PROVE  /\ [w EXCEPT !.pc = pc].pc = pc
         /\ "pc" \in DOMAIN [w EXCEPT !.pc = pc]
OBVIOUS

\* A step of one source that takes, keeps or gives back the lock as its new
\* place asks for, and disturbs no other source.
LEMMA OneSourceMoves ==
  ASSUME LockInv, NEW r \in Runs, NEW s \in Sources, NEW w, "pc" \in DOMAIN w,
         Running(r), work[r][s].pc # "idle", run' = run,
         work' = [work EXCEPT ![r][s] = w],
         commit' \in [Runs -> Sources \cup {NoSource}],
         \A q \in Runs \ {r} : commit'[q] = commit[q],
         commit'[r] = s <=> w.pc \in Committing,
         \A t \in Sources \ {s} : commit'[r] = t <=> commit[r] = t
  PROVE  LockInv'
<1>1. \A q \in Runs, t \in Sources :
        work'[q][t] = IF q = r /\ t = s THEN w ELSE work[q][t]
  BY DEF LockInv, Shape
<1>2. Shape'
  <2>1. DOMAIN work' = Runs BY DEF LockInv, Shape
  <2>2. \A q \in Runs : DOMAIN work'[q] = Sources BY DEF LockInv, Shape
  <2> QED BY <1>1, <2>1, <2>2 DEF LockInv, Shape
<1>3. ChosenOnly' /\ AtRest'
  BY <1>1 DEF LockInv, ChosenOnly, AtRest, Running
<1>4. LockHeldWhileCommitting'
  <2> SUFFICES ASSUME NEW q \in Runs, NEW t \in Sources
               PROVE  commit'[q] = t <=> work'[q][t].pc \in Committing
    BY DEF LockHeldWhileCommitting, Holds, Committing
  <2>1. commit[q] = t <=> work[q][t].pc \in Committing
    BY DEF LockInv, LockHeldWhileCommitting, Holds, Committing
  <2>2. CASE q # r BY <1>1, <2>1, <2>2
  <2>3. CASE q = r /\ t # s BY <1>1, <2>1, <2>3
  <2>4. CASE q = r /\ t = s BY <1>1, <2>4
  <2> QED BY <2>2, <2>3, <2>4
<1> QED BY <1>2, <1>3, <1>4 DEF LockInv

\* The same for a step that leaves the lock alone.
LEMMA OneSourceMovesOn ==
  ASSUME LockInv, NEW r \in Runs, NEW s \in Sources, NEW w, "pc" \in DOMAIN w,
         Running(r), work[r][s].pc # "idle", run' = run, commit' = commit,
         work' = [work EXCEPT ![r][s] = w],
         work[r][s].pc \in Committing <=> w.pc \in Committing
  PROVE  LockInv'
<1>1. commit[r] = s <=> w.pc \in Committing
  BY DEF LockInv, LockHeldWhileCommitting, Holds, Committing
<1>2. commit' \in [Runs -> Sources \cup {NoSource}] BY DEF LockInv, Shape
<1> QED BY <1>1, <1>2, OneSourceMoves

\* Where a source holds the lock, and where it does not.
LEMMA LockByPlace ==
  ASSUME LockInv, NEW r \in Runs, NEW s \in Sources
  PROVE  /\ "pc" \in DOMAIN work[r][s]
         /\ commit \in [Runs -> Sources \cup {NoSource}]
         /\ commit[r] = s <=> work[r][s].pc \in Committing
BY DEF LockInv, Shape, LockHeldWhileCommitting, Holds, Committing

LEMMA FailureGivesBack ==
  ASSUME LockInv, NEW r \in Runs, NEW s \in Sources, Running(r), work[r][s].pc # "idle",
         EndFailed(r, s)
  PROVE  LockInv'
<1>1. work' = [work EXCEPT ![r][s] = Idle("done")] /\ run' = run BY DEF EndFailed
<1>2. Idle("done").pc = "done" /\ "pc" \in DOMAIN Idle("done") BY IdleHasPlace
<1>3. commit' = [commit EXCEPT ![r] = IF commit[r] = s THEN NoSource ELSE commit[r]] BY DEF EndFailed
<1>4. commit' \in [Runs -> Sources \cup {NoSource}] /\ commit'[r] # s
  BY <1>3, LockByPlace, InboxAssumption
<1>5. \A q \in Runs \ {r} : commit'[q] = commit[q] BY <1>3, LockByPlace
<1>6. \A t \in Sources \ {s} : commit'[r] = t <=> commit[r] = t BY <1>3, LockByPlace, InboxAssumption
<1>7. Idle("done").pc \notin Committing BY <1>2 DEF Committing
<1> QED BY <1>1, <1>2, <1>4, <1>5, <1>6, <1>7, OneSourceMoves

LEMMA SourceKeepsLock ==
  ASSUME LockInv, NEW r \in Runs, NEW s \in Sources, SourceStep(r, s)
  PROVE  LockInv'
<1> DEFINE w == work[r][s]
<1> USE LockByPlace
<1>1. CASE TakeSource(r, s)
  <2> DEFINE v == IF HasDuplicate(s) THEN Idle("duplicate")
                  ELSE [Idle("asking") EXCEPT !.seen = note]
  <2>1. v.pc \in {"duplicate", "asking"} /\ "pc" \in DOMAIN v BY DEF Idle
  <2>2. /\ Running(r) /\ w.pc = "queued"
        /\ work' = [work EXCEPT ![r][s] = v] /\ run' = run /\ commit' = commit
    BY <1>1 DEF TakeSource, HandedOut
  <2>3. w.pc \in Committing <=> v.pc \in Committing BY <2>1, <2>2 DEF Committing
  <2> HIDE DEF v
  <2> QED BY <2>1, <2>2, <2>3, OneSourceMovesOn
<1>2. CASE AskModel(r, s)
  <2>1. PICK final : work' = [work EXCEPT ![r][s] = [w EXCEPT !.pc = "deciding", !.final = final]]
    BY <1>2 DEF AskModel
  <2> DEFINE v == [w EXCEPT !.pc = "deciding", !.final = final]
  <2>2. v.pc = "deciding" /\ "pc" \in DOMAIN v OBVIOUS
  <2>3. Running(r) /\ w.pc = "asking" /\ run' = run /\ commit' = commit BY <1>2 DEF AskModel
  <2>4. w.pc \in Committing <=> v.pc \in Committing BY <2>2, <2>3 DEF Committing
  <2>5. work' = [work EXCEPT ![r][s] = v] BY <2>1
  <2> HIDE DEF v
  <2> QED BY <2>2, <2>3, <2>4, <2>5, OneSourceMovesOn
<1>3. CASE LeavePending(r, s)
  <2> DEFINE v == [Idle("done") EXCEPT !.result = "pending"]
  <2>1. v.pc = "done" /\ "pc" \in DOMAIN v BY PendingHasPlace
  <2>2. /\ Running(r) /\ w.pc = "deciding"
        /\ work' = [work EXCEPT ![r][s] = v] /\ run' = run /\ commit' = commit
    BY <1>3 DEF LeavePending
  <2>3. w.pc \in Committing <=> v.pc \in Committing BY <2>1, <2>2 DEF Committing
  <2> HIDE DEF v
  <2> QED BY <2>1, <2>2, <2>3, OneSourceMovesOn
<1>4. CASE Materialize(r, s)
  <2>1. PICK left, before, final :
          work' = [work EXCEPT ![r][s] = [w EXCEPT !.pc = "archiving", !.seen = NoNotes, !.left = left,
                                                   !.before = before, !.final = final]]
    BY <1>4 DEF Materialize
  <2> DEFINE v == [w EXCEPT !.pc = "archiving", !.seen = NoNotes, !.left = left,
                            !.before = before, !.final = final]
  <2>2. v.pc = "archiving" /\ "pc" \in DOMAIN v OBVIOUS
  <2>3. /\ Running(r) /\ w.pc = "deciding" /\ run' = run
        /\ commit' = [commit EXCEPT ![r] = s] /\ commit[r] = NoSource
    BY <1>4 DEF Materialize, Free
  <2>4. work' = [work EXCEPT ![r][s] = v] BY <2>1
  <2>5. /\ commit' \in [Runs -> Sources \cup {NoSource}] /\ commit'[r] = s
        /\ \A q \in Runs \ {r} : commit'[q] = commit[q]
        /\ \A t \in Sources \ {s} : commit'[r] = t <=> commit[r] = t
    BY <2>3, InboxAssumption
  <2>6. commit'[r] = s <=> v.pc \in Committing BY <2>2, <2>5 DEF Committing
  <2> HIDE DEF v
  <2> QED BY <2>2, <2>3, <2>4, <2>5, <2>6, OneSourceMoves
<1>5. CASE TakeDuplicate(r, s)
  <2> DEFINE v == [w EXCEPT !.pc = "archiving"]
  <2>1. v.pc = "archiving" /\ "pc" \in DOMAIN v BY PlaceMoves
  <2>2. /\ Running(r) /\ w.pc = "duplicate" /\ run' = run
        /\ commit' = [commit EXCEPT ![r] = s] /\ commit[r] = NoSource
        /\ work' = [work EXCEPT ![r][s] = v]
    BY <1>5 DEF TakeDuplicate, Free
  <2>3. /\ commit' \in [Runs -> Sources \cup {NoSource}] /\ commit'[r] = s
        /\ \A q \in Runs \ {r} : commit'[q] = commit[q]
        /\ \A t \in Sources \ {s} : commit'[r] = t <=> commit[r] = t
    BY <2>2, InboxAssumption
  <2>4. commit'[r] = s <=> v.pc \in Committing BY <2>1, <2>3 DEF Committing
  <2> HIDE DEF v
  <2> QED BY <2>1, <2>2, <2>3, <2>4, OneSourceMoves
<1>6. CASE ArchiveItem(r, s)
  <2> DEFINE v == [w EXCEPT !.pc = "writing"]
  <2>1. v.pc = "writing" /\ "pc" \in DOMAIN v BY PlaceMoves
  <2>2. /\ Running(r) /\ w.pc = "archiving" /\ run' = run /\ commit' = commit
        /\ work' = [work EXCEPT ![r][s] = v]
    BY <1>6 DEF ArchiveItem
  <2>3. w.pc \in Committing <=> v.pc \in Committing BY <2>1, <2>2 DEF Committing
  <2> HIDE DEF v
  <2> QED BY <2>1, <2>2, <2>3, OneSourceMovesOn
<1>7. CASE WriteNote(r, s)
  <2>1. PICK left : work' = [work EXCEPT ![r][s] = [w EXCEPT !.left = left]]
    BY <1>7 DEF WriteNote
  <2> DEFINE v == [w EXCEPT !.left = left]
  <2>2. v.pc = w.pc /\ "pc" \in DOMAIN v OBVIOUS
  <2>3. Running(r) /\ w.pc = "writing" /\ run' = run /\ commit' = commit BY <1>7 DEF WriteNote
  <2>4. work' = [work EXCEPT ![r][s] = v] BY <2>1
  <2> HIDE DEF v
  <2> QED BY <2>2, <2>3, <2>4, OneSourceMovesOn
<1>8. CASE MoveSource(r, s)
  <2>1. PICK path : work' = [work EXCEPT ![r][s] = [w EXCEPT !.pc = "recording", !.path = path]]
    BY <1>8 DEF MoveSource
  <2> DEFINE v == [w EXCEPT !.pc = "recording", !.path = path]
  <2>2. v.pc = "recording" /\ "pc" \in DOMAIN v OBVIOUS
  <2>3. Running(r) /\ w.pc = "writing" /\ run' = run /\ commit' = commit BY <1>8 DEF MoveSource
  <2>4. w.pc \in Committing <=> v.pc \in Committing BY <2>2, <2>3 DEF Committing
  <2>5. work' = [work EXCEPT ![r][s] = v] BY <2>1
  <2> HIDE DEF v
  <2> QED BY <2>2, <2>3, <2>4, <2>5, OneSourceMovesOn
<1>9. CASE RecordPath(r, s)
  <2> DEFINE v == [Idle("done") EXCEPT !.result = "processed"]
  <2>1. v.pc = "done" /\ "pc" \in DOMAIN v BY PendingHasPlace
  <2>2. /\ Running(r) /\ w.pc = "recording" /\ run' = run
        /\ work' = [work EXCEPT ![r][s] = v] /\ commit' = [commit EXCEPT ![r] = NoSource]
    BY <1>9 DEF RecordPath
  <2>3. commit[r] = s BY <2>2 DEF Committing
  <2>4. /\ commit' \in [Runs -> Sources \cup {NoSource}] /\ commit'[r] = NoSource
        /\ \A q \in Runs \ {r} : commit'[q] = commit[q]
        /\ \A t \in Sources \ {s} : commit'[r] = t <=> commit[r] = t
    BY <2>2, <2>3, InboxAssumption
  <2>5. commit'[r] = s <=> v.pc \in Committing BY <2>1, <2>4, InboxAssumption DEF Committing
  <2> HIDE DEF v
  <2> QED BY <2>1, <2>2, <2>4, <2>5, OneSourceMoves
<1>10. CASE FailSource(r, s)
  BY <1>10, FailureGivesBack DEF FailSource, Busy
<1>11. CASE SourceGone(r, s)
  BY <1>11, FailureGivesBack DEF SourceGone, HandedOut
<1> QED
  BY <1>1, <1>2, <1>3, <1>4, <1>5, <1>6, <1>7, <1>8, <1>9, <1>10, <1>11 DEF SourceStep

LEMMA InitLocks == Init => LockInv
<1> SUFFICES ASSUME Init PROVE LockInv OBVIOUS
<1>1. \A r \in Runs, s \in Sources : work[r][s].pc = "idle" /\ "pc" \in DOMAIN work[r][s]
  BY IdleHasPlace DEF Init
<1>2. Shape BY <1>1 DEF Init, Shape
<1>3. ChosenOnly /\ AtRest BY <1>1 DEF ChosenOnly, AtRest, Resting
<1>4. LockHeldWhileCommitting
  BY <1>1, InboxAssumption DEF Init, LockHeldWhileCommitting, Holds
<1> QED BY <1>2, <1>3, <1>4 DEF LockInv

\* A run that has not begun holds no lock, so its sources may be queued.
LEMMA StartKeepsLock ==
  ASSUME LockInv, NEW r \in Runs, StartRun(r)
  PROVE  LockInv'
<1>1. PICK chosen \in (SUBSET inbox) \ {{}} :
        /\ run' = [run EXCEPT ![r] = [phase |-> "running", chosen |-> chosen, feeding |-> TRUE]]
        /\ work' = [work EXCEPT ![r] = [s \in Sources |-> Idle(IF s \in chosen THEN "queued" ELSE "idle")]]
  BY DEF StartRun
<1>2. commit' = commit BY DEF StartRun
<1>3. DOMAIN work' = Runs BY <1>1 DEF LockInv, Shape
<1>4. \A q \in Runs, s \in Sources :
        /\ q # r => work'[q] = work[q]
        /\ q = r => work'[q][s].pc = (IF s \in chosen THEN "queued" ELSE "idle")
        /\ DOMAIN work'[q] = Sources
        /\ "pc" \in DOMAIN work'[q][s]
  BY <1>1, IdleHasPlace DEF LockInv, Shape
<1>5. \A s \in Sources : commit[r] # s
  BY DEF StartRun, LockInv, AtRest, Running, Resting, LockHeldWhileCommitting, Holds
<1>6. \A q \in Runs :
        run'[q] = IF q = r THEN [phase |-> "running", chosen |-> chosen, feeding |-> TRUE] ELSE run[q]
  BY <1>1 DEF LockInv, Shape
<1>7. Shape'
  <2>1. DOMAIN run' = Runs BY <1>1 DEF LockInv, Shape
  <2>2. \A q \in Runs : {"phase", "chosen", "feeding"} \subseteq DOMAIN run'[q]
    BY <1>6 DEF LockInv, Shape
  <2>3. \A q \in Runs : DOMAIN work'[q] = Sources /\ \A s \in Sources : "pc" \in DOMAIN work'[q][s]
    BY <1>1, <1>4, IdleHasPlace DEF LockInv, Shape
  <2> QED BY <1>2, <1>3, <2>1, <2>2, <2>3 DEF LockInv, Shape
<1>8. \A q \in Runs : q # r => (Running(q)' <=> Running(q)) /\ run'[q].chosen = run[q].chosen
  BY <1>6 DEF Running
<1>9. ChosenOnly'
  <2> SUFFICES ASSUME NEW q \in Runs, NEW s \in Sources, s \notin run'[q].chosen
               PROVE  work'[q][s].pc = "idle"
    BY DEF ChosenOnly
  <2>1. CASE q = r BY <1>4, <1>6, <2>1
  <2>2. CASE q # r BY <1>4, <1>8, <2>2 DEF LockInv, ChosenOnly
  <2> QED BY <2>1, <2>2
<1>10. AtRest'
  <2> SUFFICES ASSUME NEW q \in Runs, ~Running(q)', NEW s \in Sources
               PROVE  work'[q][s].pc \in Resting
    BY DEF AtRest
  <2>1. CASE q = r BY <1>4, <2>1 DEF Resting
  <2>2. CASE q # r BY <1>4, <1>8, <2>2 DEF LockInv, AtRest
  <2> QED BY <2>1, <2>2
<1>11. LockHeldWhileCommitting'
  <2> SUFFICES ASSUME NEW q \in Runs, NEW s \in Sources
               PROVE  commit'[q] = s <=> work'[q][s].pc \in Committing
    BY DEF LockHeldWhileCommitting, Holds, Committing
  <2>1. CASE q = r BY <1>2, <1>4, <1>5, <2>1 DEF Committing
  <2>2. CASE q # r BY <1>2, <1>4, <2>2, LockByPlace
  <2> QED BY <2>1, <2>2
<1> QED BY <1>7, <1>9, <1>10, <1>11 DEF LockInv

\* A step that changes no work, no lock and no choice keeps the locks, if a run
\* it ends is at rest.
LEMMA WorkUntouched ==
  ASSUME LockInv, work' = work, commit' = commit,
         DOMAIN run' = Runs,
         \A r \in Runs : {"phase", "chosen", "feeding"} \subseteq DOMAIN run'[r],
         \A r \in Runs : run'[r].chosen = run[r].chosen,
         \A r \in Runs : ~Running(r)' => \A s \in Sources : work[r][s].pc \in Resting
  PROVE  LockInv'
BY DEF LockInv, Shape, ChosenOnly, AtRest, LockHeldWhileCommitting, Holds

LEMMA NothingTouched ==
  ASSUME LockInv, UNCHANGED <<run, work, commit>>
  PROVE  LockInv'
BY DEF LockInv, Shape, ChosenOnly, AtRest, Running, LockHeldWhileCommitting, Holds

LEMMA EndKeepsLock ==
  ASSUME LockInv, NEW r \in Runs, StopFeeding(r) \/ FinalizeRun(r)
  PROVE  LockInv'
<1>1. CASE StopFeeding(r)
  <2>1. /\ run' = [run EXCEPT ![r] = [run[r] EXCEPT !.feeding = FALSE]]
        /\ work' = work /\ commit' = commit
    BY <1>1 DEF StopFeeding
  <2>2. /\ [run[r] EXCEPT !.feeding = FALSE].phase = run[r].phase
        /\ [run[r] EXCEPT !.feeding = FALSE].chosen = run[r].chosen
        /\ DOMAIN [run[r] EXCEPT !.feeding = FALSE] = DOMAIN run[r]
    BY DEF LockInv, Shape
  <2>3. \A q \in Runs : run'[q].phase = run[q].phase /\ run'[q].chosen = run[q].chosen
                       /\ DOMAIN run'[q] = DOMAIN run[q]
    BY <2>1, <2>2 DEF LockInv, Shape
  <2>4. DOMAIN run' = Runs BY <2>1 DEF LockInv, Shape
  <2>5. \A q \in Runs : ~Running(q)' => \A s \in Sources : work[q][s].pc \in Resting
    BY <2>3 DEF LockInv, AtRest, Running
  <2>6. \A q \in Runs : {"phase", "chosen", "feeding"} \subseteq DOMAIN run'[q]
    BY <2>3 DEF LockInv, Shape
  <2> QED BY <2>1, <2>3, <2>4, <2>5, <2>6, WorkUntouched
<1>2. CASE FinalizeRun(r)
  <2> DEFINE ended == [run[r] EXCEPT !.phase = "done", !.feeding = FALSE]
  <2>1. run' = [run EXCEPT ![r] = ended] /\ work' = work /\ commit' = commit
    BY <1>2 DEF FinalizeRun
  <2>2. /\ ended.phase = "done"
        /\ ended.chosen = run[r].chosen
        /\ DOMAIN ended = DOMAIN run[r]
    BY DEF LockInv, Shape
  <2>3. \A q \in Runs : /\ q # r => run'[q].phase = run[q].phase
                       /\ run'[q].chosen = run[q].chosen
                       /\ DOMAIN run'[q] = DOMAIN run[q]
    BY <2>1, <2>2 DEF LockInv, Shape
  <2>4. DOMAIN run' = Runs BY <2>1 DEF LockInv, Shape
  <2>5. \A s \in Sources : work[r][s].pc \in Resting
    BY <1>2 DEF FinalizeRun, WorkersBack, LockInv, ChosenOnly, Resting
  <2>6. \A q \in Runs : ~Running(q)' => \A s \in Sources : work[q][s].pc \in Resting
    BY <2>3, <2>5 DEF LockInv, AtRest, Running
  <2>7. \A q \in Runs : {"phase", "chosen", "feeding"} \subseteq DOMAIN run'[q]
    BY <2>3 DEF LockInv, Shape
  <2> HIDE DEF ended
  <2> QED BY <2>1, <2>3, <2>4, <2>6, <2>7, WorkUntouched
<1> QED BY <1>1, <1>2

LEMMA CrashKeepsLock == ASSUME LockInv, Crash PROVE LockInv'
<1>1. /\ run' = [r \in Runs |-> IF Running(r)
                                THEN [run[r] EXCEPT !.phase = "crashed", !.feeding = FALSE] ELSE run[r]]
      /\ work' = [r \in Runs |-> [s \in Sources |-> IF Running(r) THEN Idle("idle") ELSE work[r][s]]]
      /\ commit' = [r \in Runs |-> NoSource]
  BY DEF Crash
<1>2. \A r \in Runs : /\ [run[r] EXCEPT !.phase = "crashed", !.feeding = FALSE].chosen = run[r].chosen
                     /\ DOMAIN [run[r] EXCEPT !.phase = "crashed", !.feeding = FALSE] = DOMAIN run[r]
  BY DEF LockInv, Shape
<1>3. \A r \in Runs : run'[r].chosen = run[r].chosen /\ DOMAIN run'[r] = DOMAIN run[r]
  BY <1>1, <1>2
<1>4. \A r \in Runs, s \in Sources :
        /\ work'[r][s].pc \in Resting
        /\ work[r][s].pc = "idle" => work'[r][s].pc = "idle"
        /\ "pc" \in DOMAIN work'[r][s]
  <2> SUFFICES ASSUME NEW r \in Runs, NEW s \in Sources
               PROVE  /\ work'[r][s].pc \in Resting
                      /\ work[r][s].pc = "idle" => work'[r][s].pc = "idle"
                      /\ "pc" \in DOMAIN work'[r][s]
    OBVIOUS
  <2>1. CASE Running(r) BY <1>1, <2>1, IdleHasPlace DEF Resting
  <2>2. CASE ~Running(r) BY <1>1, <2>2 DEF LockInv, AtRest, Shape
  <2> QED BY <2>1, <2>2
<1>5. Shape' BY <1>1, <1>3, <1>4 DEF LockInv, Shape
<1>6. ChosenOnly' /\ AtRest' BY <1>3, <1>4 DEF LockInv, ChosenOnly, AtRest
<1>7. LockHeldWhileCommitting'
  BY <1>1, <1>4, InboxAssumption DEF LockHeldWhileCommitting, Holds, Resting
<1> QED BY <1>5, <1>6, <1>7 DEF LockInv

LEMMA StepKeepsLocks == LockInv /\ [Next]_vars => LockInv'
<1> SUFFICES ASSUME LockInv, [Next]_vars PROVE LockInv' OBVIOUS
<1>1. CASE \E r \in Runs : StartRun(r) \/ StopFeeding(r) \/ FinalizeRun(r)
  BY <1>1, StartKeepsLock, EndKeepsLock
<1>2. CASE \E r \in Runs : BeginRollback(r)
  BY <1>2, NothingTouched DEF BeginRollback
<1>3. CASE \E r \in Runs, s \in Sources : SourceStep(r, s)
  BY <1>3, SourceKeepsLock
<1>4. CASE RollbackStep
  BY <1>4, NothingTouched DEF RollbackStep, PassItem, NextItem, RestoreNote, RestoreSource, FinishRollback, FailRollback
<1>5. CASE Crash BY <1>5, CrashKeepsLock
<1>6. CASE UNCHANGED vars BY <1>6, NothingTouched DEF vars
<1> QED BY <1>1, <1>2, <1>3, <1>4, <1>5, <1>6 DEF Next

\* The commit mutex of a run is held exactly while one of its sources is between
\* the check of its destinations and its last manifest update, whatever fails,
\* crashes or is rolled back (processInboxSource, inbox_merge.go:277-356).
THEOREM LockAlwaysHeldWhileCommitting == Spec => []LockHeldWhileCommitting
<1>1. LockInv => LockHeldWhileCommitting BY DEF LockInv
<1> QED BY InitLocks, StepKeepsLocks, <1>1, PTL DEF Spec

\* No two sources of a run are committed at once: the check of the destinations
\* of one and the writes of another never interleave.
THEOREM OneCommitAtATime ==
  Spec => [](\A r \in Runs : \A s, t \in Sources :
               work[r][s].pc \in Committing /\ work[r][t].pc \in Committing => s = t)
<1>1. LockInv => \A r \in Runs : \A s, t \in Sources :
        work[r][s].pc \in Committing /\ work[r][t].pc \in Committing => s = t
  BY LockByPlace
<1> QED BY InitLocks, StepKeepsLocks, <1>1, PTL DEF Spec

\* A set of naturals has a least element.
LEMMA LeastNatural ==
  ASSUME NEW S, S \subseteq Nat, S # {}
  PROVE  \E m \in S : \A y \in S : m <= y
<1> DEFINE Below == {0..x : x \in S}
<1>1. Below # {} OBVIOUS
<1>2. Below \subseteq FiniteSubsetsOf(Nat)
  <2> SUFFICES ASSUME NEW x \in S PROVE 0..x \in FiniteSubsetsOf(Nat) OBVIOUS
  <2> QED BY FS_Interval DEF FiniteSubsetsOf
<1>3. PICK B \in Below : \A C \in Below : ~(<<C, B>> \in StrictSubsetOrdering(Nat))
  <2> HIDE DEF Below
  <2>1. IsWellFoundedOn(StrictSubsetOrdering(Nat), FiniteSubsetsOf(Nat))
    BY FS_StrictSubsetOrderingWellFounded
  <2> QED BY <1>1, <1>2, <2>1, WFMin
<1>4. PICK m \in S : B = 0..m OBVIOUS
<1>5. ASSUME NEW y \in S, y < m PROVE FALSE
  <2>1. 0..y \in SUBSET Nat /\ 0..m \in SUBSET Nat OBVIOUS
  <2>2. 0..y \subseteq 0..m /\ m \in 0..m /\ m \notin 0..y BY <1>5
  <2>3. ~(<<0..y, 0..m>> \in StrictSubsetOrdering(Nat)) BY <1>3, <1>4
  <2>4. ~(0..y \subseteq 0..m /\ 0..y # 0..m) BY <2>1, <2>3 DEF StrictSubsetOrdering
  <2> QED BY <2>2, <2>4
<1> QED BY <1>5

\* uniquePath finds a name, and one that is not taken.
LEMMA UniqueNameIsFree ==
  ASSUME NEW T \in SUBSET Nat, IsFiniteSet(T)
  PROVE  UniqueName(T) \in Nat \ T
<1> DEFINE c == Cardinality(T)
<1> DEFINE open == {n \in 1 .. c + 1 : n \notin T}
<1>1. c \in Nat BY FS_CardinalityType
<1>2. IsFiniteSet(1 .. c + 1) /\ Cardinality(1 .. c + 1) = c + 1 BY <1>1, FS_Interval
<1>3. ~(1 .. c + 1 \subseteq T)
  <2> SUFFICES ASSUME 1 .. c + 1 \subseteq T PROVE FALSE OBVIOUS
  <2>1. Cardinality(1 .. c + 1) <= c BY FS_Subset
  <2> QED BY <1>1, <1>2, <2>1
<1>4. open # {} /\ open \subseteq Nat BY <1>1, <1>3
<1>5. PICK n \in open : \A m \in open : n <= m BY <1>4, LeastNatural
<1>6. n \in 1 .. c + 1 /\ n \notin T /\ \A m \in 1 .. n - 1 : m \in T BY <1>1, <1>5
<1>7. UniqueName(T) \in 1 .. c + 1 /\ UniqueName(T) \notin T BY <1>6 DEF UniqueName
<1> QED BY <1>1, <1>7

\* What the actions do to texts, items and manifests.
LEMMA TextsOfSome == ASSUME NEW D \in SUBSET Dests, NEW f \in [D -> Content] PROVE f \in Texts
BY DEF Texts

LEMMA TextsKnown ==
  ASSUME NEW f \in Texts
  PROVE  DOMAIN f \subseteq Dests /\ \A d \in DOMAIN f : f[d] \in Content
BY DEF Texts

LEMMA NoTexts == NoNotes \in Texts /\ DOMAIN NoNotes = {}
<1>1. NoNotes \in [{} -> Content] BY DEF NoNotes
<1> QED BY <1>1, TextsOfSome DEF NoNotes

LEMMA IdleIsWork ==
  ASSUME NEW pc \in Places, NEW result \in Results
  PROVE  /\ Idle(pc) \in Work /\ Idle(pc).left = {}
         /\ [Idle(pc) EXCEPT !.result = result] \in Work
         /\ [Idle(pc) EXCEPT !.result = result].left = {}
BY NoTexts DEF Idle, Work, Results

LEMMA ExchangeTyped ==
  ASSUME NEW m \in Manifest
  PROVE  /\ WithExchange(m) \in Manifest
         /\ WithExchange(m).items = m.items /\ WithExchange(m).restored = m.restored
BY DEF WithExchange, Manifest, Statuses

LEMMA ItemTyped ==
  ASSUME NEW m \in Manifest, NEW s \in Sources, NEW status \in Results, NEW before \in Texts
  PROVE  /\ WithItem(m, s, status, before) \in Manifest
         /\ WithItem(m, s, status, before).items =
              Append(m.items, [source |-> s, status |-> status, path |-> 0, before |-> before])
         /\ WithItem(m, s, status, before).restored = m.restored
<1> DEFINE i == [source |-> s, status |-> status, path |-> 0, before |-> before]
<1>1. i \in Item BY DEF Item
<1>2. m.items \in Seq(Item) BY DEF Manifest
<1>3. Append(m.items, i) \in Seq(Item) BY <1>1, <1>2
<1> HIDE DEF i
<1>4. [m EXCEPT !.status = "running", !.items = Append(@, i)] \in Manifest
  BY <1>3 DEF Manifest, Statuses
<1>5. /\ [m EXCEPT !.status = "running", !.items = Append(@, i)].items = Append(m.items, i)
      /\ [m EXCEPT !.status = "running", !.items = Append(@, i)].restored = m.restored
  BY DEF Manifest
<1> QED BY <1>4, <1>5 DEF WithItem, i

LEMMA PathTyped ==
  ASSUME NEW m \in Manifest, NEW s \in Sources, NEW n \in Nat
  PROVE  /\ WithPath(m, s, n) \in Manifest
         /\ DOMAIN WithPath(m, s, n).items = DOMAIN m.items
         /\ \A i \in DOMAIN m.items :
              /\ WithPath(m, s, n).items[i].source = m.items[i].source
              /\ WithPath(m, s, n).items[i].status = m.items[i].status
              /\ WithPath(m, s, n).items[i].before = m.items[i].before
         /\ WithPath(m, s, n).restored = m.restored
<1> DEFINE items == [i \in DOMAIN m.items |->
        IF m.items[i].source = s /\ \A j \in 1 .. i - 1 : m.items[j].source # s
        THEN [m.items[i] EXCEPT !.path = n]
        ELSE m.items[i]]
<1>1. m.items \in Seq(Item) BY DEF Manifest
<1>2. \A i \in DOMAIN m.items : m.items[i] \in Item BY <1>1
<1>3. \A x \in Item : /\ [x EXCEPT !.path = n] \in Item
                      /\ [x EXCEPT !.path = n].source = x.source
                      /\ [x EXCEPT !.path = n].status = x.status
                      /\ [x EXCEPT !.path = n].before = x.before
  BY DEF Item
<1>4. \A i \in DOMAIN m.items : items[i] \in Item BY <1>2, <1>3
<1>5. items \in Seq(Item)
  <2>1. DOMAIN m.items = 1 .. Len(m.items) /\ Len(m.items) \in Nat BY <1>1
  <2>2. items \in [1 .. Len(m.items) -> Item] BY <1>4, <2>1
  <2> QED BY <2>1, <2>2
<1>6. \A i \in DOMAIN m.items : /\ items[i].source = m.items[i].source
                                /\ items[i].status = m.items[i].status
                                /\ items[i].before = m.items[i].before
  BY <1>2, <1>3
<1>7. DOMAIN items = DOMAIN m.items OBVIOUS
<1>8. WithPath(m, s, n) = [m EXCEPT !.items = items] BY DEF WithPath
<1> HIDE DEF items
<1>9. /\ [m EXCEPT !.items = items] \in Manifest /\ [m EXCEPT !.items = items].items = items
      /\ [m EXCEPT !.items = items].restored = m.restored
  BY <1>5 DEF Manifest
<1> QED BY <1>6, <1>7, <1>8, <1>9

LEMMA FailedTyped ==
  ASSUME NEW m \in Manifest, NEW s \in Sources
  PROVE  /\ WithFailed(m, s) \in Manifest
         /\ WithFailed(m, s).restored = m.restored
BY ItemTyped, NoTexts DEF WithFailed, Results

LEMMA DropTyped ==
  ASSUME NEW S, NEW items \in Seq(S), items # <<>>
  PROVE  /\ DropLast(items) \in Seq(S)
         /\ Len(items) \in Nat \ {0}
         /\ Len(DropLast(items)) = Len(items) - 1
         /\ \A i \in 1 .. Len(items) - 1 : DropLast(items)[i] = items[i]
         /\ items[Len(items)] \in S
<1>1. Len(items) \in Nat \ {0} BY EmptySeq
<1>2. \A i \in 1 .. Len(items) : items[i] \in S BY ElementOfSeq
<1>3. \A i \in 1 .. Len(items) - 1 : items[i] \in S BY <1>1, <1>2
<1>4. Len(items) - 1 \in Int BY <1>1
<1> DEFINE n == Len(items)
<1>5. n - 1 \in Nat /\ n \in 1 .. n BY <1>1
<1>6. /\ SubSeq(items, 1, n - 1) \in Seq(S)
      /\ Len(SubSeq(items, 1, n - 1)) = IF 1 <= n - 1 THEN n - 1 - 1 + 1 ELSE 0
      /\ \A i \in 1 .. n - 1 - 1 + 1 : SubSeq(items, 1, n - 1)[i] = items[1 + i - 1]
  BY <1>3, <1>4, SubSeqProperties
<1>7. DropLast(items) = SubSeq(items, 1, n - 1) BY DEF DropLast
<1>8. items[n] \in S BY <1>2, <1>5
<1> HIDE DEF n
<1>9. Len(DropLast(items)) = n - 1 BY <1>5, <1>6, <1>7
<1>10. \A i \in 1 .. n - 1 : DropLast(items)[i] = items[i]
  <2> SUFFICES ASSUME NEW i \in 1 .. n - 1 PROVE DropLast(items)[i] = items[i] OBVIOUS
  <2>1. i \in 1 .. n - 1 - 1 + 1 /\ 1 + i - 1 = i BY <1>5
  <2> QED BY <1>6, <1>7, <2>1
<1> QED BY <1>1, <1>6, <1>7, <1>8, <1>9, <1>10 DEF n

LEMMA NotesTyped ==
  ASSUME NEW items \in Seq(Item)
  PROVE  /\ NotesOfLast(items) \in SUBSET Dests
         /\ NotesOfLast(items) # {} =>
              /\ items # <<>> /\ items[Len(items)].status = "processed"
              /\ NotesOfLast(items) = DOMAIN items[Len(items)].before
<1>1. CASE items = <<>> BY <1>1 DEF NotesOfLast
<1>2. CASE items # <<>>
  <2>1. items[Len(items)] \in Item BY <1>2, DropTyped
  <2>2. DOMAIN items[Len(items)].before \subseteq Dests BY <2>1, TextsKnown DEF Item
  <2> QED BY <1>2, <2>2 DEF NotesOfLast
<1> QED BY <1>1, <1>2

FitsWork(w) ==
  /\ w.left \subseteq DOMAIN w.final
  /\ w.pc \notin {"archiving", "writing"} => w.left = {}

\* What is still to be written, by a worker or by the rollback, is text it has.
Fits ==
  /\ \A r \in Runs, s \in Sources : FitsWork(work[r][s])
  /\ rollback.left # {} =>
       /\ rollback.items # <<>> /\ LastItem.status = "processed"
       /\ rollback.left \subseteq DOMAIN LastItem.before

TypeInv == LockInv /\ TypeOK /\ (\A s \in Sources : IsFiniteSet(moved[s])) /\ Fits

LEMMA WorkTyped ==
  ASSUME TypeInv, NEW r \in Runs, NEW s \in Sources, NEW v \in Work, FitsWork(v),
         work' = [work EXCEPT ![r][s] = v]
  PROVE  /\ work' \in [Runs -> [Sources -> Work]]
         /\ \A q \in Runs, t \in Sources : FitsWork(work'[q][t])
         /\ \A q \in Runs, t \in Sources : work'[q][t] = IF q = r /\ t = s THEN v ELSE work[q][t]
<1>1. work \in [Runs -> [Sources -> Work]] BY DEF TypeInv, TypeOK
<1>2. \A q \in Runs, t \in Sources : work'[q][t] = IF q = r /\ t = s THEN v ELSE work[q][t]
  BY <1>1
<1>3. work' \in [Runs -> [Sources -> Work]] BY <1>1
<1>4. \A q \in Runs, t \in Sources : FitsWork(work[q][t]) BY DEF TypeInv, Fits
<1> QED BY <1>2, <1>3, <1>4

LEMMA FaultTyped ==
  ASSUME TypeOK, Fault
  PROVE  /\ history' = [history EXCEPT !.faults = history.faults + 1]
         /\ history' \in History
         /\ history'.raced = history.raced
<1>1. history' = [history EXCEPT !.faults = history.faults + 1] BY DEF Fault
<1>2. history \in History /\ history.faults + 1 \in Nat BY DEF TypeOK, History
<1>3. \A n \in Nat : [history EXCEPT !.faults = n] \in History /\ [history EXCEPT !.faults = n].raced = history.raced
  BY <1>2 DEF History
<1> QED BY <1>1, <1>2, <1>3

\* The part of TypeInv that a step of a source can disturb.
SourceTypes ==
  /\ note \in [Dests -> Content]
  /\ inbox \subseteq Sources
  /\ moved \in [Sources -> SUBSET Nat]
  /\ \A s \in Sources : IsFiniteSet(moved[s])
  /\ manifest \in [Runs -> Manifest]
  /\ work \in [Runs -> [Sources -> Work]]
  /\ \A r \in Runs, s \in Sources : FitsWork(work[r][s])
  /\ history \in History

LEMMA TypedNow == TypeInv => SourceTypes
BY DEF TypeInv, TypeOK, Fits, SourceTypes

LEMMA SourceStepTyped ==
  ASSUME TypeInv, NEW r \in Runs, NEW s \in Sources, SourceStep(r, s)
  PROVE  SourceTypes'
<1> USE TypedNow
<1> DEFINE w == work[r][s]
<1>0. /\ w \in Work /\ FitsWork(w) /\ manifest[r] \in Manifest
      /\ DOMAIN w.final \subseteq Dests /\ DOMAIN w.before \subseteq Dests
      /\ \A d \in DOMAIN w.final : w.final[d] \in Content
  <2>1. w \in Work /\ FitsWork(w) /\ manifest[r] \in Manifest BY DEF SourceTypes
  <2>2. w.final \in Texts /\ w.before \in Texts BY <2>1 DEF Work
  <2> QED BY <2>1, <2>2, TextsKnown
<1>1. CASE TakeSource(r, s)
  <2> DEFINE v == IF HasDuplicate(s) THEN Idle("duplicate") ELSE [Idle("asking") EXCEPT !.seen = note]
  <2>1. work' = [work EXCEPT ![r][s] = v] /\ UNCHANGED <<note, inbox, moved, manifest, history>>
    BY <1>1 DEF TakeSource
  <2>2. note \in Texts BY TextsOfSome DEF SourceTypes
  <2>3. Idle("duplicate") \in Work /\ Idle("duplicate").left = {} BY IdleIsWork DEF Places, Results
  <2>4. [Idle("asking") EXCEPT !.seen = note] \in Work /\ [Idle("asking") EXCEPT !.seen = note].left = {}
    BY <2>2, NoTexts DEF Idle, Work, Places, Results
  <2>5. v \in Work /\ FitsWork(v) BY <2>3, <2>4 DEF FitsWork
  <2> HIDE DEF v
  <2> QED BY <2>1, <2>5, WorkTyped DEF SourceTypes
<1>2. CASE AskModel(r, s)
  <2>0. PICK chosen \in SUBSET Dests : \E final \in [chosen -> Content] :
          work' = [work EXCEPT ![r][s] = [w EXCEPT !.pc = "deciding", !.final = final]]
    BY <1>2 DEF AskModel
  <2>1. PICK final \in [chosen -> Content] :
          work' = [work EXCEPT ![r][s] = [w EXCEPT !.pc = "deciding", !.final = final]]
    BY <2>0
  <2>2. /\ manifest' = [manifest EXCEPT ![r] = WithExchange(manifest[r])]
        /\ UNCHANGED <<note, inbox, moved, history>> /\ w.pc = "asking"
    BY <1>2 DEF AskModel
  <2> DEFINE v == [w EXCEPT !.pc = "deciding", !.final = final]
  <2>3. final \in Texts BY TextsOfSome
  <2>4. v \in Work /\ v.left = w.left BY <1>0, <2>3 DEF Work, Places
  <2>5. w.left = {} BY <1>0, <2>2 DEF FitsWork
  <2>6. FitsWork(v) BY <2>4, <2>5 DEF FitsWork
  <2>7. manifest' \in [Runs -> Manifest] BY <1>0, <2>2, ExchangeTyped DEF SourceTypes
  <2>8. work' = [work EXCEPT ![r][s] = v] BY <2>1
  <2> HIDE DEF v
  <2> QED BY <2>2, <2>4, <2>6, <2>7, <2>8, WorkTyped DEF SourceTypes
<1>3. CASE LeavePending(r, s)
  <2> DEFINE v == [Idle("done") EXCEPT !.result = "pending"]
  <2>1. /\ work' = [work EXCEPT ![r][s] = v] /\ UNCHANGED <<note, inbox, moved, history>>
        /\ manifest' = [manifest EXCEPT ![r] = WithItem(manifest[r], s, "pending", NoNotes)]
    BY <1>3 DEF LeavePending
  <2>2. v \in Work /\ v.left = {} BY IdleIsWork DEF Places, Results
  <2>3. FitsWork(v) BY <2>2 DEF FitsWork
  <2>4. manifest' \in [Runs -> Manifest] BY <1>0, <2>1, ItemTyped, NoTexts DEF SourceTypes, Results
  <2> HIDE DEF v
  <2> QED BY <2>1, <2>2, <2>3, <2>4, WorkTyped DEF SourceTypes
<1>4. CASE Materialize(r, s)
  <2> DEFINE changed == {d \in DOMAIN w.final : w.final[d] # note[d]}
             before == [d \in changed |-> note[d]]
             final == [d \in changed |-> w.final[d]]
             v == [w EXCEPT !.pc = "archiving", !.seen = NoNotes, !.left = changed,
                            !.before = before, !.final = final]
  <2>1. work' = [work EXCEPT ![r][s] = v] /\ UNCHANGED <<note, inbox, moved, manifest, history>>
    BY <1>4 DEF Materialize
  <2>2. changed \in SUBSET Dests BY <1>0
  <2>3. before \in [changed -> Content] BY <2>2 DEF SourceTypes
  <2>4. final \in [changed -> Content] BY <1>0
  <2>5. before \in Texts /\ final \in Texts /\ DOMAIN final = changed BY <2>2, <2>3, <2>4, TextsOfSome
  <2> HIDE DEF changed, before, final
  <2>6. /\ v \in Work /\ v.left = changed /\ v.final = final /\ v.pc = "archiving"
    BY <1>0, <2>2, <2>5, NoTexts DEF Work, Places
  <2>7. FitsWork(v) BY <2>5, <2>6 DEF FitsWork
  <2> HIDE DEF v
  <2> QED BY <2>1, <2>6, <2>7, WorkTyped DEF SourceTypes
<1>5. CASE TakeDuplicate(r, s)
  <2> DEFINE v == [w EXCEPT !.pc = "archiving"]
  <2>1. /\ work' = [work EXCEPT ![r][s] = v] /\ UNCHANGED <<note, inbox, moved, manifest, history>>
        /\ w.pc = "duplicate"
    BY <1>5 DEF TakeDuplicate
  <2>2. v \in Work /\ v.left = w.left /\ v.final = w.final BY <1>0 DEF Work, Places
  <2>3. FitsWork(v) BY <1>0, <2>1, <2>2 DEF FitsWork
  <2> HIDE DEF v
  <2> QED BY <2>1, <2>2, <2>3, WorkTyped DEF SourceTypes
<1>6. CASE ArchiveItem(r, s)
  <2> DEFINE v == [w EXCEPT !.pc = "writing"]
  <2>1. /\ work' = [work EXCEPT ![r][s] = v] /\ UNCHANGED <<note, inbox, moved, history>>
        /\ manifest' = [manifest EXCEPT ![r] = WithItem(manifest[r], s, "processed", w.before)]
    BY <1>6 DEF ArchiveItem
  <2>2. v \in Work /\ v.left = w.left /\ v.final = w.final /\ v.pc = "writing" BY <1>0 DEF Work, Places
  <2>3. FitsWork(v) BY <1>0, <2>2 DEF FitsWork
  <2>4. w.before \in Texts BY <1>0 DEF Work
  <2>5. manifest' \in [Runs -> Manifest] BY <1>0, <2>1, <2>4, ItemTyped DEF SourceTypes, Results
  <2> HIDE DEF v
  <2> QED BY <2>1, <2>2, <2>3, <2>5, WorkTyped DEF SourceTypes
<1>7. CASE WriteNote(r, s)
  <2>1. PICK d \in w.left : /\ note' = [note EXCEPT ![d] = w.final[d]]
                            /\ work' = [work EXCEPT ![r][s] = [w EXCEPT !.left = w.left \ {d}]]
    BY <1>7 DEF WriteNote
  <2> DEFINE v == [w EXCEPT !.left = w.left \ {d}]
  <2>2. UNCHANGED <<inbox, moved, manifest, history>> BY <1>7 DEF WriteNote
  <2>3. v \in Work /\ v.left = w.left \ {d} /\ v.final = w.final /\ v.pc = w.pc BY <1>0 DEF Work
  <2>4. FitsWork(v) BY <1>0, <2>3 DEF FitsWork
  <2>5. w.final[d] \in Content BY <1>0, <2>1 DEF FitsWork
  <2>6. note' \in [Dests -> Content] BY <2>1, <2>5 DEF SourceTypes
  <2>7. work' = [work EXCEPT ![r][s] = v] BY <2>1
  <2> HIDE DEF v
  <2> QED BY <2>2, <2>3, <2>4, <2>6, <2>7, WorkTyped DEF SourceTypes
<1>8. CASE MoveSource(r, s)
  <2> DEFINE n == UniqueName(moved[s])
             v == [w EXCEPT !.pc = "recording", !.path = n]
  <2>1. /\ inbox' = inbox \ {s} /\ moved' = [moved EXCEPT ![s] = moved[s] \cup {n}]
        /\ work' = [work EXCEPT ![r][s] = v] /\ UNCHANGED <<note, manifest, history>>
        /\ w.left = {}
    BY <1>8 DEF MoveSource
  <2>2. moved[s] \in SUBSET Nat /\ IsFiniteSet(moved[s]) BY DEF SourceTypes
  <2>3. n \in Nat BY <2>2, UniqueNameIsFree
  <2> HIDE DEF n
  <2>4. v \in Work /\ v.left = w.left /\ v.final = w.final BY <1>0, <2>3 DEF Work, Places
  <2>5. FitsWork(v) BY <2>1, <2>4 DEF FitsWork
  <2>6. moved' \in [Sources -> SUBSET Nat] BY <2>1, <2>2, <2>3 DEF SourceTypes
  <2>7. \A t \in Sources : IsFiniteSet(moved'[t]) BY <2>1, <2>2, FS_AddElement DEF SourceTypes
  <2> HIDE DEF v
  <2> QED BY <2>1, <2>4, <2>5, <2>6, <2>7, WorkTyped DEF SourceTypes
<1>9. CASE RecordPath(r, s)
  <2> DEFINE v == [Idle("done") EXCEPT !.result = "processed"]
  <2>1. /\ work' = [work EXCEPT ![r][s] = v] /\ UNCHANGED <<note, inbox, moved, history>>
        /\ manifest' = [manifest EXCEPT ![r] = WithPath(manifest[r], s, w.path)]
    BY <1>9 DEF RecordPath
  <2>2. v \in Work /\ v.left = {} BY IdleIsWork DEF Places, Results
  <2>3. FitsWork(v) BY <2>2 DEF FitsWork
  <2>4. w.path \in Nat BY <1>0 DEF Work
  <2>5. manifest' \in [Runs -> Manifest] BY <1>0, <2>1, <2>4, PathTyped DEF SourceTypes
  <2> HIDE DEF v
  <2> QED BY <2>1, <2>2, <2>3, <2>5, WorkTyped DEF SourceTypes
<1>10. CASE FailSource(r, s) \/ SourceGone(r, s)
  <2>1. EndFailed(r, s) /\ (Fault \/ UNCHANGED history)
    BY <1>10 DEF FailSource, SourceGone
  <2>2. manifest' = manifest \/ manifest' = [manifest EXCEPT ![r] = WithFailed(manifest[r], s)]
    BY <1>10 DEF FailSource, SourceGone
  <2>3. work' = [work EXCEPT ![r][s] = Idle("done")] /\ UNCHANGED <<note, inbox, moved>>
    BY <2>1 DEF EndFailed
  <2>4. Idle("done") \in Work /\ Idle("done").left = {} BY IdleIsWork DEF Places, Results
  <2>5. FitsWork(Idle("done")) BY <2>4 DEF FitsWork
  <2>6. manifest' \in [Runs -> Manifest] BY <1>0, <2>2, FailedTyped DEF SourceTypes
  <2>7. history' \in History
    BY <2>1, FaultTyped DEF SourceTypes, TypeInv
  <2> QED BY <2>3, <2>4, <2>5, <2>6, <2>7, WorkTyped DEF SourceTypes
<1> QED
  BY <1>1, <1>2, <1>3, <1>4, <1>5, <1>6, <1>7, <1>8, <1>9, <1>10 DEF SourceStep

LEMMA RollbackTyped ==
  ASSUME TypeOK
  PROVE  /\ rollback \in Rollback /\ rollback.read \in Seq(Item) /\ rollback.items \in Seq(Item)
         /\ NoRollback \in Rollback
         /\ \A left \in SUBSET Dests :
              LET b == [rollback EXCEPT !.left = left]
              IN  /\ b \in Rollback /\ b.run = rollback.run /\ b.read = rollback.read
                  /\ b.items = rollback.items /\ b.left = left
<1>1. rollback \in Rollback BY DEF TypeOK
<1>2. <<>> \in Seq(Item) BY EmptySeq
<1>3. NoRollback \in Rollback BY <1>2 DEF NoRollback, Rollback
<1> QED BY <1>1, <1>3 DEF Rollback

\* The rollback goes to the item before.
LEMMA NextItemTyped ==
  ASSUME TypeOK, rollback.items # <<>>, NextItem
  PROVE  /\ rollback' \in Rollback
         /\ rollback'.run = rollback.run /\ rollback'.read = rollback.read
         /\ rollback'.items = DropLast(rollback.items)
         /\ rollback'.left # {} =>
              /\ rollback'.items # <<>> /\ rollback'.items[Len(rollback'.items)].status = "processed"
              /\ rollback'.left \subseteq DOMAIN rollback'.items[Len(rollback'.items)].before
<1> DEFINE items == DropLast(rollback.items)
           left == NotesOfLast(items)
<1>1. rollback' = [rollback EXCEPT !.items = items, !.left = left] BY DEF NextItem
<1>2. items \in Seq(Item) BY RollbackTyped, DropTyped
<1> HIDE DEF items
<1>3. /\ left \in SUBSET Dests
      /\ left # {} => /\ items # <<>> /\ items[Len(items)].status = "processed"
                      /\ left \subseteq DOMAIN items[Len(items)].before
  BY <1>2, NotesTyped
<1> HIDE DEF left
<1>4. /\ rollback' \in Rollback /\ rollback'.run = rollback.run /\ rollback'.read = rollback.read
      /\ rollback'.items = items /\ rollback'.left = left
  <2>1. rollback \in Rollback BY RollbackTyped
  <2> QED BY <1>1, <1>2, <1>3, <2>1 DEF Rollback
<1> QED BY <1>3, <1>4 DEF items

LEMMA LastItemTyped ==
  ASSUME TypeOK, rollback.items # <<>>
  PROVE  /\ LastItem \in Item /\ LastItem.source \in Sources /\ LastItem.path \in Nat
         /\ DOMAIN LastItem.before \subseteq Dests
         /\ \A d \in DOMAIN LastItem.before : LastItem.before[d] \in Content
<1>1. rollback.items \in Seq(Item) BY RollbackTyped
<1>2. LastItem \in Item BY <1>1, DropTyped DEF LastItem
<1>3. LastItem.before \in Texts BY <1>2 DEF Item
<1> QED BY <1>2, <1>3, TextsKnown DEF Item

\* A step that changes no work keeps what is still to be written.
LEMMA TypesKept ==
  ASSUME TypeInv, LockInv', TypeOK', work' = work,
         \A s \in Sources : IsFiniteSet(moved'[s]),
         rollback' = rollback \/ rollback'.left = {}
  PROVE  TypeInv'
<1>1. LastItem' = LastItem \/ rollback'.left = {} BY DEF LastItem
<1>2. Fits' BY <1>1 DEF TypeInv, Fits
<1> QED BY <1>2 DEF TypeInv

LEMMA RunStatusTyped == ASSUME NEW results PROVE RunStatus(results) \in Statuses
BY DEF RunStatus, Statuses

LEMMA StartTyped == ASSUME TypeInv, LockInv', NEW r \in Runs, StartRun(r) PROVE TypeInv'
<1>1. PICK chosen \in (SUBSET inbox) \ {{}} :
        /\ run' = [run EXCEPT ![r] = [phase |-> "running", chosen |-> chosen, feeding |-> TRUE]]
        /\ work' = [work EXCEPT ![r] = [s \in Sources |-> Idle(IF s \in chosen THEN "queued" ELSE "idle")]]
  BY DEF StartRun
<1>2. /\ history' = [history EXCEPT !.overlaps = Overlaps(Quiet), !.done = Append(history.done, r),
                                    !.first = [history.first EXCEPT ![r] = note]]
      /\ UNCHANGED <<note, inbox, moved, manifest, commit, rollback>>
  BY DEF StartRun
<1>3. run' \in [Runs -> Run]
  <2>1. [phase |-> "running", chosen |-> chosen, feeding |-> TRUE] \in Run BY DEF TypeInv, TypeOK, Run
  <2> QED BY <1>1, <2>1 DEF TypeInv, TypeOK
<1>4. work' \in [Runs -> [Sources -> Work]] /\ \A q \in Runs, s \in Sources : FitsWork(work'[q][s])
  <2> DEFINE fresh == [s \in Sources |-> Idle(IF s \in chosen THEN "queued" ELSE "idle")]
  <2>1. \A s \in Sources : fresh[s] \in Work /\ fresh[s].left = {} BY IdleIsWork DEF Places, Results
  <2>2. fresh \in [Sources -> Work] BY <2>1
  <2>3. \A s \in Sources : FitsWork(fresh[s]) BY <2>1 DEF FitsWork
  <2>4. work' = [work EXCEPT ![r] = fresh] BY <1>1
  <2> HIDE DEF fresh
  <2> QED BY <2>2, <2>3, <2>4 DEF TypeInv, TypeOK, Fits
<1>5. history' \in History
  <2>1. history \in History BY DEF TypeInv, TypeOK
  <2>2. history.overlaps \in Nat /\ history.done \in Seq(Runs) /\ history.first \in [Runs -> [Dests -> Content]]
    BY <2>1 DEF History
  <2>3. Overlaps(Quiet) \in Nat BY <2>2 DEF Overlaps
  <2>4. Append(history.done, r) \in Seq(Runs) BY <2>2
  <2>5. [history.first EXCEPT ![r] = note] \in [Runs -> [Dests -> Content]] BY <2>2 DEF TypeInv, TypeOK
  <2>6. \A n \in Nat, d \in Seq(Runs), f \in [Runs -> [Dests -> Content]] :
          [history EXCEPT !.overlaps = n, !.done = d, !.first = f] \in History
    BY <2>1 DEF History
  <2> QED BY <1>2, <2>3, <2>4, <2>5, <2>6
<1>6. TypeOK'
  BY <1>2, <1>3, <1>4, <1>5 DEF TypeInv, TypeOK
<1>7. Fits'
  <2>1. LastItem' = LastItem BY <1>2 DEF LastItem
  <2> QED BY <1>2, <1>4, <2>1 DEF TypeInv, Fits
<1> QED BY <1>2, <1>6, <1>7 DEF TypeInv

LEMMA EndTyped ==
  ASSUME TypeInv, LockInv', NEW r \in Runs, StopFeeding(r) \/ FinalizeRun(r)
  PROVE  TypeInv'
<1>1. run[r] \in Run /\ manifest[r] \in Manifest /\ history \in History BY DEF TypeInv, TypeOK
<1>2. CASE StopFeeding(r)
  <2>1. /\ run' = [run EXCEPT ![r] = [run[r] EXCEPT !.feeding = FALSE]]
        /\ UNCHANGED <<note, inbox, moved, manifest, work, commit, rollback, history>>
    BY <1>2 DEF StopFeeding
  <2>2. [run[r] EXCEPT !.feeding = FALSE] \in Run BY <1>1 DEF Run
  <2>3. TypeOK' BY <2>1, <2>2 DEF TypeInv, TypeOK
  <2> QED BY <2>1, <2>3, TypesKept DEF TypeInv
<1>3. CASE FinalizeRun(r)
  <2>1. /\ run' = [run EXCEPT ![r] = [run[r] EXCEPT !.phase = "done", !.feeding = FALSE]]
        /\ UNCHANGED <<note, inbox, moved, work, commit, rollback>>
        /\ (manifest' = Finalized(r) /\ history' = history) \/ (manifest' = manifest /\ Fault)
    BY <1>3 DEF FinalizeRun
  <2>2. [run[r] EXCEPT !.phase = "done", !.feeding = FALSE] \in Run BY <1>1 DEF Run
  <2>3. Finalized(r) \in [Runs -> Manifest]
    <3> DEFINE status == RunStatus({work[r][s].result : s \in run[r].chosen})
    <3>1. Finalized(r) = [manifest EXCEPT ![r] = [manifest[r] EXCEPT !.status = status]] BY DEF Finalized
    <3>2. status \in Statuses BY RunStatusTyped
    <3> HIDE DEF status
    <3>3. [manifest[r] EXCEPT !.status = status] \in Manifest BY <1>1, <3>2 DEF Manifest
    <3> QED BY <3>1, <3>3 DEF TypeInv, TypeOK
  <2>4. history' \in History BY <1>1, <2>1, FaultTyped DEF TypeInv
  <2>5. TypeOK' BY <2>1, <2>2, <2>3, <2>4 DEF TypeInv, TypeOK
  <2> QED BY <2>1, <2>5, TypesKept DEF TypeInv
<1> QED BY <1>2, <1>3

LEMMA CrashTyped == ASSUME TypeInv, LockInv', Crash PROVE TypeInv'
<1>1. /\ run' = [r \in Runs |-> IF Running(r)
                                THEN [run[r] EXCEPT !.phase = "crashed", !.feeding = FALSE] ELSE run[r]]
      /\ work' = [r \in Runs |-> [s \in Sources |-> IF Running(r) THEN Idle("idle") ELSE work[r][s]]]
      /\ commit' = [r \in Runs |-> NoSource] /\ rollback' = NoRollback
      /\ UNCHANGED <<note, inbox, moved, manifest>> /\ Fault
  BY DEF Crash
<1>2. run' \in [Runs -> Run]
  <2>1. \A r \in Runs : run[r] \in Run BY DEF TypeInv, TypeOK
  <2>2. \A r \in Runs : [run[r] EXCEPT !.phase = "crashed", !.feeding = FALSE] \in Run BY <2>1 DEF Run
  <2> QED BY <1>1, <2>1, <2>2
<1>3. Idle("idle") \in Work /\ FitsWork(Idle("idle")) BY IdleIsWork DEF Places, Results, FitsWork
<1>4. work' \in [Runs -> [Sources -> Work]] BY <1>1, <1>3 DEF TypeInv, TypeOK
<1>5. \A r \in Runs, s \in Sources : FitsWork(work'[r][s]) BY <1>1, <1>3 DEF TypeInv, Fits
<1>6. rollback' \in Rollback /\ rollback'.left = {} BY <1>1, RollbackTyped DEF TypeInv, NoRollback
<1>7. history' \in History BY <1>1, FaultTyped DEF TypeInv
<1>8. TypeOK' BY <1>1, <1>2, <1>4, <1>6, <1>7 DEF TypeInv, TypeOK
<1>9. Fits' BY <1>5, <1>6 DEF Fits
<1> QED BY <1>1, <1>8, <1>9 DEF TypeInv

LEMMA BeginTyped ==
  ASSUME TypeInv, LockInv', NEW r \in Runs, BeginRollback(r)
  PROVE  /\ TypeInv'
         /\ rollback'.run = r /\ rollback'.read = manifest[r].items /\ rollback'.items = manifest[r].items
         /\ history'.raced = IF Running(r) THEN history.raced \cup {r} ELSE history.raced
<1> DEFINE items == manifest[r].items
           left == NotesOfLast(items)
<1>1. /\ rollback' = [NoRollback EXCEPT !.run = r, !.read = items, !.items = items, !.left = left]
      /\ history' = [history EXCEPT !.overlaps = Overlaps(Quiet /\ r = Top),
                                    !.tried = history.tried \cup {r},
                                    !.raced = IF Running(r) THEN history.raced \cup {r} ELSE history.raced]
      /\ UNCHANGED <<note, inbox, moved, manifest, run, work, commit>>
  BY DEF BeginRollback
<1>2. items \in Seq(Item) BY DEF TypeInv, TypeOK, Manifest
<1> HIDE DEF items
<1>3. /\ left \in SUBSET Dests
      /\ left # {} => /\ items # <<>> /\ items[Len(items)].status = "processed"
                      /\ left \subseteq DOMAIN items[Len(items)].before
  BY <1>2, NotesTyped
<1> HIDE DEF left
<1>4. /\ rollback' \in Rollback /\ rollback'.run = r
      /\ rollback'.read = items /\ rollback'.items = items /\ rollback'.left = left
  <2>1. NoRollback \in Rollback BY RollbackTyped DEF TypeInv
  <2> QED BY <1>1, <1>2, <1>3, <2>1 DEF Rollback
<1>5. history' \in History /\ history'.raced = IF Running(r) THEN history.raced \cup {r} ELSE history.raced
  <2>1. history \in History BY DEF TypeInv, TypeOK
  <2>2. history.overlaps \in Nat /\ history.tried \in SUBSET Runs /\ history.raced \in SUBSET Runs
    BY <2>1 DEF History
  <2>3. Overlaps(Quiet /\ r = Top) \in Nat BY <2>2 DEF Overlaps
  <2>4. \A n \in Nat, t \in SUBSET Runs, c \in SUBSET Runs :
          /\ [history EXCEPT !.overlaps = n, !.tried = t, !.raced = c] \in History
          /\ [history EXCEPT !.overlaps = n, !.tried = t, !.raced = c].raced = c
    BY <2>1 DEF History
  <2> DEFINE n == Overlaps(Quiet /\ r = Top)
             tried == history.tried \cup {r}
             raced == IF Running(r) THEN history.raced \cup {r} ELSE history.raced
  <2>5. tried \in SUBSET Runs /\ raced \in SUBSET Runs BY <2>2
  <2>6. history' = [history EXCEPT !.overlaps = n, !.tried = tried, !.raced = raced] BY <1>1
  <2>7. n \in Nat BY <2>3
  <2>8. Running(r) => raced = history.raced \cup {r} OBVIOUS
  <2>9. ~Running(r) => raced = history.raced OBVIOUS
  <2> HIDE DEF n, tried, raced
  <2>10. history' \in History /\ history'.raced = raced BY <2>4, <2>5, <2>6, <2>7
  <2> QED BY <2>8, <2>9, <2>10
<1>6. TypeOK' BY <1>1, <1>4, <1>5 DEF TypeInv, TypeOK
<1>7. Fits'
  <2>1. LastItem' = items[Len(items)] BY <1>4 DEF LastItem
  <2> QED BY <1>1, <1>3, <1>4, <2>1 DEF TypeInv, Fits
<1> QED BY <1>1, <1>4, <1>5, <1>6, <1>7 DEF TypeInv, items

LEMMA RollbackStepTyped == ASSUME TypeInv, LockInv', RollbackStep PROVE TypeInv'
<1>0. TypeOK BY DEF TypeInv
<1>1. CASE PassItem
  <2>1. rollback.items # <<>> /\ NextItem
        /\ UNCHANGED <<note, inbox, moved, manifest, run, work, commit, history>>
    BY <1>1 DEF PassItem
  <2>2. rollback' \in Rollback BY <1>0, <2>1, NextItemTyped
  <2>3. TypeOK' BY <1>0, <2>1, <2>2 DEF TypeOK
  <2>4. Fits' BY <1>0, <2>1, NextItemTyped DEF TypeInv, Fits, LastItem
  <2> QED BY <2>1, <2>3, <2>4 DEF TypeInv
<1>2. CASE RestoreNote
  <2>1. PICK d \in rollback.left : /\ note' = [note EXCEPT ![d] = LastItem.before[d]]
                                  /\ rollback' = [rollback EXCEPT !.left = rollback.left \ {d}]
    BY <1>2 DEF RestoreNote
  <2>2. UNCHANGED <<inbox, moved, manifest, run, work, commit, history>> BY <1>2 DEF RestoreNote
  <2>3. rollback.items # <<>> /\ d \in DOMAIN LastItem.before /\ LastItem.status = "processed"
    BY <2>1 DEF TypeInv, Fits
  <2>4. note' \in [Dests -> Content] BY <1>0, <2>1, <2>3, LastItemTyped DEF TypeOK
  <2>5. rollback.left \ {d} \in SUBSET Dests BY <1>0 DEF TypeOK, Rollback
  <2>6. /\ rollback' \in Rollback /\ rollback'.items = rollback.items
        /\ rollback'.left = rollback.left \ {d}
    BY <1>0, <2>1, <2>5, RollbackTyped
  <2>7. LastItem' = LastItem BY <2>6 DEF LastItem
  <2>8. TypeOK' BY <1>0, <2>2, <2>4, <2>6 DEF TypeOK
  <2>9. Fits' BY <2>1, <2>2, <2>3, <2>6, <2>7 DEF TypeInv, Fits
  <2> QED BY <2>2, <2>8, <2>9 DEF TypeInv
<1>3. CASE RestoreSource
  <2>1. rollback.items # <<>> /\ NextItem
        /\ inbox' = inbox \cup {LastItem.source}
        /\ moved' = [moved EXCEPT ![LastItem.source] = moved[LastItem.source] \ {LastItem.path}]
        /\ UNCHANGED <<note, manifest, run, work, commit, history>>
    BY <1>3 DEF RestoreSource
  <2>2. rollback' \in Rollback BY <1>0, <2>1, NextItemTyped
  <2>3. LastItem.source \in Sources BY <1>0, <2>1, LastItemTyped
  <2>4. moved' \in [Sources -> SUBSET Nat] BY <1>0, <2>1, <2>3 DEF TypeOK
  <2>5. \A s \in Sources : IsFiniteSet(moved'[s])
    BY <1>0, <2>1, <2>3, FS_RemoveElement DEF TypeInv, TypeOK
  <2>6. TypeOK' BY <1>0, <2>1, <2>2, <2>3, <2>4 DEF TypeOK
  <2>7. Fits' BY <1>0, <2>1, NextItemTyped DEF TypeInv, Fits, LastItem
  <2> QED BY <2>5, <2>6, <2>7 DEF TypeInv
<1>4. CASE FinishRollback
  <2> DEFINE m == [status |-> "restored", restored |-> TRUE, items |-> rollback.read]
             done == IF rollback.run = Top THEN DropLast(history.done) ELSE history.done
  <2>1. /\ rollback.run # NoRun
        /\ manifest' = [manifest EXCEPT ![rollback.run] = m]
        /\ rollback' = NoRollback
        /\ history' = [history EXCEPT !.done = done]
        /\ UNCHANGED <<note, inbox, moved, run, work, commit>>
    BY <1>4 DEF FinishRollback
  <2>2. rollback.run \in Runs /\ m \in Manifest
    BY <1>0, <2>1, RollbackTyped DEF TypeOK, Rollback, Manifest, Statuses
  <2>3. done \in Seq(Runs)
    <3>1. history.done \in Seq(Runs) BY <1>0 DEF TypeOK, History
    <3>2. CASE history.done = <<>> BY <2>1, <3>1, <3>2 DEF Top
    <3>3. CASE history.done # <<>> BY <3>1, <3>3, DropTyped
    <3> QED BY <3>2, <3>3
  <2> HIDE DEF m, done
  <2>4. history' \in History BY <1>0, <2>1, <2>3 DEF TypeOK, History
  <2>5. rollback' \in Rollback /\ rollback'.left = {} BY <1>0, <2>1, RollbackTyped DEF NoRollback
  <2>6. TypeOK' BY <1>0, <2>1, <2>2, <2>4, <2>5 DEF TypeOK
  <2> QED BY <2>1, <2>5, <2>6, TypesKept DEF TypeInv
<1>5. CASE FailRollback
  <2>1. /\ rollback' = NoRollback /\ Fault
        /\ UNCHANGED <<note, inbox, moved, manifest, run, work, commit>>
    BY <1>5 DEF FailRollback
  <2>2. rollback' \in Rollback /\ rollback'.left = {} BY <1>0, <2>1, RollbackTyped DEF NoRollback
  <2>3. TypeOK' BY <1>0, <2>1, <2>2, FaultTyped DEF TypeOK
  <2> QED BY <2>1, <2>2, <2>3, TypesKept DEF TypeInv
<1> QED BY <1>1, <1>2, <1>3, <1>4, <1>5 DEF RollbackStep

LEMMA SourceTyped ==
  ASSUME TypeInv, LockInv', NEW r \in Runs, NEW s \in Sources, SourceStep(r, s)
  PROVE  TypeInv'
<1>1. SourceTypes' BY SourceStepTyped
<1>2. UNCHANGED <<run, rollback>>
  BY DEF SourceStep, TakeSource, AskModel, LeavePending, Materialize, TakeDuplicate, ArchiveItem,
         WriteNote, MoveSource, RecordPath, FailSource, SourceGone, EndFailed
<1>3. TypeOK' BY <1>1, <1>2 DEF TypeInv, TypeOK, SourceTypes, LockInv, Shape
<1>4. LastItem' = LastItem BY <1>2 DEF LastItem
<1>5. Fits' BY <1>1, <1>2, <1>4 DEF TypeInv, Fits, SourceTypes
<1> QED BY <1>1, <1>3, <1>5 DEF TypeInv, SourceTypes

LEMMA StepKeepsTypes == TypeInv /\ [Next]_vars => TypeInv'
<1> SUFFICES ASSUME TypeInv, [Next]_vars PROVE TypeInv' OBVIOUS
<1>0. LockInv' BY StepKeepsLocks DEF TypeInv
<1>1. CASE \E r \in Runs : StartRun(r) \/ StopFeeding(r) \/ FinalizeRun(r) \/ BeginRollback(r)
  BY <1>0, <1>1, StartTyped, EndTyped, BeginTyped
<1>2. CASE \E r \in Runs, s \in Sources : SourceStep(r, s) BY <1>0, <1>2, SourceTyped
<1>3. CASE RollbackStep BY <1>0, <1>3, RollbackStepTyped
<1>4. CASE Crash BY <1>0, <1>4, CrashTyped
<1>5. CASE UNCHANGED vars
  <2>1. TypeOK' BY <1>5 DEF vars, TypeInv, TypeOK
  <2> QED BY <1>0, <1>5, <2>1, TypesKept DEF vars, TypeInv
<1> QED BY <1>1, <1>2, <1>3, <1>4, <1>5 DEF Next

LEMMA InitTypes == Init => TypeInv
<1> SUFFICES ASSUME Init PROVE TypeInv OBVIOUS
<1>1. note \in [Dests -> Content] BY DEF Init
<1>2. Idle("idle") \in Work /\ FitsWork(Idle("idle")) BY IdleIsWork DEF Places, Results, FitsWork
<1>3. work \in [Runs -> [Sources -> Work]] /\ \A r \in Runs, s \in Sources : FitsWork(work[r][s])
  BY <1>2 DEF Init
<1>4. \A S : <<>> \in Seq(S) BY EmptySeq
<1>5. manifest \in [Runs -> Manifest] BY <1>4 DEF Init, Manifest, Statuses
<1>6. history \in History BY <1>1, <1>4 DEF Init, History
<1>7. rollback \in Rollback /\ rollback.left = {} BY <1>4 DEF Init, NoRollback, Rollback
<1>8. TypeOK BY <1>1, <1>3, <1>5, <1>6, <1>7 DEF Init, TypeOK, Run
<1>9. \A s \in Sources : IsFiniteSet(moved[s]) BY FS_EmptySet DEF Init
<1> QED BY <1>3, <1>7, <1>8, <1>9, InitLocks DEF TypeInv, Fits

\* Whatever the runs, the rollbacks and the crashes do, the notes, manifests, calls
\* and the rollback hold what the code's structures can hold; the items of a
\* manifest stay items, and a path a free name (inbox_archive.go:22-50).
THEOREM InboxTypes == Spec => []TypeOK
<1>1. TypeInv => TypeOK BY DEF TypeInv
<1> QED BY InitTypes, StepKeepsTypes, <1>1, PTL DEF Spec

\* ------------------------------------------------------------ Recoverable
Kept(r, s) == ~manifest[r].restored /\ Applied(r, s)
Later == DOMAIN rollback.read \ DOMAIN rollback.items

\* A manifest is opened by a run that began; only those are rolled back.
Begun ==
  /\ \A r \in Runs : run[r].phase = "none" =>
       manifest[r].status = "none" /\ manifest[r].items = <<>> /\ ~manifest[r].restored
  /\ rollback.run # NoRun => run[rollback.run].phase # "none"

\* The rollback works on the manifest as it stands, and what it has undone lies in
\* the inbox again or was applied once more by another run.
RollbackOfManifest ==
  rollback.run # NoRun =>
    /\ ~Running(rollback.run)
    /\ rollback.read = manifest[rollback.run].items
    /\ \A i \in DOMAIN rollback.items : i \in DOMAIN rollback.read /\ rollback.items[i] = rollback.read[i]
    /\ \A i \in Later : rollback.read[i].status = "processed" =>
         \/ rollback.read[i].source \in inbox
         \/ \E q \in Runs \ {rollback.run} : Kept(q, rollback.read[i].source)

Undisturbed ==
  /\ \A r \in Runs : Running(r) => ~manifest[r].restored
  /\ \A r \in Runs, s \in Sources : work[r][s].pc \in {"writing", "recording"} => Applied(r, s)
  /\ \A s \in Sources : s \in inbox \/ \E r \in Runs : Kept(r, s)
  /\ RollbackOfManifest

RecInv == TypeInv /\ Begun /\ (history.raced = {} => Undisturbed)

\* A step outside the rollback: manifests of runs at work gain items, and what
\* leaves the inbox is an item of such a run.
LEMMA RecFrame ==
  ASSUME RecInv, TypeInv',
         history'.raced = history.raced,
         \/ rollback'.run = NoRun
         \/ /\ rollback'.run = rollback.run /\ rollback'.read = rollback.read
            /\ rollback'.items = rollback.items,
         \A q \in Runs : manifest'[q].restored = manifest[q].restored,
         \A q \in Runs : ~Running(q) => manifest'[q] = manifest[q],
         \A q \in Runs, t \in Sources : Applied(q, t) => Applied(q, t)',
         \A q \in Runs : Running(q)' => Running(q) \/ run[q].phase = "none",
         \A q \in Runs : run'[q].phase = "none" => run[q].phase = "none",
         \A q \in Runs, t \in Sources : work'[q][t].pc \in {"writing", "recording"} =>
           work[q][t].pc \in {"writing", "recording"} \/ Applied(q, t)',
         history.raced = {} =>
           \A t \in inbox : t \in inbox' \/ \E q \in Runs : Running(q) /\ Applied(q, t)
  PROVE  RecInv'
<1>1. rollback.run # NoRun => rollback.run \in Runs
  BY DEF RecInv, TypeInv, TypeOK, Rollback
<1>2. Begun'
  <2>1. \A q \in Runs : run'[q].phase = "none" => ~Running(q) /\ manifest'[q] = manifest[q]
    BY DEF Running
  <2> QED BY <1>1, <2>1 DEF RecInv, Begun
<1>3. SUFFICES ASSUME history'.raced = {} PROVE Undisturbed'
  BY <1>2 DEF RecInv
<1>4. Undisturbed BY <1>3 DEF RecInv
<1>5. \A q \in Runs, t \in Sources : Kept(q, t) => Kept(q, t)'
  BY DEF Kept
<1>6. \A q \in Runs, t \in Sources : Running(q) /\ Applied(q, t) => Kept(q, t)'
  BY <1>4 DEF Kept, Undisturbed
<1>7. \A r \in Runs : Running(r)' => ~manifest'[r].restored
  BY <1>4 DEF Undisturbed, RecInv, Begun
<1>8. \A r \in Runs, s \in Sources : work'[r][s].pc \in {"writing", "recording"} => Applied(r, s)'
  BY <1>4 DEF Undisturbed
<1>9. \A s \in Sources : s \in inbox' \/ \E r \in Runs : Kept(r, s)'
  BY <1>3, <1>4, <1>5, <1>6 DEF Undisturbed
<1>10. RollbackOfManifest'
  <2> SUFFICES ASSUME rollback'.run # NoRun PROVE RollbackOfManifest' BY DEF RollbackOfManifest
  <2>1. /\ rollback'.run = rollback.run /\ rollback'.read = rollback.read
        /\ rollback'.items = rollback.items /\ rollback.run # NoRun /\ rollback.run \in Runs
    BY <1>1
  <2>2. ~Running(rollback.run) /\ run[rollback.run].phase # "none"
    BY <1>4, <2>1 DEF Undisturbed, RollbackOfManifest, RecInv, Begun
  <2>3. ~Running(rollback.run)' BY <2>1, <2>2
  <2>4. manifest'[rollback.run] = manifest[rollback.run] BY <2>1, <2>2
  <2>5. \A i \in Later : rollback.read[i].source \in Sources
    <3>1. rollback.read \in Seq(Item) BY RollbackTyped DEF RecInv, TypeInv
    <3>2. \A i \in DOMAIN rollback.read : rollback.read[i] \in Item
      BY <3>1, LenProperties, ElementOfSeq
    <3> QED BY <3>2 DEF Later, Item
  <2>6. ASSUME NEW i \in Later, rollback.read[i].status = "processed"
        PROVE  \/ rollback.read[i].source \in inbox'
               \/ \E q \in Runs \ {rollback.run} : Kept(q, rollback.read[i].source)'
    <3> DEFINE t == rollback.read[i].source
    <3>1. t \in inbox \/ \E q \in Runs \ {rollback.run} : Kept(q, t)
      BY <1>4, <2>1, <2>6 DEF Undisturbed, RollbackOfManifest
    <3>2. t \in Sources BY <2>5, <2>6
    <3> HIDE DEF t
    <3>3. CASE t \in inbox BY <1>3, <1>6, <2>2, <3>2, <3>3 DEF t
    <3>4. CASE \E q \in Runs \ {rollback.run} : Kept(q, t) BY <1>5, <3>2, <3>4 DEF t
    <3> QED BY <3>1, <3>3, <3>4
  <2>7. Later' = Later BY <2>1 DEF Later
  <2> QED BY <1>4, <2>1, <2>3, <2>4, <2>6, <2>7 DEF Undisturbed, RollbackOfManifest, Later
<1> QED BY <1>7, <1>8, <1>9, <1>10 DEF Undisturbed

LEMMA ItemsApplied ==
  ASSUME NEW m \in Manifest, NEW s \in Sources, NEW status \in Results, NEW before \in Texts
  PROVE  LET items == WithItem(m, s, status, before).items
         IN  /\ \A i \in DOMAIN m.items : i \in DOMAIN items /\ items[i] = m.items[i]
             /\ \E i \in DOMAIN items : items[i].source = s /\ items[i].status = status
             /\ \A i \in DOMAIN items \ DOMAIN m.items :
                  items[i].source = s /\ items[i].status = status
<1> DEFINE x == [source |-> s, status |-> status, path |-> 0, before |-> before]
<1>1. WithItem(m, s, status, before).items = Append(m.items, x) BY ItemTyped
<1>2. x.source = s /\ x.status = status /\ x \in Item BY DEF Item
<1>3. m.items \in Seq(Item) BY DEF Manifest
<1> HIDE DEF x
<1>4. /\ \A i \in DOMAIN m.items : i \in DOMAIN Append(m.items, x) /\ Append(m.items, x)[i] = m.items[i]
      /\ DOMAIN Append(m.items, x) = DOMAIN m.items \cup {Len(m.items) + 1}
      /\ Append(m.items, x)[Len(m.items) + 1] = x
  BY <1>2, <1>3
<1> QED BY <1>1, <1>2, <1>4

\* What a step of one source does to the manifest of its run: no applied item
\* goes, and the restored mark stays.
AppliedKept(m, n) ==
  /\ n.restored = m.restored
  /\ \A t \in Sources :
       (\E i \in DOMAIN m.items : m.items[i].source = t /\ m.items[i].status = "processed")
       => \E i \in DOMAIN n.items : n.items[i].source = t /\ n.items[i].status = "processed"

LEMMA ManifestSteps ==
  ASSUME NEW m \in Manifest, NEW s \in Sources
  PROVE  /\ AppliedKept(m, m)
         /\ AppliedKept(m, WithExchange(m))
         /\ \A n \in Nat : AppliedKept(m, WithPath(m, s, n))
         /\ \A status \in Results, before \in Texts : AppliedKept(m, WithItem(m, s, status, before))
         /\ AppliedKept(m, WithFailed(m, s))
<1>1. AppliedKept(m, m) BY DEF AppliedKept
<1>2. AppliedKept(m, WithExchange(m)) BY ExchangeTyped DEF AppliedKept
<1>3. ASSUME NEW n \in Nat PROVE AppliedKept(m, WithPath(m, s, n)) BY PathTyped DEF AppliedKept
<1>4. ASSUME NEW status \in Results, NEW before \in Texts
      PROVE  AppliedKept(m, WithItem(m, s, status, before))
  <2> DEFINE n == WithItem(m, s, status, before)
  <2>1. \A i \in DOMAIN m.items : i \in DOMAIN n.items /\ n.items[i] = m.items[i] BY ItemsApplied
  <2>2. n.restored = m.restored BY ItemTyped
  <2> HIDE DEF n
  <2>3. AppliedKept(m, n) BY <2>1, <2>2 DEF AppliedKept
  <2> QED BY <2>3 DEF n
<1>5. AppliedKept(m, WithFailed(m, s))
  BY <1>1, <1>4, NoTexts DEF WithFailed, Results
<1> QED BY <1>1, <1>2, <1>3, <1>4, <1>5

LEMMA RecSource ==
  ASSUME RecInv, TypeInv', NEW r \in Runs, NEW s \in Sources, SourceStep(r, s)
  PROVE  RecInv'
<1> DEFINE w == work[r][s]
<1>0. /\ w \in Work /\ manifest[r] \in Manifest /\ manifest \in [Runs -> Manifest]
      /\ w.before \in Texts /\ w.path \in Nat
  BY DEF RecInv, TypeInv, TypeOK, Work
<1>1. Running(r)
  BY DEF SourceStep, TakeSource, AskModel, LeavePending, Materialize, TakeDuplicate, ArchiveItem,
         WriteNote, MoveSource, RecordPath, FailSource, SourceGone
<1>2. run' = run /\ rollback' = rollback
  BY DEF SourceStep, TakeSource, AskModel, LeavePending, Materialize, TakeDuplicate, ArchiveItem,
         WriteNote, MoveSource, RecordPath, FailSource, SourceGone, EndFailed
<1>3. history'.raced = history.raced
  <2>1. UNCHANGED history \/ Fault
    BY DEF SourceStep, TakeSource, AskModel, LeavePending, Materialize, TakeDuplicate, ArchiveItem,
           WriteNote, MoveSource, RecordPath, FailSource, SourceGone
  <2> QED BY <2>1, FaultTyped DEF RecInv, TypeInv
<1>4. \E m : manifest' = [manifest EXCEPT ![r] = m] /\ AppliedKept(manifest[r], m)
  <2> DEFINE m == manifest[r]
  <2>1. \/ manifest' = manifest
        \/ manifest' = [manifest EXCEPT ![r] = WithExchange(m)]
        \/ manifest' = [manifest EXCEPT ![r] = WithItem(m, s, "pending", NoNotes)]
        \/ manifest' = [manifest EXCEPT ![r] = WithItem(m, s, "processed", w.before)]
        \/ manifest' = [manifest EXCEPT ![r] = WithPath(m, s, w.path)]
        \/ manifest' = [manifest EXCEPT ![r] = WithFailed(m, s)]
    BY DEF SourceStep, TakeSource, AskModel, LeavePending, Materialize, TakeDuplicate, ArchiveItem,
           WriteNote, MoveSource, RecordPath, FailSource, SourceGone
  <2>2. manifest = [manifest EXCEPT ![r] = m] BY <1>0
  <2>3. "pending" \in Results /\ "processed" \in Results BY DEF Results
  <2> QED BY <1>0, <2>1, <2>2, <2>3, ManifestSteps, NoTexts
<1>5. PICK m : manifest' = [manifest EXCEPT ![r] = m] /\ AppliedKept(manifest[r], m) BY <1>4
<1>6. \A q \in Runs : manifest'[q] = IF q = r THEN m ELSE manifest[q] BY <1>0, <1>5
<1>7. \A q \in Runs, t \in Sources : Applied(q, t) => Applied(q, t)'
  BY <1>5, <1>6 DEF Applied, AppliedKept
<1>8. \A q \in Runs : manifest'[q].restored = manifest[q].restored
  BY <1>5, <1>6 DEF AppliedKept
<1>9. \A q \in Runs, t \in Sources : <<q, t>> # <<r, s>> => work'[q][t] = work[q][t]
  <2>1. work \in [Runs -> [Sources -> Work]] BY DEF RecInv, TypeInv, TypeOK
  <2>2. \E v : work' = [work EXCEPT ![r][s] = v]
    BY DEF SourceStep, TakeSource, AskModel, LeavePending, Materialize, TakeDuplicate, ArchiveItem,
           WriteNote, MoveSource, RecordPath, FailSource, SourceGone, EndFailed
  <2> QED BY <2>1, <2>2
<1>10. work'[r][s].pc \in {"writing", "recording"} =>
         w.pc \in {"writing", "recording"} \/ Applied(r, s)'
  <2>0. \A v : work' = [work EXCEPT ![r][s] = v] => work'[r][s] = v
    BY DEF RecInv, TypeInv, TypeOK
  <2>1. CASE ArchiveItem(r, s)
    <3>1. manifest'[r] = WithItem(manifest[r], s, "processed", w.before)
      BY <1>0, <2>1 DEF ArchiveItem
    <3>2. "processed" \in Results BY DEF Results
    <3>3. \E i \in DOMAIN manifest'[r].items :
            manifest'[r].items[i].source = s /\ manifest'[r].items[i].status = "processed"
      BY <1>0, <3>1, <3>2, ItemsApplied
    <3> QED BY <3>3 DEF Applied
  <2>2. CASE WriteNote(r, s) \/ MoveSource(r, s) BY <2>2 DEF WriteNote, MoveSource
  <2>3. CASE TakeSource(r, s)
    <3>1. work'[r][s] = IF HasDuplicate(s) THEN Idle("duplicate") ELSE [Idle("asking") EXCEPT !.seen = note]
      BY <2>0, <2>3 DEF TakeSource
    <3> QED BY <3>1 DEF Idle
  <2>4. CASE AskModel(r, s)
    <3>1. PICK final : work' = [work EXCEPT ![r][s] = [w EXCEPT !.pc = "deciding", !.final = final]]
      BY <2>4 DEF AskModel
    <3>2. work'[r][s] = [w EXCEPT !.pc = "deciding", !.final = final] BY <2>0, <3>1
    <3> QED BY <1>0, <3>2 DEF Work
  <2>5. CASE Materialize(r, s)
    <3>1. PICK left, before, final :
            work' = [work EXCEPT ![r][s] = [w EXCEPT !.pc = "archiving", !.seen = NoNotes, !.left = left,
                                                     !.before = before, !.final = final]]
      BY <2>5 DEF Materialize
    <3>2. work'[r][s] = [w EXCEPT !.pc = "archiving", !.seen = NoNotes, !.left = left,
                                  !.before = before, !.final = final]
      BY <2>0, <3>1
    <3> QED BY <1>0, <3>2 DEF Work
  <2>6. CASE TakeDuplicate(r, s)
    <3>1. work'[r][s] = [w EXCEPT !.pc = "archiving"] BY <2>0, <2>6 DEF TakeDuplicate
    <3> QED BY <1>0, <3>1 DEF Work
  <2>7. CASE LeavePending(r, s) \/ RecordPath(r, s)
    <3>1. \E x : work'[r][s] = [Idle("done") EXCEPT !.result = x]
      BY <2>0, <2>7 DEF LeavePending, RecordPath
    <3> QED BY <3>1, PendingHasPlace
  <2>8. CASE FailSource(r, s) \/ SourceGone(r, s)
    <3>1. work'[r][s] = Idle("done") BY <2>0, <2>8 DEF FailSource, SourceGone, EndFailed
    <3> QED BY <3>1, IdleHasPlace
  <2> QED BY <2>1, <2>2, <2>3, <2>4, <2>5, <2>6, <2>7, <2>8 DEF SourceStep
<1>11. history.raced = {} =>
         \A t \in inbox : t \in inbox' \/ \E q \in Runs : Running(q) /\ Applied(q, t)
  <2>1. CASE MoveSource(r, s) BY <1>1, <2>1 DEF MoveSource, RecInv, Undisturbed
  <2>2. CASE ~MoveSource(r, s)
    BY <2>2 DEF SourceStep, TakeSource, AskModel, LeavePending, Materialize, TakeDuplicate, ArchiveItem,
           WriteNote, RecordPath, FailSource, SourceGone, EndFailed
  <2> QED BY <2>1, <2>2
<1> QED BY <1>1, <1>2, <1>3, <1>6, <1>7, <1>8, <1>9, <1>10, <1>11, RecFrame DEF Running

LEMMA RecRuns ==
  ASSUME RecInv, TypeInv', NEW r \in Runs, StartRun(r) \/ StopFeeding(r) \/ FinalizeRun(r)
  PROVE  RecInv'
<1>0. /\ run \in [Runs -> Run] /\ manifest \in [Runs -> Manifest] /\ history \in History
      /\ work \in [Runs -> [Sources -> Work]]
  BY DEF RecInv, TypeInv, TypeOK
<1>1. CASE StartRun(r)
  <2>1. PICK chosen :
          /\ run' = [run EXCEPT ![r] = [phase |-> "running", chosen |-> chosen, feeding |-> TRUE]]
          /\ work' = [work EXCEPT ![r] = [s \in Sources |-> Idle(IF s \in chosen THEN "queued" ELSE "idle")]]
    BY <1>1 DEF StartRun
  <2>2. UNCHANGED <<inbox, manifest, rollback>> /\ run[r].phase = "none" BY <1>1 DEF StartRun
  <2>3. history'.raced = history.raced BY <1>0, <1>1 DEF StartRun, History
  <2>4. \A q \in Runs, t \in Sources :
          work'[q][t].pc \in {"writing", "recording"} => work[q][t].pc \in {"writing", "recording"}
    BY <1>0, <2>1, IdleHasPlace
  <2>5. \A q \in Runs : /\ q # r => run'[q] = run[q]
                        /\ q = r => run'[q].phase = "running"
    BY <1>0, <2>1
  <2>6. \A q \in Runs, t \in Sources : Applied(q, t)' <=> Applied(q, t) BY <2>2 DEF Applied
  <2>7. \A q \in Runs : Running(q)' => Running(q) \/ run[q].phase = "none" BY <2>2, <2>5 DEF Running
  <2>8. \A q \in Runs : run'[q].phase = "none" => run[q].phase = "none" BY <2>5
  <2> QED BY <2>2, <2>3, <2>4, <2>6, <2>7, <2>8, RecFrame
<1>2. CASE StopFeeding(r) \/ FinalizeRun(r)
  <2>1. /\ Running(r) /\ UNCHANGED <<inbox, work, rollback>>
        /\ run' = [run EXCEPT ![r] = [run[r] EXCEPT !.feeding = FALSE]]
           \/ run' = [run EXCEPT ![r] = [run[r] EXCEPT !.phase = "done", !.feeding = FALSE]]
    BY <1>2 DEF StopFeeding, FinalizeRun
  <2>2. \A q \in Runs : /\ Running(q)' => Running(q)
                        /\ run'[q].phase = "none" => run[q].phase = "none"
    <3>1. run[r] \in Run BY <1>0
    <3>2. /\ [run[r] EXCEPT !.feeding = FALSE].phase = run[r].phase
          /\ [run[r] EXCEPT !.phase = "done", !.feeding = FALSE].phase = "done"
      BY <3>1 DEF Run
    <3>3. run'[r].phase = run[r].phase \/ run'[r].phase = "done" BY <1>0, <2>1, <3>2
    <3>4. \A q \in Runs : q # r => run'[q] = run[q] BY <1>0, <2>1
    <3> QED BY <3>3, <3>4 DEF Running
  <2>3. \E status : manifest' = [manifest EXCEPT ![r] = [manifest[r] EXCEPT !.status = status]]
    <3>1. CASE manifest' = manifest
      <4>1. manifest[r] = [manifest[r] EXCEPT !.status = manifest[r].status] BY <1>0 DEF Manifest
      <4>2. manifest' = [manifest EXCEPT ![r] = [manifest[r] EXCEPT !.status = manifest[r].status]]
        BY <1>0, <3>1, <4>1
      <4> QED BY <4>2
    <3>2. CASE manifest' = Finalized(r) BY <3>2 DEF Finalized
    <3> QED BY <1>2, <3>1, <3>2 DEF StopFeeding, FinalizeRun
  <2>4. PICK status : manifest' = [manifest EXCEPT ![r] = [manifest[r] EXCEPT !.status = status]] BY <2>3
  <2>5. /\ [manifest[r] EXCEPT !.status = status].items = manifest[r].items
        /\ [manifest[r] EXCEPT !.status = status].restored = manifest[r].restored
    BY <1>0 DEF Manifest
  <2>6. \A q \in Runs : /\ q # r => manifest'[q] = manifest[q]
                        /\ manifest'[q].items = manifest[q].items
                        /\ manifest'[q].restored = manifest[q].restored
    BY <1>0, <2>4, <2>5
  <2>7. history'.raced = history.raced
    BY <1>2, FaultTyped DEF StopFeeding, FinalizeRun, RecInv, TypeInv
  <2>8. \A q \in Runs, t \in Sources : Applied(q, t)' <=> Applied(q, t) BY <2>6 DEF Applied
  <2> QED BY <2>1, <2>2, <2>6, <2>7, <2>8, RecFrame
<1> QED BY <1>1, <1>2

LEMMA RecCrash == ASSUME RecInv, TypeInv', Crash PROVE RecInv'
<1>1. /\ run' = [r \in Runs |-> IF Running(r)
                                THEN [run[r] EXCEPT !.phase = "crashed", !.feeding = FALSE] ELSE run[r]]
      /\ work' = [r \in Runs |-> [s \in Sources |-> IF Running(r) THEN Idle("idle") ELSE work[r][s]]]
      /\ rollback' = NoRollback /\ UNCHANGED <<inbox, manifest>> /\ Fault
  BY DEF Crash
<1>2. \A r \in Runs : run[r] \in Run BY DEF RecInv, TypeInv, TypeOK
<1>3. \A r \in Runs : [run[r] EXCEPT !.phase = "crashed", !.feeding = FALSE].phase = "crashed"
  BY <1>2 DEF Run
<1>4. \A q \in Runs : /\ ~Running(q)'
                      /\ run'[q].phase = "none" => run[q].phase = "none"
  BY <1>1, <1>3 DEF Running
<1>5. \A q \in Runs, t \in Sources :
        work'[q][t].pc \in {"writing", "recording"} => work[q][t].pc \in {"writing", "recording"}
  BY <1>1, IdleHasPlace
<1>6. rollback'.run = NoRun BY <1>1 DEF NoRollback
<1>7. history'.raced = history.raced BY <1>1, FaultTyped DEF RecInv, TypeInv
<1>8. \A q \in Runs, t \in Sources : Applied(q, t)' <=> Applied(q, t) BY <1>1 DEF Applied
<1> QED BY <1>1, <1>4, <1>5, <1>6, <1>7, <1>8, RecFrame

\* A step of the rollback that touches neither manifests nor the inbox.
LEMMA RecAside ==
  ASSUME RecInv, TypeInv', UNCHANGED <<inbox, manifest, run, work>>,
         history'.raced = history.raced,
         \/ rollback'.run = NoRun
         \/ /\ rollback'.run = rollback.run /\ rollback'.read = rollback.read
            /\ rollback'.items = rollback.items
  PROVE  RecInv'
<1>1. \A q \in Runs, t \in Sources : Applied(q, t)' <=> Applied(q, t) BY DEF Applied
<1>2. \A q \in Runs : Running(q)' <=> Running(q) BY DEF Running
<1> QED BY <1>1, <1>2, RecFrame

LEMMA RecBegin == ASSUME RecInv, TypeInv', NEW r \in Runs, BeginRollback(r) PROVE RecInv'
<1>1. /\ rollback'.run = r /\ rollback'.read = manifest[r].items /\ rollback'.items = manifest[r].items
      /\ history'.raced = IF Running(r) THEN history.raced \cup {r} ELSE history.raced
  BY BeginTyped DEF RecInv, TypeInv
<1>2. UNCHANGED <<inbox, manifest, run, work>> /\ manifest[r].status # "none" BY DEF BeginRollback
<1>3. Begun' BY <1>1, <1>2 DEF RecInv, Begun
<1>4. SUFFICES ASSUME history'.raced = {} PROVE Undisturbed' BY <1>3 DEF RecInv
<1>5. history.raced = {} /\ ~Running(r) BY <1>1, <1>4
<1>6. Undisturbed BY <1>5 DEF RecInv
<1>7. RollbackOfManifest' BY <1>1, <1>2, <1>5 DEF RollbackOfManifest, Running, Later
<1>8. \A q \in Runs, t \in Sources : Applied(q, t)' <=> Applied(q, t) BY <1>2 DEF Applied
<1>9. \A q \in Runs, t \in Sources : Kept(q, t)' <=> Kept(q, t) BY <1>2, <1>8 DEF Kept
<1> QED BY <1>2, <1>6, <1>7, <1>8, <1>9 DEF Undisturbed, Running

\* The last item is passed over or undone: its source, if it was applied, lies in the inbox.
LEMMA RecItemDone ==
  ASSUME RecInv, TypeInv', rollback.items # <<>>, NextItem,
         UNCHANGED <<manifest, run, work, history>>,
         inbox \subseteq inbox', LastItem.status = "processed" => LastItem.source \in inbox'
  PROVE  RecInv'
<1>1. TypeOK BY DEF RecInv, TypeInv
<1>2. /\ rollback'.run = rollback.run /\ rollback'.read = rollback.read
      /\ rollback'.items = DropLast(rollback.items)
  BY <1>1, NextItemTyped
<1>3. /\ DropLast(rollback.items) \in Seq(Item) /\ Len(rollback.items) \in Nat \ {0}
      /\ Len(DropLast(rollback.items)) = Len(rollback.items) - 1
      /\ \A i \in 1 .. Len(rollback.items) - 1 : DropLast(rollback.items)[i] = rollback.items[i]
  BY <1>1, RollbackTyped, DropTyped
<1>4. DOMAIN rollback.items = 1 .. Len(rollback.items) BY <1>1, RollbackTyped, LenProperties
<1>5. DOMAIN rollback'.items = 1 .. Len(rollback.items) - 1 BY <1>2, <1>3, LenProperties
<1>6. Begun' BY <1>2 DEF RecInv, Begun
<1>7. SUFFICES ASSUME history.raced = {} PROVE Undisturbed' BY <1>6 DEF RecInv
<1>8. Undisturbed BY <1>7 DEF RecInv
<1>9. \A q \in Runs, t \in Sources : Applied(q, t)' <=> Applied(q, t) BY DEF Applied
<1>10. \A q \in Runs, t \in Sources : Kept(q, t)' <=> Kept(q, t) BY <1>9 DEF Kept
<1>11. RollbackOfManifest'
  <2> SUFFICES ASSUME rollback.run # NoRun PROVE RollbackOfManifest' BY <1>2 DEF RollbackOfManifest
  <2>1. RollbackOfManifest BY <1>8 DEF Undisturbed
  <2>2. ~Running(rollback.run)' BY <1>2, <2>1 DEF RollbackOfManifest, Running
  <2>3. \A i \in DOMAIN rollback'.items : i \in DOMAIN rollback.read /\ rollback'.items[i] = rollback.read[i]
    BY <1>2, <1>3, <1>4, <1>5, <2>1 DEF RollbackOfManifest
  <2>4. \A i \in DOMAIN rollback.read : rollback.read[i].source \in Sources
    <3>1. rollback.read \in Seq(Item) BY <1>1, RollbackTyped
    <3>2. \A i \in DOMAIN rollback.read : rollback.read[i] \in Item
      BY <3>1, LenProperties, ElementOfSeq
    <3> QED BY <3>2 DEF Item
  <2>5. ASSUME NEW i \in Later', rollback.read[i].status = "processed"
        PROVE  \/ rollback.read[i].source \in inbox'
               \/ \E q \in Runs \ {rollback.run} : Kept(q, rollback.read[i].source)
    <3>1. i \in Later \/ i = Len(rollback.items) BY <1>2, <1>3, <1>4, <1>5 DEF Later
    <3>2. CASE i \in Later BY <2>1, <2>5, <3>2 DEF RollbackOfManifest
    <3>3. CASE i = Len(rollback.items)
      <4>1. i \in DOMAIN rollback.items BY <1>3, <1>4, <3>3
      <4>2. LastItem = rollback.read[i] BY <2>1, <3>3, <4>1 DEF LastItem, RollbackOfManifest
      <4> QED BY <2>5, <4>2
    <3> QED BY <3>1, <3>2, <3>3
  <2>6. \A i \in Later' : i \in DOMAIN rollback.read BY <1>2 DEF Later
  <2> QED BY <1>2, <1>10, <2>1, <2>2, <2>3, <2>4, <2>5, <2>6 DEF RollbackOfManifest
<1> QED BY <1>8, <1>9, <1>10, <1>11 DEF Undisturbed, Running

LEMMA RecFinish == ASSUME RecInv, TypeInv', FinishRollback PROVE RecInv'
<1> DEFINE r == rollback.run
           m == [status |-> "restored", restored |-> TRUE, items |-> rollback.read]
<1>1. /\ r # NoRun /\ rollback.items = <<>>
      /\ manifest' = [manifest EXCEPT ![r] = m] /\ rollback' = NoRollback
      /\ UNCHANGED <<inbox, run, work>>
  BY DEF FinishRollback
<1>2. manifest \in [Runs -> Manifest] /\ r \in Runs /\ history \in History
  BY <1>1 DEF RecInv, TypeInv, TypeOK, Rollback
<1>3. history'.raced = history.raced
  BY <1>2 DEF FinishRollback, History
<1>4. rollback'.run = NoRun BY <1>1 DEF NoRollback
<1>5. /\ \A q \in Runs : q # r => manifest'[q] = manifest[q]
      /\ manifest'[r].items = rollback.read /\ manifest'[r].restored
  BY <1>1, <1>2
<1>6. run[r].phase # "none" BY <1>1 DEF RecInv, Begun
<1> HIDE DEF r, m
<1>7. Begun' BY <1>1, <1>4, <1>5, <1>6 DEF RecInv, Begun
<1>8. SUFFICES ASSUME history'.raced = {} PROVE Undisturbed' BY <1>7 DEF RecInv
<1>9. Undisturbed BY <1>3, <1>8 DEF RecInv
<1>10. /\ ~Running(r) /\ rollback.read = manifest[r].items
       /\ \A i \in DOMAIN rollback.read : rollback.read[i].status = "processed" =>
            \/ rollback.read[i].source \in inbox
            \/ \E q \in Runs \ {r} : Kept(q, rollback.read[i].source)
  <2>1. Later = DOMAIN rollback.read BY <1>1 DEF Later
  <2> QED BY <1>1, <1>9, <2>1 DEF Undisturbed, RollbackOfManifest, r
<1>11. \A q \in Runs : manifest'[q].items = manifest[q].items BY <1>5, <1>10
<1>12. \A q \in Runs, t \in Sources : Applied(q, t)' <=> Applied(q, t) BY <1>11 DEF Applied
<1>13. \A q \in Runs \ {r}, t \in Sources : Kept(q, t)' <=> Kept(q, t) BY <1>5, <1>12 DEF Kept
<1>14. \A s \in Sources : s \in inbox \/ \E q \in Runs : Kept(q, s)'
  <2> SUFFICES ASSUME NEW s \in Sources, s \notin inbox PROVE \E q \in Runs : Kept(q, s)' OBVIOUS
  <2>1. PICK q \in Runs : Kept(q, s) BY <1>9 DEF Undisturbed
  <2>2. CASE q # r BY <1>13, <2>1, <2>2
  <2>3. CASE q = r
    <3>1. \E i \in DOMAIN rollback.read :
            rollback.read[i].source = s /\ rollback.read[i].status = "processed"
      BY <1>10, <2>1, <2>3 DEF Kept, Applied
    <3> QED BY <1>10, <1>13, <3>1
  <2> QED BY <2>2, <2>3
<1>15. \A q \in Runs : Running(q)' => ~manifest'[q].restored
  BY <1>1, <1>5, <1>9, <1>10 DEF Running, Undisturbed
<1>16. RollbackOfManifest' BY <1>4 DEF RollbackOfManifest
<1> QED BY <1>1, <1>9, <1>12, <1>14, <1>15, <1>16 DEF Undisturbed

LEMMA RecRollback == ASSUME RecInv, TypeInv', RollbackStep PROVE RecInv'
<1>0. TypeOK BY DEF RecInv, TypeInv
<1>1. CASE PassItem BY <1>1, RecItemDone DEF PassItem
<1>2. CASE RestoreSource BY <1>2, RecItemDone DEF RestoreSource
<1>3. CASE RestoreNote
  <2>1. PICK d \in rollback.left : rollback' = [rollback EXCEPT !.left = rollback.left \ {d}]
    BY <1>3 DEF RestoreNote
  <2>2. /\ rollback'.run = rollback.run /\ rollback'.read = rollback.read
        /\ rollback'.items = rollback.items
    BY <1>0, <2>1 DEF TypeOK, Rollback
  <2> QED BY <1>3, <2>2, RecAside DEF RestoreNote
<1>4. CASE FinishRollback BY <1>4, RecFinish
<1>5. CASE FailRollback
  <2>1. rollback'.run = NoRun BY <1>5 DEF FailRollback, NoRollback
  <2>2. history'.raced = history.raced BY <1>0, <1>5, FaultTyped DEF FailRollback
  <2> QED BY <1>5, <2>1, <2>2, RecAside DEF FailRollback
<1> QED BY <1>1, <1>2, <1>3, <1>4, <1>5 DEF RollbackStep

LEMMA StepKeepsSources == RecInv /\ [Next]_vars => RecInv'
<1> SUFFICES ASSUME RecInv, [Next]_vars PROVE RecInv' OBVIOUS
<1>0. TypeInv' BY StepKeepsTypes DEF RecInv
<1>1. CASE \E r \in Runs : StartRun(r) \/ StopFeeding(r) \/ FinalizeRun(r) BY <1>0, <1>1, RecRuns
<1>2. CASE \E r \in Runs : BeginRollback(r) BY <1>0, <1>2, RecBegin
<1>3. CASE \E r \in Runs, s \in Sources : SourceStep(r, s) BY <1>0, <1>3, RecSource
<1>4. CASE RollbackStep BY <1>0, <1>4, RecRollback
<1>5. CASE Crash BY <1>0, <1>5, RecCrash
<1>6. CASE UNCHANGED vars BY <1>0, <1>6, RecAside DEF vars
<1> QED BY <1>1, <1>2, <1>3, <1>4, <1>5, <1>6 DEF Next

LEMMA InitSources == Init => RecInv
<1> SUFFICES ASSUME Init PROVE RecInv OBVIOUS
<1>1. \A r \in Runs, s \in Sources : work[r][s].pc = "idle" BY IdleHasPlace DEF Init
<1>2. rollback.run = NoRun BY DEF Init, NoRollback
<1>3. Begun BY <1>2 DEF Init, Begun
<1>4. Undisturbed BY <1>1, <1>2 DEF Init, Undisturbed, RollbackOfManifest, Running
<1> QED BY <1>3, <1>4, InitTypes DEF RecInv

\* Whatever runs, workers and rollbacks do to each other, whatever fails and
\* whenever the server dies: a source of the inbox lies there still, or a manifest
\* that is not marked restored lists it as applied, unless a run was rolled back
\* while it ran (rollbackInboxRun, inbox_archive.go:464-535).
THEOREM SourcesAlwaysRecoverable == Spec => []Recoverable
<1>1. RecInv => Recoverable BY DEF RecInv, Undisturbed, Recoverable, Kept
<1> QED BY InitSources, StepKeepsSources, <1>1, PTL DEF Spec

\* ------------------------------------------------------ jobs that do not overlap
\* While jobs do not overlap, only the newest run is at work or rolled back, and
\* not both; a rollback that ended has nothing left to do.
Alone ==
  /\ rollback.run = NoRun => rollback.left = {} /\ rollback.items = <<>>
  /\ Orderly =>
       /\ \A r \in Runs : Running(r) => r = Top /\ rollback.run = NoRun
       /\ rollback.run # NoRun => rollback.run = Top

LEMMA TopTyped ==
  ASSUME TypeOK
  PROVE  /\ history \in History /\ history.overlaps \in Nat /\ history.done \in Seq(Runs)
         /\ history.done = <<>> => Top = NoRun
         /\ history.done # <<>> => Top = history.done[Len(history.done)] /\ Top \in Runs
<1>1. history \in History /\ history.done \in Seq(Runs) /\ history.overlaps \in Nat BY DEF TypeOK, History
<1> QED BY <1>1, DropTyped DEF Top

\* No step makes an overlap undone, and a fault changes nothing else.
LEMMA FaultKeepsOrder ==
  ASSUME TypeOK, Fault
  PROVE  /\ history'.overlaps = history.overlaps /\ history'.done = history.done
         /\ history'.first = history.first /\ history'.tried = history.tried
         /\ Top' = Top
<1>1. history' = [history EXCEPT !.faults = history.faults + 1] BY DEF Fault
<1>2. history \in History BY DEF TypeOK
<1>3. /\ history'.overlaps = history.overlaps /\ history'.done = history.done
      /\ history'.first = history.first /\ history'.tried = history.tried
  BY <1>1, <1>2 DEF History
<1> QED BY <1>3 DEF Top

LEMMA StartOrder ==
  ASSUME TypeInv, NEW r \in Runs, StartRun(r)
  PROVE  /\ Orderly' => Orderly /\ Quiet
         /\ history'.done = Append(history.done, r) /\ Top' = r
         /\ history'.first = [history.first EXCEPT ![r] = note] /\ history'.tried = history.tried
<1>1. history \in History /\ history.overlaps \in Nat /\ history.done \in Seq(Runs)
  BY TopTyped DEF TypeInv
<1>2. /\ history' = [history EXCEPT !.overlaps = Overlaps(Quiet), !.done = Append(history.done, r),
                                    !.first = [history.first EXCEPT ![r] = note]]
  BY DEF StartRun
<1>3. /\ history'.overlaps = Overlaps(Quiet) /\ history'.done = Append(history.done, r)
      /\ history'.first = [history.first EXCEPT ![r] = note] /\ history'.tried = history.tried
  BY <1>1, <1>2 DEF History
<1>4. Orderly' => Orderly /\ Quiet BY <1>1, <1>3 DEF Orderly, Overlaps
<1>5. /\ Append(history.done, r) # <<>>
      /\ Append(history.done, r)[Len(Append(history.done, r))] = r
  BY <1>1
<1>6. Top' = r BY <1>3, <1>5 DEF Top
<1> QED BY <1>3, <1>4, <1>6

LEMMA BeginOrder ==
  ASSUME TypeInv, NEW r \in Runs, BeginRollback(r)
  PROVE  /\ Orderly' => Orderly /\ Quiet /\ r = Top
         /\ history'.done = history.done /\ history'.first = history.first /\ Top' = Top
         /\ history'.tried = history.tried \cup {r}
<1>1. history \in History /\ history.overlaps \in Nat BY TopTyped DEF TypeInv
<1>2. history' = [history EXCEPT !.overlaps = Overlaps(Quiet /\ r = Top),
                                 !.tried = history.tried \cup {r},
                                 !.raced = IF Running(r) THEN history.raced \cup {r} ELSE history.raced]
  BY DEF BeginRollback
<1>3. /\ history'.overlaps = Overlaps(Quiet /\ r = Top) /\ history'.done = history.done
      /\ history'.first = history.first /\ history'.tried = history.tried \cup {r}
  BY <1>1, <1>2 DEF History
<1>4. Orderly' => Orderly /\ Quiet /\ r = Top BY <1>1, <1>3 DEF Orderly, Overlaps
<1> QED BY <1>3, <1>4 DEF Top

LEMMA FinishOrder ==
  ASSUME TypeInv, FinishRollback
  PROVE  /\ history'.overlaps = history.overlaps
         /\ history'.first = history.first /\ history'.tried = history.tried
         /\ rollback.run = Top =>
              history.done # <<>> /\ history'.done = DropLast(history.done)
<1>1. history \in History BY TopTyped DEF TypeInv
<1>2. history' = [history EXCEPT !.done = IF rollback.run = Top THEN DropLast(history.done) ELSE history.done]
  BY DEF FinishRollback
<1>3. rollback.run # NoRun BY DEF FinishRollback
<1>4. rollback.run = Top => history.done # <<>> BY <1>3 DEF Top
<1> QED BY <1>1, <1>2, <1>4 DEF History

LEMMA EndOrder ==
  ASSUME TypeInv, NEW r \in Runs, StopFeeding(r) \/ FinalizeRun(r)
  PROVE  /\ Running(r) /\ rollback' = rollback
         /\ \A q \in Runs : Running(q)' => Running(q)
         /\ history'.overlaps = history.overlaps /\ history'.done = history.done
         /\ history'.first = history.first /\ history'.tried = history.tried /\ Top' = Top
<1>0. run \in [Runs -> Run] /\ run[r] \in Run BY DEF TypeInv, TypeOK
<1>1. /\ Running(r) /\ rollback' = rollback
      /\ run' = [run EXCEPT ![r] = [run[r] EXCEPT !.feeding = FALSE]]
         \/ run' = [run EXCEPT ![r] = [run[r] EXCEPT !.phase = "done", !.feeding = FALSE]]
  BY DEF StopFeeding, FinalizeRun
<1>2. \A q \in Runs : q # r => run'[q] = run[q] BY <1>0, <1>1
<1>3. UNCHANGED history \/ Fault BY DEF StopFeeding, FinalizeRun
<1>4. UNCHANGED history => Top' = Top BY DEF Top
<1> QED BY <1>1, <1>2, <1>3, <1>4, FaultKeepsOrder DEF TypeInv, Running

LEMMA CrashOrder ==
  ASSUME TypeInv, Crash
  PROVE  /\ rollback' = NoRollback /\ \A q \in Runs : ~Running(q)'
         /\ history'.overlaps = history.overlaps /\ history'.done = history.done
         /\ history'.first = history.first /\ history'.tried = history.tried /\ Top' = Top
<1>1. /\ run' = [r \in Runs |-> IF Running(r)
                                THEN [run[r] EXCEPT !.phase = "crashed", !.feeding = FALSE] ELSE run[r]]
      /\ rollback' = NoRollback /\ Fault
  BY DEF Crash
<1>2. \A r \in Runs : run[r] \in Run BY DEF TypeInv, TypeOK
<1>3. \A r \in Runs : [run[r] EXCEPT !.phase = "crashed", !.feeding = FALSE].phase = "crashed"
  BY <1>2 DEF Run
<1>4. \A q \in Runs : ~Running(q)' BY <1>1, <1>3 DEF Running
<1> QED BY <1>1, <1>4, FaultKeepsOrder DEF TypeInv

LEMMA SourceOrder ==
  ASSUME TypeInv, NEW r \in Runs, NEW s \in Sources, SourceStep(r, s)
  PROVE  /\ Running(r) /\ run' = run /\ rollback' = rollback
         /\ history'.overlaps = history.overlaps /\ history'.done = history.done
         /\ history'.first = history.first /\ history'.tried = history.tried /\ Top' = Top
<1>1. Running(r)
  BY DEF SourceStep, TakeSource, AskModel, LeavePending, Materialize, TakeDuplicate, ArchiveItem,
         WriteNote, MoveSource, RecordPath, FailSource, SourceGone
<1>2. run' = run /\ rollback' = rollback
  BY DEF SourceStep, TakeSource, AskModel, LeavePending, Materialize, TakeDuplicate, ArchiveItem,
         WriteNote, MoveSource, RecordPath, FailSource, SourceGone, EndFailed
<1>3. UNCHANGED history \/ Fault
  BY DEF SourceStep, TakeSource, AskModel, LeavePending, Materialize, TakeDuplicate, ArchiveItem,
         WriteNote, MoveSource, RecordPath, FailSource, SourceGone
<1>4. UNCHANGED history => Top' = Top BY DEF Top
<1> QED BY <1>1, <1>2, <1>3, <1>4, FaultKeepsOrder DEF TypeInv

\* A step that starts nothing and leaves the order of the runs.
LEMMA AloneFrame ==
  ASSUME TypeInv, Alone,
         history'.overlaps = history.overlaps, Top' = Top,
         \A q \in Runs : Running(q)' => Running(q),
         \/ rollback'.run = NoRun /\ rollback'.left = {} /\ rollback'.items = <<>>
         \/ rollback' = rollback
         \/ rollback'.run = rollback.run /\ rollback.run # NoRun
  PROVE  Alone'
BY DEF Alone, Orderly

LEMMA StepKeepsAlone == ASSUME TypeInv, Alone, [Next]_vars PROVE Alone'
<1>0. TypeOK /\ rollback \in Rollback BY DEF TypeInv, TypeOK
<1>1. CASE \E r \in Runs : StartRun(r)
  <2>1. PICK r \in Runs : StartRun(r) BY <1>1
  <2>2. rollback' = rollback BY <2>1 DEF StartRun
  <2>3. \A q \in Runs : Running(q)' => Running(q) \/ q = r
    <3>1. run' \in [Runs -> Run] /\ \E x : run' = [run EXCEPT ![r] = x]
      BY <2>1, StepKeepsTypes DEF StartRun, TypeInv, TypeOK, Next
    <3> QED BY <1>0, <3>1 DEF Running, TypeOK
  <2> QED BY <2>1, <2>2, <2>3, StartOrder DEF Alone, Quiet
<1>2. CASE \E r \in Runs : StopFeeding(r) \/ FinalizeRun(r)
  <2>1. PICK r \in Runs : StopFeeding(r) \/ FinalizeRun(r) BY <1>2
  <2> QED BY <2>1, EndOrder, AloneFrame
<1>3. CASE \E r \in Runs : BeginRollback(r)
  <2>1. PICK r \in Runs : BeginRollback(r) BY <1>3
  <2>2. rollback'.run = r
    <3>1. LockInv' BY StepKeepsLocks DEF TypeInv
    <3> QED BY <2>1, <3>1, BeginTyped
  <2>3. run' = run /\ r # NoRun BY <2>1, InboxAssumption DEF BeginRollback
  <2> QED BY <2>1, <2>2, <2>3, BeginOrder DEF Alone, Quiet, Running
<1>4. CASE \E r \in Runs, s \in Sources : SourceStep(r, s)
  BY <1>4, SourceOrder, AloneFrame DEF Running
<1>5. CASE PassItem \/ RestoreNote \/ RestoreSource
  <2>1. UNCHANGED <<run, history>> BY <1>5 DEF PassItem, RestoreNote, RestoreSource
  <2>2. rollback.run # NoRun BY <1>5 DEF PassItem, RestoreNote, RestoreSource, Alone
  <2>3. rollback'.run = rollback.run
    BY <1>0, <1>5, NextItemTyped DEF PassItem, RestoreNote, RestoreSource, Rollback
  <2> QED BY <2>1, <2>2, <2>3, AloneFrame DEF Running, Top
<1>6. CASE FinishRollback
  <2>1. run' = run /\ rollback' = NoRollback /\ rollback.run # NoRun BY <1>6 DEF FinishRollback
  <2> QED BY <1>6, <2>1, FinishOrder DEF Alone, Orderly, NoRollback, Running
<1>7. CASE FailRollback
  <2>1. run' = run /\ rollback' = NoRollback /\ Fault BY <1>7 DEF FailRollback
  <2> QED BY <1>0, <2>1, FaultKeepsOrder, AloneFrame DEF NoRollback, Running
<1>8. CASE Crash
  <2> QED BY <1>8, CrashOrder, AloneFrame DEF NoRollback
<1>9. CASE UNCHANGED vars BY <1>9, AloneFrame DEF vars, Running, Top
<1> QED BY <1>1, <1>2, <1>3, <1>4, <1>5, <1>6, <1>7, <1>8, <1>9 DEF Next, RollbackStep

LEMMA InitAlone == Init => Alone
BY DEF Init, Alone, Running, NoRollback

\* --------------------------------------------------- facts are not overwritten
\* Every candidate fits in its excerpt.
AllShown == IsFiniteSet(Facts) /\ Cardinality(Facts) <= ExcerptFacts

\* What a worker holds of notes with text n: it decided on what it saw, and what
\* it still has to write holds all they hold.
Grows(w, n) ==
  /\ w.pc = "asking" => w.seen \in [Dests -> Content]
  /\ w.pc = "deciding" => \A d \in DOMAIN w.final : w.seen[d] \subseteq w.final[d]
  /\ \A d \in w.left : n[d] \subseteq w.final[d]

GrowInv ==
  /\ TypeInv /\ Alone
  /\ Orderly => \A r \in Runs, s \in Sources : Grows(work[r][s], note)

LEMMA ShownWhole ==
  ASSUME AllShown, NEW c \in Content, NEW e \in Excerpts(c)
  PROVE  e = c
<1>1. IsFiniteSet(c) /\ Cardinality(c) <= Cardinality(Facts)
  BY FS_Subset DEF AllShown, Content
<1>2. Cardinality(c) \in Nat /\ Cardinality(Facts) \in Nat /\ ExcerptFacts \in Nat
  BY <1>1, FS_CardinalityType, InboxAssumption DEF AllShown
<1>3. Cardinality(c) <= ExcerptFacts BY <1>1, <1>2 DEF AllShown
<1>4. e \in SUBSET c /\ Cardinality(e) = Cardinality(c) BY <1>3 DEF Excerpts
<1> QED BY <1>1, <1>4, FS_Subset

LEMMA OrderOnlyLost == ASSUME TypeInv, [Next]_vars, Orderly' PROVE Orderly
<1>1. CASE \E r \in Runs : StartRun(r) BY <1>1, StartOrder
<1>2. CASE \E r \in Runs : StopFeeding(r) \/ FinalizeRun(r) BY <1>2, EndOrder DEF Orderly
<1>3. CASE \E r \in Runs : BeginRollback(r) BY <1>3, BeginOrder
<1>4. CASE \E r \in Runs, s \in Sources : SourceStep(r, s) BY <1>4, SourceOrder DEF Orderly
<1>5. CASE UNCHANGED history BY <1>5 DEF Orderly
<1>6. CASE PassItem \/ RestoreNote \/ RestoreSource
  BY <1>5, <1>6 DEF PassItem, RestoreNote, RestoreSource
<1>7. CASE FinishRollback BY <1>7, FinishOrder DEF Orderly
<1>8. CASE FailRollback BY <1>8, FaultKeepsOrder DEF FailRollback, Orderly, TypeInv
<1>9. CASE Crash BY <1>9, CrashOrder DEF Orderly
<1> QED BY <1>1, <1>2, <1>3, <1>4, <1>5, <1>6, <1>7, <1>8, <1>9 DEF Next, RollbackStep, vars

\* While jobs do not overlap, one source is committed at a time, and none during
\* a rollback.
LEMMA OneWriter ==
  ASSUME TypeInv, Alone, Orderly, NEW q \in Runs, NEW t \in Sources, work[q][t].pc \in Committing
  PROVE  /\ Running(q) /\ q = Top /\ rollback.run = NoRun
         /\ \A r \in Runs, s \in Sources : work[r][s].pc \in Committing => r = q /\ s = t
<1>1. \A r \in Runs, s \in Sources : work[r][s].pc \in Committing => Running(r)
  BY DEF TypeInv, LockInv, AtRest, Resting, Committing
<1>2. \A r \in Runs, s \in Sources : work[r][s].pc \in Committing => commit[r] = s
  BY LockByPlace DEF TypeInv
<1> QED BY <1>1, <1>2 DEF Alone

LEMMA LeftIsCommitting ==
  ASSUME TypeInv, NEW q \in Runs, NEW t \in Sources, work[q][t].left # {}
  PROVE  work[q][t].pc \in {"archiving", "writing"} /\ work[q][t].pc \in Committing
BY DEF TypeInv, Fits, FitsWork, Committing

\* Notes change only by the writes of a worker and of a rollback.
LEMMA NotesChange ==
  ASSUME [Next]_vars, note' # note
  PROVE  RestoreNote \/ \E r \in Runs, s \in Sources : WriteNote(r, s)
<1>1. CASE \E r \in Runs : StartRun(r) \/ StopFeeding(r) \/ FinalizeRun(r) \/ BeginRollback(r)
  BY <1>1 DEF StartRun, StopFeeding, FinalizeRun, BeginRollback
<1>2. ASSUME NEW r \in Runs, NEW s \in Sources, SourceStep(r, s) PROVE WriteNote(r, s)
  BY <1>2 DEF SourceStep, TakeSource, AskModel, LeavePending, Materialize, TakeDuplicate, ArchiveItem,
              MoveSource, RecordPath, FailSource, SourceGone, EndFailed
<1>3. CASE RollbackStep
  BY <1>3 DEF RollbackStep, PassItem, RestoreSource, FinishRollback, FailRollback
<1>4. CASE Crash BY <1>4 DEF Crash
<1> QED BY <1>1, <1>2, <1>3, <1>4 DEF Next, vars

LEMMA NotesGrow ==
  ASSUME GrowInv, [Next]_vars, Orderly', rollback.run = NoRun, NEW d \in Dests
  PROVE  note[d] \subseteq note'[d]
<1>1. Orderly BY OrderOnlyLost DEF GrowInv
<1>2. CASE note' = note BY <1>2
<1>3. CASE RestoreNote BY <1>3 DEF RestoreNote, GrowInv, Alone
<1>4. CASE \E r \in Runs, s \in Sources : WriteNote(r, s)
  <2>1. PICK r \in Runs, s \in Sources : WriteNote(r, s) BY <1>4
  <2>2. PICK e \in work[r][s].left : note' = [note EXCEPT ![e] = work[r][s].final[e]]
    BY <2>1 DEF WriteNote
  <2>3. note[e] \subseteq work[r][s].final[e] BY <1>1, <2>2 DEF GrowInv, Grows
  <2> QED BY <2>2, <2>3 DEF GrowInv, TypeInv, TypeOK
<1> QED BY <1>2, <1>3, <1>4, NotesChange

LEMMA GrowSource ==
  ASSUME AllShown, GrowInv, TypeInv', Alone', Orderly', NEW r \in Runs, NEW s \in Sources, SourceStep(r, s)
  PROVE  \A q \in Runs, t \in Sources : Grows(work'[q][t], note')
<1> DEFINE w == work[r][s]
<1>0. /\ TypeInv /\ Alone /\ work \in [Runs -> [Sources -> Work]] /\ w \in Work
      /\ note \in [Dests -> Content]
  BY DEF GrowInv, TypeInv, TypeOK
<1>1. Orderly BY <1>0, OrderOnlyLost DEF Next
<1>2. \A q \in Runs, t \in Sources : Grows(work[q][t], note) BY <1>1 DEF GrowInv
<1>3. \A v : work' = [work EXCEPT ![r][s] = v] =>
        \A q \in Runs, t \in Sources : work'[q][t] = IF q = r /\ t = s THEN v ELSE work[q][t]
  BY <1>0
<1>4. ASSUME NEW v, work' = [work EXCEPT ![r][s] = v], v.pc \notin {"asking", "deciding"}, v.left = {},
             note' = note
      PROVE  \A q \in Runs, t \in Sources : Grows(work'[q][t], note')
  BY <1>2, <1>3, <1>4 DEF Grows
<1>5. CASE TakeSource(r, s)
  <2> DEFINE v == IF HasDuplicate(s) THEN Idle("duplicate") ELSE [Idle("asking") EXCEPT !.seen = note]
  <2>1. work' = [work EXCEPT ![r][s] = v] /\ note' = note BY <1>5 DEF TakeSource
  <2>2. Grows(v, note) BY <1>0 DEF Grows, Idle
  <2> HIDE DEF v
  <2> QED BY <1>2, <1>3, <2>1, <2>2
<1>6. CASE AskModel(r, s)
  <2>0. PICK chosen \in SUBSET Dests : \E final \in [chosen -> Content] :
          /\ \A d \in chosen : \E e \in Excerpts(w.seen[d]) : final[d] = e \cup {s}
          /\ work' = [work EXCEPT ![r][s] = [w EXCEPT !.pc = "deciding", !.final = final]]
    BY <1>6 DEF AskModel
  <2>1. PICK final \in [chosen -> Content] :
          /\ \A d \in chosen : \E e \in Excerpts(w.seen[d]) : final[d] = e \cup {s}
          /\ work' = [work EXCEPT ![r][s] = [w EXCEPT !.pc = "deciding", !.final = final]]
    BY <2>0
  <2>2. w.pc = "asking" /\ note' = note BY <1>6 DEF AskModel
  <2>3. w.seen \in [Dests -> Content] /\ w.left = {}
    BY <1>0, <1>2, <2>2 DEF Grows, TypeInv, Fits, FitsWork
  <2>4. \A d \in chosen : w.seen[d] \subseteq final[d] BY <2>1, <2>3, ShownWhole
  <2> DEFINE v == [w EXCEPT !.pc = "deciding", !.final = final]
  <2>5. v.pc = "deciding" /\ v.seen = w.seen /\ v.final = final /\ v.left = {} BY <1>0, <2>3 DEF Work
  <2>6. work' = [work EXCEPT ![r][s] = v] BY <2>1
  <2> HIDE DEF v
  <2>7. Grows(v, note) BY <2>4, <2>5 DEF Grows
  <2> QED BY <1>2, <1>3, <2>2, <2>6, <2>7
<1>7. CASE LeavePending(r, s)
  <2> DEFINE v == [Idle("done") EXCEPT !.result = "pending"]
  <2>1. work' = [work EXCEPT ![r][s] = v] /\ note' = note BY <1>7 DEF LeavePending
  <2>2. v.left = {} BY IdleIsWork DEF Places, Results
  <2>3. v.pc = "done" BY PendingHasPlace
  <2> HIDE DEF v
  <2> QED BY <1>4, <2>1, <2>2, <2>3
<1>8. CASE Materialize(r, s)
  <2> DEFINE changed == {d \in DOMAIN w.final : w.final[d] # note[d]}
             before == [d \in changed |-> note[d]]
             final == [d \in changed |-> w.final[d]]
             v == [w EXCEPT !.pc = "archiving", !.seen = NoNotes, !.left = changed,
                            !.before = before, !.final = final]
  <2>1. work' = [work EXCEPT ![r][s] = v] /\ note' = note BY <1>8 DEF Materialize
  <2>2. w.pc = "deciding" /\ \A d \in DOMAIN w.final : note[d] = w.seen[d]
    BY <1>8 DEF Materialize, Current
  <2>3. \A d \in changed : note[d] \subseteq final[d] BY <1>2, <2>2 DEF Grows
  <2> HIDE DEF changed, before, final
  <2>4. v.pc = "archiving" /\ v.left = changed /\ v.final = final BY <1>0 DEF Work
  <2> HIDE DEF v
  <2>5. Grows(v, note) BY <2>3, <2>4 DEF Grows
  <2> QED BY <1>2, <1>3, <2>1, <2>5
<1>9. CASE TakeDuplicate(r, s) \/ ArchiveItem(r, s)
  <2>1. PICK pc \in {"archiving", "writing"} : work' = [work EXCEPT ![r][s] = [w EXCEPT !.pc = pc]]
    BY <1>9 DEF TakeDuplicate, ArchiveItem
  <2>2. note' = note BY <1>9 DEF TakeDuplicate, ArchiveItem
  <2> DEFINE v == [w EXCEPT !.pc = pc]
  <2>3. v.pc = pc /\ v.left = w.left /\ v.final = w.final BY <1>0 DEF Work
  <2>4. work' = [work EXCEPT ![r][s] = v] BY <2>1
  <2> HIDE DEF v
  <2>5. Grows(v, note) BY <1>2, <2>1, <2>3 DEF Grows
  <2> QED BY <1>2, <1>3, <2>2, <2>4, <2>5
<1>10. CASE WriteNote(r, s)
  <2>1. PICK d \in w.left : /\ note' = [note EXCEPT ![d] = w.final[d]]
                            /\ work' = [work EXCEPT ![r][s] = [w EXCEPT !.left = w.left \ {d}]]
    BY <1>10 DEF WriteNote
  <2>2. w.pc = "writing" BY <1>10 DEF WriteNote
  <2> DEFINE v == [w EXCEPT !.left = w.left \ {d}]
  <2>3. v.pc = w.pc /\ v.left = w.left \ {d} /\ v.final = w.final BY <1>0 DEF Work
  <2>4. work' = [work EXCEPT ![r][s] = v] BY <2>1
  <2> HIDE DEF v
  <2>5. \A e \in v.left : note'[e] = note[e] BY <1>0, <2>1, <2>3
  <2>6. Grows(v, note') BY <1>2, <2>2, <2>3, <2>5 DEF Grows
  <2>7. ASSUME NEW q \in Runs, NEW t \in Sources, q # r \/ t # s
        PROVE  Grows(work[q][t], note')
    <3>1. work[q][t].left = {} BY <1>0, <1>1, <2>2, <2>7, OneWriter, LeftIsCommitting DEF Committing
    <3> QED BY <1>2, <3>1 DEF Grows
  <2>8. \A q \in Runs, t \in Sources : work'[q][t] = IF q = r /\ t = s THEN v ELSE work[q][t]
    BY <1>3, <2>4
  <2> SUFFICES ASSUME NEW q \in Runs, NEW t \in Sources PROVE Grows(work'[q][t], note') OBVIOUS
  <2>9. CASE q = r /\ t = s BY <2>6, <2>8, <2>9
  <2>10. CASE q # r \/ t # s BY <2>7, <2>8, <2>10
  <2> QED BY <2>9, <2>10
<1>11. CASE MoveSource(r, s)
  <2>1. PICK path : work' = [work EXCEPT ![r][s] = [w EXCEPT !.pc = "recording", !.path = path]]
    BY <1>11 DEF MoveSource
  <2>2. note' = note /\ w.left = {} BY <1>11 DEF MoveSource
  <2> DEFINE v == [w EXCEPT !.pc = "recording", !.path = path]
  <2>3. v.pc = "recording" /\ v.left = {} BY <1>0, <2>2 DEF Work
  <2>4. work' = [work EXCEPT ![r][s] = v] BY <2>1
  <2> HIDE DEF v
  <2> QED BY <1>4, <2>2, <2>3, <2>4
<1>12. CASE RecordPath(r, s)
  <2> DEFINE v == [Idle("done") EXCEPT !.result = "processed"]
  <2>1. work' = [work EXCEPT ![r][s] = v] /\ note' = note BY <1>12 DEF RecordPath
  <2>2. v.left = {} BY IdleIsWork DEF Places, Results
  <2>3. v.pc = "done" BY PendingHasPlace
  <2> HIDE DEF v
  <2> QED BY <1>4, <2>1, <2>2, <2>3
<1>13. CASE FailSource(r, s) \/ SourceGone(r, s)
  <2>1. work' = [work EXCEPT ![r][s] = Idle("done")] /\ note' = note
    BY <1>13 DEF FailSource, SourceGone, EndFailed
  <2>2. Idle("done").left = {} BY IdleIsWork DEF Places, Results
  <2> QED BY <1>4, <2>1, <2>2, IdleHasPlace
<1> QED
  BY <1>5, <1>6, <1>7, <1>8, <1>9, <1>10, <1>11, <1>12, <1>13 DEF SourceStep

LEMMA StepKeepsGrowth == AllShown /\ GrowInv /\ [Next]_vars => GrowInv'
<1> SUFFICES ASSUME AllShown, GrowInv, [Next]_vars PROVE GrowInv' OBVIOUS
<1>0. TypeInv' /\ Alone' BY StepKeepsTypes, StepKeepsAlone DEF GrowInv
<1>1. SUFFICES ASSUME Orderly' PROVE \A q \in Runs, t \in Sources : Grows(work'[q][t], note')
  BY <1>0 DEF GrowInv
<1>2. Orderly BY <1>1, OrderOnlyLost DEF GrowInv
<1>3. \A q \in Runs, t \in Sources : Grows(work[q][t], note) BY <1>2 DEF GrowInv
<1>4. CASE \E r \in Runs : StartRun(r)
  <2>1. PICK r \in Runs : StartRun(r) BY <1>4
  <2>2. PICK chosen :
          work' = [work EXCEPT ![r] = [s \in Sources |-> Idle(IF s \in chosen THEN "queued" ELSE "idle")]]
    BY <2>1 DEF StartRun
  <2>3. note' = note BY <2>1 DEF StartRun
  <2>4. \A pc : Idle(pc).left = {} BY DEF Idle
  <2>5. \A q \in Runs, t \in Sources :
          \/ work'[q][t] = work[q][t]
          \/ work'[q][t].left = {} /\ work'[q][t].pc \in {"queued", "idle"}
    BY <2>2, <2>4, IdleHasPlace DEF GrowInv, TypeInv, TypeOK
  <2> QED BY <1>3, <2>3, <2>5 DEF Grows
<1>5. CASE \E r \in Runs, s \in Sources : SourceStep(r, s) BY <1>0, <1>1, <1>5, GrowSource
<1>6. CASE Crash
  <2>1. /\ work' = [r \in Runs |-> [s \in Sources |-> IF Running(r) THEN Idle("idle") ELSE work[r][s]]]
        /\ note' = note
    BY <1>6 DEF Crash
  <2>2. Idle("idle").left = {} BY DEF Idle
  <2> QED BY <1>3, <2>1, <2>2, IdleHasPlace DEF Grows
<1>7. CASE RestoreNote
  <2>1. rollback.run # NoRun /\ work' = work BY <1>7 DEF RestoreNote, GrowInv, Alone
  <2>2. \A q \in Runs, t \in Sources : work[q][t].pc \in Resting
    BY <1>2, <2>1 DEF GrowInv, Alone, TypeInv, LockInv, AtRest
  <2>3. \A q \in Runs, t \in Sources : work[q][t].left = {}
    BY <2>2 DEF GrowInv, TypeInv, Fits, FitsWork, Resting
  <2> QED BY <2>1, <2>2, <2>3 DEF Grows, Resting
<1>8. CASE UNCHANGED <<work, note>> BY <1>3, <1>8
<1>9. CASE \E r \in Runs : StopFeeding(r) \/ FinalizeRun(r) \/ BeginRollback(r)
  BY <1>8, <1>9 DEF StopFeeding, FinalizeRun, BeginRollback
<1>10. CASE RollbackStep
  BY <1>7, <1>8, <1>10 DEF RollbackStep, PassItem, RestoreSource, FinishRollback, FailRollback
<1>11. CASE UNCHANGED vars BY <1>8, <1>11 DEF vars
<1> QED BY <1>4, <1>5, <1>6, <1>9, <1>10, <1>11 DEF Next

LEMMA InitGrowth == Init => GrowInv
<1> SUFFICES ASSUME Init PROVE GrowInv OBVIOUS
<1>1. \A r \in Runs, s \in Sources : work[r][s].left = {} /\ work[r][s].pc = "idle" BY DEF Init, Idle
<1> QED BY <1>1, InitTypes, InitAlone DEF GrowInv, Grows

\* When every candidate is shown whole and jobs do not overlap, no worker
\* overwrites what another added to a note (ensureInboxDestinationsCurrent under
\* the commit lock, inbox_merge.go:281-322).
THEOREM FactsAlwaysKept == AllShown => (Spec => DestinationFactsKept)
<1> SUFFICES ASSUME AllShown PROVE Spec => DestinationFactsKept OBVIOUS
<1>1. GrowInv /\ [Next]_vars => GrowInv' BY StepKeepsGrowth
<1>2. GrowInv /\ [Next]_vars =>
        [(Orderly' /\ rollback.run = NoRun) => \A d \in Dests : note[d] \subseteq note'[d]]_vars
  BY NotesGrow
<1> QED BY InitGrowth, <1>1, <1>2, PTL DEF Spec, DestinationFactsKept

\* ----------------------------------------------------------- undoing a run
\* The items of a manifest whose undoing writes note d.
Touching(items, d) ==
  {i \in DOMAIN items : items[i].status = "processed" /\ d \in DOMAIN items[i].before}

\* Undoing the items from the last to the first takes the notes from after to before.
GivesBack(items, after, before) ==
  \A d \in Dests :
    /\ Touching(items, d) = {} => after[d] = before[d]
    /\ \A i \in Touching(items, d) :
         (\A j \in Touching(items, d) : i <= j) => items[i].before[d] = before[d]

SameUndo(a, b) ==
  \A d \in Dests : /\ Touching(a, d) = Touching(b, d)
                   /\ \A i \in Touching(a, d) : a[i].before[d] = b[i].before[d]

\* The notes as the k-th of the runs not undone left them.
After(k) == IF k = Len(history.done) THEN note ELSE history.first[history.done[k + 1]]

Distinct ==
  /\ \A k, l \in DOMAIN history.done : history.done[k] = history.done[l] => k = l
  /\ \A k \in DOMAIN history.done : run[history.done[k]].phase # "none"
Chain ==
  \A k \in DOMAIN history.done :
    GivesBack(manifest[history.done[k]].items, After(k), history.first[history.done[k]])

\* What a worker with text w is about to overwrite is archived, or is going to be.
Archived(w, items, n) ==
  /\ w.pc = "duplicate" => DOMAIN w.before = {}
  /\ w.pc = "archiving" => /\ w.left \subseteq DOMAIN w.before
                           /\ \A d \in DOMAIN w.before : w.before[d] = n[d]
  /\ w.pc = "writing" => \A d \in w.left : Touching(items, d) # {}

\* How far the rollback has come.
Undoing ==
  rollback.run # NoRun =>
    /\ \A i \in Later : rollback.read[i].status = "processed" => rollback.read[i].source \in inbox
    /\ \A d \in Dests : Touching(rollback.read, d) # {} /\ Touching(rollback.items, d) = {} =>
         note[d] = history.first[rollback.run][d]
    /\ rollback.items # <<>> /\ LastItem.status = "processed" =>
         \A d \in DOMAIN LastItem.before \ rollback.left : note[d] = LastItem.before[d]

UndoInv ==
  /\ RecInv /\ Alone
  /\ Orderly =>
       /\ history.raced = {} /\ Distinct /\ Chain /\ Undoing
       /\ \A r \in Runs, s \in Sources : Archived(work[r][s], manifest[r].items, note)

LEMMA SameUndoGivesBack ==
  ASSUME NEW a, NEW b, NEW after, NEW before, SameUndo(a, b), GivesBack(a, after, before)
  PROVE  GivesBack(b, after, before)
BY DEF SameUndo, GivesBack

LEMMA UndoOfSteps ==
  ASSUME NEW m \in Manifest, NEW s \in Sources
  PROVE  /\ SameUndo(m.items, m.items)
         /\ SameUndo(m.items, WithExchange(m).items)
         /\ \A n \in Nat : SameUndo(m.items, WithPath(m, s, n).items)
         /\ \A status \in Results \ {"processed"}, before \in Texts :
              SameUndo(m.items, WithItem(m, s, status, before).items)
         /\ SameUndo(m.items, WithFailed(m, s).items)
<1>1. SameUndo(m.items, m.items) BY DEF SameUndo
<1>2. SameUndo(m.items, WithExchange(m).items) BY <1>1, ExchangeTyped
<1>3. ASSUME NEW n \in Nat PROVE SameUndo(m.items, WithPath(m, s, n).items)
  BY PathTyped DEF SameUndo, Touching
<1>4. ASSUME NEW status \in Results \ {"processed"}, NEW before \in Texts
      PROVE  SameUndo(m.items, WithItem(m, s, status, before).items)
  <2> DEFINE items == WithItem(m, s, status, before).items
  <2>1. /\ \A i \in DOMAIN m.items : i \in DOMAIN items /\ items[i] = m.items[i]
        /\ \A i \in DOMAIN items \ DOMAIN m.items : items[i].status = status
    BY ItemsApplied
  <2> HIDE DEF items
  <2>2. SameUndo(m.items, items) BY <2>1 DEF SameUndo, Touching
  <2> QED BY <2>2 DEF items
<1>5. SameUndo(m.items, WithFailed(m, s).items)
  BY <1>1, <1>4, NoTexts DEF WithFailed, Results
<1> QED BY <1>1, <1>2, <1>3, <1>4, <1>5

LEMMA UndoOfArchived ==
  ASSUME NEW m \in Manifest, NEW s \in Sources, NEW before \in Texts,
         NEW n \in [Dests -> Content], NEW f \in [Dests -> Content],
         \A d \in DOMAIN before : before[d] = n[d], GivesBack(m.items, n, f)
  PROVE  /\ GivesBack(WithItem(m, s, "processed", before).items, n, f)
         /\ \A d \in DOMAIN before : Touching(WithItem(m, s, "processed", before).items, d) # {}
         /\ \A d \in Dests : Touching(m.items, d) # {} =>
              Touching(WithItem(m, s, "processed", before).items, d) # {}
<1> DEFINE x == [source |-> s, status |-> "processed", path |-> 0, before |-> before]
           items == Append(m.items, x)
           k == Len(m.items) + 1
<1>1. WithItem(m, s, "processed", before).items = items BY ItemTyped DEF Results
<1>2. x \in Item BY DEF Item, Results
<1>3. m.items \in Seq(Item) BY DEF Manifest
<1>4. x.status = "processed" /\ x.before = before OBVIOUS
<1>5. DOMAIN m.items = 1 .. k - 1 /\ k \in Nat /\ k > 0 BY <1>3, LenProperties
<1> HIDE DEF x
<1>6. /\ \A i \in DOMAIN m.items : items[i] = m.items[i]
      /\ DOMAIN items = DOMAIN m.items \cup {k} /\ items[k] = x
  BY <1>2, <1>3
<1> HIDE DEF items, k
<1>7. \A d \in Dests : Touching(items, d) =
        Touching(m.items, d) \cup (IF d \in DOMAIN before THEN {k} ELSE {})
  BY <1>4, <1>6 DEF Touching
<1>8. DOMAIN before \subseteq Dests BY TextsKnown
<1>9. \A d \in Dests : \A i \in Touching(m.items, d) : i \in 1 .. k - 1 BY <1>5 DEF Touching
<1>10. GivesBack(items, n, f)
  <2> SUFFICES ASSUME NEW d \in Dests
               PROVE  /\ Touching(items, d) = {} => n[d] = f[d]
                      /\ \A i \in Touching(items, d) :
                           (\A j \in Touching(items, d) : i <= j) => items[i].before[d] = f[d]
    BY DEF GivesBack
  <2>1. /\ Touching(m.items, d) = {} => n[d] = f[d]
        /\ \A i \in Touching(m.items, d) :
             (\A j \in Touching(m.items, d) : i <= j) => m.items[i].before[d] = f[d]
    BY DEF GivesBack
  <2>2. ASSUME NEW i \in Touching(items, d), \A j \in Touching(items, d) : i <= j
        PROVE  items[i].before[d] = f[d]
    <3>1. CASE i \in Touching(m.items, d)
      <4>1. \A j \in Touching(m.items, d) : i <= j BY <1>7, <2>2
      <4>2. items[i] = m.items[i] BY <1>6, <3>1 DEF Touching
      <4> QED BY <2>1, <3>1, <4>1, <4>2
    <3>2. CASE i \notin Touching(m.items, d)
      <4>1. i = k /\ d \in DOMAIN before BY <1>7, <2>2, <3>2
      <4>2. ASSUME NEW j \in Touching(m.items, d) PROVE FALSE
        <5>1. j \in Touching(items, d) /\ j \in 1 .. k - 1 BY <1>7, <1>9
        <5> QED BY <1>5, <2>2, <4>1, <5>1
      <4> QED BY <1>4, <1>6, <2>1, <4>1, <4>2
    <3> QED BY <3>1, <3>2
  <2>3. Touching(items, d) = {} => n[d] = f[d] BY <1>7, <2>1
  <2> QED BY <2>2, <2>3
<1> QED BY <1>1, <1>7, <1>8, <1>10

LEMMA ManifestForms ==
  ASSUME TypeInv, NEW r \in Runs, NEW s \in Sources, SourceStep(r, s)
  PROVE  /\ \A q \in Runs \ {r} : manifest'[q] = manifest[q]
         /\ \/ ArchiveItem(r, s)
               /\ manifest'[r] = WithItem(manifest[r], s, "processed", work[r][s].before)
            \/ SameUndo(manifest[r].items, manifest'[r].items)
<1> DEFINE m == manifest[r]
           w == work[r][s]
<1>0. manifest \in [Runs -> Manifest] /\ m \in Manifest /\ w.path \in Nat
  BY DEF TypeInv, TypeOK, Work
<1>1. \/ manifest' = manifest
      \/ manifest' = [manifest EXCEPT ![r] = WithExchange(m)]
      \/ manifest' = [manifest EXCEPT ![r] = WithItem(m, s, "pending", NoNotes)]
      \/ ArchiveItem(r, s) /\ manifest' = [manifest EXCEPT ![r] = WithItem(m, s, "processed", w.before)]
      \/ manifest' = [manifest EXCEPT ![r] = WithPath(m, s, w.path)]
      \/ manifest' = [manifest EXCEPT ![r] = WithFailed(m, s)]
  BY DEF SourceStep, TakeSource, AskModel, LeavePending, Materialize, TakeDuplicate, ArchiveItem,
         WriteNote, MoveSource, RecordPath, FailSource, SourceGone
<1>2. \/ manifest'[r] = m
      \/ manifest'[r] = WithExchange(m)
      \/ manifest'[r] = WithItem(m, s, "pending", NoNotes)
      \/ ArchiveItem(r, s) /\ manifest'[r] = WithItem(m, s, "processed", w.before)
      \/ manifest'[r] = WithPath(m, s, w.path)
      \/ manifest'[r] = WithFailed(m, s)
  BY <1>0, <1>1
<1>3. \A q \in Runs \ {r} : manifest'[q] = manifest[q] BY <1>0, <1>1
<1>4. "pending" \in Results \ {"processed"} BY DEF Results
<1> QED BY <1>0, <1>2, <1>3, <1>4, UndoOfSteps, NoTexts

LEMMA ChainFrame ==
  ASSUME UndoInv, Orderly, TypeInv',
         history'.done = history.done, history'.first = history.first,
         \A q \in Runs \ {Top} : manifest'[q] = manifest[q],
         \A q \in Runs : run'[q].phase = "none" => run[q].phase = "none",
         Top \in Runs => GivesBack(manifest'[Top].items, note', history.first[Top])
  PROVE  Distinct' /\ Chain'
<1>1. TypeOK /\ Distinct /\ Chain BY DEF UndoInv, RecInv, TypeInv
<1>2. history.done \in Seq(Runs) BY <1>1, TopTyped
<1>3. \A k \in DOMAIN history.done : history.done[k] \in Runs BY <1>2, LenProperties, ElementOfSeq
<1>4. Distinct' BY <1>1, <1>3 DEF Distinct
<1>5. ASSUME NEW k \in DOMAIN history.done
      PROVE  GivesBack(manifest'[history.done[k]].items, After(k)', history.first[history.done[k]])
  <2>1. DOMAIN history.done = 1 .. Len(history.done) /\ Len(history.done) \in Nat BY <1>2, LenProperties
  <2>2. Len(history.done) \in DOMAIN history.done /\ Top = history.done[Len(history.done)]
    BY <1>5, <2>1 DEF Top
  <2>3. CASE k = Len(history.done) BY <1>3, <2>2, <2>3 DEF After
  <2>4. CASE k # Len(history.done)
    <3>1. history.done[k] # Top BY <1>1, <2>2, <2>4 DEF Distinct
    <3>2. After(k)' = After(k) BY <2>4 DEF After
    <3>3. GivesBack(manifest[history.done[k]].items, After(k), history.first[history.done[k]])
      BY <1>1 DEF Chain
    <3> QED BY <1>3, <3>1, <3>2, <3>3
  <2> QED BY <2>3, <2>4
<1>6. Chain' BY <1>5 DEF Chain
<1> QED BY <1>4, <1>6

LEMMA TopGivesBack ==
  ASSUME UndoInv, Orderly, Top \in Runs
  PROVE  GivesBack(manifest[Top].items, note, history.first[Top])
<1>1. history.done \in Seq(Runs) /\ history.done # <<>>
  BY TopTyped, InboxAssumption DEF UndoInv, RecInv, TypeInv
<1>2. Len(history.done) \in DOMAIN history.done /\ Top = history.done[Len(history.done)]
  BY <1>1, LenProperties, EmptySeq DEF Top
<1> QED BY <1>2 DEF UndoInv, Chain, After

LEMMA UndoSource ==
  ASSUME UndoInv, RecInv', Alone', Orderly', NEW r \in Runs, NEW s \in Sources, SourceStep(r, s)
  PROVE  UndoInv'
<1> DEFINE w == work[r][s]
<1>0. /\ TypeInv /\ TypeInv' /\ work \in [Runs -> [Sources -> Work]] /\ w \in Work
      /\ note \in [Dests -> Content] /\ manifest[r] \in Manifest /\ w.before \in Texts
      /\ history.first \in [Runs -> [Dests -> Content]]
  BY DEF UndoInv, RecInv, TypeInv, TypeOK, Work, History
<1>1. Orderly BY <1>0, OrderOnlyLost DEF Next
<1>2. /\ history.raced = {} /\ Distinct /\ Chain /\ Undoing
      /\ \A q \in Runs, t \in Sources : Archived(work[q][t], manifest[q].items, note)
  BY <1>1 DEF UndoInv
<1>3. /\ Running(r) /\ run' = run /\ rollback' = rollback
      /\ history'.done = history.done /\ history'.first = history.first /\ Top' = Top
  BY <1>0, SourceOrder
<1>4. r = Top /\ rollback.run = NoRun BY <1>1, <1>3 DEF UndoInv, Alone
<1>5. Undoing' BY <1>3, <1>4 DEF Undoing
<1>6. history'.raced = history.raced
  <2>1. UNCHANGED history \/ Fault
    BY DEF SourceStep, TakeSource, AskModel, LeavePending, Materialize, TakeDuplicate, ArchiveItem,
           WriteNote, MoveSource, RecordPath, FailSource, SourceGone
  <2> QED BY <1>0, <2>1, FaultTyped DEF TypeInv
<1>7. /\ \A q \in Runs \ {r} : manifest'[q] = manifest[q]
      /\ \/ ArchiveItem(r, s) /\ manifest'[r] = WithItem(manifest[r], s, "processed", w.before)
         \/ SameUndo(manifest[r].items, manifest'[r].items)
  BY <1>0, ManifestForms
<1>8. GivesBack(manifest[r].items, note, history.first[r]) BY <1>1, <1>4, TopGivesBack
<1>9. SUFFICES /\ GivesBack(manifest'[r].items, note', history.first[r])
               /\ \A q \in Runs, t \in Sources : Archived(work'[q][t], manifest'[q].items, note')
  <2>1. Distinct' /\ Chain' BY <1>0, <1>1, <1>3, <1>4, <1>7, <1>9, ChainFrame
  <2> QED BY <1>2, <1>5, <1>6, <1>9, <2>1 DEF UndoInv
<1>10. \A d \in Dests : Touching(manifest[r].items, d) # {} => Touching(manifest'[r].items, d) # {}
  <2>1. CASE ArchiveItem(r, s) /\ manifest'[r] = WithItem(manifest[r], s, "processed", w.before)
    <3>1. "processed" \in Results BY DEF Results
    <3> DEFINE items == WithItem(manifest[r], s, "processed", w.before).items
    <3>2. \A i \in DOMAIN manifest[r].items : i \in DOMAIN items /\ items[i] = manifest[r].items[i]
      BY <1>0, <3>1, ItemsApplied
    <3> HIDE DEF items
    <3>3. \A d \in Dests : Touching(manifest[r].items, d) # {} => Touching(items, d) # {}
      BY <3>2 DEF Touching
    <3> QED BY <2>1, <3>3 DEF items
  <2>2. CASE SameUndo(manifest[r].items, manifest'[r].items) BY <2>2 DEF SameUndo
  <2> QED BY <1>7, <2>1, <2>2
\* The workers on other sources.
<1>11. ASSUME NEW q \in Runs, NEW t \in Sources, work'[q][t] = work[q][t],
              \A d \in work[q][t].left : d \in Dests,
              note' = note \/ work[q][t].pc # "archiving"
       PROVE  Archived(work'[q][t], manifest'[q].items, note')
  <2>1. Archived(work[q][t], manifest[q].items, note) BY <1>2
  <2>2. \A d \in Dests : Touching(manifest[q].items, d) # {} => Touching(manifest'[q].items, d) # {}
    BY <1>7, <1>10
  <2> QED BY <1>11, <2>1, <2>2 DEF Archived
<1>12. \A q \in Runs, t \in Sources : \A d \in work[q][t].left : d \in Dests BY <1>0 DEF Work
<1>13. \A v : work' = [work EXCEPT ![r][s] = v] =>
         \A q \in Runs, t \in Sources : work'[q][t] = IF q = r /\ t = s THEN v ELSE work[q][t]
  BY <1>0
<1>14. ASSUME NEW v, work' = [work EXCEPT ![r][s] = v], note' = note,
              SameUndo(manifest[r].items, manifest'[r].items),
              Archived(v, manifest'[r].items, note')
       PROVE  /\ GivesBack(manifest'[r].items, note', history.first[r])
              /\ \A q \in Runs, t \in Sources : Archived(work'[q][t], manifest'[q].items, note')
  <2>1. GivesBack(manifest'[r].items, note', history.first[r]) BY <1>8, <1>14, SameUndoGivesBack
  <2>2. ASSUME NEW q \in Runs, NEW t \in Sources
        PROVE  Archived(work'[q][t], manifest'[q].items, note')
    <3>1. CASE q = r /\ t = s BY <1>13, <1>14, <3>1
    <3>2. CASE q # r \/ t # s BY <1>11, <1>12, <1>13, <1>14, <3>2
    <3> QED BY <3>1, <3>2
  <2> QED BY <2>1, <2>2
<1>15. ~ArchiveItem(r, s) => SameUndo(manifest[r].items, manifest'[r].items) BY <1>7
<1>16. ASSUME NEW v, work' = [work EXCEPT ![r][s] = v], note' = note, ~ArchiveItem(r, s),
              v.pc \notin {"duplicate", "archiving", "writing"}
       PROVE  /\ GivesBack(manifest'[r].items, note', history.first[r])
              /\ \A q \in Runs, t \in Sources : Archived(work'[q][t], manifest'[q].items, note')
  <2>1. Archived(v, manifest'[r].items, note') BY <1>16 DEF Archived
  <2> QED BY <1>14, <1>15, <1>16, <2>1
<1>17. CASE ArchiveItem(r, s)
  <2> DEFINE v == [w EXCEPT !.pc = "writing"]
  <2>1. /\ work' = [work EXCEPT ![r][s] = v] /\ note' = note /\ w.pc = "archiving"
        /\ manifest' = [manifest EXCEPT ![r] = WithItem(manifest[r], s, "processed", w.before)]
    BY <1>17 DEF ArchiveItem
  <2>2. manifest'[r] = WithItem(manifest[r], s, "processed", w.before)
    BY <1>0, <2>1 DEF TypeInv, TypeOK
  <2>3. w.left \subseteq DOMAIN w.before /\ \A d \in DOMAIN w.before : w.before[d] = note[d]
    BY <1>2, <2>1 DEF Archived
  <2>4. history.first[r] \in [Dests -> Content] BY <1>0
  <2>5. /\ GivesBack(manifest'[r].items, note, history.first[r])
        /\ \A d \in DOMAIN w.before : Touching(manifest'[r].items, d) # {}
    BY <1>0, <1>8, <2>2, <2>3, <2>4, UndoOfArchived
  <2>6. v.pc = "writing" /\ v.left = w.left BY <1>0 DEF Work
  <2> HIDE DEF v
  <2>7. Archived(v, manifest'[r].items, note') BY <2>3, <2>5, <2>6 DEF Archived
  <2>8. ASSUME NEW q \in Runs, NEW t \in Sources
        PROVE  Archived(work'[q][t], manifest'[q].items, note')
    <3>1. CASE q = r /\ t = s BY <1>13, <2>1, <2>7, <3>1
    <3>2. CASE q # r \/ t # s BY <1>11, <1>12, <1>13, <2>1, <3>2
    <3> QED BY <3>1, <3>2
  <2> QED BY <2>1, <2>5, <2>8
<1>18. CASE WriteNote(r, s)
  <2>1. PICK d \in w.left : /\ note' = [note EXCEPT ![d] = w.final[d]]
                            /\ work' = [work EXCEPT ![r][s] = [w EXCEPT !.left = w.left \ {d}]]
    BY <1>18 DEF WriteNote
  <2>2. w.pc = "writing" /\ manifest' = manifest BY <1>18 DEF WriteNote
  <2> DEFINE v == [w EXCEPT !.left = w.left \ {d}]
  <2>3. v.pc = w.pc /\ v.left = w.left \ {d} BY <1>0 DEF Work
  <2>4. work' = [work EXCEPT ![r][s] = v] BY <2>1
  <2> HIDE DEF v
  <2>5. \A e \in w.left : Touching(manifest[r].items, e) # {} BY <1>2, <2>2 DEF Archived
  <2>6. \A e \in Dests : e # d => note'[e] = note[e] BY <1>0, <2>1
  <2>7. GivesBack(manifest'[r].items, note', history.first[r])
    BY <1>8, <2>1, <2>2, <2>5, <2>6 DEF GivesBack
  <2>8. Archived(v, manifest'[r].items, note') BY <2>2, <2>3, <2>5 DEF Archived
  <2>9. ASSUME NEW q \in Runs, NEW t \in Sources
        PROVE  Archived(work'[q][t], manifest'[q].items, note')
    <3>1. CASE q = r /\ t = s BY <1>13, <2>4, <2>8, <3>1
    <3>2. CASE q # r \/ t # s
      <4>1. work'[q][t] = work[q][t] BY <1>13, <2>4, <3>2
      <4>2. work[q][t].pc # "archiving" BY <1>0, <1>1, <2>2, <3>2, OneWriter DEF Committing, UndoInv
      <4> QED BY <1>11, <1>12, <4>1, <4>2
    <3> QED BY <3>1, <3>2
  <2> QED BY <2>7, <2>9
<1>19. CASE TakeSource(r, s)
  <2> DEFINE v == IF HasDuplicate(s) THEN Idle("duplicate") ELSE [Idle("asking") EXCEPT !.seen = note]
  <2>1. work' = [work EXCEPT ![r][s] = v] /\ note' = note BY <1>19 DEF TakeSource
  <2>2. v.pc \in {"duplicate", "asking"} /\ DOMAIN v.before = {} BY NoTexts DEF Idle
  <2>3. ~ArchiveItem(r, s)
    BY <1>19 DEF TakeSource, ArchiveItem, HandedOut
  <2> HIDE DEF v
  <2>4. Archived(v, manifest'[r].items, note') BY <2>2 DEF Archived
  <2> QED BY <1>14, <1>15, <2>1, <2>3, <2>4
<1>20. CASE Materialize(r, s)
  <2> DEFINE changed == {d \in DOMAIN w.final : w.final[d] # note[d]}
             before == [d \in changed |-> note[d]]
             final == [d \in changed |-> w.final[d]]
             v == [w EXCEPT !.pc = "archiving", !.seen = NoNotes, !.left = changed,
                            !.before = before, !.final = final]
  <2>1. work' = [work EXCEPT ![r][s] = v] /\ note' = note /\ w.pc = "deciding" BY <1>20 DEF Materialize
  <2>2. DOMAIN before = changed /\ \A d \in changed : before[d] = note[d] OBVIOUS
  <2> HIDE DEF changed, before, final
  <2>3. v.pc = "archiving" /\ v.left = changed /\ v.before = before BY <1>0 DEF Work
  <2>4. ~ArchiveItem(r, s) BY <2>1 DEF ArchiveItem
  <2> HIDE DEF v
  <2>5. Archived(v, manifest'[r].items, note') BY <2>1, <2>2, <2>3 DEF Archived
  <2> QED BY <1>14, <1>15, <2>1, <2>4, <2>5
<1>21. CASE TakeDuplicate(r, s)
  <2> DEFINE v == [w EXCEPT !.pc = "archiving"]
  <2>1. work' = [work EXCEPT ![r][s] = v] /\ note' = note /\ w.pc = "duplicate" BY <1>21 DEF TakeDuplicate
  <2>2. DOMAIN w.before = {} /\ w.left = {} BY <1>0, <1>2, <2>1 DEF Archived, TypeInv, Fits, FitsWork
  <2>3. v.pc = "archiving" /\ v.left = w.left /\ v.before = w.before BY <1>0 DEF Work
  <2>4. ~ArchiveItem(r, s) BY <2>1 DEF ArchiveItem
  <2> HIDE DEF v
  <2>5. Archived(v, manifest'[r].items, note') BY <2>2, <2>3 DEF Archived
  <2> QED BY <1>14, <1>15, <2>1, <2>4, <2>5
<1>22. CASE AskModel(r, s)
  <2>1. PICK final : work' = [work EXCEPT ![r][s] = [w EXCEPT !.pc = "deciding", !.final = final]]
    BY <1>22 DEF AskModel
  <2>2. note' = note /\ w.pc = "asking" BY <1>22 DEF AskModel
  <2> DEFINE v == [w EXCEPT !.pc = "deciding", !.final = final]
  <2>3. v.pc = "deciding" BY <1>0 DEF Work
  <2>4. work' = [work EXCEPT ![r][s] = v] BY <2>1
  <2>5. ~ArchiveItem(r, s) BY <2>2 DEF ArchiveItem
  <2> HIDE DEF v
  <2> QED BY <1>16, <2>2, <2>3, <2>4, <2>5
<1>23. CASE MoveSource(r, s)
  <2>1. PICK path : work' = [work EXCEPT ![r][s] = [w EXCEPT !.pc = "recording", !.path = path]]
    BY <1>23 DEF MoveSource
  <2>2. note' = note /\ w.pc = "writing" BY <1>23 DEF MoveSource
  <2> DEFINE v == [w EXCEPT !.pc = "recording", !.path = path]
  <2>3. v.pc = "recording" BY <1>0 DEF Work
  <2>4. work' = [work EXCEPT ![r][s] = v] BY <2>1
  <2>5. ~ArchiveItem(r, s) BY <2>2 DEF ArchiveItem
  <2> HIDE DEF v
  <2> QED BY <1>16, <2>2, <2>3, <2>4, <2>5
<1>24. CASE LeavePending(r, s) \/ RecordPath(r, s)
  <2>1. PICK x : work' = [work EXCEPT ![r][s] = [Idle("done") EXCEPT !.result = x]]
    BY <1>24 DEF LeavePending, RecordPath
  <2>2. note' = note /\ w.pc \in {"deciding", "recording"} BY <1>24 DEF LeavePending, RecordPath
  <2> DEFINE v == [Idle("done") EXCEPT !.result = x]
  <2>3. v.pc = "done" BY PendingHasPlace
  <2>4. work' = [work EXCEPT ![r][s] = v] BY <2>1
  <2>5. ~ArchiveItem(r, s) BY <2>2 DEF ArchiveItem
  <2> HIDE DEF v
  <2> QED BY <1>16, <2>2, <2>3, <2>4, <2>5
<1>25. CASE (FailSource(r, s) \/ SourceGone(r, s)) /\ ~ArchiveItem(r, s)
  <2> DEFINE v == Idle("done")
  <2>1. work' = [work EXCEPT ![r][s] = v] /\ note' = note
    BY <1>25 DEF FailSource, SourceGone, EndFailed
  <2>2. v.pc = "done" BY IdleHasPlace
  <2> HIDE DEF v
  <2> QED BY <1>16, <1>25, <2>1, <2>2
<1> QED
  BY <1>17, <1>18, <1>19, <1>20, <1>21, <1>22, <1>23, <1>24, <1>25 DEF SourceStep

\* Who works when nobody overlaps.
LEMMA AllAtRest ==
  ASSUME TypeInv, \A q \in Runs : ~Running(q)
  PROVE  \A q \in Runs, t \in Sources : \A items, n : Archived(work[q][t], items, n)
BY DEF TypeInv, LockInv, AtRest, Resting, Archived

\* A run that begins is the last of the runs not undone, and the one before it
\* leaves the notes as the new one finds them.
LEMMA StartChain ==
  ASSUME UndoInv, Orderly', NEW r \in Runs, StartRun(r)
  PROVE  /\ Len(history.done) \in Nat /\ DOMAIN history.done = 1 .. Len(history.done)
         /\ DOMAIN history'.done = 1 .. Len(history.done) + 1
         /\ Len(history'.done) = Len(history.done) + 1
         /\ history'.done[Len(history.done) + 1] = r
         /\ \A k \in 1 .. Len(history.done) + 1 : k = Len(history.done) + 1 => After(k)' = note
         /\ \A k \in 1 .. Len(history.done) :
              /\ history'.done[k] = history.done[k] /\ After(k)' = After(k)
              /\ history.done[k] # r /\ history.done[k] \in Runs
<1>0. TypeInv /\ history.first \in [Runs -> [Dests -> Content]] /\ history.done \in Seq(Runs)
  BY DEF UndoInv, RecInv, TypeInv, TypeOK, History
<1>1. /\ Orderly /\ history'.done = Append(history.done, r)
      /\ history'.first = [history.first EXCEPT ![r] = note]
  BY <1>0, StartOrder
<1>2. Distinct /\ run[r].phase = "none" /\ note' = note BY <1>1 DEF UndoInv, StartRun
<1> DEFINE n == Len(history.done)
<1>3. /\ n \in Nat /\ DOMAIN history.done = 1 .. n
      /\ \A k \in DOMAIN history.done : history.done[k] \in Runs
  BY <1>0, LenProperties, ElementOfSeq
<1>4. /\ DOMAIN history'.done = 1 .. n + 1 /\ Len(history'.done) = n + 1
      /\ history'.done[n + 1] = r
      /\ \A k \in 1 .. n : history'.done[k] = history.done[k]
  BY <1>0, <1>1
<1> HIDE DEF n
<1>5. \A k \in 1 .. n : history.done[k] # r /\ history.done[k] \in Runs
  BY <1>2, <1>3 DEF Distinct
<1>6. \A k \in 1 .. n + 1 : k = n + 1 => After(k)' = note BY <1>2, <1>4 DEF After
<1>7. ASSUME NEW k \in 1 .. n PROVE After(k)' = After(k)
  <2>1. k + 1 \in 1 .. n + 1 /\ k # n + 1 BY <1>3
  <2>2. After(k)' = history'.first[history'.done[k + 1]] BY <1>4, <2>1 DEF After
  <2>3. CASE k = n BY <1>0, <1>1, <1>4, <2>2, <2>3 DEF After, n
  <2>4. CASE k # n
    <3>1. k + 1 \in 1 .. n BY <1>3, <2>4
    <3>2. history'.first[history.done[k + 1]] = history.first[history.done[k + 1]]
      BY <1>0, <1>1, <1>5, <3>1
    <3> QED BY <1>4, <2>2, <2>4, <3>1, <3>2 DEF After, n
  <2> QED BY <2>3, <2>4
<1> QED BY <1>3, <1>4, <1>5, <1>6, <1>7 DEF n

LEMMA UndoStart == ASSUME UndoInv, RecInv', Alone', Orderly', NEW r \in Runs, StartRun(r) PROVE UndoInv'
<1>0. /\ TypeInv /\ TypeInv' /\ history.first \in [Runs -> [Dests -> Content]]
      /\ history.done \in Seq(Runs)
  BY DEF UndoInv, RecInv, TypeInv, TypeOK, History
<1>1. /\ Orderly /\ Quiet /\ history'.done = Append(history.done, r)
      /\ history'.first = [history.first EXCEPT ![r] = note]
  BY <1>0, StartOrder
<1>2. history.raced = {} /\ Distinct /\ Chain BY <1>1 DEF UndoInv
<1>3. /\ run[r].phase = "none" /\ UNCHANGED <<note, manifest, rollback>> BY DEF StartRun
<1>4. manifest[r].items = <<>> BY <1>3 DEF UndoInv, RecInv, Begun
<1>5. PICK chosen :
        /\ run' = [run EXCEPT ![r] = [phase |-> "running", chosen |-> chosen, feeding |-> TRUE]]
        /\ work' = [work EXCEPT ![r] = [s \in Sources |-> Idle(IF s \in chosen THEN "queued" ELSE "idle")]]
  BY DEF StartRun
<1>6. \A q \in Runs, t \in Sources :
        work'[q][t] = work[q][t] \/ work'[q][t].pc \in {"queued", "idle"}
  BY <1>0, <1>5, IdleHasPlace DEF TypeInv, TypeOK
<1>7. ASSUME NEW q \in Runs, NEW t \in Sources
      PROVE  Archived(work'[q][t], manifest'[q].items, note')
  <2>1. \A p \in Runs : ~Running(p) BY <1>1 DEF Quiet
  <2>2. Archived(work[q][t], manifest'[q].items, note') BY <1>0, <2>1, AllAtRest
  <2>3. CASE work'[q][t] = work[q][t] BY <2>2, <2>3
  <2>4. CASE work'[q][t].pc \in {"queued", "idle"} BY <2>4 DEF Archived
  <2> QED BY <1>6, <2>3, <2>4
<1>8. Undoing' BY <1>1, <1>3 DEF Undoing, Quiet
<1>9. history'.raced = history.raced BY <1>0 DEF StartRun, History, TypeInv, TypeOK
<1> DEFINE n == Len(history.done)
<1>10. /\ n \in Nat /\ DOMAIN history.done = 1 .. n
       /\ DOMAIN history'.done = 1 .. n + 1 /\ Len(history'.done) = n + 1
       /\ history'.done[n + 1] = r
       /\ \A k \in 1 .. n + 1 : k = n + 1 => After(k)' = note
       /\ \A k \in 1 .. n : history'.done[k] = history.done[k] /\ After(k)' = After(k)
  BY StartChain
<1> HIDE DEF n
<1>12. \A k \in 1 .. n : history.done[k] # r /\ history.done[k] \in Runs BY StartChain DEF n
<1>13. run'[r].phase = "running" /\ \A q \in Runs : q # r => run'[q] = run[q]
  BY <1>0, <1>5 DEF TypeInv, TypeOK
<1>14. Distinct'
  <2>1. \A k \in 1 .. n + 1 : k \in 1 .. n \/ k = n + 1 BY <1>10
  <2>2. \A k \in 1 .. n + 1 : run'[history'.done[k]].phase # "none"
    <3>1. \A k \in 1 .. n : run[history.done[k]].phase # "none" BY <1>2, <1>10 DEF Distinct
    <3> QED BY <1>10, <1>12, <1>13, <2>1, <3>1
  <2>3. \A k, l \in 1 .. n + 1 : history'.done[k] = history'.done[l] => k = l
    BY <1>2, <1>10, <1>12, <2>1 DEF Distinct
  <2> QED BY <1>10, <2>2, <2>3 DEF Distinct
<1>15. Chain'
  <2> SUFFICES ASSUME NEW k \in 1 .. n + 1
               PROVE  GivesBack(manifest[history'.done[k]].items, After(k)', history'.first[history'.done[k]])
    BY <1>3, <1>10 DEF Chain
  <2>1. CASE k = n + 1
    <3>1. After(k)' = note BY <1>10, <2>1
    <3>2. history'.first[r] = note BY <1>0, <1>1
    <3>3. GivesBack(<<>>, note, note) BY DEF GivesBack, Touching
    <3> QED BY <1>4, <1>10, <2>1, <3>1, <3>2, <3>3
  <2>2. CASE k \in 1 .. n
    <3>1. history'.first[history.done[k]] = history.first[history.done[k]] BY <1>0, <1>1, <1>12, <2>2
    <3>2. GivesBack(manifest[history.done[k]].items, After(k), history.first[history.done[k]])
      BY <1>2, <1>10, <2>2 DEF Chain
    <3> QED BY <1>10, <2>2, <3>1, <3>2
  <2> QED BY <1>10, <2>1, <2>2
<1> QED BY <1>2, <1>7, <1>8, <1>9, <1>14, <1>15 DEF UndoInv

\* A step that leaves the notes, the order and what undoing reads.
LEMMA UndoFrame ==
  ASSUME UndoInv, RecInv', Alone', Orderly, UNCHANGED note,
         history'.done = history.done, history'.first = history.first,
         history'.raced = history.raced,
         \A q \in Runs : manifest'[q].items = manifest[q].items,
         \A q \in Runs : run'[q].phase = "none" => run[q].phase = "none",
         \A q \in Runs, t \in Sources : work'[q][t] = work[q][t] \/ work'[q][t].pc = "idle",
         Undoing'
  PROVE  UndoInv'
<1>1. /\ history.raced = {} /\ Distinct /\ Chain
      /\ \A q \in Runs, t \in Sources : Archived(work[q][t], manifest[q].items, note)
  BY DEF UndoInv
<1>2. history.done \in Seq(Runs) BY TopTyped DEF UndoInv, RecInv, TypeInv
<1>3. \A k \in DOMAIN history.done : history.done[k] \in Runs BY <1>2, LenProperties, ElementOfSeq
<1>4. Distinct' BY <1>1, <1>3 DEF Distinct
<1>5. \A k \in DOMAIN history.done : After(k)' = After(k) BY DEF After
<1>6. Chain' BY <1>1, <1>3, <1>5 DEF Chain
<1>7. \A q \in Runs, t \in Sources : Archived(work'[q][t], manifest'[q].items, note')
  BY <1>1 DEF Archived
<1> QED BY <1>1, <1>4, <1>6, <1>7 DEF UndoInv

LEMMA UndoRuns ==
  ASSUME UndoInv, RecInv', Alone', Orderly', NEW r \in Runs, StopFeeding(r) \/ FinalizeRun(r)
  PROVE  UndoInv'
<1>0. TypeInv /\ run \in [Runs -> Run] /\ manifest \in [Runs -> Manifest]
  BY DEF UndoInv, RecInv, TypeInv, TypeOK
<1>1. /\ Running(r) /\ rollback' = rollback /\ history'.done = history.done
      /\ history'.first = history.first /\ Orderly
  BY <1>0, EndOrder DEF Orderly
<1>2. rollback.run = NoRun BY <1>1 DEF UndoInv, Alone
<1>3. UNCHANGED <<note, work>> BY DEF StopFeeding, FinalizeRun
<1>4. history'.raced = history.raced BY <1>0, FaultTyped DEF StopFeeding, FinalizeRun, TypeInv
<1>5. \A q \in Runs : manifest'[q].items = manifest[q].items
  <2>1. \/ manifest' = manifest
        \/ \E status : manifest' = [manifest EXCEPT ![r] = [manifest[r] EXCEPT !.status = status]]
    BY DEF StopFeeding, FinalizeRun, Finalized
  <2>2. \A status : [manifest[r] EXCEPT !.status = status].items = manifest[r].items
    BY <1>0 DEF Manifest
  <2> QED BY <1>0, <2>1, <2>2
<1>6. \A q \in Runs : run'[q].phase = "none" => run[q].phase = "none"
  <2>1. \/ run' = [run EXCEPT ![r] = [run[r] EXCEPT !.feeding = FALSE]]
        \/ run' = [run EXCEPT ![r] = [run[r] EXCEPT !.phase = "done", !.feeding = FALSE]]
    BY DEF StopFeeding, FinalizeRun
  <2>2. /\ [run[r] EXCEPT !.feeding = FALSE].phase = run[r].phase
        /\ [run[r] EXCEPT !.phase = "done", !.feeding = FALSE].phase = "done"
    BY <1>0 DEF Run
  <2> QED BY <1>0, <2>1, <2>2
<1>7. Undoing' BY <1>1, <1>2 DEF Undoing
<1> QED BY <1>1, <1>3, <1>4, <1>5, <1>6, <1>7, UndoFrame

\* The rollback ends in the middle, or the server does.
LEMMA UndoStopped ==
  ASSUME UndoInv, RecInv', Alone', Orderly', Crash \/ FailRollback
  PROVE  UndoInv'
<1>0. TypeInv /\ run \in [Runs -> Run] BY DEF UndoInv, RecInv, TypeInv, TypeOK
<1>1. rollback' = NoRollback /\ UNCHANGED <<note, manifest>> /\ Fault BY DEF Crash, FailRollback
<1>2. /\ history'.done = history.done /\ history'.first = history.first
      /\ history'.overlaps = history.overlaps /\ history'.raced = history.raced
  BY <1>0, <1>1, FaultKeepsOrder, FaultTyped DEF TypeInv
<1>3. Orderly /\ Undoing' BY <1>1, <1>2 DEF Orderly, Undoing, NoRollback
<1>4. \A q \in Runs, t \in Sources : work'[q][t] = work[q][t] \/ work'[q][t].pc = "idle"
  <2>1. CASE Crash
    <3>1. work' = [p \in Runs |-> [u \in Sources |-> IF Running(p) THEN Idle("idle") ELSE work[p][u]]]
      BY <2>1 DEF Crash
    <3>2. Idle("idle").pc = "idle" BY IdleHasPlace
    <3> HIDE DEF Idle
    <3> QED BY <3>1, <3>2
  <2>2. CASE FailRollback BY <2>2 DEF FailRollback
  <2> QED BY <2>1, <2>2
<1>5. \A q \in Runs : run'[q].phase = "none" => run[q].phase = "none"
  <2>1. \A q \in Runs : [run[q] EXCEPT !.phase = "crashed", !.feeding = FALSE].phase = "crashed"
    BY <1>0 DEF Run
  <2> QED BY <2>1 DEF Crash, FailRollback
<1> QED BY <1>1, <1>2, <1>3, <1>4, <1>5, UndoFrame

LEMMA UndoBegin ==
  ASSUME UndoInv, RecInv', Alone', Orderly', NEW r \in Runs, BeginRollback(r)
  PROVE  UndoInv'
<1>0. TypeInv /\ manifest[r] \in Manifest /\ TypeInv' BY DEF UndoInv, RecInv, TypeInv, TypeOK
<1>1. /\ Orderly /\ Quiet /\ history'.done = history.done /\ history'.first = history.first
  BY <1>0, BeginOrder
<1>2. /\ rollback'.read = manifest[r].items /\ rollback'.items = manifest[r].items /\ rollback'.run = r
      /\ history'.raced = history.raced
  BY <1>0, <1>1, BeginTyped DEF TypeInv, Quiet
<1>3. rollback'.left = NotesOfLast(manifest[r].items)
  BY DEF BeginRollback, NoRollback
<1>4. UNCHANGED <<note, manifest, run, work>> BY DEF BeginRollback
<1>5. Undoing'
  <2>1. Later' = {} BY <1>2 DEF Later
  <2>2. LastItem' = manifest[r].items[Len(manifest[r].items)] BY <1>2 DEF LastItem
  <2>3. manifest[r].items # <<>> /\ LastItem'.status = "processed" => rollback'.left = DOMAIN LastItem'.before
    BY <1>3, <2>2 DEF NotesOfLast
  <2> QED BY <1>2, <2>1, <2>3 DEF Undoing
<1> QED BY <1>1, <1>2, <1>4, <1>5, UndoFrame

LEMMA UndoNext ==
  ASSUME UndoInv, RecInv', Alone', Orderly', rollback.items # <<>>, NextItem,
         rollback.left = {}, UNCHANGED <<note, manifest, run, work, history>>,
         inbox \subseteq inbox', LastItem.status = "processed" => LastItem.source \in inbox'
  PROVE  UndoInv'
<1>0. TypeOK /\ TypeInv BY DEF UndoInv, RecInv, TypeInv
<1>1. Orderly BY DEF Orderly
<1>2. /\ rollback'.run = rollback.run /\ rollback'.read = rollback.read
      /\ rollback'.items = DropLast(rollback.items)
  BY <1>0, NextItemTyped
<1>3. /\ rollback.run # NoRun /\ rollback.run = Top /\ rollback.run \in Runs
      /\ Undoing /\ history.raced = {} /\ RollbackOfManifest
  BY <1>1 DEF UndoInv, Alone, RecInv, Undisturbed, TypeInv, TypeOK, Rollback
<1> DEFINE r == rollback.run
           k == Len(rollback.items)
           first == history.first[r]
<1>4. /\ k \in Nat \ {0} /\ DOMAIN rollback.items = 1 .. k
      /\ DOMAIN DropLast(rollback.items) = 1 .. k - 1
      /\ \A i \in 1 .. k - 1 : DropLast(rollback.items)[i] = rollback.items[i]
      /\ rollback.items[k] = LastItem
  <2>1. rollback.items \in Seq(Item) BY <1>0, RollbackTyped
  <2>2. /\ DropLast(rollback.items) \in Seq(Item) /\ k \in Nat \ {0}
        /\ Len(DropLast(rollback.items)) = k - 1
        /\ \A i \in 1 .. k - 1 : DropLast(rollback.items)[i] = rollback.items[i]
    BY <2>1, DropTyped
  <2>3. DOMAIN rollback.items = 1 .. k /\ DOMAIN DropLast(rollback.items) = 1 .. k - 1
    BY <2>1, <2>2, LenProperties
  <2> QED BY <2>2, <2>3 DEF LastItem
<1>5. GivesBack(rollback.read, note, first)
  BY <1>1, <1>3, TopGivesBack DEF RollbackOfManifest
<1>6. \A i \in 1 .. k : i \in DOMAIN rollback.read /\ rollback.items[i] = rollback.read[i]
  BY <1>3, <1>4 DEF RollbackOfManifest
<1> HIDE DEF k, r, first
<1>7. \A i \in Later' : i \in Later \/ i = k BY <1>2, <1>4 DEF Later
<1>8. \A i \in Later' : rollback.read[i].status = "processed" => rollback.read[i].source \in inbox'
  BY <1>3, <1>4, <1>6, <1>7 DEF Undoing
<1>9. \A d \in Dests : Touching(rollback.items, d) =
        Touching(DropLast(rollback.items), d) \cup
          (IF LastItem.status = "processed" /\ d \in DOMAIN LastItem.before THEN {k} ELSE {})
  BY <1>4 DEF Touching
<1>10. \A d \in Dests : \A i \in Touching(rollback.read, d) : i \in 1 .. k => i \in Touching(rollback.items, d)
  BY <1>4, <1>6 DEF Touching
<1>11. DOMAIN rollback.read \subseteq Nat
  <2>1. rollback.read \in Seq(Item) BY <1>0, RollbackTyped
  <2> QED BY <2>1, LenProperties
<1>12. ASSUME NEW d \in Dests, Touching(rollback.read, d) # {}, Touching(DropLast(rollback.items), d) = {}
       PROVE  note[d] = first[d]
  <2>1. CASE Touching(rollback.items, d) = {} BY <1>3, <1>12, <2>1 DEF Undoing, r, first
  <2>2. CASE Touching(rollback.items, d) # {}
    <3>1. /\ LastItem.status = "processed" /\ d \in DOMAIN LastItem.before
          /\ Touching(rollback.items, d) = {k}
      BY <1>9, <1>12, <2>2
    <3>2. k \in Touching(rollback.read, d) BY <1>4, <1>6, <3>1 DEF Touching
    <3>3. ASSUME NEW j \in Touching(rollback.read, d) PROVE k <= j
      <4>1. j \in Nat BY <1>11 DEF Touching
      <4>2. j # 0
        <5>1. rollback.read \in Seq(Item) BY <1>0, RollbackTyped
        <5> QED BY <5>1, LenProperties DEF Touching
      <4>3. j \in 1 .. k => j = k BY <1>10, <3>1
      <4> QED BY <1>4, <4>1, <4>2, <4>3
    <3>4. rollback.read[k].before[d] = first[d] BY <1>5, <3>2, <3>3 DEF GivesBack
    <3>5. LastItem = rollback.read[k] BY <1>4, <1>6
    <3>6. note[d] = LastItem.before[d] BY <1>3, <3>1 DEF Undoing
    <3> QED BY <3>4, <3>5, <3>6
  <2> QED BY <2>1, <2>2
<1>13. ASSUME rollback'.items # <<>>, LastItem'.status = "processed"
       PROVE  rollback'.left = DOMAIN LastItem'.before
  <2>1. rollback'.left = NotesOfLast(rollback'.items)
    BY <1>0, <1>2 DEF NextItem, TypeOK, Rollback
  <2> QED BY <1>13, <2>1 DEF NotesOfLast, LastItem
<1>14. Undoing' BY <1>2, <1>3, <1>8, <1>12, <1>13 DEF Undoing, r, first
<1> QED BY <1>1, <1>14, UndoFrame

LEMMA UndoRestore == ASSUME UndoInv, RecInv', Alone', Orderly', RestoreNote PROVE UndoInv'
<1>0. TypeOK /\ TypeInv /\ TypeInv' /\ note \in [Dests -> Content]
  BY DEF UndoInv, RecInv, TypeInv, TypeOK
<1>1. PICK d \in rollback.left : /\ note' = [note EXCEPT ![d] = LastItem.before[d]]
                                /\ rollback' = [rollback EXCEPT !.left = rollback.left \ {d}]
  BY DEF RestoreNote
<1>2. UNCHANGED <<inbox, moved, manifest, run, work, commit, history>> BY DEF RestoreNote
<1>3. Orderly BY <1>2 DEF Orderly
<1>4. /\ rollback.items # <<>> /\ d \in DOMAIN LastItem.before /\ LastItem.status = "processed"
  BY <1>0, <1>1 DEF TypeInv, Fits
<1>5. /\ rollback.run # NoRun /\ rollback.run = Top /\ rollback.run \in Runs
      /\ Undoing /\ history.raced = {} /\ RollbackOfManifest
  BY <1>3, <1>4 DEF UndoInv, Alone, RecInv, Undisturbed, TypeInv, TypeOK, Rollback
<1>6. /\ rollback'.run = rollback.run /\ rollback'.read = rollback.read
      /\ rollback'.items = rollback.items /\ rollback'.left = rollback.left \ {d}
  BY <1>0, <1>1 DEF TypeOK, Rollback
<1>7. LastItem' = LastItem /\ Later' = Later BY <1>6 DEF LastItem, Later
<1>8. d \in Dests /\ \A e \in Dests : note'[e] = IF e = d THEN LastItem.before[d] ELSE note[e]
  BY <1>0, <1>1, <1>4, LastItemTyped
<1>9. Len(rollback.items) \in Touching(rollback.items, d)
  <2>1. rollback.items \in Seq(Item) BY <1>0, RollbackTyped
  <2>2. Len(rollback.items) \in DOMAIN rollback.items BY <1>4, <2>1, LenProperties, EmptySeq
  <2> QED BY <1>4, <2>2 DEF Touching, LastItem
<1>10. Touching(manifest[Top].items, d) # {}
  BY <1>5, <1>9 DEF RollbackOfManifest, Touching
<1>11. GivesBack(manifest[Top].items, note, history.first[Top]) BY <1>3, <1>5, TopGivesBack
<1>12. GivesBack(manifest'[Top].items, note', history.first[Top])
  BY <1>2, <1>8, <1>10, <1>11 DEF GivesBack
<1>13. Distinct' /\ Chain' BY <1>0, <1>2, <1>3, <1>12, ChainFrame
<1>14. DOMAIN LastItem.before \subseteq Dests BY <1>0, <1>4, LastItemTyped
<1>15. Undoing' BY <1>2, <1>5, <1>6, <1>7, <1>8, <1>9, <1>14 DEF Undoing
<1>16. \A q \in Runs : ~Running(q) BY <1>3, <1>5 DEF UndoInv, Alone
<1>17. \A q \in Runs, t \in Sources : Archived(work'[q][t], manifest'[q].items, note')
  BY <1>0, <1>2, <1>16, AllAtRest
<1> QED BY <1>2, <1>5, <1>13, <1>15, <1>17 DEF UndoInv

\* When nothing is left to undo, the notes are what they were before the run.
LEMMA UndoneNotes ==
  ASSUME UndoInv, Orderly, rollback.run # NoRun, rollback.items = <<>>
  PROVE  /\ rollback.run = Top /\ rollback.run \in Runs /\ note = history.first[rollback.run]
         /\ \A s \in Sources : Applied(rollback.run, s) => s \in inbox
<1> DEFINE r == rollback.run
<1>1. /\ r = Top /\ r \in Runs /\ Undoing /\ RollbackOfManifest
      /\ note \in [Dests -> Content] /\ history.first[r] \in [Dests -> Content]
  BY DEF UndoInv, Alone, RecInv, Undisturbed, TypeInv, TypeOK, Rollback, History
<1>2. GivesBack(rollback.read, note, history.first[r]) BY <1>1, TopGivesBack DEF RollbackOfManifest
<1>3. \A d \in Dests : Touching(rollback.items, d) = {} BY DEF Touching
<1>4. \A d \in Dests : note[d] = history.first[r][d] BY <1>1, <1>2, <1>3 DEF Undoing, GivesBack
<1>5. note = history.first[r] BY <1>1, <1>4
<1>6. Later = DOMAIN rollback.read BY DEF Later
<1>7. \A s \in Sources : Applied(r, s) => s \in inbox
  BY <1>1, <1>6 DEF Applied, Undoing, RollbackOfManifest
<1> QED BY <1>1, <1>5, <1>7

\* Undoing the newest run gives the notes of the one before it back.
LEMMA FinishChain ==
  ASSUME UndoInv, Orderly', FinishRollback
  PROVE  /\ DOMAIN history'.done \subseteq DOMAIN history.done
         /\ \A k \in DOMAIN history'.done :
              /\ history'.done[k] = history.done[k] /\ history.done[k] # Top
              /\ history.done[k] \in Runs /\ After(k)' = After(k)
<1>0. TypeOK /\ TypeInv BY DEF UndoInv, RecInv, TypeInv
<1>1. rollback.run # NoRun /\ rollback.items = <<>> /\ note' = note BY DEF FinishRollback
<1>2. Orderly /\ history'.first = history.first BY <1>0, FinishOrder DEF Orderly
<1>3. rollback.run = Top /\ note = history.first[Top] /\ Distinct
  BY <1>1, <1>2, UndoneNotes DEF UndoInv
<1>4. history.done \in Seq(Runs) /\ history.done # <<>> /\ history'.done = DropLast(history.done)
  BY <1>0, <1>3, FinishOrder, TopTyped
<1> DEFINE n == Len(history.done)
<1>5. /\ DropLast(history.done) \in Seq(Runs) /\ n \in Nat \ {0}
      /\ Len(history'.done) = n - 1
      /\ \A k \in 1 .. n - 1 : history'.done[k] = history.done[k]
  BY <1>4, DropTyped
<1>6. /\ DOMAIN history.done = 1 .. n /\ DOMAIN history'.done = 1 .. n - 1
      /\ history.done[n] = Top /\ \A k \in 1 .. n : history.done[k] \in Runs
  BY <1>4, <1>5, LenProperties, ElementOfSeq DEF Top
<1> HIDE DEF n
<1>7. \A k \in 1 .. n - 1 : history.done[k] # Top
  <2>1. n \in 1 .. n /\ \A k \in 1 .. n - 1 : k \in 1 .. n /\ k # n BY <1>5
  <2> QED BY <1>3, <1>6, <2>1 DEF Distinct
<1>8. ASSUME NEW k \in 1 .. n - 1 PROVE After(k)' = After(k)
  <2>1. k # n /\ k + 1 \in 1 .. n BY <1>5
  <2>2. CASE k = n - 1
    <3>1. k + 1 = n BY <1>5, <2>2
    <3>2. After(k) = history.first[Top] BY <1>6, <2>1, <3>1 DEF After, n
    <3>3. After(k)' = note BY <1>1, <1>5, <2>2 DEF After
    <3> QED BY <1>3, <3>2, <3>3
  <2>3. CASE k # n - 1
    <3>1. k + 1 \in 1 .. n - 1 BY <1>5, <2>3
    <3> QED BY <1>2, <1>5, <2>1, <2>3, <3>1 DEF After, n
  <2> QED BY <2>2, <2>3
<1> QED BY <1>5, <1>6, <1>7, <1>8

LEMMA UndoFinish == ASSUME UndoInv, RecInv', Alone', Orderly', FinishRollback PROVE UndoInv'
<1>0. TypeOK /\ TypeInv /\ TypeInv' BY DEF UndoInv, RecInv, TypeInv
<1>1. /\ rollback.run # NoRun /\ rollback.items = <<>> /\ rollback' = NoRollback
      /\ manifest' = [manifest EXCEPT ![rollback.run] =
                        [status |-> "restored", restored |-> TRUE, items |-> rollback.read]]
      /\ UNCHANGED <<note, inbox, run, work>>
  BY DEF FinishRollback
<1>2. Orderly /\ history'.first = history.first BY <1>0, FinishOrder DEF Orderly
<1>3. /\ rollback.run = Top /\ rollback.run \in Runs /\ note = history.first[Top]
      /\ RollbackOfManifest /\ Distinct /\ Chain /\ history.raced = {}
  BY <1>1, <1>2, UndoneNotes DEF UndoInv, RecInv, Undisturbed
<1>5. /\ DOMAIN history'.done \subseteq DOMAIN history.done
      /\ \A k \in DOMAIN history'.done :
           /\ history'.done[k] = history.done[k] /\ After(k)' = After(k)
           /\ history.done[k] \in Runs
  BY FinishChain
<1>6. \A q \in Runs : manifest'[q].items = manifest[q].items
  BY <1>0, <1>1, <1>3 DEF RollbackOfManifest, TypeOK
<1>7. Distinct' BY <1>1, <1>3, <1>5 DEF Distinct
<1>9. Chain' BY <1>2, <1>3, <1>5, <1>6 DEF Chain
<1>10. Undoing' BY <1>1 DEF Undoing, NoRollback
<1>11. \A q \in Runs : ~Running(q) BY <1>1, <1>2 DEF UndoInv, Alone
<1>12. \A q \in Runs, t \in Sources : Archived(work'[q][t], manifest'[q].items, note')
  BY <1>0, <1>1, <1>11, AllAtRest
<1>13. history'.raced = history.raced BY <1>0 DEF FinishRollback, TypeOK, History
<1> QED BY <1>3, <1>7, <1>9, <1>10, <1>12, <1>13 DEF UndoInv

LEMMA StepKeepsUndo == UndoInv /\ [Next]_vars => UndoInv'
<1> SUFFICES ASSUME UndoInv, [Next]_vars PROVE UndoInv' OBVIOUS
<1>0. RecInv' /\ Alone' /\ TypeInv BY StepKeepsSources, StepKeepsAlone DEF UndoInv, RecInv
<1>1. SUFFICES ASSUME Orderly' PROVE UndoInv' BY <1>0 DEF UndoInv
<1>2. Orderly BY <1>0, <1>1, OrderOnlyLost
<1>3. CASE \E r \in Runs : StartRun(r) \/ StopFeeding(r) \/ FinalizeRun(r) \/ BeginRollback(r)
  BY <1>0, <1>1, <1>3, UndoStart, UndoRuns, UndoBegin
<1>4. CASE \E r \in Runs, s \in Sources : SourceStep(r, s) BY <1>0, <1>1, <1>4, UndoSource
<1>5. CASE PassItem
  <2>1. rollback.left = {} BY <1>0, <1>5 DEF PassItem, TypeInv, Fits
  <2> QED BY <1>0, <1>1, <1>5, <2>1, UndoNext DEF PassItem
<1>6. CASE RestoreSource BY <1>0, <1>1, <1>6, UndoNext DEF RestoreSource
<1>7. CASE RestoreNote BY <1>0, <1>1, <1>7, UndoRestore
<1>8. CASE FinishRollback BY <1>0, <1>1, <1>8, UndoFinish
<1>9. CASE FailRollback \/ Crash BY <1>0, <1>1, <1>9, UndoStopped
<1>10. CASE UNCHANGED vars
  <2>1. Undoing' BY <1>2, <1>10 DEF UndoInv, Undoing, vars, Later, LastItem
  <2> QED BY <1>0, <1>2, <1>10, <2>1, UndoFrame DEF vars
<1> QED BY <1>3, <1>4, <1>5, <1>6, <1>7, <1>8, <1>9, <1>10 DEF Next, RollbackStep

LEMMA InitUndo == Init => UndoInv
<1> SUFFICES ASSUME Init PROVE UndoInv OBVIOUS
<1>1. \A r \in Runs, s \in Sources : work[r][s].pc = "idle" BY IdleHasPlace DEF Init
<1>2. history.done = <<>> /\ history.raced = {} /\ rollback.run = NoRun BY DEF Init, NoRollback
<1>3. Distinct /\ Chain /\ Undoing BY <1>2 DEF Distinct, Chain, Undoing
<1>4. \A r \in Runs, s \in Sources : Archived(work[r][s], manifest[r].items, note)
  BY <1>1 DEF Archived
<1> QED BY <1>2, <1>3, <1>4, InitSources, InitAlone DEF UndoInv

\* A rollback ends by marking its run restored only when everything is undone.
LEMMA RestoredAtTheEnd ==
  ASSUME UndoInv, [Next]_vars, Orderly', NEW r \in Runs, rollback.run = r, rollback'.run = NoRun,
         manifest'[r].restored # manifest[r].restored
  PROVE  /\ note' = history.first[r]
         /\ \A s \in Sources : Applied(r, s) => s \in inbox'
<1>0. TypeInv /\ TypeOK BY DEF UndoInv, RecInv, TypeInv
<1>1. Orderly /\ r # NoRun BY <1>0, OrderOnlyLost, InboxAssumption
<1>2. FinishRollback
  <2>1. CASE \E q \in Runs : StartRun(q) \/ StopFeeding(q) \/ FinalizeRun(q)
    BY <1>1, <2>1 DEF StartRun, StopFeeding, FinalizeRun
  <2>2. CASE \E q \in Runs : BeginRollback(q) BY <1>1, <2>2 DEF BeginRollback
  <2>3. CASE \E q \in Runs, s \in Sources : SourceStep(q, s) BY <1>0, <1>1, <2>3, SourceOrder
  <2>4. CASE RollbackStep BY <2>4 DEF RollbackStep, PassItem, RestoreNote, RestoreSource, FailRollback
  <2>5. CASE Crash BY <2>5 DEF Crash
  <2>6. CASE UNCHANGED vars BY <2>6 DEF vars
  <2> QED BY <2>1, <2>2, <2>3, <2>4, <2>5, <2>6 DEF Next
<1>3. rollback.items = <<>> /\ note' = note /\ inbox' = inbox BY <1>2 DEF FinishRollback
<1> QED BY <1>1, <1>3, UndoneNotes

\* When jobs do not overlap and runs are undone newest first, a rollback that
\* completes has given every destination note the text it had before the run and
\* has put every source the run applied back in the inbox, whatever failed and
\* whenever the server died, and also when earlier attempts stopped half-way
\* (rollbackInboxRun, inbox_archive.go:464-535).
THEOREM RollbacksAlwaysRestore == Spec => RollbackRestores
<1>1. UndoInv /\ [Next]_vars =>
        [\A r \in Runs :
           (rollback.run = r /\ rollback'.run = NoRun /\ Orderly'
              /\ manifest'[r].status = "restored" /\ manifest'[r].restored # manifest[r].restored)
           => /\ note' = history.first[r]
              /\ \A s \in Sources : Applied(r, s) => s \in inbox']_vars
  BY RestoredAtTheEnd
<1> QED BY InitUndo, StepKeepsUndo, <1>1, PTL DEF Spec, RollbackRestores

\* -------------------------------------------------- completed means merged
FactsIn(n) == UNION {n[d] : d \in Dests}
Merged(r, s) == work[r][s].result = "processed"
Named(items) == {items[i].source : i \in DOMAIN items}

\* A worker with text w for s, notes n and inbox box: what it has to write holds
\* the fact of s, and once nothing is left to write the notes do.
Merging(w, s, n, box) ==
  /\ w.result = "processed" => w.pc = "done"
  /\ w.pc = "duplicate" => s \in FactsIn(n)
  /\ w.pc = "deciding" => \A d \in DOMAIN w.final : s \in w.final[d]
  /\ w.pc \in {"archiving", "writing"} =>
       /\ \A d \in w.left : s \in w.final[d]
       /\ w.left = {} => s \in FactsIn(n)
  /\ w.pc = "recording" => s \notin box /\ s \in FactsIn(n)

\* A manifest that says completed belongs to a run that merged all it chose.
Completed ==
  \A r \in Runs : manifest[r].status = "completed" =>
    run[r].phase = "done" /\ \A s \in run[r].chosen : Merged(r, s)
Own == \A r \in Runs : Named(manifest[r].items) \subseteq run[r].chosen

\* What a run merged is out of the inbox and in the notes it left, and later runs
\* did not choose it, unless somebody began to undo the run.
Stays ==
  \A k \in DOMAIN history.done : history.done[k] \notin history.tried =>
    \A s \in Sources : Merged(history.done[k], s) => s \notin inbox /\ s \in FactsIn(After(k))
Apart ==
  \A k, l \in DOMAIN history.done : k < l /\ history.done[k] \notin history.tried =>
    \A s \in run[history.done[l]].chosen : ~Merged(history.done[k], s)

MergeInv ==
  /\ GrowInv /\ UndoInv
  /\ Orderly =>
       /\ Completed /\ Own /\ Stays /\ Apart
       /\ rollback.run # NoRun => rollback.run \in history.tried
       /\ \A r \in Runs, s \in Sources : Merging(work[r][s], s, note, inbox)

LEMMA MergingGrows ==
  ASSUME NEW w, NEW s, NEW n, NEW m, NEW a, NEW b, Merging(w, s, n, a), b \subseteq a,
         \A d \in Dests : n[d] \subseteq m[d]
  PROVE  Merging(w, s, m, b)
<1>1. s \in FactsIn(n) => s \in FactsIn(m) BY DEF FactsIn
<1> QED BY <1>1 DEF Merging

\* A worker that rests merges nothing.
LEMMA RestingMerges ==
  ASSUME NEW w, NEW s, NEW n, NEW m, NEW a, NEW b, Merging(w, s, n, a), w.pc \in Resting
  PROVE  Merging(w, s, m, b)
BY DEF Merging, Resting

LEMMA TopIsLast ==
  ASSUME UndoInv, Orderly
  PROVE  /\ Len(history.done) \in Nat /\ DOMAIN history.done = 1 .. Len(history.done)
         /\ \A k \in DOMAIN history.done :
              /\ history.done[k] \in Runs
              /\ k = Len(history.done) => history.done[k] = Top /\ After(k) = note
              /\ k # Len(history.done) =>
                   history.done[k] # Top /\ \E l \in DOMAIN history.done : history.done[l] = Top /\ k < l
<1>1. history.done \in Seq(Runs) /\ Distinct BY TopTyped DEF UndoInv, RecInv, TypeInv
<1> DEFINE n == Len(history.done)
<1>2. /\ n \in Nat /\ DOMAIN history.done = 1 .. n
      /\ \A k \in DOMAIN history.done : history.done[k] \in Runs
  BY <1>1, LenProperties, ElementOfSeq
<1>3. \A k \in DOMAIN history.done : history.done # <<>> BY EmptySeq
<1>4. \A k \in DOMAIN history.done : k = n => history.done[k] = Top /\ After(k) = note
  BY <1>3 DEF Top, After
<1> HIDE DEF n
<1>5. ASSUME NEW k \in DOMAIN history.done, k # n
      PROVE  history.done[k] # Top /\ \E l \in DOMAIN history.done : history.done[l] = Top /\ k < l
  <2>1. n \in DOMAIN history.done /\ k < n BY <1>2, <1>5
  <2>2. history.done[n] = Top BY <1>4, <2>1
  <2>3. history.done[k] # history.done[n] BY <1>1, <1>5, <2>1 DEF Distinct
  <2> QED BY <2>1, <2>2, <2>3
<1> QED BY <1>2, <1>4, <1>5 DEF n

\* A step that starts no run and ends no rollback: only the newest run merges more,
\* and nothing that stays is touched unless the newest run is being undone.
LEMMA MergeFrame ==
  ASSUME MergeInv, GrowInv', UndoInv', Orderly,
         history'.done = history.done, history'.first = history.first,
         history.tried \subseteq history'.tried,
         \A q \in Runs : run'[q].chosen = run[q].chosen,
         Completed', Own', rollback'.run # NoRun => rollback'.run \in history'.tried,
         \A q \in Runs, t \in Sources : Merging(work'[q][t], t, note', inbox'),
         \A q \in Runs, t \in Sources : Merged(q, t)' =>
           Merged(q, t) \/ (q = Top /\ t \notin inbox' /\ t \in FactsIn(note')),
         \/ inbox' \subseteq inbox
         \/ Top \in history'.tried /\ inbox' \subseteq inbox \cup run[Top].chosen,
         Top \in history'.tried \/ \A d \in Dests : note[d] \subseteq note'[d]
  PROVE  MergeInv'
<1>1. Stays /\ Apart /\ UndoInv BY DEF MergeInv
<1> DEFINE n == Len(history.done)
<1>2. \A k \in DOMAIN history.done :
        /\ history.done[k] \in Runs
        /\ k = n => history.done[k] = Top /\ After(k) = note /\ After(k)' = note'
        /\ k # n => /\ history.done[k] # Top /\ After(k)' = After(k)
                    /\ \E l \in DOMAIN history.done : history.done[l] = Top /\ k < l
  BY <1>1, TopIsLast DEF After
<1> HIDE DEF n
<1>3. \A s : s \in FactsIn(note) /\ Top \notin history'.tried => s \in FactsIn(note') BY DEF FactsIn
<1>4. ASSUME NEW k \in DOMAIN history.done, history.done[k] \notin history'.tried,
             NEW s \in Sources, Merged(history.done[k], s)'
      PROVE  s \notin inbox' /\ s \in FactsIn(After(k)')
  <2>1. history.done[k] \notin history.tried BY <1>4
  <2>2. CASE k = n
    <3>1. CASE Merged(history.done[k], s)
      <4>1. s \notin inbox /\ s \in FactsIn(note) BY <1>1, <1>2, <2>1, <2>2, <3>1 DEF Stays
      <4> QED BY <1>2, <1>3, <1>4, <2>2, <4>1
    <3>2. CASE ~Merged(history.done[k], s) BY <1>2, <1>4, <2>2, <3>2
    <3> QED BY <3>1, <3>2
  <2>3. CASE k # n
    <3>1. Merged(history.done[k], s) BY <1>2, <1>4, <2>3
    <3>2. s \notin inbox /\ s \in FactsIn(After(k)) BY <1>1, <2>1, <3>1 DEF Stays
    <3>3. s \notin run[Top].chosen
      <4>1. PICK l \in DOMAIN history.done : history.done[l] = Top /\ k < l BY <1>2, <2>3
      <4> QED BY <1>1, <2>1, <3>1, <4>1 DEF Apart
    <3> QED BY <1>2, <2>3, <3>2, <3>3
  <2> QED BY <2>2, <2>3
<1>5. Stays' BY <1>4 DEF Stays
<1>6. Apart'
  <2> SUFFICES ASSUME NEW k \in DOMAIN history.done, NEW l \in DOMAIN history.done, k < l,
                      history.done[k] \notin history'.tried, NEW s \in run'[history.done[l]].chosen,
                      Merged(history.done[k], s)'
               PROVE  FALSE
    BY DEF Apart
  <2>1. history.done[l] \in Runs /\ history.done[k] \in Runs BY <1>2
  <2>2. s \in run[history.done[l]].chosen /\ s \in Sources
    BY <2>1 DEF MergeInv, GrowInv, TypeInv, TypeOK, Run
  <2>3. k # n
    <3>1. DOMAIN history.done = 1 .. n /\ n \in Nat BY <1>1, TopIsLast DEF n
    <3> QED BY <3>1
  <2>4. Merged(history.done[k], s) BY <1>2, <2>1, <2>2, <2>3
  <2> QED BY <1>1, <2>2, <2>4 DEF Apart
<1> QED BY <1>5, <1>6 DEF MergeInv

\* What a step of source s does to the manifest of its run.
Grown(m, n, s) ==
  /\ Named(n.items) \subseteq Named(m.items) \cup {s}
  /\ n.status = "completed" => m.status = "completed"

LEMMA GrownSteps ==
  ASSUME NEW m \in Manifest, NEW s \in Sources
  PROVE  /\ Grown(m, m, s)
         /\ Grown(m, WithExchange(m), s)
         /\ \A n \in Nat : Grown(m, WithPath(m, s, n), s)
         /\ \A status \in Results, before \in Texts : Grown(m, WithItem(m, s, status, before), s)
         /\ Grown(m, WithFailed(m, s), s)
<1>1. Grown(m, m, s) BY DEF Grown
<1>2. Grown(m, WithExchange(m), s)
  <2>1. WithExchange(m).status = IF m.status = "none" THEN "running" ELSE m.status
    BY DEF WithExchange, Manifest
  <2> QED BY <2>1, ExchangeTyped DEF Grown
<1>3. ASSUME NEW n \in Nat PROVE Grown(m, WithPath(m, s, n), s)
  <2>1. WithPath(m, s, n).status = m.status BY DEF WithPath, Manifest
  <2> QED BY <2>1, PathTyped DEF Grown, Named
<1>4. ASSUME NEW status \in Results, NEW before \in Texts
      PROVE  Grown(m, WithItem(m, s, status, before), s)
  <2> DEFINE n == WithItem(m, s, status, before)
  <2>1. /\ \A i \in DOMAIN m.items : i \in DOMAIN n.items /\ n.items[i] = m.items[i]
        /\ \A i \in DOMAIN n.items \ DOMAIN m.items : n.items[i].source = s
    BY ItemsApplied
  <2>2. n.status = "running" BY DEF WithItem, Manifest
  <2> HIDE DEF n
  <2>3. Grown(m, n, s) BY <2>1, <2>2 DEF Grown, Named
  <2> QED BY <2>3 DEF n
<1>5. Grown(m, WithFailed(m, s), s) BY <1>1, <1>4, NoTexts DEF WithFailed, Results
<1> QED BY <1>1, <1>2, <1>3, <1>4, <1>5

LEMMA GrownManifest ==
  ASSUME TypeInv, NEW r \in Runs, NEW s \in Sources, SourceStep(r, s)
  PROVE  /\ \A q \in Runs \ {r} : manifest'[q] = manifest[q]
         /\ Grown(manifest[r], manifest'[r], s)
         /\ s \in run[r].chosen
<1> DEFINE m == manifest[r]
           w == work[r][s]
<1>0. manifest \in [Runs -> Manifest] /\ m \in Manifest /\ w.path \in Nat /\ w.before \in Texts
  BY DEF TypeInv, TypeOK, Work
<1>1. \/ manifest' = manifest
      \/ manifest' = [manifest EXCEPT ![r] = WithExchange(m)]
      \/ manifest' = [manifest EXCEPT ![r] = WithItem(m, s, "pending", NoNotes)]
      \/ manifest' = [manifest EXCEPT ![r] = WithItem(m, s, "processed", w.before)]
      \/ manifest' = [manifest EXCEPT ![r] = WithPath(m, s, w.path)]
      \/ manifest' = [manifest EXCEPT ![r] = WithFailed(m, s)]
  BY DEF SourceStep, TakeSource, AskModel, LeavePending, Materialize, TakeDuplicate, ArchiveItem,
         WriteNote, MoveSource, RecordPath, FailSource, SourceGone
<1>2. \/ manifest'[r] = m
      \/ manifest'[r] = WithExchange(m)
      \/ manifest'[r] = WithItem(m, s, "pending", NoNotes)
      \/ manifest'[r] = WithItem(m, s, "processed", w.before)
      \/ manifest'[r] = WithPath(m, s, w.path)
      \/ manifest'[r] = WithFailed(m, s)
  BY <1>0, <1>1
<1>3. \A q \in Runs \ {r} : manifest'[q] = manifest[q] BY <1>0, <1>1
<1>4. "pending" \in Results /\ "processed" \in Results BY DEF Results
<1>5. Grown(m, manifest'[r], s) BY <1>0, <1>2, <1>4, GrownSteps, NoTexts
<1>6. w.pc # "idle"
  BY DEF SourceStep, TakeSource, AskModel, LeavePending, Materialize, TakeDuplicate, ArchiveItem,
         WriteNote, MoveSource, RecordPath, FailSource, SourceGone, HandedOut, Busy
<1> QED BY <1>3, <1>5, <1>6 DEF TypeInv, LockInv, ChosenOnly

LEMMA IdleMerges ==
  ASSUME NEW pc \in Resting, NEW s, NEW n, NEW box
  PROVE  Merging(Idle(pc), s, n, box) /\ Idle(pc).result = "failed"
BY DEF Idle, Resting, Merging

LEMMA MergeSource ==
  ASSUME MergeInv, GrowInv', UndoInv', Orderly', NEW r \in Runs, NEW s \in Sources, SourceStep(r, s)
  PROVE  MergeInv'
<1> DEFINE w == work[r][s]
<1>0. /\ TypeInv /\ Alone /\ work \in [Runs -> [Sources -> Work]] /\ w \in Work
      /\ note \in [Dests -> Content] /\ Fits
  BY DEF MergeInv, GrowInv, TypeInv, TypeOK
<1>1. Orderly BY <1>0, OrderOnlyLost DEF Next
<1>2. /\ Completed /\ Own
      /\ \A q \in Runs, t \in Sources : Merging(work[q][t], t, note, inbox)
  BY <1>1 DEF MergeInv
<1>3. /\ Running(r) /\ run' = run /\ rollback' = rollback
      /\ history'.done = history.done /\ history'.first = history.first /\ history'.tried = history.tried
      /\ r = Top /\ rollback.run = NoRun
  BY <1>0, <1>1, SourceOrder DEF Alone
<1>4. \A d \in Dests : note[d] \subseteq note'[d] BY <1>3, NotesGrow DEF MergeInv, Next
<1>5. inbox' \subseteq inbox
  BY DEF SourceStep, TakeSource, AskModel, LeavePending, Materialize, TakeDuplicate, ArchiveItem,
         WriteNote, MoveSource, RecordPath, FailSource, SourceGone, EndFailed
<1>6. /\ \A q \in Runs \ {r} : manifest'[q] = manifest[q]
      /\ Grown(manifest[r], manifest'[r], s) /\ s \in run[r].chosen
  BY <1>0, GrownManifest
<1>7. Own' BY <1>2, <1>3, <1>6 DEF Own, Grown
<1>8. manifest'[r].status # "completed" BY <1>2, <1>3, <1>6 DEF Grown, Completed, Running
<1>9. ASSUME NEW v, work' = [work EXCEPT ![r][s] = v], Merging(v, s, note', inbox'),
             v.result = "processed" => s \notin inbox' /\ s \in FactsIn(note')
      PROVE  MergeInv'
  <2>1. \A q \in Runs, t \in Sources : work'[q][t] = IF q = r /\ t = s THEN v ELSE work[q][t]
    BY <1>0, <1>9
  <2>2. ASSUME NEW q \in Runs, NEW t \in Sources PROVE Merging(work'[q][t], t, note', inbox')
    <3>1. CASE q = r /\ t = s BY <1>9, <2>1, <3>1
    <3>2. CASE q # r \/ t # s BY <1>2, <1>4, <1>5, <2>1, <3>2, MergingGrows
    <3> QED BY <3>1, <3>2
  <2>3. \A q \in Runs, t \in Sources :
          Merged(q, t)' => Merged(q, t) \/ (q = Top /\ t \notin inbox' /\ t \in FactsIn(note'))
    BY <1>3, <1>9, <2>1 DEF Merged
  <2>4. Completed'
    <3>1. \A q \in Runs : run[q].chosen \subseteq Sources BY <1>0 DEF TypeInv, TypeOK, Run
    <3>2. ASSUME NEW q \in Runs, manifest'[q].status = "completed"
          PROVE  run'[q].phase = "done" /\ \A t \in run'[q].chosen : Merged(q, t)'
      <4>1. q # r /\ manifest'[q] = manifest[q] BY <1>6, <1>8, <3>2
      <4> QED BY <1>2, <1>3, <2>1, <3>1, <3>2, <4>1 DEF Completed, Merged
    <3> QED BY <3>2 DEF Completed
  <2> QED BY <1>1, <1>3, <1>4, <1>5, <1>7, <2>2, <2>3, <2>4, MergeFrame
<1>10. Merging(w, s, note, inbox) /\ FitsWork(w) BY <1>0, <1>2 DEF Fits
<1>11. CASE TakeSource(r, s)
  <2> DEFINE v == IF HasDuplicate(s) THEN Idle("duplicate") ELSE [Idle("asking") EXCEPT !.seen = note]
  <2>1. work' = [work EXCEPT ![r][s] = v] /\ note' = note BY <1>11 DEF TakeSource
  <2>2. /\ v.pc = IF HasDuplicate(s) THEN "duplicate" ELSE "asking"
        /\ v.result = "failed"
    BY DEF Idle
  <2>3. HasDuplicate(s) => s \in FactsIn(note)
    <3>1. ASSUME NEW d \in Dests, note[d] = {s} PROVE s \in FactsIn(note) BY <3>1 DEF FactsIn
    <3> QED BY <3>1 DEF HasDuplicate
  <2> HIDE DEF v
  <2>4. Merging(v, s, note', inbox') BY <2>1, <2>2, <2>3 DEF Merging
  <2> QED BY <1>9, <2>1, <2>2, <2>4
<1>12. CASE AskModel(r, s)
  <2>0. PICK chosen \in SUBSET Dests : \E final \in [chosen -> Content] :
          /\ \A d \in chosen : \E e \in Excerpts(w.seen[d]) : final[d] = e \cup {s}
          /\ work' = [work EXCEPT ![r][s] = [w EXCEPT !.pc = "deciding", !.final = final]]
    BY <1>12 DEF AskModel
  <2>1. PICK final \in [chosen -> Content] :
          /\ \A d \in chosen : \E e \in Excerpts(w.seen[d]) : final[d] = e \cup {s}
          /\ work' = [work EXCEPT ![r][s] = [w EXCEPT !.pc = "deciding", !.final = final]]
    BY <2>0
  <2>2. w.pc = "asking" BY <1>12 DEF AskModel
  <2>3. \A d \in DOMAIN final : s \in final[d] BY <2>1
  <2> DEFINE v == [w EXCEPT !.pc = "deciding", !.final = final]
  <2>4. v.pc = "deciding" /\ v.final = final /\ v.result = w.result BY <1>0 DEF Work
  <2>5. work' = [work EXCEPT ![r][s] = v] BY <2>1
  <2> HIDE DEF v
  <2>6. w.result # "processed" BY <1>10, <2>2 DEF Merging
  <2>7. Merging(v, s, note', inbox') BY <2>3, <2>4, <2>6 DEF Merging
  <2> QED BY <1>9, <2>4, <2>5, <2>6, <2>7
<1>13. CASE LeavePending(r, s)
  <2> DEFINE v == [Idle("done") EXCEPT !.result = "pending"]
  <2>1. work' = [work EXCEPT ![r][s] = v] BY <1>13 DEF LeavePending
  <2>2. v.pc = "done" /\ v.result = "pending" BY DEF Idle
  <2> HIDE DEF v
  <2>3. Merging(v, s, note', inbox') BY <2>2 DEF Merging
  <2> QED BY <1>9, <2>1, <2>2, <2>3
<1>14. CASE Materialize(r, s)
  <2> DEFINE changed == {d \in DOMAIN w.final : w.final[d] # note[d]}
             before == [d \in changed |-> note[d]]
             final == [d \in changed |-> w.final[d]]
             v == [w EXCEPT !.pc = "archiving", !.seen = NoNotes, !.left = changed,
                            !.before = before, !.final = final]
  <2>1. work' = [work EXCEPT ![r][s] = v] /\ note' = note /\ w.pc = "deciding" /\ w.final # NoNotes
    BY <1>14 DEF Materialize
  <2>2. w.result # "processed" /\ \A d \in DOMAIN w.final : s \in w.final[d]
    BY <1>10, <2>1 DEF Merging
  <2>3. w.final \in Texts /\ DOMAIN w.final \subseteq Dests BY <1>0, TextsKnown DEF Work
  <2>4. DOMAIN w.final # {}
    <3>1. PICK D \in SUBSET Dests : w.final \in [D -> Content] BY <2>3 DEF Texts
    <3>2. D = {} => w.final = NoNotes BY <3>1 DEF NoNotes
    <3> QED BY <2>1, <3>1, <3>2
  <2>5. changed = {} => s \in FactsIn(note)
    <3>1. PICK d \in DOMAIN w.final : TRUE BY <2>4
    <3>2. changed = {} => note[d] = w.final[d] OBVIOUS
    <3>3. changed = {} => s \in note[d] BY <2>2, <3>2
    <3> QED BY <2>3, <3>3 DEF FactsIn
  <2>6. \A d \in changed : s \in final[d] BY <2>2
  <2> HIDE DEF changed, before, final
  <2>7. v.pc = "archiving" /\ v.left = changed /\ v.final = final /\ v.result = w.result
    BY <1>0 DEF Work
  <2> HIDE DEF v
  <2>8. Merging(v, s, note', inbox') BY <2>1, <2>2, <2>5, <2>6, <2>7 DEF Merging
  <2> QED BY <1>9, <2>1, <2>2, <2>7, <2>8
<1>15. CASE TakeDuplicate(r, s) \/ ArchiveItem(r, s)
  <2>1. PICK pc \in {"archiving", "writing"} :
          /\ work' = [work EXCEPT ![r][s] = [w EXCEPT !.pc = pc]]
          /\ w.pc \in {"duplicate", "archiving"}
    BY <1>15 DEF TakeDuplicate, ArchiveItem
  <2>2. note' = note BY <1>15 DEF TakeDuplicate, ArchiveItem
  <2> DEFINE v == [w EXCEPT !.pc = pc]
  <2>3. v.pc = pc /\ v.left = w.left /\ v.final = w.final /\ v.result = w.result BY <1>0 DEF Work
  <2>4. work' = [work EXCEPT ![r][s] = v] BY <2>1
  <2>5. w.result # "processed" BY <1>10, <2>1 DEF Merging
  <2>6. (\A d \in w.left : s \in w.final[d]) /\ (w.left = {} => s \in FactsIn(note))
    BY <1>10, <2>1 DEF Merging, FitsWork
  <2> HIDE DEF v
  <2>7. Merging(v, s, note', inbox') BY <2>1, <2>2, <2>3, <2>5, <2>6 DEF Merging
  <2> QED BY <1>9, <2>3, <2>4, <2>5, <2>7
<1>16. CASE WriteNote(r, s)
  <2>1. PICK d \in w.left : /\ note' = [note EXCEPT ![d] = w.final[d]]
                            /\ work' = [work EXCEPT ![r][s] = [w EXCEPT !.left = w.left \ {d}]]
    BY <1>16 DEF WriteNote
  <2>2. w.pc = "writing" BY <1>16 DEF WriteNote
  <2>3. w.result # "processed" /\ \A e \in w.left : s \in w.final[e] BY <1>10, <2>2 DEF Merging
  <2>4. d \in Dests BY <1>0 DEF Work
  <2>5. note'[d] = w.final[d] BY <1>0, <2>1, <2>4
  <2>6. s \in FactsIn(note') BY <2>3, <2>4, <2>5 DEF FactsIn
  <2> DEFINE v == [w EXCEPT !.left = w.left \ {d}]
  <2>7. v.pc = w.pc /\ v.left = w.left \ {d} /\ v.final = w.final /\ v.result = w.result
    BY <1>0 DEF Work
  <2>8. work' = [work EXCEPT ![r][s] = v] BY <2>1
  <2> HIDE DEF v
  <2>9. Merging(v, s, note', inbox') BY <2>2, <2>3, <2>6, <2>7 DEF Merging
  <2> QED BY <1>9, <2>3, <2>7, <2>8, <2>9
<1>17. CASE MoveSource(r, s)
  <2>1. PICK path : work' = [work EXCEPT ![r][s] = [w EXCEPT !.pc = "recording", !.path = path]]
    BY <1>17 DEF MoveSource
  <2>2. note' = note /\ w.pc = "writing" /\ w.left = {} /\ inbox' = inbox \ {s}
    BY <1>17 DEF MoveSource
  <2>3. w.result # "processed" /\ s \in FactsIn(note) BY <1>10, <2>2 DEF Merging
  <2> DEFINE v == [w EXCEPT !.pc = "recording", !.path = path]
  <2>4. v.pc = "recording" /\ v.result = w.result BY <1>0 DEF Work
  <2>5. work' = [work EXCEPT ![r][s] = v] BY <2>1
  <2> HIDE DEF v
  <2>6. Merging(v, s, note', inbox') BY <2>2, <2>3, <2>4 DEF Merging
  <2> QED BY <1>9, <2>3, <2>4, <2>5, <2>6
<1>18. CASE RecordPath(r, s)
  <2> DEFINE v == [Idle("done") EXCEPT !.result = "processed"]
  <2>1. work' = [work EXCEPT ![r][s] = v] /\ note' = note /\ inbox' = inbox /\ w.pc = "recording"
    BY <1>18 DEF RecordPath
  <2>2. v.pc = "done" BY PendingHasPlace
  <2>3. s \notin inbox' /\ s \in FactsIn(note') BY <1>10, <2>1 DEF Merging
  <2> HIDE DEF v
  <2>4. Merging(v, s, note', inbox') BY <2>2 DEF Merging
  <2> QED BY <1>9, <2>1, <2>3, <2>4
<1>19. CASE FailSource(r, s) \/ SourceGone(r, s)
  <2>1. work' = [work EXCEPT ![r][s] = Idle("done")] BY <1>19 DEF FailSource, SourceGone, EndFailed
  <2> DEFINE v == Idle("done")
  <2>2. Merging(v, s, note', inbox') /\ v.result = "failed" BY IdleMerges DEF Resting
  <2> HIDE DEF v
  <2> QED BY <1>9, <2>1, <2>2 DEF v
<1> QED
  BY <1>11, <1>12, <1>13, <1>14, <1>15, <1>16, <1>17, <1>18, <1>19 DEF SourceStep

LEMMA MergeStart ==
  ASSUME MergeInv, GrowInv', UndoInv', Orderly', NEW r \in Runs, StartRun(r)
  PROVE  MergeInv'
<1>0. TypeInv /\ UndoInv /\ run \in [Runs -> Run] BY DEF MergeInv, GrowInv, TypeInv, TypeOK
<1>1. Orderly /\ Quiet /\ history'.tried = history.tried BY <1>0, StartOrder
<1>2. /\ Completed /\ Own /\ Stays /\ Apart
      /\ \A q \in Runs, t \in Sources : Merging(work[q][t], t, note, inbox)
  BY <1>1 DEF MergeInv
<1>3. PICK chosen \in SUBSET inbox :
        /\ run' = [run EXCEPT ![r] = [phase |-> "running", chosen |-> chosen, feeding |-> TRUE]]
        /\ work' = [work EXCEPT ![r] = [s \in Sources |-> Idle(IF s \in chosen THEN "queued" ELSE "idle")]]
  BY DEF StartRun
<1>4. /\ run[r].phase = "none" /\ UNCHANGED <<note, inbox, manifest, rollback>> BY DEF StartRun
<1>5. manifest[r].items = <<>> /\ manifest[r].status = "none" BY <1>4 DEF MergeInv, UndoInv, RecInv, Begun
<1>6. /\ \A q \in Runs : q # r => run'[q] = run[q] /\ work'[q] = work[q]
      /\ run'[r].chosen = chosen
      /\ \A t \in Sources : work'[r][t] = Idle("queued") \/ work'[r][t] = Idle("idle")
  BY <1>0, <1>3 DEF TypeInv, TypeOK
<1>7. ASSUME NEW q \in Runs, NEW t \in Sources
      PROVE  /\ Merging(work'[q][t], t, note', inbox')
             /\ q = r => work'[q][t].result # "processed"
             /\ q # r => work'[q][t] = work[q][t]
  <2>1. CASE q = r
    <3>1. PICK pc \in Resting : work'[q][t] = Idle(pc) BY <1>6, <2>1 DEF Resting
    <3>2. Merging(Idle(pc), t, note', inbox') /\ Idle(pc).result = "failed" BY IdleMerges
    <3> QED BY <2>1, <3>1, <3>2
  <2>2. CASE q # r BY <1>2, <1>4, <1>6, <2>2
  <2> QED BY <2>1, <2>2
<1>8. \A q \in Runs : run[q].chosen \subseteq Sources BY <1>0 DEF Run
<1>9. Completed' BY <1>2, <1>4, <1>5, <1>6, <1>7, <1>8 DEF Completed, Merged
<1>10. Own'
  <2>1. Named(<<>>) = {} BY DEF Named
  <2> QED BY <1>2, <1>4, <1>5, <1>6, <2>1 DEF Own
<1> DEFINE n == Len(history.done)
<1>11. /\ n \in Nat /\ DOMAIN history.done = 1 .. n
       /\ DOMAIN history'.done = 1 .. n + 1 /\ history'.done[n + 1] = r
       /\ \A k \in 1 .. n : /\ history'.done[k] = history.done[k] /\ After(k)' = After(k)
                            /\ history.done[k] # r /\ history.done[k] \in Runs
  BY <1>0, StartChain
<1> HIDE DEF n
<1>12. \A k \in 1 .. n + 1 : k \in 1 .. n \/ k = n + 1 BY <1>11
<1>13. Stays'
  <2> SUFFICES ASSUME NEW k \in 1 .. n + 1, history'.done[k] \notin history'.tried,
                      NEW t \in Sources, work'[history'.done[k]][t].result = "processed"
               PROVE  t \notin inbox' /\ t \in FactsIn(After(k)')
    BY <1>11 DEF Stays, Merged
  <2>1. k \in 1 .. n BY <1>7, <1>11, <1>12
  <2>2. Merged(history.done[k], t) BY <1>7, <1>11, <2>1 DEF Merged
  <2>3. t \notin inbox /\ t \in FactsIn(After(k)) BY <1>1, <1>2, <1>11, <2>1, <2>2 DEF Stays
  <2> QED BY <1>4, <1>11, <2>1, <2>3
<1>14. Apart'
  <2> SUFFICES ASSUME NEW k \in 1 .. n + 1, NEW l \in 1 .. n + 1, k < l,
                      history'.done[k] \notin history'.tried,
                      NEW t \in run'[history'.done[l]].chosen, work'[history'.done[k]][t].result = "processed"
               PROVE  FALSE
    BY <1>11 DEF Apart, Merged
  <2>1. k \in 1 .. n BY <1>11
  <2>2. history'.done[l] \in Runs BY <1>11, <1>12
  <2>3. t \in Sources
    <3>1. chosen \subseteq Sources BY <1>0 DEF TypeInv, TypeOK
    <3> QED BY <1>6, <1>8, <2>2, <3>1
  <2>4. Merged(history.done[k], t) /\ history.done[k] \notin history.tried
    BY <1>1, <1>7, <1>11, <2>1, <2>3 DEF Merged
  <2>5. CASE l \in 1 .. n
    <3>1. t \in run[history.done[l]].chosen BY <1>6, <1>11, <2>5
    <3> QED BY <1>2, <1>11, <2>1, <2>4, <2>5, <3>1 DEF Apart
  <2>6. CASE l = n + 1
    <3>1. t \in inbox BY <1>6, <1>11, <2>6
    <3> QED BY <1>2, <1>11, <2>1, <2>3, <2>4, <3>1 DEF Stays
  <2> QED BY <1>12, <2>5, <2>6
<1>15. rollback'.run = NoRun BY <1>1, <1>4 DEF Quiet
<1> QED BY <1>7, <1>9, <1>10, <1>13, <1>14, <1>15 DEF MergeInv

LEMMA CompletedResults ==
  ASSUME NEW results, results \subseteq Results, RunStatus(results) = "completed"
  PROVE  \A x \in results : x = "processed"
<1>1. "failed" \notin results
  <2>1. SUFFICES ASSUME "failed" \in results PROVE FALSE OBVIOUS
  <2>2. CASE results = {"failed"} BY <2>2 DEF RunStatus
  <2>3. CASE results # {"failed"} BY <2>1, <2>3 DEF RunStatus
  <2> QED BY <2>2, <2>3
<1>2. "pending" \notin results
  <2>1. SUFFICES ASSUME "pending" \in results PROVE FALSE OBVIOUS
  <2>2. results = {"pending"} \/ results = {"pending", "processed"} BY <1>1, <2>1 DEF Results
  <2>3. results # {"failed"} BY <1>1
  <2>4. CASE results = {"pending", "processed"} BY <1>1, <2>3, <2>4 DEF RunStatus
  <2>5. CASE results = {"pending"}
    <3>1. results # {"pending", "processed"} BY <2>5
    <3> QED BY <1>1, <2>3, <2>5, <3>1 DEF RunStatus
  <2> QED BY <2>2, <2>4, <2>5
<1> QED BY <1>1, <1>2 DEF Results

LEMMA MergeEnd ==
  ASSUME MergeInv, GrowInv', UndoInv', Orderly', NEW r \in Runs, StopFeeding(r) \/ FinalizeRun(r)
  PROVE  MergeInv'
<1>0. /\ TypeInv /\ run \in [Runs -> Run] /\ manifest \in [Runs -> Manifest]
      /\ work \in [Runs -> [Sources -> Work]]
  BY DEF MergeInv, GrowInv, TypeInv, TypeOK
<1>1. /\ rollback' = rollback /\ history'.overlaps = history.overlaps /\ history'.done = history.done
      /\ history'.first = history.first /\ history'.tried = history.tried
  BY <1>0, EndOrder
<1>2. Orderly BY <1>1 DEF Orderly
<1>3. /\ Completed /\ Own
      /\ rollback.run # NoRun => rollback.run \in history.tried
      /\ \A q \in Runs, t \in Sources : Merging(work[q][t], t, note, inbox)
  BY <1>2 DEF MergeInv
<1>4. UNCHANGED <<note, inbox, work>> /\ run[r].phase = "running"
  BY DEF StopFeeding, FinalizeRun, Running
<1>5. /\ \A q \in Runs : run'[q].chosen = run[q].chosen
      /\ \A q \in Runs \ {r} : run'[q] = run[q]
      /\ FinalizeRun(r) => run'[r].phase = "done"
  <2>1. \/ run' = [run EXCEPT ![r] = [run[r] EXCEPT !.feeding = FALSE]] /\ ~FinalizeRun(r)
        \/ run' = [run EXCEPT ![r] = [run[r] EXCEPT !.phase = "done", !.feeding = FALSE]]
    <3>1. CASE FinalizeRun(r) BY <3>1 DEF FinalizeRun
    <3>2. CASE StopFeeding(r) /\ ~FinalizeRun(r) BY <3>2 DEF StopFeeding
    <3> QED BY <3>1, <3>2
  <2>2. /\ [run[r] EXCEPT !.feeding = FALSE].chosen = run[r].chosen
        /\ [run[r] EXCEPT !.phase = "done", !.feeding = FALSE].chosen = run[r].chosen
        /\ [run[r] EXCEPT !.phase = "done", !.feeding = FALSE].phase = "done"
    BY <1>0 DEF Run
  <2> QED BY <1>0, <2>1, <2>2
<1> DEFINE results == {work[r][s].result : s \in run[r].chosen}
<1>6. /\ \A q \in Runs \ {r} : manifest'[q] = manifest[q]
      /\ manifest'[r].items = manifest[r].items
      /\ manifest'[r].status = "completed" =>
           manifest[r].status = "completed" \/ (FinalizeRun(r) /\ RunStatus(results) = "completed")
  <2>1. \/ manifest' = manifest
        \/ /\ FinalizeRun(r)
           /\ manifest' = [manifest EXCEPT ![r] = [manifest[r] EXCEPT !.status = RunStatus(results)]]
    BY DEF StopFeeding, FinalizeRun, Finalized
  <2>2. \A status : /\ [manifest[r] EXCEPT !.status = status].items = manifest[r].items
                    /\ [manifest[r] EXCEPT !.status = status].status = status
    BY <1>0 DEF Manifest
  <2> HIDE DEF results
  <2>3. CASE manifest' = manifest BY <2>3
  <2>4. CASE manifest' # manifest
    <3>1. manifest'[r] = [manifest[r] EXCEPT !.status = RunStatus(results)]
      BY <1>0, <2>1, <2>4
    <3>2. \A q \in Runs \ {r} : manifest'[q] = manifest[q] BY <1>0, <2>1
    <3> QED BY <2>1, <2>2, <2>4, <3>1, <3>2
  <2> QED BY <2>3, <2>4
<1>7. results \subseteq Results /\ \A s \in run[r].chosen : work[r][s].result \in results
  BY <1>0 DEF Work, Run
<1> HIDE DEF results
<1>8. Own'
  <2>1. \A q \in Runs : manifest'[q].items = manifest[q].items BY <1>6
  <2> QED BY <1>3, <1>5, <2>1 DEF Own
<1>9. Completed'
  <2>1. ASSUME NEW q \in Runs, manifest'[q].status = "completed"
        PROVE  run'[q].phase = "done" /\ \A s \in run[q].chosen : work[q][s].result = "processed"
    <3>1. CASE q = r
      <4>1. manifest[r].status # "completed" BY <1>3, <1>4 DEF Completed
      <4>2. FinalizeRun(r) /\ RunStatus(results) = "completed" BY <1>6, <2>1, <3>1, <4>1
      <4>3. \A x \in results : x = "processed" BY <1>7, <4>2, CompletedResults
      <4> QED BY <1>5, <1>7, <3>1, <4>2, <4>3
    <3>2. CASE q # r BY <1>3, <1>5, <1>6, <2>1, <3>2 DEF Completed, Merged
    <3> QED BY <3>1, <3>2
  <2> QED BY <1>4, <1>5, <2>1 DEF Completed, Merged
<1>10. \A q \in Runs, t \in Sources : Merged(q, t)' => Merged(q, t) BY <1>4 DEF Merged
<1> QED BY <1>1, <1>2, <1>3, <1>4, <1>5, <1>8, <1>9, <1>10, MergeFrame

\* What a step that leaves calls, workers and manifests keeps.
LEMMA MergeAside ==
  ASSUME MergeInv, GrowInv', UndoInv', Orderly, UNCHANGED <<manifest, run, work>>,
         history'.done = history.done, history'.first = history.first,
         history.tried \subseteq history'.tried,
         rollback'.run # NoRun => rollback'.run \in history'.tried,
         \/ UNCHANGED <<note, inbox>>
         \/ /\ \A q \in Runs : ~Running(q)
            /\ Top \in history'.tried /\ inbox' \subseteq inbox \cup run[Top].chosen
  PROVE  MergeInv'
<1>1. /\ Completed /\ Own
      /\ \A q \in Runs, t \in Sources : Merging(work[q][t], t, note, inbox)
  BY DEF MergeInv
<1>2. Completed' /\ Own' BY <1>1 DEF Completed, Own, Merged
<1>3. ASSUME NEW q \in Runs, NEW t \in Sources PROVE Merging(work'[q][t], t, note', inbox')
  <2>1. CASE UNCHANGED <<note, inbox>> BY <1>1, <2>1
  <2>2. CASE \A p \in Runs : ~Running(p)
    <3>1. work[q][t].pc \in Resting BY <2>2 DEF MergeInv, GrowInv, TypeInv, LockInv, AtRest
    <3> QED BY <1>1, <3>1, RestingMerges
  <2> QED BY <2>1, <2>2
<1>4. \A q \in Runs, t \in Sources : Merged(q, t)' => Merged(q, t) BY DEF Merged
<1> QED BY <1>2, <1>3, <1>4, MergeFrame

LEMMA MergeUndo ==
  ASSUME MergeInv, GrowInv', UndoInv', Orderly', PassItem \/ RestoreNote \/ RestoreSource
  PROVE  MergeInv'
<1>0. /\ TypeInv /\ TypeOK /\ Alone /\ UndoInv /\ rollback \in Rollback
  BY DEF MergeInv, GrowInv, TypeInv, TypeOK
<1>1. UNCHANGED <<manifest, run, work, history>> BY DEF PassItem, RestoreNote, RestoreSource
<1>2. Orderly BY <1>1 DEF Orderly
<1>3. rollback.run # NoRun BY <1>0 DEF PassItem, RestoreNote, RestoreSource, Alone
<1>4. /\ rollback.run = Top /\ Top \in history.tried /\ rollback.run \in Runs
      /\ \A q \in Runs : ~Running(q)
  BY <1>0, <1>2, <1>3 DEF MergeInv, Alone, Rollback
<1>5. rollback'.run = rollback.run
  BY <1>0, NextItemTyped DEF PassItem, RestoreNote, RestoreSource, Rollback
<1>6. inbox' \subseteq inbox \cup run[Top].chosen
  <2>1. CASE PassItem \/ RestoreNote BY <2>1 DEF PassItem, RestoreNote
  <2>2. CASE RestoreSource
    <3>1. rollback.items # <<>> /\ inbox' = inbox \cup {LastItem.source} BY <2>2 DEF RestoreSource
    <3>2. RollbackOfManifest BY <1>0, <1>2 DEF UndoInv, RecInv, Undisturbed
    <3>3. LastItem.source \in Named(manifest[Top].items)
      <4>1. rollback.items \in Seq(Item) BY <1>0, RollbackTyped
      <4>2. Len(rollback.items) \in DOMAIN rollback.items BY <3>1, <4>1, LenProperties, EmptySeq
      <4> QED BY <1>3, <1>4, <3>2, <4>2 DEF RollbackOfManifest, Named, LastItem
    <3>4. Own BY <1>2 DEF MergeInv
    <3> QED BY <1>4, <3>1, <3>3, <3>4 DEF Own
  <2> QED BY <2>1, <2>2
<1> QED BY <1>1, <1>2, <1>4, <1>5, <1>6, MergeAside

LEMMA MergeFinish ==
  ASSUME MergeInv, GrowInv', UndoInv', Orderly', FinishRollback
  PROVE  MergeInv'
<1>0. TypeInv /\ TypeOK /\ UndoInv /\ Alone BY DEF MergeInv, GrowInv, TypeInv
<1>1. /\ rollback.run # NoRun /\ rollback' = NoRollback
      /\ manifest' = [manifest EXCEPT ![rollback.run] =
                        [status |-> "restored", restored |-> TRUE, items |-> rollback.read]]
      /\ UNCHANGED <<note, inbox, run, work>>
  BY DEF FinishRollback
<1>2. Orderly /\ history'.tried = history.tried BY <1>0, FinishOrder DEF Orderly
<1>3. /\ Completed /\ Own /\ Stays /\ Apart /\ RollbackOfManifest /\ rollback.run \in Runs
      /\ \A q \in Runs, t \in Sources : Merging(work[q][t], t, note, inbox)
  BY <1>0, <1>1, <1>2 DEF MergeInv, UndoInv, RecInv, Undisturbed, TypeOK, Rollback
<1>4. /\ \A q \in Runs : manifest'[q].items = manifest[q].items
      /\ \A q \in Runs : manifest'[q].status = "completed" => manifest[q].status = "completed"
  BY <1>0, <1>1, <1>3 DEF RollbackOfManifest, TypeOK
<1>5. Completed' /\ Own' BY <1>1, <1>3, <1>4 DEF Completed, Own, Merged
<1>6. /\ DOMAIN history'.done \subseteq DOMAIN history.done
      /\ \A k \in DOMAIN history'.done : history'.done[k] = history.done[k] /\ After(k)' = After(k)
  BY <1>0, FinishChain
<1>7. Stays' BY <1>1, <1>2, <1>3, <1>6 DEF Stays, Merged
<1>8. Apart' BY <1>1, <1>2, <1>3, <1>6 DEF Apart, Merged
<1> QED BY <1>1, <1>3, <1>5, <1>7, <1>8 DEF MergeInv, NoRollback

LEMMA MergeCrash ==
  ASSUME MergeInv, GrowInv', UndoInv', Orderly', Crash
  PROVE  MergeInv'
<1>0. TypeInv /\ run \in [Runs -> Run] BY DEF MergeInv, GrowInv, TypeInv, TypeOK
<1>1. /\ rollback' = NoRollback /\ history'.overlaps = history.overlaps /\ history'.done = history.done
      /\ history'.first = history.first /\ history'.tried = history.tried
  BY <1>0, CrashOrder
<1>2. Orderly BY <1>1 DEF Orderly
<1>3. /\ Completed /\ Own /\ \A q \in Runs, t \in Sources : Merging(work[q][t], t, note, inbox)
  BY <1>2 DEF MergeInv
<1>4. /\ run' = [p \in Runs |-> IF Running(p)
                                THEN [run[p] EXCEPT !.phase = "crashed", !.feeding = FALSE] ELSE run[p]]
      /\ work' = [p \in Runs |-> [t \in Sources |-> IF Running(p) THEN Idle("idle") ELSE work[p][t]]]
      /\ UNCHANGED <<note, inbox, manifest>>
  BY DEF Crash
<1>5. \A q \in Runs : [run[q] EXCEPT !.phase = "crashed", !.feeding = FALSE].chosen = run[q].chosen
  BY <1>0 DEF Run
<1>6. /\ \A q \in Runs : run'[q].chosen = run[q].chosen
      /\ \A q \in Runs : ~Running(q) => run'[q] = run[q]
  BY <1>4, <1>5
<1>7. ASSUME NEW q \in Runs, NEW t \in Sources
      PROVE  /\ Merging(work'[q][t], t, note', inbox')
             /\ work'[q][t].result = "processed" => work[q][t].result = "processed"
             /\ ~Running(q) => work'[q][t] = work[q][t]
  <2> DEFINE v == Idle("idle")
  <2>1. Merging(v, t, note', inbox') /\ v.result = "failed" BY IdleMerges DEF Resting
  <2>2. work'[q][t] = IF Running(q) THEN v ELSE work[q][t] BY <1>4
  <2> HIDE DEF v
  <2> QED BY <1>3, <1>4, <2>1, <2>2
<1>8. Own' BY <1>3, <1>4, <1>6 DEF Own
<1>9. Completed'
  <2>1. \A q \in Runs : run[q].chosen \subseteq Sources BY <1>0 DEF Run
  <2>2. ASSUME NEW q \in Runs, manifest[q].status = "completed"
        PROVE  run'[q].phase = "done" /\ \A t \in run[q].chosen : work'[q][t].result = "processed"
    BY <1>3, <1>6, <1>7, <2>1, <2>2 DEF Completed, Merged, Running
  <2> QED BY <1>4, <1>6, <2>2 DEF Completed, Merged
<1>10. \A q \in Runs, t \in Sources : Merged(q, t)' => Merged(q, t) BY <1>7 DEF Merged
<1> QED BY <1>1, <1>2, <1>4, <1>6, <1>7, <1>8, <1>9, <1>10, MergeFrame DEF NoRollback

LEMMA StepKeepsMerges == AllShown /\ MergeInv /\ [Next]_vars => MergeInv'
<1> SUFFICES ASSUME AllShown, MergeInv, [Next]_vars PROVE MergeInv' OBVIOUS
<1>0. GrowInv' /\ UndoInv' /\ TypeInv /\ TypeInv' /\ TypeOK
  BY StepKeepsGrowth, StepKeepsUndo DEF MergeInv, GrowInv, TypeInv
<1>1. SUFFICES ASSUME Orderly' PROVE MergeInv' BY <1>0 DEF MergeInv
<1>2. Orderly BY <1>0, <1>1, OrderOnlyLost
<1>3. CASE \E r \in Runs : StartRun(r) BY <1>0, <1>1, <1>3, MergeStart
<1>4. CASE \E r \in Runs : StopFeeding(r) \/ FinalizeRun(r) BY <1>0, <1>1, <1>4, MergeEnd
<1>5. CASE \E r \in Runs : BeginRollback(r)
  <2>1. PICK r \in Runs : BeginRollback(r) BY <1>5
  <2>2. UNCHANGED <<note, inbox, manifest, run, work>> BY <2>1 DEF BeginRollback
  <2>3. rollback'.run = r
    <3>1. LockInv' BY <1>0 DEF TypeInv
    <3> QED BY <1>0, <2>1, <3>1, BeginTyped
  <2> QED BY <1>0, <1>2, <2>1, <2>2, <2>3, BeginOrder, MergeAside
<1>6. CASE \E r \in Runs, s \in Sources : SourceStep(r, s) BY <1>0, <1>1, <1>6, MergeSource
<1>7. CASE PassItem \/ RestoreNote \/ RestoreSource BY <1>0, <1>1, <1>7, MergeUndo
<1>8. CASE FinishRollback BY <1>0, <1>1, <1>8, MergeFinish
<1>9. CASE FailRollback
  <2>1. rollback'.run = NoRun /\ UNCHANGED <<note, inbox, manifest, run, work>> /\ Fault
    BY <1>9 DEF FailRollback, NoRollback
  <2> QED BY <1>0, <1>2, <2>1, FaultKeepsOrder, MergeAside
<1>10. CASE Crash BY <1>0, <1>1, <1>10, MergeCrash
<1>11. CASE UNCHANGED vars
  <2>1. rollback'.run # NoRun => rollback'.run \in history'.tried
    BY <1>2, <1>11 DEF MergeInv, vars
  <2> QED BY <1>0, <1>2, <1>11, <2>1, MergeAside DEF vars
<1> QED
  BY <1>3, <1>4, <1>5, <1>6, <1>7, <1>8, <1>9, <1>10, <1>11 DEF Next, RollbackStep

LEMMA InitMerges == Init => MergeInv
<1> SUFFICES ASSUME Init PROVE MergeInv OBVIOUS
<1>1. /\ \A r \in Runs : manifest[r].status = "none" /\ manifest[r].items = <<>>
      /\ \A r \in Runs, s \in Sources : work[r][s] = Idle("idle")
      /\ history.done = <<>> /\ rollback.run = NoRun
  BY DEF Init, NoRollback
<1>2. Completed BY <1>1 DEF Completed
<1>3. Own
  <2>1. Named(<<>>) = {} BY DEF Named
  <2> QED BY <1>1, <2>1 DEF Own
<1>4. Stays /\ Apart BY <1>1 DEF Stays, Apart
<1>5. \A r \in Runs, s \in Sources : Merging(work[r][s], s, note, inbox)
  BY <1>1, IdleMerges DEF Resting
<1> QED BY <1>1, <1>2, <1>3, <1>4, <1>5, InitGrowth, InitUndo DEF MergeInv

\* When every candidate is shown whole and jobs do not overlap, a run whose manifest
\* says completed, and that nobody began to undo, has every source it selected out of
\* the inbox and its fact in the notes, also after later runs were begun and undone
\* (FinalizeInboxRun and runStatus, inbox_archive.go:403-462).
THEOREM CompletedAlwaysMerged == AllShown => (Spec => []CompletedMeansMerged)
<1> SUFFICES ASSUME AllShown PROVE Spec => []CompletedMeansMerged OBVIOUS
<1>1. MergeInv /\ [Next]_vars => MergeInv' BY StepKeepsMerges
<1>2. MergeInv => CompletedMeansMerged
  <2> SUFFICES ASSUME MergeInv, NEW r \in Runs, Orderly, r = Top, manifest[r].status = "completed",
                      r \notin history.tried, NEW s \in run[r].chosen
               PROVE  s \notin inbox /\ s \in InVault
    BY DEF CompletedMeansMerged
  <2>1. Completed /\ Stays /\ UndoInv /\ TypeOK BY DEF MergeInv, GrowInv, TypeInv
  <2>2. Merged(r, s) /\ s \in Sources BY <2>1 DEF Completed, TypeOK, Run
  <2>3. \E k \in DOMAIN history.done : history.done[k] = r /\ After(k) = note
    <3>1. history.done # <<>> /\ history.done \in Seq(Runs)
      BY <2>1, TopTyped, InboxAssumption
    <3>2. Len(history.done) \in DOMAIN history.done BY <3>1, LenProperties, EmptySeq
    <3> QED BY <2>1, <3>2, TopIsLast
  <2>4. s \notin inbox /\ s \in FactsIn(note) BY <2>1, <2>2, <2>3 DEF Stays
  <2>5. InVault = FactsIn(note) \cap Sources BY DEF FactsIn, InVault
  <2> QED BY <2>2, <2>4, <2>5
<1> QED BY InitMerges, <1>1, <1>2, PTL DEF Spec
=============================================================================
