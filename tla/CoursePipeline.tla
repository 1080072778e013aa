--------------------------- MODULE CoursePipeline ---------------------------
(***************************************************************************)
(* The video course workflow: the videos of a folder are transcribed,      *)
(* compressed by a pool of workers while the transcription goes on, and    *)
(* merged into parts as soon as all videos of a part are ready; a part     *)
(* that was verified may have its sources deleted.  A run that is killed,  *)
(* fails or is cancelled is followed by another on the same folder.        *)
(* Videos are numbered in the order of their file names and equally long,  *)
(* so a limit on the hours of a part is a limit on its videos.             *)
(***************************************************************************)
EXTENDS Integers, Sequences, FiniteSets, FiniteSetsExt

CONSTANTS
  Videos,    \* how many videos there may be
  Workers,   \* workers that compress
  MaxPart,   \* bound on the numbers of parts: a run that would need more does not begin
  Scenario   \* the request, what is in the folder and what may go wrong

Video == 1..Videos
Number == 0..MaxPart  \* 0: the one part without a number

ASSUME CourseAssumption ==
  /\ Videos \in Nat \ {0} /\ Workers \in Nat \ {0} /\ MaxPart \in Nat /\ Videos <= MaxPart
  /\ Scenario \subseteq
       [late: SUBSET Video,       \* videos that come after the first run
        subtitled: SUBSET Video,  \* videos with subtitles beside them
        sticky: SUBSET Video,     \* videos that cannot be deleted
        tolerated: SUBSET (SUBSET Video),  \* what verifyCoursePart lets a part lack
        limit: Nat, cleanup: BOOLEAN, whisper: {"batch", "broken", "unset", "none"},
        runs: Nat, faults: Nat, crashes: Nat, cancels: Nat]
  /\ \A s \in Scenario : {} \in s.tolerated

VARIABLES
  scenario,   \* the scenario, with what is left of its bounds
  sources,    \* videos in the folder
  srt,        \* videos with a transcript in the cache
  slide,      \* compressed videos in the cache: "none", "cut" or "whole"
  part,       \* the files of each part of the course
  pc,         \* where CourseWithProgress is
  mode,       \* "pipe" or, when faster-whisper is of no use, "plain"
  files,      \* the videos of the run
  plan,       \* its parts
  at,         \* where each video of the run is
  gone,       \* workers that returned
  exported,   \* how many parts of the plan were exported
  agg,        \* where the aggregator is
  stopped,    \* the pipeline's context is done
  cancelled,  \* the job's context is done
  err,        \* firstErr is set
  answer      \* what the run returned

disk == <<sources, srt, slide, part>>
run == <<pc, mode, files, plan>>
pool == <<at, gone>>
export == <<exported, agg>>
ends == <<stopped, err>>
courseVars == <<scenario, disk, run, pool, export, ends, cancelled, answer>>
-----------------------------------------------------------------------------
\* The files of a part.  Its video has a video that the run merged into it; of
\* those that are cut it has what the compressed file had.
NoPart == [video |-> "none", has |-> {}, cut |-> {}, srt |-> FALSE, text |-> {}]
At(places) == {v \in Video : at[v] \in places}
Spend(what) == scenario[what] > 0 /\ scenario' = [scenario EXCEPT ![what] = @ - 1]
SetErr == err' = TRUE /\ stopped' = TRUE

\* A set in order: at place i is the one with i up to it.
Sorted(S) == [i \in 1..Cardinality(S) |-> CHOOSE v \in S : Cardinality({w \in S : w <= v}) = i]

\* normalizedCourseWorkers, and the plain path that has one worker: it looks at
\* no context between two videos.
PoolSize == IF Cardinality(files) < Workers THEN Cardinality(files) ELSE Workers
Drops == stopped /\ (mode = "pipe" \/ PoolSize > 1)

\* courseArtifactComplete, and the parts a run with cleanup finds.
CompletePart(n) == part[n].video # "none" /\ part[n].srt /\ part[n].text # {}
Existing == IF scenario.cleanup THEN {n \in Number \ {0} : CompletePart(n)} ELSE {}

\* chunkPipelineCourseItemsByDuration of the videos S: those grouped with v.
Rank(v, S) == Cardinality({w \in S : w < v})
Chunk(v, S) ==
  {w \in S : scenario.limit = 0 \/ Rank(w, S) \div scenario.limit = Rank(v, S) \div scenario.limit}

\* coursePartGroupsForResume: the existing parts, in the order of their numbers,
\* that the cursor has passed when it comes to v; videos between the same parts
\* are grouped.  (A part names its segments after the transcripts, which is not
\* what they are compared with: that a video is in a part already is not noticed.)
Passed(v) == {n \in Existing : \A m \in Existing : m <= n => v >= Min(part[m].text)}
ResumeGroup(v, videos) == Chunk(v, {w \in videos : Passed(w) = Passed(v)})

\* The groups in the order of their first videos.
InOrder(groupOf) ==
  LET first == Sorted({v \in DOMAIN groupOf : \A w \in groupOf[v] : v <= w})
  IN  [i \in DOMAIN first |-> Sorted(groupOf[first[i]])]

\* coursePartAllocator: the numbers no existing part has.
FreeNumbers == Sorted(Number \ ({0} \cup Existing))

\* planCourseParts, and the parts of exportCourseParts.
PlanParts(videos) ==
  LET groups == InOrder([v \in videos |-> ResumeGroup(v, videos)])
      multipart == Len(groups) > 1 \/ Existing # {} \/ (scenario.cleanup /\ scenario.limit > 0)
  IN  [i \in DOMAIN groups |-> [items |-> groups[i], number |-> IF multipart THEN FreeNumbers[i] ELSE 0]]

\* chunkCourseItems asks ffprobe again: no answer is a video without length.
PlainChunk(v) == IF stopped THEN files ELSE Chunk(v, files)
PlainParts ==
  LET groups == InOrder([v \in files |-> PlainChunk(v)])
  IN  [i \in DOMAIN groups |-> [items |-> groups[i], number |-> IF Len(groups) > 1 THEN i ELSE 0]]

CourseInit ==
  /\ scenario \in Scenario
  /\ sources = Video \ scenario.late /\ srt = {}
  /\ slide = [v \in Video |-> "none"] /\ part = [n \in Number |-> NoPart]
  /\ pc = "off" /\ mode = "pipe" /\ files = {} /\ plan = <<>>
  /\ at = [v \in Video |-> "none"] /\ gone = 0
  /\ exported = 0 /\ agg = [at |-> "results", last |-> FALSE, cleaned |-> 0]
  /\ stopped = FALSE /\ cancelled = FALSE /\ err = FALSE /\ answer = "none"

\* Another video is put in the folder.
Late(v) ==
  /\ pc = "off" /\ v \in scenario.late /\ answer # "none"
  /\ sources' = sources \cup {v} /\ scenario' = [scenario EXCEPT !.late = @ \ {v}]
  /\ UNCHANGED <<srt, slide, part, run, pool, export, ends, cancelled, answer>>

\* preparePipelineCourseItems takes over the subtitles that are beside a video.
Missing == files \ srt
Cached(videos) == srt \cup (videos \cap scenario.subtitled)
Fresh == gone' = 0 /\ exported' = 0 /\ agg' = [at |-> "results", last |-> FALSE, cleaned |-> 0] /\ err' = FALSE
Queued(videos) == [v \in Video |-> IF v \in videos THEN "queued" ELSE "none"]

\* prepareMissingTranscriptsWithFasterWhisper before the plain path: without
\* faster-whisper there is nothing to ask, without whisper's own command it is
\* an error, and what cannot be imported is not taken for one.
Refused(missing, done) ==
  missing # {} /\ (scenario.whisper = "unset" \/ (scenario.whisper = "broken" /\ done))
StartPlain(missing, done) ==
  /\ mode' = "plain" /\ plan' = <<>>
  /\ IF Refused(missing, done) THEN pc' = "off" /\ answer' = "failed" /\ at' = Queued({})
     ELSE pc' = "drain" /\ answer' = "none" /\ at' = Queued(files')

\* CourseWithProgress up to runCoursePipeline's workers: transcripts are looked
\* for, parts are planned, and the videos that have a transcript are queued.
Begin ==
  /\ pc = "off" /\ sources # {} /\ Spend("runs")
  /\ files' = sources /\ srt' = Cached(sources)
  /\ Fresh /\ stopped' = FALSE /\ cancelled' = FALSE
  /\ IF sources \subseteq srt' \/ scenario.whisper \in {"batch", "broken"}
     THEN /\ mode' = "pipe" /\ plan' = PlanParts(sources) /\ at' = Queued(sources \cap srt')
          /\ Len(plan') <= Len(FreeNumbers)
          /\ pc' = (IF sources \subseteq srt' THEN "drain" ELSE "whisper") /\ answer' = "none"
     ELSE StartPlain(sources \ srt', FALSE)
  /\ UNCHANGED <<sources, slide, part>>

\* enqueue: a context that is done may win over the queue.
Enqueue(v) == at' \in {[at EXCEPT ![v] = "queued"]} \cup (IF stopped THEN {[at EXCEPT ![v] = "dropped"]} ELSE {})

\* faster-whisper finishes a video; its line is read, or not recognised.
Transcribe(v) ==
  /\ pc = "whisper" /\ scenario.whisper = "batch" /\ v \in Missing
  /\ srt' = srt \cup {v}
  /\ Enqueue(v) \/ UNCHANGED at
  /\ UNCHANGED <<scenario, sources, slide, part, run, gone, export, ends, cancelled, answer>>

\* It ends by itself or is killed.  finalizePipelineMissingTranscripts queues
\* what was transcribed in silence and fails at the first video that was not;
\* after an error it is not called.
Silent == {v \in files \cap srt : at[v] = "none" /\ \A m \in Missing : v < m}
WhisperEnds ==
  /\ pc = "whisper" /\ scenario.whisper = "batch"
  /\ IF Missing = {} \/ stopped THEN UNCHANGED scenario ELSE Spend("faults")
  /\ \E queued \in {Silent} \cup (IF err \/ Missing # {} THEN {{}} ELSE {}),
        dropped \in IF stopped THEN SUBSET Silent ELSE {{}} :
       at' = [v \in Video |-> IF v \notin queued THEN at[v] ELSE IF v \in dropped THEN "dropped" ELSE "queued"]
  /\ IF Missing # {} THEN SetErr ELSE UNCHANGED ends
  /\ pc' = "drain"
  /\ UNCHANGED <<disk, mode, files, plan, gone, export, cancelled, answer>>

\* faster-whisper cannot be imported: the pipeline is given up.
WhisperBroken ==
  /\ pc = "whisper" /\ scenario.whisper = "broken"
  /\ pc' = "giveup" /\ stopped' = TRUE
  /\ UNCHANGED <<scenario, disk, mode, files, plan, pool, export, err, cancelled, answer>>
-----------------------------------------------------------------------------
\* A worker takes a video; one that sees the context done returns with it.
Take(v) ==
  /\ at[v] = "queued" /\ Cardinality(At({"taken"})) + gone < PoolSize
  /\ IF Drops THEN at' = [at EXCEPT ![v] = "dropped"] /\ gone' = gone + 1
     ELSE at' = [at EXCEPT ![v] = "taken"] /\ UNCHANGED gone
  /\ UNCHANGED <<scenario, disk, run, export, ends, cancelled, answer>>

\* compressPipelineItem, prepareCourseItem: a file that is there is taken for
\* the compressed video, whatever a killed run left of it.  In the pipeline a
\* context that is done may win over the result.
Result(v) ==
  \/ at' = [at EXCEPT ![v] = "sent"] /\ UNCHANGED gone
  \/ stopped /\ mode = "pipe" /\ at' = [at EXCEPT ![v] = "dropped"] /\ gone' = gone + 1

\* prepareTranscriptFiles: the plain path transcribes what has no transcript.
PrepareTranscript(v) == srt \cup (IF mode = "plain" THEN {v} ELSE {})
Compress(v) ==
  /\ at[v] = "taken"
  /\ slide' = [slide EXCEPT ![v] = IF @ = "none" THEN "whole" ELSE @]
  /\ srt' = PrepareTranscript(v)
  /\ Result(v)
  /\ UNCHANGED <<scenario, sources, part, run, export, ends, cancelled, answer>>
CompressFails(v) ==
  /\ at[v] = "taken"
  /\ \/ v \notin srt /\ UNCHANGED srt
     \/ slide[v] = "none" /\ srt' = PrepareTranscript(v)
  /\ IF stopped THEN UNCHANGED scenario ELSE Spend("faults")
  /\ \/ SetErr /\ at' = [at EXCEPT ![v] = "failed"] /\ gone' = gone + 1
     \/ stopped /\ mode = "pipe" /\ at' = [at EXCEPT ![v] = "dropped"] /\ gone' = gone + 1 /\ UNCHANGED ends
  /\ UNCHANGED <<sources, slide, part, run, export, cancelled, answer>>

\* Every worker returned, because jobs is closed and empty or because of an
\* error or the context: results is closed.  (Mutant: every video is waited for.)
ClosedWhenEmpty == pc \in {"drain", "giveup"} /\ At({"taken", "queued"}) = {}
Closed ==
  /\ pc \in {"drain", "giveup"} /\ At({"taken"}) = {}
  /\ At({"queued"}) = {} \/ gone = PoolSize
-----------------------------------------------------------------------------
InPart(m) == {plan[m].items[i] : i \in DOMAIN plan[m].items}

\* exportReadyCourseParts from where it is: the next part, or back to results.
Ready(n, collected) == n < Len(plan) /\ InPart(n + 1) \subseteq collected
Scan(n, collected) ==
  agg' = [at |-> IF Ready(n, collected) THEN "subtitles" ELSE IF agg.last THEN "done" ELSE "results",
          last |-> agg.last, cleaned |-> 0]
GiveUpPart == agg' = [agg EXCEPT !.at = IF agg.last \/ mode = "plain" THEN "done" ELSE "results", !.cleaned = 0]

Collect(v) ==
  /\ agg.at = "results" /\ at[v] = "sent"
  /\ at' = [at EXCEPT ![v] = "collected"]
  /\ IF mode = "plain" THEN UNCHANGED agg ELSE Scan(exported, At({"collected"}) \cup {v})
  /\ UNCHANGED <<scenario, disk, run, gone, exported, ends, cancelled, answer>>
CollectFailure(v) ==
  /\ agg.at = "results" /\ at[v] = "failed"
  /\ at' = [at EXCEPT ![v] = "counted"] /\ SetErr
  /\ UNCHANGED <<scenario, disk, run, gone, export, cancelled, answer>>

\* Nothing more comes: the pipeline looks at its parts once more, whatever went
\* wrong; the plain path returns its error, or plans and writes its parts.
PlainResults ==
  /\ err' = (err \/ At({"collected"}) # files)
  /\ plan' = IF err' THEN <<>> ELSE PlainParts
  /\ agg' = [agg EXCEPT !.last = TRUE, !.at = IF err' THEN "done" ELSE "subtitles"]
LastPass ==
  /\ agg.at = "results" /\ ~agg.last /\ Closed /\ At({"sent", "failed"}) = {}
  /\ IF mode = "plain" THEN PlainResults
     ELSE /\ agg' = [agg EXCEPT !.last = TRUE, !.at = IF Ready(exported, At({"collected"})) THEN "subtitles" ELSE "done"]
          /\ UNCHANGED <<plan, err>>
  /\ UNCHANGED <<scenario, disk, pc, mode, files, pool, exported, stopped, cancelled, answer>>

Items == plan[exported + 1].items
These == InPart(exported + 1)
This == plan[exported + 1].number
Step(from, to) == agg.at = from /\ agg' = [agg EXCEPT !.at = to]
\* An error of a part is setErr.  (Mutant: only reported.)
FailsQuietly(from) == agg.at = from /\ GiveUpPart /\ UNCHANGED ends
Fails(from) == agg.at = from /\ GiveUpPart /\ SetErr
PartDone(from) ==
  /\ agg.at = from /\ exported' = exported + 1
  /\ Scan(exported + 1, At({"collected"}))
OnlyPart == UNCHANGED <<scenario, sources, srt, slide, run, pool, cancelled, answer>>
OnlyExport == UNCHANGED <<scenario, disk, run, pool, cancelled, answer>>

\* removeIncompleteCourseArtifact and mergeSRTs, which removes the subtitles of
\* a part that has none.
Kept(n) == IF CompletePart(n) THEN part[n] ELSE NoPart
Subtitles ==
  /\ Step("subtitles", "video")
  /\ part' = [part EXCEPT ![This] = [Kept(This) EXCEPT !.srt = These \cap srt # {}]]
  /\ OnlyPart /\ UNCHANGED <<exported, ends>>

\* mergeVideosWithSRT, then mergeVideosThenEmbedSRT, which first removes the
\* video there is: merged to its end, out of the compressed videos as they are.
MergeVideo ==
  /\ ~stopped /\ Step("video", "text")
  /\ part' = [part EXCEPT ![This].video = "whole", ![This].has = These,
                          ![This].cut = {v \in These : slide[v] # "whole"}]
  /\ OnlyPart /\ UNCHANGED <<exported, ends>>
\* writeCoursePart falls back on embedding only if the part has subtitles.
LeftOver(n) == IF part[n].srt THEN "none" ELSE part[n].video
MergeFails ==
  /\ Fails("video")
  /\ IF stopped THEN UNCHANGED scenario ELSE Spend("faults")
  /\ part' = [part EXCEPT ![This].video = LeftOver(This)]
  /\ UNCHANGED <<sources, srt, slide, run, pool, exported, cancelled, answer>>

\* mergeTranscripts: the segments are in the order of the videos.
Text ==
  /\ IF mode = "plain" THEN PartDone("text") ELSE Step("text", "verify") /\ UNCHANGED exported
  /\ part' = [part EXCEPT ![This].text = These \cap srt]
  /\ OnlyPart /\ UNCHANGED ends

\* verifyCoursePart: the files are there, the video can be read and is as long
\* as its sources, give or take two minutes or half a percent; where no length
\* is known there is nothing to compare.  (Mutant: the length is not looked at.)
AnyLength(n) == CompletePart(n) /\ part[n].video = "whole"
Verified(n) == AnyLength(n) /\ part[n].cut \in scenario.tolerated
Verify ==
  /\ agg.at = "verify"
  /\ IF stopped \/ ~Verified(This) THEN Fails("verify") /\ UNCHANGED exported
     ELSE /\ IF scenario.cleanup THEN Step("verify", "cleanup") /\ UNCHANGED exported ELSE PartDone("verify")
          /\ UNCHANGED ends
  /\ OnlyExport

\* cleanupVerifiedCoursePart, one video after the other: the video, what was
\* compressed, its transcript.
Cleanup ==
  /\ agg.at = "cleanup"
  /\ LET v == Items[agg.cleaned + 1]
     IN  IF v \in scenario.sticky
         THEN Fails("cleanup") /\ UNCHANGED <<disk, exported>>
         ELSE /\ sources' = sources \ {v} /\ srt' = srt \ {v} /\ slide' = [slide EXCEPT ![v] = "none"]
              /\ IF agg.cleaned + 1 = Len(Items) THEN PartDone("cleanup")
                 ELSE agg' = [agg EXCEPT !.cleaned = @ + 1] /\ UNCHANGED exported
              /\ UNCHANGED <<part, ends>>
  /\ UNCHANGED <<scenario, run, pool, cancelled, answer>>

\* runCoursePipeline returns, and the job with it, or the plain path begins.
Return ==
  /\ agg.at = "done" /\ pc = "drain"
  /\ pc' = "off" /\ answer' = IF err THEN "failed" ELSE "ok"
  /\ UNCHANGED <<scenario, disk, mode, files, plan, pool, export, ends, cancelled>>
Plain ==
  /\ agg.at = "done" /\ pc = "giveup"
  /\ files' = files /\ StartPlain(Missing, cancelled) /\ Fresh /\ stopped' = cancelled
  /\ UNCHANGED <<scenario, disk, cancelled>>
-----------------------------------------------------------------------------
\* The job is cancelled; the process dies, and leaves cut what ffmpeg wrote.
Cancel ==
  /\ pc # "off" /\ ~cancelled /\ Spend("cancels")
  /\ cancelled' = TRUE /\ stopped' = TRUE
  /\ UNCHANGED <<disk, run, pool, export, err, answer>>
Kill ==
  /\ pc # "off" /\ Spend("crashes")
  /\ \E half \in SUBSET {v \in At({"taken"}) : slide[v] = "none"} :
       slide' = [v \in Video |-> IF v \in half THEN "cut" ELSE slide[v]]
  /\ part' \in {part} \cup (IF agg.at = "video" THEN {[part EXCEPT ![This].video = "cut"]} ELSE {})
  /\ pc' = "off" /\ answer' = "killed" /\ at' = [v \in Video |-> "none"] /\ plan' = <<>> /\ Fresh
  /\ UNCHANGED <<sources, srt, mode, files, stopped, cancelled>>

Work ==
  \/ \E v \in Video : \/ Transcribe(v) \/ Take(v) \/ Compress(v) \/ CompressFails(v)
                     \/ Collect(v) \/ CollectFailure(v)
  \/ WhisperEnds \/ WhisperBroken \/ LastPass
  \/ Subtitles \/ MergeVideo \/ MergeFails \/ Text \/ Verify \/ Cleanup \/ Return \/ Plain
CourseNext == Begin \/ Work \/ Cancel \/ Kill \/ \E v \in Video : Late(v)
CourseSpec == CourseInit /\ [][CourseNext]_courseVars /\ WF_courseVars(Work)
-----------------------------------------------------------------------------
\* What a run with cleanup must be for its parts to be safe from the next run:
\* the single part of a run without a limit and the parts of the plain path,
\* counted from 1, are written over whatever an earlier run left there.
SafelyNumbered == scenario.cleanup => scenario.limit > 0 /\ scenario.whisper = "batch"

\* So numbered, no run, however it ended and whatever came before it, deletes a
\* video before it is in a part that has all its files, was merged to its end
\* and lacks no more of its videos than the check lets pass.  That much the code
\* can lose: a compression that was killed leaves a half-written file, the next
\* run takes it for the compressed video, and up to two minutes or half a percent
\* of the part, or anything where no length is known, are not missed.  And when a
\* video of a part cannot be deleted, the videos deleted before it are gone if
\* the last pass then merges the part again.
\* "Delete source/cache after verified Course part" (web/src/workflows/video.ts:19).
NothingLost ==
  SafelyNumbered => \A v \in Video \ scenario.late :
    \/ v \in sources
    \/ \E n \in Number : /\ CompletePart(n) /\ part[n].video = "whole" /\ v \in part[n].has
                        /\ part[n].cut \in scenario.tolerated
    \/ \E w \in scenario.sticky : v < w

\* A run that returns no error, and was not cancelled, put each of its videos
\* into a part, and the pipeline saw that the part was merged to its end and
\* lacks no more of its videos than the check lets pass.
SuccessMeansWhole ==
  answer = "ok" /\ ~cancelled =>
    \A v \in files : \E n \in Number :
      /\ CompletePart(n) /\ v \in part[n].has
      /\ mode = "pipe" => part[n].video = "whole" /\ part[n].cut \in scenario.tolerated

\* The job ends: transcription, workers and aggregator never wait on each
\* other for ever, whatever fails or is cancelled.
PipelineEnds == pc # "off" ~> pc = "off"
=============================================================================
