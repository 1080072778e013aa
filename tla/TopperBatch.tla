---------------------------- MODULE TopperBatch ----------------------------
(***************************************************************************)
(* The command aicli topper-batch-run against the server's archive: copies *)
(* are submitted one on each free provider lane, jobs are polled, reviews  *)
(* are written under an output directory where nothing is overwritten.  An *)
(* interrupted command is run again with the same manifest and directory.  *)
(***************************************************************************)
EXTENDS ReviewArchive, SequencesExt

CONSTANTS
  Lane,      \* provider lanes
  Plan       \* the copies of the manifest, in order, and how often the command
             \* is run on it

\* loadTopperBatchManifest: there are copies, and no two are the same.
ManifestFits(copies) == copies # <<>> /\ IsInjective(copies)

ASSUME BatchAssumption ==
  /\ IsFiniteSet(Lane)
  /\ \A p \in Plan : p.runs \in Nat /\ p.copies \in Seq(Copy) /\ ManifestFits(p.copies)
  /\ None \notin [copy : Copy, lane : Lane, by : Handler] /\ None \notin [review : Review, text : Text]

VARIABLES
  plan,     \* the plan that is carried out
  stage,    \* where executeTopperBatch is
  run,      \* which run of the command it is
  pending,  \* copies not yet submitted
  free,     \* the available lanes, in order
  asked,    \* the submission in flight
  active,   \* jobs in flight with their copies and lanes
  round,    \* jobs still to poll in this round
  items,    \* the result's items
  expired,  \* the batch's context is done
  output,   \* the output directory
  told      \* what any run reported as completed

commandVars == <<plan, stage, run, pending, free, asked, active, round, items, expired, output, told>>
topperVars == <<archiveVars, commandVars>>

TopperInit ==
  /\ ArchiveInit
  /\ plan \in Plan
  /\ stage = "off" /\ run = 0 /\ pending = <<>> /\ free = <<>> /\ asked = None
  /\ active = {} /\ round = {} /\ items = <<>> /\ expired = FALSE
  /\ output = [c \in Copy |-> None] /\ told = {}

\* executeTopperBatch up to its loop: the manifest names every copy once and
\* there are lanes.
Begin ==
  /\ stage \in {"off", "done", "timed out", "killed"} /\ run < plan.runs
  /\ run' = run + 1 /\ stage' = "submit"
  /\ pending' = plan.copies /\ free' \in SetToSeqs(Lane)
  /\ asked' = None /\ active' = {} /\ round' = {} /\ items' = <<>> /\ expired' = FALSE
  /\ UNCHANGED <<plan, output, told, archiveVars>>

\* The next copy is sent to the next lane.
Ask(h) ==
  /\ stage = "submit" /\ asked = None /\ pending # <<>> /\ free # <<>> /\ ~expired
  /\ Arrive(h, "analyze", Head(pending), Kept(Head(pending)))
  /\ asked' = [copy |-> Head(pending), lane |-> Head(free), by |-> h]
  /\ pending' = Tail(pending) /\ free' = Tail(free)
  /\ UNCHANGED <<plan, rows, files, jobs, edited, chances, stage, run, active, round, items, expired, output, told>>

\* The answer names the job that was started.
Submitted(h) ==
  /\ calls[h] # None /\ calls[h].at = "answer"
  /\ calls' = [calls EXCEPT ![h] = None]
  /\ IF asked # None /\ asked.by = h
     THEN /\ active' = active \cup {[copy |-> asked.copy, lane |-> asked.lane, job |-> calls[h].seen]}
          /\ asked' = None
     ELSE UNCHANGED <<active, asked>>
  /\ UNCHANGED <<plan, rows, files, jobs, edited, chances, stage, run, pending, free, round, items, expired, output, told>>

Item(copy, lane, state) == [copy |-> copy, lane |-> lane, state |-> state]
\* A submission fails: the item is failed and its lane free again, although
\* the server may have got the request and go on with it.  (Mutant: the lane
\* is not given back.)
KeepLane(lane) == free
GiveBack(lane) == Append(free, lane)
SubmitFails ==
  /\ \/ /\ asked # None /\ (expired \/ calls[asked.by] = None \/ chances["lost"] > 0)
        /\ chances' = IF expired \/ calls[asked.by] = None THEN chances ELSE [chances EXCEPT !["lost"] = @ - 1]
        /\ items' = Append(items, Item(asked.copy, asked.lane, "failed"))
        /\ free' = GiveBack(asked.lane) /\ asked' = None
        /\ UNCHANGED pending
     \/ /\ stage = "submit" /\ asked = None /\ pending # <<>> /\ free # <<>> /\ expired
        /\ items' = Append(items, Item(Head(pending), Head(free), "failed"))
        /\ pending' = Tail(pending) /\ free' = Append(Tail(free), Head(free))
        /\ UNCHANGED <<asked, chances>>
  /\ UNCHANGED <<plan, rows, files, jobs, calls, edited, stage, run, active, round, expired, output, told>>

\* Nothing more to submit: the loop ends or waits for the ticker.
Wait ==
  /\ stage = "submit" /\ asked = None /\ (pending = <<>> \/ free = <<>>)
  /\ stage' = IF active = {} THEN "done" ELSE "wait"
  /\ UNCHANGED <<plan, run, pending, free, asked, active, round, items, expired, output, told, archiveVars>>

Expire ==
  /\ stage \in {"submit", "wait", "poll"} /\ expired' = TRUE
  /\ Spend("expiry")
  /\ UNCHANGED <<plan, rows, files, jobs, calls, edited, stage, run, pending, free, asked, active, round, items, output, told>>
TimeOut ==
  /\ stage = "wait" /\ expired
  /\ stage' = "timed out"
  /\ UNCHANGED <<plan, run, pending, free, asked, active, round, items, expired, output, told, archiveVars>>
Tick ==
  /\ stage = "wait"
  /\ stage' = "poll" /\ round' = {a.job : a \in active}
  /\ UNCHANGED <<plan, run, pending, free, asked, active, items, expired, output, told, archiveVars>>

\* writeTopperBatchReview: an existing file must be the same review.  (Mutant:
\* it is replaced.)
MayReplace(existing, review) == TRUE
MayWrite(existing, review) == existing \in {None, review}
\* writeTopperBatchFileAtomically: a rename.
WriteFile(c, review) == [output EXCEPT ![c] = review]
\* One job of the round: not finished, gone or unreachable; failed; or
\* completed with a review.
Unanswered(j) == expired \/ ~jobs[j].listed \/ jobs[j].state \in Live
Poll(j) ==
  /\ stage = "poll" /\ round # {} /\ j = Min(round)
  /\ round' = round \ {j}
  /\ LET a == CHOOSE a \in active : a.job = j
         review == [review |-> jobs[j].review, text |-> jobs[j].text]
         written == jobs[j].state = "completed" /\ MayWrite(output[a.copy], review) IN
     \/ Unanswered(j) /\ UNCHANGED <<active, items, free, output, told>>
     \/ /\ ~Unanswered(j)
        /\ output' = IF written THEN WriteFile(a.copy, review) ELSE output
        /\ told' = IF written THEN told \cup {<<a.copy, review>>} ELSE told
        /\ items' = Append(items, Item(a.copy, a.lane, IF written THEN "completed" ELSE "failed"))
        /\ active' = active \ {a} /\ free' = Append(free, a.lane)
  /\ UNCHANGED <<plan, stage, run, pending, asked, expired, archiveVars>>
EndRound ==
  /\ stage = "poll" /\ round = {}
  /\ stage' = IF pending = <<>> /\ active = {} THEN "done" ELSE "submit"
  /\ UNCHANGED <<plan, run, pending, free, asked, active, round, items, expired, output, told, archiveVars>>

Kill ==
  /\ stage \in {"submit", "wait", "poll"} /\ Spend("kill")
  /\ stage' = "killed" /\ asked' = None
  /\ UNCHANGED <<plan, rows, files, jobs, calls, edited, run, pending, free, active, round, items, expired, output, told>>

CommandNext ==
  \/ Begin \/ SubmitFails \/ Wait \/ Expire \/ TimeOut \/ Tick \/ EndRound \/ Kill
  \/ \E h \in Handler : Ask(h) \/ Submitted(h)
  \/ \E j \in DOMAIN jobs : Poll(j)
TopperNext == CommandNext \/ (ArchiveNext /\ UNCHANGED commandVars)
TopperSpec == TopperInit /\ [][TopperNext]_topperVars
-----------------------------------------------------------------------------
Running == stage \in {"submit", "wait", "poll"}
InFlight == active \cup ({asked} \ {None})
Times(x, seq) == Cardinality({i \in DOMAIN seq : seq[i] = x})

\* However submissions and polls fail, every copy of the manifest is waiting,
\* in flight or reported, each once, and every lane is free or in the hands of
\* one copy: no copy goes unreported and the batch does not run dry of lanes.
NothingDropped ==
  Running \/ stage = "done" =>
    /\ \A c \in Range(plan.copies) :
         Times(c, pending) + Times(c, [i \in DOMAIN items |-> items[i].copy])
           + Cardinality({f \in InFlight : f.copy = c}) = 1
    /\ \A l \in Lane : Times(l, free) + Cardinality({f \in InFlight : f.lane = l}) = 1

\* A review that any run of the command reported as completed is the one in
\* the output directory, for good.
ReviewsKept == \A t \in told : output[t[1]] = t[2]

\* A copy whose review exists when it is submitted is not analysed again, if
\* the review suggests no other name for the copy and
\* nobody edits or deletes the review meanwhile: neither when the review's row
\* could not be saved, nor after a restart of the server, nor in the next run
\* of the command.  README.md:151: "Normal/resumed runs reuse a completed
\* immutable review where available."
AnalysedOnce ==
  [][\A h \in Handler :
       /\ calls[h] # None /\ calls[h].at = "files" /\ calls[h].owed # {} /\ calls[h].about \notin Renamed
       /\ calls'[h] # None /\ calls'[h].at = "answer"
       => jobs'[Len(jobs')].kind = "reuse"]_topperVars

\* A list shows every edit that was answered before the list was asked for, if
\* the review was not deleted or analysed again and no other request writes
\* rows back at the same time.
EditsShown ==
  [][\A h \in Handler :
       calls[h] # None /\ calls[h].kind = "list" /\ calls'[h] = None /\ chances'["crash"] = chances["crash"]
       => \A r \in calls[h].owed : rows[r] # None /\ "edit" \in rows[r].text]_topperVars
=============================================================================
