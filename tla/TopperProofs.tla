---------------------------- MODULE TopperProofs ----------------------------
(***************************************************************************)
(* What is proved of the topper archive and the batch command: for any     *)
(* copies, lanes, requests in flight, plans and chances of users and       *)
(* faults.                                                                 *)
(***************************************************************************)
EXTENDS TopperBatch, FiniteSetTheorems, FunctionTheorems, SequenceTheorems, WellFoundedInduction, TLAPS

(* The archive: what rows, files, jobs and requests are, and how they      *)
(* belong together.  The definitions take the state as parameters, so that *)
(* a lemma can compare two of them.                                        *)

Job == [kind : {"analyze", "reuse", "rerun"}, copy : Copy, source : Copy \cup {None}, review : Review,
        state : Live \cup {"completed", "failed"}, text : Text, listed : BOOLEAN]

\* Jobs are about reviews that a job made; a reuse writes nothing.
JobsFit(js) ==
  /\ js \in Seq(Job) /\ Len(js) <= MaxJobs
  /\ \A j \in DOMAIN js :
       /\ js[j].review \in DOMAIN js
       /\ js[j].kind = "reuse" => js[j].state \in {"running", "completed", "failed"}

\* A review's row names a job about that review, or none.
RowFits(row, r, js) ==
  /\ row \in RowRecord /\ r \in DOMAIN js
  /\ row.job # None => row.job \in DOMAIN js /\ js[row.job].review = r
RowsFit(rs, js) ==
  /\ rs \in [Review -> RowRecord \cup {None}]
  /\ \A r \in Review : rs[r] # None => RowFits(rs[r], r, js)
FilesFit(fs, js) ==
  /\ fs \in [Review -> Text \cup {None}]
  /\ \A r \in Review : fs[r] # None => r \in DOMAIN js

\* What a request holds at each of its places.
RequestFits(c, js) ==
  /\ c \in Request /\ c.todo \subseteq DOMAIN js /\ c.owed \subseteq DOMAIN js
  /\ c.kind = "list" => c.at \in {"jobs", "outputs", "files"}
  /\ c.kind = "analyze" => c.at \in {"jobs", "outputs", "files", "answer"} /\ c.about \in Copy
  /\ c.kind = "edit" => c.at \in {"row", "file"} /\ RowFits(c.seen, c.about, js) /\ "edit" \in c.seen.text
  /\ c.kind = "delete" => c.at \in {"row", "job"} /\ RowFits(c.seen, c.about, js)
  /\ c.at = "outputs" =>
       /\ c.seen \in [Review -> RowRecord \cup {None}]
       /\ \A j \in c.todo : /\ c.seen[j] # None /\ c.seen[j].status = "ready"
                            /\ RowFits(c.seen[j], js[j].review, js)
  /\ c.at = "files" => c.seen \in Text \cup {None} /\ (c.seen # None => c.todo # {})
  /\ c.at = "answer" => c.seen \in DOMAIN js
RequestsFit(cs, js) ==
  /\ cs \in [Handler -> Request \cup {None}]
  /\ \A h \in Handler : cs[h] # None => RequestFits(cs[h], js)

ArchiveTypes ==
  /\ JobsFit(jobs) /\ RowsFit(rows, jobs) /\ FilesFit(files, jobs) /\ RequestsFit(calls, jobs)
  /\ edited \subseteq DOMAIN jobs /\ chances \in [Kinds -> Nat]
-----------------------------------------------------------------------------
(* How jobs and requests may change without disturbing what refers to them. *)

Grows(js, ks) ==
  /\ Len(js) <= Len(ks)
  /\ \A j \in DOMAIN js : ks[j].review = js[j].review /\ ks[j].copy = js[j].copy /\ ks[j].kind = js[j].kind

\* The same request at the same place, which may owe less.
Eased(c, d) ==
  /\ d \in Request
  /\ d.kind = c.kind /\ d.about = c.about /\ d.at = c.at /\ d.seen = c.seen /\ d.todo = c.todo
  /\ d.owed \subseteq c.owed

\* A nonempty set of reviews has a least one.
LEMMA MinOfReviews ==
  ASSUME NEW S, S \subseteq Review, S # {}
  PROVE  Min(S) \in S /\ \A y \in S : Min(S) <= y
<1> DEFINE Below == {0..x : x \in S}
<1>0. S \subseteq Nat
  BY ArchiveAssumption DEF Review
<1>1. Below # {}
  OBVIOUS
<1>2. Below \subseteq FiniteSubsetsOf(Nat)
  <2> SUFFICES ASSUME NEW x \in S PROVE 0..x \in FiniteSubsetsOf(Nat)
    OBVIOUS
  <2>1. IsFiniteSet(0..x)
    BY <1>0, FS_Interval
  <2>2. QED
    BY <1>0, <2>1 DEF FiniteSubsetsOf
<1>3. PICK B \in Below : \A C \in Below : ~(<<C, B>> \in StrictSubsetOrdering(Nat))
  <2> HIDE DEF Below
  <2>1. IsWellFoundedOn(StrictSubsetOrdering(Nat), FiniteSubsetsOf(Nat))
    BY FS_StrictSubsetOrderingWellFounded
  <2>2. QED
    BY <1>1, <1>2, <2>1, WFMin
<1>4. PICK m \in S : B = 0..m
  OBVIOUS
<1>5. ASSUME NEW y \in S PROVE m <= y
  <2>1. ~(<<0..y, 0..m>> \in StrictSubsetOrdering(Nat))
    BY <1>3, <1>4
  <2>2. 0..y \in SUBSET Nat /\ 0..m \in SUBSET Nat
    BY <1>0
  <2>3. ~(0..y \subseteq 0..m /\ 0..y # 0..m)
    BY <2>1, <2>2 DEF StrictSubsetOrdering
  <2>4. CASE y < m
    <3>1. 0..y \subseteq 0..m
      BY <1>0, <2>4
    <3>2. m \in 0..m /\ m \notin 0..y
      BY <1>0, <2>4
    <3>3. QED
      BY <2>3, <3>1, <3>2
  <2>5. QED
    BY <1>0, <2>4
<1>6. QED
  BY <1>5 DEF Min

\* And a greatest one.
LEMMA MaxOfReviews ==
  ASSUME NEW S, S \subseteq Review, S # {}
  PROVE  Max(S) \in S /\ \A y \in S : Max(S) >= y
<1> DEFINE T == {MaxJobs + 1 - x : x \in S}
<1>1. \A x \in Review : x \in Nat /\ MaxJobs + 1 - x \in Review
  BY ArchiveAssumption DEF Review
<1>2. T \subseteq Review /\ T # {}
  BY <1>1
<1>3. Min(T) \in T /\ \A y \in T : Min(T) <= y
  <2> HIDE DEF T
  <2> QED
    BY <1>2, MinOfReviews
<1>4. PICK m \in S : Min(T) = MaxJobs + 1 - m
  BY <1>3
<1>5. ASSUME NEW y \in S PROVE m >= y
  <2>1. Min(T) <= MaxJobs + 1 - y
    BY <1>3
  <2> HIDE DEF T
  <2>2. QED
    BY <1>1, <1>4, <2>1, ArchiveAssumption
<1>6. QED
  BY <1>5 DEF Max

LEMMA RowKept ==
  ASSUME NEW row, NEW r, NEW js, NEW ks, js \in Seq(Job), ks \in Seq(Job), Grows(js, ks), RowFits(row, r, js)
  PROVE  RowFits(row, r, ks)
BY DEF Grows, RowFits

LEMMA RowsKept ==
  ASSUME NEW rs, NEW js, NEW ks, js \in Seq(Job), ks \in Seq(Job), Grows(js, ks), RowsFit(rs, js)
  PROVE  RowsFit(rs, ks)
BY RowKept DEF RowsFit

LEMMA FilesKept ==
  ASSUME NEW fs, NEW js, NEW ks, js \in Seq(Job), ks \in Seq(Job), Grows(js, ks), FilesFit(fs, js)
  PROVE  FilesFit(fs, ks)
BY DEF FilesFit, Grows

LEMMA RequestKept ==
  ASSUME NEW c, NEW d, NEW js, NEW ks, js \in Seq(Job), ks \in Seq(Job), Grows(js, ks),
         RequestFits(c, js), Eased(c, d)
  PROVE  RequestFits(d, ks)
<1>1. DOMAIN js \subseteq DOMAIN ks
  BY DEF Grows
<1>2. d \in Request /\ d.todo \subseteq DOMAIN ks /\ d.owed \subseteq DOMAIN ks
  <2>1. c.todo \subseteq DOMAIN js /\ c.owed \subseteq DOMAIN js
    BY DEF RequestFits
  <2>2. QED
    BY <1>1, <2>1 DEF Eased
<1>3. \A row, r : RowFits(row, r, js) => RowFits(row, r, ks)
  BY RowKept
<1>4. \A j \in c.todo : ks[j].review = js[j].review
  BY DEF RequestFits, Grows
<1>5. QED
  BY <1>1, <1>2, <1>3, <1>4 DEF RequestFits, Eased

\* One request goes on, the others stay or owe less.
LEMMA RequestsKept ==
  ASSUME NEW cs, NEW ds, NEW js, NEW ks, NEW h, js \in Seq(Job), ks \in Seq(Job), Grows(js, ks),
         RequestsFit(cs, js), ds \in [Handler -> Request \cup {None}],
         \A g \in Handler \ {h} : ds[g] # None => cs[g] # None /\ Eased(cs[g], ds[g]),
         h \in Handler /\ ds[h] # None => RequestFits(ds[h], ks)
  PROVE  RequestsFit(ds, ks)
<1> SUFFICES ASSUME NEW g \in Handler, ds[g] # None PROVE RequestFits(ds[g], ks)
  BY DEF RequestsFit
<1>1. CASE g = h
  BY <1>1
<1>2. CASE g # h
  BY <1>2, RequestKept DEF RequestsFit
<1>3. QED
  BY <1>1, <1>2

LEMMA JobsStay ==
  ASSUME NEW js PROVE Grows(js, js)
BY DEF Grows
-----------------------------------------------------------------------------
(* Every step of the archive keeps the types.  A step serves one request   *)
(* and leaves the others where they are.                                   *)

OthersEased(h) ==
  \A g \in Handler \ {h} :
    IF calls[g] = None THEN calls'[g] = None ELSE calls'[g] # None /\ Eased(calls[g], calls'[g])

LEMMA ArchiveBasics ==
  ASSUME ArchiveTypes
  PROVE  /\ jobs \in Seq(Job) /\ Len(jobs) \in Nat /\ DOMAIN jobs = 1..Len(jobs) /\ DOMAIN jobs \subseteq Review
         /\ \A j \in DOMAIN jobs : jobs[j] \in Job /\ jobs[j].review \in DOMAIN jobs
         /\ \A h \in Handler : calls[h] # None => calls[h] \in Request /\ RequestFits(calls[h], jobs)
BY ArchiveAssumption DEF ArchiveTypes, JobsFit, Review, RequestsFit

LEMMA OvertakenEases ==
  ASSUME ArchiveTypes, NEW h \in Handler
  PROVE  /\ Overtaken(h) \in [Handler -> Request \cup {None}] /\ Overtaken(h)[h] = calls[h]
         /\ \A g \in Handler : IF calls[g] = None THEN Overtaken(h)[g] = None
                               ELSE /\ Overtaken(h)[g] # None /\ Eased(calls[g], Overtaken(h)[g])
                                    /\ calls[g].kind = "list" /\ g # h => Overtaken(h)[g].owed = {}
<1>1. \A c \in Request : [c EXCEPT !.owed = {}] \in Request /\ Eased(c, [c EXCEPT !.owed = {}]) /\ Eased(c, c)
                         /\ [c EXCEPT !.owed = {}].owed = {}
  BY DEF Request, Eased
<1>2. calls \in [Handler -> Request \cup {None}] /\ None \notin Request
  BY NothingAssumption DEF ArchiveTypes, RequestsFit
<1>3. QED
  BY <1>1, <1>2 DEF Overtaken

LEMMA DisownEases ==
  ASSUME ArchiveTypes, NEW r
  PROVE  /\ Disown(r) \in [Handler -> Request \cup {None}]
         /\ \A g \in Handler : IF calls[g] = None THEN Disown(r)[g] = None
                               ELSE /\ Disown(r)[g] # None /\ Eased(calls[g], Disown(r)[g])
                                    /\ Disown(r)[g].owed = calls[g].owed \ {r}
<1>1. \A c \in Request : /\ [c EXCEPT !.owed = @ \ {r}] \in Request /\ Eased(c, [c EXCEPT !.owed = @ \ {r}])
                         /\ [c EXCEPT !.owed = @ \ {r}].owed = c.owed \ {r}
  BY DEF Request, Eased
<1>2. calls \in [Handler -> Request \cup {None}] /\ None \notin Request
  BY NothingAssumption DEF ArchiveTypes, RequestsFit
<1>3. QED
  BY <1>1, <1>2 DEF Disown

\* What a step has to show of the requests: where it puts its own.
LEMMA RequestServed ==
  ASSUME ArchiveTypes, NEW h \in Handler, OthersEased(h), NEW ks, ks \in Seq(Job), Grows(jobs, ks),
         NEW e, e # None => RequestFits(e, ks),
         calls' \in [Handler -> Request \cup {None}], calls'[h] = e
  PROVE  RequestsFit(calls', ks)
BY RequestsKept DEF OthersEased, ArchiveTypes, JobsFit

LEMMA SimpleStep ==
  ASSUME ArchiveTypes, NEW h \in Handler, NEW e, calls' = [calls EXCEPT ![h] = e], e \in Request \cup {None}
  PROVE  OthersEased(h) /\ calls' \in [Handler -> Request \cup {None}] /\ calls'[h] = e
<1>1. \A c \in Request : Eased(c, c)
  BY DEF Eased
<1>2. QED
  BY <1>1 DEF OthersEased, ArchiveTypes, RequestsFit

Fresh(kind, about, owed) ==
  [kind |-> kind, about |-> about, at |-> "jobs", seen |-> None, todo |-> {}, owed |-> owed]

LEMMA ListStep ==
  ASSUME ArchiveTypes, NEW h \in Handler, List(h)
  PROVE  RequestsFit(calls', jobs) /\ OthersEased(h) /\ calls'[h] = Fresh("list", None, edited)
<1> DEFINE c == Fresh("list", None, edited)
<1>1. jobs \in Seq(Job) /\ DOMAIN jobs \subseteq Review /\ edited \subseteq DOMAIN jobs
  BY ArchiveBasics DEF ArchiveTypes
<1>2. c \in Request
  BY <1>1 DEF Request, Fresh
<1>3. RequestFits(c, jobs)
  BY <1>1, <1>2 DEF RequestFits, Fresh
<1>4. calls' = [calls EXCEPT ![h] = c]
  BY DEF List, Arrive, Fresh
<1> HIDE DEF c
<1>5. OthersEased(h) /\ calls' \in [Handler -> Request \cup {None}] /\ calls'[h] = c
  BY <1>2, <1>4, SimpleStep
<1>6. QED
  BY <1>1, <1>3, <1>5, JobsStay, RequestServed DEF c

\* The reviews an analysis should find again.
LEMMA AskStep ==
  ASSUME ArchiveTypes, NEW h \in Handler, NEW p \in Copy, Arrive(h, "analyze", p, Kept(p))
  PROVE  /\ RequestsFit(calls', jobs) /\ OthersEased(h) /\ calls'[h] = Fresh("analyze", p, Kept(p))
         /\ \A r \in Kept(p) : r \in DOMAIN jobs
<1> DEFINE c == Fresh("analyze", p, Kept(p))
<1>1. jobs \in Seq(Job) /\ DOMAIN jobs \subseteq Review /\ Kept(p) \subseteq DOMAIN jobs
  BY ArchiveBasics DEF Kept
<1>2. calls' = [calls EXCEPT ![h] = c]
  BY DEF Arrive, Fresh
<1> HIDE DEF Kept
<1>3. c \in Request
  BY <1>1 DEF Request, Fresh
<1>4. RequestFits(c, jobs)
  BY <1>1, <1>3 DEF RequestFits, Fresh
<1> HIDE DEF c
<1>5. OthersEased(h) /\ calls' \in [Handler -> Request \cup {None}] /\ calls'[h] = c
  BY <1>2, <1>3, SimpleStep
<1>6. QED
  BY <1>1, <1>4, <1>5, JobsStay, RequestServed DEF c

LEMMA ListJobsStep ==
  ASSUME ArchiveTypes, NEW h \in Handler, ListJobs(h)
  PROVE  /\ RequestsFit(calls', jobs) /\ OthersEased(h) /\ calls[h] # None /\ calls[h].at = "jobs"
         /\ calls'[h] # None /\ calls'[h].kind = calls[h].kind /\ calls'[h].about = calls[h].about
         /\ calls'[h].at = "outputs" /\ calls'[h].owed = calls[h].owed /\ calls'[h].todo = Outputs
<1> DEFINE seen == [j \in Review |-> IF j \in Outputs THEN OutputRow(j) ELSE None]
           c == [calls[h] EXCEPT !.at = "outputs", !.todo = Outputs, !.seen = seen]
<1>1. jobs \in Seq(Job) /\ DOMAIN jobs \subseteq Review /\ calls[h] \in Request /\ RequestFits(calls[h], jobs)
  BY ArchiveAssumption DEF ArchiveTypes, JobsFit, Review, RequestsFit, ListJobs
<1>2. Outputs \subseteq DOMAIN jobs /\ Outputs \subseteq Review
  BY <1>1 DEF Outputs
<1>3. ASSUME NEW j \in Outputs
      PROVE  /\ OutputRow(j) \in RowRecord /\ RowFits(OutputRow(j), jobs[j].review, jobs)
             /\ OutputRow(j).status = "ready" /\ OutputRow(j) # None
  <2>1. j \in DOMAIN jobs /\ j \in Review /\ jobs[j] \in Job /\ jobs[j].review \in DOMAIN jobs
    BY <1>1, <1>2, ArchiveBasics
  <2>2. OutputRow(j) \in RowRecord /\ OutputRow(j).status = "ready" /\ OutputRow(j).job = j
    BY <2>1 DEF OutputRow, Row, RowRecord, Job
  <2>3. QED
    BY <2>1, <2>2, NothingAssumption DEF RowFits
<1>4. seen \in [Review -> RowRecord \cup {None}] /\ \A j \in Outputs : seen[j] = OutputRow(j)
  BY <1>2, <1>3
<1>5. calls' = [calls EXCEPT ![h] = c]
  BY DEF ListJobs
<1>6. c.kind = calls[h].kind /\ c.about = calls[h].about /\ c.at = "outputs" /\ c.seen = seen
      /\ c.todo = Outputs /\ c.owed = calls[h].owed /\ c \in Request
  <2> HIDE DEF seen
  <2> QED
    BY <1>1, <1>2, <1>4 DEF Request
<1>7. calls[h].kind \in {"list", "analyze"} /\ (calls[h].kind = "analyze" => calls[h].about \in Copy)
  BY <1>1 DEF RequestFits, ListJobs, Request
<1> HIDE DEF c, seen
<1>8. RequestFits(c, jobs)
  BY <1>1, <1>2, <1>3, <1>4, <1>6, <1>7 DEF RequestFits
<1>9. OthersEased(h) /\ calls' \in [Handler -> Request \cup {None}] /\ calls'[h] = c
  BY <1>5, <1>6, SimpleStep
<1>10. c # None /\ calls[h] # None /\ calls[h].at = "jobs"
  BY <1>6, NothingAssumption DEF ListJobs
<1>11. RequestsFit(calls', jobs)
  BY <1>1, <1>8, <1>9, JobsStay, RequestServed
<1>12. QED
  BY <1>6, <1>9, <1>10, <1>11

LEMMA BackfillJobStep ==
  ASSUME ArchiveTypes, NEW h \in Handler, BackfillJob(h)
  PROVE  /\ RequestsFit(calls', jobs) /\ OthersEased(h) /\ RowsFit(rows', jobs)
         /\ calls[h] # None /\ calls[h].at = "outputs"
         /\ calls'[h] # None /\ calls'[h].kind = calls[h].kind /\ calls'[h].about = calls[h].about
         /\ calls'[h].at = "outputs" /\ calls'[h].owed = calls[h].owed
         /\ calls'[h].todo = calls[h].todo \ {Max(calls[h].todo)}
         /\ \A r \in Review : IF r = jobs[Max(calls[h].todo)].review
                              THEN rows'[r] # None /\ rows'[r].status = "ready"
                              ELSE rows'[r] = rows[r]
         /\ \A g \in Handler \ {h} : calls[g] # None /\ calls[g].kind = "list" => calls'[g].owed = {}
<1> DEFINE j == Max(calls[h].todo)
           todo == calls[h].todo \ {j}
           c == [calls[h] EXCEPT !.todo = todo]
           cs == Overtaken(h)
           row == calls[h].seen[j]
           r == jobs[j].review
<1>1. jobs \in Seq(Job) /\ DOMAIN jobs \subseteq Review /\ calls[h] \in Request /\ RequestFits(calls[h], jobs)
      /\ calls[h] # None /\ calls[h].at = "outputs" /\ calls[h].todo # {}
  BY ArchiveAssumption DEF ArchiveTypes, JobsFit, Review, RequestsFit, BackfillJob
<1>2. j \in calls[h].todo
  <2>1. calls[h].todo \subseteq Review
    BY <1>1 DEF Request
  <2>2. QED
    BY <1>1, <2>1, MaxOfReviews
<1> HIDE DEF j
<1>3. r \in Review /\ RowFits(row, r, jobs) /\ row # None /\ row.status = "ready"
  <2>1. j \in DOMAIN jobs
    BY <1>1, <1>2 DEF RequestFits
  <2>2. r \in Review
    BY <1>1, <2>1, ArchiveBasics
  <2>3. QED
    BY <1>1, <1>2, <2>2 DEF RequestFits
<1>4. rows' = [rows EXCEPT ![r] = row]
  BY DEF BackfillJob, FromJob, j
<1>5. RowsFit(rows', jobs)
  <2> HIDE DEF row, r
  <2> QED
    BY <1>3, <1>4 DEF RowsFit, ArchiveTypes, RowFits
<1>6. \A q \in Review : IF q = r THEN rows'[q] = row ELSE rows'[q] = rows[q]
  <2> HIDE DEF row, r
  <2> QED
    BY <1>3, <1>4 DEF RowsFit, ArchiveTypes
<1>7. /\ cs \in [Handler -> Request \cup {None}] /\ cs[h] = calls[h]
      /\ \A g \in Handler : IF calls[g] = None THEN cs[g] = None
                            ELSE /\ cs[g] # None /\ Eased(calls[g], cs[g])
                                 /\ calls[g].kind = "list" /\ g # h => cs[g].owed = {}
  BY OvertakenEases
<1>8. calls' = [cs EXCEPT ![h] = c]
  BY <1>7 DEF BackfillJob, j
<1>9. c.kind = calls[h].kind /\ c.about = calls[h].about /\ c.at = "outputs" /\ c.seen = calls[h].seen
      /\ c.todo = todo /\ c.owed = calls[h].owed /\ c \in Request
  BY <1>1 DEF Request
<1> HIDE DEF cs, row, r
<1>10. RequestFits(c, jobs)
  <2>1. todo \subseteq calls[h].todo
    OBVIOUS
  <2> HIDE DEF c, todo
  <2>2. QED
    BY <1>1, <1>9, <2>1 DEF RequestFits
<1> HIDE DEF c
<1>11. OthersEased(h) /\ calls' \in [Handler -> Request \cup {None}] /\ calls'[h] = c
      /\ \A g \in Handler \ {h} : calls[g] # None /\ calls[g].kind = "list" => calls'[g].owed = {}
  BY <1>7, <1>8, <1>9 DEF OthersEased
<1>12. RequestsFit(calls', jobs)
  BY <1>1, <1>10, <1>11, JobsStay, RequestServed
<1>13. c # None
  BY <1>9, NothingAssumption
<1>14. QED
  BY <1>1, <1>3, <1>5, <1>6, <1>9, <1>11, <1>12, <1>13 DEF r, j

LEMMA ListFilesStep ==
  ASSUME ArchiveTypes, NEW h \in Handler, ListFiles(h)
  PROVE  /\ RequestsFit(calls', jobs) /\ OthersEased(h)
         /\ calls[h] # None /\ calls[h].at = "outputs" /\ calls[h].todo = {}
         /\ calls'[h] # None /\ calls'[h].kind = calls[h].kind /\ calls'[h].about = calls[h].about
         /\ calls'[h].at = "files" /\ calls'[h].owed = calls[h].owed /\ calls'[h].seen = None
         /\ calls'[h].todo = {r \in Review : files[r] # None}
<1> DEFINE todo == {r \in Review : files[r] # None}
           c == [calls[h] EXCEPT !.at = "files", !.seen = None, !.todo = todo]
<1>1. jobs \in Seq(Job) /\ DOMAIN jobs \subseteq Review /\ calls[h] \in Request /\ RequestFits(calls[h], jobs)
      /\ calls[h] # None /\ calls[h].at = "outputs" /\ calls[h].todo = {}
  BY ArchiveAssumption DEF ArchiveTypes, JobsFit, Review, RequestsFit, ListFiles
<1>2. todo \subseteq DOMAIN jobs
  BY DEF ArchiveTypes, FilesFit
<1>3. c.kind = calls[h].kind /\ c.about = calls[h].about /\ c.at = "files" /\ c.seen = None
      /\ c.todo = todo /\ c.owed = calls[h].owed /\ c \in Request
  <2> HIDE DEF todo
  <2> QED
    BY <1>1, <1>2 DEF Request
<1>4. calls[h].kind \in {"list", "analyze"} /\ (calls[h].kind = "analyze" => calls[h].about \in Copy)
  BY <1>1 DEF RequestFits, Request
<1>5. calls' = [calls EXCEPT ![h] = c]
  BY DEF ListFiles
<1> HIDE DEF c, todo
<1>6. RequestFits(c, jobs)
  BY <1>1, <1>2, <1>3, <1>4 DEF RequestFits
<1>7. OthersEased(h) /\ calls' \in [Handler -> Request \cup {None}] /\ calls'[h] = c
  BY <1>3, <1>5, SimpleStep
<1>8. RequestsFit(calls', jobs)
  BY <1>1, <1>6, <1>7, JobsStay, RequestServed
<1>9. c # None
  BY <1>3, NothingAssumption
<1>10. QED
  BY <1>1, <1>3, <1>7, <1>8, <1>9 DEF todo

LEMMA ReadFileStep ==
  ASSUME ArchiveTypes, NEW h \in Handler, ReadFile(h)
  PROVE  /\ RequestsFit(calls', jobs) /\ OthersEased(h)
         /\ calls[h] # None /\ calls[h].at = "files" /\ calls[h].todo # {} /\ calls[h].seen = None
         /\ Min(calls[h].todo) \in calls[h].todo
         /\ calls'[h] # None /\ calls'[h].kind = calls[h].kind /\ calls'[h].about = calls[h].about
         /\ calls'[h].at = "files" /\ calls'[h].owed = calls[h].owed /\ calls'[h].seen = files[Min(calls[h].todo)]
         /\ calls'[h].todo = IF files[Min(calls[h].todo)] = None THEN calls[h].todo \ {Min(calls[h].todo)} ELSE calls[h].todo
<1> DEFINE r == Min(calls[h].todo)
           todo == IF files[r] = None THEN calls[h].todo \ {r} ELSE calls[h].todo
           c == [calls[h] EXCEPT !.seen = files[r], !.todo = todo]
<1>1. jobs \in Seq(Job) /\ DOMAIN jobs \subseteq Review /\ calls[h] \in Request /\ RequestFits(calls[h], jobs)
      /\ calls[h] # None /\ calls[h].at = "files" /\ calls[h].todo # {} /\ calls[h].seen = None
  BY ArchiveAssumption DEF ArchiveTypes, JobsFit, Review, RequestsFit, ReadFile
<1>2. r \in calls[h].todo /\ r \in Review
  <2>1. calls[h].todo \subseteq Review
    BY <1>1 DEF Request
  <2>2. QED
    BY <1>1, <2>1, MinOfReviews
<1> HIDE DEF r
<1>3. files[r] \in Text \cup {None}
  BY <1>2 DEF ArchiveTypes, FilesFit
<1>4. todo \subseteq calls[h].todo /\ (files[r] # None => todo # {})
  BY <1>2
<1>5. calls' = [calls EXCEPT ![h] = c]
  BY <1>1 DEF ReadFile, r, Request
<1> HIDE DEF todo
<1>6. c.kind = calls[h].kind /\ c.about = calls[h].about /\ c.at = "files" /\ c.seen = files[r]
      /\ c.todo = todo /\ c.owed = calls[h].owed /\ c \in Request
  BY <1>1, <1>3, <1>4 DEF Request
<1>7. RequestFits(c, jobs)
  <2> HIDE DEF c
  <2>1. calls[h].kind \in {"list", "analyze"} /\ (calls[h].kind = "analyze" => calls[h].about \in Copy)
    BY <1>1 DEF RequestFits, Request
  <2>2. QED
    BY <1>1, <1>3, <1>4, <1>6, <2>1 DEF RequestFits
<1> HIDE DEF c
<1>8. OthersEased(h) /\ calls' \in [Handler -> Request \cup {None}] /\ calls'[h] = c
  BY <1>5, <1>6, SimpleStep
<1>9. RequestsFit(calls', jobs)
  BY <1>1, <1>7, <1>8, JobsStay, RequestServed
<1>10. c # None
  BY <1>6, NothingAssumption
<1>11. QED
  BY <1>1, <1>2, <1>6, <1>8, <1>9, <1>10 DEF todo, r

LEMMA BackfillFileStep ==
  ASSUME ArchiveTypes, NEW h \in Handler, BackfillFile(h)
  PROVE  /\ RequestsFit(calls', jobs) /\ OthersEased(h) /\ RowsFit(rows', jobs)
         /\ calls[h] # None /\ calls[h].at = "files" /\ calls[h].seen # None
         /\ Min(calls[h].todo) \in calls[h].todo
         /\ calls'[h] # None /\ calls'[h].kind = calls[h].kind /\ calls'[h].about = calls[h].about
         /\ calls'[h].at = "files" /\ calls'[h].owed = calls[h].owed /\ calls'[h].seen = None
         /\ calls'[h].todo = calls[h].todo \ {Min(calls[h].todo)}
         /\ \A r \in Review : IF r = Min(calls[h].todo)
                              THEN rows'[r] # None /\ rows'[r].status = "ready" /\ rows'[r].text = calls[h].seen
                              ELSE rows'[r] = rows[r]
         /\ \A g \in Handler \ {h} : calls[g] # None /\ calls[g].kind = "list" => calls'[g].owed = {}
<1> DEFINE r == Min(calls[h].todo)
           todo == calls[h].todo \ {r}
           c == [calls[h] EXCEPT !.seen = None, !.todo = todo]
           cs == Overtaken(h)
           row == Row(calls[h].seen, "ready", None, None)
<1>1. jobs \in Seq(Job) /\ DOMAIN jobs \subseteq Review /\ calls[h] \in Request /\ RequestFits(calls[h], jobs)
      /\ calls[h] # None /\ calls[h].at = "files" /\ calls[h].seen # None
  BY ArchiveAssumption DEF ArchiveTypes, JobsFit, Review, RequestsFit, BackfillFile
<1>2. r \in calls[h].todo /\ r \in Review /\ r \in DOMAIN jobs
  <2>1. calls[h].todo \subseteq Review /\ calls[h].todo # {} /\ calls[h].todo \subseteq DOMAIN jobs
    BY <1>1 DEF Request, RequestFits
  <2>2. QED
    BY <2>1, MinOfReviews
<1>3. row \in RowRecord /\ row # None /\ row.status = "ready" /\ row.text = calls[h].seen /\ row.job = None
  <2>1. calls[h].seen \in Text
    BY <1>1 DEF RequestFits
  <2>2. \A t \in Text : Row(t, "ready", None, None) \in RowRecord
    BY DEF Row, RowRecord
  <2>3. row \in RowRecord
    BY <2>1, <2>2
  <2>4. row.status = "ready" /\ row.text = calls[h].seen /\ row.job = None
    BY DEF Row
  <2>5. QED
    BY <2>3, <2>4, NothingAssumption
<1>4. rows' = [rows EXCEPT ![r] = row]
  BY DEF BackfillFile
<1>5. RowsFit(rows', jobs)
  <2> HIDE DEF row, r
  <2> QED
    BY <1>2, <1>3, <1>4 DEF RowsFit, ArchiveTypes, RowFits
<1>6. \A q \in Review : IF q = r THEN rows'[q] = row ELSE rows'[q] = rows[q]
  <2> HIDE DEF row, r
  <2> QED
    BY <1>2, <1>4 DEF RowsFit, ArchiveTypes
<1>7. /\ cs \in [Handler -> Request \cup {None}] /\ cs[h] = calls[h]
      /\ \A g \in Handler : IF calls[g] = None THEN cs[g] = None
                            ELSE /\ cs[g] # None /\ Eased(calls[g], cs[g])
                                 /\ calls[g].kind = "list" /\ g # h => cs[g].owed = {}
  BY OvertakenEases
<1>8. calls' = [cs EXCEPT ![h] = c]
  <2> HIDE DEF row
  <2>1. calls' = [Overtaken(h) EXCEPT ![h].seen = None, ![h].todo = @ \ {Min(@)}]
    BY DEF BackfillFile
  <2>2. \A d \in Request : [[d EXCEPT !.seen = None] EXCEPT !.todo = @ \ {Min(@)}] = [d EXCEPT !.seen = None, !.todo = d.todo \ {Min(d.todo)}]
    BY DEF Request
  <2>3. QED
    BY <1>1, <1>7, <2>1, <2>2
<1> HIDE DEF r, cs, row
<1>9. c.kind = calls[h].kind /\ c.about = calls[h].about /\ c.at = "files" /\ c.seen = None
      /\ c.todo = todo /\ c.owed = calls[h].owed /\ c \in Request
  BY <1>1 DEF Request
<1>10. RequestFits(c, jobs)
  <2> HIDE DEF c
  <2>1. calls[h].kind \in {"list", "analyze"} /\ (calls[h].kind = "analyze" => calls[h].about \in Copy)
    BY <1>1 DEF RequestFits, Request
  <2>2. QED
    BY <1>1, <1>9, <2>1 DEF RequestFits
<1> HIDE DEF c
<1>11. OthersEased(h) /\ calls' \in [Handler -> Request \cup {None}] /\ calls'[h] = c
      /\ \A g \in Handler \ {h} : calls[g] # None /\ calls[g].kind = "list" => calls'[g].owed = {}
  BY <1>7, <1>8, <1>9 DEF OthersEased
<1>12. RequestsFit(calls', jobs)
  BY <1>1, <1>10, <1>11, JobsStay, RequestServed
<1>13. c # None
  BY <1>9, NothingAssumption
<1>14. QED
  BY <1>1, <1>2, <1>3, <1>5, <1>6, <1>9, <1>11, <1>12, <1>13 DEF r

LEMMA Answered ==
  ASSUME ArchiveTypes, NEW h \in Handler, calls' = [calls EXCEPT ![h] = None]
  PROVE  RequestsFit(calls', jobs) /\ OthersEased(h) /\ calls'[h] = None
<1>1. OthersEased(h) /\ calls' \in [Handler -> Request \cup {None}] /\ calls'[h] = None
  BY SimpleStep
<1>2. QED
  BY <1>1, JobsStay, RequestServed DEF ArchiveTypes, JobsFit

\* A job that is added takes nothing from the others.
LEMMA JobAdded ==
  ASSUME ArchiveTypes, Len(jobs) < MaxJobs, NEW job \in Job, job.review \in 1..(Len(jobs) + 1),
         job.kind = "reuse" => job.state \in {"running", "completed", "failed"},
         jobs' = Append(jobs, job)
  PROVE  /\ JobsFit(jobs') /\ Grows(jobs, jobs')
         /\ Len(jobs') = Len(jobs) + 1 /\ jobs'[Len(jobs) + 1] = job /\ \A j \in DOMAIN jobs : jobs'[j] = jobs[j]
         /\ DOMAIN jobs' = DOMAIN jobs \cup {Len(jobs) + 1} /\ Len(jobs) + 1 \in Review
<1>1. jobs \in Seq(Job)
  BY DEF ArchiveTypes, JobsFit
<1>2. /\ jobs' \in Seq(Job) /\ Len(jobs') = Len(jobs) + 1
      /\ \A j \in DOMAIN jobs : jobs'[j] = jobs[j]
      /\ jobs'[Len(jobs) + 1] = job
  BY <1>1, AppendProperties
<1>3. DOMAIN jobs' = DOMAIN jobs \cup {Len(jobs) + 1} /\ Len(jobs) + 1 \in Review
  BY <1>1, <1>2, ArchiveAssumption DEF Review
<1>4. ASSUME NEW j \in DOMAIN jobs'
      PROVE  /\ jobs'[j].review \in DOMAIN jobs'
             /\ jobs'[j].kind = "reuse" => jobs'[j].state \in {"running", "completed", "failed"}
  <2>1. CASE j = Len(jobs) + 1
    BY <1>1, <1>2, <2>1
  <2>2. CASE j # Len(jobs) + 1
    <3>1. j \in DOMAIN jobs /\ jobs'[j] = jobs[j]
      BY <1>2, <1>3, <2>2
    <3>2. QED
      BY <1>3, <3>1 DEF ArchiveTypes, JobsFit
  <2>3. QED
    BY <2>1, <2>2
<1>5. Len(jobs') <= MaxJobs /\ Grows(jobs, jobs')
  BY <1>1, <1>2, ArchiveAssumption DEF Grows
<1>6. QED
  BY <1>2, <1>3, <1>4, <1>5 DEF JobsFit

LEMMA StartAnalyzeStep ==
  ASSUME ArchiveTypes, NEW h \in Handler, StartAnalyze(h)
  PROVE  /\ RequestsFit(calls', jobs') /\ OthersEased(h) /\ JobsFit(jobs') /\ Grows(jobs, jobs')
         /\ calls[h] # None /\ calls[h].at = "files" /\ calls[h].kind = "analyze" /\ calls[h].todo = {}
         /\ calls'[h] # None /\ calls'[h].kind = "analyze" /\ calls'[h].at = "answer"
         /\ calls'[h].owed = calls[h].owed /\ calls'[h].about = calls[h].about
         /\ Len(jobs') = Len(jobs) + 1 /\ \A j \in DOMAIN jobs : jobs'[j] = jobs[j]
         /\ DOMAIN jobs' = DOMAIN jobs \cup {Len(jobs) + 1}
         /\ jobs'[Len(jobs')].kind = IF Reusable(calls[h].about) = {} THEN "analyze" ELSE "reuse"
         /\ jobs'[Len(jobs')].kind = "analyze" => jobs'[Len(jobs')].review = Len(jobs')
         /\ jobs'[Len(jobs')].state = "running"
<1> DEFINE c == [calls[h] EXCEPT !.at = "answer", !.seen = Len(jobs) + 1]
           p == calls[h].about
<1>1. jobs \in Seq(Job) /\ DOMAIN jobs \subseteq Review /\ calls[h] \in Request /\ RequestFits(calls[h], jobs)
      /\ calls[h] # None /\ calls[h].at = "files" /\ calls[h].kind = "analyze" /\ calls[h].todo = {} /\ p \in Copy
      /\ Len(jobs) < MaxJobs /\ Len(jobs) \in Nat
  <2>1. calls[h] # None /\ calls[h].at = "files" /\ calls[h].kind = "analyze" /\ calls[h].todo = {} /\ Len(jobs) < MaxJobs
    BY DEF StartAnalyze, Backfilled
  <2>2. jobs \in Seq(Job) /\ Len(jobs) \in Nat /\ DOMAIN jobs \subseteq Review /\ calls[h] \in Request /\ RequestFits(calls[h], jobs)
    BY <2>1, ArchiveBasics
  <2>3. p \in Copy
    BY <2>1, <2>2 DEF RequestFits
  <2>4. QED
    BY <2>1, <2>2, <2>3
<1>2. PICK job \in Job :
        /\ jobs' = Append(jobs, job) /\ job.review \in 1..(Len(jobs) + 1) /\ job.state = "running"
        /\ job.kind = IF Reusable(p) = {} THEN "analyze" ELSE "reuse"
        /\ job.kind = "analyze" => job.review = Len(jobs) + 1
  <2>1. CASE Reusable(p) = {}
    <3> DEFINE job == NewJob("analyze", p, Len(jobs) + 1, {})
    <3>1. jobs' = Append(jobs, job)
      BY <2>1 DEF StartAnalyze
    <3>2. job \in Job /\ job.review = Len(jobs) + 1 /\ job.kind = "analyze" /\ job.state = "running"
      BY <1>1, ArchiveAssumption DEF Job, NewJob, Live, Text, Review
    <3>3. job.review \in 1..(Len(jobs) + 1)
      BY <1>1, <3>2
    <3> HIDE DEF job
    <3>4. QED
      BY <2>1, <3>1, <3>2, <3>3
  <2>2. CASE Reusable(p) # {}
    <3>1. PICK r \in Reusable(p) : jobs' = Append(jobs, NewJob("reuse", p, r, rows[r].text))
      BY <2>2 DEF StartAnalyze
    <3>2. r \in Review /\ rows[r] # None /\ r \in DOMAIN jobs /\ rows[r].text \in Text
      BY <3>1, ArchiveBasics DEF Reusable, ArchiveTypes, RowsFit, RowRecord
    <3> DEFINE job == NewJob("reuse", p, r, rows[r].text)
    <3>3. job \in Job /\ job.review = r /\ job.kind = "reuse" /\ job.state = "running"
      BY <1>1, <3>2 DEF Job, NewJob, Live
    <3>4. job.review \in 1..(Len(jobs) + 1)
      BY <1>1, <3>2, <3>3
    <3> HIDE DEF job
    <3>5. jobs' = Append(jobs, job)
      BY <3>1 DEF job
    <3>6. QED
      BY <2>2, <3>3, <3>4, <3>5
  <2>3. QED
    BY <2>1, <2>2
<1>3. /\ JobsFit(jobs') /\ Grows(jobs, jobs') /\ Len(jobs') = Len(jobs) + 1 /\ jobs'[Len(jobs) + 1] = job
      /\ DOMAIN jobs' = DOMAIN jobs \cup {Len(jobs) + 1} /\ \A j \in DOMAIN jobs : jobs'[j] = jobs[j]
      /\ Len(jobs) + 1 \in Review
  BY <1>1, <1>2, JobAdded
<1>4. jobs' \in Seq(Job)
  BY <1>3 DEF JobsFit
<1>5. calls' = [calls EXCEPT ![h] = c]
  BY <1>1 DEF StartAnalyze, Request
<1>6. c.kind = "analyze" /\ c.about = p /\ c.at = "answer" /\ c.owed = calls[h].owed /\ c.todo = {} /\ c \in Request
      /\ c.seen = Len(jobs) + 1
  BY <1>1, <1>3 DEF Request
<1>7. c # None
  BY <1>6, NothingAssumption
<1>8. RequestFits(c, jobs')
  <2> HIDE DEF c, p
  <2>1. calls[h].owed \subseteq DOMAIN jobs
    BY <1>1 DEF RequestFits
  <2>2. QED
    BY <1>1, <1>3, <1>6, <2>1 DEF RequestFits
<1> HIDE DEF c, p
<1>9. OthersEased(h) /\ calls' \in [Handler -> Request \cup {None}] /\ calls'[h] = c
  BY <1>5, <1>6, SimpleStep
<1>10. RequestsFit(calls', jobs')
  BY <1>3, <1>4, <1>8, <1>9, RequestServed
<1>11. QED
  BY <1>1, <1>2, <1>3, <1>6, <1>7, <1>9, <1>10 DEF p

LEMMA ReadForEditStep ==
  ASSUME ArchiveTypes, NEW h \in Handler, NEW r \in Review, ReadForEdit(h, r)
  PROVE  /\ RequestsFit(calls', jobs) /\ OthersEased(h)
         /\ calls'[h] # None /\ calls'[h].kind = "edit" /\ calls'[h].owed = {}
<1> DEFINE row == [rows[r] EXCEPT !.text = @ \cup {"edit"}, !.status = "edited"]
           c == [kind |-> "edit", about |-> r, at |-> "row", todo |-> {}, owed |-> {}, seen |-> row]
<1>1. rows[r] # None /\ rows[r] \in RowRecord /\ RowFits(rows[r], r, jobs)
  BY DEF ReadForEdit, ArchiveTypes, RowsFit, RowFits
<1>2. \A o \in RowRecord : LET e == [o EXCEPT !.text = @ \cup {"edit"}, !.status = "edited"] IN
        e \in RowRecord /\ e.job = o.job /\ "edit" \in e.text
  BY DEF RowRecord, Text
<1>3. row \in RowRecord /\ row.job = rows[r].job /\ "edit" \in row.text
  BY <1>1, <1>2
<1> HIDE DEF row
<1>4. RowFits(row, r, jobs)
  BY <1>1, <1>3 DEF RowFits
<1>5. c \in Request
  BY <1>3 DEF Request
<1>6. RequestFits(c, jobs)
  BY <1>3, <1>4, <1>5 DEF RequestFits
<1>7. calls' = [calls EXCEPT ![h] = c]
  BY DEF ReadForEdit, row
<1>8. c.kind = "edit" /\ c.owed = {} /\ c # None
  BY <1>5, NothingAssumption
<1> HIDE DEF c
<1>9. OthersEased(h) /\ calls' \in [Handler -> Request \cup {None}] /\ calls'[h] = c
  BY <1>5, <1>7, SimpleStep
<1>10. QED
  BY <1>6, <1>8, <1>9, ArchiveBasics, JobsStay, RequestServed

LEMMA SaveEditStep ==
  ASSUME ArchiveTypes, NEW h \in Handler, SaveEdit(h)
  PROVE  /\ RequestsFit(calls', jobs) /\ OthersEased(h) /\ RowsFit(rows', jobs)
         /\ calls[h] # None /\ calls[h].kind = "edit" /\ calls[h].about \in Review
         /\ calls'[h] # None /\ calls'[h].kind = "edit"
         /\ \A r \in Review : IF r = calls[h].about THEN rows'[r] # None /\ "edit" \in rows'[r].text
                              ELSE rows'[r] = rows[r]
         /\ \A g \in Handler \ {h} : calls[g] # None /\ calls[g].kind = "analyze" => calls[h].about \notin calls'[g].owed
<1> DEFINE c == [calls[h] EXCEPT !.at = "file"]
           p == calls[h].about
<1>1. calls[h] # None /\ calls[h].kind = "edit" /\ calls[h].at = "row" /\ calls[h] \in Request /\ RequestFits(calls[h], jobs)
  BY ArchiveBasics DEF SaveEdit
<1>2. RowFits(calls[h].seen, p, jobs) /\ "edit" \in calls[h].seen.text /\ calls[h].seen \in RowRecord
  BY <1>1 DEF RequestFits, RowFits
<1>3. p \in Review /\ calls[h].seen # None
  BY <1>2, ArchiveBasics, NothingAssumption DEF RowFits
<1>4. rows' = [rows EXCEPT ![p] = calls[h].seen]
  BY DEF SaveEdit
<1>5. /\ RowsFit(rows', jobs)
      /\ \A r \in Review : IF r = p THEN rows'[r] = calls[h].seen ELSE rows'[r] = rows[r]
  <2> HIDE DEF p
  <2> QED
    BY <1>2, <1>3, <1>4 DEF ArchiveTypes, RowsFit
<1>6. c.kind = "edit" /\ c.at = "file" /\ c.about = p /\ c.seen = calls[h].seen /\ c.todo = calls[h].todo
      /\ c.owed = calls[h].owed /\ c \in Request
  BY <1>1 DEF Request
<1>7. RequestFits(c, jobs)
  <2> HIDE DEF c, p
  <2> QED
    BY <1>1, <1>2, <1>6 DEF RequestFits
<1>8. c # None
  BY <1>6, NothingAssumption
<1>9. \A d \in Request : /\ [d EXCEPT !.owed = @ \ {p}] \in Request /\ Eased(d, [d EXCEPT !.owed = @ \ {p}]) /\ Eased(d, d)
                         /\ p \notin [d EXCEPT !.owed = @ \ {p}].owed
  <2> HIDE DEF p
  <2> QED
    BY DEF Request, Eased
<1>10. calls' = [g \in Handler |->
         IF g = h THEN c ELSE IF calls[g] # None /\ calls[g].kind = "analyze" THEN [calls[g] EXCEPT !.owed = @ \ {p}]
         ELSE calls[g]]
  BY DEF SaveEdit
<1> HIDE DEF c, p
<1>11. calls \in [Handler -> Request \cup {None}] /\ None \notin Request
  BY NothingAssumption DEF ArchiveTypes, RequestsFit
<1>12. /\ OthersEased(h) /\ calls' \in [Handler -> Request \cup {None}] /\ calls'[h] = c
       /\ \A g \in Handler \ {h} : calls[g] # None /\ calls[g].kind = "analyze" => p \notin calls'[g].owed
  BY <1>6, <1>9, <1>10, <1>11 DEF OthersEased
<1>13. QED
  BY <1>1, <1>2, <1>3, <1>5, <1>6, <1>7, <1>8, <1>12, ArchiveBasics, JobsStay, RequestServed DEF p

LEMMA SyncEditStep ==
  ASSUME ArchiveTypes, NEW h \in Handler, SyncEdit(h)
  PROVE  /\ RequestsFit(calls', jobs) /\ OthersEased(h) /\ FilesFit(files', jobs) /\ edited' \subseteq DOMAIN jobs
         /\ calls[h] # None /\ calls[h].kind = "edit" /\ calls'[h] = None
         /\ calls[h].about \in Review
         /\ \A r \in Review : IF r = calls[h].about THEN files'[r] # None /\ "edit" \in files'[r]
                              ELSE files'[r] = files[r]
<1> DEFINE p == calls[h].about
<1>1. calls[h] # None /\ calls[h].kind = "edit" /\ calls[h] \in Request /\ RequestFits(calls[h], jobs)
  BY ArchiveBasics DEF SyncEdit
<1>2. RowFits(calls[h].seen, p, jobs) /\ "edit" \in calls[h].seen.text /\ calls[h].seen \in RowRecord
  BY <1>1 DEF RequestFits, RowFits
<1>3. p \in Review /\ p \in DOMAIN jobs
  BY <1>2, ArchiveBasics DEF RowFits
<1>4. calls[h].seen.text \in Text
  BY <1>2 DEF RowRecord
<1>5. files' = [files EXCEPT ![p] = calls[h].seen.text]
  BY DEF SyncEdit, ToFile
<1>6. /\ FilesFit(files', jobs)
      /\ \A r \in Review : IF r = p THEN files'[r] = calls[h].seen.text ELSE files'[r] = files[r]
  <2> HIDE DEF p
  <2> QED
    BY <1>3, <1>4, <1>5 DEF ArchiveTypes, FilesFit
<1>7. edited' \subseteq DOMAIN jobs
  BY <1>3 DEF SyncEdit, ArchiveTypes
<1>8. calls' = [calls EXCEPT ![h] = None]
  BY DEF SyncEdit
<1>9. calls[h].seen.text # None
  BY <1>4, NothingAssumption
<1>10. QED
  BY <1>1, <1>2, <1>3, <1>6, <1>7, <1>8, <1>9, Answered

LEMMA ReadForDeleteStep ==
  ASSUME ArchiveTypes, NEW h \in Handler, NEW r \in Review, ReadForDelete(h, r)
  PROVE  /\ RequestsFit(calls', jobs) /\ OthersEased(h) /\ FilesFit(files', jobs)
         /\ calls[h] = None /\ calls'[h] # None /\ calls'[h].kind = "delete"
         /\ \A g \in Handler \ {h} : calls[g] # None => r \notin calls'[g].owed
         /\ \A q \in Review \ {r} : files'[q] = files[q]
<1> DEFINE c == [kind |-> "delete", about |-> r, at |-> "row", seen |-> rows[r], todo |-> {}, owed |-> {}]
           cs == Disown(r)
<1>1. rows[r] # None /\ rows[r] \in RowRecord /\ RowFits(rows[r], r, jobs) /\ calls[h] = None
  BY DEF ReadForDelete, ArchiveTypes, RowsFit, RowFits
<1>2. c \in Request
  BY <1>1 DEF Request
<1>3. RequestFits(c, jobs)
  BY <1>1, <1>2 DEF RequestFits
<1>4. c # None
  BY <1>2, NothingAssumption
<1>5. c.kind = "delete"
  OBVIOUS
<1>6. calls' = [cs EXCEPT ![h] = c]
  BY DEF ReadForDelete
<1>7. /\ cs \in [Handler -> Request \cup {None}]
      /\ \A g \in Handler : IF calls[g] = None THEN cs[g] = None
                            ELSE /\ cs[g] # None /\ Eased(calls[g], cs[g])
                                 /\ cs[g].owed = calls[g].owed \ {r}
  BY DisownEases
<1> HIDE DEF c, cs
<1>8. OthersEased(h) /\ calls' \in [Handler -> Request \cup {None}] /\ calls'[h] = c
      /\ \A g \in Handler \ {h} : calls[g] # None => r \notin calls'[g].owed
  BY <1>2, <1>6, <1>7 DEF OthersEased
<1>9. files' = [files EXCEPT ![r] = None]
  BY DEF ReadForDelete, WithoutFiles
<1>10. FilesFit(files', jobs) /\ \A q \in Review \ {r} : files'[q] = files[q]
  BY <1>9 DEF ArchiveTypes, FilesFit
<1>11. QED
  BY <1>1, <1>3, <1>4, <1>5, <1>8, <1>10, ArchiveBasics, JobsStay, RequestServed

LEMMA DeleteRowStep ==
  ASSUME ArchiveTypes, NEW h \in Handler, DeleteRow(h)
  PROVE  /\ RequestsFit(calls', jobs) /\ OthersEased(h) /\ RowsFit(rows', jobs)
         /\ calls[h] # None /\ calls[h].kind = "delete" /\ calls'[h] # None /\ calls'[h].kind = "delete"
         /\ \A g \in Handler \ {h} : calls[g] # None => calls[h].about \notin calls'[g].owed
         /\ \A q \in Review \ {calls[h].about} : rows'[q] = rows[q]
<1> DEFINE p == calls[h].about
           cs == Disown(p)
           c == [cs[h] EXCEPT !.at = "job"]
<1>1. calls[h] # None /\ calls[h].kind = "delete" /\ calls[h].at = "row" /\ calls[h] \in Request /\ RequestFits(calls[h], jobs)
  BY ArchiveBasics DEF DeleteRow
<1>2. RowFits(calls[h].seen, p, jobs) /\ p \in Review
  BY <1>1, ArchiveBasics DEF RequestFits, RowFits
<1>3. /\ cs \in [Handler -> Request \cup {None}]
      /\ \A g \in Handler : IF calls[g] = None THEN cs[g] = None
                            ELSE /\ cs[g] # None /\ Eased(calls[g], cs[g])
                                 /\ cs[g].owed = calls[g].owed \ {p}
  BY DisownEases
<1>4. calls' = [cs EXCEPT ![h] = c]
  <2>1. calls' = [cs EXCEPT ![h].at = "job"]
    BY DEF DeleteRow
  <2> HIDE DEF cs
  <2>2. QED
    BY <2>1
<1>5. rows' = [rows EXCEPT ![p] = None]
  BY DEF DeleteRow
<1>6. RowsFit(rows', jobs) /\ \A q \in Review \ {p} : rows'[q] = rows[q]
  <2> HIDE DEF p
  <2> QED
    BY <1>5 DEF ArchiveTypes, RowsFit
<1> HIDE DEF cs
<1>7. cs[h] \in Request /\ Eased(calls[h], cs[h])
  BY <1>1, <1>3
<1>8. c.kind = "delete" /\ c.about = p /\ c.at = "job" /\ c.seen = calls[h].seen
      /\ c.todo = calls[h].todo /\ c.owed \subseteq calls[h].owed /\ c \in Request
  BY <1>1, <1>7 DEF Request, Eased
<1> HIDE DEF c, p
<1>9. RequestFits(c, jobs)
  BY <1>1, <1>2, <1>8 DEF RequestFits
<1>10. c # None
  BY <1>8, NothingAssumption
<1>11. OthersEased(h) /\ calls' \in [Handler -> Request \cup {None}] /\ calls'[h] = c
       /\ \A g \in Handler \ {h} : calls[g] # None => p \notin calls'[g].owed
  BY <1>3, <1>4, <1>8 DEF OthersEased
<1>12. QED
  BY <1>1, <1>6, <1>8, <1>9, <1>10, <1>11, ArchiveBasics, JobsStay, RequestServed DEF p

LEMMA DeleteItsJobStep ==
  ASSUME ArchiveTypes, NEW h \in Handler, DeleteItsJob(h)
  PROVE  /\ RequestsFit(calls', jobs') /\ OthersEased(h) /\ JobsFit(jobs') /\ Grows(jobs, jobs') /\ DOMAIN jobs' = DOMAIN jobs
         /\ calls[h] # None /\ calls[h].kind = "delete" /\ calls'[h] = None
         /\ \A g \in Handler \ {h} : calls[g] # None => calls[h].about \notin calls'[g].owed
         /\ \A j \in DOMAIN jobs : /\ jobs'[j].state = jobs[j].state
                                   /\ jobs[j].review # calls[h].about => jobs'[j] = jobs[j]
<1> DEFINE p == calls[h].about
           cs == Disown(p)
           n == calls[h].seen.job
<1>1. calls[h] # None /\ calls[h].kind = "delete" /\ calls[h] \in Request /\ RequestFits(calls[h], jobs)
  BY ArchiveBasics DEF DeleteItsJob
<1>2. n # None => n \in DOMAIN jobs /\ jobs[n].review = p
  BY <1>1, ArchiveBasics DEF RequestFits, RowFits
<1>3. /\ cs \in [Handler -> Request \cup {None}]
      /\ \A g \in Handler : IF calls[g] = None THEN cs[g] = None
                            ELSE /\ cs[g] # None /\ Eased(calls[g], cs[g])
                                 /\ cs[g].owed = calls[g].owed \ {p}
  BY DisownEases
<1>4. calls' = [cs EXCEPT ![h] = None]
  BY DEF DeleteItsJob
<1>5. jobs' = IF n = None THEN jobs ELSE [jobs EXCEPT ![n].listed = FALSE]
  BY DEF DeleteItsJob
<1> HIDE DEF n, cs, p
<1>6. \A o \in Job : LET e == [o EXCEPT !.listed = FALSE] IN
        e \in Job /\ e.review = o.review /\ e.copy = o.copy /\ e.kind = o.kind /\ e.state = o.state
  BY DEF Job
<1>7. /\ jobs' \in Seq(Job) /\ Len(jobs') = Len(jobs)
      /\ \A j \in DOMAIN jobs : jobs'[j] = IF n # None /\ j = n THEN [jobs[j] EXCEPT !.listed = FALSE] ELSE jobs[j]
  <2>1. CASE n = None
    BY <1>5, <2>1, ArchiveBasics
  <2>2. CASE n # None
    <3> DEFINE e == [jobs[n] EXCEPT !.listed = FALSE]
    <3>1. n \in 1..Len(jobs) /\ e \in Job
      BY <1>2, <1>6, <2>2, ArchiveBasics
    <3>2. jobs' = [jobs EXCEPT ![n] = e]
      BY <1>5, <2>2
    <3> HIDE DEF e
    <3>3. /\ jobs' \in Seq(Job) /\ Len(jobs') = Len(jobs)
          /\ \A j \in DOMAIN jobs : jobs'[j] = IF j = n THEN e ELSE jobs[j]
      BY <3>1, <3>2, ArchiveBasics, ExceptSeq
    <3>4. QED
      BY <2>2, <3>3 DEF e
  <2>3. QED
    BY <2>1, <2>2
<1>8. ASSUME NEW j \in DOMAIN jobs
      PROVE  /\ jobs'[j].review = jobs[j].review /\ jobs'[j].copy = jobs[j].copy /\ jobs'[j].kind = jobs[j].kind
             /\ jobs'[j].state = jobs[j].state /\ (jobs[j].review # p => jobs'[j] = jobs[j])
  <2>1. jobs[j] \in Job
    BY ArchiveBasics
  <2>2. CASE n # None /\ j = n
    <3>1. jobs'[j] = [jobs[j] EXCEPT !.listed = FALSE] /\ jobs[j].review = p
      BY <1>2, <1>7, <2>2
    <3>2. QED
      BY <1>6, <2>1, <3>1
  <2>3. CASE ~(n # None /\ j = n)
    BY <1>7, <2>3
  <2>4. QED
    BY <2>2, <2>3
<1>9. DOMAIN jobs' = DOMAIN jobs /\ Grows(jobs, jobs')
  BY <1>7, <1>8, ArchiveBasics DEF Grows
<1>10. JobsFit(jobs')
  BY <1>7, <1>8, <1>9, ArchiveBasics DEF JobsFit, ArchiveTypes
<1>11. OthersEased(h) /\ calls' \in [Handler -> Request \cup {None}] /\ calls'[h] = None
       /\ \A g \in Handler \ {h} : calls[g] # None => p \notin calls'[g].owed
  BY <1>3, <1>4 DEF OthersEased
<1>12. RequestsFit(calls', jobs')
  BY <1>7, <1>9, <1>11, RequestServed
<1>13. QED
  BY <1>1, <1>8, <1>9, <1>10, <1>11, <1>12 DEF p

\* One job changes its state, its text or whether it is listed.
LEMMA JobChanged ==
  ASSUME ArchiveTypes, NEW j \in DOMAIN jobs, NEW e \in Job, jobs' = [jobs EXCEPT ![j] = e],
         e.review = jobs[j].review, e.copy = jobs[j].copy, e.kind = jobs[j].kind,
         e.kind = "reuse" => e.state \in {"running", "completed", "failed"}
  PROVE  /\ JobsFit(jobs') /\ Grows(jobs, jobs') /\ DOMAIN jobs' = DOMAIN jobs
         /\ jobs'[j] = e /\ \A i \in DOMAIN jobs \ {j} : jobs'[i] = jobs[i]
<1>1. /\ jobs' \in Seq(Job) /\ Len(jobs') = Len(jobs)
      /\ \A i \in DOMAIN jobs : jobs'[i] = IF i = j THEN e ELSE jobs[i]
  BY ArchiveBasics, ExceptSeq
<1>2. DOMAIN jobs' = DOMAIN jobs /\ jobs'[j] = e /\ \A i \in DOMAIN jobs \ {j} : jobs'[i] = jobs[i]
  BY <1>1, ArchiveBasics
<1>3. Grows(jobs, jobs')
  BY <1>1, ArchiveBasics DEF Grows
<1>4. JobsFit(jobs')
  BY <1>1, <1>2 DEF JobsFit, ArchiveTypes
<1>5. QED
  BY <1>2, <1>3, <1>4

\* A job whose kind and place are what they were goes to another state.
LEMMA JobGoesOn ==
  ASSUME ArchiveTypes, NEW j \in DOMAIN jobs, NEW state \in Live \cup {"completed", "failed"}, NEW text \in Text,
         NEW source \in Copy \cup {None}, jobs[j].kind = "reuse" => state \in {"running", "completed", "failed"},
         jobs' = [jobs EXCEPT ![j].text = text, ![j].source = source, ![j].state = state]
  PROVE  /\ JobsFit(jobs') /\ Grows(jobs, jobs') /\ DOMAIN jobs' = DOMAIN jobs
         /\ jobs'[j].state = state /\ jobs'[j].review = jobs[j].review /\ jobs'[j].kind = jobs[j].kind
         /\ jobs'[j].listed = jobs[j].listed
         /\ \A i \in DOMAIN jobs \ {j} : jobs'[i] = jobs[i]
<1> DEFINE e == [jobs[j] EXCEPT !.text = text, !.source = source, !.state = state]
<1>1. jobs[j] \in Job
  BY ArchiveBasics
<1>2. e \in Job /\ e.review = jobs[j].review /\ e.copy = jobs[j].copy /\ e.kind = jobs[j].kind
      /\ e.state = state /\ e.listed = jobs[j].listed
  BY <1>1 DEF Job
<1>3. jobs' = [jobs EXCEPT ![j] = e]
  BY ArchiveBasics
<1> HIDE DEF e
<1>4. QED
  BY <1>2, <1>3, JobChanged

LEMMA StateChanged ==
  ASSUME ArchiveTypes, NEW j \in DOMAIN jobs, NEW state \in Live \cup {"completed", "failed"},
         jobs[j].kind = "reuse" => state \in {"running", "completed", "failed"},
         jobs' = [jobs EXCEPT ![j].state = state]
  PROVE  /\ JobsFit(jobs') /\ Grows(jobs, jobs') /\ DOMAIN jobs' = DOMAIN jobs
         /\ jobs'[j].state = state /\ jobs'[j].review = jobs[j].review /\ jobs'[j].kind = jobs[j].kind
         /\ jobs'[j].listed = jobs[j].listed
         /\ \A i \in DOMAIN jobs \ {j} : jobs'[i] = jobs[i]
<1> DEFINE e == [jobs[j] EXCEPT !.state = state]
<1>1. jobs[j] \in Job
  BY ArchiveBasics
<1>2. e \in Job /\ e.review = jobs[j].review /\ e.copy = jobs[j].copy /\ e.kind = jobs[j].kind
      /\ e.state = state /\ e.listed = jobs[j].listed
  BY <1>1 DEF Job
<1>3. jobs' = [jobs EXCEPT ![j] = e]
  BY ArchiveBasics
<1> HIDE DEF e
<1>4. QED
  BY <1>2, <1>3, JobChanged

LEMMA RequestsStay ==
  ASSUME ArchiveTypes, JobsFit(jobs'), Grows(jobs, jobs'), calls' = calls
  PROVE  RequestsFit(calls', jobs')
<1>1. \A c \in Request : Eased(c, c)
  BY DEF Eased
<1>2. jobs \in Seq(Job) /\ jobs' \in Seq(Job)
  BY DEF ArchiveTypes, JobsFit
<1>3. calls \in [Handler -> Request \cup {None}] /\ \A h \in Handler : calls[h] # None => RequestFits(calls[h], jobs)
  BY DEF ArchiveTypes, RequestsFit
<1>4. \A h \in Handler : calls[h] # None => RequestFits(calls[h], jobs')
  BY <1>1, <1>2, <1>3, RequestKept
<1>5. QED
  BY <1>3, <1>4 DEF RequestsFit

LEMMA RerunStep ==
  ASSUME ArchiveTypes, NEW r \in Review, Rerun(r)
  PROVE  /\ JobsFit(jobs') /\ Grows(jobs, jobs') /\ RequestsFit(calls', jobs')
         /\ DOMAIN jobs' = DOMAIN jobs \cup {Len(jobs) + 1} /\ \A j \in DOMAIN jobs : jobs'[j] = jobs[j]
         /\ jobs'[Len(jobs) + 1].review = r
         /\ \A g \in Handler : IF calls[g] = None THEN calls'[g] = None
                               ELSE calls'[g] # None /\ Eased(calls[g], calls'[g]) /\ r \notin calls'[g].owed
<1> DEFINE job == [NewJob("rerun", CopyOf(r), r, {}) EXCEPT !.state = "queued", !.source = None]
<1>1. rows[r] # None /\ r \in DOMAIN jobs /\ Len(jobs) < MaxJobs
  BY DEF Rerun, ArchiveTypes, RowsFit, RowFits
<1>2. jobs[r].copy \in Copy
  BY <1>1, ArchiveBasics DEF Job
<1>3. job \in Job /\ job.review = r /\ job.kind = "rerun" /\ job.state = "queued"
  BY <1>2 DEF NewJob, CopyOf, Job, Live, Text
<1>4. job.review \in 1..(Len(jobs) + 1)
  BY <1>1, <1>3, ArchiveBasics
<1>5. jobs' = Append(jobs, job)
  BY DEF Rerun
<1> HIDE DEF job
<1>6. /\ JobsFit(jobs') /\ Grows(jobs, jobs') /\ jobs'[Len(jobs) + 1] = job
      /\ DOMAIN jobs' = DOMAIN jobs \cup {Len(jobs) + 1} /\ \A j \in DOMAIN jobs : jobs'[j] = jobs[j]
  BY <1>1, <1>3, <1>4, <1>5, JobAdded
<1>7. calls' = Disown(r)
  BY DEF Rerun
<1>8. /\ calls' \in [Handler -> Request \cup {None}]
      /\ \A g \in Handler : IF calls[g] = None THEN calls'[g] = None
                            ELSE calls'[g] # None /\ Eased(calls[g], calls'[g]) /\ calls'[g].owed = calls[g].owed \ {r}
  BY <1>7, DisownEases
<1>9. \A g \in Handler : calls'[g] # None => RequestFits(calls'[g], jobs')
  <2>1. jobs \in Seq(Job) /\ jobs' \in Seq(Job)
    BY <1>6 DEF ArchiveTypes, JobsFit
  <2>2. QED
    BY <1>6, <1>8, <2>1, RequestKept, ArchiveBasics
<1>10. QED
  BY <1>3, <1>6, <1>8, <1>9 DEF RequestsFit

LEMMA RerunReadsStep ==
  ASSUME ArchiveTypes, NEW j \in DOMAIN jobs, RerunReads(j)
  PROVE  /\ JobsFit(jobs') /\ Grows(jobs, jobs') /\ DOMAIN jobs' = DOMAIN jobs
         /\ jobs[j].state = "queued" /\ jobs'[j].review = jobs[j].review /\ jobs'[j].kind = jobs[j].kind
         /\ \A i \in DOMAIN jobs \ {j} : jobs'[i] = jobs[i]
<1>1. jobs[j].state = "queued" /\ jobs[j].review \in Review /\ jobs[j].kind # "reuse"
  BY ArchiveBasics DEF RerunReads, ArchiveTypes, JobsFit
<1>2. \/ rows[jobs[j].review] = None
      \/ rows[jobs[j].review].text \in Text /\ rows[jobs[j].review].source \in Copy \cup {None}
  BY <1>1 DEF ArchiveTypes, RowsFit, RowRecord
<1>3. PICK text \in Text, source \in Copy \cup {None}, state \in {"failed", "running"} :
        jobs' = [jobs EXCEPT ![j].text = text, ![j].source = source, ![j].state = state]
  <2>1. CASE rows[jobs[j].review] = None
    <3>1. {"again"} \in Text
      BY DEF Text
    <3>2. jobs' = [jobs EXCEPT ![j].text = {"again"}, ![j].source = None, ![j].state = "failed"]
      BY <2>1 DEF RerunReads
    <3>3. QED
      BY <3>1, <3>2
  <2>2. CASE rows[jobs[j].review] # None
    <3> DEFINE row == rows[jobs[j].review]
    <3>1. {"again"} \in Text /\ row.text \cup {"again"} \in Text /\ row.source \in Copy \cup {None}
      BY <1>2, <2>2 DEF Text
    <3>2. PICK text \in {{"again"}, row.text \cup {"again"}} :
            jobs' = [jobs EXCEPT ![j].text = text, ![j].source = row.source, ![j].state = "running"]
      BY <2>2 DEF RerunReads
    <3> HIDE DEF row
    <3>3. QED
      BY <3>1, <3>2
  <2>3. QED
    BY <2>1, <2>2
<1>4. state \in Live \cup {"completed", "failed"}
  BY DEF Live
<1>5. QED
  BY <1>1, <1>3, <1>4, JobGoesOn

LEMMA SaveRowStep ==
  ASSUME ArchiveTypes, NEW j \in DOMAIN jobs, SaveRow(j)
  PROVE  /\ JobsFit(jobs') /\ Grows(jobs, jobs') /\ DOMAIN jobs' = DOMAIN jobs
         /\ jobs[j].state = "running" /\ jobs[j].kind # "reuse"
         /\ jobs'[j].review = jobs[j].review /\ jobs'[j].kind = jobs[j].kind
         /\ \A i \in DOMAIN jobs \ {j} : jobs'[i] = jobs[i]
         /\ RowsFit(rows', jobs')
         /\ \A r \in Review : rows'[r] = rows[r] \/ (r = jobs[j].review /\ rows'[r] # None /\ rows'[r].status = "ready")
<1> DEFINE p == jobs[j].review
           row == Row(jobs[j].text, "ready", jobs[j].source, j)
<1>1. jobs[j].state = "running" /\ jobs[j].kind # "reuse" /\ p \in Review /\ p \in DOMAIN jobs /\ j \in Review /\ jobs[j].text \in Text
      /\ jobs[j].source \in Copy \cup {None}
  BY ArchiveBasics DEF SaveRow, Job
<1>2. PICK state \in {"rowed", "failed", "filed"} : jobs' = [jobs EXCEPT ![j].state = state]
  BY DEF SaveRow
<1>3. state \in Live \cup {"completed", "failed"}
  BY DEF Live
<1>4. /\ JobsFit(jobs') /\ Grows(jobs, jobs') /\ DOMAIN jobs' = DOMAIN jobs
      /\ jobs'[j].state = state /\ jobs'[j].review = jobs[j].review /\ jobs'[j].kind = jobs[j].kind
      /\ \A i \in DOMAIN jobs \ {j} : jobs'[i] = jobs[i]
  BY <1>1, <1>2, <1>3, StateChanged
<1>5. RowsFit(rows, jobs')
  BY <1>4, RowsKept DEF ArchiveTypes, JobsFit
<1>6. row \in RowRecord /\ row.status = "ready" /\ row.job = j
  <2>1. \A t \in Text, c \in Copy \cup {None} : Row(t, "ready", c, j) \in RowRecord
    BY <1>1 DEF Row, RowRecord
  <2>2. QED
    BY <1>1, <2>1 DEF Row
<1>7. rows' = rows \/ rows' = [rows EXCEPT ![p] = row]
  BY DEF SaveRow
<1>8. row # None /\ RowFits(row, p, jobs')
  BY <1>1, <1>4, <1>6, NothingAssumption DEF RowFits
<1> HIDE DEF row, p
<1>9. CASE rows' = rows
  BY <1>1, <1>4, <1>5, <1>9 DEF p
<1>10. CASE rows' = [rows EXCEPT ![p] = row]
  <2>1. RowsFit(rows', jobs')
    BY <1>1, <1>5, <1>6, <1>8, <1>10 DEF RowsFit
  <2>2. \A r \in Review : rows'[r] = rows[r] \/ (r = p /\ rows'[r] # None /\ rows'[r].status = "ready")
    BY <1>1, <1>5, <1>6, <1>8, <1>10 DEF RowsFit
  <2>3. QED
    BY <1>1, <1>4, <2>1, <2>2 DEF p
<1>11. QED
  BY <1>7, <1>9, <1>10

LEMMA SaveFileStep ==
  ASSUME ArchiveTypes, NEW j \in DOMAIN jobs, SaveFile(j)
  PROVE  /\ JobsFit(jobs') /\ Grows(jobs, jobs') /\ DOMAIN jobs' = DOMAIN jobs
         /\ jobs[j].state = "rowed" /\ jobs[j].kind # "reuse" /\ jobs'[j].review = jobs[j].review /\ jobs'[j].kind = jobs[j].kind
         /\ \A i \in DOMAIN jobs \ {j} : jobs'[i] = jobs[i]
         /\ FilesFit(files', jobs')
         /\ \A r \in Review : IF r = jobs[j].review THEN files'[r] # None ELSE files'[r] = files[r]
<1> DEFINE p == jobs[j].review
<1>1. jobs[j].state = "rowed" /\ p \in Review /\ p \in DOMAIN jobs /\ jobs[j].text \in Text
  BY ArchiveBasics DEF SaveFile, Job
<1>2. jobs[j].kind # "reuse"
  BY <1>1 DEF ArchiveTypes, JobsFit
<1>3. jobs' = [jobs EXCEPT ![j].state = "filed"]
  BY DEF SaveFile
<1>4. /\ JobsFit(jobs') /\ Grows(jobs, jobs') /\ DOMAIN jobs' = DOMAIN jobs
      /\ jobs'[j].review = jobs[j].review /\ jobs'[j].kind = jobs[j].kind
      /\ \A i \in DOMAIN jobs \ {j} : jobs'[i] = jobs[i]
  BY <1>2, <1>3, StateChanged DEF Live
<1>5. FilesFit(files, jobs')
  BY <1>4, FilesKept DEF ArchiveTypes, JobsFit
<1>6. files' = [files EXCEPT ![p] = jobs[j].text] /\ jobs[j].text # None
  BY <1>1, NothingAssumption DEF SaveFile
<1> HIDE DEF p
<1>7. FilesFit(files', jobs')
  BY <1>1, <1>4, <1>5, <1>6 DEF FilesFit
<1>8. \A r \in Review : IF r = p THEN files'[r] # None ELSE files'[r] = files[r]
  BY <1>1, <1>5, <1>6 DEF FilesFit
<1>9. QED
  BY <1>1, <1>2, <1>4, <1>7, <1>8 DEF p

LEMMA CompleteStep ==
  ASSUME ArchiveTypes, NEW j \in DOMAIN jobs, Complete(j)
  PROVE  /\ JobsFit(jobs') /\ Grows(jobs, jobs') /\ DOMAIN jobs' = DOMAIN jobs
         /\ jobs'[j].review = jobs[j].review /\ jobs'[j].kind = jobs[j].kind
         /\ jobs'[j].state = "completed" /\ jobs'[j].listed = jobs[j].listed
         /\ \A i \in DOMAIN jobs \ {j} : jobs'[i] = jobs[i]
BY StateChanged DEF Complete

\* Of all jobs some change their state or are taken off the list.
LEMMA JobsChanged ==
  ASSUME ArchiveTypes, jobs' \in [DOMAIN jobs -> Job],
         \A j \in DOMAIN jobs : /\ jobs'[j].review = jobs[j].review /\ jobs'[j].copy = jobs[j].copy /\ jobs'[j].kind = jobs[j].kind
                                /\ jobs'[j].state = jobs[j].state \/ jobs'[j].state = "failed"
  PROVE  JobsFit(jobs') /\ Grows(jobs, jobs') /\ DOMAIN jobs' = DOMAIN jobs
<1>1. jobs' \in Seq(Job) /\ Len(jobs') = Len(jobs)
  BY ArchiveBasics
<1>2. DOMAIN jobs' = DOMAIN jobs
  OBVIOUS
<1>3. Grows(jobs, jobs')
  BY <1>1, ArchiveBasics DEF Grows
<1>4. QED
  BY <1>1, <1>2, <1>3 DEF JobsFit, ArchiveTypes

LEMMA ClearJobsStep ==
  ASSUME ArchiveTypes, ClearJobs
  PROVE  /\ JobsFit(jobs') /\ Grows(jobs, jobs') /\ DOMAIN jobs' = DOMAIN jobs /\ RequestsFit(calls', jobs')
         /\ \A j \in DOMAIN jobs : jobs'[j].state = jobs[j].state
         /\ \A g \in Handler : IF calls[g] = None THEN calls'[g] = None
                               ELSE /\ calls'[g] # None /\ Eased(calls[g], calls'[g])
                                    /\ \A r \in calls'[g].owed : OnDisk(r)
<1>1. \A o \in Job : LET e == [o EXCEPT !.listed = FALSE] IN
        e \in Job /\ e.review = o.review /\ e.copy = o.copy /\ e.kind = o.kind /\ e.state = o.state
  BY DEF Job
<1>2. jobs' = [j \in DOMAIN jobs |->
                 IF jobs[j].state \in {"completed", "failed"} THEN [jobs[j] EXCEPT !.listed = FALSE] ELSE jobs[j]]
  BY DEF ClearJobs
<1>3. ASSUME NEW j \in DOMAIN jobs
      PROVE  /\ jobs'[j].review = jobs[j].review /\ jobs'[j].copy = jobs[j].copy /\ jobs'[j].kind = jobs[j].kind
             /\ jobs'[j].state = jobs[j].state /\ jobs'[j] \in Job
  BY <1>1, <1>2, ArchiveBasics
<1>4. jobs' \in [DOMAIN jobs -> Job]
  BY <1>2, <1>3
<1>5. JobsFit(jobs') /\ Grows(jobs, jobs') /\ DOMAIN jobs' = DOMAIN jobs
  BY <1>3, <1>4, JobsChanged
<1>6. \A c \in Request : LET d == [c EXCEPT !.owed = {r \in @ : OnDisk(r)}] IN
        d \in Request /\ Eased(c, d) /\ \A r \in d.owed : OnDisk(r)
  BY DEF Request, Eased
<1>7. calls \in [Handler -> Request \cup {None}] /\ None \notin Request
  BY NothingAssumption DEF ArchiveTypes, RequestsFit
<1>8. calls' = [h \in Handler |-> IF calls[h] = None THEN None ELSE [calls[h] EXCEPT !.owed = {r \in @ : OnDisk(r)}]]
  BY DEF ClearJobs
<1>9. /\ calls' \in [Handler -> Request \cup {None}]
      /\ \A g \in Handler : IF calls[g] = None THEN calls'[g] = None
                            ELSE calls'[g] # None /\ Eased(calls[g], calls'[g]) /\ \A r \in calls'[g].owed : OnDisk(r)
  BY <1>6, <1>7, <1>8
<1>10. \A g \in Handler : calls'[g] # None => RequestFits(calls'[g], jobs')
  <2>1. jobs \in Seq(Job) /\ jobs' \in Seq(Job)
    BY <1>5 DEF ArchiveTypes, JobsFit
  <2>2. QED
    BY <1>5, <1>9, <2>1, RequestKept, ArchiveBasics
<1>11. QED
  BY <1>3, <1>5, <1>9, <1>10 DEF RequestsFit

LEMMA RestartStep ==
  ASSUME ArchiveTypes, Restart
  PROVE  /\ JobsFit(jobs') /\ Grows(jobs, jobs') /\ DOMAIN jobs' = DOMAIN jobs /\ RequestsFit(calls', jobs')
         /\ \A j \in DOMAIN jobs : jobs'[j].state = jobs[j].state \/ jobs'[j].state = "failed"
         /\ \A h \in Handler : calls'[h] = None
<1>1. \A o \in Job : LET e == [o EXCEPT !.state = "failed"] IN
        e \in Job /\ e.review = o.review /\ e.copy = o.copy /\ e.kind = o.kind /\ e.state = "failed"
  BY DEF Job
<1>2. jobs' = [j \in DOMAIN jobs |-> IF jobs[j].state \in Live THEN [jobs[j] EXCEPT !.state = "failed"] ELSE jobs[j]]
  BY DEF Restart
<1>3. ASSUME NEW j \in DOMAIN jobs
      PROVE  /\ jobs'[j].review = jobs[j].review /\ jobs'[j].copy = jobs[j].copy /\ jobs'[j].kind = jobs[j].kind
             /\ (jobs'[j].state = jobs[j].state \/ jobs'[j].state = "failed") /\ jobs'[j] \in Job
  BY <1>1, <1>2, ArchiveBasics
<1>4. jobs' \in [DOMAIN jobs -> Job]
  BY <1>2, <1>3
<1>5. JobsFit(jobs') /\ Grows(jobs, jobs') /\ DOMAIN jobs' = DOMAIN jobs
  BY <1>3, <1>4, JobsChanged
<1>6. calls' = [h \in Handler |-> None]
  BY DEF Restart
<1>7. QED
  BY <1>3, <1>5, <1>6 DEF RequestsFit
-----------------------------------------------------------------------------
(* The command's state.                                                    *)

Submission == [copy : Copy, lane : Lane, by : Handler]
Reported == [review : Review, text : Text]
Flight == [copy : Copy, lane : Lane, job : Review]
CommandTypes ==
  /\ plan \in Plan /\ pending \in Seq(Copy) /\ free \in Seq(Lane)
  /\ items \in Seq([copy : Copy, lane : Lane, state : {"completed", "failed"}])
  /\ asked \in Submission \cup {None}
  /\ active \in SUBSET Flight /\ IsFiniteSet(active)
  /\ round \subseteq {a.job : a \in active}
  /\ output \in [Copy -> Reported \cup {None}]
  /\ told \in SUBSET (Copy \X Reported)


LEMMA SpendTypes ==
  ASSUME ArchiveTypes, NEW kind \in Kinds, Spend(kind)
  PROVE  chances' \in [Kinds -> Nat] /\ chances'[kind] # chances[kind]
BY DEF Spend, ArchiveTypes

LEMMA ArchiveStepTypes ==
  ASSUME ArchiveTypes, ArchiveNext
  PROVE  ArchiveTypes'
<1> USE DEF Kinds
<1>1. ASSUME NEW h \in Handler, List(h) PROVE ArchiveTypes'
  <2>1. Spend("list") /\ UNCHANGED <<rows, files, jobs, edited>>
    BY <1>1 DEF List
  <2>2. QED
    BY <1>1, <2>1, ListStep, SpendTypes DEF ArchiveTypes
<1>2. ASSUME NEW h \in Handler, ListJobs(h) PROVE ArchiveTypes'
  <2>1. UNCHANGED <<rows, files, jobs, edited, chances>>
    BY <1>2 DEF ListJobs
  <2>2. QED
    BY <1>2, <2>1, ListJobsStep DEF ArchiveTypes
<1>3. ASSUME NEW h \in Handler, BackfillJob(h) PROVE ArchiveTypes'
  <2>1. UNCHANGED <<files, jobs, edited, chances>>
    BY <1>3 DEF BackfillJob
  <2>2. QED
    BY <1>3, <2>1, BackfillJobStep DEF ArchiveTypes
<1>4. ASSUME NEW h \in Handler, ListFiles(h) \/ ReadFile(h) PROVE ArchiveTypes'
  <2>1. UNCHANGED <<rows, files, jobs, edited, chances>>
    BY <1>4 DEF ListFiles, ReadFile
  <2>2. QED
    BY <1>4, <2>1, ListFilesStep, ReadFileStep DEF ArchiveTypes
<1>5. ASSUME NEW h \in Handler, BackfillFile(h) PROVE ArchiveTypes'
  <2>1. UNCHANGED <<files, jobs, edited, chances>>
    BY <1>5 DEF BackfillFile
  <2>2. QED
    BY <1>5, <2>1, BackfillFileStep DEF ArchiveTypes
<1>6. ASSUME NEW h \in Handler, Shown(h) PROVE ArchiveTypes'
  <2>1. UNCHANGED <<rows, files, jobs, edited, chances>> /\ calls' = [calls EXCEPT ![h] = None]
    BY <1>6 DEF Shown
  <2>2. QED
    BY <2>1, Answered DEF ArchiveTypes
<1>7. ASSUME NEW h \in Handler, StartAnalyze(h) PROVE ArchiveTypes'
  <2>1. UNCHANGED <<rows, files, edited, chances>>
    BY <1>7 DEF StartAnalyze
  <2>2. RequestsFit(calls', jobs') /\ JobsFit(jobs') /\ Grows(jobs, jobs') /\ DOMAIN jobs \subseteq DOMAIN jobs'
    BY <1>7, StartAnalyzeStep
  <2>3. jobs \in Seq(Job) /\ jobs' \in Seq(Job)
    BY <2>2 DEF ArchiveTypes, JobsFit
  <2>4. RowsFit(rows, jobs') /\ FilesFit(files, jobs')
    BY <2>2, <2>3, RowsKept, FilesKept DEF ArchiveTypes
  <2>5. QED
    BY <2>1, <2>2, <2>4 DEF ArchiveTypes
<1>8. ASSUME NEW h \in Handler, SaveEdit(h) PROVE ArchiveTypes'
  <2>1. UNCHANGED <<files, jobs, edited, chances>>
    BY <1>8 DEF SaveEdit
  <2>2. QED
    BY <1>8, <2>1, SaveEditStep DEF ArchiveTypes
<1>9. ASSUME NEW h \in Handler, SyncEdit(h) PROVE ArchiveTypes'
  <2>1. UNCHANGED <<rows, jobs, chances>>
    BY <1>9 DEF SyncEdit
  <2>2. QED
    BY <1>9, <2>1, SyncEditStep DEF ArchiveTypes
<1>10. ASSUME NEW h \in Handler, DeleteRow(h) PROVE ArchiveTypes'
  <2>1. UNCHANGED <<files, jobs, edited, chances>>
    BY <1>10 DEF DeleteRow
  <2>2. QED
    BY <1>10, <2>1, DeleteRowStep DEF ArchiveTypes
<1>11. ASSUME JobsFit(jobs'), Grows(jobs, jobs'), DOMAIN jobs \subseteq DOMAIN jobs' PROVE
         /\ rows' = rows => RowsFit(rows', jobs')
         /\ files' = files => FilesFit(files', jobs')
         /\ edited' = edited => edited' \subseteq DOMAIN jobs'
         /\ calls' = calls => RequestsFit(calls', jobs')
  <2>1. jobs \in Seq(Job) /\ jobs' \in Seq(Job)
    BY <1>11 DEF ArchiveTypes, JobsFit
  <2>2. QED
    BY <1>11, <2>1, RowsKept, FilesKept, RequestsStay DEF ArchiveTypes
<1>12. ASSUME NEW h \in Handler, DeleteItsJob(h) PROVE ArchiveTypes'
  <2>1. UNCHANGED <<rows, files, edited, chances>>
    BY <1>12 DEF DeleteItsJob
  <2>2. QED
    BY <1>11, <1>12, <2>1, DeleteItsJobStep DEF ArchiveTypes
<1>13. ASSUME NEW h \in Handler, NEW r \in Review, ReadForEdit(h, r) PROVE ArchiveTypes'
  <2>1. UNCHANGED <<rows, files, jobs, edited>> /\ Spend("edit")
    BY <1>13 DEF ReadForEdit
  <2>2. QED
    BY <1>13, <2>1, ReadForEditStep, SpendTypes DEF ArchiveTypes
<1>14. ASSUME NEW h \in Handler, NEW r \in Review, ReadForDelete(h, r) PROVE ArchiveTypes'
  <2>1. UNCHANGED <<rows, jobs>> /\ Spend("delete") /\ edited' \subseteq edited
    BY <1>14 DEF ReadForDelete
  <2>2. QED
    BY <1>14, <2>1, ReadForDeleteStep, SpendTypes DEF ArchiveTypes
<1>15. ASSUME NEW j \in DOMAIN jobs, RerunReads(j) PROVE ArchiveTypes'
  <2>1. UNCHANGED <<rows, files, calls, edited, chances>>
    BY <1>15 DEF RerunReads
  <2>2. QED
    BY <1>11, <1>15, <2>1, RerunReadsStep DEF ArchiveTypes
<1>16. ASSUME NEW j \in DOMAIN jobs, SaveRow(j) PROVE ArchiveTypes'
  <2>1. UNCHANGED <<files, calls, edited>> /\ (UNCHANGED chances \/ Spend("unsaved"))
    BY <1>16 DEF SaveRow
  <2>2. chances' \in [Kinds -> Nat]
    BY <2>1, SpendTypes DEF ArchiveTypes
  <2>3. QED
    BY <1>11, <1>16, <2>1, <2>2, SaveRowStep DEF ArchiveTypes
<1>17. ASSUME NEW j \in DOMAIN jobs, SaveFile(j) PROVE ArchiveTypes'
  <2>1. UNCHANGED <<rows, calls, edited, chances>>
    BY <1>17 DEF SaveFile
  <2>2. QED
    BY <1>11, <1>17, <2>1, SaveFileStep DEF ArchiveTypes
<1>18. ASSUME NEW j \in DOMAIN jobs, Complete(j) PROVE ArchiveTypes'
  <2>1. UNCHANGED <<rows, files, calls, edited, chances>>
    BY <1>18 DEF Complete
  <2>2. QED
    BY <1>11, <1>18, <2>1, CompleteStep DEF ArchiveTypes
<1>19. ASSUME NEW r \in Review, Rerun(r) PROVE ArchiveTypes'
  <2>1. UNCHANGED <<rows, files>> /\ Spend("rerun") /\ edited' \subseteq edited
    BY <1>19 DEF Rerun
  <2>2. JobsFit(jobs') /\ Grows(jobs, jobs') /\ RequestsFit(calls', jobs') /\ DOMAIN jobs \subseteq DOMAIN jobs'
    BY <1>19, RerunStep
  <2>3. QED
    BY <1>11, <2>1, <2>2, SpendTypes DEF ArchiveTypes
<1>20. ASSUME ClearJobs PROVE ArchiveTypes'
  <2>1. UNCHANGED <<rows, files, edited>> /\ Spend("clear")
    BY <1>20 DEF ClearJobs
  <2>2. QED
    BY <1>11, <1>20, <2>1, ClearJobsStep, SpendTypes DEF ArchiveTypes
<1>21. ASSUME Restart PROVE ArchiveTypes'
  <2>1. UNCHANGED <<rows, files, edited>> /\ Spend("crash")
    BY <1>21 DEF Restart
  <2>2. QED
    BY <1>11, <1>21, <2>1, RestartStep, SpendTypes DEF ArchiveTypes
<1>22. QED
  BY <1>1, <1>2, <1>3, <1>4, <1>5, <1>6, <1>7, <1>8, <1>9, <1>10, <1>12, <1>13, <1>14, <1>15, <1>16, <1>17, <1>18,
     <1>19, <1>20, <1>21 DEF ArchiveNext, Served, Worked

LEMMA CommandStepTypes ==
  ASSUME ArchiveTypes, CommandTypes, CommandNext
  PROVE  ArchiveTypes' /\ CommandTypes'
<1> DEFINE ItemRecord == [copy : Copy, lane : Lane, state : {"completed", "failed"}]
<1>0. /\ plan \in Plan /\ pending \in Seq(Copy) /\ free \in Seq(Lane) /\ items \in Seq(ItemRecord)
      /\ asked \in Submission \cup {None} /\ active \in SUBSET Flight /\ IsFiniteSet(active)
      /\ round \subseteq {a.job : a \in active}
      /\ output \in [Copy -> Reported \cup {None}] /\ told \in SUBSET (Copy \X Reported)
  BY DEF CommandTypes
<1>a. \A copy \in Copy, lane \in Lane, state \in {"completed", "failed"} : Item(copy, lane, state) \in ItemRecord
  BY DEF Item
<1>b. \A seq \in Seq(ItemRecord), x \in ItemRecord : Append(seq, x) \in Seq(ItemRecord)
  <2> HIDE DEF ItemRecord
  <2> QED
    BY AppendProperties
<1> HIDE DEF ItemRecord
<1>c. ASSUME archiveVars' = archiveVars PROVE ArchiveTypes'
  BY <1>c DEF archiveVars, ArchiveTypes
<1>d. /\ \A seq \in Seq(Lane), x \in Lane : Append(seq, x) \in Seq(Lane)
      /\ \A seq \in Seq(Lane) : seq # <<>> => Head(seq) \in Lane /\ Tail(seq) \in Seq(Lane)
      /\ \A seq \in Seq(Copy) : seq # <<>> => Head(seq) \in Copy /\ Tail(seq) \in Seq(Copy)
  BY AppendProperties, HeadTailProperties
<1>1. CASE Begin
  <2>1. plan.copies \in Seq(Copy)
    BY <1>0, BatchAssumption
  <2>2. SetToSeqs(Lane) \subseteq Seq(Lane)
    <3>1. Cardinality(Lane) \in Nat
      BY BatchAssumption, FS_CardinalityType
    <3>2. QED
      BY <3>1 DEF SetToSeqs
  <2>3. items' \in Seq(ItemRecord)
    <3>1. items' = <<>>
      BY <1>1 DEF Begin
    <3>2. QED
      BY <3>1, EmptySeq
  <2>4. /\ pending' = plan.copies /\ free' \in SetToSeqs(Lane) /\ asked' = None /\ active' = {} /\ round' = {}
        /\ UNCHANGED <<plan, output, told, archiveVars>>
    BY <1>1 DEF Begin
  <2>5. IsFiniteSet({})
    BY FS_EmptySet
  <2>6. QED
    BY <1>0, <1>c, <2>1, <2>2, <2>3, <2>4, <2>5 DEF CommandTypes, ItemRecord
<1>2. ASSUME NEW h \in Handler, Ask(h) PROVE ArchiveTypes' /\ CommandTypes'
  <2>1. /\ pending # <<>> /\ free # <<>> /\ Arrive(h, "analyze", Head(pending), Kept(Head(pending)))
        /\ asked' = [copy |-> Head(pending), lane |-> Head(free), by |-> h]
        /\ pending' = Tail(pending) /\ free' = Tail(free)
        /\ UNCHANGED <<plan, rows, files, jobs, edited, chances, stage, run, active, round, items, expired, output, told>>
    BY <1>2 DEF Ask
  <2>2. Head(pending) \in Copy /\ Tail(pending) \in Seq(Copy) /\ Head(free) \in Lane /\ Tail(free) \in Seq(Lane)
    BY <1>0, <1>d, <2>1
  <2>3. asked' \in Submission
    BY <2>1, <2>2 DEF Submission
  <2>4. RequestsFit(calls', jobs)
    <3> DEFINE p == Head(pending)
    <3>1. p \in Copy /\ Arrive(h, "analyze", p, Kept(p))
      BY <2>1, <2>2
    <3>2. PICK q \in Copy : q = p
      BY <3>1
    <3>3. Arrive(h, "analyze", q, Kept(q))
      BY <3>1, <3>2 DEF Arrive, Kept, CopyOf
    <3>4. QED
      BY <3>3, AskStep
  <2>5. ArchiveTypes'
    BY <2>1, <2>4 DEF ArchiveTypes
  <2>6. QED
    BY <1>0, <2>1, <2>2, <2>3, <2>5 DEF CommandTypes, ItemRecord
<1>3. ASSUME NEW h \in Handler, Submitted(h) PROVE ArchiveTypes' /\ CommandTypes'
  <2>1. /\ calls[h] # None /\ calls[h].at = "answer" /\ calls' = [calls EXCEPT ![h] = None]
        /\ UNCHANGED <<plan, rows, files, jobs, edited, chances, stage, run, pending, free, round, items, expired, output, told>>
    BY <1>3 DEF Submitted
  <2>2. ArchiveTypes'
    BY <2>1, Answered DEF ArchiveTypes
  <2>3. calls[h].seen \in Review
    BY <2>1, ArchiveBasics DEF RequestFits
  <2>4. CASE asked # None /\ asked.by = h
    <3> DEFINE f == [copy |-> asked.copy, lane |-> asked.lane, job |-> calls[h].seen]
    <3>1. f \in Flight
      BY <1>0, <2>3, <2>4 DEF Submission, Flight
    <3>2. active' = active \cup {f} /\ asked' = None
      BY <1>3, <2>4 DEF Submitted
    <3> HIDE DEF f
    <3>3. IsFiniteSet(active')
      BY <1>0, <3>2, FS_AddElement
    <3>4. round' \subseteq {a.job : a \in active'}
      BY <1>0, <2>1, <3>2
    <3>5. QED
      BY <1>0, <2>1, <2>2, <3>1, <3>2, <3>3, <3>4 DEF CommandTypes, ItemRecord
  <2>5. CASE ~(asked # None /\ asked.by = h)
    <3>1. UNCHANGED <<active, asked>>
      BY <1>3, <2>5 DEF Submitted
    <3>2. QED
      BY <1>0, <2>1, <2>2, <3>1 DEF CommandTypes, ItemRecord
  <2>6. QED
    BY <2>4, <2>5
<1>4. CASE SubmitFails
  <2>0. UNCHANGED <<plan, rows, files, jobs, calls, edited, stage, run, active, round, expired, output, told>>
    BY <1>4 DEF SubmitFails
  <2>1. chances' \in [Kinds -> Nat]
    BY <1>4 DEF SubmitFails, ArchiveTypes, Kinds
  <2>2. ArchiveTypes'
    BY <2>0, <2>1 DEF ArchiveTypes
  <2>3. CASE /\ asked # None /\ items' = Append(items, Item(asked.copy, asked.lane, "failed"))
             /\ free' = GiveBack(asked.lane) /\ asked' = None /\ UNCHANGED pending
    <3>1. asked.copy \in Copy /\ asked.lane \in Lane
      BY <1>0, <2>3 DEF Submission
    <3>2. items' \in Seq(ItemRecord) /\ free' \in Seq(Lane)
      BY <1>0, <1>a, <1>b, <1>d, <2>3, <3>1 DEF GiveBack
    <3>3. QED
      BY <1>0, <2>0, <2>2, <2>3, <3>2 DEF CommandTypes, ItemRecord
  <2>4. CASE /\ pending # <<>> /\ free # <<>> /\ items' = Append(items, Item(Head(pending), Head(free), "failed"))
             /\ pending' = Tail(pending) /\ free' = Append(Tail(free), Head(free)) /\ UNCHANGED asked
    <3>1. Head(pending) \in Copy /\ Tail(pending) \in Seq(Copy) /\ Head(free) \in Lane /\ Tail(free) \in Seq(Lane)
      BY <1>0, <1>d, <2>4
    <3>2. items' \in Seq(ItemRecord) /\ free' \in Seq(Lane)
      BY <1>0, <1>a, <1>b, <1>d, <2>4, <3>1
    <3>3. QED
      BY <1>0, <2>0, <2>2, <2>4, <3>1, <3>2 DEF CommandTypes, ItemRecord
  <2>5. QED
    BY <1>4, <2>3, <2>4 DEF SubmitFails
<1>5. CASE Wait \/ TimeOut \/ EndRound
  <2>1. UNCHANGED <<plan, pending, free, asked, active, round, items, output, told, archiveVars>>
    BY <1>5 DEF Wait, TimeOut, EndRound
  <2>2. QED
    BY <1>0, <1>c, <2>1 DEF CommandTypes, ItemRecord
<1>6. CASE Expire \/ Kill
  <2>1. /\ UNCHANGED <<plan, pending, free, active, round, items, output, told, rows, files, jobs, calls, edited>>
        /\ asked' \in {None, asked} /\ (Spend("expiry") \/ Spend("kill"))
    BY <1>6 DEF Expire, Kill
  <2>2. ArchiveTypes'
    BY <2>1, SpendTypes DEF ArchiveTypes, Kinds
  <2>3. QED
    BY <1>0, <2>1, <2>2 DEF CommandTypes, ItemRecord
<1>7. CASE Tick
  <2>1. round' = {a.job : a \in active} /\ UNCHANGED <<plan, pending, free, asked, active, items, output, told, archiveVars>>
    BY <1>7 DEF Tick
  <2>2. QED
    BY <1>0, <1>c, <2>1 DEF CommandTypes, ItemRecord
<1>8. ASSUME NEW j \in DOMAIN jobs, Poll(j) PROVE ArchiveTypes' /\ CommandTypes'
  <2> DEFINE a == CHOOSE b \in active : b.job = j
             review == [review |-> jobs[j].review, text |-> jobs[j].text]
             written == jobs[j].state = "completed" /\ MayWrite(output[a.copy], review)
  <2>0. j \in round
    <3>1. round # {} /\ j = Min(round) /\ round \subseteq Review
      BY <1>0, <1>8 DEF Poll, Flight
    <3>2. QED
      BY <3>1, MinOfReviews
  <2>1. a \in active /\ a.job = j
    BY <1>0, <2>0
  <2>2. a.copy \in Copy /\ a.lane \in Lane
    BY <1>0, <2>1 DEF Flight
  <2>3. review \in Reported
    BY ArchiveBasics DEF Job, Reported
  <2>4. round' = round \ {j} /\ UNCHANGED <<plan, pending, asked, archiveVars>>
    BY <1>8 DEF Poll
  <2>5. \/ UNCHANGED <<active, items, free, output, told>>
        \/ /\ output' = IF written THEN WriteFile(a.copy, review) ELSE output
           /\ told' = IF written THEN told \cup {<<a.copy, review>>} ELSE told
           /\ items' = Append(items, Item(a.copy, a.lane, IF written THEN "completed" ELSE "failed"))
           /\ active' = active \ {a} /\ free' = Append(free, a.lane)
    BY <1>8 DEF Poll
  <2> HIDE DEF a, review, written
  <2>6. CASE UNCHANGED <<active, items, free, output, told>>
    <3>1. round' \subseteq {b.job : b \in active'}
      BY <1>0, <2>4, <2>6
    <3>2. QED
      BY <1>0, <1>c, <2>4, <2>6, <3>1 DEF CommandTypes, ItemRecord
  <2>7. CASE /\ output' = IF written THEN WriteFile(a.copy, review) ELSE output
             /\ told' = IF written THEN told \cup {<<a.copy, review>>} ELSE told
             /\ items' = Append(items, Item(a.copy, a.lane, IF written THEN "completed" ELSE "failed"))
             /\ active' = active \ {a} /\ free' = Append(free, a.lane)
    <3>1. round' \subseteq {b.job : b \in active'}
      BY <1>0, <2>1, <2>4, <2>7
    <3>2. IsFiniteSet(active') /\ active' \in SUBSET Flight
      BY <1>0, <2>7, FS_RemoveElement
    <3>3. output' \in [Copy -> Reported \cup {None}]
      BY <1>0, <2>2, <2>3, <2>7 DEF WriteFile
    <3>4. told' \in SUBSET (Copy \X Reported)
      BY <1>0, <2>2, <2>3, <2>7
    <3>5. items' \in Seq(ItemRecord) /\ free' \in Seq(Lane)
      BY <1>0, <1>a, <1>b, <1>d, <2>2, <2>7
    <3>6. QED
      BY <1>0, <1>c, <2>4, <3>1, <3>2, <3>3, <3>4, <3>5 DEF CommandTypes, ItemRecord
  <2>8. QED
    BY <2>5, <2>6, <2>7
<1>9. QED
  BY <1>1, <1>2, <1>3, <1>4, <1>5, <1>6, <1>7, <1>8 DEF CommandNext

TopperTypes == ArchiveTypes /\ CommandTypes

LEMMA TopperInitTypes ==
  ASSUME TopperInit
  PROVE  TopperTypes
<1>1. ArchiveTypes
  <2>1. /\ rows = [r \in Review |-> None] /\ files = [r \in Review |-> None] /\ jobs = <<>>
        /\ calls = [h \in Handler |-> None] /\ edited = {} /\ chances \in Chances
    BY DEF TopperInit, ArchiveInit
  <2>2. chances \in [Kinds -> Nat]
    BY <2>1, ArchiveAssumption
  <2>3. jobs \in Seq(Job) /\ Len(jobs) = 0 /\ DOMAIN jobs = {}
    BY <2>1, EmptySeq
  <2>4. JobsFit(jobs)
    BY <2>3, ArchiveAssumption DEF JobsFit
  <2>5. QED
    BY <2>1, <2>2, <2>4 DEF ArchiveTypes, RowsFit, FilesFit, RequestsFit
<1>2. CommandTypes
  <2>1. /\ plan \in Plan /\ pending = <<>> /\ free = <<>> /\ items = <<>> /\ asked = None /\ active = {} /\ round = {}
        /\ output = [c \in Copy |-> None] /\ told = {}
    BY DEF TopperInit
  <2>2. IsFiniteSet({})
    BY FS_EmptySet
  <2>3. QED
    BY <2>1, <2>2, EmptySeq DEF CommandTypes
<1>3. QED
  BY <1>1, <1>2 DEF TopperTypes

LEMMA TopperStepTypes ==
  ASSUME TopperTypes, [TopperNext]_topperVars
  PROVE  TopperTypes'
<1>1. CASE CommandNext
  BY <1>1, CommandStepTypes DEF TopperTypes
<1>2. CASE ArchiveNext /\ UNCHANGED commandVars
  BY <1>2, ArchiveStepTypes DEF TopperTypes, CommandTypes, commandVars
<1>3. CASE UNCHANGED topperVars
  BY <1>3 DEF TopperTypes, ArchiveTypes, CommandTypes, topperVars, archiveVars, commandVars
<1>4. QED
  BY <1>1, <1>2, <1>3 DEF TopperNext

\* Rows, files, jobs, requests and the command's lists are what the code takes
\* them for: a row names a job about its review, a request in hand is
\* about a review that some job made.
THEOREM TopperTypesHold == TopperSpec => []TopperTypes
<1>1. TopperInit => TopperTypes
  BY TopperInitTypes
<1>2. TopperTypes /\ [TopperNext]_topperVars => TopperTypes'
  BY TopperStepTypes
<1>3. QED
  BY <1>1, <1>2, PTL DEF TopperSpec
-----------------------------------------------------------------------------
(* What was reported stays in the output directory.                        *)

LEMMA ReviewsKeptStep ==
  ASSUME TopperTypes, ReviewsKept, [TopperNext]_topperVars
  PROVE  ReviewsKept'
<1>1. CASE UNCHANGED <<output, told>>
  BY <1>1 DEF ReviewsKept
<1>2. ASSUME NEW j \in DOMAIN jobs, Poll(j) PROVE ReviewsKept'
  <2> DEFINE a == CHOOSE b \in active : b.job = j
             review == [review |-> jobs[j].review, text |-> jobs[j].text]
             written == jobs[j].state = "completed" /\ MayWrite(output[a.copy], review)
  <2>1. review \in Reported
    BY ArchiveBasics DEF Job, Reported, TopperTypes
  <2>2. \/ UNCHANGED <<output, told>>
        \/ /\ output' = IF written THEN WriteFile(a.copy, review) ELSE output
           /\ told' = IF written THEN told \cup {<<a.copy, review>>} ELSE told
    BY <1>2 DEF Poll
  <2>3. j \in round
    <3>1. round # {} /\ j = Min(round) /\ round \subseteq Review
      BY <1>2 DEF Poll, Flight, TopperTypes, CommandTypes
    <3>2. QED
      BY <3>1, MinOfReviews
  <2>4. a \in active /\ a.copy \in Copy
    <3>1. \E b \in active : b.job = j
      BY <2>3 DEF TopperTypes, CommandTypes
    <3>2. a \in active
      BY <3>1
    <3> HIDE DEF a
    <3>3. QED
      BY <3>2 DEF TopperTypes, CommandTypes, Flight
  <2>5. /\ output \in [Copy -> Reported \cup {None}] /\ told \in SUBSET (Copy \X Reported)
        /\ None \notin Reported
    BY BatchAssumption DEF TopperTypes, CommandTypes, Reported
  <2>6. CASE ~written \/ UNCHANGED <<output, told>>
    BY <2>2, <2>6 DEF ReviewsKept
  <2>7. CASE written /\ output' = WriteFile(a.copy, review) /\ told' = told \cup {<<a.copy, review>>}
    <3>1. output[a.copy] \in {None, review}
      BY <2>7 DEF MayWrite
    <3> HIDE DEF a, review, written
    <3>2. output' = [output EXCEPT ![a.copy] = review]
      BY <2>7 DEF WriteFile
    <3>3. ASSUME NEW t \in told' PROVE output'[t[1]] = t[2]
      <4>1. CASE t = <<a.copy, review>>
        BY <2>4, <2>5, <3>2, <4>1
      <4>2. CASE t \in told
        <5>1. t[1] \in Copy /\ t[2] \in Reported /\ output[t[1]] = t[2]
          BY <2>5, <4>2 DEF ReviewsKept
        <5>2. CASE t[1] = a.copy
          BY <2>4, <2>5, <3>1, <3>2, <5>1, <5>2
        <5>3. CASE t[1] # a.copy
          BY <2>5, <3>2, <5>1, <5>3
        <5>4. QED
          BY <5>2, <5>3
      <4>3. QED
        BY <2>7, <4>1, <4>2
    <3>4. QED
      BY <3>3 DEF ReviewsKept
  <2>8. QED
    BY <2>2, <2>6, <2>7
<1>3. CASE Begin \/ SubmitFails \/ Wait \/ Expire \/ TimeOut \/ Tick \/ EndRound \/ Kill
  BY <1>1, <1>3 DEF Begin, SubmitFails, Wait, Expire, TimeOut, Tick, EndRound, Kill
<1>4. CASE \E h \in Handler : Ask(h) \/ Submitted(h)
  BY <1>1, <1>4 DEF Ask, Submitted
<1>5. CASE ArchiveNext /\ UNCHANGED commandVars
  BY <1>1, <1>5 DEF commandVars
<1>6. CASE UNCHANGED topperVars
  BY <1>1, <1>6 DEF topperVars, commandVars
<1>7. QED
  BY <1>2, <1>3, <1>4, <1>5, <1>6 DEF TopperNext, CommandNext

\* A review that any run of the command reported as completed is the one in
\* the output directory, for good: a later run, which may come by another
\* review of the copy, leaves it alone.
THEOREM ReviewsAlwaysKept == TopperSpec => []ReviewsKept
<1>1. TopperInit => ReviewsKept
  BY DEF TopperInit, ReviewsKept
<1>2. TopperTypes /\ ReviewsKept /\ [TopperNext]_topperVars => ReviewsKept'
  BY ReviewsKeptStep
<1>3. QED
  BY <1>1, <1>2, TopperTypesHold, PTL DEF TopperSpec
-----------------------------------------------------------------------------
(* Copies and lanes are never lost: counting in lists.                     *)

LEMMA TimesFinite ==
  ASSUME NEW S, NEW s \in Seq(S), NEW x
  PROVE  IsFiniteSet({i \in DOMAIN s : s[i] = x}) /\ Times(x, s) \in Nat
<1>1. IsFiniteSet(1..Len(s)) /\ DOMAIN s = 1..Len(s)
  BY FS_Interval
<1>2. {i \in DOMAIN s : s[i] = x} \subseteq 1..Len(s)
  BY <1>1
<1>3. QED
  BY <1>1, <1>2, FS_Subset, FS_CardinalityType DEF Times

LEMMA TimesEmpty ==
  ASSUME NEW x
  PROVE  Times(x, <<>>) = 0
<1>1. {i \in DOMAIN <<>> : <<>>[i] = x} = {}
  OBVIOUS
<1>2. QED
  BY <1>1, FS_EmptySet DEF Times

LEMMA TimesAppend ==
  ASSUME NEW S, NEW s \in Seq(S), NEW y \in S, NEW x
  PROVE  Times(x, Append(s, y)) = Times(x, s) + (IF y = x THEN 1 ELSE 0)
<1> DEFINE t == Append(s, y)
           n == Len(s) + 1
           A == {i \in DOMAIN s : s[i] = x}
           B == {i \in DOMAIN t : t[i] = x}
<1>1. /\ t \in Seq(S) /\ Len(t) = n /\ t[n] = y /\ \A i \in 1..Len(s) : t[i] = s[i]
  BY AppendProperties
<1>2. DOMAIN s = 1..Len(s) /\ DOMAIN t = 1..n /\ n \in Nat /\ n \notin DOMAIN s /\ DOMAIN t = DOMAIN s \cup {n}
  BY <1>1
<1>3. IsFiniteSet(A) /\ Cardinality(A) \in Nat
  BY TimesFinite, FS_CardinalityType
<1> HIDE DEF t, n
<1>4. CASE y = x
  <2>1. B = A \cup {n} /\ n \notin A
    BY <1>1, <1>2, <1>4
  <2>2. QED
    BY <1>3, <1>4, <2>1, FS_AddElement DEF Times, t
<1>5. CASE y # x
  <2>1. B = A
    BY <1>1, <1>2, <1>5
  <2>2. Times(x, t) = Cardinality(B) /\ Times(x, s) = Cardinality(A)
    BY DEF Times
  <2> HIDE DEF A, B
  <2>3. Times(x, t) = Times(x, s) + (IF y = x THEN 1 ELSE 0)
    BY <1>3, <1>5, <2>1, <2>2
  <2>4. QED
    BY <2>3 DEF t
<1>6. QED
  BY <1>4, <1>5

LEMMA TimesTail ==
  ASSUME NEW S, NEW s \in Seq(S), s # <<>>, NEW x
  PROVE  Times(x, s) = Times(x, Tail(s)) + (IF Head(s) = x THEN 1 ELSE 0)
<1> DEFINE t == Tail(s)
           A == {i \in DOMAIN s : s[i] = x}
           B == {i \in DOMAIN t : t[i] = x}
           C == A \ {1}
<1>1. /\ t \in Seq(S) /\ Len(t) = Len(s) - 1 /\ \A i \in 1..Len(t) : t[i] = s[i + 1]
  BY HeadTailProperties
<1>2. Len(s) \in Nat /\ Len(s) > 0 /\ DOMAIN s = 1..Len(s) /\ DOMAIN t = 1..Len(t) /\ Head(s) = s[1]
  BY <1>1
<1>3. IsFiniteSet(A) /\ IsFiniteSet(B) /\ Cardinality(A) \in Nat /\ Cardinality(B) \in Nat
  <2>1. IsFiniteSet(A)
    BY TimesFinite
  <2>2. IsFiniteSet(B)
    BY <1>1, TimesFinite
  <2>3. QED
    BY <2>1, <2>2, FS_CardinalityType
<1> HIDE DEF t
<1>4. Cardinality(C) = Cardinality(B)
  <2> DEFINE f == [i \in B |-> i + 1]
  <2>1. \A i \in B : i \in Int /\ i + 1 \in C
    BY <1>1, <1>2
  <2>2. \A i \in C : i - 1 \in B /\ (i - 1) + 1 = i
    BY <1>1, <1>2
  <2>3. f \in [B -> C]
    BY <2>1
  <2>4. \A i, k \in B : f[i] = f[k] => i = k
    BY <2>1
  <2>5. \A i \in C : \E k \in B : f[k] = i
    BY <2>2
  <2>6. f \in Bijection(B, C)
    <3> HIDE DEF f, B, C
    <3> QED
      BY <2>3, <2>4, <2>5, Fun_IsBij
  <2>7. ExistsBijection(B, C)
    BY <2>6 DEF ExistsBijection
  <2>8. QED
    BY <1>3, <2>7, FS_Bijection
<1>5. Cardinality(A) = Cardinality(C) + (IF 1 \in A THEN 1 ELSE 0)
  <2>1. Cardinality(A \ {1}) = IF 1 \in A THEN Cardinality(A) - 1 ELSE Cardinality(A)
    BY <1>3, FS_RemoveElement
  <2> HIDE DEF A
  <2>2. QED
    BY <1>3, <2>1
<1>6. 1 \in A <=> Head(s) = x
  BY <1>2
<1>7. QED
  BY <1>4, <1>5, <1>6 DEF Times, t

\* A list without repetitions has each of its elements once.
LEMMA TimesOnce ==
  ASSUME NEW S, NEW s \in Seq(S), \A i, k \in DOMAIN s : s[i] = s[k] => i = k, NEW i \in DOMAIN s
  PROVE  Times(s[i], s) = 1
<1>1. {k \in DOMAIN s : s[k] = s[i]} = {i}
  OBVIOUS
<1>2. QED
  BY <1>1, FS_Singleton DEF Times

\* Any order of the lanes has each lane once.
LEMMA EachLaneOnce ==
  ASSUME NEW f \in SetToSeqs(Lane), NEW l \in Lane
  PROVE  f \in Seq(Lane) /\ Times(l, f) = 1
<1> DEFINE n == Cardinality(Lane)
<1>1. n \in Nat /\ IsFiniteSet(Lane)
  BY BatchAssumption, FS_CardinalityType
<1>2. f \in [1..n -> Lane] /\ \A i, k \in 1..n : i # k => f[i] # f[k]
  BY DEF SetToSeqs
<1>3. IsFiniteSet(1..n) /\ Cardinality(1..n) = n
  BY <1>1, FS_Interval
<1> HIDE DEF n
<1>4. f \in Injection(1..n, Lane)
  BY <1>2, Fun_IsInj
<1>5. f \in Surjection(1..n, Lane)
  BY <1>1, <1>3, <1>4, FS_Injection DEF n
<1>6. PICK i \in 1..n : f[i] = l
  BY <1>5 DEF Surjection
<1>7. f \in Seq(Lane) /\ DOMAIN f = 1..n
  BY <1>1, <1>2
<1>8. QED
  BY <1>2, <1>6, <1>7, TimesOnce

ItemCopies == [i \in DOMAIN items |-> items[i].copy]
Holds(c) == IF asked # None /\ asked.copy = c THEN 1 ELSE 0
Uses(l) == IF asked # None /\ asked.lane = l THEN 1 ELSE 0
ActiveOn(c) == Cardinality({a \in active : a.copy = c})
ActiveAt(l) == Cardinality({a \in active : a.lane = l})
CopyCount(c) == Times(c, pending) + Times(c, ItemCopies) + ActiveOn(c) + Holds(c)
LaneCount(l) == Times(l, free) + ActiveAt(l) + Uses(l)

\* NothingDropped with the submission in flight counted by itself.
Balanced ==
  Running \/ stage = "done" =>
    /\ \A c \in Range(plan.copies) : CopyCount(c) = 1
    /\ \A l \in Lane : LaneCount(l) = 1

LEMMA CountsAreNumbers ==
  ASSUME CommandTypes
  PROVE  /\ \A c : Times(c, pending) \in Nat /\ Times(c, ItemCopies) \in Nat /\ ActiveOn(c) \in Nat /\ Holds(c) \in {0, 1}
         /\ \A l : Times(l, free) \in Nat /\ ActiveAt(l) \in Nat /\ Uses(l) \in {0, 1}
         /\ \A c : IsFiniteSet({a \in active : a.copy = c})
         /\ \A l : IsFiniteSet({a \in active : a.lane = l})
         /\ ItemCopies \in Seq(Copy)
<1>1. ItemCopies \in Seq(Copy)
  <2> DEFINE ItemRecord == [copy : Copy, lane : Lane, state : {"completed", "failed"}]
  <2>1. items \in Seq(ItemRecord)
    BY DEF CommandTypes
  <2>2. \A x \in ItemRecord : x.copy \in Copy
    OBVIOUS
  <2> HIDE DEF ItemRecord
  <2>3. Len(items) \in Nat /\ DOMAIN items = 1..Len(items) /\ \A i \in DOMAIN items : items[i].copy \in Copy
    BY <2>1, <2>2
  <2>4. ItemCopies \in [1..Len(items) -> Copy]
    BY <2>3 DEF ItemCopies
  <2>5. QED
    BY <2>3, <2>4
<1>2. \A c : Times(c, pending) \in Nat /\ Times(c, ItemCopies) \in Nat
  BY <1>1, TimesFinite DEF CommandTypes
<1>3. \A l : Times(l, free) \in Nat
  BY TimesFinite DEF CommandTypes
<1>4. \A c : IsFiniteSet({a \in active : a.copy = c}) /\ ActiveOn(c) \in Nat
  <2> SUFFICES ASSUME NEW c PROVE IsFiniteSet({a \in active : a.copy = c}) /\ ActiveOn(c) \in Nat
    OBVIOUS
  <2>1. IsFiniteSet({a \in active : a.copy = c})
    BY FS_Subset DEF CommandTypes
  <2>2. QED
    BY <2>1, FS_CardinalityType DEF ActiveOn
<1>5. \A l : IsFiniteSet({a \in active : a.lane = l}) /\ ActiveAt(l) \in Nat
  <2> SUFFICES ASSUME NEW l PROVE IsFiniteSet({a \in active : a.lane = l}) /\ ActiveAt(l) \in Nat
    OBVIOUS
  <2>1. IsFiniteSet({a \in active : a.lane = l})
    BY FS_Subset DEF CommandTypes
  <2>2. QED
    BY <2>1, FS_CardinalityType DEF ActiveAt
<1>6. QED
  BY <1>1, <1>2, <1>3, <1>4, <1>5 DEF Holds, Uses

\* The submission in flight is none of the active jobs.
LEMMA FlightsCounted ==
  ASSUME CommandTypes
  PROVE  /\ \A c : Cardinality({f \in InFlight : f.copy = c}) = ActiveOn(c) + Holds(c)
         /\ \A l : Cardinality({f \in InFlight : f.lane = l}) = ActiveAt(l) + Uses(l)
<1>1. CASE asked \in Submission /\ asked # None
  <2>1. asked \notin active
    <3>1. DOMAIN asked = {"copy", "lane", "by"}
      BY <1>1 DEF Submission
    <3>2. \A f \in Flight : DOMAIN f = {"copy", "lane", "job"}
      BY DEF Flight
    <3>3. active \subseteq Flight
      BY DEF CommandTypes
    <3>4. "by" \in {"copy", "lane", "by"} /\ "by" \notin {"copy", "lane", "job"}
      OBVIOUS
    <3>5. QED
      BY <3>1, <3>2, <3>3, <3>4
  <2>2. InFlight = active \cup {asked}
    BY <1>1 DEF InFlight
  <2>3. ASSUME NEW c PROVE Cardinality({f \in InFlight : f.copy = c}) = ActiveOn(c) + Holds(c)
    <3> DEFINE A == {a \in active : a.copy = c}
    <3>1. IsFiniteSet(A) /\ Cardinality(A) \in Nat /\ asked \notin A
      BY <2>1, CountsAreNumbers, FS_CardinalityType
    <3>2. {f \in InFlight : f.copy = c} = IF asked.copy = c THEN A \cup {asked} ELSE A
      BY <2>2
    <3>3. ActiveOn(c) = Cardinality(A) /\ Holds(c) = IF asked.copy = c THEN 1 ELSE 0
      BY <1>1 DEF ActiveOn, Holds
    <3>4. Cardinality(A \cup {asked}) = Cardinality(A) + 1
      BY <3>1, FS_AddElement
    <3> HIDE DEF A
    <3>5. CASE asked.copy = c
      BY <3>1, <3>2, <3>3, <3>4, <3>5
    <3>6. CASE asked.copy # c
      <4>1. {f \in InFlight : f.copy = c} = A
        BY <3>2, <3>6
      <4>2. Holds(c) = 0
        BY <3>3, <3>6
      <4>3. ActiveOn(c) + Holds(c) = ActiveOn(c)
        BY <3>1, <3>3, <4>2
      <4>4. Cardinality({f \in InFlight : f.copy = c}) = ActiveOn(c)
        BY <3>3, <4>1
      <4>5. QED
        BY <4>3, <4>4
    <3>7. QED
      BY <3>5, <3>6
  <2>4. ASSUME NEW l PROVE Cardinality({f \in InFlight : f.lane = l}) = ActiveAt(l) + Uses(l)
    <3> DEFINE A == {a \in active : a.lane = l}
    <3>1. IsFiniteSet(A) /\ Cardinality(A) \in Nat /\ asked \notin A
      BY <2>1, CountsAreNumbers, FS_CardinalityType
    <3>2. {f \in InFlight : f.lane = l} = IF asked.lane = l THEN A \cup {asked} ELSE A
      BY <2>2
    <3>3. ActiveAt(l) = Cardinality(A) /\ Uses(l) = IF asked.lane = l THEN 1 ELSE 0
      BY <1>1 DEF ActiveAt, Uses
    <3>4. Cardinality(A \cup {asked}) = Cardinality(A) + 1
      BY <3>1, FS_AddElement
    <3> HIDE DEF A
    <3>5. CASE asked.lane = l
      BY <3>1, <3>2, <3>3, <3>4, <3>5
    <3>6. CASE asked.lane # l
      <4>1. {f \in InFlight : f.lane = l} = A
        BY <3>2, <3>6
      <4>2. Uses(l) = 0
        BY <3>3, <3>6
      <4>3. ActiveAt(l) + Uses(l) = ActiveAt(l)
        BY <3>1, <3>3, <4>2
      <4>4. Cardinality({f \in InFlight : f.lane = l}) = ActiveAt(l)
        BY <3>3, <4>1
      <4>5. QED
        BY <4>3, <4>4
    <3>7. QED
      BY <3>5, <3>6
  <2>5. QED
    BY <2>3, <2>4
<1>2. CASE asked = None
  <2>1. InFlight = active /\ \A x : Holds(x) = 0 /\ Uses(x) = 0
    BY <1>2 DEF InFlight, Holds, Uses
  <2>2. QED
    BY <2>1, CountsAreNumbers DEF ActiveOn, ActiveAt
<1>3. QED
  BY <1>1, <1>2 DEF CommandTypes

LEMMA BalancedMeansNothingDropped ==
  ASSUME CommandTypes
  PROVE  Balanced <=> NothingDropped
<1>1. \A c : Times(c, pending) + Times(c, ItemCopies) + Cardinality({f \in InFlight : f.copy = c}) = CopyCount(c)
  BY FlightsCounted, CountsAreNumbers DEF CopyCount
<1>2. \A l : Times(l, free) + Cardinality({f \in InFlight : f.lane = l}) = LaneCount(l)
  BY FlightsCounted, CountsAreNumbers DEF LaneCount
<1>3. QED
  BY <1>1, <1>2 DEF Balanced, NothingDropped, ItemCopies

LEMMA BeginBalances ==
  ASSUME CommandTypes, Begin
  PROVE  Balanced'
<1>1. /\ pending' = plan.copies /\ free' \in SetToSeqs(Lane) /\ asked' = None /\ active' = {} /\ items' = <<>> /\ plan' = plan
  BY DEF Begin
<1>2. plan.copies \in Seq(Copy) /\ IsInjective(plan.copies)
  BY BatchAssumption DEF CommandTypes, ManifestFits
<1>3. (ItemCopies)' = <<>>
  BY <1>1 DEF ItemCopies
<1>4. ASSUME NEW c \in Range(plan'.copies) PROVE (CopyCount(c) = 1)'
  <2>1. PICK i \in DOMAIN plan.copies : plan.copies[i] = c
    BY <1>1 DEF Range
  <2>2. \A j, k \in DOMAIN plan.copies : plan.copies[j] = plan.copies[k] => j = k
    BY <1>2 DEF IsInjective
  <2>3. Times(c, plan.copies) = 1
    <3>1. Times(plan.copies[i], plan.copies) = 1
      BY <1>2, <2>2, TimesOnce
    <3>2. QED
      BY <2>1, <3>1
  <2>4. Times(c, pending') = 1 /\ Times(c, (ItemCopies)') = 0
    BY <1>1, <1>3, <2>3, TimesEmpty
  <2>5. {a \in active' : a.copy = c} = {}
    BY <1>1
  <2>6. (ActiveOn(c))' = 0 /\ (Holds(c))' = 0
    BY <1>1, <2>5, FS_EmptySet DEF ActiveOn, Holds
  <2>7. QED
    BY <2>4, <2>6 DEF CopyCount
<1>5. ASSUME NEW l \in Lane PROVE (LaneCount(l) = 1)'
  <2>1. Times(l, free') = 1
    BY <1>1, EachLaneOnce
  <2>2. {a \in active' : a.lane = l} = {}
    BY <1>1
  <2>3. (ActiveAt(l))' = 0 /\ (Uses(l))' = 0
    BY <1>1, <2>2, FS_EmptySet DEF ActiveAt, Uses
  <2>4. QED
    BY <2>1, <2>3 DEF LaneCount
<1>6. QED
  BY <1>4, <1>5 DEF Balanced

LEMMA AskBalances ==
  ASSUME CommandTypes, Balanced, NEW h \in Handler, Ask(h)
  PROVE  Balanced'
<1>1. /\ stage = "submit" /\ asked = None /\ pending # <<>> /\ free # <<>>
      /\ asked' = [copy |-> Head(pending), lane |-> Head(free), by |-> h]
      /\ pending' = Tail(pending) /\ free' = Tail(free)
      /\ UNCHANGED <<plan, stage, active, items>>
  BY DEF Ask
<1>2. pending \in Seq(Copy) /\ free \in Seq(Lane)
  BY DEF CommandTypes
<1>3. asked'.copy = Head(pending) /\ asked'.lane = Head(free) /\ asked' # None
  <2>1. Head(pending) \in Copy /\ Head(free) \in Lane
    BY <1>1, <1>2, HeadTailProperties
  <2>2. asked' \in Submission
    BY <1>1, <2>1 DEF Submission
  <2>3. QED
    BY <1>1, <2>2, BatchAssumption DEF Submission
<1>4. ASSUME NEW c PROVE (CopyCount(c))' = CopyCount(c)
  <2>1. Times(c, pending) = Times(c, pending') + (IF Head(pending) = c THEN 1 ELSE 0)
    BY <1>1, <1>2, TimesTail
  <2>2. Holds(c) = 0 /\ (Holds(c))' = IF Head(pending) = c THEN 1 ELSE 0
    BY <1>1, <1>3 DEF Holds
  <2>3. (ItemCopies)' = ItemCopies /\ (ActiveOn(c))' = ActiveOn(c)
    BY <1>1 DEF ItemCopies, ActiveOn
  <2>4. Times(c, pending') \in Nat /\ Times(c, ItemCopies) \in Nat /\ ActiveOn(c) \in Nat
    <3>1. pending' \in Seq(Copy)
      BY <1>1, <1>2, HeadTailProperties
    <3>2. QED
      BY <3>1, TimesFinite, CountsAreNumbers
  <2>5. QED
    BY <2>1, <2>2, <2>3, <2>4 DEF CopyCount
<1>5. ASSUME NEW l PROVE (LaneCount(l))' = LaneCount(l)
  <2>1. Times(l, free) = Times(l, free') + (IF Head(free) = l THEN 1 ELSE 0)
    BY <1>1, <1>2, TimesTail
  <2>2. Uses(l) = 0 /\ (Uses(l))' = IF Head(free) = l THEN 1 ELSE 0
    BY <1>1, <1>3 DEF Uses
  <2>3. (ActiveAt(l))' = ActiveAt(l)
    BY <1>1 DEF ActiveAt
  <2>4. Times(l, free') \in Nat /\ ActiveAt(l) \in Nat
    <3>1. free' \in Seq(Lane)
      BY <1>1, <1>2, HeadTailProperties
    <3>2. QED
      BY <3>1, TimesFinite, CountsAreNumbers
  <2>5. QED
    BY <2>1, <2>2, <2>3, <2>4 DEF LaneCount
<1>6. QED
  BY <1>1, <1>4, <1>5 DEF Balanced, Running

LEMMA SubmittedBalances ==
  ASSUME ArchiveTypes, CommandTypes, Balanced, NEW h \in Handler, Submitted(h)
  PROVE  Balanced'
<1>0. UNCHANGED <<plan, stage, pending, free, items>>
  BY DEF Submitted
<1>1. CASE ~(asked # None /\ asked.by = h)
  <2>1. UNCHANGED <<active, asked>>
    BY <1>1 DEF Submitted
  <2>2. QED
    BY <1>0, <2>1 DEF Balanced, Running, CopyCount, LaneCount, ItemCopies, ActiveOn, ActiveAt, Holds, Uses
<1>2. CASE asked # None /\ asked.by = h /\ (Running \/ stage = "done")
  <2> DEFINE f == [copy |-> asked.copy, lane |-> asked.lane, job |-> calls[h].seen]
  <2>1. active' = active \cup {f} /\ asked' = None
    BY <1>2 DEF Submitted
  <2>2. f.copy = asked.copy /\ f.lane = asked.lane /\ asked.lane \in Lane
    BY <1>2 DEF CommandTypes, Submission
  <2> HIDE DEF f
  <2>3. f \notin active
    <3> SUFFICES ASSUME f \in active PROVE FALSE
      OBVIOUS
    <3> DEFINE l == asked.lane
               A == {a \in active : a.lane = l}
    <3>1. LaneCount(l) = 1 /\ Uses(l) = 1
      BY <1>2, <2>2 DEF Balanced, Uses
    <3>2. Times(l, free) \in Nat /\ ActiveAt(l) \in Nat /\ IsFiniteSet(A)
      BY CountsAreNumbers
    <3>3. ActiveAt(l) = 0
      BY <3>1, <3>2 DEF LaneCount
    <3>4. A = {}
      BY <3>2, <3>3, FS_EmptySet DEF ActiveAt
    <3>5. QED
      BY <2>2, <3>4
  <2>4. ASSUME NEW c PROVE (CopyCount(c))' = CopyCount(c)
    <3> DEFINE A == {a \in active : a.copy = c}
    <3>1. IsFiniteSet(A) /\ Cardinality(A) \in Nat /\ f \notin A /\ ActiveOn(c) = Cardinality(A)
      BY <2>3, CountsAreNumbers, FS_CardinalityType DEF ActiveOn
    <3>2. {a \in active' : a.copy = c} = IF asked.copy = c THEN A \cup {f} ELSE A
      BY <2>1, <2>2
    <3>3. Cardinality(A \cup {f}) = Cardinality(A) + 1
      BY <3>1, FS_AddElement
    <3> HIDE DEF A
    <3>4. Holds(c) = (IF asked.copy = c THEN 1 ELSE 0) /\ (Holds(c))' = 0
      BY <1>2, <2>1 DEF Holds
    <3>5. (ActiveOn(c))' = ActiveOn(c) + Holds(c)
      <4>1. CASE asked.copy = c
        BY <3>1, <3>2, <3>3, <3>4, <4>1 DEF ActiveOn
      <4>2. CASE asked.copy # c
        <5>1. (ActiveOn(c))' = Cardinality(A)
          BY <3>2, <4>2 DEF ActiveOn
        <5>2. Holds(c) = 0
          BY <3>4, <4>2
        <5>3. QED
          BY <3>1, <5>1, <5>2
      <4>3. QED
        BY <4>1, <4>2
    <3>6. (ItemCopies)' = ItemCopies
      BY <1>0 DEF ItemCopies
    <3>7. QED
      BY <1>0, <3>4, <3>5, <3>6, CountsAreNumbers DEF CopyCount
  <2>5. ASSUME NEW l PROVE (LaneCount(l))' = LaneCount(l)
    <3> DEFINE A == {a \in active : a.lane = l}
    <3>1. IsFiniteSet(A) /\ Cardinality(A) \in Nat /\ f \notin A /\ ActiveAt(l) = Cardinality(A)
      BY <2>3, CountsAreNumbers, FS_CardinalityType DEF ActiveAt
    <3>2. {a \in active' : a.lane = l} = IF asked.lane = l THEN A \cup {f} ELSE A
      BY <2>1, <2>2
    <3>3. Cardinality(A \cup {f}) = Cardinality(A) + 1
      BY <3>1, FS_AddElement
    <3> HIDE DEF A
    <3>4. Uses(l) = (IF asked.lane = l THEN 1 ELSE 0) /\ (Uses(l))' = 0
      BY <1>2, <2>1 DEF Uses
    <3>5. (ActiveAt(l))' = ActiveAt(l) + Uses(l)
      <4>1. CASE asked.lane = l
        BY <3>1, <3>2, <3>3, <3>4, <4>1 DEF ActiveAt
      <4>2. CASE asked.lane # l
        <5>1. (ActiveAt(l))' = Cardinality(A)
          BY <3>2, <4>2 DEF ActiveAt
        <5>2. Uses(l) = 0
          BY <3>4, <4>2
        <5>3. QED
          BY <3>1, <5>1, <5>2
      <4>3. QED
        BY <4>1, <4>2
    <3>6. QED
      BY <1>0, <3>4, <3>5, CountsAreNumbers DEF LaneCount
  <2>6. QED
    BY <1>0, <2>4, <2>5 DEF Balanced, Running
<1>3. CASE ~(Running \/ stage = "done")
  BY <1>0, <1>3 DEF Balanced, Running
<1>4. QED
  BY <1>1, <1>2, <1>3

\* A report adds the copy to the reported ones.
LEMMA ItemReported ==
  ASSUME CommandTypes, NEW copy \in Copy, NEW lane \in Lane,
         NEW state \in {"completed", "failed"}, items' = Append(items, Item(copy, lane, state))
  PROVE  \A c : Times(c, (ItemCopies)') = Times(c, ItemCopies) + (IF copy = c THEN 1 ELSE 0)
<1> DEFINE s == ItemCopies
           t == (ItemCopies)'
<1>1. s \in Seq(Copy) /\ Len(items) \in Nat /\ DOMAIN items = 1..Len(items) /\ Len(s) = Len(items)
  <2>1. s \in Seq(Copy)
    BY CountsAreNumbers
  <2>2. Len(items) \in Nat /\ DOMAIN items = 1..Len(items)
    BY DEF CommandTypes
  <2>3. DOMAIN s = 1..Len(items)
    BY <2>2 DEF ItemCopies
  <2>4. QED
    BY <2>1, <2>2, <2>3
<1>2. Len(t) = Len(s) + 1 /\ t \in Seq(Copy) /\ t = Append(s, copy)
  <2> DEFINE n == Len(items) + 1
             it == Item(copy, lane, state)
  <2>1. items \in Seq([copy : Copy, lane : Lane, state : {"completed", "failed"}])
    BY DEF CommandTypes
  <2>2. it \in [copy : Copy, lane : Lane, state : {"completed", "failed"}] /\ it.copy = copy
    BY DEF Item
  <2>3. items' = Append(items, it)
    OBVIOUS
  <2> HIDE DEF it
  <2>4. Len(items') = n /\ DOMAIN items' = 1..n /\ items'[n] = it /\ \A i \in 1..Len(items) : items'[i] = items[i]
    BY <2>1, <2>2, <2>3, AppendProperties
  <2>5. t = [i \in 1..n |-> items'[i].copy]
    BY <2>4 DEF ItemCopies
  <2>6. \A i \in 1..Len(items) : s[i] = items[i].copy
    BY <1>1 DEF ItemCopies
  <2> HIDE DEF s
  <2>7. \A i \in 1..n : items'[i].copy = IF i = n THEN copy ELSE s[i]
    BY <1>1, <2>2, <2>4, <2>6
  <2> HIDE DEF t
  <2>8. t = [i \in 1..n |-> IF i = n THEN copy ELSE s[i]]
    BY <2>5, <2>7
  <2>9. Append(s, copy) \in Seq(Copy) /\ Len(Append(s, copy)) = n
        /\ DOMAIN Append(s, copy) = 1..n /\ Append(s, copy)[n] = copy
        /\ \A i \in 1..Len(s) : Append(s, copy)[i] = s[i]
    BY <1>1, AppendProperties
  <2>10. \A i \in 1..n : Append(s, copy)[i] = IF i = n THEN copy ELSE s[i]
    BY <1>1, <2>9
  <2>11. t \in Seq(Copy) /\ Len(t) = n /\ \A i \in 1..n : t[i] = IF i = n THEN copy ELSE s[i]
    <3>1. n \in Nat /\ \A i \in 1..n : (IF i = n THEN copy ELSE s[i]) \in Copy
      BY <1>1
    <3>2. t \in [1..n -> Copy]
      BY <2>8, <3>1
    <3>3. QED
      BY <2>8, <3>1, <3>2
  <2>12. t = Append(s, copy)
    BY <2>9, <2>10, <2>11, SeqEqual
  <2>13. QED
    BY <1>1, <2>9, <2>12
<1> HIDE DEF s, t
<1>3. \A c : Times(c, t) = Times(c, s) + (IF copy = c THEN 1 ELSE 0)
  BY <1>1, <1>2, TimesAppend
<1>4. QED
  BY <1>3 DEF s, t

LEMMA SubmitFailsBalances ==
  ASSUME CommandTypes, Balanced, SubmitFails
  PROVE  Balanced'
<1>0. UNCHANGED <<plan, stage, active>> /\ asked' = None /\ items \in Seq([copy : Copy, lane : Lane, state : {"completed", "failed"}])
  BY DEF SubmitFails, CommandTypes
<1>1. pending \in Seq(Copy) /\ free \in Seq(Lane)
  BY DEF CommandTypes
<1>2. \A x : (ActiveOn(x))' = ActiveOn(x) /\ (ActiveAt(x))' = ActiveAt(x) /\ (Holds(x))' = 0 /\ (Uses(x))' = 0
  BY <1>0 DEF ActiveOn, ActiveAt, Holds, Uses
<1>3. CASE /\ asked # None /\ items' = Append(items, Item(asked.copy, asked.lane, "failed"))
           /\ free' = GiveBack(asked.lane) /\ pending' = pending
  <2> DEFINE p == asked.copy
             k == asked.lane
  <2>1. p \in Copy /\ k \in Lane
    BY <1>3 DEF CommandTypes, Submission
  <2>2. \A c : Holds(c) = IF p = c THEN 1 ELSE 0
    BY <1>3 DEF Holds
  <2>3. \A l : Uses(l) = IF k = l THEN 1 ELSE 0
    BY <1>3 DEF Uses
  <2>4. items' = Append(items, Item(p, k, "failed")) /\ free' = Append(free, k) /\ pending' = pending
    BY <1>3 DEF GiveBack
  <2> HIDE DEF p, k
  <2>5. \A c : Times(c, (ItemCopies)') = Times(c, ItemCopies) + Holds(c)
    BY <2>1, <2>2, <2>4, ItemReported
  <2>6. \A l : Times(l, free') = Times(l, free) + Uses(l)
    BY <1>1, <2>1, <2>3, <2>4, TimesAppend
  <2>7. \A c : (CopyCount(c))' = CopyCount(c)
    BY <1>2, <2>4, <2>5, CountsAreNumbers DEF CopyCount
  <2>8. \A l : (LaneCount(l))' = LaneCount(l)
    BY <1>2, <2>6, CountsAreNumbers DEF LaneCount
  <2>9. QED
    BY <1>0, <2>7, <2>8 DEF Balanced, Running
<1>4. CASE /\ asked = None /\ pending # <<>> /\ free # <<>>
           /\ items' = Append(items, Item(Head(pending), Head(free), "failed"))
           /\ pending' = Tail(pending) /\ free' = Append(Tail(free), Head(free))
  <2> DEFINE p == Head(pending)
             k == Head(free)
             OnCopy(c) == IF p = c THEN 1 ELSE 0
             OnLane(l) == IF k = l THEN 1 ELSE 0
  <2>1. p \in Copy /\ k \in Lane /\ pending' \in Seq(Copy) /\ Tail(free) \in Seq(Lane)
    BY <1>1, <1>4, HeadTailProperties
  <2>2. \A x : Holds(x) = 0 /\ Uses(x) = 0
    BY <1>4 DEF Holds, Uses
  <2>3. items' = Append(items, Item(p, k, "failed")) /\ free' = Append(Tail(free), k)
    BY <1>4
  <2>4. \A c : Times(c, pending) = Times(c, pending') + OnCopy(c)
    BY <1>1, <1>4, TimesTail
  <2>5. \A l : Times(l, free) = Times(l, Tail(free)) + OnLane(l)
    BY <1>1, <1>4, TimesTail
  <2>6. \A x : OnCopy(x) \in Nat /\ OnLane(x) \in Nat
    OBVIOUS
  <2> HIDE DEF p, k
  <2>7. \A c : Times(c, (ItemCopies)') = Times(c, ItemCopies) + OnCopy(c)
    BY <2>1, <2>3, ItemReported
  <2>8. \A l : Times(l, free') = Times(l, Tail(free)) + OnLane(l)
    BY <2>1, <2>3, TimesAppend
  <2>9. \A x : Times(x, pending') \in Nat /\ Times(x, Tail(free)) \in Nat
    BY <2>1, TimesFinite
  <2> HIDE DEF OnCopy, OnLane
  <2>10. \A c : (CopyCount(c))' = CopyCount(c)
    BY <1>2, <2>2, <2>4, <2>6, <2>7, <2>9, CountsAreNumbers DEF CopyCount
  <2>11. \A l : (LaneCount(l))' = LaneCount(l)
    BY <1>2, <2>2, <2>5, <2>6, <2>8, <2>9, CountsAreNumbers DEF LaneCount
  <2>12. QED
    BY <1>0, <2>10, <2>11 DEF Balanced, Running
<1>5. QED
  BY <1>3, <1>4 DEF SubmitFails

LEMMA PollBalances ==
  ASSUME CommandTypes, Balanced, NEW j, Poll(j)
  PROVE  Balanced'
<1>0. UNCHANGED <<plan, stage, pending, asked>>
  BY DEF Poll
<1>1. CASE UNCHANGED <<active, items, free>>
  BY <1>0, <1>1 DEF Balanced, Running, CopyCount, LaneCount, ItemCopies, ActiveOn, ActiveAt, Holds, Uses
<1>2. ASSUME NEW a \in active, NEW state \in {"completed", "failed"}, items' = Append(items, Item(a.copy, a.lane, state)),
             active' = active \ {a}, free' = Append(free, a.lane)
      PROVE  Balanced'
  <2> DEFINE p == a.copy
             k == a.lane
             OnCopy(c) == IF p = c THEN 1 ELSE 0
             OnLane(l) == IF k = l THEN 1 ELSE 0
  <2>1. p \in Copy /\ k \in Lane /\ free \in Seq(Lane)
    BY DEF CommandTypes, Flight
  <2>2. items' = Append(items, Item(p, k, state)) /\ free' = Append(free, k)
    BY <1>2
  <2>3. \A x : OnCopy(x) \in Nat /\ OnLane(x) \in Nat
    OBVIOUS
  <2>4. ASSUME NEW c PROVE ActiveOn(c) = (ActiveOn(c))' + OnCopy(c) /\ (ActiveOn(c))' \in Nat
    <3> DEFINE A == {b \in active : b.copy = c}
    <3>1. IsFiniteSet(A) /\ Cardinality(A) \in Nat /\ ActiveOn(c) = Cardinality(A)
      BY CountsAreNumbers, FS_CardinalityType DEF ActiveOn
    <3>2. {b \in active' : b.copy = c} = A \ {a}
      BY <1>2
    <3>3. (ActiveOn(c))' = Cardinality(A \ {a})
      BY <3>2 DEF ActiveOn
    <3>4. p = c <=> a \in A
      OBVIOUS
    <3> HIDE DEF A, p
    <3>5. CASE a \in A
      <4>1. Cardinality(A \ {a}) = Cardinality(A) - 1
        BY <3>1, <3>5, FS_RemoveElement
      <4>2. OnCopy(c) = 1 /\ IsFiniteSet(A \ {a}) /\ Cardinality(A \ {a}) \in Nat
        BY <3>1, <3>4, <3>5, FS_Subset, FS_CardinalityType
      <4> HIDE DEF OnCopy
      <4>3. QED
        BY <3>1, <3>3, <4>1, <4>2
    <3>6. CASE a \notin A
      <4>1. A \ {a} = A /\ OnCopy(c) = 0
        BY <3>4, <3>6
      <4> HIDE DEF OnCopy
      <4>2. QED
        BY <3>1, <3>3, <4>1
    <3>7. QED
      BY <3>5, <3>6
  <2>5. ASSUME NEW l PROVE ActiveAt(l) = (ActiveAt(l))' + OnLane(l) /\ (ActiveAt(l))' \in Nat
    <3> DEFINE A == {b \in active : b.lane = l}
    <3>1. IsFiniteSet(A) /\ Cardinality(A) \in Nat /\ ActiveAt(l) = Cardinality(A)
      BY CountsAreNumbers, FS_CardinalityType DEF ActiveAt
    <3>2. {b \in active' : b.lane = l} = A \ {a}
      BY <1>2
    <3>3. (ActiveAt(l))' = Cardinality(A \ {a})
      BY <3>2 DEF ActiveAt
    <3>4. k = l <=> a \in A
      OBVIOUS
    <3> HIDE DEF A, k
    <3>5. CASE a \in A
      <4>1. Cardinality(A \ {a}) = Cardinality(A) - 1
        BY <3>1, <3>5, FS_RemoveElement
      <4>2. OnLane(l) = 1 /\ IsFiniteSet(A \ {a}) /\ Cardinality(A \ {a}) \in Nat
        BY <3>1, <3>4, <3>5, FS_Subset, FS_CardinalityType
      <4> HIDE DEF OnLane
      <4>3. QED
        BY <3>1, <3>3, <4>1, <4>2
    <3>6. CASE a \notin A
      <4>1. A \ {a} = A /\ OnLane(l) = 0
        BY <3>4, <3>6
      <4> HIDE DEF OnLane
      <4>2. QED
        BY <3>1, <3>3, <4>1
    <3>7. QED
      BY <3>5, <3>6
  <2> HIDE DEF p, k
  <2>6. \A c : Times(c, (ItemCopies)') = Times(c, ItemCopies) + OnCopy(c)
    BY <2>1, <2>2, ItemReported
  <2>7. \A l : Times(l, free') = Times(l, free) + OnLane(l)
    BY <2>1, <2>2, TimesAppend
  <2>8. \A x : (Holds(x))' = Holds(x) /\ (Uses(x))' = Uses(x)
    BY <1>0 DEF Holds, Uses
  <2> HIDE DEF OnCopy, OnLane
  <2>9. \A c : (CopyCount(c))' = CopyCount(c)
    BY <1>0, <2>3, <2>4, <2>6, <2>8, CountsAreNumbers DEF CopyCount
  <2>10. \A l : (LaneCount(l))' = LaneCount(l)
    BY <1>0, <2>3, <2>5, <2>7, <2>8, CountsAreNumbers DEF LaneCount
  <2>11. QED
    BY <1>0, <2>9, <2>10 DEF Balanced, Running
<1>3. QED
  <2> DEFINE a == CHOOSE a \in active : a.job = j
             review == [review |-> jobs[j].review, text |-> jobs[j].text]
             written == jobs[j].state = "completed" /\ MayWrite(output[a.copy], review)
             state == IF written THEN "completed" ELSE "failed"
  <2>1. CASE ~Unanswered(j)
    <3>1. a \in active
      <4>1. j \in round
        <5>1. round # {} /\ j = Min(round)
          BY DEF Poll
        <5>2. round \subseteq Review
          BY DEF CommandTypes, Flight
        <5>3. QED
          BY <5>1, <5>2, MinOfReviews
      <4>2. PICK b \in active : b.job = j
        BY <4>1 DEF CommandTypes
      <4>3. QED
        BY <4>2
    <3>2. state \in {"completed", "failed"}
      OBVIOUS
    <3>3. items' = Append(items, Item(a.copy, a.lane, state)) /\ active' = active \ {a} /\ free' = Append(free, a.lane)
      BY <2>1 DEF Poll
    <3> HIDE DEF a, state
    <3>4. QED
      BY <1>2, <3>1, <3>2, <3>3
  <2>2. CASE Unanswered(j)
    <3>1. UNCHANGED <<active, items, free>>
      BY <2>2 DEF Poll
    <3>2. QED
      BY <1>1, <3>1
  <2>3. QED
    BY <2>1, <2>2

LEMMA BalanceStep ==
  ASSUME TopperTypes, Balanced, [TopperNext]_topperVars
  PROVE  Balanced'
<1> ArchiveTypes /\ CommandTypes
  BY DEF TopperTypes
<1>1. CASE UNCHANGED <<plan, pending, free, items, active>> /\ asked' = asked /\ stage' = stage
  BY <1>1 DEF Balanced, Running, CopyCount, LaneCount, ItemCopies, ActiveOn, ActiveAt, Holds, Uses
<1>2. CASE UNCHANGED <<plan, pending, free, items, active>> /\ asked' = asked /\ Running
  BY <1>2 DEF Balanced, Running, CopyCount, LaneCount, ItemCopies, ActiveOn, ActiveAt, Holds, Uses
<1>3. CASE Begin
  BY <1>3, BeginBalances
<1>4. CASE SubmitFails
  BY <1>4, SubmitFailsBalances
<1>5. CASE Wait \/ Tick \/ EndRound \/ Expire
  BY <1>2, <1>5 DEF Wait, Tick, EndRound, Expire, Running
<1>6. CASE TimeOut \/ Kill
  <2>1. stage' \in {"timed out", "killed"}
    BY <1>6 DEF TimeOut, Kill
  <2>2. QED
    BY <2>1 DEF Balanced, Running
<1>7. ASSUME NEW h \in Handler, Ask(h) \/ Submitted(h) PROVE Balanced'
  BY <1>7, AskBalances, SubmittedBalances
<1>8. ASSUME NEW j \in DOMAIN jobs, Poll(j) PROVE Balanced'
  BY <1>8, PollBalances
<1>9. CASE ArchiveNext /\ UNCHANGED commandVars
  BY <1>1, <1>9 DEF commandVars
<1>10. CASE UNCHANGED topperVars
  BY <1>1, <1>10 DEF topperVars, commandVars
<1>11. QED
  BY <1>3, <1>4, <1>5, <1>6, <1>7, <1>8, <1>9, <1>10 DEF TopperNext, CommandNext

\* However submissions and polls fail, and whatever runs of the command were
\* killed or timed out before, every copy of the manifest is waiting, in flight
\* or reported, each once, and every lane is free or in the hands of one copy.
THEOREM NothingEverDropped == TopperSpec => []NothingDropped
<1>1. TopperInit => Balanced
  BY DEF TopperInit, Balanced, Running
<1>2. TopperTypes /\ Balanced /\ [TopperNext]_topperVars => Balanced'
  BY BalanceStep
<1>3. TopperTypes /\ Balanced => NothingDropped
  BY BalancedMeansNothingDropped DEF TopperTypes
<1>4. QED
  BY <1>1, <1>2, <1>3, TopperTypesHold, PTL DEF TopperSpec
-----------------------------------------------------------------------------
(* The reviews that an analysis should find again are still in reach of it. *)

Ready(r, rs) == rs[r] # None /\ rs[r].status = "ready"
Found(r, rs, fs) == fs[r] # None \/ Ready(r, rs)
Made(r, js) == \E j \in DOMAIN js : js[j].listed /\ js[j].state = "completed" /\ js[j].review = r

\* Where the request is when it comes by the review: in a job's output before
\* the jobs were listed, among the outputs still to be saved before its turn,
\* in a file before that file's turn, and then in the row.
InReach(c, r, rs, fs, js) ==
  /\ js[r].copy = c.about
  /\ c.at = "jobs" => Found(r, rs, fs) \/ Made(r, js)
  /\ c.at = "outputs" => Found(r, rs, fs) \/ \E j \in c.todo : js[j].review = r
  /\ c.at = "files" => Ready(r, rs) \/ (fs[r] # None /\ r \in c.todo)
OwedInReach ==
  \A h \in Handler : calls[h] # None /\ calls[h].kind = "analyze" =>
    \A r \in calls[h].owed : InReach(calls[h], r, rows, files, jobs)

\* A step that leaves a review where it is found.
Untouched(r) ==
  /\ Ready(r, rows) => Ready(r, rows')
  /\ files[r] # None => files'[r] # None
  /\ Found(r, rows, files) \/ (Made(r, jobs) => Made(r, jobs'))

LEMMA ReachKept ==
  ASSUME NEW c, NEW d, NEW r, r \in DOMAIN jobs, c.todo \subseteq DOMAIN jobs, Grows(jobs, jobs'),
         Eased(c, d), Untouched(r),
         InReach(c, r, rows, files, jobs)
  PROVE  InReach(d, r, rows', files', jobs')
BY DEF Grows, Eased, Untouched, InReach, Found

\* One request goes on and the others' reviews are untouched.
LEMMA OthersReach ==
  ASSUME ArchiveTypes, OwedInReach, Grows(jobs, jobs'), NEW h,
         \A g \in Handler \ {h} : calls'[g] # None => calls[g] # None /\ Eased(calls[g], calls'[g]),
         \A g \in Handler \ {h} : calls'[g] # None /\ calls'[g].kind = "analyze" =>
           \A r \in calls'[g].owed : Untouched(r),
         h \in Handler /\ calls'[h] # None /\ calls'[h].kind = "analyze" =>
           \A r \in calls'[h].owed : InReach(calls'[h], r, rows', files', jobs')
  PROVE  OwedInReach'
<1> SUFFICES ASSUME NEW g \in Handler, calls'[g] # None, calls'[g].kind = "analyze", NEW r \in calls'[g].owed
             PROVE  InReach(calls'[g], r, rows', files', jobs')
  BY DEF OwedInReach
<1>1. CASE g = h
  BY <1>1
<1>2. CASE g # h
  <2>1. calls[g] # None /\ Eased(calls[g], calls'[g]) /\ Untouched(r)
    BY <1>2
  <2>2. calls[g].kind = "analyze" /\ r \in calls[g].owed
    BY <2>1 DEF Eased
  <2>3. r \in DOMAIN jobs /\ calls[g].todo \subseteq DOMAIN jobs
    BY <2>1, <2>2, ArchiveBasics DEF RequestFits
  <2>4. InReach(calls[g], r, rows, files, jobs)
    BY <2>1, <2>2 DEF OwedInReach
  <2>5. QED
    BY <2>1, <2>3, <2>4, ReachKept
<1>3. QED
  BY <1>1, <1>2

\* Jobs whose outputs were there go on having them.
LEMMA MadeKept ==
  ASSUME ArchiveTypes, NEW r, DOMAIN jobs \subseteq DOMAIN jobs',
         \A j \in DOMAIN jobs : jobs[j].state = "completed" /\ jobs[j].review = r =>
           jobs'[j].state = "completed" /\ jobs'[j].review = r /\ jobs'[j].listed = jobs[j].listed
  PROVE  Made(r, jobs) => Made(r, jobs')
BY DEF Made

\* A step that only serves a request: nothing is found elsewhere.
LEMMA NothingMoved ==
  ASSUME ArchiveTypes, NEW r \in Review, UNCHANGED <<files, jobs>>, Ready(r, rows) => Ready(r, rows')
  PROVE  Untouched(r)
BY DEF Untouched

LEMMA NoRequestMoves ==
  ASSUME ArchiveTypes, calls' = calls
  PROVE  \A g \in Handler : calls'[g] # None => calls[g] # None /\ Eased(calls[g], calls'[g])
BY ArchiveBasics DEF Eased

LEMMA OthersGoOn ==
  ASSUME ArchiveTypes, NEW h, OthersEased(h)
  PROVE  \A g \in Handler \ {h} : calls'[g] # None => calls[g] # None /\ Eased(calls[g], calls'[g])
BY DEF OthersEased

LEMMA OwedAreReviews ==
  ASSUME ArchiveTypes
  PROVE  \A g \in Handler : calls[g] # None => calls[g].owed \subseteq DOMAIN jobs /\ calls[g].owed \subseteq Review
BY ArchiveBasics DEF RequestFits, Request

LEMMA OwedReviewsStay ==
  ASSUME ArchiveTypes, NEW g \in Handler, calls[g] # None, NEW d, Eased(calls[g], d)
  PROVE  \A r \in d.owed : r \in Review /\ r \in DOMAIN jobs /\ r \in calls[g].owed
BY OwedAreReviews DEF Eased

LEMMA ServedStepReach ==
  ASSUME ArchiveTypes, OwedInReach, NEW h \in Handler, Served(h)
  PROVE  OwedInReach'
<1> Grows(jobs, jobs)
  BY JobsStay
<1>1. ASSUME UNCHANGED <<files, jobs>>, OthersEased(h),
             \A g \in Handler \ {h} : calls'[g] # None /\ calls'[g].kind = "analyze" =>
               \A r \in calls'[g].owed : Ready(r, rows) => Ready(r, rows'),
             calls'[h] # None /\ calls'[h].kind = "analyze" =>
               \A r \in calls'[h].owed : InReach(calls'[h], r, rows', files', jobs')
      PROVE  OwedInReach'
  <2>1. \A g \in Handler \ {h} : calls'[g] # None /\ calls'[g].kind = "analyze" => \A r \in calls'[g].owed : Untouched(r)
    BY <1>1, NothingMoved, OwedReviewsStay DEF OthersEased
  <2>2. \A g \in Handler \ {h} : calls'[g] # None => calls[g] # None /\ Eased(calls[g], calls'[g])
    BY <1>1, OthersGoOn
  <2>3. Grows(jobs, jobs')
    BY <1>1, JobsStay
  <2>4. QED
    BY <1>1, <2>1, <2>2, <2>3, OthersReach
<1>2. CASE List(h)
  <2>1. UNCHANGED <<rows, files, jobs>>
    BY <1>2 DEF List
  <2>2. OthersEased(h) /\ calls'[h].kind = "list"
    BY <1>2, ListStep DEF Fresh
  <2>3. QED
    BY <1>1, <2>1, <2>2
<1>3. CASE ListJobs(h)
  <2>1. UNCHANGED <<rows, files, jobs>>
    BY <1>3 DEF ListJobs
  <2>2. /\ OthersEased(h) /\ calls[h] # None /\ calls[h].at = "jobs"
        /\ calls'[h].kind = calls[h].kind /\ calls'[h].about = calls[h].about
        /\ calls'[h].at = "outputs" /\ calls'[h].owed = calls[h].owed /\ calls'[h].todo = Outputs
    BY <1>3, ListJobsStep
  <2>3. ASSUME calls'[h].kind = "analyze", NEW r \in calls'[h].owed PROVE InReach(calls'[h], r, rows', files', jobs')
    <3>1. InReach(calls[h], r, rows, files, jobs)
      BY <2>2, <2>3 DEF OwedInReach
    <3>2. Made(r, jobs) => \E j \in calls'[h].todo : jobs[j].review = r
      BY <2>2 DEF Made, Outputs, Output
    <3>3. QED
      BY <2>1, <2>2, <3>1, <3>2 DEF InReach
  <2>4. QED
    BY <1>1, <2>1, <2>2, <2>3
<1>4. CASE BackfillJob(h)
  <2> DEFINE m == Max(calls[h].todo)
  <2>1. UNCHANGED <<files, jobs>>
    BY <1>4 DEF BackfillJob
  <2>2. /\ OthersEased(h) /\ calls[h] # None /\ calls[h].at = "outputs"
        /\ calls'[h].kind = calls[h].kind /\ calls'[h].about = calls[h].about
        /\ calls'[h].at = "outputs" /\ calls'[h].owed = calls[h].owed
        /\ calls'[h].todo = calls[h].todo \ {m}
        /\ \A r \in Review : IF r = jobs[m].review THEN rows'[r] # None /\ rows'[r].status = "ready"
                             ELSE rows'[r] = rows[r]
    BY <1>4, BackfillJobStep
  <2>3. \A r \in Review : (Ready(r, rows) => Ready(r, rows')) /\ (r = jobs[m].review => Ready(r, rows'))
    BY <2>2 DEF Ready
  <2>4. ASSUME calls'[h].kind = "analyze", NEW r \in calls'[h].owed PROVE InReach(calls'[h], r, rows', files', jobs')
    <3>1. InReach(calls[h], r, rows, files, jobs) /\ r \in Review
      BY <2>2, <2>4, OwedAreReviews DEF OwedInReach
    <3>2. QED
      BY <2>1, <2>2, <2>3, <3>1 DEF InReach, Found
  <2>5. \A g \in Handler \ {h} : calls'[g] # None => calls'[g].owed \subseteq Review
    BY <2>2, OwedReviewsStay DEF OthersEased
  <2>6. QED
    BY <1>1, <2>1, <2>2, <2>3, <2>4, <2>5
<1>15. CASE ListFiles(h)
  <2>1. UNCHANGED <<rows, files, jobs>>
    BY <1>15 DEF ListFiles
  <2>2. /\ OthersEased(h) /\ calls[h] # None /\ calls[h].at = "outputs" /\ calls[h].todo = {}
        /\ calls'[h].kind = calls[h].kind /\ calls'[h].about = calls[h].about
        /\ calls'[h].at = "files" /\ calls'[h].owed = calls[h].owed
        /\ calls'[h].todo = {r \in Review : files[r] # None}
    BY <1>15, ListFilesStep
  <2>3. ASSUME calls'[h].kind = "analyze", NEW r \in calls'[h].owed PROVE InReach(calls'[h], r, rows', files', jobs')
    <3>1. InReach(calls[h], r, rows, files, jobs) /\ r \in Review
      BY <2>2, <2>3, OwedAreReviews DEF OwedInReach
    <3>2. QED
      BY <2>1, <2>2, <3>1 DEF InReach, Found
  <2>4. QED
    BY <1>1, <2>1, <2>2, <2>3
<1>5. CASE ReadFile(h)
  <2>1. UNCHANGED <<rows, files, jobs>>
    BY <1>5 DEF ReadFile
  <2>2. /\ OthersEased(h) /\ calls[h] # None /\ calls[h].at = "files"
        /\ calls'[h].kind = calls[h].kind /\ calls'[h].about = calls[h].about
        /\ calls'[h].at = "files" /\ calls'[h].owed = calls[h].owed
        /\ calls'[h].todo = IF files[Min(calls[h].todo)] = None THEN calls[h].todo \ {Min(calls[h].todo)} ELSE calls[h].todo
    BY <1>5, ReadFileStep
  <2>3. ASSUME calls'[h].kind = "analyze", NEW r \in calls'[h].owed PROVE InReach(calls'[h], r, rows', files', jobs')
    <3>1. InReach(calls[h], r, rows, files, jobs)
      BY <2>2, <2>3 DEF OwedInReach
    <3>2. files[r] # None /\ r \in calls[h].todo => r \in calls'[h].todo
      BY <2>2
    <3>3. QED
      BY <2>1, <2>2, <3>1, <3>2 DEF InReach
  <2>4. QED
    BY <1>1, <2>1, <2>2, <2>3
<1>6. CASE BackfillFile(h)
  <2>1. UNCHANGED <<files, jobs>>
    BY <1>6 DEF BackfillFile
  <2>2. /\ OthersEased(h) /\ calls[h] # None /\ calls[h].at = "files"
        /\ calls'[h].kind = calls[h].kind /\ calls'[h].about = calls[h].about
        /\ calls'[h].at = "files" /\ calls'[h].owed = calls[h].owed
        /\ calls'[h].todo = calls[h].todo \ {Min(calls[h].todo)}
        /\ \A r \in Review : IF r = Min(calls[h].todo)
                             THEN rows'[r] # None /\ rows'[r].status = "ready" /\ rows'[r].text = calls[h].seen
                             ELSE rows'[r] = rows[r]
    BY <1>6, BackfillFileStep
  <2>3. \A r \in Review : (Ready(r, rows) => Ready(r, rows')) /\ (r = Min(calls[h].todo) => Ready(r, rows'))
    BY <2>2 DEF Ready
  <2>4. ASSUME calls'[h].kind = "analyze", NEW r \in calls'[h].owed PROVE InReach(calls'[h], r, rows', files', jobs')
    <3>1. InReach(calls[h], r, rows, files, jobs) /\ r \in Review
      BY <2>2, <2>4, OwedAreReviews DEF OwedInReach
    <3>2. QED
      BY <2>1, <2>2, <2>3, <3>1 DEF InReach
  <2>5. \A g \in Handler \ {h} : calls'[g] # None => calls'[g].owed \subseteq Review
    BY <2>2, OwedReviewsStay DEF OthersEased
  <2>6. QED
    BY <1>1, <2>1, <2>2, <2>3, <2>4, <2>5
<1>7. CASE Shown(h)
  <2>1. UNCHANGED <<rows, files, jobs>> /\ calls' = [calls EXCEPT ![h] = None]
    BY <1>7 DEF Shown
  <2>2. OthersEased(h) /\ calls'[h] = None
    BY <2>1, Answered
  <2>3. QED
    BY <1>1, <2>1, <2>2
<1>8. CASE StartAnalyze(h)
  <2>1. UNCHANGED <<rows, files>>
    BY <1>8 DEF StartAnalyze
  <2>2. /\ OthersEased(h) /\ Grows(jobs, jobs') /\ calls[h] # None /\ calls[h].at = "files" /\ calls[h].kind = "analyze"
        /\ calls'[h].at = "answer" /\ calls'[h].owed = calls[h].owed /\ calls'[h].about = calls[h].about
        /\ DOMAIN jobs' = DOMAIN jobs \cup {Len(jobs) + 1} /\ \A j \in DOMAIN jobs : jobs'[j] = jobs[j]
    BY <1>8, StartAnalyzeStep
  <2>3. \A r \in Review : Untouched(r)
    BY <2>1, <2>2, MadeKept DEF Untouched
  <2>4. \A g \in Handler \ {h} : calls'[g] # None => calls'[g].owed \subseteq Review
    BY <2>2, OwedReviewsStay DEF OthersEased
  <2>5. ASSUME NEW r \in calls'[h].owed PROVE InReach(calls'[h], r, rows', files', jobs')
    <3>1. InReach(calls[h], r, rows, files, jobs) /\ r \in DOMAIN jobs
      BY <2>2, <2>5, OwedAreReviews DEF OwedInReach
    <3>2. QED
      BY <2>2, <3>1 DEF InReach
  <2>6. \A g \in Handler \ {h} : calls'[g] # None => calls[g] # None /\ Eased(calls[g], calls'[g])
    BY <2>2, OthersGoOn
  <2>7. QED
    BY <2>2, <2>3, <2>4, <2>5, <2>6, OthersReach
<1>9. CASE SaveEdit(h)
  <2>1. UNCHANGED <<files, jobs>>
    BY <1>9 DEF SaveEdit
  <2>2. /\ OthersEased(h) /\ calls'[h].kind = "edit"
        /\ \A r \in Review : r # calls[h].about => rows'[r] = rows[r]
        /\ \A g \in Handler \ {h} : calls[g] # None /\ calls[g].kind = "analyze" => calls[h].about \notin calls'[g].owed
    BY <1>9, SaveEditStep
  <2>3. ASSUME NEW g \in Handler \ {h}, calls'[g] # None, calls'[g].kind = "analyze", NEW r \in calls'[g].owed, Ready(r, rows)
        PROVE  Ready(r, rows')
    <3>1. calls[g] # None /\ Eased(calls[g], calls'[g])
      BY <2>2, <2>3 DEF OthersEased
    <3>2. r \in Review /\ calls[g].kind = "analyze"
      BY <2>3, <3>1, OwedReviewsStay DEF Eased
    <3>3. r # calls[h].about
      BY <2>2, <3>1, <3>2
    <3>4. QED
      BY <2>2, <2>3, <3>2, <3>3 DEF Ready
  <2>4. QED
    BY <1>1, <2>1, <2>2, <2>3
<1>10. CASE SyncEdit(h)
  <2>1. UNCHANGED <<rows, jobs>>
    BY <1>10 DEF SyncEdit
  <2>2. /\ OthersEased(h) /\ calls'[h] = None
        /\ \A r \in Review : files[r] # None => files'[r] # None
    BY <1>10, SyncEditStep
  <2>3. \A r \in Review : Untouched(r)
    BY <2>1, <2>2 DEF Untouched
  <2>4. \A g \in Handler \ {h} : calls'[g] # None => calls'[g].owed \subseteq Review
    BY <2>2, OwedReviewsStay DEF OthersEased
  <2>5. \A g \in Handler \ {h} : calls'[g] # None => calls[g] # None /\ Eased(calls[g], calls'[g])
    BY <2>2, OthersGoOn
  <2>6. QED
    BY <2>1, <2>2, <2>3, <2>4, <2>5, OthersReach
<1>11. CASE DeleteRow(h)
  <2>1. UNCHANGED <<files, jobs>>
    BY <1>11 DEF DeleteRow
  <2>2. /\ OthersEased(h) /\ calls'[h].kind = "delete"
        /\ \A g \in Handler \ {h} : calls[g] # None => calls[h].about \notin calls'[g].owed
        /\ \A q \in Review \ {calls[h].about} : rows'[q] = rows[q]
    BY <1>11, DeleteRowStep
  <2>3. \A g \in Handler \ {h} : calls'[g] # None => calls[g] # None /\ calls'[g].owed \subseteq Review
    BY <2>2, OwedReviewsStay DEF OthersEased
  <2>4. QED
    BY <1>1, <2>1, <2>2, <2>3 DEF Ready
<1>12. CASE DeleteItsJob(h)
  <2>1. UNCHANGED <<rows, files>>
    BY <1>12 DEF DeleteItsJob
  <2>2. /\ OthersEased(h) /\ Grows(jobs, jobs') /\ DOMAIN jobs' = DOMAIN jobs /\ calls'[h] = None
        /\ \A g \in Handler \ {h} : calls[g] # None => calls[h].about \notin calls'[g].owed
        /\ \A j \in DOMAIN jobs : jobs[j].review # calls[h].about => jobs'[j] = jobs[j]
    BY <1>12, DeleteItsJobStep
  <2>3. \A r \in Review \ {calls[h].about} : Untouched(r)
    BY <2>1, <2>2, MadeKept DEF Untouched
  <2>4. \A g \in Handler \ {h} : calls'[g] # None => calls[g] # None /\ calls'[g].owed \subseteq Review /\ Eased(calls[g], calls'[g])
    BY <2>2, OwedReviewsStay DEF OthersEased
  <2>5. QED
    BY <2>2, <2>3, <2>4, OthersReach
<1>13. ASSUME NEW r \in Review, ReadForEdit(h, r) PROVE OwedInReach'
  <2>1. UNCHANGED <<rows, files, jobs>>
    BY <1>13 DEF ReadForEdit
  <2>2. OthersEased(h) /\ calls'[h].kind = "edit"
    BY <1>13, ReadForEditStep
  <2>3. QED
    BY <1>1, <2>1, <2>2
<1>14. ASSUME NEW r \in Review, ReadForDelete(h, r) PROVE OwedInReach'
  <2>1. UNCHANGED <<rows, jobs>>
    BY <1>14 DEF ReadForDelete
  <2>2. /\ OthersEased(h) /\ calls'[h].kind = "delete"
        /\ \A g \in Handler \ {h} : calls[g] # None => r \notin calls'[g].owed
        /\ \A q \in Review \ {r} : files'[q] = files[q]
    BY <1>14, ReadForDeleteStep
  <2>3. \A q \in Review \ {r} : Untouched(q)
    BY <2>1, <2>2 DEF Untouched
  <2>4. \A g \in Handler \ {h} : calls'[g] # None => calls[g] # None /\ calls'[g].owed \subseteq Review /\ Eased(calls[g], calls'[g])
    BY <2>2, OwedReviewsStay DEF OthersEased
  <2>5. Grows(jobs, jobs')
    BY <2>1
  <2>6. QED
    BY <2>2, <2>3, <2>4, <2>5, OthersReach
<1>16. QED
  BY <1>2, <1>3, <1>4, <1>5, <1>6, <1>7, <1>8, <1>9, <1>10, <1>11, <1>12, <1>13, <1>14, <1>15 DEF Served

LEMMA ArchiveStepReach ==
  ASSUME ArchiveTypes, OwedInReach, ArchiveNext
  PROVE  OwedInReach'
<1>1. ASSUME NEW h \in Handler, Served(h) PROVE OwedInReach'
  BY <1>1, ServedStepReach
<1>2. ASSUME Grows(jobs, jobs'), \A r \in Review : Untouched(r),
             \A g \in Handler : calls'[g] # None => calls[g] # None /\ Eased(calls[g], calls'[g])
      PROVE  OwedInReach'
  <2>1. \A g \in Handler : calls'[g] # None => calls'[g].owed \subseteq Review
    BY <1>2, OwedReviewsStay
  <2>2. PICK h : h \notin Handler
    BY NoSetContainsEverything
  <2>3. QED
    BY <1>2, <2>1, <2>2, OthersReach
<1>3. ASSUME NEW j \in DOMAIN jobs, RerunReads(j) \/ SaveRow(j) \/ SaveFile(j) \/ Complete(j) PROVE OwedInReach'
  <2>1. calls' = calls
    BY <1>3 DEF RerunReads, SaveRow, SaveFile, Complete
  <2>2. /\ Grows(jobs, jobs') /\ DOMAIN jobs' = DOMAIN jobs
        /\ jobs'[j].review = jobs[j].review
        /\ jobs[j].state # "completed" \/ (jobs'[j].state = "completed" /\ jobs'[j].listed = jobs[j].listed)
        /\ \A i \in DOMAIN jobs \ {j} : jobs'[i] = jobs[i]
    BY <1>3, RerunReadsStep, SaveRowStep, SaveFileStep, CompleteStep
  <2>3. \A r : Made(r, jobs) => Made(r, jobs')
    BY <2>2, MadeKept
  <2>4. \A r \in Review : (Ready(r, rows) => Ready(r, rows')) /\ (files[r] # None => files'[r] # None)
    <3>1. CASE SaveRow(j)
      BY <3>1, SaveRowStep DEF SaveRow, Ready
    <3>2. CASE SaveFile(j)
      BY <3>2, SaveFileStep DEF SaveFile, Ready
    <3>3. CASE RerunReads(j) \/ Complete(j)
      BY <3>3 DEF RerunReads, Complete, Ready
    <3>4. QED
      BY <1>3, <3>1, <3>2, <3>3
  <2>5. QED
    BY <1>2, <2>1, <2>2, <2>3, <2>4, NoRequestMoves DEF Untouched
<1>4. ASSUME NEW r \in Review, Rerun(r) PROVE OwedInReach'
  <2>1. UNCHANGED <<rows, files>>
    BY <1>4 DEF Rerun
  <2>2. /\ Grows(jobs, jobs')
        /\ DOMAIN jobs' = DOMAIN jobs \cup {Len(jobs) + 1} /\ \A j \in DOMAIN jobs : jobs'[j] = jobs[j]
        /\ \A g \in Handler : IF calls[g] = None THEN calls'[g] = None ELSE calls'[g] # None /\ Eased(calls[g], calls'[g])
    BY <1>4, RerunStep
  <2>3. \A q : Made(q, jobs) => Made(q, jobs')
    BY <2>2, MadeKept
  <2>4. QED
    BY <1>2, <2>1, <2>2, <2>3 DEF Untouched
<1>5. CASE ClearJobs
  <2>1. UNCHANGED <<rows, files>>
    BY <1>5 DEF ClearJobs
  <2>2. /\ Grows(jobs, jobs')
        /\ \A g \in Handler : IF calls[g] = None THEN calls'[g] = None
                              ELSE calls'[g] # None /\ Eased(calls[g], calls'[g]) /\ \A r \in calls'[g].owed : OnDisk(r)
    BY <1>5, ClearJobsStep
  <2>3. \A r : OnDisk(r) => Untouched(r)
    BY <2>1 DEF OnDisk, Untouched, Found, Ready
  <2>4. PICK h : h \notin Handler
    BY NoSetContainsEverything
  <2>5. QED
    BY <2>2, <2>3, <2>4, OthersReach
<1>6. CASE Restart
  BY <1>6, RestartStep DEF OwedInReach
<1>7. QED
  BY <1>1, <1>3, <1>4, <1>5, <1>6 DEF ArchiveNext, Worked

LEMMA AskReach ==
  ASSUME ArchiveTypes, CommandTypes, OwedInReach, NEW h \in Handler, Ask(h)
  PROVE  OwedInReach'
<1> DEFINE p == Head(pending)
<1>1. UNCHANGED <<rows, files, jobs>> /\ Arrive(h, "analyze", p, Kept(p)) /\ p \in Copy
  BY HeadTailProperties DEF Ask, CommandTypes
<1> HIDE DEF p
<1>2. OthersEased(h) /\ calls'[h] = Fresh("analyze", p, Kept(p))
  BY <1>1, AskStep
<1>3. ASSUME NEW r \in Kept(p) PROVE InReach(Fresh("analyze", p, Kept(p)), r, rows, files, jobs)
  <2>1. jobs[r].copy = p /\ (OnDisk(r) \/ \E j \in DOMAIN jobs : jobs[j].review = r /\ Output(j))
    BY DEF Kept, CopyOf
  <2>2. Found(r, rows, files) \/ Made(r, jobs)
    BY <2>1 DEF OnDisk, Output, Found, Made, Ready
  <2>3. QED
    BY <2>1, <2>2 DEF InReach, Fresh
<1>4. calls'[h].owed = Kept(p)
  BY <1>2 DEF Fresh
<1>5. \A r \in calls'[h].owed : InReach(calls'[h], r, rows', files', jobs')
  BY <1>1, <1>2, <1>3, <1>4
<1>6. \A r : Untouched(r)
  BY <1>1 DEF Untouched, Found, Ready
<1>7. Grows(jobs, jobs')
  BY <1>1, JobsStay
<1>8. \A g \in Handler \ {h} : calls'[g] # None => calls[g] # None /\ Eased(calls[g], calls'[g])
  BY <1>2, OthersGoOn
<1>9. QED
  BY <1>5, <1>6, <1>7, <1>8, OthersReach

LEMMA ReachStep ==
  ASSUME TopperTypes, OwedInReach, [TopperNext]_topperVars
  PROVE  OwedInReach'
<1> ArchiveTypes /\ CommandTypes
  BY DEF TopperTypes
<1>1. CASE ArchiveNext
  BY <1>1, ArchiveStepReach
<1>2. CASE UNCHANGED <<rows, files, jobs, calls>>
  BY <1>2 DEF OwedInReach
<1>3. ASSUME NEW h \in Handler, Ask(h) PROVE OwedInReach'
  BY <1>3, AskReach
<1>4. ASSUME NEW h \in Handler, Submitted(h) PROVE OwedInReach'
  <2>1. UNCHANGED <<rows, files, jobs>> /\ calls' = [calls EXCEPT ![h] = None] /\ calls \in [Handler -> Request \cup {None}]
    BY <1>4 DEF Submitted, ArchiveTypes, RequestsFit
  <2>2. QED
    BY <2>1 DEF OwedInReach
<1>5. CASE Begin \/ SubmitFails \/ Wait \/ Expire \/ TimeOut \/ Tick \/ EndRound \/ Kill
  BY <1>2, <1>5 DEF Begin, SubmitFails, Wait, Expire, TimeOut, Tick, EndRound, Kill, archiveVars
<1>6. ASSUME NEW j \in DOMAIN jobs, Poll(j) PROVE OwedInReach'
  BY <1>2, <1>6 DEF Poll, archiveVars
<1>7. CASE UNCHANGED topperVars
  BY <1>2, <1>7 DEF topperVars, archiveVars
<1>8. QED
  BY <1>1, <1>3, <1>4, <1>5, <1>6, <1>7 DEF TopperNext, CommandNext

\* Where a request for an analysis gets its answer, its job reuses a review.
LEMMA AnsweredByReuse ==
  ASSUME TopperTypes, OwedInReach, [TopperNext]_topperVars,
         NEW h \in Handler, calls[h] # None, calls[h].at = "files", calls[h].owed # {}, calls[h].about \notin Renamed,
         calls'[h] # None, calls'[h].at = "answer"
  PROVE  jobs'[Len(jobs')].kind = "reuse"
<1> ArchiveTypes /\ CommandTypes
  BY DEF TopperTypes
<1>0. calls[h] \in Request /\ RequestFits(calls[h], jobs) /\ calls[h].owed \subseteq Review
  BY ArchiveBasics, OwedAreReviews
<1>1. calls'[h] # calls[h] /\ ~Eased(calls[h], calls'[h])
  BY DEF Eased
<1>2. CASE StartAnalyze(h)
  <2>1. /\ calls[h].kind = "analyze" /\ calls[h].todo = {}
        /\ jobs'[Len(jobs')].kind = IF Reusable(calls[h].about) = {} THEN "analyze" ELSE "reuse"
    BY <1>2, StartAnalyzeStep
  <2>2. PICK r \in calls[h].owed : InReach(calls[h], r, rows, files, jobs)
    BY <2>1 DEF OwedInReach
  <2>3. Ready(r, rows) /\ jobs[r].copy = calls[h].about /\ r \in DOMAIN jobs
    BY <1>0, <2>1, <2>2 DEF InReach, RequestFits
  <2>4. r \in Reusable(calls[h].about)
    BY <2>3 DEF Reusable, Ready, CopyOf
  <2>5. QED
    BY <2>1, <2>4
<1>3. ASSUME NEW g \in Handler, Served(g), ~StartAnalyze(h) PROVE FALSE
  <2>1. CASE g # h
    <3>1. OthersEased(g)
      <4>1. CASE \E r \in Review : ReadForEdit(g, r) \/ ReadForDelete(g, r)
        BY <4>1, ReadForEditStep, ReadForDeleteStep
      <4>2. CASE Shown(g)
        BY <4>2, Answered DEF Shown
      <4>3. QED
        BY <1>3, <4>1, <4>2, ListStep, ListJobsStep, BackfillJobStep, ListFilesStep, ReadFileStep,
           BackfillFileStep, StartAnalyzeStep,
           SaveEditStep, SyncEditStep, DeleteRowStep, DeleteItsJobStep DEF Served
    <3>2. Eased(calls[h], calls'[h])
      BY <2>1, <3>1 DEF OthersEased
    <3>3. QED
      BY <1>1, <3>2
  <2>2. CASE g = h
    <3>1. CASE List(h) \/ \E r \in Review : ReadForEdit(h, r) \/ ReadForDelete(h, r)
      BY <3>1 DEF List, Arrive, ReadForEdit, ReadForDelete
    <3>2. CASE ListJobs(h) \/ BackfillJob(h) \/ ListFiles(h)
      BY <3>2 DEF ListJobs, BackfillJob, ListFiles
    <3>3. CASE ReadFile(h)
      BY <3>3, ReadFileStep
    <3>4. CASE BackfillFile(h)
      BY <3>4, BackfillFileStep
    <3>5. CASE Shown(h)
      BY <3>5, Answered DEF Shown
    <3>6. CASE SaveEdit(h) \/ SyncEdit(h) \/ DeleteRow(h) \/ DeleteItsJob(h)
      BY <1>0, <3>6 DEF SaveEdit, SyncEdit, DeleteRow, DeleteItsJob, RequestFits
    <3>7. QED
      BY <1>3, <2>2, <3>1, <3>2, <3>3, <3>4, <3>5, <3>6 DEF Served
  <2>3. QED
    BY <2>1, <2>2
<1>4. ASSUME NEW r \in Review, Rerun(r) PROVE FALSE
  BY <1>1, <1>4, RerunStep
<1>5. CASE ClearJobs
  BY <1>1, <1>5, ClearJobsStep
<1>6. CASE Restart
  BY <1>6, RestartStep
<1>7. CASE Worked \/ UNCHANGED calls
  BY <1>1, <1>7 DEF Worked, RerunReads, SaveRow, SaveFile, Complete
<1>8. ASSUME NEW g \in Handler, Ask(g) PROVE FALSE
  <2>1. /\ calls[g] = None
        /\ calls' = [calls EXCEPT ![g] = Fresh("analyze", Head(pending), Kept(Head(pending)))]
    BY <1>8 DEF Ask, Arrive, Fresh
  <2>2. g # h /\ calls \in [Handler -> Request \cup {None}]
    BY <2>1 DEF ArchiveTypes, RequestsFit
  <2>3. QED
    BY <1>1, <2>1, <2>2
<1>9. ASSUME NEW g \in Handler, Submitted(g) PROVE FALSE
  <2>1. calls' = [calls EXCEPT ![g] = None] /\ calls \in [Handler -> Request \cup {None}]
    BY <1>9 DEF Submitted, ArchiveTypes, RequestsFit
  <2>2. QED
    BY <1>1, <2>1
<1>10. CASE Begin \/ SubmitFails \/ Wait \/ Expire \/ TimeOut \/ Tick \/ EndRound \/ Kill
  BY <1>7, <1>10 DEF Begin, SubmitFails, Wait, Expire, TimeOut, Tick, EndRound, Kill, archiveVars
<1>11. ASSUME NEW j \in DOMAIN jobs, Poll(j) PROVE jobs'[Len(jobs')].kind = "reuse"
  BY <1>7, <1>11 DEF Poll, archiveVars
<1>12. CASE UNCHANGED topperVars
  BY <1>7, <1>12 DEF topperVars, archiveVars
<1>13. QED
  BY <1>2, <1>3, <1>4, <1>5, <1>6, <1>7, <1>8, <1>9, <1>10, <1>11, <1>12 DEF TopperNext, CommandNext, ArchiveNext

\* A copy whose review exists when it is submitted is not analysed again if the
\* review suggests no other name and nobody edits or deletes it meanwhile,
\* whatever other requests, jobs and faults come between.
THEOREM NeverAnalysedTwice == TopperSpec => AnalysedOnce
<1>1. TopperInit => OwedInReach
  BY DEF TopperInit, ArchiveInit, OwedInReach
<1>2. TopperTypes /\ OwedInReach /\ [TopperNext]_topperVars => OwedInReach'
  BY ReachStep
<1>3. TopperTypes /\ OwedInReach /\ [TopperNext]_topperVars =>
        \A h \in Handler :
          /\ calls[h] # None /\ calls[h].at = "files" /\ calls[h].owed # {} /\ calls[h].about \notin Renamed
          /\ calls'[h] # None /\ calls'[h].at = "answer"
          => jobs'[Len(jobs')].kind = "reuse"
  BY AnsweredByReuse
<1>4. QED
  BY <1>1, <1>2, <1>3, TopperTypesHold, PTL DEF TopperSpec, AnalysedOnce
-----------------------------------------------------------------------------
(* The edits that a list has to show are on their way into its rows.       *)

Busy(r, js) == \E j \in DOMAIN js : js[j].review = r /\ js[j].kind # "reuse" /\ js[j].state \in Live
FileShows(r, fs) == fs[r] # None /\ "edit" \in fs[r]
RowShows(r, rs) == rs[r] # None /\ "edit" \in rs[r].text

\* No job writes the review; the edit is in its file until the list has read
\* that file, then in what the list has read, and at last in the row.
WillShow(c, r, rs, fs, js) ==
  /\ ~Busy(r, js)
  /\ c.at # "files" \/ r \in c.todo => FileShows(r, fs)
  /\ c.at = "files" /\ c.seen # None /\ r = Min(c.todo) => "edit" \in c.seen
  /\ c.at = "files" /\ r \notin c.todo => RowShows(r, rs)
EditsHold == \A r \in edited : FileShows(r, files) /\ ~Busy(r, jobs)
ListsShow ==
  \A h \in Handler : calls[h] # None /\ calls[h].kind = "list" =>
    \A r \in calls[h].owed : WillShow(calls[h], r, rows, files, jobs)

\* A step that leaves the edit of a review where it is.
Undisturbed(r) ==
  ~Busy(r, jobs) =>
    /\ ~Busy(r, jobs')
    /\ FileShows(r, files) => FileShows(r, files')
    /\ RowShows(r, rows) => RowShows(r, rows')

LEMMA EditsKept ==
  ASSUME EditsHold, \A r \in edited' : r \in edited /\ Undisturbed(r)
  PROVE  EditsHold'
BY DEF EditsHold, Undisturbed

LEMMA OthersShow ==
  ASSUME ArchiveTypes, ListsShow, NEW h,
         \A g \in Handler \ {h} : calls'[g] # None => calls[g] # None /\ Eased(calls[g], calls'[g]),
         \A g \in Handler \ {h} : calls'[g] # None /\ calls'[g].kind = "list" =>
           \A r \in calls'[g].owed : Undisturbed(r),
         h \in Handler /\ calls'[h] # None /\ calls'[h].kind = "list" =>
           \A r \in calls'[h].owed : WillShow(calls'[h], r, rows', files', jobs')
  PROVE  ListsShow'
<1> SUFFICES ASSUME NEW g \in Handler, calls'[g] # None, calls'[g].kind = "list", NEW r \in calls'[g].owed
             PROVE  WillShow(calls'[g], r, rows', files', jobs')
  BY DEF ListsShow
<1>1. CASE g = h
  BY <1>1
<1>2. CASE g # h
  <2>1. calls[g] # None /\ Eased(calls[g], calls'[g]) /\ Undisturbed(r)
    BY <1>2
  <2>2. WillShow(calls[g], r, rows, files, jobs)
    BY <2>1 DEF Eased, ListsShow
  <2>3. QED
    BY <2>1, <2>2 DEF Eased, Undisturbed, WillShow
<1>3. QED
  BY <1>1, <1>2

LEMMA BusyKept ==
  ASSUME ArchiveTypes, DOMAIN jobs' = DOMAIN jobs, Grows(jobs, jobs'),
         \A j \in DOMAIN jobs : jobs'[j].state \in Live => jobs[j].state \in Live
  PROVE  \A r : Busy(r, jobs') => Busy(r, jobs)
BY DEF Grows, Busy

\* A job that is added works on its own review.
LEMMA BusyAdded ==
  ASSUME ArchiveTypes, DOMAIN jobs' = DOMAIN jobs \cup {Len(jobs) + 1}, \A j \in DOMAIN jobs : jobs'[j] = jobs[j]
  PROVE  \A r : Busy(r, jobs') =>
           Busy(r, jobs) \/ (jobs'[Len(jobs) + 1].kind # "reuse" /\ jobs'[Len(jobs) + 1].review = r)
BY DEF Busy

LEMMA ServedStepShows ==
  ASSUME ArchiveTypes, EditsHold, ListsShow, NEW h \in Handler, Served(h)
  PROVE  EditsHold' /\ ListsShow'
<1>1. ASSUME edited' = edited, OthersEased(h),
             \A r \in edited : Undisturbed(r),
             \A g \in Handler \ {h} : calls'[g] # None /\ calls'[g].kind = "list" => \A r \in calls'[g].owed : Undisturbed(r),
             calls'[h] # None /\ calls'[h].kind = "list" =>
               \A r \in calls'[h].owed : WillShow(calls'[h], r, rows', files', jobs')
      PROVE  EditsHold' /\ ListsShow'
  <2>1. \A g \in Handler \ {h} : calls'[g] # None => calls[g] # None /\ Eased(calls[g], calls'[g])
    BY <1>1, OthersGoOn
  <2>2. QED
    BY <1>1, <2>1, OthersShow, EditsKept
<1>2. CASE List(h)
  <2>1. UNCHANGED <<rows, files, jobs, edited>>
    BY <1>2 DEF List
  <2>2. OthersEased(h) /\ calls'[h] = Fresh("list", None, edited)
    BY <1>2, ListStep
  <2>3. calls'[h].at = "jobs" /\ calls'[h].seen = None /\ calls'[h].owed = edited
    BY <2>2 DEF Fresh
  <2>4. \A r : Undisturbed(r)
    BY <2>1 DEF Undisturbed
  <2>5. \A r \in calls'[h].owed : WillShow(calls'[h], r, rows', files', jobs')
    BY <2>1, <2>3 DEF WillShow, EditsHold
  <2>6. QED
    BY <1>1, <2>1, <2>2, <2>4, <2>5
<1>3. CASE ListJobs(h)
  <2>1. UNCHANGED <<rows, files, jobs, edited>>
    BY <1>3 DEF ListJobs
  <2>2. /\ OthersEased(h) /\ calls[h] # None /\ calls[h].at = "jobs"
        /\ calls'[h].kind = calls[h].kind
        /\ calls'[h].at = "outputs" /\ calls'[h].owed = calls[h].owed
    BY <1>3, ListJobsStep
  <2>3. \A r : Undisturbed(r)
    BY <2>1 DEF Undisturbed
  <2>4. ASSUME calls'[h].kind = "list", NEW r \in calls'[h].owed PROVE WillShow(calls'[h], r, rows', files', jobs')
    <3>1. WillShow(calls[h], r, rows, files, jobs)
      BY <2>2, <2>4 DEF ListsShow
    <3>2. QED
      BY <2>1, <2>2, <3>1 DEF WillShow
  <2>5. QED
    BY <1>1, <2>1, <2>2, <2>3, <2>4
<1>4. CASE BackfillJob(h)
  <2>1. UNCHANGED <<files, jobs, edited>>
    BY <1>4 DEF BackfillJob
  <2>2. /\ OthersEased(h) /\ calls[h] # None /\ calls[h].at = "outputs"
        /\ calls'[h].kind = calls[h].kind
        /\ calls'[h].at = "outputs" /\ calls'[h].owed = calls[h].owed
        /\ \A g \in Handler \ {h} : calls[g] # None /\ calls[g].kind = "list" => calls'[g].owed = {}
    BY <1>4, BackfillJobStep
  <2>3. ASSUME calls'[h].kind = "list", NEW r \in calls'[h].owed PROVE WillShow(calls'[h], r, rows', files', jobs')
    <3>1. WillShow(calls[h], r, rows, files, jobs)
      BY <2>2, <2>3 DEF ListsShow
    <3>2. QED
      BY <2>1, <2>2, <3>1 DEF WillShow
  <2>4. \A g \in Handler \ {h} : calls'[g] # None => calls[g] # None /\ Eased(calls[g], calls'[g])
    BY <2>2, OthersGoOn
  <2>5. \A g \in Handler \ {h} : calls'[g] # None /\ calls'[g].kind = "list" => calls'[g].owed = {}
    BY <2>2, <2>4 DEF Eased
  <2>6. ListsShow'
    BY <2>3, <2>4, <2>5, OthersShow
  <2>7. EditsHold'
    BY <2>1 DEF EditsHold
  <2>8. QED
    BY <2>6, <2>7
<1>15. CASE ListFiles(h)
  <2>1. UNCHANGED <<rows, files, jobs, edited>>
    BY <1>15 DEF ListFiles
  <2>2. /\ OthersEased(h) /\ calls[h] # None /\ calls[h].at = "outputs"
        /\ calls'[h].kind = calls[h].kind
        /\ calls'[h].at = "files" /\ calls'[h].owed = calls[h].owed /\ calls'[h].seen = None
        /\ calls'[h].todo = {r \in Review : files[r] # None}
    BY <1>15, ListFilesStep
  <2>3. \A r : Undisturbed(r)
    BY <2>1 DEF Undisturbed
  <2>4. ASSUME calls'[h].kind = "list", NEW r \in calls'[h].owed PROVE WillShow(calls'[h], r, rows', files', jobs')
    <3>1. WillShow(calls[h], r, rows, files, jobs) /\ r \in Review
      BY <2>2, <2>4, OwedAreReviews DEF ListsShow
    <3>2. FileShows(r, files) /\ ~Busy(r, jobs)
      BY <2>2, <3>1 DEF WillShow
    <3>3. r \in calls'[h].todo
      BY <2>2, <3>1, <3>2 DEF FileShows
    <3>4. QED
      BY <2>1, <2>2, <3>2, <3>3 DEF WillShow
  <2>5. QED
    BY <1>1, <2>1, <2>2, <2>3, <2>4
<1>5. CASE ReadFile(h)
  <2> DEFINE m == Min(calls[h].todo)
  <2>1. UNCHANGED <<rows, files, jobs, edited>>
    BY <1>5 DEF ReadFile
  <2>2. /\ OthersEased(h) /\ calls[h] # None /\ calls[h].at = "files"
        /\ calls'[h].kind = calls[h].kind
        /\ calls'[h].at = "files" /\ calls'[h].owed = calls[h].owed /\ calls'[h].seen = files[m]
        /\ calls'[h].todo = IF files[m] = None THEN calls[h].todo \ {m} ELSE calls[h].todo
    BY <1>5, ReadFileStep
  <2>3. \A r : Undisturbed(r)
    BY <2>1 DEF Undisturbed
  <2>4. ASSUME calls'[h].kind = "list", NEW r \in calls'[h].owed PROVE WillShow(calls'[h], r, rows', files', jobs')
    <3>1. WillShow(calls[h], r, rows, files, jobs)
      BY <2>2, <2>4 DEF ListsShow
    <3>2. CASE r \in calls[h].todo
      <4>1. FileShows(r, files) /\ ~Busy(r, jobs)
        BY <3>1, <3>2 DEF WillShow
      <4>2. r \in calls'[h].todo
        BY <2>2, <3>2, <4>1 DEF FileShows
      <4>3. calls'[h].seen # None /\ r = Min(calls'[h].todo) => r = m
        BY <2>2
      <4>4. QED
        BY <2>1, <2>2, <4>1, <4>2, <4>3 DEF WillShow, FileShows
    <3>3. CASE r \notin calls[h].todo
      <4>1. RowShows(r, rows) /\ ~Busy(r, jobs)
        BY <2>2, <3>1, <3>3 DEF WillShow
      <4>2. r \notin calls'[h].todo
        BY <2>2, <3>3
      <4>3. calls'[h].seen # None => calls'[h].todo = calls[h].todo
        BY <2>2
      <4>4. m \in calls[h].todo
        BY <1>5, ReadFileStep
      <4>5. QED
        BY <2>1, <2>2, <3>3, <4>1, <4>2, <4>3, <4>4 DEF WillShow
    <3>4. QED
      BY <3>2, <3>3
  <2>5. QED
    BY <1>1, <2>1, <2>2, <2>3, <2>4
<1>6. CASE BackfillFile(h)
  <2> DEFINE m == Min(calls[h].todo)
  <2>1. UNCHANGED <<files, jobs, edited>>
    BY <1>6 DEF BackfillFile
  <2>2. /\ OthersEased(h) /\ calls[h] # None /\ calls[h].at = "files" /\ calls[h].seen # None
        /\ calls'[h].kind = calls[h].kind
        /\ calls'[h].at = "files" /\ calls'[h].owed = calls[h].owed /\ calls'[h].seen = None
        /\ calls'[h].todo = calls[h].todo \ {m}
        /\ \A r \in Review : IF r = m THEN rows'[r] # None /\ rows'[r].text = calls[h].seen ELSE rows'[r] = rows[r]
        /\ \A g \in Handler \ {h} : calls[g] # None /\ calls[g].kind = "list" => calls'[g].owed = {}
    BY <1>6, BackfillFileStep
  <2> HIDE DEF m
  <2>3. ASSUME calls'[h].kind = "list", NEW r \in calls'[h].owed PROVE WillShow(calls'[h], r, rows', files', jobs')
    <3>1. WillShow(calls[h], r, rows, files, jobs) /\ r \in Review
      BY <2>2, <2>3, OwedAreReviews DEF ListsShow
    <3>2. r = m => "edit" \in calls[h].seen
      BY <2>2, <3>1 DEF WillShow, m
    <3>3. r \notin calls'[h].todo => RowShows(r, rows')
      BY <2>2, <3>1, <3>2 DEF WillShow, RowShows
    <3>4. r \in calls'[h].todo => FileShows(r, files)
      BY <2>2, <3>1 DEF WillShow
    <3>5. ~Busy(r, jobs)
      BY <3>1 DEF WillShow
    <3>6. QED
      BY <2>1, <2>2, <3>3, <3>4, <3>5 DEF WillShow
  <2>4. \A g \in Handler \ {h} : calls'[g] # None => calls[g] # None /\ Eased(calls[g], calls'[g])
    BY <2>2, OthersGoOn
  <2>5. \A g \in Handler \ {h} : calls'[g] # None /\ calls'[g].kind = "list" => calls'[g].owed = {}
    BY <2>2, <2>4 DEF Eased
  <2>6. ListsShow'
    BY <2>3, <2>4, <2>5, OthersShow
  <2>7. EditsHold'
    BY <2>1 DEF EditsHold
  <2>8. QED
    BY <2>6, <2>7
<1>7. CASE Shown(h)
  <2>1. UNCHANGED <<rows, files, jobs, edited>> /\ calls' = [calls EXCEPT ![h] = None]
    BY <1>7 DEF Shown
  <2>2. OthersEased(h) /\ calls'[h] = None
    BY <2>1, Answered
  <2>3. \A r : Undisturbed(r)
    BY <2>1 DEF Undisturbed
  <2>4. QED
    BY <1>1, <2>1, <2>2, <2>3
<1>8. CASE StartAnalyze(h)
  <2>1. UNCHANGED <<rows, files, edited>>
    BY <1>8 DEF StartAnalyze
  <2>2. /\ OthersEased(h) /\ calls'[h].kind = "analyze" /\ Len(jobs') = Len(jobs) + 1
        /\ DOMAIN jobs' = DOMAIN jobs \cup {Len(jobs) + 1} /\ \A j \in DOMAIN jobs : jobs'[j] = jobs[j]
        /\ jobs'[Len(jobs')].kind = "analyze" => jobs'[Len(jobs')].review = Len(jobs')
        /\ jobs'[Len(jobs')].kind \in {"analyze", "reuse"}
    BY <1>8, StartAnalyzeStep
  <2>3. \A r \in DOMAIN jobs : Busy(r, jobs') => Busy(r, jobs)
    BY <2>2, BusyAdded, ArchiveBasics
  <2>4. \A r \in DOMAIN jobs : Undisturbed(r)
    BY <2>1, <2>3 DEF Undisturbed
  <2>5. \A g \in Handler \ {h} : calls'[g] # None => calls'[g].owed \subseteq DOMAIN jobs
    BY <2>2, OwedReviewsStay DEF OthersEased
  <2>6. \A r \in edited : r \in DOMAIN jobs
    BY DEF ArchiveTypes
  <2>7. QED
    BY <1>1, <2>1, <2>2, <2>4, <2>5, <2>6
<1>9. CASE SaveEdit(h)
  <2>1. UNCHANGED <<files, jobs, edited>>
    BY <1>9 DEF SaveEdit
  <2>2. /\ OthersEased(h) /\ calls'[h].kind = "edit"
        /\ \A r \in Review : IF r = calls[h].about THEN rows'[r] # None /\ "edit" \in rows'[r].text ELSE rows'[r] = rows[r]
    BY <1>9, SaveEditStep
  <2>3. \A r \in Review : Undisturbed(r)
    BY <2>1, <2>2 DEF Undisturbed, RowShows
  <2>4. \A g \in Handler \ {h} : calls'[g] # None => calls'[g].owed \subseteq Review
    BY <2>2, OwedReviewsStay DEF OthersEased
  <2>5. edited \subseteq Review
    BY ArchiveBasics DEF ArchiveTypes
  <2>6. QED
    BY <1>1, <2>1, <2>2, <2>3, <2>4, <2>5
<1>10. CASE SyncEdit(h)
  <2> DEFINE p == calls[h].about
  <2>1. UNCHANGED <<rows, jobs>> /\ edited' = IF UnderWork(p) THEN edited ELSE edited \cup {p}
    BY <1>10 DEF SyncEdit
  <2>2. /\ OthersEased(h) /\ calls'[h] = None
        /\ \A r \in Review : IF r = p THEN files'[r] # None /\ "edit" \in files'[r] ELSE files'[r] = files[r]
        /\ p \in Review
    BY <1>10, SyncEditStep
  <2> HIDE DEF p
  <2>3. \A r \in Review : Undisturbed(r)
    BY <2>1, <2>2 DEF Undisturbed, FileShows
  <2>4. \A g \in Handler \ {h} : calls'[g] # None => calls'[g].owed \subseteq Review
    BY <2>2, OwedReviewsStay DEF OthersEased
  <2>5. edited \subseteq Review
    BY ArchiveBasics DEF ArchiveTypes
  <2>6. ASSUME NEW r \in edited' PROVE FileShows(r, files') /\ ~Busy(r, jobs')
    <3>1. CASE r \in edited
      BY <2>3, <2>5, <3>1 DEF EditsHold, Undisturbed
    <3>2. CASE r \notin edited
      <4>1. r = p /\ ~UnderWork(p)
        BY <2>1, <3>2
      <4>2. ~Busy(r, jobs)
        BY <4>1 DEF UnderWork, Busy
      <4>3. QED
        BY <2>1, <2>2, <4>1, <4>2 DEF FileShows
    <3>3. QED
      BY <3>1, <3>2
  <2>7. \A g \in Handler \ {h} : calls'[g] # None => calls[g] # None /\ Eased(calls[g], calls'[g])
    BY <2>2, OthersGoOn
  <2>8. ListsShow'
    BY <2>2, <2>3, <2>4, <2>7, OthersShow
  <2>9. QED
    BY <2>6, <2>8 DEF EditsHold
<1>11. CASE DeleteRow(h)
  <2>1. UNCHANGED <<files, jobs, edited>>
    BY <1>11 DEF DeleteRow
  <2>2. /\ OthersEased(h) /\ calls'[h].kind = "delete"
        /\ \A g \in Handler \ {h} : calls[g] # None => calls[h].about \notin calls'[g].owed
        /\ \A q \in Review \ {calls[h].about} : rows'[q] = rows[q]
    BY <1>11, DeleteRowStep
  <2>3. \A g \in Handler \ {h} : calls'[g] # None => calls[g] # None /\ calls'[g].owed \subseteq Review /\ Eased(calls[g], calls'[g])
    BY <2>2, OwedReviewsStay DEF OthersEased
  <2>4. \A r \in Review \ {calls[h].about} : Undisturbed(r)
    BY <2>1, <2>2 DEF Undisturbed, RowShows
  <2>5. ListsShow'
    BY <2>2, <2>3, <2>4, OthersShow
  <2>6. EditsHold'
    BY <2>1 DEF EditsHold
  <2>7. QED
    BY <2>5, <2>6
<1>12. CASE DeleteItsJob(h)
  <2>1. UNCHANGED <<rows, files, edited>>
    BY <1>12 DEF DeleteItsJob
  <2>2. /\ OthersEased(h) /\ Grows(jobs, jobs') /\ DOMAIN jobs' = DOMAIN jobs /\ calls'[h] = None
        /\ \A j \in DOMAIN jobs : jobs'[j].state = jobs[j].state
    BY <1>12, DeleteItsJobStep
  <2>3. \A r : Undisturbed(r)
    BY <2>1, <2>2, BusyKept DEF Undisturbed
  <2>4. QED
    BY <1>1, <2>1, <2>2, <2>3
<1>13. ASSUME NEW r \in Review, ReadForEdit(h, r) PROVE EditsHold' /\ ListsShow'
  <2>1. UNCHANGED <<rows, files, jobs, edited>>
    BY <1>13 DEF ReadForEdit
  <2>2. OthersEased(h) /\ calls'[h].kind = "edit"
    BY <1>13, ReadForEditStep
  <2>3. \A q : Undisturbed(q)
    BY <2>1 DEF Undisturbed
  <2>4. QED
    BY <1>1, <2>1, <2>2, <2>3
<1>14. ASSUME NEW r \in Review, ReadForDelete(h, r) PROVE EditsHold' /\ ListsShow'
  <2>1. UNCHANGED <<rows, jobs>> /\ edited' = edited \ {r}
    BY <1>14 DEF ReadForDelete
  <2>2. /\ OthersEased(h) /\ calls'[h].kind = "delete"
        /\ \A g \in Handler \ {h} : calls[g] # None => r \notin calls'[g].owed
        /\ \A q \in Review \ {r} : files'[q] = files[q]
    BY <1>14, ReadForDeleteStep
  <2>3. \A q \in Review \ {r} : Undisturbed(q)
    BY <2>1, <2>2 DEF Undisturbed, FileShows
  <2>4. \A g \in Handler \ {h} : calls'[g] # None => calls[g] # None /\ calls'[g].owed \subseteq Review /\ Eased(calls[g], calls'[g])
    BY <2>2, OwedReviewsStay DEF OthersEased
  <2>5. ListsShow'
    BY <2>2, <2>3, <2>4, OthersShow
  <2>6. \A q \in edited' : q \in edited /\ q \in Review \ {r}
    BY <2>1, ArchiveBasics DEF ArchiveTypes
  <2>7. QED
    BY <2>3, <2>5, <2>6, EditsKept
<1>16. QED
  BY <1>2, <1>3, <1>4, <1>5, <1>6, <1>7, <1>8, <1>9, <1>10, <1>11, <1>12, <1>13, <1>14, <1>15 DEF Served

LEMMA ArchiveStepShows ==
  ASSUME ArchiveTypes, EditsHold, ListsShow, ArchiveNext
  PROVE  EditsHold' /\ ListsShow'
<1>0. edited \subseteq Review /\ edited \subseteq DOMAIN jobs
  BY ArchiveBasics DEF ArchiveTypes
<1>1. ASSUME NEW h \in Handler, Served(h) PROVE EditsHold' /\ ListsShow'
  BY <1>1, ServedStepShows
<1>2. ASSUME NEW R, \A r \in Review \ R : Undisturbed(r), edited' \subseteq edited \ R,
             \A g \in Handler : calls'[g] # None =>
               calls[g] # None /\ Eased(calls[g], calls'[g]) /\ calls'[g].owed \subseteq Review \ R
      PROVE  EditsHold' /\ ListsShow'
  <2>1. PICK h : h \notin Handler
    BY NoSetContainsEverything
  <2>2. ListsShow'
    BY <1>2, <2>1, OthersShow
  <2>3. \A r \in edited' : r \in edited /\ Undisturbed(r)
    BY <1>0, <1>2
  <2>4. QED
    BY <2>2, <2>3, EditsKept
<1>3. ASSUME NEW j \in DOMAIN jobs, RerunReads(j) \/ SaveRow(j) \/ SaveFile(j) \/ Complete(j)
      PROVE  EditsHold' /\ ListsShow'
  <2>1. UNCHANGED <<calls, edited>>
    BY <1>3 DEF RerunReads, SaveRow, SaveFile, Complete
  <2>2. /\ Grows(jobs, jobs') /\ DOMAIN jobs' = DOMAIN jobs
        /\ jobs[j].state \in Live \/ jobs'[j].state = "completed"
        /\ \A i \in DOMAIN jobs \ {j} : jobs'[i] = jobs[i]
    BY <1>3, RerunReadsStep, SaveRowStep, SaveFileStep, CompleteStep DEF Live
  <2>3. \A r : Busy(r, jobs') => Busy(r, jobs)
    BY <2>2, BusyKept DEF Live
  <2>4. ASSUME NEW r \in Review, ~Busy(r, jobs)
        PROVE  (FileShows(r, files) => FileShows(r, files')) /\ (RowShows(r, rows) => RowShows(r, rows'))
    <3>1. CASE SaveRow(j)
      <4>1. Busy(jobs[j].review, jobs)
        BY <3>1, SaveRowStep DEF Busy, Live
      <4>2. rows'[r] = rows[r] /\ files' = files
        BY <2>4, <3>1, <4>1, SaveRowStep DEF SaveRow
      <4>3. QED
        BY <4>2 DEF RowShows
    <3>2. CASE SaveFile(j)
      <4>1. Busy(jobs[j].review, jobs)
        BY <3>2, SaveFileStep DEF Busy, Live
      <4>2. files'[r] = files[r] /\ rows' = rows
        BY <2>4, <3>2, <4>1, SaveFileStep DEF SaveFile
      <4>3. QED
        BY <4>2 DEF FileShows
    <3>3. CASE RerunReads(j) \/ Complete(j)
      BY <3>3 DEF RerunReads, Complete
    <3>4. QED
      BY <1>3, <3>1, <3>2, <3>3
  <2>5. \A g \in Handler : calls'[g] # None => calls'[g].owed \subseteq Review
    BY <2>1, OwedAreReviews
  <2>6. QED
    BY <1>2, <2>1, <2>3, <2>4, <2>5, NoRequestMoves DEF Undisturbed
<1>4. ASSUME NEW r \in Review, Rerun(r) PROVE EditsHold' /\ ListsShow'
  <2>1. UNCHANGED <<rows, files>> /\ edited' = edited \ {r}
    BY <1>4 DEF Rerun
  <2>2. /\ DOMAIN jobs' = DOMAIN jobs \cup {Len(jobs) + 1} /\ \A j \in DOMAIN jobs : jobs'[j] = jobs[j]
        /\ jobs'[Len(jobs) + 1].review = r
        /\ \A g \in Handler : IF calls[g] = None THEN calls'[g] = None
                              ELSE calls'[g] # None /\ Eased(calls[g], calls'[g]) /\ r \notin calls'[g].owed
    BY <1>4, RerunStep
  <2>3. \A q \in Review \ {r} : Undisturbed(q)
    BY <2>1, <2>2, BusyAdded DEF Undisturbed
  <2>4. \A g \in Handler : calls'[g] # None => calls'[g].owed \subseteq Review \ {r}
    BY <2>2, OwedReviewsStay
  <2>5. QED
    BY <1>2, <2>1, <2>2, <2>3, <2>4
<1>5. CASE ClearJobs
  <2>1. UNCHANGED <<rows, files, edited>>
    BY <1>5 DEF ClearJobs
  <2>2. /\ Grows(jobs, jobs') /\ DOMAIN jobs' = DOMAIN jobs
        /\ \A j \in DOMAIN jobs : jobs'[j].state = jobs[j].state
        /\ \A g \in Handler : IF calls[g] = None THEN calls'[g] = None ELSE calls'[g] # None /\ Eased(calls[g], calls'[g])
    BY <1>5, ClearJobsStep
  <2>3. \A r : Undisturbed(r)
    BY <2>1, <2>2, BusyKept DEF Undisturbed
  <2>4. \A g \in Handler : calls'[g] # None => calls'[g].owed \subseteq Review
    BY <2>2, OwedReviewsStay
  <2>5. QED
    BY <1>2, <2>1, <2>2, <2>3, <2>4
<1>6. CASE Restart
  <2>1. UNCHANGED <<rows, files, edited>>
    BY <1>6 DEF Restart
  <2>2. /\ Grows(jobs, jobs') /\ DOMAIN jobs' = DOMAIN jobs
        /\ \A j \in DOMAIN jobs : jobs'[j].state = jobs[j].state \/ jobs'[j].state = "failed"
        /\ \A h \in Handler : calls'[h] = None
    BY <1>6, RestartStep
  <2>3. \A r : Undisturbed(r)
    BY <2>1, <2>2, BusyKept DEF Undisturbed, Live
  <2>4. QED
    BY <1>2, <2>1, <2>2, <2>3
<1>7. QED
  BY <1>1, <1>3, <1>4, <1>5, <1>6 DEF ArchiveNext, Worked

LEMMA ShowsStep ==
  ASSUME TopperTypes, EditsHold, ListsShow, [TopperNext]_topperVars
  PROVE  EditsHold' /\ ListsShow'
<1> ArchiveTypes /\ CommandTypes
  BY DEF TopperTypes
<1>1. CASE ArchiveNext
  BY <1>1, ArchiveStepShows
<1>2. CASE UNCHANGED <<rows, files, jobs, edited, calls>>
  BY <1>2 DEF EditsHold, ListsShow
<1>3. ASSUME NEW h \in Handler, calls[h] = None \/ calls[h].kind # "list", NEW c, c = None \/ c.kind # "list",
             UNCHANGED <<rows, files, jobs, edited>>, calls' = [calls EXCEPT ![h] = c]
      PROVE  EditsHold' /\ ListsShow'
  <2>1. calls \in [Handler -> Request \cup {None}]
    BY DEF ArchiveTypes, RequestsFit
  <2>2. QED
    BY <1>3, <2>1 DEF EditsHold, ListsShow
<1>4. ASSUME NEW h \in Handler, Ask(h) PROVE EditsHold' /\ ListsShow'
  <2> DEFINE c == Fresh("analyze", Head(pending), Kept(Head(pending)))
  <2>1. c.kind = "analyze"
    BY DEF Fresh
  <2>2. UNCHANGED <<rows, files, jobs, edited>> /\ calls[h] = None /\ calls' = [calls EXCEPT ![h] = c]
    BY <1>4 DEF Ask, Arrive, Fresh
  <2> HIDE DEF c
  <2>3. QED
    BY <1>3, <2>1, <2>2
<1>5. ASSUME NEW h \in Handler, Submitted(h) PROVE EditsHold' /\ ListsShow'
  <2>1. UNCHANGED <<rows, files, jobs, edited>> /\ calls[h] # None /\ calls[h].at = "answer" /\ calls' = [calls EXCEPT ![h] = None]
    BY <1>5 DEF Submitted
  <2>2. calls[h].kind # "list"
    BY <2>1, ArchiveBasics DEF RequestFits
  <2>3. QED
    BY <1>3, <2>1, <2>2
<1>6. CASE Begin \/ SubmitFails \/ Wait \/ Expire \/ TimeOut \/ Tick \/ EndRound \/ Kill
  BY <1>2, <1>6 DEF Begin, SubmitFails, Wait, Expire, TimeOut, Tick, EndRound, Kill, archiveVars
<1>7. ASSUME NEW j \in DOMAIN jobs, Poll(j) PROVE EditsHold' /\ ListsShow'
  BY <1>2, <1>7 DEF Poll, archiveVars
<1>8. CASE UNCHANGED topperVars
  BY <1>2, <1>8 DEF topperVars, archiveVars
<1>9. QED
  BY <1>1, <1>4, <1>5, <1>6, <1>7, <1>8 DEF TopperNext, CommandNext

\* When a list is answered, every edit it owes is in its row.
LEMMA AnsweredWithEdits ==
  ASSUME TopperTypes, ListsShow, [TopperNext]_topperVars,
         NEW h \in Handler, calls[h] # None, calls[h].kind = "list", calls'[h] = None, chances'["crash"] = chances["crash"],
         NEW r \in calls[h].owed
  PROVE  RowShows(r, rows)
<1> ArchiveTypes /\ CommandTypes
  BY DEF TopperTypes
<1>0. calls[h] \in Request /\ RequestFits(calls[h], jobs) /\ calls \in [Handler -> Request \cup {None}]
  BY ArchiveBasics DEF ArchiveTypes, RequestsFit
<1>1. CASE Shown(h)
  <2>1. calls[h].at = "files" /\ calls[h].todo = {}
    BY <1>1 DEF Shown, Backfilled
  <2>2. QED
    BY <2>1 DEF ListsShow, WillShow
<1>2. ASSUME NEW g \in Handler, Served(g), ~Shown(h) PROVE FALSE
  <2>1. CASE g # h
    <3>1. OthersEased(g)
      <4>1. CASE \E q \in Review : ReadForEdit(g, q) \/ ReadForDelete(g, q)
        BY <4>1, ReadForEditStep, ReadForDeleteStep
      <4>2. CASE Shown(g)
        BY <4>2, Answered DEF Shown
      <4>3. QED
        BY <1>2, <4>1, <4>2, ListStep, ListJobsStep, BackfillJobStep, ListFilesStep, ReadFileStep,
           BackfillFileStep, StartAnalyzeStep,
           SaveEditStep, SyncEditStep, DeleteRowStep, DeleteItsJobStep DEF Served
    <3>2. QED
      BY <2>1, <3>1 DEF OthersEased
  <2>2. CASE g = h
    <3>1. CASE List(h) \/ \E q \in Review : ReadForEdit(h, q) \/ ReadForDelete(h, q)
      BY <3>1 DEF List, Arrive, ReadForEdit, ReadForDelete
    <3>2. CASE ListJobs(h) \/ BackfillJob(h) \/ ListFiles(h) \/ ReadFile(h) \/ BackfillFile(h)
      BY <3>2, ListJobsStep, BackfillJobStep, ListFilesStep, ReadFileStep, BackfillFileStep
    <3>3. CASE StartAnalyze(h) \/ SaveEdit(h) \/ SyncEdit(h) \/ DeleteRow(h) \/ DeleteItsJob(h)
      BY <3>3 DEF StartAnalyze, SaveEdit, SyncEdit, DeleteRow, DeleteItsJob, RequestFits
    <3>4. QED
      BY <1>2, <2>2, <3>1, <3>2, <3>3 DEF Served
  <2>3. QED
    BY <2>1, <2>2
<1>3. ASSUME NEW q \in Review, Rerun(q) PROVE FALSE
  BY <1>3, RerunStep
<1>4. CASE ClearJobs
  BY <1>4, ClearJobsStep
<1>5. CASE Restart
  BY <1>5, SpendTypes DEF Restart, Kinds
<1>6. CASE Worked \/ UNCHANGED calls
  BY <1>6 DEF Worked, RerunReads, SaveRow, SaveFile, Complete
<1>7. ASSUME NEW g \in Handler, Ask(g) PROVE FALSE
  <2>1. /\ calls[g] = None
        /\ calls' = [calls EXCEPT ![g] = Fresh("analyze", Head(pending), Kept(Head(pending)))]
    BY <1>7 DEF Ask, Arrive, Fresh
  <2>2. QED
    BY <1>0, <2>1
<1>8. ASSUME NEW g \in Handler, Submitted(g) PROVE FALSE
  <2>1. calls' = [calls EXCEPT ![g] = None] /\ calls[g].at = "answer"
    BY <1>8 DEF Submitted
  <2>2. g # h
    BY <1>0, <2>1 DEF RequestFits
  <2>3. QED
    BY <1>0, <2>1, <2>2
<1>9. CASE Begin \/ SubmitFails \/ Wait \/ Expire \/ TimeOut \/ Tick \/ EndRound \/ Kill
  BY <1>6, <1>9 DEF Begin, SubmitFails, Wait, Expire, TimeOut, Tick, EndRound, Kill, archiveVars
<1>10. ASSUME NEW j \in DOMAIN jobs, Poll(j) PROVE FALSE
  BY <1>6, <1>10 DEF Poll, archiveVars
<1>11. CASE UNCHANGED topperVars
  BY <1>6, <1>11 DEF topperVars, archiveVars
<1>12. QED
  BY <1>1, <1>2, <1>3, <1>4, <1>5, <1>6, <1>7, <1>8, <1>9, <1>10, <1>11 DEF TopperNext, CommandNext, ArchiveNext

\* A list shows every edit that was answered before it was asked for, if the
\* review was not deleted or analysed again and no other request writes rows
\* back at the same time: the outputs and the row it may have lost are
\* overtaken by the file.
THEOREM EditsAlwaysShown == TopperSpec => EditsShown
<1>1. TopperInit => EditsHold /\ ListsShow
  BY DEF TopperInit, ArchiveInit, EditsHold, ListsShow
<1>2. TopperTypes /\ EditsHold /\ ListsShow /\ [TopperNext]_topperVars => EditsHold' /\ ListsShow'
  BY ShowsStep
<1>3. TopperTypes /\ ListsShow /\ [TopperNext]_topperVars =>
        \A h \in Handler :
          calls[h] # None /\ calls[h].kind = "list" /\ calls'[h] = None /\ chances'["crash"] = chances["crash"]
          => \A r \in calls[h].owed : rows[r] # None /\ "edit" \in rows[r].text
  BY AnsweredWithEdits DEF RowShows
<1>4. QED
  BY <1>1, <1>2, <1>3, TopperTypesHold, PTL DEF TopperSpec, EditsShown
=============================================================================
