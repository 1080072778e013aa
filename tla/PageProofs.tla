----------------------------- MODULE PageProofs -----------------------------
(***************************************************************************)
(* The analysis of a copy for copies of any length, pools of any size, any *)
(* number of failures and of reruns: a whole analysis has every answer in  *)
(* exactly one question, and a review that asks for no review rests on     *)
(* pages that were read.                                                   *)
(***************************************************************************)
EXTENDS PageAnalysis, FiniteSetTheorems, TLAPS

Question == [pages : SUBSET Nat, review : BOOLEAN, analysed : BOOLEAN]
Once(qs, p) == \E q \in qs : {r \in qs : p \in r.pages} = {q}
Partitions(qs, pages) ==
  /\ UNION {q.pages : q \in qs} = pages
  /\ \A p \in pages : Once(qs, p)
-----------------------------------------------------------------------------
(* Numbers of pages.                                                       *)

LEMMA FirstExists ==
  ASSUME NEW S, S \subseteq Nat, S # {}
  PROVE  \E p \in S : First(S, p)
<1> DEFINE Below == {0..x : x \in S}
<1>1. Below # {}
  OBVIOUS
<1>2. Below \subseteq FiniteSubsetsOf(Nat)
  <2> SUFFICES ASSUME NEW x \in S PROVE 0..x \in FiniteSubsetsOf(Nat)
    OBVIOUS
  <2>1. IsFiniteSet(0..x)
    BY FS_Interval
  <2> QED
    BY <2>1 DEF FiniteSubsetsOf
<1>3. PICK B \in Below : \A C \in Below : ~(<<C, B>> \in StrictSubsetOrdering(Nat))
  <2> HIDE DEF Below
  <2>1. IsWellFoundedOn(StrictSubsetOrdering(Nat), FiniteSubsetsOf(Nat))
    BY FS_StrictSubsetOrderingWellFounded
  <2> QED
    BY <1>1, <1>2, <2>1, WFMin
<1>4. PICK m \in S : B = 0..m
  OBVIOUS
<1>5. ASSUME NEW y \in S PROVE m <= y
  <2>1. ~(<<0..y, 0..m>> \in StrictSubsetOrdering(Nat))
    BY <1>3, <1>4
  <2>2. 0..y \in SUBSET Nat /\ 0..m \in SUBSET Nat
    OBVIOUS
  <2>3. ~(0..y \subseteq 0..m /\ 0..y # 0..m)
    BY <2>1, <2>2 DEF StrictSubsetOrdering
  <2>4. SUFFICES ASSUME y < m PROVE FALSE
    OBVIOUS
  <2>5. 0..y \subseteq 0..m /\ m \in 0..m /\ m \notin 0..y
    BY <2>4
  <2> QED
    BY <2>3, <2>5
<1> QED
  BY <1>5 DEF First

LEMMA LastExists ==
  ASSUME NEW S, S \subseteq Nat, S # {}, NEW n \in Nat, \A x \in S : x <= n
  PROVE  \E m \in S : \A x \in S : x <= m
<1> DEFINE T == {n - x : x \in S}
<1>1. T \subseteq Nat /\ T # {}
  <2>1. ASSUME NEW x \in S PROVE n - x \in Nat
    OBVIOUS
  <2> QED
    BY <2>1
<1>2. PICK t \in T : First(T, t)
  <2> HIDE DEF T
  <2> QED
    BY <1>1, FirstExists
<1>3. PICK m \in S : t = n - m
  OBVIOUS
<1>4. ASSUME NEW x \in S PROVE x <= m
  <2>1. n - x \in T
    OBVIOUS
  <2>2. t <= n - x
    BY <1>2, <2>1 DEF First
  <2>3. n \in Nat /\ x \in Nat /\ m \in Nat
    OBVIOUS
  <2> QED
    BY <1>3, <2>2, <2>3
<1> QED
  BY <1>4
-----------------------------------------------------------------------------
(* What makes questions of pages puts every page in one question.          *)

LEMMA FallbackPartitions ==
  ASSUME NEW pages \in SUBSET Nat
  PROVE  /\ OnePerPage(pages) \subseteq Question
         /\ Partitions(OnePerPage(pages), pages)
<1>1. ASSUME NEW p \in pages
      PROVE  {r \in OnePerPage(pages) : p \in r.pages}
               = {[pages |-> {p}, review |-> TRUE, analysed |-> FALSE]}
  BY DEF OnePerPage
<1>2. OnePerPage(pages) \subseteq Question
  <2>1. ASSUME NEW p \in pages PROVE [pages |-> {p}, review |-> TRUE, analysed |-> FALSE] \in Question
    BY DEF Question
  <2> QED
    BY <2>1 DEF OnePerPage
<1> DEFINE Q(p) == [pages |-> {p}, review |-> TRUE, analysed |-> FALSE]
<1>a. OnePerPage(pages) = {Q(p) : p \in pages} /\ \A p : Q(p).pages = {p}
  BY DEF OnePerPage
<1>b. \A p \in pages : {r \in OnePerPage(pages) : p \in r.pages} = {Q(p)}
  BY <1>1
<1> HIDE DEF Q
<1>3. UNION {q.pages : q \in OnePerPage(pages)} = pages
  <2>1. \A p \in pages : p \in Q(p).pages /\ Q(p) \in OnePerPage(pages)
    BY <1>a
  <2>2. \A q \in OnePerPage(pages) : q.pages \subseteq pages
    BY <1>a
  <2> QED
    BY <2>1, <2>2
<1>4. \A p \in pages : Once(OnePerPage(pages), p)
  BY <1>a, <1>b DEF Once
<1> QED
  BY <1>2, <1>3, <1>4 DEF Partitions

\* Whatever a ledger says: the block of a page is that of the last start at or
\* before it, and the first page is a start.
LEMMA LedgerPartitions ==
  ASSUME NEW pages \in SUBSET Nat, pages # {}, NEW ledger
  PROVE  /\ FromLedger(pages, ledger) \subseteq Question
         /\ Partitions(FromLedger(pages, ledger), pages)
<1> DEFINE S(q) == Since(pages, ledger, q)
           Q(p) == [pages |-> Block(pages, ledger, p), review |-> ~Sure(pages, ledger, p),
                    analysed |-> FALSE]
<1>1. Starts(pages, ledger) \subseteq pages
  BY DEF Starts
<1>2. FromLedger(pages, ledger) = {Q(p) : p \in Starts(pages, ledger)}
  BY DEF FromLedger
<1>3. \A p : Q(p) \in Question /\ Q(p).pages = Block(pages, ledger, p)
  BY DEF Question, Block, Sure
<1>4. ASSUME NEW q \in pages
      PROVE  \E p \in Starts(pages, ledger) :
               q \in Block(pages, ledger, p)
               /\ \A o \in Starts(pages, ledger) : q \in Block(pages, ledger, o) => o = p
  <2>1. PICK f \in pages : First(pages, f)
    BY FirstExists
  <2>2. f \in S(q)
    BY <2>1 DEF Since, Starts, First
  <2>a. S(q) \subseteq pages /\ (\A s \in S(q) : s <= q) /\ q \in Nat /\ pages \subseteq Nat
    BY DEF Since, Starts
  <2>3. PICK p \in S(q) : \A s \in S(q) : s <= p
    <3> HIDE DEF S
    <3> QED
      BY <2>2, <2>a, LastExists
  <2>4. p \in Starts(pages, ledger) /\ S(p) = S(q)
    <3>1. p \in Starts(pages, ledger) /\ p \in Nat /\ q \in Nat /\ p <= q
      BY <1>1, <2>3 DEF Since
    <3>2. \A s \in Starts(pages, ledger) : s \in Nat /\ (s <= q => s <= p)
      BY <1>1, <2>3 DEF Since
    <3>3. \A s \in Starts(pages, ledger) : s <= q <=> s <= p
      BY <3>1, <3>2
    <3> QED
      BY <3>1, <3>3 DEF Since
  <2>5. ASSUME NEW o \in Starts(pages, ledger), q \in Block(pages, ledger, o) PROVE o = p
    <3>1. S(q) = S(o)
      BY <2>5 DEF Block
    <3>2. o \in S(o) /\ p \in S(o) /\ o \in Nat /\ p \in Nat
      <4>1. o \in Nat /\ p \in Nat /\ p \in S(q)
        BY <1>1, <2>3, <2>4
      <4> QED
        BY <3>1, <4>1 DEF Since
    <3>3. o <= p /\ p <= o
      BY <2>3, <3>1, <3>2 DEF Since
    <3> QED
      BY <3>2, <3>3
  <2>6. q \in Block(pages, ledger, p)
    BY <2>4 DEF Block
  <2> QED
    BY <2>4, <2>5, <2>6
<1>5. FromLedger(pages, ledger) \subseteq Question
  BY <1>2, <1>3
<1> HIDE DEF Q, S
<1>6. UNION {q.pages : q \in FromLedger(pages, ledger)} = pages
  <2>1. \A p : Block(pages, ledger, p) \subseteq pages
    BY DEF Block
  <2> QED
    BY <1>2, <1>3, <1>4, <2>1
<1>7. \A p \in pages : Once(FromLedger(pages, ledger), p)
  <2> SUFFICES ASSUME NEW p \in pages PROVE Once(FromLedger(pages, ledger), p)
    OBVIOUS
  <2>1. PICK s \in Starts(pages, ledger) :
          p \in Block(pages, ledger, s)
          /\ \A o \in Starts(pages, ledger) : p \in Block(pages, ledger, o) => o = s
    BY <1>4
  <2>2. {r \in FromLedger(pages, ledger) : p \in r.pages} = {Q(s)}
    BY <1>2, <1>3, <2>1
  <2> QED
    BY <1>2, <2>2 DEF Once
<1> QED
  BY <1>5, <1>6, <1>7 DEF Partitions

\* A question that is analysed keeps its pages.
LEMMA AnalysingKeepsPages ==
  ASSUME NEW qs \in SUBSET Question, NEW told \in SUBSET qs, NEW pages
  PROVE  LET next == (qs \ told) \cup {[q EXCEPT !.analysed = TRUE] : q \in told}
         IN  next \subseteq Question /\ (Partitions(qs, pages) => Partitions(next, pages))
<1> DEFINE A(q) == IF q \in told THEN [q EXCEPT !.analysed = TRUE] ELSE q
           next == (qs \ told) \cup {[q EXCEPT !.analysed = TRUE] : q \in told}
<1>1. next = {A(q) : q \in qs}
  OBVIOUS
<1>2. \A q \in qs : A(q) \in Question /\ A(q).pages = q.pages
  BY DEF Question
<1> HIDE DEF A, next
<1>3. next \subseteq Question
  BY <1>1, <1>2
<1>4. ASSUME Partitions(qs, pages) PROVE Partitions(next, pages)
  <2>1. UNION {q.pages : q \in next} = pages
    BY <1>1, <1>2, <1>4 DEF Partitions
  <2>2. ASSUME NEW p \in pages PROVE Once(next, p)
    <3>1. PICK q \in qs : {r \in qs : p \in r.pages} = {q}
      BY <1>4 DEF Partitions, Once
    <3>2. {r \in next : p \in r.pages} = {A(q)}
      BY <1>1, <1>2, <3>1
    <3> QED
      BY <1>1, <3>2 DEF Once
  <2> QED
    BY <2>1, <2>2 DEF Partitions
<1> QED
  BY <1>3, <1>4 DEF next
-----------------------------------------------------------------------------
(* The plan of a run: which stage may follow which.                        *)

Stages == {"render", "preflight", "ocr", "retry", "checkpoint", "fallback", "split", "ledger",
           "dimensions", "report", "write", "finish"}
FromPDF == {"render", "checkpoint", "fallback", "write"}
Edges ==
  {<<"render", "preflight">>, <<"preflight", "ocr">>, <<"ocr", "retry">>,
   <<"retry", "checkpoint">>, <<"retry", "split">>, <<"retry", "finish">>,
   <<"checkpoint", "fallback">>, <<"fallback", "split">>, <<"fallback", "report">>,
   <<"split", "ledger">>, <<"ledger", "dimensions">>, <<"dimensions", "report">>,
   <<"dimensions", "finish">>, <<"report", "write">>, <<"report", "finish">>,
   <<"write", "finish">>}
Leads(fresh, split, a, b) ==
  /\ <<a, b>> \in Edges
  /\ fresh => /\ a = "retry" => b = "checkpoint"
              /\ a = "fallback" => b = IF split THEN "split" ELSE "report"
              /\ a = "dimensions" => b = "report"
  /\ ~fresh => a \notin FromPDF /\ b \notin FromPDF
IsPlan(fresh, split, p) ==
  /\ p \in Seq(Stages) /\ Len(p) >= 1
  /\ \A i \in 1..Len(p) : /\ p[i] \in Stages /\ (p[i] = "finish" <=> i = Len(p))
                          /\ ~fresh => p[i] \notin FromPDF
  /\ \A i \in 1..Len(p) - 1 : Leads(fresh, split, p[i], p[i + 1])
Now == Head(plan)

LEMMA PartsOfPlans ==
  /\ ReadAgain \in Seq(Stages) /\ Len(ReadAgain) = 3
  /\ Regroup \in Seq(Stages) /\ Len(Regroup) = 4
  /\ \A a, b, c \in Seq(Stages) : a \o b \in Seq(Stages) /\ (a \o b) \o c \in Seq(Stages)
<1>1. ReadAgain \in Seq(Stages)
  BY DEF ReadAgain, Stages
<1>2. Regroup \in Seq(Stages)
  BY DEF Regroup, Stages
<1>3. Len(ReadAgain) = 3 /\ Len(Regroup) = 4
  BY DEF ReadAgain, Regroup
<1>4. \A a, b, c \in Seq(Stages) : a \o b \in Seq(Stages) /\ (a \o b) \o c \in Seq(Stages)
  OBVIOUS
<1> QED
  BY <1>1, <1>2, <1>3, <1>4

LEMMA PlansOfAnalysis ==
  ASSUME NEW split \in BOOLEAN
  PROVE  /\ IsPlan(TRUE, split, Analysis(split)) /\ Head(Analysis(split)) = "render"
         /\ IsPlan(TRUE, split, Resumed(split)) /\ Head(Resumed(split)) = "fallback"
<1> DEFINE a == Analysis(split)
           r == Resumed(split)
<1>1. CASE split
  <2>a. a = <<"render">> \o ReadAgain \o <<"checkpoint", "fallback">> \o Regroup \o <<"write", "finish">>
    BY <1>1 DEF Analysis
  <2>b. r = <<"fallback">> \o Regroup \o <<"finish">>
    BY <1>1 DEF Resumed
  <2>c. Len(a) = 12 /\ Len(r) = 6
    BY <1>1 DEF Analysis, Resumed, ReadAgain, Regroup
  <2>d. <<"render">> \in Seq(Stages) /\ <<"checkpoint", "fallback">> \in Seq(Stages)
    BY DEF Stages
  <2>e. <<"write", "finish">> \in Seq(Stages) /\ <<"fallback">> \in Seq(Stages) /\ <<"finish">> \in Seq(Stages)
    BY DEF Stages
  <2>1. a \in Seq(Stages) /\ Len(a) = 12 /\ r \in Seq(Stages) /\ Len(r) = 6
    <3> HIDE DEF a, r
    <3>1. (<<"render">> \o ReadAgain) \o <<"checkpoint", "fallback">> \in Seq(Stages)
      BY <2>d, PartsOfPlans
    <3> QED
      BY <2>a, <2>b, <2>c, <2>d, <2>e, <3>1, PartsOfPlans
  <2>2. /\ a[1] = "render" /\ a[2] = "preflight" /\ a[3] = "ocr" /\ a[4] = "retry"
        /\ a[5] = "checkpoint" /\ a[6] = "fallback" /\ a[7] = "split" /\ a[8] = "ledger"
        /\ a[9] = "dimensions" /\ a[10] = "report" /\ a[11] = "write" /\ a[12] = "finish"
    BY <1>1 DEF Analysis, ReadAgain, Regroup
  <2>3. /\ r[1] = "fallback" /\ r[2] = "split" /\ r[3] = "ledger" /\ r[4] = "dimensions"
        /\ r[5] = "report" /\ r[6] = "finish"
    BY <1>1 DEF Resumed, Regroup
  <2> HIDE DEF a, r
  <2>4. IsPlan(TRUE, split, a)
    BY <1>1, <2>1, <2>2 DEF IsPlan, Leads, Edges, Stages
  <2>5. IsPlan(TRUE, split, r)
    BY <1>1, <2>1, <2>3 DEF IsPlan, Leads, Edges, Stages
  <2>6. Head(a) = "render" /\ Head(r) = "fallback"
    BY <2>1, <2>2, <2>3
  <2> QED
    BY <2>4, <2>5, <2>6 DEF a, r
<1>2. CASE ~split
  <2>a. a = <<"render">> \o ReadAgain \o <<"checkpoint", "fallback">> \o <<"report">> \o <<"write", "finish">>
    BY <1>2 DEF Analysis
  <2>b. r = <<"fallback">> \o <<"report">> \o <<"finish">>
    BY <1>2 DEF Resumed
  <2>c. Len(a) = 9 /\ Len(r) = 3
    BY <1>2 DEF Analysis, Resumed, ReadAgain
  <2>d. <<"render">> \in Seq(Stages) /\ <<"checkpoint", "fallback">> \in Seq(Stages) /\ <<"report">> \in Seq(Stages)
    BY DEF Stages
  <2>e. <<"write", "finish">> \in Seq(Stages) /\ <<"fallback">> \in Seq(Stages) /\ <<"finish">> \in Seq(Stages)
    BY DEF Stages
  <2>1. a \in Seq(Stages) /\ Len(a) = 9 /\ r \in Seq(Stages) /\ Len(r) = 3
    <3> HIDE DEF a, r
    <3>1. (<<"render">> \o ReadAgain) \o <<"checkpoint", "fallback">> \in Seq(Stages)
      BY <2>d, PartsOfPlans
    <3> QED
      BY <2>a, <2>b, <2>c, <2>d, <2>e, <3>1, PartsOfPlans
  <2>2. /\ a[1] = "render" /\ a[2] = "preflight" /\ a[3] = "ocr" /\ a[4] = "retry"
        /\ a[5] = "checkpoint" /\ a[6] = "fallback" /\ a[7] = "report" /\ a[8] = "write"
        /\ a[9] = "finish"
    BY <1>2 DEF Analysis, ReadAgain
  <2>3. r[1] = "fallback" /\ r[2] = "report" /\ r[3] = "finish"
    BY <1>2 DEF Resumed
  <2> HIDE DEF a, r
  <2>4. IsPlan(TRUE, split, a)
    BY <1>2, <2>1, <2>2 DEF IsPlan, Leads, Edges, Stages
  <2>5. IsPlan(TRUE, split, r)
    BY <1>2, <2>1, <2>3 DEF IsPlan, Leads, Edges, Stages
  <2>6. Head(a) = "render" /\ Head(r) = "fallback"
    BY <2>1, <2>2, <2>3
  <2> QED
    BY <2>4, <2>5, <2>6 DEF a, r
<1> QED
  BY <1>1, <1>2

LEMMA PlansOfRerun ==
  ASSUME NEW split \in BOOLEAN, NEW action \in {"ocr", "questions", "analytics", "report", "all"}
  PROVE  IsPlan(FALSE, split, Rerun(action))
<1> DEFINE r == Rerun(action)
<1>0. <<"finish">> \in Seq(Stages) /\ <<"dimensions">> \in Seq(Stages) /\ <<"report">> \in Seq(Stages)
  BY DEF Stages
<1>1. CASE action = "ocr"
  <2>1. r = ReadAgain \o <<"finish">>
    BY <1>1 DEF Rerun
  <2> HIDE DEF r
  <2>2. r \in Seq(Stages)
    BY <1>0, <2>1, PartsOfPlans
  <2>3. /\ Len(r) = 4
        /\ r[1] = "preflight"
        /\ r[2] = "ocr"
        /\ r[3] = "retry"
        /\ r[4] = "finish"
    BY <2>1 DEF ReadAgain, Regroup
  <2> QED
    BY <2>2, <2>3 DEF IsPlan, Leads, Edges, Stages, FromPDF, r
<1>2. CASE action = "questions"
  <2>1. r = Regroup \o <<"finish">>
    BY <1>2 DEF Rerun
  <2> HIDE DEF r
  <2>2. r \in Seq(Stages)
    BY <1>0, <2>1, PartsOfPlans
  <2>3. /\ Len(r) = 5
        /\ r[1] = "split"
        /\ r[2] = "ledger"
        /\ r[3] = "dimensions"
        /\ r[4] = "report"
        /\ r[5] = "finish"
    BY <2>1 DEF ReadAgain, Regroup
  <2> QED
    BY <2>2, <2>3 DEF IsPlan, Leads, Edges, Stages, FromPDF, r
<1>3. CASE action = "analytics"
  <2>1. r = <<"dimensions">> \o <<"finish">>
    BY <1>3 DEF Rerun
  <2> HIDE DEF r
  <2>2. r \in Seq(Stages)
    BY <1>0, <2>1, PartsOfPlans
  <2>3. /\ Len(r) = 2
        /\ r[1] = "dimensions"
        /\ r[2] = "finish"
    BY <2>1 DEF ReadAgain, Regroup
  <2> QED
    BY <2>2, <2>3 DEF IsPlan, Leads, Edges, Stages, FromPDF, r
<1>4. CASE action = "report"
  <2>1. r = <<"report">> \o <<"finish">>
    BY <1>4 DEF Rerun
  <2> HIDE DEF r
  <2>2. r \in Seq(Stages)
    BY <1>0, <2>1, PartsOfPlans
  <2>3. /\ Len(r) = 2
        /\ r[1] = "report"
        /\ r[2] = "finish"
    BY <2>1 DEF ReadAgain, Regroup
  <2> QED
    BY <2>2, <2>3 DEF IsPlan, Leads, Edges, Stages, FromPDF, r
<1>5. CASE action = "all"
  <2>1. r = ReadAgain \o Regroup \o <<"finish">>
    BY <1>5 DEF Rerun
  <2> HIDE DEF r
  <2>2. r \in Seq(Stages)
    BY <1>0, <2>1, PartsOfPlans
  <2>3. /\ Len(r) = 8
        /\ r[1] = "preflight"
        /\ r[2] = "ocr"
        /\ r[3] = "retry"
        /\ r[4] = "split"
        /\ r[5] = "ledger"
        /\ r[6] = "dimensions"
        /\ r[7] = "report"
        /\ r[8] = "finish"
    BY <2>1 DEF ReadAgain, Regroup
  <2> QED
    BY <2>2, <2>3 DEF IsPlan, Leads, Edges, Stages, FromPDF, r
<1> QED
  BY <1>1, <1>2, <1>3, <1>4, <1>5

\* A run that leaves a stage is at one that may follow.
LEMMA NextStage ==
  ASSUME NEW fresh \in BOOLEAN, NEW split \in BOOLEAN, NEW p, IsPlan(fresh, split, p),
         Head(p) # "finish"
  PROVE  IsPlan(fresh, split, Tail(p)) /\ Leads(fresh, split, Head(p), Head(Tail(p)))
<1>1. p \in Seq(Stages) /\ Len(p) \in Nat /\ Len(p) >= 1 /\ Head(p) = p[1]
  BY DEF IsPlan
<1>2. Len(p) >= 2
  BY <1>1 DEF IsPlan
<1>3. Tail(p) \in Seq(Stages) /\ Len(Tail(p)) = Len(p) - 1 /\ Head(Tail(p)) = p[2]
  BY <1>1, <1>2
<1>4. \A i \in 1..Len(p) - 1 : Tail(p)[i] = p[i + 1] /\ i + 1 \in 1..Len(p)
  BY <1>1, <1>2
<1>5. \A i \in 1..Len(Tail(p)) : /\ Tail(p)[i] \in Stages /\ (Tail(p)[i] = "finish" <=> i = Len(Tail(p)))
                                 /\ ~fresh => Tail(p)[i] \notin FromPDF
  <2> SUFFICES ASSUME NEW i \in 1..Len(Tail(p))
               PROVE  /\ Tail(p)[i] \in Stages /\ (Tail(p)[i] = "finish" <=> i = Len(Tail(p)))
                      /\ ~fresh => Tail(p)[i] \notin FromPDF
    OBVIOUS
  <2>1. i + 1 \in 1..Len(p) /\ Tail(p)[i] = p[i + 1]
    BY <1>3, <1>4
  <2>2. /\ p[i + 1] \in Stages /\ (p[i + 1] = "finish" <=> i + 1 = Len(p))
        /\ ~fresh => p[i + 1] \notin FromPDF
    BY <2>1 DEF IsPlan
  <2>3. i + 1 = Len(p) <=> i = Len(Tail(p))
    BY <1>1, <1>3
  <2> HIDE DEF Stages, FromPDF
  <2> QED
    BY <2>1, <2>2, <2>3
<1>6. \A i \in 1..Len(Tail(p)) - 1 : Leads(fresh, split, Tail(p)[i], Tail(p)[i + 1])
  <2> SUFFICES ASSUME NEW i \in 1..Len(Tail(p)) - 1
               PROVE  Leads(fresh, split, Tail(p)[i], Tail(p)[i + 1])
    OBVIOUS
  <2>1. i + 1 \in 1..Len(p) - 1 /\ Tail(p)[i] = p[i + 1] /\ Tail(p)[i + 1] = p[(i + 1) + 1]
    BY <1>1, <1>3, <1>4
  <2>2. Leads(fresh, split, p[i + 1], p[(i + 1) + 1])
    BY <2>1 DEF IsPlan
  <2> QED
    BY <2>1, <2>2
<1>7. Leads(fresh, split, p[1], p[2])
  <2>1. 1 \in 1..Len(p) - 1 /\ 1 + 1 = 2
    BY <1>1, <1>2
  <2> QED
    BY <2>1 DEF IsPlan
<1>8. IsPlan(fresh, split, Tail(p))
  <2> HIDE DEF Stages, FromPDF
  <2>1. Len(Tail(p)) >= 1
    BY <1>1, <1>2, <1>3
  <2> QED
    BY <1>3, <1>5, <1>6, <2>1 DEF IsPlan
<1> QED
  BY <1>1, <1>3, <1>7, <1>8
-----------------------------------------------------------------------------
(* Types, with the numbering of the pages.                                 *)

Kinds == {"unknown"} \cup UNION {s.kinds : s \in Scenarios}
SceneType == [pages : Nat \ {0}, kinds : SUBSET Kinds, split : BOOLEAN,
              serial : BOOLEAN, reruns : Nat]
PoolType == [of : Stages \cup {"none"}, todo : SUBSET SUBSET Nat, hand : SUBSET SUBSET Nat,
             live : Int, erred : BOOLEAN]
PageRecord == [text : {"none", "ok", "failed"}, kind : Kinds, assessed : BOOLEAN]
ReviewsOf(n) == [page : [1..n -> PageRecord], questions : SUBSET Question,
                 ready : BOOLEAN, whole : BOOLEAN, reread : BOOLEAN]

Whole == 1..scene.pages
Running == status = "running"
At(stages) == Running /\ Now \in stages

ControlOK ==
  /\ scene \in SceneType /\ status \in {"running", "done", "failed"}
  /\ cancelled \in BOOLEAN /\ faults \in Nat
  /\ Running => IsPlan(Fresh, scene.split, plan)
\* A pool is open in its own stage alone.
PoolOK ==
  /\ pool \in PoolType
  /\ pool.todo \cup pool.hand \subseteq SUBSET Whole
  /\ pool = NoPool \/ (Running /\ pool.of = Now /\ Now \in {"render", "ocr", "split"})
\* Once rendered, the pages are those of the copy; a run that was cancelled
\* while it rendered may have less, and ends at the first call.
PagesOK ==
  /\ page \in [DOMAIN page -> PageRecord]
  /\ DOMAIN page \subseteq Whole /\ selected \subseteq DOMAIN page
  /\ Running /\ Now # "render" =>
       \/ DOMAIN page = Whole
       \/ cancelled /\ Now = "preflight" /\ DOMAIN page # {} /\ Fresh
QuestionsOK == questions \subseteq Question /\ target \subseteq Question
SavedOK == saved \subseteq ReviewsOf(scene.pages)
RestOK == ~Running =>
  pool = NoPool /\ selected = {} /\ failures = {} /\ target = {} /\ ~cancelled
RenderOK == At({"render"}) =>
  /\ Fresh
  /\ \A u \in pool.todo \cup pool.hand : \E p \in Whole : u = {p}
  /\ pool = NoPool => DOMAIN page = {}
  /\ pool # NoPool /\ ~cancelled /\ ~pool.erred =>
       \A p \in Whole : p \in DOMAIN page \/ {p} \in pool.todo \cup pool.hand
Base == ControlOK /\ PoolOK /\ PagesOK /\ QuestionsOK /\ SavedOK /\ RestOK /\ RenderOK

\* What a stage that ends leaves to its action.
LEMMA Advancing ==
  ASSUME ControlOK, Running, Now # "finish", Advance, faults' \in Nat
  PROVE  /\ ControlOK' /\ PoolOK' /\ RestOK' /\ RenderOK' /\ Running'
         /\ Leads(Fresh, scene.split, Now, Now') /\ (Fresh' <=> Fresh) /\ Whole' = Whole
<1>1. Running' /\ selected' = selected /\ scene' = scene /\ Fresh' = Fresh
  BY DEF Advance, Running, Fresh
<1>2. IsPlan(Fresh, scene.split, plan) /\ Fresh \in BOOLEAN /\ scene.split \in BOOLEAN
  BY DEF ControlOK, SceneType, Fresh
<1>3. IsPlan(Fresh, scene.split, Tail(plan)) /\ Leads(Fresh, scene.split, Now, Head(Tail(plan)))
  BY <1>2, NextStage DEF Now
<1>4. Now' = Head(Tail(plan)) /\ plan' = Tail(plan) /\ pool' = NoPool
  BY DEF Advance, Now
<1>5. ControlOK'
  BY <1>1, <1>3, <1>4 DEF ControlOK, Advance
<1>6. PoolOK'
  BY <1>4 DEF PoolOK, PoolType, NoPool
<1>7. Now' # "render"
  BY <1>3, <1>4 DEF Leads, Edges
<1>8. RestOK' /\ RenderOK'
  BY <1>1, <1>7 DEF RestOK, RenderOK, At
<1> QED
  BY <1>1, <1>3, <1>4, <1>5, <1>6, <1>8 DEF Whole

LEMMA Leaving ==
  ASSUME ControlOK, NEW how \in {"done", "failed"}, Leaves(how), faults' \in Nat
  PROVE  /\ ControlOK' /\ PoolOK' /\ PagesOK' /\ QuestionsOK' /\ RestOK' /\ RenderOK'
         /\ ~Running' /\ scene' = scene
<1>1. /\ status' = how /\ plan' = <<>> /\ selected' = {} /\ pool' = NoPool /\ cancelled' = FALSE
      /\ failures' = {} /\ page' = [p \in {} |-> Unread] /\ questions' = {} /\ target' = {}
      /\ scene' = scene /\ ~Running'
  BY DEF Leaves, Running
<1>2. DOMAIN page' = {} /\ page' \in [DOMAIN page' -> PageRecord]
  BY <1>1
<1>3. ControlOK' /\ RestOK'
  BY <1>1 DEF ControlOK, RestOK, Running
<1>4. PoolOK'
  BY <1>1 DEF PoolOK, PoolType, NoPool
<1>5. PagesOK'
  BY <1>1, <1>2 DEF PagesOK, Running
<1> QED
  BY <1>1, <1>3, <1>4, <1>5 DEF QuestionsOK, RenderOK, At

LEMMA Failing ==
  ASSUME Base, Fail, faults' \in Nat
  PROVE  Base' /\ ~Running' /\ saved' = saved
<1>1. saved' = saved /\ Leaves("failed") /\ ControlOK
  BY DEF Fail, Base
<1>2. scene' = scene
  BY <1>1 DEF Leaves
<1>3. SavedOK'
  BY <1>1, <1>2 DEF Base, SavedOK
<1> QED
  BY <1>1, <1>3, Leaving DEF Base

LEMMA CallsCount ==
  ASSUME ControlOK, CallFails \/ CallAnswers
  PROVE  faults' \in Nat
BY DEF ControlOK, CallFails, CallAnswers

LEMMA Reading ==
  ASSUME page \in [DOMAIN page -> PageRecord], NEW pages, NEW text \in {"ok", "failed"},
         ReadAs(pages, text)
  PROVE  /\ DOMAIN page' = DOMAIN page /\ page' \in [DOMAIN page' -> PageRecord]
         /\ \A p \in DOMAIN page :
              /\ page'[p].assessed = page[p].assessed
              /\ page'[p].text = IF p \in pages THEN text ELSE page[p].text
              /\ page'[p].kind = page[p].kind
              /\ p \notin pages => page'[p] = page[p]
<1>1. \A p \in DOMAIN page : page[p] \in PageRecord
  OBVIOUS
<1>2. \A p \in DOMAIN page : [page[p] EXCEPT !.text = text] \in PageRecord
  BY <1>1 DEF PageRecord
<1>3. page' = [p \in DOMAIN page |-> IF p \in pages THEN [page[p] EXCEPT !.text = text] ELSE page[p]]
  BY DEF ReadAs
<1>4. DOMAIN page' = DOMAIN page
  BY <1>3
<1>5. page' \in [DOMAIN page' -> PageRecord]
  BY <1>1, <1>2, <1>3
<1>6. \A p \in DOMAIN page :
              /\ page'[p].assessed = page[p].assessed
              /\ page'[p].text = IF p \in pages THEN text ELSE page[p].text
              /\ page'[p].kind = page[p].kind
              /\ p \notin pages => page'[p] = page[p]
  BY <1>1, <1>3 DEF PageRecord
<1> QED
  BY <1>4, <1>5, <1>6

\* A step within a stage.
LEMMA Staying ==
  ASSUME ControlOK, UNCHANGED <<scene, plan, selected, status>>, faults' \in Nat,
         cancelled' \in BOOLEAN
  PROVE  /\ ControlOK' /\ (Running' <=> Running) /\ Now' = Now /\ (Fresh' <=> Fresh) /\ Whole' = Whole
<1>1. Running' = Running /\ Now' = Now /\ Fresh' = Fresh /\ Whole' = Whole
  BY DEF Running, Now, Fresh, Whole
<1> QED
  BY <1>1 DEF ControlOK
-----------------------------------------------------------------------------
(* Every step keeps the types: the pools.                                  *)

LEMMA UnitsOfPages ==
  ASSUME Base, NEW stage \in {"render", "ocr", "split"}
  PROVE  /\ Units(stage) \subseteq SUBSET Whole /\ Cardinality(Units(stage)) \in Nat
         /\ stage = "ocr" => Units(stage) \subseteq SUBSET Scope
<1>1. Scope \subseteq DOMAIN page /\ DOMAIN page \subseteq Whole
  BY DEF Base, PagesOK, Scope
<1>2. \A S : Cut(S) \subseteq SUBSET S
  BY DEF Cut
<1>3. Asked \subseteq DOMAIN page
  BY DEF Asked, ForSplit, AnswerBearing, OfKind
<1>4. stage = "ocr" => Units(stage) \subseteq SUBSET Scope
  BY <1>2 DEF Units
<1>5. Units(stage) \subseteq SUBSET Whole
  <2>1. CASE stage = "render"
    BY <2>1 DEF Units, Whole
  <2>2. CASE stage = "ocr"
    BY <1>1, <1>4, <2>2
  <2>3. CASE stage = "split"
    BY <1>1, <1>3, <2>3 DEF Units
  <2> QED
    BY <2>1, <2>2, <2>3
<1>6. IsFiniteSet(SUBSET Whole)
  <2>1. scene.pages \in Nat
    BY DEF Base, ControlOK, SceneType
  <2>2. IsFiniteSet(Whole)
    BY <2>1, FS_Interval DEF Whole
  <2> QED
    BY <2>2, FS_SUBSET
<1>7. Cardinality(Units(stage)) \in Nat
  BY <1>5, <1>6, FS_Subset, FS_CardinalityType
<1> QED
  BY <1>4, <1>5, <1>7

LEMMA PagesStay ==
  ASSUME PagesOK, UNCHANGED <<scene, plan, selected, status, page>>, cancelled => cancelled'
  PROVE  PagesOK'
<1>1. Running' = Running /\ Now' = Now /\ Fresh' = Fresh /\ Whole' = Whole
  BY DEF Running, Now, Fresh, Whole
<1> QED
  BY <1>1 DEF PagesOK

\* The pages may be rewritten where they are.
LEMMA PagesRead ==
  ASSUME PagesOK, UNCHANGED <<scene, plan, selected, status, cancelled>>,
         DOMAIN page' = DOMAIN page, page' \in [DOMAIN page' -> PageRecord]
  PROVE  PagesOK'
<1>1. Running' = Running /\ Now' = Now /\ Fresh' = Fresh /\ Whole' = Whole
  BY DEF Running, Now, Fresh, Whole
<1> QED
  BY <1>1 DEF PagesOK

\* Or the run may go to the next stage with them.
LEMMA PagesPassOn ==
  ASSUME PagesOK, Running, Now \notin {"render", "preflight"}, Advance, Running',
         DOMAIN page' = DOMAIN page, page' \in [DOMAIN page' -> PageRecord]
  PROVE  PagesOK'
BY DEF PagesOK, Advance, Whole

LEMMA OpenPoolTypes ==
  ASSUME Base, NEW stage \in {"render", "ocr", "split"}, OpenPool(stage)
  PROVE  Base'
<1> DEFINE size == Cardinality(Units(stage))
           live == IF Workers < size THEN Workers ELSE size
<1>1. /\ pool' = [NoPool EXCEPT !.of = stage, !.todo = Units(stage), !.live = live]
      /\ UNCHANGED <<scene, plan, selected, content, status, saved, cancelled, faults>>
      /\ Running /\ Now = stage /\ pool = NoPool
  BY DEF OpenPool, Stage, Running, Now
<1>2. Units(stage) \subseteq SUBSET Whole /\ size \in Nat
  BY UnitsOfPages
<1>3. Workers \in Nat
  BY PageAnalysisAssumption
<1>4. live \in Int
  BY <1>2, <1>3
<1>5. Whole \subseteq Nat
  BY DEF Whole
<1> HIDE DEF size, live
<1>6. pool' \in PoolType
  BY <1>1, <1>2, <1>4, <1>5 DEF PoolType, NoPool, Stages
<1>7. pool'.of = stage /\ pool'.todo = Units(stage) /\ pool'.hand = {}
  BY <1>1 DEF NoPool
<1>8. Running' /\ Now' = Now /\ Fresh' = Fresh /\ Whole' = Whole /\ cancelled' = cancelled
  BY <1>1 DEF Running, Now, Fresh, Whole
<1>9. ControlOK'
  BY <1>1, <1>8, Staying DEF Base, ControlOK
<1>10. PoolOK'
  BY <1>1, <1>2, <1>6, <1>7, <1>8 DEF PoolOK
<1>11. PagesOK'
  BY <1>1, PagesStay DEF Base, content
<1>12. QuestionsOK' /\ SavedOK' /\ RestOK'
  BY <1>1, <1>8 DEF Base, QuestionsOK, SavedOK, RestOK, content
<1>13. RenderOK'
  <2>1. SUFFICES ASSUME stage = "render" PROVE RenderOK'
    BY <1>1, <1>8 DEF RenderOK, At
  <2>2. pool'.todo \cup pool'.hand = {{p} : p \in Whole}
    BY <1>7, <2>1 DEF Units, Whole
  <2>3. Fresh'
    BY <1>1, <1>8, <2>1 DEF Base, RenderOK, At
  <2>4. pool' # NoPool
    BY <1>7, <2>1 DEF NoPool
  <2>5. \A u \in pool'.todo \cup pool'.hand : \E p \in Whole' : u = {p}
    BY <1>8, <2>2
  <2>6. \A p \in Whole' : {p} \in pool'.todo \cup pool'.hand
    BY <1>8, <2>2
  <2> QED
    BY <2>3, <2>4, <2>5, <2>6 DEF RenderOK
<1> QED
  BY <1>9, <1>10, <1>11, <1>12, <1>13 DEF Base

\* A unit that changes hands, or is not sent.
LEMMA PoolTypes ==
  ASSUME Base, HandOver \/ StopSending
  PROVE  Base'
<1>1. /\ UNCHANGED <<scene, plan, selected, content, status, saved, cancelled, faults>>
      /\ Running
  BY DEF HandOver, StopSending, Running
<1>2. pool \in PoolType /\ pool.todo \cup pool.hand \subseteq SUBSET Whole
  BY DEF Base, PoolOK
<1>3. /\ pool' \in PoolType /\ pool'.of = pool.of /\ pool'.erred = pool.erred
      /\ pool'.todo \cup pool'.hand \subseteq pool.todo \cup pool.hand
      /\ pool.todo # {}
      /\ ~cancelled /\ ~pool.erred => pool'.todo \cup pool'.hand = pool.todo \cup pool.hand
  <2>1. CASE HandOver
    <3>1. PICK unit \in pool.todo :
            pool' = [pool EXCEPT !.todo = @ \ {unit}, !.hand = @ \cup {unit}]
      BY <2>1 DEF HandOver
    <3>a. /\ pool.todo \in SUBSET SUBSET Nat /\ pool.hand \in SUBSET SUBSET Nat
          /\ unit \in SUBSET Nat
      BY <1>2 DEF PoolType
    <3>b. /\ pool.todo \ {unit} \in SUBSET SUBSET Nat
          /\ pool.hand \cup {unit} \in SUBSET SUBSET Nat
      BY <3>a
    <3>2. pool' \in PoolType /\ pool'.of = pool.of /\ pool'.erred = pool.erred
      BY <1>2, <3>1, <3>b DEF PoolType
    <3>3. pool'.todo = pool.todo \ {unit} /\ pool'.hand = pool.hand \cup {unit}
      BY <1>2, <3>1 DEF PoolType
    <3> QED
      BY <3>2, <3>3
  <2>2. CASE StopSending
    BY <1>2, <2>2 DEF StopSending, PoolType
  <2> QED
    BY <2>1, <2>2
<1>4. pool # NoPool /\ pool.of = Now /\ Now \in {"render", "ocr", "split"}
  BY <1>3 DEF Base, PoolOK, NoPool
<1>5. Running' /\ Now' = Now /\ Fresh' = Fresh /\ Whole' = Whole /\ cancelled' = cancelled
  BY <1>1 DEF Running, Now, Fresh, Whole
<1>6. ControlOK'
  BY <1>1, Staying DEF Base, ControlOK
<1>7. PoolOK'
  BY <1>2, <1>3, <1>4, <1>5 DEF PoolOK
<1>8. PagesOK'
  BY <1>1, PagesStay DEF Base, content
<1>9. QuestionsOK' /\ SavedOK' /\ RestOK'
  BY <1>1, <1>5 DEF Base, QuestionsOK, SavedOK, RestOK, content
<1>10. pool' # NoPool
  BY <1>3, <1>4 DEF NoPool
<1>11. RenderOK'
  BY <1>1, <1>3, <1>4, <1>5, <1>10 DEF Base, RenderOK, At, content
<1> QED
  BY <1>6, <1>7, <1>8, <1>9, <1>11 DEF Base

\* A worker that puts a unit down, and may leave.
LEMMA PuttingDown ==
  ASSUME Base, NEW unit \in pool.hand,
         pool' \in {PutDown(unit), [PutDown(unit) EXCEPT !.erred = TRUE], Leave(unit)}
  PROVE  /\ pool' \in PoolType /\ pool'.of = pool.of /\ pool'.todo = pool.todo
         /\ pool'.hand = pool.hand \ {unit} /\ pool # NoPool /\ pool' # NoPool /\ Running
         /\ pool.of = Now /\ Now \in {"render", "ocr", "split"}
         /\ pool' = PutDown(unit) => pool'.erred = pool.erred
<1>1. pool \in PoolType
  BY DEF Base, PoolOK
<1>2. pool # NoPool
  BY DEF NoPool
<1>3. /\ pool' \in PoolType /\ pool'.of = pool.of /\ pool'.todo = pool.todo
      /\ pool'.hand = pool.hand \ {unit}
      /\ pool' = PutDown(unit) => pool'.erred = pool.erred
  <2>1. CASE pool' = PutDown(unit)
    BY <1>1, <2>1 DEF PoolType, PutDown
  <2>2. CASE pool' = [PutDown(unit) EXCEPT !.erred = TRUE]
    BY <1>1, <2>2 DEF PoolType, PutDown
  <2>3. CASE pool' = Leave(unit)
    <3>1. /\ PutDown(unit) \in PoolType /\ PutDown(unit).of = pool.of
          /\ PutDown(unit).todo = pool.todo /\ PutDown(unit).hand = pool.hand \ {unit}
          /\ PutDown(unit).erred = pool.erred /\ PutDown(unit).live = pool.live
      BY <1>1 DEF PoolType, PutDown
    <3>2. pool' = [PutDown(unit) EXCEPT !.live = PutDown(unit).live - 1, !.erred = TRUE]
      BY <2>3 DEF Leave
    <3>3. PutDown(unit).live - 1 \in Int
      BY <1>1, <3>1 DEF PoolType
    <3>4. /\ pool' \in PoolType /\ pool'.of = pool.of /\ pool'.todo = pool.todo
          /\ pool'.hand = pool.hand \ {unit} /\ pool'.live = pool.live - 1
      BY <3>1, <3>2, <3>3 DEF PoolType
    <3>5. pool' # PutDown(unit)
      BY <1>1, <3>1, <3>4 DEF PoolType
    <3> QED
      BY <3>4, <3>5
  <2> QED
    BY <2>1, <2>2, <2>3
<1>4. Running /\ pool.of = Now /\ Now \in {"render", "ocr", "split"}
  BY <1>2 DEF Base, PoolOK
<1>5. pool' # NoPool
  BY <1>3, <1>4 DEF NoPool
<1> QED
  BY <1>2, <1>3, <1>4, <1>5

LEMMA PoolStays ==
  ASSUME Base, NEW unit \in pool.hand,
         pool' \in {PutDown(unit), [PutDown(unit) EXCEPT !.erred = TRUE], Leave(unit)},
         UNCHANGED <<scene, plan, selected, status>>
  PROVE  PoolOK'
<1>1. Running' = Running /\ Now' = Now /\ Whole' = Whole
  BY DEF Running, Now, Whole
<1>2. /\ pool' \in PoolType /\ pool'.of = pool.of /\ pool'.todo = pool.todo
      /\ pool'.hand = pool.hand \ {unit} /\ Running
      /\ pool.of = Now /\ Now \in {"render", "ocr", "split"}
  BY PuttingDown
<1>3. pool.todo \cup pool.hand \subseteq SUBSET Whole
  BY DEF Base, PoolOK
<1> QED
  BY <1>1, <1>2, <1>3 DEF PoolOK

LEMMA RenderPageTypes ==
  ASSUME Base, RenderPage
  PROVE  Base'
<1>1. PICK unit \in pool.hand :
        /\ Stage("render") /\ ~scene.serial
        /\ \/ /\ ~pool.erred /\ CallAnswers
              /\ page' = [p \in DOMAIN page \cup unit |-> Unread]
              /\ pool' = PutDown(unit)
           \/ /\ CallFails \/ (pool.erred /\ faults' = faults)
              /\ pool' = [PutDown(unit) EXCEPT !.erred = TRUE]
              /\ page' = page
        /\ UNCHANGED <<scene, plan, selected, failures, questions, target, status, saved, cancelled>>
  BY DEF RenderPage
<1>2. Running /\ Now = "render" /\ ControlOK /\ cancelled' = cancelled
  BY <1>1 DEF Stage, Running, Now, Base
<1>3. faults' \in Nat
  BY <1>1, <1>2, CallsCount DEF ControlOK
<1>4. Running' /\ Now' = Now /\ Fresh' = Fresh /\ Whole' = Whole
  BY <1>1, <1>2 DEF Running, Now, Fresh, Whole
<1>5. ControlOK'
  BY <1>1, <1>2, <1>3, Staying DEF ControlOK
<1>6. PoolOK'
  BY <1>1, PoolStays
<1>7. QuestionsOK' /\ SavedOK' /\ RestOK'
  BY <1>1, <1>4 DEF Base, QuestionsOK, SavedOK, RestOK
<1>8. PICK p \in Whole : unit = {p}
  BY <1>1, <1>2 DEF Base, RenderOK, At
<1>9. /\ pool'.todo = pool.todo /\ pool'.hand = pool.hand \ {unit} /\ pool # NoPool /\ pool' # NoPool
      /\ pool' = PutDown(unit) => pool'.erred = pool.erred
  BY <1>1, PuttingDown
<1>10. Unread \in PageRecord
  BY DEF Unread, PageRecord, Kinds
<1>11. CASE CallAnswers /\ ~pool.erred /\ pool' = PutDown(unit)
            /\ page' = [q \in DOMAIN page \cup unit |-> Unread]
  <2>1. DOMAIN page' = DOMAIN page \cup {p} /\ page' \in [DOMAIN page' -> PageRecord]
    BY <1>8, <1>10, <1>11
  <2>2. PagesOK'
    BY <1>1, <1>2, <1>4, <1>8, <2>1 DEF Base, PagesOK
  <2>3. RenderOK'
    <3>1. Fresh' /\ \A u \in pool.todo \cup pool.hand : \E q \in Whole : u = {q}
      BY <1>2, <1>4 DEF Base, RenderOK, At
    <3>2. ~cancelled /\ ~pool.erred =>
            \A q \in Whole : q \in DOMAIN page \/ {q} \in pool.todo \cup pool.hand
      BY <1>2, <1>9 DEF Base, RenderOK, At
    <3>3. \A u \in pool'.todo \cup pool'.hand : \E q \in Whole' : u = {q}
      BY <1>4, <1>9, <3>1
    <3>4. ~cancelled' /\ ~pool'.erred =>
            \A q \in Whole' : q \in DOMAIN page' \/ {q} \in pool'.todo \cup pool'.hand
      <4> SUFFICES ASSUME ~cancelled, ~pool.erred, NEW q \in Whole
                   PROVE  q \in DOMAIN page' \/ {q} \in pool'.todo \cup pool'.hand
        BY <1>2, <1>4, <1>9, <1>11
      <4>1. CASE q = p
        BY <2>1, <4>1
      <4>2. CASE q # p
        <5>1. {q} # unit
          BY <1>8, <4>2
        <5> QED
          BY <1>9, <2>1, <3>2, <5>1
      <4> QED
        BY <4>1, <4>2
    <3> QED
      BY <1>4, <1>9, <3>1, <3>3, <3>4 DEF RenderOK
  <2> QED
    BY <1>5, <1>6, <1>7, <2>2, <2>3 DEF Base
<1>12. CASE pool' = [PutDown(unit) EXCEPT !.erred = TRUE] /\ page' = page
  <2>1. pool'.erred
    <3>1. pool \in PoolType
      BY DEF Base, PoolOK
    <3> QED
      BY <1>12, <3>1 DEF PoolType, PutDown
  <2>2. PagesOK'
    BY <1>1, <1>12, PagesStay DEF Base
  <2>3. RenderOK'
    BY <1>2, <1>4, <1>9, <2>1 DEF Base, RenderOK, At
  <2> QED
    BY <1>5, <1>6, <1>7, <2>2, <2>3 DEF Base
<1> QED
  BY <1>1, <1>11, <1>12
-----------------------------------------------------------------------------
(* Every step keeps the types: rendering and reading.                      *)

LEMMA EndRenderTypes ==
  ASSUME Base, EndRender
  PROVE  Base'
<1>1. faults' \in Nat /\ faults' = faults /\ ControlOK
  BY DEF EndRender, Base, ControlOK
<1>2. CASE Fail
  BY <1>1, <1>2, Failing
<1>3. CASE ~(pool.erred \/ DOMAIN page = {})
  <2>1. /\ Advance /\ page' = [p \in 1..Cardinality(DOMAIN page) |-> Unread]
        /\ UNCHANGED <<failures, questions, target, saved>>
    BY <1>3 DEF EndRender
  <2>2. Running /\ Now = "render" /\ pool.of = "render" /\ pool.todo = {} /\ pool.hand = {}
    BY DEF EndRender, Drained, Stage, Running, Now
  <2>3. /\ ControlOK' /\ PoolOK' /\ RestOK' /\ RenderOK' /\ Running'
        /\ Leads(Fresh, scene.split, Now, Now') /\ (Fresh' <=> Fresh) /\ Whole' = Whole
    BY <1>1, <2>1, <2>2, Advancing
  <2>4. Now' = "preflight"
    BY <2>2, <2>3 DEF Leads, Edges
  <2>5. QuestionsOK' /\ SavedOK'
    BY <2>1 DEF Base, QuestionsOK, SavedOK, Advance
  <2>6. Fresh /\ selected = {} /\ DOMAIN page \subseteq Whole
    BY <2>2 DEF Base, RenderOK, At, PagesOK, Fresh
  <2>7. IsFiniteSet(DOMAIN page) /\ scene.pages \in Nat /\ IsFiniteSet(Whole) /\ Cardinality(Whole) = scene.pages
    <3>1. scene.pages \in Nat \ {0}
      BY DEF Base, ControlOK, SceneType
    <3>2. IsFiniteSet(Whole) /\ Cardinality(Whole) = scene.pages
      BY <3>1, FS_Interval DEF Whole
    <3> QED
      BY <2>6, <3>1, <3>2, FS_Subset
  <2>8. /\ Cardinality(DOMAIN page) \in Nat /\ Cardinality(DOMAIN page) <= scene.pages
        /\ Cardinality(DOMAIN page) # 0
    <3>1. Cardinality(DOMAIN page) <= Cardinality(Whole)
      BY <2>6, <2>7, FS_Subset
    <3>2. Cardinality(DOMAIN page) \in Nat /\ Cardinality(DOMAIN page) # 0
      BY <1>3, <2>7, FS_CardinalityType, FS_EmptySet
    <3> QED
      BY <2>7, <3>1, <3>2
  <2>9. DOMAIN page' = 1..Cardinality(DOMAIN page) /\ page' \in [DOMAIN page' -> PageRecord]
    <3>1. Unread \in PageRecord
      BY DEF Unread, PageRecord, Kinds
    <3> QED
      BY <2>1, <3>1
  <2>10. DOMAIN page' \subseteq Whole /\ DOMAIN page' # {}
    <3>1. 1 \in 1..Cardinality(DOMAIN page)
      BY <2>8
    <3>2. 1..Cardinality(DOMAIN page) \subseteq 1..scene.pages
      BY <2>7, <2>8
    <3> QED
      BY <2>9, <3>1, <3>2 DEF Whole
  <2>11. cancelled \/ DOMAIN page' = Whole
    <3>1. SUFFICES ASSUME ~cancelled PROVE DOMAIN page' = Whole
      OBVIOUS
    <3>2. pool # NoPool
      BY <2>2 DEF NoPool
    <3>3. \A p \in Whole : p \in DOMAIN page
      BY <1>3, <2>2, <3>1, <3>2 DEF Base, RenderOK, At
    <3>4. DOMAIN page = Whole
      BY <2>6, <3>3
    <3> QED
      BY <2>7, <2>9, <3>4 DEF Whole
  <2>12. selected' = {} /\ cancelled' = cancelled
    BY <2>1, <2>6 DEF Advance
  <2>13. PagesOK'
    BY <2>3, <2>4, <2>6, <2>9, <2>10, <2>11, <2>12 DEF PagesOK
  <2> QED
    BY <2>3, <2>5, <2>13 DEF Base
<1> QED
  BY <1>2, <1>3 DEF EndRender

LEMMA RenderAtOnceTypes ==
  ASSUME Base, RenderAtOnce
  PROVE  Base'
<1>1. faults' \in Nat /\ ControlOK /\ Running /\ Now = "render"
  BY CallsCount DEF RenderAtOnce, Base, Stage, Running, Now
<1>2. CASE Fail
  BY <1>1, <1>2, Failing
<1>3. CASE /\ CallAnswers /\ Advance /\ page' = [p \in 1..scene.pages |-> Unread]
           /\ UNCHANGED <<failures, questions, target, saved>>
  <2>3. /\ ControlOK' /\ PoolOK' /\ RestOK' /\ RenderOK' /\ Running'
        /\ Leads(Fresh, scene.split, Now, Now') /\ (Fresh' <=> Fresh) /\ Whole' = Whole
    BY <1>1, <1>3, Advancing
  <2>5. QuestionsOK' /\ SavedOK'
    BY <1>3 DEF Base, QuestionsOK, SavedOK, Advance
  <2>6. selected' = {}
    BY <1>1, <1>3 DEF Base, RenderOK, At, Fresh, Advance
  <2>7. DOMAIN page' = Whole /\ page' \in [DOMAIN page' -> PageRecord]
    <3>1. Unread \in PageRecord
      BY DEF Unread, PageRecord, Kinds
    <3> QED
      BY <1>3, <3>1 DEF Whole
  <2>8. PagesOK'
    BY <2>3, <2>6, <2>7 DEF PagesOK
  <2> QED
    BY <2>3, <2>5, <2>8 DEF Base
<1> QED
  BY <1>2, <1>3 DEF RenderAtOnce

\* A stage after the preflight that ends.
LEMMA Passing ==
  ASSUME Base, Running, Now \notin {"render", "preflight", "finish"}, Advance, faults' \in Nat,
         DOMAIN page' = DOMAIN page, page' \in [DOMAIN page' -> PageRecord],
         QuestionsOK', SavedOK'
  PROVE  Base'
<1>1. ControlOK' /\ PoolOK' /\ RestOK' /\ RenderOK' /\ Running'
  BY Advancing DEF Base
<1>2. PagesOK'
  BY <1>1, PagesPassOn DEF Base
<1> QED
  BY <1>1, <1>2 DEF Base

LEMMA PassingUnchanged ==
  ASSUME Base, Running, Now \notin {"render", "preflight", "finish"}, Advance, faults' \in Nat,
         UNCHANGED <<content, saved>>
  PROVE  Base'
<1>1. DOMAIN page' = DOMAIN page /\ page' \in [DOMAIN page' -> PageRecord]
  BY DEF Base, PagesOK, content
<1>2. QuestionsOK' /\ SavedOK'
  BY DEF Base, QuestionsOK, SavedOK, content, Advance
<1> QED
  BY <1>1, <1>2, Passing

LEMMA PreflightTypes ==
  ASSUME Base, Preflight
  PROVE  Base'
<1>1. faults' \in Nat /\ ControlOK /\ Running /\ Now = "preflight"
  BY CallsCount DEF Preflight, Base, Stage, Running, Now
<1>2. CASE Fail
  BY <1>1, <1>2, Failing
<1>3. ASSUME NEW text \in {"ok", "failed"}, ~cancelled, Advance, ReadAs({Preflighted}, text),
             UNCHANGED <<questions, target, saved>>
      PROVE  Base'
  <2>1. /\ ControlOK' /\ PoolOK' /\ RestOK' /\ RenderOK' /\ Running'
        /\ (Fresh' <=> Fresh) /\ Whole' = Whole
    BY <1>1, <1>3, Advancing
  <2>2. QuestionsOK' /\ SavedOK'
    BY <1>3 DEF Base, QuestionsOK, SavedOK, Advance
  <2>3. DOMAIN page' = DOMAIN page /\ page' \in [DOMAIN page' -> PageRecord]
    BY <1>3, Reading DEF Base, PagesOK
  <2>4. DOMAIN page = Whole /\ selected' = selected /\ selected \subseteq DOMAIN page
    BY <1>1, <1>3 DEF Base, PagesOK, Advance
  <2>5. PagesOK'
    BY <2>1, <2>3, <2>4 DEF PagesOK
  <2> QED
    BY <2>1, <2>2, <2>5 DEF Base
<1>4. CASE /\ CallAnswers /\ Advance /\ ReadAs({Preflighted}, "ok")
           /\ UNCHANGED <<questions, target, saved>>
  BY <1>3, <1>4 DEF CallAnswers
<1>5. CASE /\ ~cancelled /\ Advance /\ ReadAs({Preflighted}, "failed")
           /\ UNCHANGED <<questions, target, saved>>
  BY <1>3, <1>5
<1> QED
  BY <1>2, <1>4, <1>5 DEF Preflight

\* A batch or a page of the pool that is read, classified or given up.
LEMMA WorkingTypes ==
  ASSUME Base, NEW unit \in pool.hand, Now # "render",
         pool' \in {PutDown(unit), Leave(unit)}, faults' \in Nat,
         UNCHANGED <<scene, plan, selected, questions, target, status, saved, cancelled>>,
         DOMAIN page' = DOMAIN page, page' \in [DOMAIN page' -> PageRecord]
  PROVE  Base'
<1>1. Running' = Running /\ Now' = Now /\ Whole' = Whole /\ Running
  BY PuttingDown DEF Running, Now, Whole
<1>2. ControlOK'
  BY Staying DEF Base, ControlOK
<1>3. PoolOK'
  BY PoolStays
<1>4. PagesOK'
  BY PagesRead DEF Base
<1>5. QuestionsOK' /\ SavedOK' /\ RestOK' /\ RenderOK'
  BY <1>1 DEF Base, QuestionsOK, SavedOK, RestOK, RenderOK, At
<1> QED
  BY <1>2, <1>3, <1>4, <1>5 DEF Base

LEMMA ReadBatchTypes ==
  ASSUME Base, ReadBatch
  PROVE  Base'
<1>1. PICK unit \in pool.hand :
        /\ Stage("ocr")
        /\ \/ CallAnswers /\ ReadAs(unit, "ok") /\ failures' = failures
           \/ CallFails /\ ReadAs(unit, "failed") /\ failures' = failures \cup unit
        /\ pool' = PutDown(unit)
        /\ UNCHANGED <<scene, plan, selected, questions, target, status, saved, cancelled>>
  BY DEF ReadBatch
<1>2. faults' \in Nat /\ Now = "ocr"
  BY <1>1, CallsCount DEF Base, Stage, Now
<1>3. DOMAIN page' = DOMAIN page /\ page' \in [DOMAIN page' -> PageRecord]
  BY <1>1, Reading DEF Base, PagesOK
<1> QED
  BY <1>1, <1>2, <1>3, WorkingTypes

LEMMA RetryPageTypes ==
  ASSUME Base, RetryPage
  PROVE  Base'
<1>1. PICK p \in failures :
        /\ Stage("retry")
        /\ \/ CallAnswers /\ ReadAs({p}, "ok")
           \/ CallFails /\ ReadAs({p}, "failed")
        /\ failures' = failures \ {p}
        /\ UNCHANGED <<scene, plan, selected, pool, questions, target, status, saved, cancelled>>
  BY DEF RetryPage
<1>2. faults' \in Nat /\ Now = "retry" /\ Running
  BY <1>1, CallsCount DEF Base, Stage, Now, Running
<1>3. DOMAIN page' = DOMAIN page /\ page' \in [DOMAIN page' -> PageRecord]
  BY <1>1, Reading DEF Base, PagesOK
<1>4. Running' = Running /\ Now' = Now /\ Whole' = Whole
  BY <1>1 DEF Running, Now, Whole
<1>5. ControlOK'
  BY <1>1, <1>2, Staying DEF Base, ControlOK
<1>6. PagesOK'
  BY <1>1, <1>3, PagesRead DEF Base
<1>7. PoolOK' /\ QuestionsOK' /\ SavedOK' /\ RestOK' /\ RenderOK'
  BY <1>1, <1>2, <1>4 DEF Base, PoolOK, QuestionsOK, SavedOK, RestOK, RenderOK, At
<1> QED
  BY <1>5, <1>6, <1>7 DEF Base

\* The ends of stages that leave the pages as they are, or fail.
LEMMA EndTypes ==
  ASSUME Base, EndRead \/ EndRetry \/ EndSplit \/ Report \/ Write
  PROVE  Base'
<1>1. /\ Running /\ Now \in {"ocr", "retry", "split", "report", "write"}
      /\ \/ Fail
         \/ Advance /\ UNCHANGED <<content, saved>>
      /\ faults' \in Nat
  <2>1. ControlOK /\ faults \in Nat
    BY DEF Base, ControlOK
  <2>2. CASE EndRead \/ EndRetry \/ EndSplit
    BY <2>1, <2>2 DEF EndRead, EndRetry, EndSplit, Drained, Stage, Running, Now
  <2>3. CASE Report
    BY <2>1, <2>3, CallsCount DEF Report, Call, Stage, Running, Now
  <2>4. CASE Write
    BY <2>1, <2>4 DEF Write, Stage, Running, Now
  <2> QED
    BY <2>2, <2>3, <2>4
<1>2. CASE Fail
  BY <1>1, <1>2, Failing
<1>3. CASE Advance /\ UNCHANGED <<content, saved>>
  BY <1>1, <1>3, PassingUnchanged
<1> QED
  BY <1>1, <1>2, <1>3
-----------------------------------------------------------------------------
(* Every step keeps the types: questions, ends and requests.               *)

LEMMA SplitPageTypes ==
  ASSUME Base, SplitPage \/ SplitFails
  PROVE  Base'
<1>1. CASE SplitPage
  <2>1. PICK unit \in pool.hand, p \in DOMAIN page :
          /\ Stage("split") /\ CallAnswers
          /\ \/ \E kind \in scene.kinds, told \in BOOLEAN : Classified(p, kind, told)
             \/ Classified(p, "unknown", FALSE)
          /\ pool' = PutDown(unit)
          /\ UNCHANGED <<scene, plan, selected, failures, questions, target, status, saved, cancelled>>
    BY <1>1 DEF SplitPage
  <2>2. PICK kind \in Kinds, told \in BOOLEAN : Classified(p, kind, told)
    <3>1. scene.kinds \subseteq Kinds /\ "unknown" \in Kinds
      BY DEF Base, ControlOK, SceneType, Kinds
    <3> QED
      BY <2>1, <3>1
  <2>3. page[p] \in PageRecord /\ page \in [DOMAIN page -> PageRecord]
    BY DEF Base, PagesOK
  <2>4. DOMAIN page' = DOMAIN page /\ page' \in [DOMAIN page' -> PageRecord]
    BY <2>2, <2>3 DEF Classified, PageRecord
  <2>5. faults' \in Nat /\ Now # "render"
    BY <2>1, CallsCount DEF Base, Stage, Now
  <2> QED
    BY <2>1, <2>4, <2>5, WorkingTypes
<1>2. CASE SplitFails
  <2>1. PICK unit \in pool.hand :
          /\ Stage("split")
          /\ CallFails \/ (pool.erred /\ faults' = faults)
          /\ pool' = Leave(unit)
          /\ UNCHANGED <<scene, plan, selected, content, status, saved, cancelled>>
    BY <1>2 DEF SplitFails
  <2>2. faults' \in Nat /\ Now # "render"
    BY <2>1, CallsCount DEF Base, Stage, Now, ControlOK
  <2>3. DOMAIN page' = DOMAIN page /\ page' \in [DOMAIN page' -> PageRecord]
    BY <2>1 DEF Base, PagesOK, content
  <2> QED
    BY <2>1, <2>2, <2>3, WorkingTypes DEF content
<1> QED
  BY <1>1, <1>2

\* At a stage after the preflight the pages are those of the copy, and a
\* review of them is a review.
LEMMA WholeCopy ==
  ASSUME Base, Running, Now \notin {"render", "preflight"}
  PROVE  /\ DOMAIN page = Whole /\ page \in [1..scene.pages -> PageRecord]
         /\ DOMAIN page \subseteq Nat
<1>1. DOMAIN page = Whole /\ page \in [DOMAIN page -> PageRecord]
  BY DEF Base, PagesOK
<1>2. Whole = 1..scene.pages /\ Whole \subseteq Nat
  BY DEF Whole
<1> QED
  BY <1>1, <1>2

LEMMA CheckpointTypes ==
  ASSUME Base, Checkpoint
  PROVE  Base'
<1>1. faults' \in Nat /\ Running /\ Now = "checkpoint"
  BY CallsCount DEF Checkpoint, Base, Stage, Running, Now
<1>2. CASE Fail
  BY <1>1, <1>2, Failing
<1>3. CASE /\ CallAnswers /\ Advance /\ UNCHANGED content
           /\ saved' = {Review(OnePerPage(DOMAIN page), FALSE, FALSE)}
  <2>1. OnePerPage(DOMAIN page) \subseteq Question
    BY <1>1, WholeCopy, FallbackPartitions
  <2>2. Review(OnePerPage(DOMAIN page), FALSE, FALSE) \in ReviewsOf(scene.pages)
    BY <1>1, <2>1, WholeCopy DEF Review, ReviewsOf
  <2>3. SavedOK' /\ QuestionsOK'
    BY <1>3, <2>2 DEF Base, SavedOK, QuestionsOK, content, Advance
  <2>4. DOMAIN page' = DOMAIN page /\ page' \in [DOMAIN page' -> PageRecord]
    BY <1>3 DEF Base, PagesOK, content
  <2> QED
    BY <1>1, <1>3, <2>3, <2>4, Passing
<1> QED
  BY <1>2, <1>3 DEF Checkpoint

\* A stage that only makes questions.
LEMMA Questioning ==
  ASSUME Base, Running, Now \notin {"render", "preflight", "finish"}, Advance,
         UNCHANGED <<page, saved, faults>>, questions' \subseteq Question, target' \subseteq Question
  PROVE  Base'
<1>1. DOMAIN page' = DOMAIN page /\ page' \in [DOMAIN page' -> PageRecord]
  BY DEF Base, PagesOK
<1>2. faults' \in Nat /\ QuestionsOK' /\ SavedOK'
  BY DEF Base, ControlOK, QuestionsOK, SavedOK, Advance
<1> QED
  BY <1>1, <1>2, Passing

LEMMA FallbackTypes ==
  ASSUME Base, Fallback
  PROVE  Base'
<1>1. Running /\ Now = "fallback"
  BY DEF Fallback, Stage, Running, Now
<1>2. AnswerBearing(page) \in SUBSET Nat
  BY <1>1, WholeCopy DEF AnswerBearing, Readable
<1>3. OnePerPage(AnswerBearing(page)) \subseteq Question
  BY <1>2, FallbackPartitions
<1> QED
  BY <1>1, <1>3, Questioning DEF Fallback, Base, QuestionsOK

\* Whichever way the boundaries are drawn, the questions that are split
\* partition the answers.
LEMMA SplitsAnswers ==
  ASSUME Base, Ledger
  PROVE  \E qs \in SUBSET Question : NewlySplit(qs) /\ Partitions(qs, Answers)
<1>1. Answers \in SUBSET Nat
  <2>1. Running /\ Now = "ledger"
    BY DEF Ledger, Stage, Running, Now
  <2> QED
    BY <2>1, WholeCopy DEF Answers, AnswerBearing, Readable
<1>2. CASE Answers = {}
  <2>1. NewlySplit({})
    BY <1>2 DEF Ledger
  <2>2. Partitions({}, Answers)
    BY <1>2 DEF Partitions
  <2> QED
    BY <2>1, <2>2
<1>3. CASE Answers # {} /\ NewlySplit(OnePerPage(Answers))
  BY <1>1, <1>3, FallbackPartitions
<1>4. CASE Answers # {} /\ \E ledger \in AskedLedgers : NewlySplit(FromLedger(Answers, ledger))
  BY <1>1, <1>4, LedgerPartitions
<1> QED
  BY <1>2, <1>3, <1>4 DEF Ledger

LEMMA LedgerTypes ==
  ASSUME Base, Ledger
  PROVE  Base'
<1>1. Running /\ Now = "ledger" /\ Advance /\ UNCHANGED <<failures, page, saved, faults>>
  BY DEF Ledger, Stage, Running, Now
<1>2. PICK qs \in SUBSET Question : NewlySplit(qs)
  BY SplitsAnswers
<1>3. questions \subseteq Question
  BY DEF Base, QuestionsOK
<1>4. questions' \subseteq Question /\ target' \subseteq Question
  BY <1>2, <1>3 DEF NewlySplit, Replaced
<1> QED
  BY <1>1, <1>4, Questioning

LEMMA DimensionsTypes ==
  ASSUME Base, Dimensions
  PROVE  /\ Base'
         /\ Fresh => \E told \in SUBSET questions :
                       questions' = (questions \ told) \cup {[q EXCEPT !.analysed = TRUE] : q \in told}
<1> DEFINE about == IF Fresh THEN questions
                    ELSE IF target # {} THEN target
                    ELSE Touching(questions, AnswerBearing(page) \cap selected)
           able == IF cancelled THEN {} ELSE {q \in about : ~q.review}
           next(told) == (about \ told) \cup {[q EXCEPT !.analysed = TRUE] : q \in told}
<1>1. /\ Running /\ Now = "dimensions" /\ Advance
      /\ UNCHANGED <<failures, page, target, saved, faults>>
  BY DEF Dimensions, Stage, Running, Now
<1>2. PICK told \in SUBSET able :
        questions' = IF Fresh THEN next(told) ELSE Replaced(questions, next(told), selected)
  BY DEF Dimensions
<1>3. questions \in SUBSET Question /\ target \in SUBSET Question
  BY DEF Base, QuestionsOK
<1>4. about \in SUBSET Question /\ able \subseteq about
  BY <1>3 DEF Touching
<1>5. told \in SUBSET about
  BY <1>4
<1>6. Fresh => about = questions
  OBVIOUS
<1> HIDE DEF about, able
<1>7. next(told) \subseteq Question
  BY <1>4, <1>5, AnalysingKeepsPages
<1>8. questions' \subseteq Question
  BY <1>2, <1>3, <1>7 DEF Replaced
<1>9. Base'
  BY <1>1, <1>3, <1>8, Questioning
<1> QED
  BY <1>2, <1>5, <1>6, <1>9

LEMMA FinishTypes ==
  ASSUME Base, Finish
  PROVE  /\ Base' /\ ~Running' /\ Running /\ Now = "finish"
         /\ \E matched \in BOOLEAN :
              saved' = {[page |-> page, questions |-> questions,
                         ready |-> Satisfies(page, questions, matched),
                         whole |-> Regrouped, reread |-> WasReread]}
<1>1. Running /\ Now = "finish" /\ Leaves("done") /\ faults' \in Nat /\ ControlOK
  BY DEF Finish, Stage, Running, Now, Base, ControlOK
<1>2. PICK matched \in BOOLEAN :
        saved' = {[Review(questions, Satisfies(page, questions, matched), Regrouped)
                     EXCEPT !.reread = WasReread]}
  BY DEF Finish
<1>3. saved' = {[page |-> page, questions |-> questions,
                 ready |-> Satisfies(page, questions, matched),
                 whole |-> Regrouped, reread |-> WasReread]}
  BY <1>2 DEF Review
<1>4. Satisfies(page, questions, matched) \in BOOLEAN /\ Regrouped \in BOOLEAN /\ WasReread \in BOOLEAN
  BY DEF Satisfies, Regrouped, WasReread, Base, ControlOK, SceneType, Fresh
<1>5. page \in [1..scene.pages -> PageRecord] /\ questions \subseteq Question
  BY <1>1, WholeCopy DEF Base, QuestionsOK
<1>6. SavedOK'
  <2>1. scene' = scene
    BY <1>1 DEF Leaves
  <2> QED
    BY <1>3, <1>4, <1>5, <2>1 DEF SavedOK, ReviewsOf
<1>7. Base' /\ ~Running'
  BY <1>1, <1>6, Leaving DEF Base
<1> QED
  BY <1>1, <1>3, <1>7

LEMMA CancelTypes ==
  ASSUME Base, Cancel
  PROVE  Base'
<1>1. /\ Running /\ cancelled' = TRUE
      /\ UNCHANGED <<scene, plan, selected, pool, content, status, saved, faults>>
  BY DEF Cancel, Running
<1>2. Running' = Running /\ Now' = Now /\ Whole' = Whole /\ Fresh' = Fresh
  BY <1>1 DEF Running, Now, Whole, Fresh
<1>3. ControlOK'
  BY <1>1, Staying DEF Base, ControlOK
<1>4. PagesOK'
  BY <1>1, PagesStay DEF Base, content
<1>5. PoolOK' /\ QuestionsOK' /\ SavedOK' /\ RestOK' /\ RenderOK'
  BY <1>1, <1>2 DEF Base, PoolOK, QuestionsOK, SavedOK, RestOK, RenderOK, At, content
<1> QED
  BY <1>3, <1>4, <1>5 DEF Base

LEMMA AgainTypes ==
  ASSUME Base, Again
  PROVE  /\ Base' /\ Running' /\ Now' # "render" /\ DOMAIN page' = Whole' /\ saved' = saved
         /\ Fresh' => Now' = "fallback"
         /\ \E s \in saved : page' = s.page
<1>1. PICK s \in saved :
        /\ ~Running /\ scene.reruns > 0
        /\ scene' = [scene EXCEPT !.reruns = @ - 1]
        /\ \/ selected' = {} /\ plan' = Resumed(scene.split)
           \/ /\ selected' \in SUBSET DOMAIN s.page /\ selected' # {}
              /\ \E action \in {"ocr", "questions", "analytics", "report", "all"} : plan' = Rerun(action)
        /\ page' = s.page /\ questions' = s.questions
        /\ status' = "running"
        /\ UNCHANGED <<pool, failures, target, saved, cancelled, faults>>
  BY DEF Again, Running
<1>2. /\ scene' \in SceneType /\ scene'.pages = scene.pages /\ scene'.split = scene.split
      /\ scene.split \in BOOLEAN
  BY <1>1 DEF Base, ControlOK, SceneType
<1>3. s \in ReviewsOf(scene.pages)
  BY DEF Base, SavedOK
<1>4. s.page \in [1..scene.pages -> PageRecord] /\ s.questions \subseteq Question
  BY <1>3 DEF ReviewsOf
<1>5. Running' /\ Whole' = Whole /\ DOMAIN page' = Whole
  BY <1>1, <1>2, <1>4 DEF Running, Whole
<1>6. IsPlan(Fresh', scene'.split, plan') /\ (Fresh' => Now' = "fallback")
  <2>1. CASE selected' = {} /\ plan' = Resumed(scene.split)
    <3>1. Fresh'
      BY <2>1 DEF Fresh
    <3>2. IsPlan(TRUE, scene.split, Resumed(scene.split)) /\ Head(Resumed(scene.split)) = "fallback"
      BY <1>2, PlansOfAnalysis
    <3> QED
      BY <1>2, <2>1, <3>1, <3>2 DEF Now
  <2>2. CASE /\ selected' # {}
             /\ \E action \in {"ocr", "questions", "analytics", "report", "all"} : plan' = Rerun(action)
    <3>1. Fresh' = FALSE
      BY <2>2 DEF Fresh
    <3>2. IsPlan(FALSE, scene.split, plan')
      BY <1>2, <2>2, PlansOfRerun
    <3> QED
      BY <1>2, <3>1, <3>2
  <2> QED
    BY <1>1, <2>1, <2>2
<1>7. ~Fresh' => Now' \notin FromPDF
  <2>1. Len(plan') \in Nat /\ 1 \in 1..Len(plan') /\ Now' = plan'[1]
    BY <1>6 DEF IsPlan, Now
  <2> QED
    BY <1>6, <2>1 DEF IsPlan
<1>8. Now' \notin {"render", "checkpoint", "write"}
  BY <1>6, <1>7 DEF FromPDF
<1>9. ControlOK'
  BY <1>1, <1>2, <1>5, <1>6 DEF Base, ControlOK
<1>10. PoolOK'
  <2>1. pool = NoPool /\ pool' = NoPool
    BY <1>1 DEF Base, RestOK
  <2> QED
    BY <2>1 DEF PoolOK, PoolType, NoPool
<1>11. PagesOK'
  BY <1>1, <1>4, <1>5 DEF PagesOK
<1>12. QuestionsOK' /\ SavedOK'
  BY <1>1, <1>2, <1>4 DEF Base, QuestionsOK, SavedOK
<1>13. RestOK' /\ RenderOK'
  BY <1>5, <1>8 DEF RestOK, RenderOK, At
<1> QED
  BY <1>1, <1>5, <1>6, <1>8, <1>9, <1>10, <1>11, <1>12, <1>13 DEF Base

LEMMA InitTypes == Init => Base /\ Now = "render"
<1> SUFFICES ASSUME Init PROVE Base /\ Now = "render"
  OBVIOUS
<1>1. scene \in SceneType /\ scene.split \in BOOLEAN
  BY PageAnalysisAssumption DEF Init, SceneType, Kinds
<1>2. Fresh = TRUE /\ Running /\ DOMAIN page = {} /\ faults \in Nat
  BY PageAnalysisAssumption DEF Init, Fresh, Running
<1>3. IsPlan(TRUE, scene.split, plan) /\ Now = "render"
  BY <1>1, PlansOfAnalysis DEF Init, Now
<1>4. ControlOK
  BY <1>1, <1>2, <1>3 DEF Init, ControlOK
<1>5. PoolOK
  BY DEF Init, PoolOK, PoolType, NoPool
<1>6. PagesOK
  BY <1>2, <1>3 DEF Init, PagesOK
<1>7. QuestionsOK /\ SavedOK /\ RestOK /\ RenderOK
  BY <1>2 DEF Init, QuestionsOK, SavedOK, RestOK, RenderOK, NoPool
<1> QED
  BY <1>3, <1>4, <1>5, <1>6, <1>7 DEF Base

LEMMA NextTypes ==
  ASSUME Base, [Next]_vars
  PROVE  Base'
<1>1. CASE UNCHANGED vars
  <2>1. /\ Running' = Running /\ Now' = Now /\ Whole' = Whole /\ Fresh' = Fresh
        /\ UNCHANGED <<scene, plan, selected, pool, failures, page, questions, target, status, saved,
                       cancelled, faults>>
    BY <1>1 DEF Running, Now, Whole, Fresh, vars, content
  <2> QED
    BY <2>1 DEF Base, ControlOK, PoolOK, PagesOK, QuestionsOK, SavedOK, RestOK, RenderOK, At
<1>2. CASE \E stage \in {"render", "ocr", "split"} : OpenPool(stage)
  BY <1>2, OpenPoolTypes
<1>3. CASE HandOver \/ StopSending
  BY <1>3, PoolTypes
<1>4. CASE RenderPage \/ EndRender \/ RenderAtOnce
  BY <1>4, RenderPageTypes, EndRenderTypes, RenderAtOnceTypes
<1>5. CASE Preflight \/ ReadBatch \/ RetryPage
  BY <1>5, PreflightTypes, ReadBatchTypes, RetryPageTypes
<1>6. CASE EndRead \/ EndRetry \/ EndSplit \/ Report \/ Write
  BY <1>6, EndTypes
<1>7. CASE Checkpoint \/ Fallback \/ SplitPage \/ SplitFails
  BY <1>7, CheckpointTypes, FallbackTypes, SplitPageTypes
<1>8. CASE Ledger \/ Dimensions \/ Finish
  BY <1>8, LedgerTypes, DimensionsTypes, FinishTypes
<1>9. CASE Cancel \/ Again
  BY <1>9, CancelTypes, AgainTypes
<1> QED
  BY <1>1, <1>2, <1>3, <1>4, <1>5, <1>6, <1>7, <1>8, <1>9 DEF Next, Step

\* Every variable keeps its type, and the pages of a run are numbered as those
\* of the copy from the end of the rendering on.
THEOREM PageTypesHold == Spec => []Base
<1>1. Base /\ [Next]_vars => Base'
  BY NextTypes
<1> QED
  BY InitTypes, <1>1, PTL DEF Spec
-----------------------------------------------------------------------------
(* A whole analysis has every answer in exactly one question.              *)

IsParted(s) == s.whole => Partitions(s.questions, AnswerBearing(s.page))
Parted ==
  /\ At({"dimensions", "report", "write", "finish"}) /\ Fresh /\ scene.split =>
       Partitions(questions, AnswerBearing(page))
  /\ \A s \in saved : IsParted(s)

LEMMA PartedStays ==
  ASSUME Parted, UNCHANGED <<scene, plan, selected, page, questions, status, saved>>
  PROVE  Parted'
<1>1. Running' = Running /\ Now' = Now /\ Fresh' = Fresh
  BY DEF Running, Now, Fresh
<1> QED
  BY <1>1 DEF Parted, At, IsParted

LEMMA PartedElsewhere ==
  ASSUME Parted, saved' = saved,
         ~(At({"dimensions", "report", "write", "finish"}) /\ Fresh /\ scene.split)'
  PROVE  Parted'
BY DEF Parted, IsParted

LEMMA StageOfUnit ==
  ASSUME Base, NEW unit \in pool.hand
  PROVE  Running /\ Now \in {"render", "ocr", "split"} /\ Now = pool.of
BY DEF Base, PoolOK, NoPool

LEMMA NextParted ==
  ASSUME Base, Parted, Next
  PROVE  Parted'
<1>1. CASE (\E stage \in {"render", "ocr", "split"} : OpenPool(stage)) \/ HandOver \/ StopSending
           \/ SplitFails \/ Cancel
  BY <1>1, PartedStays DEF OpenPool, HandOver, StopSending, SplitFails, Cancel, content
<1>2. CASE RenderPage \/ ReadBatch \/ SplitPage \/ RetryPage
  <2>1. UNCHANGED <<scene, plan, selected, status, saved>> /\ Now \in {"render", "ocr", "split", "retry"}
    BY <1>2 DEF RenderPage, ReadBatch, SplitPage, RetryPage, Stage, Now
  <2>2. Now' = Now
    BY <2>1 DEF Now
  <2> QED
    BY <2>1, <2>2, PartedElsewhere DEF At
<1>3. CASE Fail
  <2>1. saved' = saved /\ ~Running'
    BY <1>3 DEF Fail, Leaves, Running
  <2> QED
    BY <2>1, PartedElsewhere DEF At
<1>4. CASE /\ Advance /\ saved' = saved /\ faults' \in Nat /\ Running
           /\ Now \in {"render", "preflight", "ocr", "retry", "fallback", "split"}
  <2>1. Leads(Fresh, scene.split, Now, Now') /\ (Fresh' <=> Fresh) /\ scene' = scene
    BY <1>4, Advancing DEF Base, Advance
  <2>2. ~(At({"dimensions", "report", "write", "finish"}) /\ Fresh /\ scene.split)'
    BY <1>4, <2>1 DEF Leads, Edges, At
  <2> QED
    BY <1>4, <2>2, PartedElsewhere
<1>5. CASE EndRender \/ RenderAtOnce \/ Preflight
  <2>1. /\ Running /\ Now \in {"render", "preflight"} /\ faults' \in Nat
        /\ Fail \/ (Advance /\ saved' = saved)
    <3>1. ControlOK /\ faults \in Nat
      BY DEF Base, ControlOK
    <3>2. CASE EndRender
      BY <3>1, <3>2 DEF EndRender, Drained, Stage, Running, Now
    <3>3. CASE RenderAtOnce
      BY <3>1, <3>3, CallsCount DEF RenderAtOnce, Stage, Running, Now
    <3>4. CASE Preflight
      BY <3>1, <3>4, CallsCount DEF Preflight, Stage, Running, Now
    <3> QED
      BY <1>5, <3>2, <3>3, <3>4
  <2> QED
    BY <1>3, <1>4, <2>1
<1>6. CASE EndRead \/ EndRetry \/ EndSplit \/ Fallback
  <2>1. /\ Running /\ Now \in {"ocr", "retry", "split", "fallback"} /\ faults' \in Nat
        /\ Fail \/ (Advance /\ saved' = saved)
    <3>1. faults \in Nat
      BY DEF Base, ControlOK
    <3>2. CASE EndRead \/ EndSplit
      BY <3>1, <3>2 DEF EndRead, EndSplit, Drained, Stage, Running, Now
    <3>3. CASE EndRetry
      BY <3>1, <3>3 DEF EndRetry, Stage, Running, Now
    <3>4. CASE Fallback
      BY <3>1, <3>4 DEF Fallback, Stage, Running, Now
    <3> QED
      BY <1>6, <3>2, <3>3, <3>4
  <2> QED
    BY <1>3, <1>4, <2>1
<1>7. CASE Checkpoint
  <2>1. Running /\ Now = "checkpoint" /\ faults' \in Nat
    BY <1>7, CallsCount DEF Checkpoint, Stage, Running, Now, Base
  <2>2. CASE Advance /\ saved' = {Review(OnePerPage(DOMAIN page), FALSE, FALSE)}
    <3>1. Leads(Fresh, scene.split, Now, Now')
      BY <2>1, <2>2, Advancing DEF Base
    <3>2. Now' = "fallback"
      BY <2>1, <3>1 DEF Leads, Edges
    <3>3. \A s \in saved' : IsParted(s)
      BY <2>2 DEF Review, IsParted
    <3> QED
      BY <3>2, <3>3 DEF Parted, At
  <2> QED
    BY <1>3, <1>7, <2>2 DEF Checkpoint
<1>8. CASE Ledger
  <2>1. /\ Running /\ Now = "ledger" /\ Advance /\ UNCHANGED <<failures, page, saved, faults>>
        /\ scene' = scene
    BY <1>8 DEF Ledger, Stage, Running, Now, Advance
  <2>2. PICK qs \in SUBSET Question : NewlySplit(qs) /\ Partitions(qs, Answers)
    BY <1>8, SplitsAnswers
  <2>3. Fresh' <=> Fresh
    BY <2>1 DEF Fresh, Advance
  <2>4. ASSUME Fresh PROVE Partitions(questions', AnswerBearing(page'))
    <3>1. Answers = AnswerBearing(page)
      BY <2>4 DEF Answers, Scope, AnswerBearing, Readable
    <3>2. questions' = qs
      BY <2>2, <2>4 DEF NewlySplit
    <3> QED
      BY <2>1, <2>2, <3>1, <3>2
  <2>5. \A s \in saved' : IsParted(s)
    BY <2>1 DEF Parted
  <2> QED
    BY <2>3, <2>4, <2>5 DEF Parted
<1>9. CASE Dimensions
  <2>1. /\ Running /\ Now = "dimensions" /\ Advance /\ UNCHANGED <<page, saved>>
        /\ scene' = scene
    BY <1>9 DEF Dimensions, Stage, Running, Now, Advance
  <2>2. Fresh' <=> Fresh
    BY <2>1 DEF Fresh, Advance
  <2>3. ASSUME Fresh, scene.split PROVE Partitions(questions', AnswerBearing(page'))
    <3>1. PICK told \in SUBSET questions :
            questions' = (questions \ told) \cup {[q EXCEPT !.analysed = TRUE] : q \in told}
      BY <1>9, <2>3, DimensionsTypes
    <3>2. questions \in SUBSET Question /\ Partitions(questions, AnswerBearing(page))
      BY <2>1, <2>3 DEF Base, QuestionsOK, Parted, At
    <3> QED
      BY <2>1, <3>1, <3>2, AnalysingKeepsPages
  <2>4. \A s \in saved' : IsParted(s)
    BY <2>1 DEF Parted
  <2> QED
    BY <2>1, <2>2, <2>3, <2>4 DEF Parted
<1>10. CASE Report \/ Write
  <2>1. /\ Running /\ Now \in {"report", "write"}
        /\ Fail \/ (Advance /\ UNCHANGED <<content, saved>>)
    <3>1. CASE Report
      BY <3>1 DEF Report, Call, Stage, Running, Now
    <3>2. CASE Write
      BY <3>2 DEF Write, Stage, Running, Now
    <3> QED
      BY <1>10, <3>1, <3>2
  <2>2. CASE Advance /\ UNCHANGED <<content, saved>>
    <3>1. Fresh' = Fresh /\ scene' = scene /\ UNCHANGED <<page, questions, saved>>
      BY <2>2 DEF Fresh, Advance, content
    <3>2. Fresh /\ scene.split => Partitions(questions, AnswerBearing(page))
      BY <2>1 DEF Parted, At
    <3> QED
      BY <3>1, <3>2 DEF Parted
  <2> QED
    BY <1>3, <2>1, <2>2
<1>11. CASE Finish
  <2>1. ~Running' /\ Running /\ Now = "finish"
    BY <1>11, FinishTypes
  <2>2. \A s \in saved' : IsParted(s)
    <3>1. PICK matched \in BOOLEAN :
            saved' = {[page |-> page, questions |-> questions,
                       ready |-> Satisfies(page, questions, matched),
                       whole |-> Regrouped, reread |-> WasReread]}
      BY <1>11, FinishTypes
    <3>2. Regrouped => Partitions(questions, AnswerBearing(page))
      BY <2>1 DEF Regrouped, Parted, At
    <3> HIDE DEF Regrouped
    <3> QED
      BY <3>1, <3>2 DEF IsParted
  <2> QED
    BY <2>1, <2>2 DEF Parted, At
<1>12. CASE Again
  <2>1. saved' = saved /\ (Fresh' => Now' = "fallback")
    BY <1>12, AgainTypes
  <2> QED
    BY <2>1, PartedElsewhere DEF At
<1> QED
  BY <1>1, <1>2, <1>5, <1>6, <1>7, <1>8, <1>9, <1>10, <1>11, <1>12 DEF Next, Step

\* An analysis that was told to split and came to its end, from the PDF or
\* from stored pages, covers the copy: every page was rendered, and every
\* answer on a readable page is in exactly one question, with no other page in
\* any; whatever was retried, cancelled or could not be parsed on the way.
THEOREM AnswersInOneQuestion == Spec => []EveryAnswerOnce
<1>1. Init => Base /\ Parted
  BY InitTypes DEF Init, Parted, At
<1>2. Base /\ Parted /\ [Next]_vars => (Base /\ Parted)'
  <2> SUFFICES ASSUME Base, Parted, [Next]_vars PROVE Base' /\ Parted'
    OBVIOUS
  <2>1. CASE UNCHANGED vars
    BY <2>1, NextTypes, PartedStays DEF vars, content
  <2> QED
    BY <2>1, NextTypes, NextParted
<1>3. Base /\ Parted => EveryAnswerOnce
  <2> SUFFICES ASSUME Base, Parted, NEW s \in saved, s.whole
               PROVE  /\ DOMAIN s.page = 1..scene.pages
                      /\ UNION {q.pages : q \in s.questions} = AnswerBearing(s.page)
                      /\ \A p \in AnswerBearing(s.page) : Cardinality({q \in s.questions : p \in q.pages}) = 1
    BY DEF EveryAnswerOnce
  <2>1. s \in ReviewsOf(scene.pages) /\ Partitions(s.questions, AnswerBearing(s.page))
    BY DEF Base, SavedOK, Parted, IsParted
  <2>2. DOMAIN s.page = 1..scene.pages
    BY <2>1 DEF ReviewsOf
  <2>3. ASSUME NEW p \in AnswerBearing(s.page)
        PROVE  Cardinality({q \in s.questions : p \in q.pages}) = 1
    <3>1. PICK q \in s.questions : {r \in s.questions : p \in r.pages} = {q}
      BY <2>1 DEF Partitions, Once
    <3> QED
      BY <3>1, FS_Singleton
  <2> QED
    BY <2>1, <2>2, <2>3 DEF Partitions
<1> QED
  BY <1>1, <1>2, <1>3, PTL DEF Spec
-----------------------------------------------------------------------------
(* What is read.                                                           *)

\* The pages of a stored review were read, for better or worse, and so were
\* those of a run that is past its OCR or began with stored pages.
SavedRead == \A s \in saved : \A p \in DOMAIN s.page : s.page[p].text # "none"
AllRead == Running /\ (~Fresh \/ Now \notin {"render", "preflight", "ocr"}) =>
  \A p \in DOMAIN page : page[p].text # "none"
\* A page that is yet to be read is in the pool, or will be.
ToRead == At({"ocr"}) /\ Fresh /\ ~cancelled =>
  \A p \in DOMAIN page : page[p].text = "none" =>
    IF pool = NoPool THEN ~First(Scope, p)
    ELSE \E u \in pool.todo \cup pool.hand : p \in u
UnitsOK ==
  /\ At({"ocr"}) => /\ ~pool.erred
                    /\ \A u \in pool.todo \cup pool.hand : u \subseteq Scope
  /\ At({"split"}) => \A u \in pool.todo \cup pool.hand :
                        \E p \in DOMAIN page : u = {p} /\ page[p].text = "ok"
FailuresOK == Running => failures \subseteq Scope /\ (Now = "render" => failures = {})
Texts == SavedRead /\ AllRead /\ ToRead /\ UnitsOK /\ FailuresOK

LEMMA PreflightedFirst ==
  ASSUME Base, Running, Now \in {"preflight", "ocr"}
  PROVE  Preflighted \in Scope /\ First(Scope, Preflighted) /\ Scope \subseteq Nat /\ Scope \subseteq DOMAIN page
<1>1. Scope \subseteq DOMAIN page
  BY DEF Base, PagesOK, Scope
<1>2. Scope \subseteq Nat
  BY <1>1 DEF Base, PagesOK, Whole
<1>3. Scope # {}
  <2>1. 1 \in Whole
    BY DEF Base, ControlOK, SceneType, Whole
  <2>2. DOMAIN page # {}
    BY <2>1 DEF Base, PagesOK
  <2> QED
    BY <2>2 DEF Scope, Fresh
<1>4. \E p \in Scope : First(Scope, p)
  BY <1>2, <1>3, FirstExists
<1> QED
  BY <1>1, <1>2, <1>4 DEF Preflighted

\* The batches that the dispatch loop cuts leave no page out.
LEMMA CutCovers ==
  ASSUME NEW S, S \subseteq Nat, IsFiniteSet(S), NEW p \in S
  PROVE  \E u \in Cut(S) : p \in u
<1> DEFINE c(x) == Cardinality({q \in S : q < x})
           k == c(p) \div BatchSize
           u == {x \in S : c(x) \div BatchSize = k}
<1>1. c(p) \in Nat /\ Cardinality(S) \in Nat /\ c(p) <= Cardinality(S)
  <2>1. {q \in S : q < p} \in SUBSET S
    OBVIOUS
  <2> QED
    BY <2>1, FS_Subset, FS_CardinalityType
<1>2. BatchSize \in 1..10
  BY PageAnalysisAssumption
<1>3. \A m \in Nat, b \in 1..10 : m \div b \in Nat /\ m \div b <= m
  OBVIOUS
<1>4. k \in 0..Cardinality(S)
  <2>1. k \in Nat /\ k <= c(p)
    BY <1>1, <1>2, <1>3
  <2> HIDE DEF k, c
  <2> QED
    BY <1>1, <2>1
<1>5. p \in u
  OBVIOUS
<1>6. u \in {{x \in S : c(x) \div BatchSize = j} : j \in 0..Cardinality(S)}
  BY <1>4
<1>7. u \in Cut(S)
  <2>1. u # {}
    BY <1>5
  <2> HIDE DEF k
  <2> QED
    BY <1>6, <2>1 DEF Cut
<1> QED
  BY <1>5, <1>7

LEMMA TextsStay ==
  ASSUME Texts, UNCHANGED <<scene, plan, selected, failures, page, status, saved, pool>>,
         cancelled => cancelled'
  PROVE  Texts'
<1>1. Running' = Running /\ Now' = Now /\ Fresh' = Fresh /\ Scope' = Scope
  BY DEF Running, Now, Fresh, Scope
<1> QED
  BY <1>1 DEF Texts, SavedRead, AllRead, ToRead, UnitsOK, FailuresOK, At

\* A stage that ends without a change of pages.
LEMMA TextsPass ==
  ASSUME Base, Texts, Running, Now \notin {"render", "preflight", "ocr", "finish"}, Advance,
         faults' \in Nat, UNCHANGED <<page, failures>>, SavedRead'
  PROVE  Texts'
<1>1. /\ Running' /\ (Fresh' <=> Fresh) /\ Leads(Fresh, scene.split, Now, Now')
      /\ pool' = NoPool
  BY Advancing DEF Base, Advance
<1>2. Now' \notin {"render", "preflight", "ocr"}
  BY <1>1 DEF Leads, Edges
<1>3. Scope' = Scope
  BY DEF Scope, Fresh, Advance
<1>4. AllRead'
  BY <1>1 DEF Texts, AllRead
<1>5. ToRead'
  BY <1>2 DEF ToRead, At
<1>6. UnitsOK'
  BY <1>1, <1>2 DEF UnitsOK, At, NoPool
<1>7. FailuresOK'
  BY <1>2, <1>3 DEF Texts, FailuresOK
<1> QED
  BY <1>4, <1>5, <1>6, <1>7 DEF Texts

LEMMA TextsEnd ==
  ASSUME ~Running', SavedRead'
  PROVE  Texts'
BY DEF Texts, AllRead, ToRead, UnitsOK, FailuresOK, At

LEMMA SavedReadStays ==
  ASSUME Texts, saved' = saved
  PROVE  SavedRead'
BY DEF Texts, SavedRead

LEMMA OpenPoolTexts ==
  ASSUME Base, Texts, NEW stage \in {"render", "ocr", "split"}, OpenPool(stage)
  PROVE  Texts'
<1>1. /\ Running /\ Now = stage /\ pool = NoPool
      /\ UNCHANGED <<scene, plan, selected, content, status, saved, cancelled, faults>>
      /\ pool'.todo = Units(stage) /\ pool'.hand = {} /\ pool'.of = stage /\ pool'.erred = FALSE
  BY DEF OpenPool, Stage, Running, Now, NoPool
<1>2. /\ Running' = Running /\ Now' = Now /\ Fresh' = Fresh /\ Scope' = Scope
      /\ page' = page /\ failures' = failures
  BY <1>1 DEF Running, Now, Fresh, Scope, content
<1>3. pool' # NoPool
  BY <1>1 DEF NoPool
<1>4. SavedRead' /\ AllRead' /\ FailuresOK'
  BY <1>1, <1>2 DEF Texts, SavedRead, AllRead, FailuresOK
<1>5. ToRead'
  <2> SUFFICES ASSUME stage = "ocr", Fresh, ~cancelled, NEW p \in DOMAIN page, page[p].text = "none"
               PROVE  \E u \in Units(stage) : p \in u
    BY <1>1, <1>2, <1>3 DEF ToRead, At
  <2>1. ~First(Scope, p)
    BY <1>1 DEF Texts, ToRead, At
  <2>2. First(Scope, Preflighted) /\ Scope \subseteq Nat /\ Scope \subseteq DOMAIN page
    BY <1>1, PreflightedFirst
  <2>3. p \in Scope \ {Preflighted}
    BY <2>1, <2>2 DEF Scope
  <2>4. IsFiniteSet(Scope \ {Preflighted})
    <3>1. scene.pages \in Nat /\ Scope \subseteq Whole
      BY <2>2 DEF Base, ControlOK, SceneType, PagesOK
    <3>2. IsFiniteSet(Whole)
      BY <3>1, FS_Interval DEF Whole
    <3>3. Scope \ {Preflighted} \in SUBSET Whole
      BY <3>1
    <3> QED
      BY <3>2, <3>3, FS_Subset
  <2>5. \E u \in Cut(Scope \ {Preflighted}) : p \in u
    BY <2>2, <2>3, <2>4, CutCovers
  <2> QED
    BY <2>5 DEF Units
<1>6. UnitsOK'
  <2>1. stage = "ocr" => \A u \in Units(stage) : u \subseteq Scope
    BY UnitsOfPages
  <2>2. ASSUME stage = "split", NEW u \in Units(stage)
        PROVE  \E p \in DOMAIN page : u = {p} /\ page[p].text = "ok"
    <3>1. PICK p \in Asked : u = {p}
      BY <2>2 DEF Units
    <3>2. p \in DOMAIN page /\ page[p].text # "failed"
      BY <3>1 DEF Asked, ForSplit, AnswerBearing, OfKind, Readable
    <3>3. page[p].text # "none"
      BY <1>1, <2>2, <3>2 DEF Texts, AllRead
    <3>4. page[p].text \in {"none", "ok", "failed"}
      BY <3>2 DEF Base, PagesOK, PageRecord
    <3> QED
      BY <3>1, <3>2, <3>3, <3>4
  <2> QED
    BY <1>1, <1>2, <2>1, <2>2 DEF UnitsOK, At
<1> QED
  BY <1>4, <1>5, <1>6 DEF Texts

LEMMA PoolTexts ==
  ASSUME Base, Texts, HandOver \/ StopSending
  PROVE  Texts'
<1>1. /\ UNCHANGED <<scene, plan, selected, content, status, saved, cancelled, faults>>
      /\ Running
  BY DEF HandOver, StopSending, Running
<1>2. pool \in PoolType
  BY DEF Base, PoolOK
<1>3. /\ pool'.erred = pool.erred /\ pool'.of = pool.of /\ pool.todo # {}
      /\ \A u \in pool'.todo \cup pool'.hand : u \in pool.todo \cup pool.hand
      /\ ~cancelled /\ ~pool.erred => \A u \in pool.todo \cup pool.hand : u \in pool'.todo \cup pool'.hand
  <2>1. CASE HandOver
    <3>1. PICK unit \in pool.todo :
            pool' = [pool EXCEPT !.todo = @ \ {unit}, !.hand = @ \cup {unit}]
      BY <2>1 DEF HandOver
    <3>2. pool'.erred = pool.erred /\ pool'.of = pool.of
      BY <1>2, <3>1 DEF PoolType
    <3>3. pool'.todo = pool.todo \ {unit} /\ pool'.hand = pool.hand \cup {unit}
      BY <1>2, <3>1 DEF PoolType
    <3> QED
      BY <3>2, <3>3
  <2>2. CASE StopSending
    BY <1>2, <2>2 DEF StopSending, PoolType
  <2> QED
    BY <2>1, <2>2
<1>4. /\ Running' = Running /\ Now' = Now /\ Fresh' = Fresh /\ Scope' = Scope
      /\ page' = page /\ failures' = failures /\ cancelled' = cancelled
  BY <1>1 DEF Running, Now, Fresh, Scope, content
<1>5. SavedRead' /\ AllRead' /\ FailuresOK'
  BY <1>1, <1>4 DEF Texts, SavedRead, AllRead, FailuresOK
<1>6. pool # NoPool /\ pool' # NoPool
  <2>1. pool # NoPool
    BY <1>3 DEF NoPool
  <2>2. pool.of # "none"
    BY <2>1 DEF Base, PoolOK
  <2> QED
    BY <1>3, <2>1, <2>2 DEF NoPool
<1>7. ToRead'
  <2> SUFFICES ASSUME At({"ocr"}), Fresh, ~cancelled, NEW p \in DOMAIN page, page[p].text = "none"
               PROVE  \E u \in pool'.todo \cup pool'.hand : p \in u
    BY <1>4, <1>6 DEF ToRead, At
  <2>1. ~pool.erred /\ \E u \in pool.todo \cup pool.hand : p \in u
    BY <1>6 DEF Texts, ToRead, UnitsOK
  <2> QED
    BY <1>3, <2>1
<1>8. UnitsOK'
  BY <1>3, <1>4 DEF Texts, UnitsOK, At
<1> QED
  BY <1>5, <1>7, <1>8 DEF Texts

LEMMA RenderTexts ==
  ASSUME Base, Texts, RenderPage \/ EndRender \/ RenderAtOnce
  PROVE  Texts'
<1>1. Running /\ Now = "render" /\ ControlOK /\ failures = {}
  BY DEF RenderPage, EndRender, RenderAtOnce, Drained, Stage, Running, Now, Base, Texts, FailuresOK
<1>2. CASE Fail
  <2>1. saved' = saved /\ ~Running'
    BY <1>2 DEF Fail, Leaves, Running
  <2> QED
    BY <2>1, TextsEnd, SavedReadStays
<1>3. CASE RenderPage
  <2>1. UNCHANGED <<scene, plan, selected, failures, status, saved, cancelled>>
    BY <1>3 DEF RenderPage
  <2>2. Running' = Running /\ Now' = Now /\ Fresh' = Fresh /\ failures' = {} /\ saved' = saved
    BY <1>1, <2>1 DEF Running, Now, Fresh
  <2>3. Fresh
    BY <1>1 DEF Base, RenderOK, At
  <2>4. AllRead' /\ ToRead' /\ UnitsOK' /\ FailuresOK'
    BY <1>1, <2>2, <2>3 DEF AllRead, ToRead, UnitsOK, FailuresOK, At
  <2> QED
    BY <2>2, <2>4, SavedReadStays DEF Texts
<1>4. CASE Advance /\ UNCHANGED <<failures, saved>> /\ faults' \in Nat
  <2>1. /\ Running' /\ (Fresh' <=> Fresh) /\ Leads(Fresh, scene.split, Now, Now')
    BY <1>1, <1>4, Advancing
  <2>2. Now' = "preflight"
    BY <1>1, <2>1 DEF Leads, Edges
  <2>3. Fresh
    BY <1>1 DEF Base, RenderOK, At
  <2>4. AllRead' /\ ToRead' /\ UnitsOK' /\ FailuresOK'
    BY <1>1, <1>4, <2>1, <2>2, <2>3 DEF AllRead, ToRead, UnitsOK, FailuresOK, At
  <2> QED
    BY <1>4, <2>4, SavedReadStays DEF Texts
<1>5. CASE EndRender
  <2>1. Fail \/ (Advance /\ UNCHANGED <<failures, saved>> /\ faults' \in Nat)
    BY <1>1, <1>5 DEF EndRender, ControlOK
  <2> QED
    BY <1>2, <1>4, <2>1
<1>6. CASE RenderAtOnce
  <2>1. Fail \/ (Advance /\ UNCHANGED <<failures, saved>> /\ faults' \in Nat)
    BY <1>1, <1>6, CallsCount DEF RenderAtOnce
  <2> QED
    BY <1>2, <1>4, <2>1
<1> QED
  BY <1>3, <1>5, <1>6

LEMMA PreflightTexts ==
  ASSUME Base, Texts, Preflight
  PROVE  Texts'
<1>1. Running /\ Now = "preflight" /\ faults' \in Nat
  BY CallsCount DEF Preflight, Base, Stage, Running, Now
<1>2. CASE Fail
  <2>1. saved' = saved /\ ~Running'
    BY <1>2 DEF Fail, Leaves, Running
  <2> QED
    BY <2>1, TextsEnd, SavedReadStays
<1>3. ASSUME NEW text \in {"ok", "failed"}, Advance, ReadAs({Preflighted}, text),
             failures' \subseteq {Preflighted}, saved' = saved
      PROVE  Texts'
  <2>1. /\ Running' /\ (Fresh' <=> Fresh) /\ Leads(Fresh, scene.split, Now, Now')
        /\ pool' = NoPool
    BY <1>1, <1>3, Advancing DEF Base, Advance
  <2>2. Now' = "ocr"
    BY <1>1, <2>1 DEF Leads, Edges
  <2>3. /\ DOMAIN page' = DOMAIN page
        /\ \A p \in DOMAIN page : page'[p].text = IF p \in {Preflighted} THEN text ELSE page[p].text
    BY <1>3, Reading DEF Base, PagesOK
  <2>4. Scope' = Scope
    BY <1>3, <2>3 DEF Scope, Fresh, Advance
  <2>5. Preflighted \in Scope /\ First(Scope, Preflighted) /\ Scope \subseteq Nat
    BY <1>1, PreflightedFirst
  <2>6. AllRead'
    <3>1. ASSUME ~Fresh, NEW p \in DOMAIN page PROVE page'[p].text # "none"
      <4>1. page[p].text # "none"
        BY <1>1, <3>1 DEF Texts, AllRead
      <4> QED
        BY <2>3, <4>1
    <3> QED
      BY <2>1, <2>2, <2>3, <3>1 DEF AllRead
  <2>7. ToRead'
    <3>1. ASSUME Fresh, NEW p \in DOMAIN page, page'[p].text = "none" PROVE ~First(Scope, p)
      <4>1. p # Preflighted /\ p \in Scope
        BY <2>3, <3>1 DEF Scope
      <4>2. p \in Nat /\ Preflighted \in Nat
        BY <2>5, <4>1
      <4> QED
        BY <2>5, <4>1, <4>2 DEF First
    <3> QED
      BY <2>1, <2>2, <2>3, <2>4, <3>1 DEF ToRead
  <2>8. UnitsOK' /\ FailuresOK'
    BY <1>3, <2>1, <2>2, <2>4, <2>5 DEF UnitsOK, FailuresOK, At, NoPool
  <2> QED
    BY <1>3, <2>6, <2>7, <2>8, SavedReadStays DEF Texts
<1>4. CASE /\ Advance /\ ReadAs({Preflighted}, "ok") /\ failures' = {} /\ saved' = saved
  BY <1>3, <1>4
<1>5. CASE /\ Advance /\ ReadAs({Preflighted}, "failed") /\ failures' = {Preflighted} /\ saved' = saved
  BY <1>3, <1>5
<1> QED
  BY <1>2, <1>4, <1>5 DEF Preflight

LEMMA ReadBatchTexts ==
  ASSUME Base, Texts, ReadBatch
  PROVE  Texts'
<1>1. PICK unit \in pool.hand, text \in {"ok", "failed"} :
        /\ Stage("ocr") /\ ReadAs(unit, text) /\ failures' \subseteq failures \cup unit
        /\ pool' = PutDown(unit)
        /\ UNCHANGED <<scene, plan, selected, questions, target, status, saved, cancelled>>
  BY DEF ReadBatch
<1>2. Running /\ Now = "ocr"
  BY <1>1 DEF Stage, Running, Now
<1>3. /\ DOMAIN page' = DOMAIN page
      /\ \A p \in DOMAIN page : page'[p].text = IF p \in unit THEN text ELSE page[p].text
  BY <1>1, Reading DEF Base, PagesOK
<1>4. Running' = Running /\ Now' = Now /\ Fresh' = Fresh /\ Scope' = Scope /\ cancelled' = cancelled
  BY <1>1, <1>3 DEF Running, Now, Fresh, Scope
<1>5. /\ pool'.todo = pool.todo /\ pool'.hand = pool.hand \ {unit} /\ pool # NoPool /\ pool' # NoPool
      /\ pool'.erred = pool.erred
  BY <1>1, PuttingDown
<1>6. unit \subseteq Scope /\ ~pool.erred
  BY <1>2 DEF Texts, UnitsOK, At
<1>7. AllRead'
  <2>1. ASSUME ~Fresh, NEW p \in DOMAIN page PROVE page'[p].text # "none"
    <3>1. page[p].text # "none"
      BY <1>2, <2>1 DEF Texts, AllRead
    <3> QED
      BY <1>3, <3>1
  <2> QED
    BY <1>2, <1>3, <1>4, <2>1 DEF AllRead
<1>8. ToRead'
  <2> SUFFICES ASSUME Fresh, ~cancelled, NEW p \in DOMAIN page, page'[p].text = "none"
               PROVE  \E u \in pool'.todo \cup pool'.hand : p \in u
    BY <1>3, <1>4, <1>5 DEF ToRead
  <2>1. p \notin unit /\ page[p].text = "none"
    BY <1>3
  <2>2. PICK u \in pool.todo \cup pool.hand : p \in u
    BY <1>2, <1>5, <2>1 DEF Texts, ToRead, At
  <2>3. u # unit
    BY <2>1, <2>2
  <2> QED
    BY <1>5, <2>2, <2>3
<1>9. UnitsOK'
  BY <1>2, <1>4, <1>5 DEF Texts, UnitsOK, At
<1>10. FailuresOK'
  BY <1>1, <1>2, <1>4, <1>6 DEF Texts, FailuresOK
<1> QED
  BY <1>1, <1>7, <1>8, <1>9, <1>10, SavedReadStays DEF Texts

LEMMA EndReadTexts ==
  ASSUME Base, Texts, EndRead
  PROVE  Texts'
<1>1. /\ Running /\ Now = "ocr" /\ faults' \in Nat /\ pool.of = "ocr"
      /\ pool.todo = {} /\ pool.hand = {}
  BY DEF EndRead, Drained, Stage, Running, Now, Base, ControlOK
<1>2. CASE cancelled
  <2>1. saved' = saved /\ ~Running'
    BY <1>2 DEF EndRead, Fail, Leaves, Running
  <2> QED
    BY <2>1, TextsEnd, SavedReadStays
<1>3. CASE ~cancelled
  <2>1. Advance /\ UNCHANGED <<page, failures, saved>>
    BY <1>3 DEF EndRead, content
  <2>2. /\ Running' /\ (Fresh' <=> Fresh) /\ Leads(Fresh, scene.split, Now, Now')
        /\ pool' = NoPool
    BY <1>1, <2>1, Advancing DEF Base, Advance
  <2>3. Now' = "retry" /\ Scope' = Scope
    BY <1>1, <2>1, <2>2 DEF Leads, Edges, Scope, Fresh, Advance
  <2>4. ASSUME NEW p \in DOMAIN page PROVE page[p].text # "none"
    <3>1. CASE ~Fresh
      BY <1>1, <3>1 DEF Texts, AllRead
    <3>2. CASE Fresh
      <4>1. pool # NoPool
        BY <1>1 DEF NoPool
      <4> QED
        BY <1>1, <1>3, <3>2, <4>1 DEF Texts, ToRead, At
    <3> QED
      BY <3>1, <3>2
  <2>5. AllRead' /\ ToRead' /\ UnitsOK' /\ FailuresOK'
    BY <1>1, <2>1, <2>2, <2>3, <2>4 DEF Texts, AllRead, ToRead, UnitsOK, FailuresOK, At
  <2> QED
    BY <2>1, <2>5, SavedReadStays DEF Texts
<1> QED
  BY <1>2, <1>3

LEMMA RetryTexts ==
  ASSUME Base, Texts, RetryPage
  PROVE  Texts'
<1>1. PICK q \in failures, text \in {"ok", "failed"} :
        /\ Stage("retry") /\ ReadAs({q}, text) /\ failures' = failures \ {q}
        /\ UNCHANGED <<scene, plan, selected, pool, questions, target, status, saved, cancelled>>
  BY DEF RetryPage
<1>2. Running /\ Now = "retry"
  BY <1>1 DEF Stage, Running, Now
<1>3. /\ DOMAIN page' = DOMAIN page
      /\ \A p \in DOMAIN page : page'[p].text = IF p \in {q} THEN text ELSE page[p].text
  BY <1>1, Reading DEF Base, PagesOK
<1>4. Running' = Running /\ Now' = Now /\ Fresh' = Fresh /\ Scope' = Scope
  BY <1>1, <1>3 DEF Running, Now, Fresh, Scope
<1>5. AllRead'
  <2>1. ASSUME NEW p \in DOMAIN page PROVE page'[p].text # "none"
    <3>1. page[p].text # "none"
      BY <1>2, <2>1 DEF Texts, AllRead
    <3> QED
      BY <1>3, <3>1
  <2> QED
    BY <1>3, <2>1 DEF AllRead
<1>6. ToRead' /\ UnitsOK' /\ FailuresOK'
  BY <1>1, <1>2, <1>4 DEF Texts, ToRead, UnitsOK, FailuresOK, At
<1> QED
  BY <1>1, <1>5, <1>6, SavedReadStays DEF Texts

LEMMA SplitTexts ==
  ASSUME Base, Texts, SplitPage \/ SplitFails
  PROVE  /\ Texts'
         /\ DOMAIN page' = DOMAIN page
         /\ \A p \in DOMAIN page : page'[p].text = page[p].text
         /\ \A p \in DOMAIN page : page'[p].assessed => page[p].assessed \/ page[p].text = "ok"
<1>1. PICK unit \in pool.hand :
        /\ Stage("split") /\ pool' \in {PutDown(unit), Leave(unit)}
        /\ UNCHANGED <<scene, plan, selected, failures, status, saved, cancelled>>
        /\ \/ page' = page
           \/ \E p \in DOMAIN page : \E kind, told :
                unit = {p} /\ Classified(p, kind, told)
  <2>1. CASE SplitPage
    BY <2>1 DEF SplitPage
  <2>2. CASE SplitFails
    BY <2>2 DEF SplitFails, content
  <2> QED
    BY <2>1, <2>2
<1>2. Running /\ Now = "split"
  BY <1>1 DEF Stage, Running, Now
<1>3. /\ \A u \in pool'.todo \cup pool'.hand : u \in pool.todo \cup pool.hand
      /\ \E q \in DOMAIN page : unit = {q} /\ page[q].text = "ok"
  <2>1. pool'.todo = pool.todo /\ pool'.hand = pool.hand \ {unit}
    BY <1>1, PuttingDown
  <2>2. \E q \in DOMAIN page : unit = {q} /\ page[q].text = "ok"
    BY <1>2 DEF Texts, UnitsOK, At
  <2> QED
    BY <2>1, <2>2
<1>4. /\ DOMAIN page' = DOMAIN page
      /\ \A p \in DOMAIN page : page'[p].text = page[p].text
      /\ \A p \in DOMAIN page : page'[p].assessed => page[p].assessed \/ page[p].text = "ok"
  <2>1. CASE page' = page
    BY <2>1
  <2>2. ASSUME NEW p \in DOMAIN page, NEW kind, NEW told, unit = {p}, Classified(p, kind, told)
        PROVE  /\ DOMAIN page' = DOMAIN page
               /\ \A q \in DOMAIN page : page'[q].text = page[q].text
               /\ \A q \in DOMAIN page : page'[q].assessed => page[q].assessed \/ page[q].text = "ok"
    <3>1. page[p] \in PageRecord /\ page[p].text = "ok"
      BY <1>3, <2>2 DEF Base, PagesOK
    <3>2. page' = [page EXCEPT ![p] = [[@ EXCEPT !.kind = kind] EXCEPT !.assessed = told]]
      BY <2>2 DEF Classified
    <3>3. /\ DOMAIN page' = DOMAIN page
          /\ \A q \in DOMAIN page : q # p => page'[q] = page[q]
          /\ page'[p].text = page[p].text
      BY <3>1, <3>2 DEF PageRecord
    <3> QED
      BY <3>1, <3>3
  <2> QED
    BY <1>1, <2>1, <2>2
<1>5. Running' = Running /\ Now' = Now /\ Fresh' = Fresh /\ Scope' = Scope
  BY <1>1, <1>4 DEF Running, Now, Fresh, Scope
<1>6. AllRead' /\ ToRead' /\ FailuresOK'
  BY <1>1, <1>2, <1>4, <1>5 DEF Texts, AllRead, ToRead, FailuresOK, At
<1>7. UnitsOK'
  <2>1. \A u \in pool.todo \cup pool.hand : \E p \in DOMAIN page : u = {p} /\ page[p].text = "ok"
    BY <1>2 DEF Texts, UnitsOK, At
  <2>2. \A u \in pool'.todo \cup pool'.hand : \E p \in DOMAIN page' : u = {p} /\ page'[p].text = "ok"
    BY <1>3, <1>4, <2>1
  <2> QED
    BY <1>2, <1>5, <2>2 DEF UnitsOK, At
<1> QED
  BY <1>1, <1>4, <1>6, <1>7, SavedReadStays DEF Texts

LEMMA NextTexts ==
  ASSUME Base, Texts, Next
  PROVE  Texts'
<1>1. CASE \E stage \in {"render", "ocr", "split"} : OpenPool(stage)
  BY <1>1, OpenPoolTexts
<1>2. CASE HandOver \/ StopSending
  BY <1>2, PoolTexts
<1>3. CASE RenderPage \/ EndRender \/ RenderAtOnce
  BY <1>3, RenderTexts
<1>4. CASE Preflight \/ ReadBatch \/ EndRead \/ RetryPage
  BY <1>4, PreflightTexts, ReadBatchTexts, EndReadTexts, RetryTexts
<1>5. CASE SplitPage \/ SplitFails
  BY <1>5, SplitTexts
<1>6. CASE Fail
  <2>1. saved' = saved /\ ~Running'
    BY <1>6 DEF Fail, Leaves, Running
  <2> QED
    BY <2>1, TextsEnd, SavedReadStays
<1>7. CASE /\ Advance /\ saved' = saved /\ faults' \in Nat /\ Running
           /\ Now \notin {"render", "preflight", "ocr", "finish"}
           /\ UNCHANGED <<page, failures>>
  BY <1>7, TextsPass, SavedReadStays
<1>8. CASE EndRetry \/ EndSplit
  <2>1. /\ Running /\ Now \in {"retry", "split"} /\ faults' \in Nat
        /\ Fail \/ (Advance /\ UNCHANGED <<page, failures, saved>>)
    <3>1. faults \in Nat
      BY DEF Base, ControlOK
    <3>2. CASE EndRetry
      BY <3>1, <3>2 DEF EndRetry, Stage, Running, Now, content
    <3>3. CASE EndSplit
      BY <3>1, <3>3 DEF EndSplit, Drained, Stage, Running, Now, content
    <3> QED
      BY <1>8, <3>2, <3>3
  <2> QED
    BY <1>6, <1>7, <2>1
<1>9. CASE Fallback \/ Ledger \/ Dimensions
  <2>1. /\ Running /\ Now \in {"fallback", "ledger", "dimensions"} /\ faults' \in Nat
        /\ Advance /\ UNCHANGED <<page, failures, saved>>
    <3>1. faults \in Nat
      BY DEF Base, ControlOK
    <3>2. CASE Fallback
      BY <3>1, <3>2 DEF Fallback, Stage, Running, Now
    <3>3. CASE Ledger
      BY <3>1, <3>3 DEF Ledger, Stage, Running, Now
    <3>4. CASE Dimensions
      BY <3>1, <3>4 DEF Dimensions, Stage, Running, Now
    <3> QED
      BY <1>9, <3>2, <3>3, <3>4
  <2> QED
    BY <1>7, <2>1
<1>10. CASE Report \/ Write
  <2>1. /\ Running /\ Now \in {"report", "write"} /\ faults' \in Nat
        /\ Fail \/ (Advance /\ UNCHANGED <<page, failures, saved>>)
    <3>1. ControlOK /\ faults \in Nat
      BY DEF Base, ControlOK
    <3>2. CASE Report
      BY <3>1, <3>2, CallsCount DEF Report, Call, Stage, Running, Now, content
    <3>3. CASE Write
      BY <3>1, <3>3 DEF Write, Stage, Running, Now, content
    <3> QED
      BY <1>10, <3>2, <3>3
  <2> QED
    BY <1>6, <1>7, <2>1
<1>11. CASE Checkpoint
  <2>1. Running /\ Now = "checkpoint" /\ faults' \in Nat
    BY <1>11, CallsCount DEF Checkpoint, Stage, Running, Now, Base
  <2>2. CASE /\ Advance /\ UNCHANGED content
             /\ saved' = {Review(OnePerPage(DOMAIN page), FALSE, FALSE)}
    <3>1. SavedRead'
      BY <2>1, <2>2 DEF Texts, AllRead, SavedRead, Review
    <3> QED
      BY <2>1, <2>2, <3>1, TextsPass DEF content
  <2> QED
    BY <1>6, <1>11, <2>2 DEF Checkpoint
<1>12. CASE Finish
  <2>1. ~Running' /\ Running /\ Now = "finish"
    BY <1>12, FinishTypes
  <2>2. \A p \in DOMAIN page : page[p].text # "none"
    BY <2>1 DEF Texts, AllRead
  <2>3. \A s \in saved' : s.page = page
    BY <1>12, FinishTypes
  <2>4. SavedRead'
    BY <2>2, <2>3 DEF SavedRead
  <2> QED
    BY <2>1, <2>4, TextsEnd
<1>13. CASE Cancel
  BY <1>13, TextsStay DEF Cancel, content
<1>14. CASE Again
  <2>1. /\ Running' /\ Now' # "render" /\ DOMAIN page' = Whole' /\ saved' = saved
        /\ Fresh' => Now' = "fallback"
        /\ \E s \in saved : page' = s.page
    BY <1>14, AgainTypes
  <2>2. pool' = NoPool /\ failures' = {}
    BY <1>14 DEF Again, Base, RestOK, Running
  <2>3. AllRead'
    BY <2>1 DEF Texts, SavedRead, AllRead
  <2>4. ToRead' /\ UnitsOK' /\ FailuresOK'
    BY <2>1, <2>2 DEF ToRead, UnitsOK, FailuresOK, At, NoPool
  <2> QED
    BY <2>1, <2>3, <2>4, SavedReadStays DEF Texts
<1> QED
  BY <1>1, <1>2, <1>3, <1>4, <1>5, <1>8, <1>9, <1>10, <1>11, <1>12, <1>13, <1>14 DEF Next, Step
-----------------------------------------------------------------------------
(* What is assessed.                                                       *)

\* Up to its checkpoint an analysis has assessed nothing, and up to its first
\* page that is classified a rerun has what it was given.
Unjudged == At({"render", "preflight", "ocr", "retry", "checkpoint"}) =>
  IF Fresh THEN \A p \in DOMAIN page : ~page[p].assessed
  ELSE \E s \in saved : \A p \in DOMAIN page : page[p].assessed = s.page[p].assessed
\* A page that is assessed and not read lost its text to a rerun, which the
\* review remembers, or will.
Excused(p) ==
  \/ \E s \in saved : s.reread
  \/ /\ ~Fresh /\ p \in selected /\ page[p].text = "failed"
     /\ \E s \in saved : s.page[p].assessed
Blamed == \A p \in DOMAIN page : page[p].assessed /\ page[p].text # "ok" => Excused(p)
IsSound(s) ==
  /\ s.ready => \A p \in DOMAIN s.page : s.page[p].assessed
  /\ ~s.reread => \A p \in DOMAIN s.page : s.page[p].assessed => s.page[p].text = "ok"
SavedSound == \A s \in saved : IsSound(s)
Judged == Unjudged /\ Blamed /\ SavedSound

LEMMA SavedSoundStays ==
  ASSUME Judged, saved' = saved
  PROVE  SavedSound'
BY DEF Judged, SavedSound, IsSound

LEMMA JudgedStays ==
  ASSUME Judged, UNCHANGED <<plan, selected, page, status, saved>>
  PROVE  Judged'
<1>1. Running' = Running /\ Now' = Now /\ Fresh' = Fresh
  BY DEF Running, Now, Fresh
<1> QED
  BY <1>1 DEF Judged, Unjudged, Blamed, Excused, SavedSound, IsSound, At

LEMMA JudgedEnds ==
  ASSUME ~Running', DOMAIN page' = {}, SavedSound'
  PROVE  Judged'
BY DEF Judged, Unjudged, Blamed, At

\* A stage that ends without a change of pages.
LEMMA JudgedPass ==
  ASSUME Base, Judged, Running, Now # "finish", Advance, faults' \in Nat, UNCHANGED <<page, saved>>
  PROVE  Judged'
<1>1. /\ Running' /\ (Fresh' <=> Fresh) /\ Leads(Fresh, scene.split, Now, Now')
      /\ selected' = selected
  BY Advancing DEF Base, Advance
<1>2. Now' \in {"render", "preflight", "ocr", "retry", "checkpoint"} =>
        Now \in {"render", "preflight", "ocr", "retry", "checkpoint"}
  BY <1>1 DEF Leads, Edges
<1>3. Unjudged'
  BY <1>1, <1>2 DEF Judged, Unjudged, At
<1>4. Blamed'
  BY <1>1 DEF Judged, Blamed, Excused
<1> QED
  BY <1>3, <1>4, SavedSoundStays DEF Judged

\* Pages that are read before any is classified.
LEMMA JudgedRead ==
  ASSUME Base, Judged, Running, Now \in {"preflight", "ocr", "retry"},
         NEW unit, unit \subseteq Scope, NEW text \in {"ok", "failed"}, ReadAs(unit, text),
         Running', selected' = selected, saved' = saved,
         Now' \in {"preflight", "ocr", "retry"}
  PROVE  Judged'
<1>1. /\ DOMAIN page' = DOMAIN page
      /\ \A p \in DOMAIN page :
           /\ page'[p].assessed = page[p].assessed
           /\ page'[p].text = IF p \in unit THEN text ELSE page[p].text
  BY Reading DEF Base, PagesOK
<1>2. Fresh' = Fresh
  BY DEF Fresh
<1>3. Unjudged'
  BY <1>1, <1>2 DEF Judged, Unjudged, At
<1>4. Blamed'
  <2> SUFFICES ASSUME NEW p \in DOMAIN page, page'[p].assessed, page'[p].text # "ok"
               PROVE  Excused(p)'
    BY <1>1 DEF Blamed
  <2>1. page[p].assessed
    BY <1>1
  <2>2. CASE p \in unit
    <3>1. page'[p].text = "failed"
      BY <1>1, <2>2
    <3>2. ~Fresh
      BY <2>1 DEF Judged, Unjudged, At
    <3>3. p \in selected
      BY <2>2, <3>2 DEF Scope
    <3>4. \E s \in saved : s.page[p].assessed
      BY <2>1, <3>2 DEF Judged, Unjudged, At
    <3> QED
      BY <1>2, <3>1, <3>2, <3>3, <3>4 DEF Excused
  <2>3. CASE p \notin unit
    <3>1. page'[p].text = page[p].text
      BY <1>1, <2>3
    <3>2. Excused(p)
      BY <2>1, <3>1 DEF Judged, Blamed
    <3> QED
      BY <1>2, <3>1, <3>2 DEF Excused
  <2> QED
    BY <2>2, <2>3
<1> QED
  BY <1>3, <1>4, SavedSoundStays DEF Judged

LEMMA NextJudged ==
  ASSUME Base, Texts, Judged, Next
  PROVE  Judged'
<1>1. CASE (\E stage \in {"render", "ocr", "split"} : OpenPool(stage)) \/ HandOver \/ StopSending
           \/ SplitFails \/ Cancel
  BY <1>1, JudgedStays DEF OpenPool, HandOver, StopSending, SplitFails, Cancel, content
<1>2. CASE Fail
  <2>1. saved' = saved /\ ~Running' /\ DOMAIN page' = {}
    BY <1>2 DEF Fail, Leaves, Running
  <2> QED
    BY <2>1, JudgedEnds, SavedSoundStays
<1>3. CASE RenderPage \/ EndRender \/ RenderAtOnce
  <2>1. /\ Running /\ Now = "render" /\ ControlOK
        /\ Fail \/ /\ Running' /\ UNCHANGED <<selected, saved>>
                   /\ \A p \in DOMAIN page' : page'[p] = Unread \/ (p \in DOMAIN page /\ page'[p] = page[p])
                   /\ (plan' = plan) \/ (Advance /\ faults' \in Nat)
    <3>1. ControlOK /\ faults \in Nat
      BY DEF Base, ControlOK
    <3>2. CASE RenderPage
      BY <3>1, <3>2 DEF RenderPage, Stage, Running, Now
    <3>3. CASE EndRender
      BY <3>1, <3>3 DEF EndRender, Drained, Stage, Running, Now, Advance
    <3>4. CASE RenderAtOnce
      BY <3>1, <3>4, CallsCount DEF RenderAtOnce, Stage, Running, Now, Advance
    <3> QED
      BY <1>3, <3>2, <3>3, <3>4
  <2>2. CASE /\ Running' /\ UNCHANGED <<selected, saved>>
             /\ \A p \in DOMAIN page' : page'[p] = Unread \/ (p \in DOMAIN page /\ page'[p] = page[p])
    <3>1. Fresh /\ Fresh' = Fresh
      BY <2>1, <2>2 DEF Base, RenderOK, At, Fresh
    <3>2. \A p \in DOMAIN page' : ~page'[p].assessed
      BY <2>1, <2>2, <3>1 DEF Judged, Unjudged, At, Unread
    <3>3. Unjudged' /\ Blamed'
      BY <3>1, <3>2 DEF Unjudged, Blamed
    <3> QED
      BY <2>2, <3>3, SavedSoundStays DEF Judged
  <2> QED
    BY <1>2, <2>1, <2>2
<1>4. CASE Preflight
  <2>1. Running /\ Now = "preflight" /\ faults' \in Nat
    BY <1>4, CallsCount DEF Preflight, Base, Stage, Running, Now
  <2>2. ASSUME NEW text \in {"ok", "failed"}, Advance, ReadAs({Preflighted}, text), saved' = saved
        PROVE  Judged'
    <3>1. Running' /\ Leads(Fresh, scene.split, Now, Now') /\ selected' = selected
      BY <2>1, <2>2, Advancing DEF Base, Advance
    <3>2. Now' = "ocr"
      BY <2>1, <3>1 DEF Leads, Edges
    <3>3. {Preflighted} \subseteq Scope
      BY <2>1, PreflightedFirst
    <3> QED
      BY <2>1, <2>2, <3>1, <3>2, <3>3, JudgedRead
  <2>3. CASE Advance /\ ReadAs({Preflighted}, "ok") /\ saved' = saved
    BY <2>2, <2>3
  <2>4. CASE Advance /\ ReadAs({Preflighted}, "failed") /\ saved' = saved
    BY <2>2, <2>4
  <2> QED
    BY <1>2, <1>4, <2>3, <2>4 DEF Preflight
<1>5. CASE ReadBatch
  <2>1. PICK unit \in pool.hand, text \in {"ok", "failed"} :
          /\ Stage("ocr") /\ ReadAs(unit, text)
          /\ UNCHANGED <<plan, selected, status, saved>>
    BY <1>5 DEF ReadBatch
  <2>2. Running /\ Now = "ocr" /\ Running' /\ Now' = Now
    BY <2>1 DEF Stage, Running, Now
  <2>3. unit \subseteq Scope
    BY <2>2 DEF Texts, UnitsOK, At
  <2> QED
    BY <2>1, <2>2, <2>3, JudgedRead
<1>6. CASE RetryPage
  <2>1. PICK p \in failures, text \in {"ok", "failed"} :
          /\ Stage("retry") /\ ReadAs({p}, text)
          /\ UNCHANGED <<plan, selected, status, saved>>
    BY <1>6 DEF RetryPage
  <2>2. Running /\ Now = "retry" /\ Running' /\ Now' = Now
    BY <2>1 DEF Stage, Running, Now
  <2>3. {p} \subseteq Scope
    BY <2>2 DEF Texts, FailuresOK
  <2> QED
    BY <2>1, <2>2, <2>3, JudgedRead
<1>7. CASE SplitPage
  <2>1. /\ Running /\ Now = "split" /\ Running' = Running /\ Now' = Now /\ Fresh' = Fresh
        /\ UNCHANGED <<selected, saved>>
    BY <1>7 DEF SplitPage, Stage, Running, Now, Fresh
  <2>2. /\ DOMAIN page' = DOMAIN page
        /\ \A p \in DOMAIN page : page'[p].text = page[p].text
        /\ \A p \in DOMAIN page : page'[p].assessed => page[p].assessed \/ page[p].text = "ok"
    BY <1>7, SplitTexts
  <2>3. Unjudged'
    BY <2>1 DEF Unjudged, At
  <2>4. Blamed'
    BY <2>1, <2>2 DEF Judged, Blamed, Excused
  <2> QED
    BY <2>1, <2>3, <2>4, SavedSoundStays DEF Judged
<1>8. CASE EndRead \/ EndRetry \/ EndSplit
  <2>1. /\ Running /\ Now \in {"ocr", "retry", "split"} /\ faults' \in Nat
        /\ Fail \/ (Advance /\ UNCHANGED <<page, saved>>)
    <3>1. faults \in Nat
      BY DEF Base, ControlOK
    <3>2. CASE EndRead
      BY <3>1, <3>2 DEF EndRead, Drained, Stage, Running, Now, content
    <3>3. CASE EndRetry
      BY <3>1, <3>3 DEF EndRetry, Stage, Running, Now, content
    <3>4. CASE EndSplit
      BY <3>1, <3>4 DEF EndSplit, Drained, Stage, Running, Now, content
    <3> QED
      BY <1>8, <3>2, <3>3, <3>4
  <2> QED
    BY <1>2, <2>1, JudgedPass
<1>9. CASE Fallback \/ Ledger \/ Dimensions
  <2>1. /\ Running /\ Now \in {"fallback", "ledger", "dimensions"} /\ faults' \in Nat
        /\ Advance /\ UNCHANGED <<page, saved>>
    <3>1. faults \in Nat
      BY DEF Base, ControlOK
    <3>2. CASE Fallback
      BY <3>1, <3>2 DEF Fallback, Stage, Running, Now
    <3>3. CASE Ledger
      BY <3>1, <3>3 DEF Ledger, Stage, Running, Now
    <3>4. CASE Dimensions
      BY <3>1, <3>4 DEF Dimensions, Stage, Running, Now
    <3> QED
      BY <1>9, <3>2, <3>3, <3>4
  <2> QED
    BY <2>1, JudgedPass
<1>10. CASE Report \/ Write
  <2>1. /\ Running /\ Now \in {"report", "write"} /\ faults' \in Nat
        /\ Fail \/ (Advance /\ UNCHANGED <<page, saved>>)
    <3>1. ControlOK /\ faults \in Nat
      BY DEF Base, ControlOK
    <3>2. CASE Report
      BY <3>1, <3>2, CallsCount DEF Report, Call, Stage, Running, Now, content
    <3>3. CASE Write
      BY <3>1, <3>3 DEF Write, Stage, Running, Now, content
    <3> QED
      BY <1>10, <3>2, <3>3
  <2> QED
    BY <1>2, <2>1, JudgedPass
<1>11. CASE Checkpoint
  <2>1. Running /\ Now = "checkpoint" /\ faults' \in Nat
    BY <1>11, CallsCount DEF Checkpoint, Stage, Running, Now, Base
  <2>2. CASE /\ Advance /\ UNCHANGED content
             /\ saved' = {Review(OnePerPage(DOMAIN page), FALSE, FALSE)}
    <3>1. Fresh
      <4>1. Len(plan) \in Nat /\ 1 \in 1..Len(plan) /\ Now = plan[1]
        BY <2>1 DEF Base, ControlOK, IsPlan, Now
      <4> QED
        BY <2>1, <4>1 DEF Base, ControlOK, IsPlan, FromPDF
    <3>2. \A p \in DOMAIN page : ~page[p].assessed
      BY <2>1, <3>1 DEF Judged, Unjudged, At
    <3>3. Leads(Fresh, scene.split, Now, Now') /\ page' = page
      BY <2>1, <2>2, Advancing DEF Base, content
    <3>4. Now' = "fallback"
      BY <2>1, <3>3 DEF Leads, Edges
    <3>5. SavedSound'
      BY <2>2, <3>2 DEF SavedSound, IsSound, Review
    <3>6. Unjudged' /\ Blamed'
      BY <3>2, <3>3, <3>4 DEF Unjudged, Blamed, At
    <3> QED
      BY <3>5, <3>6 DEF Judged
  <2> QED
    BY <1>2, <1>11, <2>2 DEF Checkpoint
<1>12. CASE Finish
  <2>1. ~Running' /\ DOMAIN page' = {}
    BY <1>12 DEF Finish, Leaves, Running
  <2>2. PICK matched \in BOOLEAN :
          saved' = {[page |-> page, questions |-> questions,
                     ready |-> Satisfies(page, questions, matched),
                     whole |-> Regrouped, reread |-> WasReread]}
    BY <1>12, FinishTypes
  <2>3. Satisfies(page, questions, matched) => \A p \in DOMAIN page : page[p].assessed
    BY DEF Satisfies, InDoubt
  <2>4. ASSUME ~WasReread, NEW p \in DOMAIN page, page[p].assessed PROVE page[p].text = "ok"
    <3>1. ~Excused(p)
      BY <2>4 DEF WasReread, Excused
    <3> QED
      BY <2>4, <3>1 DEF Judged, Blamed
  <2>5. SavedSound'
    <3> HIDE DEF WasReread
    <3>1. \A s \in saved' : /\ s.page = page /\ s.ready = Satisfies(page, questions, matched)
                            /\ s.reread = WasReread
      BY <2>2
    <3> QED
      BY <2>3, <2>4, <3>1 DEF SavedSound, IsSound
  <2> QED
    BY <2>1, <2>5, JudgedEnds
<1>13. CASE Again
  <2>1. /\ Running' /\ saved' = saved
        /\ Fresh' => Now' = "fallback"
    BY <1>13, AgainTypes
  <2>2. PICK s \in saved : page' = s.page
    BY <1>13, AgainTypes
  <2>3. Unjudged'
    BY <2>1, <2>2 DEF Unjudged, At
  <2>4. Blamed'
    <3> SUFFICES ASSUME NEW p \in DOMAIN page', page'[p].assessed, page'[p].text # "ok"
                 PROVE  Excused(p)'
      BY DEF Blamed
    <3>1. s.reread
      BY <2>2 DEF Judged, SavedSound, IsSound
    <3> QED
      BY <2>1, <3>1 DEF Excused
  <2> QED
    BY <2>1, <2>3, <2>4, SavedSoundStays DEF Judged
<1> QED
  BY <1>1, <1>3, <1>4, <1>5, <1>6, <1>7, <1>8, <1>9, <1>10, <1>11, <1>12, <1>13 DEF Next, Step

\* A review that asks for no review rests on pages that were all read and
\* assessed, unless a later rerun of the OCR failed on one: whatever failed or
\* was cancelled, and however the pages were read again.
THEOREM ReadyReviewsAreSound == Spec => []ReadyIsSound
<1>1. Init => Base /\ Texts /\ Judged
  <2> SUFFICES ASSUME Init PROVE Base /\ Texts /\ Judged
    OBVIOUS
  <2>1. Base /\ Now = "render"
    BY InitTypes
  <2>2. saved = {} /\ DOMAIN page = {} /\ failures = {} /\ Fresh
    BY DEF Init, Fresh
  <2>3. Texts
    BY <2>1, <2>2 DEF Texts, SavedRead, AllRead, ToRead, UnitsOK, FailuresOK, At
  <2>4. Judged
    BY <2>2 DEF Judged, Unjudged, Blamed, SavedSound
  <2> QED
    BY <2>1, <2>3, <2>4
<1>2. Base /\ Texts /\ Judged /\ [Next]_vars => (Base /\ Texts /\ Judged)'
  <2> SUFFICES ASSUME Base, Texts, Judged, [Next]_vars PROVE Base' /\ Texts' /\ Judged'
    OBVIOUS
  <2>1. CASE UNCHANGED vars
    BY <2>1, NextTypes, TextsStay, JudgedStays DEF vars, content
  <2> QED
    BY <2>1, NextTypes, NextTexts, NextJudged
<1>3. Base /\ Texts /\ Judged => ReadyIsSound
  BY DEF Judged, SavedSound, IsSound, ReadyIsSound
<1> QED
  BY <1>1, <1>2, <1>3, PTL DEF Spec
=============================================================================
