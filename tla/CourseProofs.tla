---------------------------- MODULE CourseProofs ----------------------------
(***************************************************************************)
(* Proofs about CoursePipeline.  The lemmas on its operators come first: a *)
(* sorted set, the groups of a plan, the numbers it gives to parts.  Then  *)
(* three inductive invariants, each on the ones before: what the state of  *)
(* a run is made of, where every video is, and what a run without errors   *)
(* has done.                                                               *)
(***************************************************************************)
EXTENDS CoursePipeline, FunctionTheorems, FiniteSetTheorems, TLAPS

LEMMA Parameters ==
  /\ Videos \in Nat \ {0} /\ Workers \in Nat \ {0}
  /\ MaxPart \in Nat /\ Videos <= MaxPart
BY CourseAssumption

LEMMA VideosFinite ==
  /\ Video \subseteq Nat /\ IsFiniteSet(Video) /\ Cardinality(Video) = Videos
  /\ \A V \in SUBSET Video :
       IsFiniteSet(V) /\ Cardinality(V) \in Nat /\ Cardinality(V) <= Videos
<1>1. Videos \in Nat /\ Video = 1..Videos
  BY Parameters DEF Video
<1>2. IsFiniteSet(Video) /\ Cardinality(Video) = Videos /\ Video \subseteq Nat
  BY <1>1, FS_Interval
<1>3. QED
  BY <1>2, FS_Subset, FS_CardinalityType

LEMMA NumbersFinite ==
  /\ Number \subseteq Nat
  /\ \A N \in SUBSET Number : IsFiniteSet(N) /\ Cardinality(N) \in Nat
<1>1. IsFiniteSet(Number) /\ Number \subseteq Nat
  BY Parameters, FS_Interval DEF Number
<1>2. QED
  BY <1>1, FS_Subset, FS_CardinalityType

LEMMA SeqOf ==
  ASSUME NEW n \in Nat, NEW T, NEW s \in [1..n -> T]
  PROVE  s \in Seq(T) /\ Len(s) = n
OBVIOUS
-----------------------------------------------------------------------------
\* Sorted lists each member of a finite set once, in increasing order.
Below(S, v) == {w \in S : w <= v}
Increasing(s) == \A j, k \in DOMAIN s : j < k => s[j] < s[k]

LEMMA BelowGrows ==
  ASSUME NEW S, S \subseteq Nat, IsFiniteSet(S), NEW u \in S, NEW v \in S
  PROVE  /\ Cardinality(Below(S, v)) \in 1..Cardinality(S)
         /\ u < v => Cardinality(Below(S, u)) < Cardinality(Below(S, v))
<1>1. ASSUME NEW x \in S
      PROVE  /\ Below(S, x) \subseteq S /\ IsFiniteSet(Below(S, x))
             /\ Cardinality(Below(S, x)) \in Nat
             /\ Cardinality(Below(S, x)) <= Cardinality(S)
  <2>1. Below(S, x) \in SUBSET S
    BY DEF Below
  <2>2. QED
    BY <2>1, FS_Subset, FS_CardinalityType
<1>2. Cardinality(S) \in Nat
  BY FS_CardinalityType
<1>3. Cardinality(Below(S, v)) # 0
  <2>1. v \in Below(S, v)
    BY DEF Below
  <2>2. QED
    BY <1>1, <2>1, FS_EmptySet
<1>4. ASSUME u < v PROVE Cardinality(Below(S, u)) < Cardinality(Below(S, v))
  <2>1. Below(S, u) \in SUBSET Below(S, v)
    <3>1. \A w \in S : w \in Nat
      OBVIOUS
    <3>2. \A w \in S : w <= u => w <= v
      BY <1>4, <3>1
    <3>3. QED
      BY <3>2 DEF Below
  <2>2. v \in Below(S, v) /\ v \notin Below(S, u)
    BY <1>4 DEF Below
  <2>3. Cardinality(Below(S, u)) <= Cardinality(Below(S, v)) /\
        (Cardinality(Below(S, u)) = Cardinality(Below(S, v)) => Below(S, u) = Below(S, v))
    BY <1>1, <2>1, FS_Subset
  <2>4. QED
    BY <1>1, <2>2, <2>3
<1>5. QED
  BY <1>1, <1>2, <1>3, <1>4

LEMMA SortedSet ==
  ASSUME NEW S, S \subseteq Nat, IsFiniteSet(S)
  PROVE  /\ Cardinality(S) \in Nat
         /\ DOMAIN Sorted(S) = 1..Cardinality(S)
         /\ Sorted(S) \in Seq(S) /\ Len(Sorted(S)) = Cardinality(S)
         /\ Increasing(Sorted(S))
         /\ \A i \in DOMAIN Sorted(S) : Sorted(S)[i] \in S
         /\ \A v \in S : \E i \in DOMAIN Sorted(S) : Sorted(S)[i] = v
<1> DEFINE n == Cardinality(S)
           rank == [v \in S |-> Cardinality(Below(S, v))]
           s == Sorted(S)
<1>1. n \in Nat
  BY FS_CardinalityType
<1>2. rank \in [S -> 1..n] /\ \A u, v \in S : u < v => rank[u] < rank[v]
  BY BelowGrows
<1>3. \A u, v \in S : rank[u] = rank[v] => u = v
  <2>1. \A u, v \in S : u \in Nat /\ v \in Nat
    OBVIOUS
  <2>2. \A u, v \in S : rank[u] \in 1..n
    BY <1>2
  <2>3. \A u, v \in S : u < v \/ v < u \/ u = v
    BY <2>1
  <2>4. \A j, k \in 1..n : j < k => j # k
    BY <1>1
  <2> HIDE DEF rank, n
  <2>5. QED
    BY <1>2, <2>2, <2>3, <2>4
<1>4. rank \in Surjection(S, 1..n)
  <2>1. rank \in Injection(S, 1..n)
    BY <1>2, <1>3 DEF Injection, IsInjective
  <2>2. IsFiniteSet(1..n) /\ Cardinality(1..n) = n
    BY <1>1, FS_Interval
  <2>3. QED
    BY <2>1, <2>2, FS_Injection
<1>5. \A i \in 1..n : \E v \in S : rank[v] = i
  <2> HIDE DEF rank, n
  <2>1. QED
    BY <1>4 DEF Surjection
<1>6. s = [i \in 1..n |-> CHOOSE v \in S : Cardinality(Below(S, v)) = i]
  BY DEF Sorted, Below
<1>7. \A i \in 1..n : s[i] \in S /\ rank[s[i]] = i
  BY <1>5, <1>6
<1>8. DOMAIN s = 1..n
  BY <1>6
<1>9. s \in Seq(S) /\ Len(s) = n
  <2>1. s \in [1..n -> S]
    BY <1>6, <1>7, <1>8
  <2>2. QED
    BY <1>1, <2>1
<1>10. \A v \in S : rank[v] \in 1..n /\ s[rank[v]] = v
  BY <1>2, <1>3, <1>7
<1>11. Increasing(s)
  <2> SUFFICES ASSUME NEW j \in 1..n, NEW k \in 1..n, j < k PROVE s[j] < s[k]
    BY <1>8 DEF Increasing
  <2>1. s[j] \in S /\ s[k] \in S /\ rank[s[j]] = j /\ rank[s[k]] = k
    BY <1>7
  <2>2. s[j] \in Nat /\ s[k] \in Nat
    BY <2>1
  <2>3. ~(s[k] < s[j]) /\ s[k] # s[j]
    <3> HIDE DEF rank, s
    <3>1. j # k /\ ~(k < j)
      BY <1>1
    <3>2. s[k] < s[j] => rank[s[k]] < rank[s[j]]
      BY <1>2, <2>1
    <3>3. QED
      BY <2>1, <3>1, <3>2
  <2>4. QED
    BY <2>2, <2>3
<1>12. QED
  BY <1>1, <1>7, <1>8, <1>9, <1>10, <1>11
-----------------------------------------------------------------------------
\* The groups of a partition of V, each in order: no group is empty, none has
\* a video from elsewhere, and no video is left out.
Partition(V, groupOf) ==
  /\ groupOf \in [V -> SUBSET V]
  /\ \A v \in V : v \in groupOf[v]
  /\ \A v \in V : \A w \in groupOf[v] : groupOf[w] = groupOf[v]
Groups(V, o) ==
  /\ o \in Seq(Seq(Video)) /\ Len(o) <= Videos
  /\ \A i \in DOMAIN o : o[i] # <<>> /\ Increasing(o[i]) /\ \A j \in DOMAIN o[i] : o[i][j] \in V
  /\ \A v \in V : \E i \in DOMAIN o : \E j \in DOMAIN o[i] : o[i][j] = v

LEMMA GroupsInOrder ==
  ASSUME NEW V \in SUBSET Video, NEW g, Partition(V, g)
  PROVE  Groups(V, InOrder(g))
<1> DEFINE F == {v \in V : \A w \in g[v] : v <= w}
           first == Sorted(F)
           o == [i \in DOMAIN first |-> Sorted(g[first[i]])]
<1>1. InOrder(g) = o
  <2>1. DOMAIN g = V
    BY DEF Partition
  <2>2. QED
    BY <2>1 DEF InOrder
<1>2. F \in SUBSET Video /\ F \subseteq Nat /\ IsFiniteSet(F) /\ Cardinality(F) <= Videos
  BY VideosFinite
<1>3. /\ Cardinality(F) \in Nat /\ first \in Seq(F) /\ Len(first) = Cardinality(F)
      /\ DOMAIN first = 1..Cardinality(F)
      /\ \A i \in DOMAIN first : first[i] \in F
      /\ \A v \in F : \E i \in DOMAIN first : first[i] = v
  <2> HIDE DEF F
  <2>1. QED
    BY <1>2, SortedSet
<1>4. ASSUME NEW v \in V
      PROVE  /\ g[v] \subseteq V /\ g[v] \subseteq Video /\ g[v] \subseteq Nat /\ IsFiniteSet(g[v])
             /\ v \in g[v] /\ Cardinality(g[v]) # 0
  <2>1. g[v] \in SUBSET V /\ v \in g[v]
    BY DEF Partition
  <2>2. g[v] \subseteq Nat /\ IsFiniteSet(g[v])
    BY <2>1, VideosFinite
  <2>3. QED
    BY <2>1, <2>2, FS_EmptySet
<1>5. ASSUME NEW v \in V
      PROVE  /\ Sorted(g[v]) \in Seq(Video) /\ Sorted(g[v]) # <<>> /\ Increasing(Sorted(g[v]))
             /\ \A j \in DOMAIN Sorted(g[v]) : Sorted(g[v])[j] \in V
             /\ \A w \in g[v] : \E j \in DOMAIN Sorted(g[v]) : Sorted(g[v])[j] = w
  <2>1. g[v] \subseteq V /\ g[v] \subseteq Video /\ g[v] \subseteq Nat /\ IsFiniteSet(g[v]) /\ Cardinality(g[v]) # 0
    BY <1>4
  <2>2. /\ Sorted(g[v]) \in Seq(g[v]) /\ Len(Sorted(g[v])) = Cardinality(g[v])
        /\ Increasing(Sorted(g[v]))
        /\ \A j \in DOMAIN Sorted(g[v]) : Sorted(g[v])[j] \in g[v]
        /\ \A w \in g[v] : \E j \in DOMAIN Sorted(g[v]) : Sorted(g[v])[j] = w
    BY <2>1, SortedSet
  <2>3. Sorted(g[v]) \in Seq(Video) /\ Sorted(g[v]) # <<>>
    <3> DEFINE s == Sorted(g[v])
               G == g[v]
    <3>1. s \in Seq(G) /\ Len(s) # 0 /\ G \subseteq Video
      BY <2>1, <2>2
    <3> HIDE DEF s, G
    <3>2. s \in Seq(Video) /\ s # <<>>
      BY <3>1
    <3>3. QED
      BY <3>2 DEF s
  <2>4. QED
    BY <2>1, <2>2, <2>3
<1>6. DOMAIN o = DOMAIN first /\ \A i \in DOMAIN first : first[i] \in V /\ o[i] = Sorted(g[first[i]])
  BY <1>3
<1>7. o \in Seq(Seq(Video)) /\ Len(o) <= Videos
  <2>1. o \in [1..Cardinality(F) -> Seq(Video)]
    <3>1. \A i \in DOMAIN first : Sorted(g[first[i]]) \in Seq(Video)
      BY <1>5, <1>6
    <3> HIDE DEF first, F
    <3>2. QED
      BY <1>3, <3>1
  <2>2. o \in Seq(Seq(Video)) /\ Len(o) = Cardinality(F)
    <3> HIDE DEF o, first, F
    <3> DEFINE n == Cardinality(F)
    <3>1. n \in Nat /\ o \in [1..n -> Seq(Video)]
      BY <1>3, <2>1
    <3> HIDE DEF n
    <3>2. o \in Seq(Seq(Video)) /\ Len(o) = n
      BY <3>1, SeqOf
    <3>3. QED
      BY <3>2 DEF n
  <2>3. QED
    BY <1>2, <2>2
<1>8. \A i \in DOMAIN o : o[i] # <<>> /\ Increasing(o[i]) /\ \A j \in DOMAIN o[i] : o[i][j] \in V
  <2> HIDE DEF o, first
  <2>1. QED
    BY <1>5, <1>6
<1>9. ASSUME NEW v \in V
      PROVE  \E i \in DOMAIN o : \E j \in DOMAIN o[i] : o[i][j] = v
  <2>1. PICK m \in g[v] : \A w \in g[v] : m <= w
    <3>1. g[v] \subseteq Nat /\ g[v] # {}
      BY <1>4
    <3>2. PICK i \in DOMAIN Sorted(g[v]) : i = 1
      <4>1. IsFiniteSet(g[v]) /\ Cardinality(g[v]) # 0
        BY <1>4
      <4>2. DOMAIN Sorted(g[v]) = 1..Cardinality(g[v]) /\ Cardinality(g[v]) \in Nat
        BY <3>1, <4>1, SortedSet
      <4>3. QED
        BY <4>1, <4>2
    <3>3. /\ Sorted(g[v])[1] \in g[v] /\ Increasing(Sorted(g[v]))
          /\ DOMAIN Sorted(g[v]) = 1..Cardinality(g[v]) /\ Cardinality(g[v]) \in Nat
          /\ \A w \in g[v] : \E j \in DOMAIN Sorted(g[v]) : Sorted(g[v])[j] = w
      <4>1. IsFiniteSet(g[v])
        BY <1>4
      <4>2. QED
        BY <3>1, <3>2, <4>1, SortedSet
    <3>4. ASSUME NEW w \in g[v] PROVE Sorted(g[v])[1] <= w
      <4>1. PICK j \in DOMAIN Sorted(g[v]) : Sorted(g[v])[j] = w
        BY <3>3
      <4>2. j = 1 \/ 1 < j
        BY <3>3
      <4>3. w \in Nat /\ Sorted(g[v])[1] \in Nat
        BY <3>1, <3>3
      <4>4. QED
        BY <3>2, <3>3, <4>1, <4>2, <4>3 DEF Increasing
    <3>5. QED
      BY <3>3, <3>4
  <2>2. m \in V /\ g[m] = g[v]
    BY <2>1, <1>4 DEF Partition
  <2>3. m \in F
    BY <2>1, <2>2
  <2>4. PICK i \in DOMAIN first : first[i] = m
    BY <1>3, <2>3
  <2>5. o[i] = Sorted(g[v])
    <3> HIDE DEF o, first
    <3>1. QED
      BY <1>6, <2>2, <2>4
  <2>6. v \in g[v]
    BY <1>4
  <2>7. \E j \in DOMAIN Sorted(g[v]) : Sorted(g[v])[j] = v
    BY <1>5, <2>6
  <2>8. i \in DOMAIN o
    BY <1>6, <2>4
  <2> HIDE DEF o, first, F
  <2>9. QED
    BY <2>5, <2>7, <2>8
<1> HIDE DEF o, first, F
<1>10. QED
  BY <1>1, <1>7, <1>8, <1>9 DEF Groups
-----------------------------------------------------------------------------
\* What every plan is: parts with numbers of their own and with videos of the
\* run, in order; and that no video of the run is left out of it.
PlanFits(p, videos) ==
  /\ p \in Seq([items: Seq(Video), number: Number])
  /\ \A m \in DOMAIN p : p[m].items # <<>> /\ Increasing(p[m].items)
  /\ \A m \in DOMAIN p : \A i \in DOMAIN p[m].items : p[m].items[i] \in videos
  /\ \A m, n \in DOMAIN p : p[m].number = p[n].number => m = n
PlanCovers(p, videos) ==
  \A v \in videos : \E m \in DOMAIN p : \E i \in DOMAIN p[m].items : p[m].items[i] = v

\* Groups with numbers of their own are a plan.
LEMMA NumberedGroups ==
  ASSUME NEW V \in SUBSET Video, NEW o, Groups(V, o), NEW num,
         \A i \in DOMAIN o : num[i] \in Number,
         \A i, j \in DOMAIN o : num[i] = num[j] => i = j
  PROVE  LET p == [i \in DOMAIN o |-> [items |-> o[i], number |-> num[i]]]
         IN  /\ PlanFits(p, V) /\ PlanCovers(p, V) /\ Len(p) = Len(o) /\ DOMAIN p = DOMAIN o
             /\ V # {} => p # <<>>
<1> DEFINE p == [i \in DOMAIN o |-> [items |-> o[i], number |-> num[i]]]
<1>1. /\ o \in Seq(Seq(Video))
      /\ \A i \in DOMAIN o : o[i] # <<>> /\ Increasing(o[i]) /\ \A j \in DOMAIN o[i] : o[i][j] \in V
      /\ \A v \in V : \E i \in DOMAIN o : \E j \in DOMAIN o[i] : o[i][j] = v
  BY DEF Groups
<1>2. DOMAIN p = DOMAIN o /\ \A i \in DOMAIN p : p[i].items = o[i] /\ p[i].number = num[i]
  OBVIOUS
<1>3. Len(o) \in Nat /\ DOMAIN o = 1..Len(o) /\ \A i \in DOMAIN o : o[i] \in Seq(Video)
  BY <1>1
<1>4. p \in [1..Len(o) -> [items: Seq(Video), number: Number]]
  BY <1>3
<1>5. p \in Seq([items: Seq(Video), number: Number]) /\ Len(p) = Len(o)
  <2> DEFINE R == [items: Seq(Video), number: Number]
             n == Len(o)
  <2>1. n \in Nat /\ p \in [1..n -> R]
    BY <1>3, <1>4
  <2> HIDE DEF p, R, n
  <2>2. p \in Seq(R) /\ Len(p) = n
    BY <2>1, SeqOf
  <2>3. QED
    BY <2>2 DEF R, n
<1> HIDE DEF p
<1>6. PlanFits(p, V)
  <2>1. \A m \in DOMAIN p : p[m].items # <<>> /\ Increasing(p[m].items)
    BY <1>1, <1>2
  <2>2. \A m \in DOMAIN p : \A i \in DOMAIN p[m].items : p[m].items[i] \in V
    BY <1>1, <1>2
  <2>3. \A m, n \in DOMAIN p : p[m].number = p[n].number => m = n
    BY <1>2
  <2>4. QED
    BY <1>5, <2>1, <2>2, <2>3 DEF PlanFits
<1>7. PlanCovers(p, V)
  BY <1>1, <1>2 DEF PlanCovers
<1>8. V # {} => p # <<>>
  <2>1. V # {} => DOMAIN p # {}
    BY <1>7 DEF PlanCovers
  <2>2. DOMAIN p # {} => p # <<>>
    OBVIOUS
  <2>3. QED
    BY <2>1, <2>2
<1>9. QED
  BY <1>2, <1>5, <1>6, <1>7, <1>8 DEF p

\* coursePartAllocator gives every number once, and none that is taken.
LEMMA NumbersAreFree ==
  /\ Len(FreeNumbers) \in Nat /\ DOMAIN FreeNumbers = 1..Len(FreeNumbers)
  /\ \A i \in DOMAIN FreeNumbers : FreeNumbers[i] \in Number \ ({0} \cup Existing)
  /\ \A i, j \in DOMAIN FreeNumbers : FreeNumbers[i] = FreeNumbers[j] => i = j
<1> DEFINE S == Number \ ({0} \cup Existing)
<1>1. S \subseteq Nat /\ IsFiniteSet(S)
  BY NumbersFinite
<1>2. FreeNumbers = Sorted(S)
  BY DEF FreeNumbers
<1> HIDE DEF S
<1>3. /\ Cardinality(S) \in Nat /\ DOMAIN Sorted(S) = 1..Cardinality(S)
      /\ Len(Sorted(S)) = Cardinality(S) /\ Increasing(Sorted(S))
      /\ \A i \in DOMAIN Sorted(S) : Sorted(S)[i] \in S
  BY <1>1, SortedSet
<1>4. ASSUME NEW i \in DOMAIN Sorted(S), NEW j \in DOMAIN Sorted(S), Sorted(S)[i] = Sorted(S)[j]
      PROVE  i = j
  <2>1. i \in Nat /\ j \in Nat /\ Sorted(S)[i] \in Nat /\ Sorted(S)[j] \in Nat
    <3>1. i \in 1..Cardinality(S) /\ j \in 1..Cardinality(S) /\ Sorted(S)[i] \in S /\ Sorted(S)[j] \in S
      BY <1>3
    <3>2. Sorted(S)[i] \in Nat /\ Sorted(S)[j] \in Nat
      BY <1>1, <3>1
    <3>3. Cardinality(S) \in Nat
      BY <1>3
    <3>4. i \in Nat /\ j \in Nat
      BY <3>1, <3>3
    <3>5. QED
      BY <3>2, <3>4
  <2>2. ~(Sorted(S)[i] < Sorted(S)[j]) /\ ~(Sorted(S)[j] < Sorted(S)[i])
    BY <1>4, <2>1
  <2>3. ~(i < j) /\ ~(j < i)
    BY <1>3, <2>2 DEF Increasing
  <2>4. QED
    BY <2>1, <2>3
<1>5. QED
  BY <1>2, <1>3, <1>4 DEF S

LEMMA ChunkIsGroup ==
  ASSUME NEW S, NEW v \in S
  PROVE  /\ v \in Chunk(v, S) /\ Chunk(v, S) \subseteq S
         /\ \A w \in Chunk(v, S) : Chunk(w, S) = Chunk(v, S)
BY DEF Chunk

\* A plan of the pipeline numbers its parts apart from those that are there
\* whenever a run with cleanup has a limit.
LEMMA PlannedParts ==
  ASSUME NEW V \in SUBSET Video, Len(PlanParts(V)) <= Len(FreeNumbers)
  PROVE  /\ PlanFits(PlanParts(V), V) /\ PlanCovers(PlanParts(V), V)
         /\ scenario.cleanup /\ scenario.limit > 0 =>
              \A m \in DOMAIN PlanParts(V) : PlanParts(V)[m].number \notin {0} \cup Existing
<1> DEFINE g == [v \in V |-> ResumeGroup(v, V)]
           o == InOrder(g)
           multipart == Len(o) > 1 \/ Existing # {} \/ (scenario.cleanup /\ scenario.limit > 0)
           num == [i \in DOMAIN o |-> IF multipart THEN FreeNumbers[i] ELSE 0]
<1>1. Partition(V, g)
  <2>1. ASSUME NEW v \in V
        PROVE  /\ v \in ResumeGroup(v, V) /\ ResumeGroup(v, V) \subseteq V
               /\ \A w \in ResumeGroup(v, V) : ResumeGroup(w, V) = ResumeGroup(v, V)
    <3> DEFINE S == {w \in V : Passed(w) = Passed(v)}
    <3>1. v \in S /\ S \subseteq V
      OBVIOUS
    <3>2. ASSUME NEW w \in S PROVE ResumeGroup(w, V) = Chunk(w, S)
      <4>1. {u \in V : Passed(u) = Passed(w)} = S
        OBVIOUS
      <4>2. QED
        BY <4>1 DEF ResumeGroup
    <3> HIDE DEF S
    <3>3. v \in Chunk(v, S) /\ Chunk(v, S) \subseteq S /\ \A w \in Chunk(v, S) : Chunk(w, S) = Chunk(v, S)
      BY <3>1, ChunkIsGroup
    <3>4. QED
      BY <3>1, <3>2, <3>3
  <2>2. g \in [V -> SUBSET V] /\ \A v \in V : g[v] = ResumeGroup(v, V)
    BY <2>1
  <2> HIDE DEF g
  <2>3. QED
    BY <2>1, <2>2 DEF Partition
<1>2. Groups(V, o)
  <2> HIDE DEF g
  <2>1. QED
    BY <1>1, GroupsInOrder
<1>3. PlanParts(V) = [i \in DOMAIN o |-> [items |-> o[i], number |-> num[i]]]
  <2>1. PlanParts(V) = [i \in DOMAIN o |-> [items |-> o[i], number |-> IF multipart THEN FreeNumbers[i] ELSE 0]]
    BY DEF PlanParts
  <2> HIDE DEF o, multipart
  <2>2. QED
    BY <2>1
<1>4. o \in Seq(Seq(Video)) /\ Len(o) \in Nat /\ DOMAIN o = 1..Len(o)
  BY <1>2 DEF Groups
<1>5. multipart => DOMAIN o \subseteq DOMAIN FreeNumbers
  <2>1. DOMAIN PlanParts(V) = DOMAIN o
    <3> HIDE DEF o, num
    <3>1. QED
      BY <1>3
  <2>2. Len(PlanParts(V)) = Len(o)
    <3> HIDE DEF o
    <3>1. QED
      BY <1>4, <2>1
  <2>3. Len(o) <= Len(FreeNumbers)
    BY <2>2
  <2> HIDE DEF o
  <2>4. QED
    BY <1>4, <2>3, NumbersAreFree
<1>6. ~multipart => \A i, j \in DOMAIN o : i = j
  <2> HIDE DEF o
  <2>1. QED
    BY <1>4
<1> HIDE DEF o
<1>7. \A i \in DOMAIN o : num[i] = IF multipart THEN FreeNumbers[i] ELSE 0
  OBVIOUS
<1> HIDE DEF multipart, num
<1>8. \A i \in DOMAIN o : num[i] \in Number
  <2>1. 0 \in Number
    BY Parameters DEF Number
  <2>2. QED
    BY <1>5, <1>7, <2>1, NumbersAreFree
<1>9. \A i, j \in DOMAIN o : num[i] = num[j] => i = j
  <2>1. CASE multipart
    BY <1>5, <1>7, <2>1, NumbersAreFree
  <2>2. CASE ~multipart
    BY <1>6, <2>2
  <2>3. QED
    BY <2>1, <2>2
<1> DEFINE p == [i \in DOMAIN o |-> [items |-> o[i], number |-> num[i]]]
<1>10. PlanFits(p, V) /\ PlanCovers(p, V) /\ DOMAIN p = DOMAIN o
  BY <1>2, <1>8, <1>9, NumberedGroups
<1>11. multipart => \A i \in DOMAIN o : num[i] \notin {0} \cup Existing
  BY <1>5, <1>7, NumbersAreFree
<1>12. \A i \in DOMAIN p : p[i].number = num[i]
  OBVIOUS
<1>13. scenario.cleanup /\ scenario.limit > 0 => multipart
  BY DEF multipart
<1>14. PlanParts(V) = p
  BY <1>3
<1> HIDE DEF p
<1>15. QED
  BY <1>10, <1>11, <1>12, <1>13, <1>14

\* So do the parts of the plain path, which are counted from 1.
LEMMA PlainPartsFit ==
  ASSUME files \in SUBSET Video
  PROVE  /\ PlanFits(PlainParts, files) /\ PlanCovers(PlainParts, files)
         /\ files # {} => PlainParts # <<>>
<1> DEFINE g == [v \in files |-> PlainChunk(v)]
           o == InOrder(g)
           num == [i \in DOMAIN o |-> IF Len(o) > 1 THEN i ELSE 0]
<1>1. Partition(files, g)
  <2>1. \A v \in files : /\ v \in PlainChunk(v) /\ PlainChunk(v) \subseteq files
                         /\ \A w \in PlainChunk(v) : PlainChunk(w) = PlainChunk(v)
    BY ChunkIsGroup DEF PlainChunk
  <2>2. g \in [files -> SUBSET files] /\ \A v \in files : g[v] = PlainChunk(v)
    BY <2>1
  <2> HIDE DEF g
  <2>3. QED
    BY <2>1, <2>2 DEF Partition
<1>2. Groups(files, o)
  <2> HIDE DEF g
  <2>1. QED
    BY <1>1, GroupsInOrder
<1>3. PlainParts = [i \in DOMAIN o |-> [items |-> o[i], number |-> num[i]]]
  <2>1. PlainParts = [i \in DOMAIN o |-> [items |-> o[i], number |-> IF Len(o) > 1 THEN i ELSE 0]]
    BY DEF PlainParts
  <2> HIDE DEF o
  <2>2. QED
    BY <2>1
<1>4. o \in Seq(Seq(Video)) /\ Len(o) \in Nat /\ DOMAIN o = 1..Len(o) /\ Len(o) <= Videos
  BY <1>2 DEF Groups
<1> HIDE DEF o
<1>5. \A i \in DOMAIN o : i \in Number /\ 0 \in Number
  BY <1>4, Parameters DEF Number
<1>6. \A i \in DOMAIN o : num[i] \in Number
  BY <1>5
<1>7. \A i, j \in DOMAIN o : num[i] = num[j] => i = j
  BY <1>4
<1> HIDE DEF num
<1>8. QED
  BY <1>2, <1>3, <1>6, <1>7, NumberedGroups
-----------------------------------------------------------------------------
\* What the state of a run is made of.
Stages == {"subtitles", "video", "text", "verify", "cleanup"}
Places == {"none", "queued", "dropped", "taken", "sent", "failed", "collected", "counted"}
Request == [late: SUBSET Video, subtitled: SUBSET Video, sticky: SUBSET Video,
            tolerated: SUBSET (SUBSET Video),
            limit: Nat, cleanup: BOOLEAN, whisper: {"batch", "broken", "unset", "none"},
            runs: Nat, faults: Nat, crashes: Nat, cancels: Nat]
PartFiles == [video: {"none", "cut", "whole"}, has: SUBSET Video, cut: SUBSET Video, srt: BOOLEAN, text: SUBSET Video]

ScenarioType == scenario \in Request
DiskType ==
  /\ sources \in SUBSET Video /\ srt \in SUBSET Video
  /\ slide \in [Video -> {"none", "cut", "whole"}] /\ part \in [Number -> PartFiles]
RunType ==
  /\ pc \in {"off", "whisper", "drain", "giveup"} /\ mode \in {"pipe", "plain"}
  /\ files \in SUBSET Video /\ PlanFits(plan, files) /\ (pc # "off" => files # {})
PoolType == at \in [Video -> Places] /\ gone \in Nat
ExportType ==
  /\ exported \in Nat
  /\ agg \in [at: Stages \cup {"results", "done"}, last: BOOLEAN, cleaned: Nat]
EndType ==
  /\ stopped \in BOOLEAN /\ cancelled \in BOOLEAN /\ err \in BOOLEAN
  /\ answer \in {"none", "ok", "failed", "killed"}
PlaceShape ==
  /\ exported <= Len(plan)
  /\ agg.at \in Stages => exported < Len(plan)
  /\ agg.at = "cleanup" => agg.cleaned < Len(Items)
  /\ agg.at # "cleanup" => agg.cleaned = 0
  /\ agg.at = "results" => ~agg.last
  /\ agg.at = "done" => agg.last
ModeShape ==
  /\ pc = "off" => agg.at \notin Stages
  /\ pc = "off" /\ agg.at = "results" => \A v \in Video : at[v] = "none"
  /\ pc = "giveup" => scenario.whisper = "broken" /\ mode = "pipe"
  /\ pc = "whisper" => mode = "pipe" /\ ~agg.last
  /\ mode = "plain" => agg.at \notin {"verify", "cleanup"}
  /\ mode = "plain" /\ ~agg.last => agg.at = "results" /\ exported = 0
CourseTypes ==
  ScenarioType /\ DiskType /\ RunType /\ PoolType /\ ExportType /\ EndType /\ PlaceShape /\ ModeShape

LEMMA EmptyPlanFits == ASSUME NEW V PROVE PlanFits(<<>>, V)
BY DEF PlanFits

LEMMA PlanIsSeq ==
  ASSUME RunType
  PROVE  Len(plan) \in Nat /\ DOMAIN plan = 1..Len(plan)
BY DEF RunType, PlanFits

\* The part in hand.
LEMMA InHand ==
  ASSUME RunType, ExportType, exported < Len(plan)
  PROVE  /\ exported + 1 \in DOMAIN plan /\ This \in Number
         /\ Len(Items) \in Nat \ {0} /\ DOMAIN Items = 1..Len(Items) /\ Increasing(Items)
         /\ These \in SUBSET files /\ These \in SUBSET Video /\ These # {}
         /\ \A i \in DOMAIN Items : Items[i] \in Video
<1>1. exported + 1 \in DOMAIN plan
  <2>1. exported \in Nat
    BY DEF ExportType
  <2>2. Len(plan) \in Nat /\ DOMAIN plan = 1..Len(plan)
    BY PlanIsSeq
  <2>3. QED
    BY <2>1, <2>2
<1>2. plan[exported + 1] \in [items: Seq(Video), number: Number]
  <2> DEFINE R == [items: Seq(Video), number: Number]
  <2>1. plan \in Seq(R)
    BY DEF RunType, PlanFits
  <2> HIDE DEF R
  <2>2. plan[exported + 1] \in R
    BY <1>1, <2>1
  <2>3. QED
    BY <2>2 DEF R
<1>3. Items \in Seq(Video) /\ This \in Number
  BY <1>2 DEF Items, This
<1>4. Items # <<>> /\ Increasing(Items) /\ \A i \in DOMAIN Items : Items[i] \in files
  BY <1>1 DEF RunType, PlanFits, Items
<1>5. Len(Items) \in Nat \ {0} /\ DOMAIN Items = 1..Len(Items)
  BY <1>3, <1>4
<1>6. These = {Items[i] : i \in DOMAIN Items}
  BY DEF These, InPart, Items
<1>7. These # {}
  <2>1. 1 \in DOMAIN Items
    BY <1>5
  <2>2. QED
    BY <1>6, <2>1
<1>8. \A i \in DOMAIN Items : Items[i] \in Video
  BY <1>3
<1>9. These \in SUBSET files /\ These \in SUBSET Video
  BY <1>4, <1>6, <1>8
<1>10. QED
  BY <1>1, <1>3, <1>4, <1>5, <1>7, <1>8, <1>9

\* What is asked for stays as it is when a bound is used up.
SameRequest ==
  /\ scenario'.late = scenario.late /\ scenario'.subtitled = scenario.subtitled
  /\ scenario'.sticky = scenario.sticky /\ scenario'.limit = scenario.limit
  /\ scenario'.cleanup = scenario.cleanup /\ scenario'.whisper = scenario.whisper
  /\ scenario'.tolerated = scenario.tolerated

LEMMA Spending ==
  ASSUME ScenarioType
  PROVE  /\ Spend("runs") => ScenarioType' /\ SameRequest
         /\ Spend("faults") => ScenarioType' /\ SameRequest
         /\ Spend("crashes") => ScenarioType' /\ SameRequest
         /\ Spend("cancels") => ScenarioType' /\ SameRequest
         /\ UNCHANGED scenario => ScenarioType' /\ SameRequest
<1>1. Spend("runs") => ScenarioType' /\ SameRequest
  BY DEF ScenarioType, Request, Spend, SameRequest
<1>2. Spend("faults") => ScenarioType' /\ SameRequest
  BY DEF ScenarioType, Request, Spend, SameRequest
<1>3. Spend("crashes") => ScenarioType' /\ SameRequest
  BY DEF ScenarioType, Request, Spend, SameRequest
<1>4. Spend("cancels") => ScenarioType' /\ SameRequest
  BY DEF ScenarioType, Request, Spend, SameRequest
<1>5. UNCHANGED scenario => ScenarioType' /\ SameRequest
  BY DEF ScenarioType, SameRequest
<1>6. QED
  BY <1>1, <1>2, <1>3, <1>4, <1>5

\* Where the aggregator goes.
LEMMA ScanGoes ==
  ASSUME agg.last \in BOOLEAN, NEW n \in Nat, NEW c, Scan(n, c)
  PROVE  /\ agg' \in [at: Stages \cup {"results", "done"}, last: BOOLEAN, cleaned: Nat]
         /\ agg'.last = agg.last /\ agg'.cleaned = 0
         /\ agg'.at \in {"subtitles", "results", "done"}
         /\ agg'.at = "subtitles" <=> Ready(n, c)
         /\ agg'.at = "results" => ~agg.last
         /\ agg'.at = "done" => agg.last
BY DEF Scan, Stages

LEMMA GiveUpGoes ==
  ASSUME ExportType, GiveUpPart
  PROVE  /\ agg' \in [at: Stages \cup {"results", "done"}, last: BOOLEAN, cleaned: Nat]
         /\ agg'.last = agg.last /\ agg'.cleaned = 0 /\ agg'.at \in {"results", "done"}
         /\ agg'.at = "results" <=> ~agg.last /\ mode # "plain"
BY DEF GiveUpPart, ExportType, Stages

LEMMA StepGoes ==
  ASSUME ExportType, NEW from, NEW to \in Stages, Step(from, to)
  PROVE  /\ agg' \in [at: Stages \cup {"results", "done"}, last: BOOLEAN, cleaned: Nat]
         /\ agg.at = from /\ agg'.at = to /\ agg'.last = agg.last /\ agg'.cleaned = agg.cleaned
BY DEF Step, ExportType, Stages

LEMMA QueuedTypes ==
  ASSUME NEW V PROVE Queued(V) \in [Video -> Places] /\ (V = {} => \A v \in Video : Queued(V)[v] = "none")
BY DEF Queued, Places

\* Steps that leave the plan, the aggregator and the mode of the run alone.
LEMMA ElsewhereTypes ==
  ASSUME CourseTypes, UNCHANGED <<mode, files, plan, export>>, SameRequest,
         pc' = pc \/ (pc = "whisper" /\ pc' = "drain"),
         pc = "off" /\ agg.at = "results" => UNCHANGED at
  PROVE  RunType' /\ ExportType' /\ PlaceShape' /\ ModeShape'
<1>1. RunType'
  BY DEF CourseTypes, RunType
<1>2. ExportType'
  BY DEF CourseTypes, ExportType, export
<1>3. PlaceShape'
  BY DEF CourseTypes, PlaceShape, Items, export
<1>4. ModeShape'
  BY DEF CourseTypes, ModeShape, SameRequest, export
<1>5. QED
  BY <1>1, <1>2, <1>3, <1>4

\* Steps of the aggregator that keep the plan.
LEMMA AggregatorTypes ==
  ASSUME CourseTypes, UNCHANGED <<run, scenario>>, agg.at # "done",
         exported' \in Nat, agg' \in [at: Stages \cup {"results", "done"}, last: BOOLEAN, cleaned: Nat],
         PlaceShape', pc = "off" => agg.at \in Stages, agg'.last = agg.last,
         mode = "plain" => agg'.at \notin {"verify", "cleanup"} /\ (~agg.last => agg' = agg /\ exported' = exported)
  PROVE  RunType' /\ ExportType' /\ ModeShape'
<1>1. RunType'
  BY DEF CourseTypes, RunType, run
<1>2. ExportType'
  BY DEF ExportType
<1>3. ModeShape'
  <2>1. pc # "off" /\ pc' = pc /\ mode' = mode /\ scenario' = scenario
    BY DEF CourseTypes, ModeShape, run
  <2>2. QED
    BY <2>1 DEF CourseTypes, ModeShape
<1>4. QED
  BY <1>1, <1>2, <1>3

LEMMA PoolTypes ==
  ASSUME PoolType, NEW v \in Video, NEW to \in Places
  PROVE  [at EXCEPT ![v] = to] \in [Video -> Places] /\ gone + 1 \in Nat
BY DEF PoolType

LEMMA BeginTypes == CourseTypes /\ Begin => CourseTypes'
<1> SUFFICES ASSUME CourseTypes, Begin PROVE CourseTypes'
  OBVIOUS
<1> USE DEF CourseTypes
<1>1. ScenarioType' /\ SameRequest
  BY Spending DEF Begin
<1>2. DiskType'
  BY DEF Begin, DiskType, Cached
<1>3. files' = sources /\ files' \in SUBSET Video /\ files' # {}
  BY DEF Begin, DiskType
<1>4. /\ gone' = 0 /\ exported' = 0 /\ err' = FALSE /\ agg' = [at |-> "results", last |-> FALSE, cleaned |-> 0]
      /\ stopped' = FALSE /\ cancelled' = FALSE
  BY DEF Begin, Fresh
<1>5. ExportType'
  BY <1>4 DEF ExportType
<1>6. \/ /\ mode' = "pipe" /\ pc' \in {"whisper", "drain"} /\ answer' = "none"
         /\ plan' = PlanParts(sources) /\ Len(PlanParts(sources)) <= Len(FreeNumbers)
         /\ \E V \in SUBSET Video : at' = Queued(V)
      \/ /\ mode' = "plain" /\ plan' = <<>>
         /\ \/ pc' = "off" /\ answer' = "failed" /\ at' = Queued({})
            \/ pc' = "drain" /\ answer' = "none" /\ at' = Queued(files')
  <2>1. CASE sources \subseteq srt' \/ scenario.whisper \in {"batch", "broken"}
    <3>1. /\ mode' = "pipe" /\ plan' = PlanParts(sources) /\ at' = Queued(sources \cap srt')
          /\ Len(plan') <= Len(FreeNumbers)
          /\ pc' = (IF sources \subseteq srt' THEN "drain" ELSE "whisper") /\ answer' = "none"
      BY <2>1 DEF Begin
    <3>2. sources \cap srt' \in SUBSET Video
      BY DEF DiskType
    <3>3. QED
      BY <3>1, <3>2
  <2>2. CASE ~(sources \subseteq srt' \/ scenario.whisper \in {"batch", "broken"})
    BY <2>2 DEF Begin, StartPlain
  <2>3. QED
    BY <2>1, <2>2
<1>7. PlanFits(plan', files')
  BY <1>3, <1>6, EmptyPlanFits, PlannedParts
<1>8. RunType'
  BY <1>3, <1>6, <1>7 DEF RunType
<1>9. PoolType' /\ (pc' = "off" => \A v \in Video : at'[v] = "none")
  BY <1>3, <1>4, <1>6, QueuedTypes DEF PoolType
<1>10. EndType'
  BY <1>4, <1>6 DEF EndType
<1>11. PlaceShape'
  <2>1. Len(plan') \in Nat
    BY <1>7 DEF PlanFits
  <2>2. QED
    BY <1>4, <2>1 DEF PlaceShape, Stages
<1>12. ModeShape'
  BY <1>4, <1>6, <1>9 DEF ModeShape, Stages
<1>13. QED
  BY <1>1, <1>2, <1>5, <1>8, <1>9, <1>10, <1>11, <1>12

LEMMA TranscriptionTypes ==
  ASSUME CourseTypes
  PROVE  /\ \A v \in Video : Late(v) \/ Transcribe(v) => CourseTypes'
         /\ WhisperEnds \/ WhisperBroken => CourseTypes'
<1> USE DEF CourseTypes
<1>1. ASSUME NEW v \in Video, Late(v) PROVE CourseTypes'
  <2>1. ScenarioType'
    BY <1>1 DEF Late, ScenarioType, Request
  <2>2. DiskType'
    BY <1>1 DEF Late, DiskType
  <2>3. RunType' /\ PoolType' /\ ExportType' /\ EndType'
    BY <1>1 DEF Late, RunType, PoolType, ExportType, EndType, run, pool, export, ends
  <2>4. PlaceShape'
    BY <1>1 DEF Late, PlaceShape, Items, run, export
  <2>5. ModeShape'
    BY <1>1 DEF Late, ModeShape, run, export, pool
  <2>6. QED
    BY <2>1, <2>2, <2>3, <2>4, <2>5
<1>2. ASSUME NEW v \in Video, Transcribe(v) PROVE CourseTypes'
  <2>1. ScenarioType' /\ SameRequest
    BY <1>2, Spending DEF Transcribe
  <2>2. DiskType'
    BY <1>2 DEF Transcribe, DiskType
  <2>3. PoolType'
    <3>1. /\ [at EXCEPT ![v] = "queued"] \in [Video -> Places]
          /\ [at EXCEPT ![v] = "dropped"] \in [Video -> Places]
      BY PoolTypes DEF Places
    <3>2. at' \in {at, [at EXCEPT ![v] = "queued"], [at EXCEPT ![v] = "dropped"]} /\ gone' = gone
      BY <1>2 DEF Transcribe, Enqueue
    <3>3. QED
      BY <3>1, <3>2 DEF PoolType
  <2>4. EndType'
    BY <1>2 DEF Transcribe, EndType, ends
  <2>5. RunType' /\ ExportType' /\ PlaceShape' /\ ModeShape'
    BY <1>2, <2>1, ElsewhereTypes DEF Transcribe, run
  <2>6. QED
    BY <2>1, <2>2, <2>3, <2>4, <2>5
<1>3. ASSUME WhisperEnds PROVE CourseTypes'
  <2>1. ScenarioType' /\ SameRequest
    BY <1>3, Spending DEF WhisperEnds
  <2>2. DiskType'
    BY <1>3 DEF WhisperEnds, DiskType, disk
  <2>3. PoolType'
    <3>1. PICK queued, dropped :
            at' = [w \in Video |-> IF w \notin queued THEN at[w] ELSE IF w \in dropped THEN "dropped" ELSE "queued"]
      BY <1>3 DEF WhisperEnds
    <3>2. gone' = gone
      BY <1>3 DEF WhisperEnds
    <3>3. QED
      BY <3>1, <3>2 DEF PoolType, Places
  <2>4. EndType'
    BY <1>3 DEF WhisperEnds, EndType, ends, SetErr
  <2>5. RunType' /\ ExportType' /\ PlaceShape' /\ ModeShape'
    BY <1>3, <2>1, ElsewhereTypes DEF WhisperEnds
  <2>6. QED
    BY <2>1, <2>2, <2>3, <2>4, <2>5
<1>4. ASSUME WhisperBroken PROVE CourseTypes'
  <2>1. ScenarioType'
    BY <1>4, Spending DEF WhisperBroken
  <2>2. DiskType' /\ PoolType' /\ ExportType' /\ EndType' /\ RunType'
    BY <1>4 DEF WhisperBroken, DiskType, PoolType, ExportType, EndType, RunType, disk, pool, export
  <2>3. PlaceShape'
    BY <1>4 DEF WhisperBroken, PlaceShape, Items, export
  <2>4. ModeShape'
    BY <1>4 DEF WhisperBroken, ModeShape, export, pool
  <2>5. QED
    BY <2>1, <2>2, <2>3, <2>4
<1>5. QED
  BY <1>1, <1>2, <1>3, <1>4

LEMMA WorkerTypes ==
  ASSUME CourseTypes, NEW v \in Video
  PROVE  Take(v) \/ Compress(v) \/ CompressFails(v) \/ CollectFailure(v) => CourseTypes'
<1> USE DEF CourseTypes
<1>1. \A to \in Places : [at EXCEPT ![v] = to] \in [Video -> Places] /\ gone + 1 \in Nat
  BY PoolTypes
<1>2. ASSUME at[v] # "none", SameRequest, UNCHANGED <<run, export>>
      PROVE  RunType' /\ ExportType' /\ PlaceShape' /\ ModeShape'
  <2>1. ~(pc = "off" /\ agg.at = "results")
    BY <1>2 DEF ModeShape
  <2>2. UNCHANGED <<mode, files, plan, export, pc>>
    BY <1>2 DEF run
  <2>3. QED
    BY <1>2, <2>1, <2>2, ElsewhereTypes
<1>3. ASSUME Take(v) PROVE CourseTypes'
  <2>1. ScenarioType' /\ SameRequest
    BY <1>3, Spending DEF Take
  <2>2. DiskType' /\ EndType'
    BY <1>3 DEF Take, DiskType, EndType, disk, ends
  <2>3. PoolType'
    BY <1>1, <1>3 DEF Take, PoolType, Places
  <2>4. RunType' /\ ExportType' /\ PlaceShape' /\ ModeShape'
    BY <1>2, <1>3, <2>1 DEF Take
  <2>5. QED
    BY <2>1, <2>2, <2>3, <2>4
<1>4. ASSUME Compress(v) PROVE CourseTypes'
  <2>1. ScenarioType' /\ SameRequest
    BY <1>4, Spending DEF Compress
  <2>2. DiskType'
    <3>1. srt' \in SUBSET Video
      BY <1>4 DEF Compress, DiskType, PrepareTranscript
    <3>2. slide' \in [Video -> {"none", "cut", "whole"}]
      BY <1>4 DEF Compress, DiskType
    <3>3. QED
      BY <1>4, <3>1, <3>2 DEF Compress, DiskType
  <2>3. EndType'
    BY <1>4 DEF Compress, EndType, ends
  <2>4. PoolType'
    BY <1>1, <1>4 DEF Compress, Result, PoolType, Places
  <2>5. RunType' /\ ExportType' /\ PlaceShape' /\ ModeShape'
    BY <1>2, <1>4, <2>1 DEF Compress
  <2>6. QED
    BY <2>1, <2>2, <2>3, <2>4, <2>5
<1>5. ASSUME CompressFails(v) PROVE CourseTypes'
  <2>1. ScenarioType' /\ SameRequest
    BY <1>5, Spending DEF CompressFails
  <2>2. DiskType'
    BY <1>5 DEF CompressFails, DiskType, PrepareTranscript
  <2>3. EndType'
    BY <1>5 DEF CompressFails, EndType, ends, SetErr
  <2>4. PoolType'
    BY <1>1, <1>5 DEF CompressFails, PoolType, Places
  <2>5. RunType' /\ ExportType' /\ PlaceShape' /\ ModeShape'
    BY <1>2, <1>5, <2>1 DEF CompressFails
  <2>6. QED
    BY <2>1, <2>2, <2>3, <2>4, <2>5
<1>6. ASSUME CollectFailure(v) PROVE CourseTypes'
  <2>1. ScenarioType' /\ SameRequest
    BY <1>6, Spending DEF CollectFailure
  <2>2. DiskType' /\ EndType'
    BY <1>6 DEF CollectFailure, DiskType, EndType, disk, SetErr
  <2>3. PoolType'
    BY <1>1, <1>6 DEF CollectFailure, PoolType, Places
  <2>4. RunType' /\ ExportType' /\ PlaceShape' /\ ModeShape'
    BY <1>2, <1>6, <2>1 DEF CollectFailure
  <2>5. QED
    BY <2>1, <2>2, <2>3, <2>4
<1>7. QED
  BY <1>3, <1>4, <1>5, <1>6

LEMMA CollectTypes ==
  ASSUME CourseTypes
  PROVE  /\ \A v \in Video : Collect(v) => CourseTypes'
         /\ LastPass => CourseTypes'
<1> USE DEF CourseTypes
<1>1. agg.last \in BOOLEAN /\ exported \in Nat
  BY DEF ExportType
<1>2. ASSUME NEW v \in Video, Collect(v) PROVE CourseTypes'
  <2>1. ScenarioType' /\ DiskType' /\ EndType'
    BY <1>2 DEF Collect, ScenarioType, DiskType, EndType, disk, ends
  <2>2. agg.at = "results" /\ ~agg.last /\ UNCHANGED <<run, scenario, exported>>
    BY <1>2 DEF Collect, PlaceShape
  <2>3. PoolType'
    BY <1>2, PoolTypes DEF Collect, PoolType, Places
  <2>4. pc # "off"
    BY <1>2, <2>2 DEF Collect, ModeShape
  <2>5. /\ agg' \in [at: Stages \cup {"results", "done"}, last: BOOLEAN, cleaned: Nat]
        /\ agg'.last = agg.last /\ agg'.cleaned = 0 /\ agg'.at \in {"subtitles", "results"}
        /\ agg'.at = "subtitles" => exported < Len(plan)
        /\ mode = "plain" => agg' = agg
    <3>1. CASE mode = "plain"
      BY <1>2, <2>2, <3>1 DEF Collect, ExportType, PlaceShape
    <3>2. CASE mode # "plain"
      <4>1. Scan(exported, At({"collected"}) \cup {v})
        BY <1>2, <3>2 DEF Collect
      <4>2. QED
        BY <1>1, <2>2, <3>2, <4>1, ScanGoes DEF Ready
    <3>3. QED
      BY <3>1, <3>2
  <2>6. PlaceShape'
    BY <2>2, <2>5 DEF PlaceShape, run, Stages
  <2>7. RunType' /\ ExportType' /\ ModeShape'
    BY <1>1, <2>2, <2>4, <2>5, <2>6, AggregatorTypes
  <2>8. QED
    BY <2>1, <2>3, <2>6, <2>7
<1>3. ASSUME LastPass PROVE CourseTypes'
  <2>1. ScenarioType' /\ DiskType' /\ PoolType'
    BY <1>3 DEF LastPass, ScenarioType, DiskType, PoolType, disk, pool
  <2>2. agg.at = "results" /\ ~agg.last /\ agg.cleaned = 0 /\ pc \in {"drain", "giveup"}
    BY <1>3 DEF LastPass, Closed, PlaceShape
  <2>3. EndType'
    BY <1>3 DEF LastPass, PlainResults, EndType
  <2>4. UNCHANGED <<scenario, pc, mode, files, exported>>
    BY <1>3 DEF LastPass
  <2>5. CASE mode = "plain"
    <3>1. PlainResults
      BY <1>3, <2>5 DEF LastPass
    <3>2. /\ plan' = IF err' THEN <<>> ELSE PlainParts
          /\ agg' = [agg EXCEPT !.last = TRUE, !.at = IF err' THEN "done" ELSE "subtitles"]
      BY <3>1 DEF PlainResults
    <3>3. /\ agg' \in [at: Stages \cup {"results", "done"}, last: BOOLEAN, cleaned: Nat]
          /\ agg'.last /\ agg'.cleaned = 0 /\ agg'.at = IF err' THEN "done" ELSE "subtitles"
      BY <2>2, <3>2 DEF ExportType, Stages
    <3>4. files \in SUBSET Video /\ files # {}
      BY <2>2 DEF RunType
    <3>5. PlanFits(plan', files) /\ (~err' => plan' # <<>>)
      BY <3>2, <3>4, EmptyPlanFits, PlainPartsFit
    <3>6. Len(plan') \in Nat /\ (~err' => Len(plan') # 0)
      BY <3>5 DEF PlanFits
    <3>7. exported = 0
      BY <2>2, <2>5 DEF ModeShape
    <3>8. RunType'
      BY <2>4, <3>4, <3>5 DEF RunType
    <3>9. ExportType'
      BY <1>1, <2>4, <3>3 DEF ExportType
    <3>10. PlaceShape'
      BY <2>4, <3>3, <3>6, <3>7 DEF PlaceShape, Stages
    <3>11. ModeShape'
      BY <2>2, <2>4, <3>3, <2>5 DEF ModeShape
    <3>12. QED
      BY <2>1, <2>3, <3>8, <3>9, <3>10, <3>11
  <2>6. CASE mode # "plain"
    <3>1. /\ plan' = plan /\ err' = err
          /\ agg' = [agg EXCEPT !.last = TRUE, !.at = IF Ready(exported, At({"collected"})) THEN "subtitles" ELSE "done"]
      BY <1>3, <2>6 DEF LastPass
    <3>2. /\ agg' \in [at: Stages \cup {"results", "done"}, last: BOOLEAN, cleaned: Nat]
          /\ agg'.last /\ agg'.cleaned = 0 /\ agg'.at \in {"subtitles", "done"}
          /\ agg'.at = "subtitles" => exported < Len(plan)
      BY <2>2, <3>1 DEF ExportType, Stages, Ready
    <3>3. RunType'
      BY <2>4, <3>1 DEF RunType
    <3>4. ExportType'
      BY <1>1, <2>4, <3>2 DEF ExportType
    <3>5. PlaceShape'
      BY <2>4, <3>1, <3>2 DEF PlaceShape, Stages
    <3>6. ModeShape'
      BY <2>2, <2>4, <3>2, <2>6 DEF ModeShape
    <3>7. QED
      BY <2>1, <2>3, <3>3, <3>4, <3>5, <3>6
  <2>7. QED
    BY <2>5, <2>6
<1>4. QED
  BY <1>2, <1>3

\* A part's video, subtitles and text are written.
LEMMA WrittenParts ==
  ASSUME CourseTypes, exported < Len(plan)
  PROVE  /\ Kept(This) \in PartFiles
         /\ \A b \in BOOLEAN : [part EXCEPT ![This] = [Kept(This) EXCEPT !.srt = b]] \in [Number -> PartFiles]
         /\ \A p \in {"none", "cut", "whole"} : [part EXCEPT ![This].video = p] \in [Number -> PartFiles]
         /\ \A h, c \in SUBSET Video :
              [part EXCEPT ![This].video = "whole", ![This].has = h, ![This].cut = c] \in [Number -> PartFiles]
         /\ \A t \in SUBSET Video : [part EXCEPT ![This].text = t] \in [Number -> PartFiles]
<1>1. part \in [Number -> PartFiles] /\ This \in Number /\ part[This] \in PartFiles
  BY InHand DEF CourseTypes, DiskType
<1>2. Kept(This) \in PartFiles
  BY <1>1 DEF Kept, NoPart, PartFiles
<1>3. \A b \in BOOLEAN : [Kept(This) EXCEPT !.srt = b] \in PartFiles
  BY <1>2 DEF PartFiles
<1>4. \A b \in BOOLEAN : [part EXCEPT ![This] = [Kept(This) EXCEPT !.srt = b]] \in [Number -> PartFiles]
  BY <1>1, <1>3
<1>5. \A p \in {"none", "cut", "whole"} : [part EXCEPT ![This].video = p] \in [Number -> PartFiles]
  BY <1>1 DEF PartFiles
<1>6. \A h, c \in SUBSET Video :
        [part EXCEPT ![This].video = "whole", ![This].has = h, ![This].cut = c] \in [Number -> PartFiles]
  BY <1>1 DEF PartFiles
<1>7. \A t \in SUBSET Video : [part EXCEPT ![This].text = t] \in [Number -> PartFiles]
  BY <1>1 DEF PartFiles
<1>8. QED
  BY <1>2, <1>4, <1>5, <1>6, <1>7

\* An aggregator in a stage: the run has begun, and the plain path its last pass.
LEMMA InStage ==
  ASSUME CourseTypes, agg.at \in Stages
  PROVE  /\ exported < Len(plan) /\ pc # "off" /\ agg.at # "done" /\ agg.at # "results"
         /\ mode = "plain" => agg.last
         /\ exported \in Nat /\ exported + 1 \in Nat /\ Len(plan) \in Nat /\ exported + 1 <= Len(plan)
         /\ agg.last \in BOOLEAN /\ agg.cleaned \in Nat
<1>1. exported < Len(plan) /\ pc # "off" /\ agg.at # "done" /\ agg.at # "results" /\ (mode = "plain" => agg.last)
  BY DEF CourseTypes, PlaceShape, ModeShape, Stages
<1>2. exported \in Nat /\ agg.last \in BOOLEAN /\ agg.cleaned \in Nat
  BY DEF CourseTypes, ExportType
<1>3. Len(plan) \in Nat
  BY PlanIsSeq DEF CourseTypes
<1>4. QED
  BY <1>1, <1>2, <1>3

\* The four ways on from a stage.
LEMMA NextStage ==
  ASSUME CourseTypes, UNCHANGED <<run, scenario, exported>>, NEW from \in Stages,
         NEW to \in Stages \ {"cleanup"}, Step(from, to), from # "cleanup",
         mode = "plain" => to # "verify"
  PROVE  RunType' /\ ExportType' /\ PlaceShape' /\ ModeShape'
<1>1. /\ agg' \in [at: Stages \cup {"results", "done"}, last: BOOLEAN, cleaned: Nat]
      /\ agg.at = from /\ agg'.at = to /\ agg'.last = agg.last /\ agg'.cleaned = agg.cleaned
  BY StepGoes DEF CourseTypes
<1>2. agg.at \in Stages /\ agg.cleaned = 0
  BY <1>1 DEF CourseTypes, PlaceShape
<1>3. exported < Len(plan) /\ (mode = "plain" => agg.last) /\ agg.at # "done" /\ exported' \in Nat
  BY <1>2, InStage
<1>4. PlaceShape'
  BY <1>1, <1>2, <1>3 DEF PlaceShape, run, Stages
<1>5. QED
  BY <1>1, <1>2, <1>3, <1>4, AggregatorTypes

LEMMA GiveUpTypes ==
  ASSUME CourseTypes, UNCHANGED <<run, scenario, exported>>, agg.at \in Stages, GiveUpPart
  PROVE  RunType' /\ ExportType' /\ PlaceShape' /\ ModeShape'
<1>1. /\ agg' \in [at: Stages \cup {"results", "done"}, last: BOOLEAN, cleaned: Nat]
      /\ agg'.last = agg.last /\ agg'.cleaned = 0 /\ agg'.at \in {"results", "done"}
      /\ agg'.at = "results" <=> ~agg.last /\ mode # "plain"
  BY GiveUpGoes DEF CourseTypes
<1>2. exported < Len(plan) /\ (mode = "plain" => agg.last) /\ agg.at # "done" /\ exported' \in Nat
      /\ exported <= Len(plan)
  BY InStage
<1>3. PlaceShape'
  BY <1>1, <1>2 DEF PlaceShape, run, Stages
<1>4. QED
  BY <1>1, <1>2, <1>3, AggregatorTypes

LEMMA PartDoneTypes ==
  ASSUME CourseTypes, UNCHANGED <<run, scenario>>, NEW from \in Stages, PartDone(from)
  PROVE  RunType' /\ ExportType' /\ PlaceShape' /\ ModeShape'
<1>1. agg.at \in Stages /\ exported' = exported + 1 /\ Scan(exported + 1, At({"collected"}))
  BY DEF PartDone
<1>2. /\ exported + 1 \in Nat /\ exported + 1 <= Len(plan) /\ agg.last \in BOOLEAN
      /\ mode = "plain" => agg.last
      /\ agg.at # "done"
  BY <1>1, InStage
<1>3. /\ agg' \in [at: Stages \cup {"results", "done"}, last: BOOLEAN, cleaned: Nat]
      /\ agg'.last = agg.last /\ agg'.cleaned = 0 /\ agg'.at \in {"subtitles", "results", "done"}
      /\ agg'.at = "subtitles" => exported + 1 < Len(plan)
      /\ agg'.at = "results" => ~agg.last
      /\ agg'.at = "done" => agg.last
  BY <1>1, <1>2, ScanGoes DEF Ready
<1>4. plan' = plan
  BY DEF run
<1>5. PlaceShape'
  BY <1>1, <1>2, <1>3, <1>4 DEF PlaceShape, Stages
<1>6. QED
  BY <1>1, <1>2, <1>3, <1>5, AggregatorTypes

LEMMA StageTypes ==
  ASSUME CourseTypes
  PROVE  Subtitles \/ MergeVideo \/ MergeFails \/ Text \/ Verify => CourseTypes'
<1> USE DEF CourseTypes
<1>1. ASSUME Subtitles PROVE CourseTypes'
  <2>1. agg.at \in Stages
    BY <1>1 DEF Subtitles, Step, Stages
  <2>2. part' \in [Number -> PartFiles]
    <3>1. (These \cap srt # {}) \in BOOLEAN
      OBVIOUS
    <3>2. QED
      BY <1>1, <2>1, <3>1, InStage, WrittenParts DEF Subtitles
  <2>3. ScenarioType' /\ DiskType' /\ PoolType' /\ EndType'
    BY <1>1, <2>2 DEF Subtitles, OnlyPart, ScenarioType, DiskType, PoolType, EndType, pool, ends
  <2>4. RunType' /\ ExportType' /\ PlaceShape' /\ ModeShape'
    BY <1>1, NextStage DEF Subtitles, OnlyPart, Stages
  <2>5. QED
    BY <2>3, <2>4
<1>2. ASSUME MergeVideo PROVE CourseTypes'
  <2>1. agg.at \in Stages
    BY <1>2 DEF MergeVideo, Step, Stages
  <2>2. part' \in [Number -> PartFiles]
    <3>1. These \in SUBSET Video
      BY <2>1, InStage, InHand
    <3>2. {v \in These : slide[v] # "whole"} \in SUBSET Video
      BY <3>1
    <3>3. QED
      BY <1>2, <2>1, <3>1, <3>2, InStage, WrittenParts DEF MergeVideo
  <2>3. ScenarioType' /\ DiskType' /\ PoolType' /\ EndType'
    BY <1>2, <2>2 DEF MergeVideo, OnlyPart, ScenarioType, DiskType, PoolType, EndType, pool, ends
  <2>4. RunType' /\ ExportType' /\ PlaceShape' /\ ModeShape'
    BY <1>2, NextStage DEF MergeVideo, OnlyPart, Stages
  <2>5. QED
    BY <2>3, <2>4
<1>3. ASSUME MergeFails PROVE CourseTypes'
  <2>1. agg.at = "video" /\ agg.at \in Stages /\ GiveUpPart /\ SetErr
    BY <1>3 DEF MergeFails, Fails, Stages
  <2>2. part' \in [Number -> PartFiles]
    <3>1. LeftOver(This) \in {"none", "cut", "whole"}
      BY <2>1, InStage, InHand DEF LeftOver, DiskType, PartFiles
    <3>2. QED
      BY <1>3, <2>1, <3>1, InStage, WrittenParts DEF MergeFails
  <2>3. ScenarioType' /\ SameRequest
    BY <1>3, Spending DEF MergeFails
  <2>4. DiskType' /\ PoolType' /\ EndType'
    BY <1>3, <2>1, <2>2 DEF MergeFails, SetErr, DiskType, PoolType, EndType, pool
  <2>5. RunType' /\ ExportType' /\ PlaceShape' /\ ModeShape'
    <3>1. /\ agg' \in [at: Stages \cup {"results", "done"}, last: BOOLEAN, cleaned: Nat]
          /\ agg'.last = agg.last /\ agg'.cleaned = 0 /\ agg'.at \in {"results", "done"}
          /\ agg'.at = "results" <=> ~agg.last /\ mode # "plain"
      BY <2>1, GiveUpGoes
    <3>2. /\ exported < Len(plan) /\ exported <= Len(plan) /\ pc # "off" /\ exported \in Nat
          /\ mode = "plain" => agg.last
      BY <2>1, InStage
    <3>3. UNCHANGED <<pc, mode, files, plan, exported>>
      BY <1>3 DEF MergeFails, run
    <3>4. RunType' /\ ExportType'
      BY <3>1, <3>2, <3>3 DEF RunType, ExportType
    <3>5. PlaceShape'
      BY <3>1, <3>2, <3>3 DEF PlaceShape, Stages
    <3>6. ModeShape'
      BY <2>3, <3>1, <3>2, <3>3 DEF ModeShape, SameRequest, Stages
    <3>7. QED
      BY <3>4, <3>5, <3>6
  <2>6. QED
    BY <2>3, <2>4, <2>5
<1>4. ASSUME Text PROVE CourseTypes'
  <2>1. agg.at = "text" /\ agg.at \in Stages
    BY <1>4 DEF Text, Step, PartDone, Stages
  <2>2. part' \in [Number -> PartFiles]
    <3>1. These \cap srt \in SUBSET Video
      BY DEF DiskType
    <3>2. QED
      BY <1>4, <2>1, <3>1, InStage, WrittenParts DEF Text
  <2>3. ScenarioType' /\ DiskType' /\ PoolType' /\ EndType'
    BY <1>4, <2>2 DEF Text, OnlyPart, ScenarioType, DiskType, PoolType, EndType, pool, ends
  <2>4. UNCHANGED <<run, scenario>>
    BY <1>4 DEF Text, OnlyPart
  <2>5. CASE mode = "plain"
    <3>1. PartDone("text") /\ "text" \in Stages
      BY <1>4, <2>5 DEF Text, Stages
    <3>2. QED
      BY <2>3, <2>4, <3>1, PartDoneTypes
  <2>6. CASE mode # "plain"
    <3>1. Step("text", "verify") /\ UNCHANGED exported
      BY <1>4, <2>6 DEF Text
    <3>2. QED
      BY <2>3, <2>4, <2>6, <3>1, NextStage DEF Stages
  <2>7. QED
    BY <2>5, <2>6
<1>5. ASSUME Verify PROVE CourseTypes'
  <2>1. agg.at = "verify" /\ agg.at \in Stages /\ UNCHANGED <<scenario, disk, run, pool, cancelled, answer>>
    BY <1>5 DEF Verify, OnlyExport, Stages
  <2>2. ScenarioType' /\ DiskType' /\ PoolType'
    BY <2>1 DEF ScenarioType, DiskType, PoolType, disk, pool
  <2>3. EndType'
    BY <1>5, <2>1 DEF Verify, Fails, SetErr, EndType, ends
  <2>4. CASE stopped \/ ~Verified(This)
    <3>1. GiveUpPart /\ UNCHANGED exported
      BY <1>5, <2>4 DEF Verify, Fails
    <3>2. QED
      BY <2>1, <2>2, <2>3, <3>1, GiveUpTypes
  <2>5. CASE ~(stopped \/ ~Verified(This)) /\ scenario.cleanup
    <3>1. Step("verify", "cleanup") /\ UNCHANGED exported
      BY <1>5, <2>5 DEF Verify
    <3>2. /\ agg' \in [at: Stages \cup {"results", "done"}, last: BOOLEAN, cleaned: Nat]
          /\ agg'.at = "cleanup" /\ agg'.last = agg.last /\ agg'.cleaned = agg.cleaned
      BY <3>1, StepGoes DEF Stages
    <3>3. mode # "plain" /\ agg.cleaned = 0
      BY <2>1 DEF ModeShape, PlaceShape
    <3>4. exported < Len(plan) /\ exported' \in Nat /\ agg.at # "done"
      BY <2>1, <3>1, InStage
    <3>5. Len(Items) > 0 /\ Items' = Items
      <4>1. Len(Items) \in Nat \ {0}
        BY <3>4, InHand
      <4>2. Items' = Items
        BY <2>1, <3>1 DEF Items, run
      <4>3. QED
        BY <4>1, <4>2
    <3>6. PlaceShape'
      BY <2>1, <3>1, <3>2, <3>3, <3>4, <3>5 DEF PlaceShape, run, Stages
    <3>7. RunType' /\ ExportType' /\ ModeShape'
      BY <2>1, <3>2, <3>3, <3>4, <3>6, AggregatorTypes
    <3>8. QED
      BY <2>2, <2>3, <3>6, <3>7
  <2>6. CASE ~(stopped \/ ~Verified(This)) /\ ~scenario.cleanup
    <3>1. PartDone("verify") /\ "verify" \in Stages
      BY <1>5, <2>6 DEF Verify, Stages
    <3>2. QED
      BY <2>1, <2>2, <2>3, <3>1, PartDoneTypes
  <2>7. QED
    BY <2>4, <2>5, <2>6
<1>6. QED
  BY <1>1, <1>2, <1>3, <1>4, <1>5

LEMMA CleanupTypes == CourseTypes /\ Cleanup => CourseTypes'
<1> SUFFICES ASSUME CourseTypes, Cleanup PROVE CourseTypes'
  OBVIOUS
<1> USE DEF CourseTypes
<1>1. agg.at = "cleanup" /\ agg.at \in Stages /\ UNCHANGED <<scenario, run, pool, cancelled, answer>>
  BY DEF Cleanup, Stages
<1>2. /\ exported < Len(plan) /\ agg.cleaned \in Nat /\ agg.cleaned < Len(Items) /\ Len(Items) \in Nat
      /\ exported \in Nat /\ agg.at # "done" /\ mode # "plain"
  <2>1. exported < Len(plan) /\ agg.cleaned \in Nat /\ exported \in Nat /\ agg.at # "done"
    BY <1>1, InStage
  <2>2. agg.cleaned < Len(Items) /\ mode # "plain"
    BY <1>1 DEF PlaceShape, ModeShape
  <2>3. Len(Items) \in Nat
    BY <2>1, InHand
  <2>4. QED
    BY <2>1, <2>2, <2>3
<1>3. ScenarioType' /\ PoolType'
  BY <1>1 DEF ScenarioType, PoolType, pool
<1> DEFINE v == Items[agg.cleaned + 1]
<1>4. CASE v \in scenario.sticky
  <2>1. Fails("cleanup") /\ UNCHANGED <<disk, exported>>
    BY <1>4 DEF Cleanup
  <2>2. DiskType' /\ EndType'
    BY <1>1, <2>1 DEF Fails, SetErr, DiskType, EndType, disk
  <2>3. RunType' /\ ExportType' /\ PlaceShape' /\ ModeShape'
    BY <1>1, <2>1, GiveUpTypes DEF Fails
  <2>4. QED
    BY <1>3, <2>2, <2>3
<1>5. CASE v \notin scenario.sticky
  <2>1. /\ sources' = sources \ {v} /\ srt' = srt \ {v} /\ slide' = [slide EXCEPT ![v] = "none"]
        /\ IF agg.cleaned + 1 = Len(Items) THEN PartDone("cleanup")
           ELSE agg' = [agg EXCEPT !.cleaned = @ + 1] /\ UNCHANGED exported
        /\ UNCHANGED <<part, ends>>
    BY <1>5 DEF Cleanup
  <2>2. DiskType'
    <3>1. sources' \in SUBSET Video /\ srt' \in SUBSET Video
      BY <2>1 DEF DiskType
    <3>2. slide' \in [Video -> {"none", "cut", "whole"}]
      BY <2>1 DEF DiskType
    <3>3. QED
      BY <2>1, <3>1, <3>2 DEF DiskType
  <2>3. EndType'
    BY <1>1, <2>1 DEF EndType, ends
  <2>4. CASE agg.cleaned + 1 = Len(Items)
    <3>1. PartDone("cleanup") /\ "cleanup" \in Stages
      BY <2>1, <2>4 DEF Stages
    <3>2. QED
      BY <1>1, <1>3, <2>2, <2>3, <3>1, PartDoneTypes
  <2>5. CASE agg.cleaned + 1 # Len(Items)
    <3>1. agg' = [agg EXCEPT !.cleaned = @ + 1] /\ UNCHANGED exported
      BY <2>1, <2>5
    <3>2. /\ agg' \in [at: Stages \cup {"results", "done"}, last: BOOLEAN, cleaned: Nat]
          /\ agg'.at = "cleanup" /\ agg'.last = agg.last /\ agg'.cleaned = agg.cleaned + 1
      BY <1>1, <3>1 DEF ExportType
    <3>3. Items' = Items
      BY <1>1, <3>1 DEF Items, run
    <3>4. agg.cleaned + 1 < Len(Items)
      BY <1>2, <2>5
    <3>5. PlaceShape'
      BY <1>1, <1>2, <3>1, <3>2, <3>3, <3>4 DEF PlaceShape, run
    <3>6. RunType' /\ ExportType' /\ ModeShape'
      BY <1>1, <1>2, <3>1, <3>2, <3>5, AggregatorTypes
    <3>7. QED
      BY <1>3, <2>2, <2>3, <3>5, <3>6
  <2>6. QED
    BY <2>4, <2>5
<1>6. QED
  BY <1>4, <1>5

LEMMA EndingTypes ==
  ASSUME CourseTypes
  PROVE  Return \/ Plain \/ Cancel \/ Kill => CourseTypes'
<1> USE DEF CourseTypes
<1>1. ASSUME Return PROVE CourseTypes'
  <2>1. ScenarioType' /\ DiskType' /\ PoolType' /\ ExportType'
    BY <1>1 DEF Return, ScenarioType, DiskType, PoolType, ExportType, disk, pool, export
  <2>2. EndType' /\ RunType'
    BY <1>1 DEF Return, EndType, RunType, ends
  <2>3. PlaceShape'
    BY <1>1 DEF Return, PlaceShape, Items, export
  <2>4. ModeShape'
    BY <1>1 DEF Return, ModeShape, Stages, export, pool
  <2>5. QED
    BY <2>1, <2>2, <2>3, <2>4
<1>2. ASSUME Plain PROVE CourseTypes'
  <2>1. ScenarioType' /\ DiskType'
    BY <1>2 DEF Plain, ScenarioType, DiskType, disk
  <2>2. /\ gone' = 0 /\ exported' = 0 /\ err' = FALSE /\ agg' = [at |-> "results", last |-> FALSE, cleaned |-> 0]
        /\ stopped' = cancelled /\ cancelled' = cancelled /\ files' = files /\ scenario' = scenario
    BY <1>2 DEF Plain, Fresh
  <2>3. /\ mode' = "plain" /\ plan' = <<>>
        /\ \/ pc' = "off" /\ answer' = "failed" /\ at' = Queued({})
           \/ pc' = "drain" /\ answer' = "none" /\ at' = Queued(files')
    BY <1>2 DEF Plain, StartPlain
  <2>4. files # {}
    BY <1>2 DEF Plain, RunType
  <2>5. RunType'
    BY <2>2, <2>3, <2>4, EmptyPlanFits DEF RunType
  <2>6. PoolType' /\ (pc' = "off" => \A v \in Video : at'[v] = "none")
    BY <2>2, <2>3, QueuedTypes DEF PoolType
  <2>7. ExportType'
    BY <2>2 DEF ExportType
  <2>8. EndType'
    BY <2>2, <2>3 DEF EndType
  <2>9. PlaceShape'
    BY <2>2, <2>3 DEF PlaceShape, Stages
  <2>10. ModeShape'
    BY <2>2, <2>3, <2>6 DEF ModeShape, Stages
  <2>11. QED
    BY <2>1, <2>5, <2>6, <2>7, <2>8, <2>9, <2>10
<1>3. ASSUME Cancel PROVE CourseTypes'
  <2>1. ScenarioType' /\ SameRequest
    BY <1>3, Spending DEF Cancel
  <2>2. DiskType' /\ PoolType' /\ EndType'
    BY <1>3 DEF Cancel, DiskType, PoolType, EndType, disk, pool
  <2>3. RunType' /\ ExportType' /\ PlaceShape' /\ ModeShape'
    <3>1. UNCHANGED <<mode, files, plan, export, pc>> /\ UNCHANGED at
      BY <1>3 DEF Cancel, run, pool
    <3>2. QED
      BY <2>1, <3>1, ElsewhereTypes
  <2>4. QED
    BY <2>1, <2>2, <2>3
<1>4. ASSUME Kill PROVE CourseTypes'
  <2>1. ScenarioType' /\ SameRequest
    BY <1>4, Spending DEF Kill
  <2>2. /\ gone' = 0 /\ exported' = 0 /\ err' = FALSE /\ agg' = [at |-> "results", last |-> FALSE, cleaned |-> 0]
        /\ at' = [v \in Video |-> "none"] /\ plan' = <<>> /\ pc' = "off" /\ answer' = "killed"
        /\ UNCHANGED <<sources, srt, mode, files, stopped, cancelled>>
    BY <1>4 DEF Kill, Fresh
  <2>3. slide' \in [Video -> {"none", "cut", "whole"}]
    <3>1. PICK half : slide' = [v \in Video |-> IF v \in half THEN "cut" ELSE slide[v]]
      BY <1>4 DEF Kill
    <3>2. QED
      BY <3>1 DEF DiskType
  <2>4. part' \in [Number -> PartFiles]
    <3>1. part' = part \/ (agg.at = "video" /\ part' = [part EXCEPT ![This].video = "cut"])
      BY <1>4 DEF Kill
    <3>2. agg.at = "video" => exported < Len(plan)
      BY InStage DEF Stages
    <3>3. QED
      BY <3>1, <3>2, WrittenParts DEF DiskType
  <2>5. DiskType'
    BY <2>2, <2>3, <2>4 DEF DiskType
  <2>6. PoolType' /\ ExportType' /\ EndType'
    BY <2>2 DEF PoolType, ExportType, EndType, Places
  <2>7. RunType'
    BY <2>2, EmptyPlanFits DEF RunType
  <2>8. PlaceShape'
    BY <2>2 DEF PlaceShape, Stages
  <2>9. ModeShape'
    BY <2>1, <2>2 DEF ModeShape, Stages, SameRequest
  <2>10. QED
    BY <2>1, <2>5, <2>6, <2>7, <2>8, <2>9
<1>5. QED
  BY <1>1, <1>2, <1>3, <1>4

LEMMA InitTypes == CourseInit => CourseTypes
<1> SUFFICES ASSUME CourseInit PROVE CourseTypes
  OBVIOUS
<1>1. ScenarioType
  BY CourseAssumption DEF CourseInit, ScenarioType, Request
<1>2. DiskType
  BY DEF CourseInit, DiskType, NoPart, PartFiles
<1>3. RunType
  BY EmptyPlanFits DEF CourseInit, RunType
<1>4. PoolType /\ ExportType /\ EndType
  BY DEF CourseInit, PoolType, ExportType, EndType, Places
<1>5. PlaceShape /\ ModeShape
  BY DEF CourseInit, PlaceShape, ModeShape, Stages
<1>6. QED
  BY <1>1, <1>2, <1>3, <1>4, <1>5 DEF CourseTypes

LEMMA StutterTypes == CourseTypes /\ UNCHANGED courseVars => CourseTypes'
<1> SUFFICES ASSUME CourseTypes, UNCHANGED courseVars PROVE CourseTypes'
  OBVIOUS
<1> USE DEF CourseTypes, courseVars
<1>1. ScenarioType' /\ DiskType' /\ RunType' /\ PoolType' /\ ExportType' /\ EndType'
  BY DEF ScenarioType, DiskType, RunType, PoolType, ExportType, EndType, disk, run, pool, export, ends
<1>2. PlaceShape' /\ ModeShape'
  BY DEF PlaceShape, ModeShape, Items, run, pool, export
<1>3. QED
  BY <1>1, <1>2

LEMMA TypesKept == CourseTypes /\ [CourseNext]_courseVars => CourseTypes'
BY BeginTypes, TranscriptionTypes, WorkerTypes, CollectTypes, StageTypes, CleanupTypes, EndingTypes, StutterTypes
   DEF CourseNext, Work

\* The state of a run belongs together: its plan is of its own videos, in
\* parts numbered apart, the aggregator is at a part of it, a run that is over
\* has no part in hand, and the plain path writes parts only in its last pass.
THEOREM CourseTypesHold == CourseSpec => []CourseTypes
BY InitTypes, TypesKept, PTL DEF CourseSpec
-----------------------------------------------------------------------------
\* Where every video is.  A part that was written has all its videos, one whose
\* sources are being deleted was verified.  With cleanup, a video is in the
\* folder, was deleted from a part that is being cleaned up or that is whole and
\* that this run will not write, or came before one that cannot be deleted.
PartInHand ==
  /\ agg.at \in {"text", "verify", "cleanup"} => part[This].has = These
  /\ agg.at = "cleanup" => scenario.cleanup /\ Verified(This)

Pending == {plan[m].number : m \in (exported + 1)..Len(plan)}
Saved(n, v) == /\ CompletePart(n) /\ part[n].video = "whole" /\ v \in part[n].has
               /\ part[n].cut \in scenario.tolerated
Excused(v) == \E w \in scenario.sticky : v < w
Deleted(v) == agg.at = "cleanup" /\ \E i \in 1..agg.cleaned : Items[i] = v
Placed(v) ==
  v \in sources \/ Excused(v) \/ Deleted(v) \/ \E n \in Number \ ({0} \cup Pending) : Saved(n, v)

Cleaning == scenario.cleanup /\ scenario.limit > 0 /\ scenario.whisper = "batch"
AllPlaced == Cleaning =>
  /\ mode = "pipe"
  /\ \A m \in DOMAIN plan : plan[m].number # 0
  /\ \A v \in Video \ scenario.late : Placed(v)
AllInFolder == ~scenario.cleanup => Video \ scenario.late \subseteq sources
Loss == PartInHand /\ AllPlaced /\ AllInFolder

LEMMA LossIsNothing == CourseTypes /\ Loss => NothingLost
<1> SUFFICES ASSUME CourseTypes, Loss, SafelyNumbered, NEW v \in Video \ scenario.late
             PROVE  \/ v \in sources
                    \/ \E n \in Number : Saved(n, v)
                    \/ \E w \in scenario.sticky : v < w
  BY DEF NothingLost, Saved
<1>1. CASE ~scenario.cleanup
  BY <1>1 DEF Loss, AllInFolder
<1>2. CASE scenario.cleanup
  <2>1. Placed(v)
    BY <1>2 DEF Loss, AllPlaced, Cleaning, SafelyNumbered
  <2>2. CASE Deleted(v)
    <3>1. agg.at = "cleanup" /\ exported < Len(plan) /\ PartInHand
      BY <2>2 DEF Deleted, CourseTypes, PlaceShape, Stages, Loss
    <3>2. v \in These
      <4>1. PICK i \in 1..agg.cleaned : Items[i] = v
        BY <2>2 DEF Deleted
      <4>2. agg.cleaned \in Nat /\ agg.cleaned < Len(Items) /\ DOMAIN Items = 1..Len(Items) /\ Len(Items) \in Nat
        BY <3>1, InHand DEF CourseTypes, ExportType, PlaceShape
      <4>3. i \in DOMAIN Items
        BY <4>2
      <4>4. QED
        BY <4>1, <4>3 DEF These, InPart, Items
    <3>3. This \in Number
      BY <3>1, InHand DEF CourseTypes
    <3>4. QED
      BY <3>1, <3>2, <3>3 DEF PartInHand, Verified, AnyLength, Saved
  <2>3. CASE ~Deleted(v)
    BY <2>1, <2>3 DEF Placed, Excused
  <2>4. QED
    BY <2>2, <2>3
<1>3. QED
  BY <1>1, <1>2

\* The number of the part in hand is no other's.
LEMMA ThisIsPending ==
  ASSUME CourseTypes, agg.at \in Stages
  PROVE  /\ This \in Pending
         /\ {plan[m].number : m \in (exported + 2)..Len(plan)} \subseteq Pending
         /\ This \notin {plan[m].number : m \in (exported + 2)..Len(plan)}
         /\ \A m \in 1..exported : m \in DOMAIN plan /\ plan[m].number # This
<1>1. exported \in Nat /\ Len(plan) \in Nat /\ exported + 1 <= Len(plan) /\ DOMAIN plan = 1..Len(plan)
  BY InStage, PlanIsSeq DEF CourseTypes
<1>2. \A m, n \in DOMAIN plan : plan[m].number = plan[n].number => m = n
  BY DEF CourseTypes, RunType, PlanFits
<1>3. /\ exported + 1 \in (exported + 1)..Len(plan)
      /\ \A m \in (exported + 2)..Len(plan) : m \in (exported + 1)..Len(plan) /\ m \in DOMAIN plan /\ m # exported + 1
      /\ \A m \in 1..exported : m \in DOMAIN plan /\ m # exported + 1
      /\ exported + 1 \in DOMAIN plan
  BY <1>1
<1>4. QED
  BY <1>2, <1>3 DEF This, Pending

\* Steps that write no part but those the run has yet to export.
LEMMA PlacedKept ==
  ASSUME CourseTypes, AllPlaced, SameRequest, sources \subseteq sources', UNCHANGED <<mode, plan, exported>>,
         \A n \in Number \ ({0} \cup Pending) : part'[n] = part[n],
         agg.at = "cleanup" => agg'.at = "cleanup" /\ agg'.cleaned = agg.cleaned
  PROVE  AllPlaced'
<1> SUFFICES ASSUME Cleaning PROVE (/\ mode = "pipe"
                                    /\ \A m \in DOMAIN plan : plan[m].number # 0
                                    /\ \A v \in Video \ scenario.late : Placed(v))'
  BY DEF AllPlaced, Cleaning, SameRequest
<1>1. mode' = "pipe" /\ (\A m \in DOMAIN plan : plan[m].number # 0)'
  BY DEF AllPlaced
<1>2. ASSUME NEW v \in Video \ scenario'.late PROVE Placed(v)'
  <2>1. Placed(v)
    BY DEF AllPlaced, SameRequest
  <2>2. Pending' = Pending
    BY DEF Pending
  <2>3. Items' = Items
    BY DEF Items
  <2>4. \A n \in Number \ ({0} \cup Pending) : Saved(n, v) => Saved(n, v)'
    BY DEF Saved, CompletePart, SameRequest
  <2>5. Deleted(v) => Deleted(v)'
    BY <2>3 DEF Deleted
  <2>6. Excused(v) => Excused(v)'
    BY DEF Excused, SameRequest
  <2>7. QED
    BY <2>1, <2>2, <2>4, <2>5, <2>6 DEF Placed
<1>3. QED
  BY <1>1, <1>2

\* Steps that keep every part and the aggregator.
LEMMA QuietLoss ==
  ASSUME CourseTypes, Loss, SameRequest, UNCHANGED <<sources, part, plan, export, mode>>
  PROVE  Loss'
<1>1. AllPlaced'
  BY PlacedKept DEF Loss, export
<1>2. PartInHand'
  BY DEF Loss, PartInHand, This, These, InPart, Verified, AnyLength, CompletePart, SameRequest, export
<1>3. AllInFolder'
  BY DEF Loss, AllInFolder, SameRequest
<1>4. QED
  BY <1>1, <1>2, <1>3 DEF Loss

LEMMA QuietSteps ==
  ASSUME CourseTypes, Loss
  PROVE  /\ \A v \in Video : Transcribe(v) \/ Take(v) \/ Compress(v) \/ CompressFails(v) \/ CollectFailure(v) => Loss'
         /\ WhisperEnds \/ WhisperBroken \/ Return \/ Cancel => Loss'
<1>1. ScenarioType
  BY DEF CourseTypes
<1>2. ASSUME NEW v \in Video, Transcribe(v) PROVE Loss'
  BY <1>1, <1>2, QuietLoss, Spending DEF Transcribe, run
<1>3. ASSUME NEW v \in Video, Take(v) PROVE Loss'
  BY <1>1, <1>3, QuietLoss, Spending DEF Take, run, disk
<1>4. ASSUME NEW v \in Video, Compress(v) PROVE Loss'
  BY <1>1, <1>4, QuietLoss, Spending DEF Compress, run
<1>5. ASSUME NEW v \in Video, CompressFails(v) PROVE Loss'
  <2>1. SameRequest
    BY <1>1, <1>5, Spending DEF CompressFails
  <2>2. QED
    BY <1>5, <2>1, QuietLoss DEF CompressFails, run
<1>6. ASSUME NEW v \in Video, CollectFailure(v) PROVE Loss'
  BY <1>1, <1>6, QuietLoss, Spending DEF CollectFailure, run, disk
<1>7. ASSUME WhisperEnds PROVE Loss'
  <2>1. SameRequest
    BY <1>1, <1>7, Spending DEF WhisperEnds
  <2>2. QED
    BY <1>7, <2>1, QuietLoss DEF WhisperEnds, disk
<1>8. ASSUME WhisperBroken PROVE Loss'
  BY <1>1, <1>8, QuietLoss, Spending DEF WhisperBroken, disk
<1>9. ASSUME Return PROVE Loss'
  BY <1>1, <1>9, QuietLoss, Spending DEF Return, disk
<1>10. ASSUME Cancel PROVE Loss'
  BY <1>1, <1>10, QuietLoss, Spending DEF Cancel, disk, run
<1>11. QED
  BY <1>2, <1>3, <1>4, <1>5, <1>6, <1>7, <1>8, <1>9, <1>10

\* Between parts there is no part in hand.
LEMMA NoneInHand ==
  ASSUME agg'.at \in {"results", "done", "subtitles", "video"}
  PROVE  PartInHand'
BY DEF PartInHand

LEMMA BetweenLoss ==
  ASSUME CourseTypes, Loss
  PROVE  /\ \A v \in Video : Late(v) \/ Collect(v) => Loss'
         /\ LastPass \/ Plain \/ Begin => Loss'
<1>1. ASSUME NEW v \in Video, Late(v) PROVE Loss'
  <2>1. /\ sources' = sources \cup {v} /\ scenario' = [scenario EXCEPT !.late = @ \ {v}]
        /\ UNCHANGED <<part, mode, plan, export>>
    BY <1>1 DEF Late, run
  <2>2. /\ scenario'.late = scenario.late \ {v} /\ scenario'.cleanup = scenario.cleanup
        /\ scenario'.limit = scenario.limit /\ scenario'.whisper = scenario.whisper /\ scenario'.sticky = scenario.sticky
        /\ scenario'.tolerated = scenario.tolerated
    BY <2>1 DEF CourseTypes, ScenarioType, Request
  <2>3. PartInHand'
    BY <2>1, <2>2 DEF Loss, PartInHand, This, These, InPart, Verified, AnyLength, CompletePart, export
  <2>4. AllInFolder'
    BY <2>1, <2>2 DEF Loss, AllInFolder
  <2>5. \A u \in Video : Placed(u) => Placed(u)'
    BY <2>1, <2>2 DEF Placed, Excused, Deleted, Saved, CompletePart, Pending, Items, export
  <2>6. Placed(v)'
    BY <2>1 DEF Placed
  <2>7. AllPlaced'
    BY <2>1, <2>2, <2>5, <2>6 DEF Loss, AllPlaced, Cleaning
  <2>8. QED
    BY <2>3, <2>4, <2>7 DEF Loss
<1>2. ASSUME NEW v \in Video, Collect(v) PROVE Loss'
  <2>1. agg.at = "results" /\ SameRequest /\ UNCHANGED <<sources, part, mode, plan, exported>>
    BY <1>2 DEF Collect, SameRequest, disk, run
  <2>2. agg'.at \in {"results", "done", "subtitles", "video"}
    BY <1>2 DEF Collect, Scan
  <2>3. AllPlaced'
    BY <2>1, PlacedKept DEF Loss
  <2>4. AllInFolder'
    BY <2>1 DEF Loss, AllInFolder, SameRequest
  <2>5. QED
    BY <2>2, <2>3, <2>4, NoneInHand DEF Loss
<1>3. ASSUME LastPass PROVE Loss'
  <2>1. agg.at = "results" /\ SameRequest /\ UNCHANGED <<sources, part, mode, exported>>
    BY <1>3 DEF LastPass, SameRequest, disk
  <2>2. agg \in [at: Stages \cup {"results", "done"}, last: BOOLEAN, cleaned: Nat]
    BY DEF CourseTypes, ExportType
  <2>3. agg'.at \in {"results", "done", "subtitles", "video"}
    BY <1>3, <2>2 DEF LastPass, PlainResults
  <2>4. AllPlaced'
    <3>1. CASE mode = "plain"
      BY <2>1, <3>1 DEF Loss, AllPlaced, Cleaning, SameRequest
    <3>2. CASE mode # "plain"
      <4>1. plan' = plan
        BY <1>3, <3>2 DEF LastPass
      <4>2. QED
        BY <2>1, <4>1, PlacedKept DEF Loss
    <3>3. QED
      BY <3>1, <3>2
  <2>5. AllInFolder'
    BY <2>1 DEF Loss, AllInFolder, SameRequest
  <2>6. QED
    BY <2>3, <2>4, <2>5, NoneInHand DEF Loss
<1>4. ASSUME Plain PROVE Loss'
  <2>1. scenario' = scenario /\ sources' = sources /\ scenario.whisper = "broken"
    BY <1>4 DEF Plain, disk, CourseTypes, ModeShape
  <2>2. agg'.at = "results"
    BY <1>4 DEF Plain, Fresh
  <2>3. QED
    BY <2>1, <2>2, NoneInHand DEF Loss, AllPlaced, Cleaning, AllInFolder
<1>5. ASSUME Begin PROVE Loss'
  <2>1. SameRequest /\ sources' = sources /\ part' = part
    BY <1>5, Spending DEF Begin, CourseTypes
  <2>2. agg'.at = "results" /\ exported' = 0
    BY <1>5 DEF Begin, Fresh
  <2>3. AllInFolder'
    BY <2>1 DEF Loss, AllInFolder, SameRequest
  <2>4. AllPlaced'
    <3> SUFFICES ASSUME Cleaning PROVE (/\ mode = "pipe"
                                        /\ \A m \in DOMAIN plan : plan[m].number # 0
                                        /\ \A v \in Video \ scenario.late : Placed(v))'
      BY <2>1 DEF AllPlaced, Cleaning, SameRequest
    <3>1. mode' = "pipe" /\ plan' = PlanParts(sources) /\ Len(PlanParts(sources)) <= Len(FreeNumbers)
      BY <1>5 DEF Begin, Cleaning
    <3>2. sources \in SUBSET Video
      BY DEF CourseTypes, DiskType
    <3>3. \A m \in DOMAIN plan' : plan'[m].number \notin {0} \cup Existing
      BY <3>1, <3>2, PlannedParts DEF Cleaning
    <3>4. Len(plan') \in Nat /\ DOMAIN plan' = 1..Len(plan')
      <4>1. PlanFits(plan', sources)
        BY <3>1, <3>2, PlannedParts
      <4>2. QED
        BY <4>1 DEF PlanFits
    <3>5. \A n \in Pending' : n \notin {0} \cup Existing
      <4>1. \A m \in (exported' + 1)..Len(plan') : m \in DOMAIN plan'
        BY <2>2, <3>4
      <4>2. QED
        BY <3>3, <4>1 DEF Pending
    <3>6. ASSUME NEW v \in Video \ scenario'.late PROVE Placed(v)'
      <4>1. Placed(v)
        BY <2>1 DEF Loss, AllPlaced, SameRequest
      <4>2. ~Deleted(v)
        BY <1>5 DEF Begin, Deleted, CourseTypes, ModeShape, Stages
      <4>3. ASSUME NEW n \in Number \ {0}, Saved(n, v) PROVE n \notin Pending' /\ Saved(n, v)'
        <5>1. n \in Existing
          BY <4>3 DEF Existing, Saved, Cleaning
        <5>2. QED
          BY <2>1, <3>5, <4>3, <5>1 DEF Saved, CompletePart, SameRequest
      <4>4. Excused(v) => Excused(v)'
        BY <2>1 DEF Excused, SameRequest
      <4>5. QED
        BY <2>1, <4>1, <4>2, <4>3, <4>4 DEF Placed
    <3>7. QED
      BY <3>1, <3>3, <3>6
  <2>5. QED
    BY <2>2, <2>3, <2>4, NoneInHand DEF Loss
<1>6. QED
  BY <1>1, <1>2, <1>3, <1>4, <1>5

\* A stage writes the part in hand only.
LEMMA StagePlaced ==
  ASSUME CourseTypes, AllPlaced, SameRequest, UNCHANGED <<sources, mode, plan, exported>>,
         agg.at \in Stages \ {"cleanup"}, \A n \in Number : n # This => part'[n] = part[n]
  PROVE  AllPlaced'
<1>1. This \in Pending
  BY ThisIsPending
<1>2. \A n \in Number \ ({0} \cup Pending) : part'[n] = part[n]
  BY <1>1
<1>3. QED
  BY <1>2, PlacedKept

LEMMA StageLoss ==
  ASSUME CourseTypes, Loss
  PROVE  Subtitles \/ MergeVideo \/ MergeFails \/ Text \/ Verify => Loss'
<1>1. part \in [Number -> PartFiles]
  BY DEF CourseTypes, DiskType
<1>2. agg \in [at: Stages \cup {"results", "done"}, last: BOOLEAN, cleaned: Nat] /\ ScenarioType
  BY DEF CourseTypes, ExportType
<1>3. ASSUME agg.at \in Stages PROVE This \in Number /\ part[This] \in PartFiles
  BY <1>1, <1>3, InStage, InHand DEF CourseTypes
<1>4. ASSUME SameRequest, UNCHANGED <<sources, mode, plan, exported>>, agg.at \in Stages \ {"cleanup"},
             \A n \in Number : n # This => part'[n] = part[n], PartInHand'
      PROVE  Loss'
  <2>1. AllPlaced'
    BY <1>4, StagePlaced DEF Loss
  <2>2. AllInFolder'
    BY <1>4 DEF Loss, AllInFolder, SameRequest
  <2>3. QED
    BY <1>4, <2>1, <2>2 DEF Loss
<1>5. ASSUME GiveUpPart PROVE PartInHand'
  <2>1. agg'.at \in {"results", "done"}
    BY <1>2, <1>5 DEF GiveUpPart
  <2>2. QED
    BY <2>1, NoneInHand
<1>6. ASSUME Subtitles PROVE Loss'
  <2>1. agg.at = "subtitles" /\ agg'.at = "video" /\ SameRequest /\ UNCHANGED <<sources, mode, plan, exported>>
    BY <1>2, <1>6, Spending DEF Subtitles, Step, OnlyPart, run
  <2>2. \A n \in Number : n # This => part'[n] = part[n]
    BY <1>1, <1>6 DEF Subtitles
  <2>3. QED
    BY <1>4, <2>1, <2>2, NoneInHand DEF Stages
<1>7. ASSUME MergeVideo PROVE Loss'
  <2>1. agg.at = "video" /\ agg'.at = "text" /\ SameRequest /\ UNCHANGED <<sources, mode, plan, exported>>
    BY <1>2, <1>7, Spending DEF MergeVideo, Step, OnlyPart, run
  <2>2. \A n \in Number : n # This => part'[n] = part[n]
    BY <1>1, <1>7 DEF MergeVideo
  <2>3. part'[This].has = These
    BY <1>1, <1>3, <1>7, <2>1 DEF MergeVideo, Stages, PartFiles
  <2>4. This' = This /\ These' = These
    BY <2>1 DEF This, These, InPart
  <2>5. PartInHand'
    BY <2>1, <2>3, <2>4 DEF PartInHand
  <2>6. QED
    BY <1>4, <2>1, <2>2, <2>5 DEF Stages
<1>8. ASSUME MergeFails PROVE Loss'
  <2>1. agg.at = "video" /\ SameRequest /\ UNCHANGED <<sources, mode, plan, exported>> /\ GiveUpPart
    <3>1. SameRequest
      BY <1>2, <1>8, Spending DEF MergeFails
    <3>2. QED
      BY <1>8, <3>1 DEF MergeFails, Fails, run
  <2>2. \A n \in Number : n # This => part'[n] = part[n]
    BY <1>1, <1>8 DEF MergeFails
  <2>3. QED
    BY <1>4, <1>5, <2>1, <2>2 DEF Stages
<1>9. ASSUME Text PROVE Loss'
  <2>1. agg.at = "text" /\ SameRequest /\ UNCHANGED <<sources, mode, plan>>
    BY <1>2, <1>9, Spending DEF Text, Step, PartDone, OnlyPart, run
  <2>2. \A n \in Number : n # This => part'[n] = part[n]
    BY <1>1, <1>9 DEF Text
  <2>3. CASE mode = "plain"
    <3>1. agg'.at \in {"results", "done", "subtitles", "video"}
      BY <1>9, <2>3 DEF Text, PartDone, Scan
    <3>2. AllPlaced'
      BY <2>1, <2>3 DEF Loss, AllPlaced, Cleaning, SameRequest
    <3>3. AllInFolder'
      BY <2>1 DEF Loss, AllInFolder, SameRequest
    <3>4. QED
      BY <3>1, <3>2, <3>3, NoneInHand DEF Loss
  <2>4. CASE mode # "plain"
    <3>1. agg'.at = "verify" /\ exported' = exported
      BY <1>2, <1>9, <2>4 DEF Text, Step
    <3>2. This' = This /\ These' = These
      BY <2>1, <3>1 DEF This, These, InPart
    <3>3. part'[This].has = part[This].has
      BY <1>1, <1>3, <1>9, <2>1 DEF Text, Stages, PartFiles
    <3>4. PartInHand'
      BY <2>1, <3>1, <3>2, <3>3 DEF Loss, PartInHand
    <3>5. QED
      BY <1>4, <2>1, <2>2, <3>1, <3>4 DEF Stages
  <2>5. QED
    BY <2>3, <2>4
<1>10. ASSUME Verify PROVE Loss'
  <2>1. agg.at = "verify" /\ SameRequest /\ UNCHANGED <<scenario, sources, part, mode, plan>>
    BY <1>10 DEF Verify, OnlyExport, SameRequest, disk, run
  <2>2. CASE stopped \/ ~Verified(This)
    <3>1. GiveUpPart /\ UNCHANGED exported
      BY <1>10, <2>2 DEF Verify, Fails
    <3>2. QED
      BY <1>4, <1>5, <2>1, <3>1 DEF Stages
  <2>3. CASE ~(stopped \/ ~Verified(This)) /\ scenario.cleanup
    <3>1. agg'.at = "cleanup" /\ exported' = exported
      BY <1>2, <1>10, <2>3 DEF Verify, Step
    <3>2. This' = This /\ These' = These
      BY <2>1, <3>1 DEF This, These, InPart
    <3>3. Verified(This)'
      BY <2>1, <2>3, <3>2 DEF Verified, AnyLength, CompletePart, SameRequest
    <3>4. PartInHand'
      BY <2>1, <2>3, <3>1, <3>2, <3>3 DEF Loss, PartInHand
    <3>5. QED
      BY <1>4, <2>1, <3>1, <3>4 DEF Stages
  <2>4. CASE ~(stopped \/ ~Verified(This)) /\ ~scenario.cleanup
    <3>1. agg'.at \in {"results", "done", "subtitles", "video"}
      BY <1>10, <2>4 DEF Verify, PartDone, Scan
    <3>2. AllPlaced'
      BY <2>1, <2>4 DEF AllPlaced, Cleaning
    <3>3. AllInFolder'
      BY <2>1 DEF Loss, AllInFolder, SameRequest
    <3>4. QED
      BY <3>1, <3>2, <3>3, NoneInHand DEF Loss
  <2>5. QED
    BY <2>2, <2>3, <2>4
<1>11. QED
  BY <1>6, <1>7, <1>8, <1>9, <1>10

\* What is deleted is in the part in hand, and before what is deleted next.
LEMMA DeletedFromThis ==
  ASSUME CourseTypes, PartInHand, agg.at = "cleanup"
  PROVE  /\ \A v \in Video : Deleted(v) => v \in These /\ v < Items[agg.cleaned + 1]
         /\ Items[agg.cleaned + 1] \in These /\ \A v \in These : Saved(This, v)
<1>1. exported < Len(plan) /\ agg.cleaned \in Nat
  BY InStage DEF Stages
<1>2. Len(Items) \in Nat /\ DOMAIN Items = 1..Len(Items) /\ Increasing(Items)
  BY <1>1, InHand DEF CourseTypes
<1>3. agg.cleaned < Len(Items)
  BY DEF CourseTypes, PlaceShape
<1>4. /\ agg.cleaned + 1 \in DOMAIN Items
      /\ \A i \in 1..agg.cleaned : i \in DOMAIN Items /\ i < agg.cleaned + 1
  BY <1>1, <1>2, <1>3
<1>5. \A i \in DOMAIN Items : Items[i] \in These
  BY DEF These, InPart, Items
<1>6. \A i \in 1..agg.cleaned : Items[i] < Items[agg.cleaned + 1]
  BY <1>2, <1>4 DEF Increasing
<1>7. \A v \in These : Saved(This, v)
  BY DEF PartInHand, Saved, Verified, AnyLength
<1>8. QED
  BY <1>4, <1>5, <1>6, <1>7 DEF Deleted

LEMMA CleanupLoss == CourseTypes /\ Loss /\ Cleanup => Loss'
<1> SUFFICES ASSUME CourseTypes, Loss, Cleanup PROVE Loss'
  OBVIOUS
<1> DEFINE d == Items[agg.cleaned + 1]
<1>1. /\ agg.at = "cleanup" /\ agg.at \in Stages /\ PartInHand /\ scenario.cleanup
      /\ UNCHANGED <<scenario, mode, plan>> /\ SameRequest
  BY DEF Cleanup, Stages, Loss, PartInHand, run, SameRequest
<1>2. AllInFolder'
  BY <1>1 DEF AllInFolder
<1>3. agg \in [at: Stages \cup {"results", "done"}, last: BOOLEAN, cleaned: Nat] /\ agg.cleaned \in Nat
  BY DEF CourseTypes, ExportType
<1>4. /\ \A v \in Video : Deleted(v) => v \in These /\ v < d
      /\ d \in These /\ \A v \in These : Saved(This, v)
  BY <1>1, DeletedFromThis
<1>5. This \in Number /\ exported + 1 \in DOMAIN plan
  BY <1>1, InStage, InHand DEF CourseTypes
<1>6. part' = part
  BY DEF Cleanup, disk
<1>7. \A n, v : Saved(n, v) => Saved(n, v)'
  BY <1>1, <1>6 DEF Saved, CompletePart
<1>8. CASE d \in scenario.sticky
  <2>1. GiveUpPart /\ sources' = sources /\ exported' = exported
    BY <1>8 DEF Cleanup, Fails, disk
  <2>2. agg'.at \in {"results", "done", "subtitles", "video"}
    BY <1>3, <2>1 DEF GiveUpPart
  <2>3. ASSUME NEW v \in Video, Placed(v) PROVE Placed(v)'
    <3>1. Deleted(v) => Excused(v)
      BY <1>4, <1>8 DEF Excused
    <3>2. Excused(v) => Excused(v)'
      BY <1>1 DEF Excused
    <3>3. Pending' = Pending
      BY <1>1, <2>1 DEF Pending
    <3>4. QED
      BY <1>7, <2>1, <2>3, <3>1, <3>2, <3>3 DEF Placed
  <2>4. AllPlaced'
    BY <1>1, <2>3 DEF Loss, AllPlaced, Cleaning
  <2>5. QED
    BY <1>2, <2>2, <2>4, NoneInHand DEF Loss
<1>9. CASE d \notin scenario.sticky
  <2>1. /\ sources' = sources \ {d}
        /\ IF agg.cleaned + 1 = Len(Items) THEN PartDone("cleanup")
           ELSE agg' = [agg EXCEPT !.cleaned = @ + 1] /\ UNCHANGED exported
    BY <1>9 DEF Cleanup
  <2>2. CASE agg.cleaned + 1 = Len(Items)
    <3>1. exported' = exported + 1 /\ Scan(exported + 1, At({"collected"}))
      BY <2>1, <2>2 DEF PartDone
    <3>2. agg'.at \in {"results", "done", "subtitles", "video"}
      BY <3>1 DEF Scan
    <3>3. Pending' \subseteq Pending /\ This \notin Pending'
      <4>1. exported \in Nat
        BY DEF CourseTypes, ExportType
      <4>2. exported' + 1 = exported + 2
        BY <3>1, <4>1
      <4>3. Pending' = {plan[m].number : m \in (exported + 2)..Len(plan)}
        BY <1>1, <4>2 DEF Pending
      <4>4. QED
        BY <1>1, <4>3, ThisIsPending
    <3>4. ASSUME NEW v \in Video, Placed(v), This # 0 PROVE Placed(v)'
      <4>1. v \in These => \E n \in Number \ ({0} \cup Pending') : Saved(n, v)'
        BY <1>4, <1>5, <1>7, <3>3, <3>4
      <4>2. v \in sources => v \in sources' \/ v \in These
        BY <1>4, <2>1
      <4>3. Deleted(v) => v \in These
        BY <1>4
      <4>4. Excused(v) => Excused(v)'
        BY <1>1 DEF Excused
      <4>5. (\E n \in Number \ ({0} \cup Pending) : Saved(n, v))
              => \E n \in Number \ ({0} \cup Pending') : Saved(n, v)'
        BY <1>7, <3>3
      <4>6. QED
        BY <3>4, <4>1, <4>2, <4>3, <4>4, <4>5 DEF Placed
    <3>5. AllPlaced'
      <4>1. Cleaning => This # 0
        BY <1>5 DEF Loss, AllPlaced, This
      <4>2. QED
        BY <1>1, <3>4, <4>1 DEF Loss, AllPlaced, Cleaning
    <3>6. QED
      BY <1>2, <3>2, <3>5, NoneInHand DEF Loss
  <2>3. CASE agg.cleaned + 1 # Len(Items)
    <3>1. agg' = [agg EXCEPT !.cleaned = @ + 1] /\ exported' = exported
      BY <2>1, <2>3
    <3>2. agg'.at = "cleanup" /\ agg'.cleaned = agg.cleaned + 1
      BY <1>1, <1>3, <3>1
    <3>3. This' = This /\ These' = These /\ Items' = Items /\ Pending' = Pending
      BY <1>1, <3>1 DEF This, These, InPart, Items, Pending
    <3>4. PartInHand'
      BY <1>1, <1>6, <3>2, <3>3 DEF PartInHand, Verified, AnyLength, CompletePart
    <3>5. ASSUME NEW v \in Video, Placed(v) PROVE Placed(v)'
      <4>1. v = d => Deleted(v)'
        <5>1. agg.cleaned + 1 \in 1..(agg.cleaned + 1)
          BY <1>3
        <5>2. QED
          BY <3>2, <3>3, <5>1 DEF Deleted
      <4>2. Deleted(v) => Deleted(v)'
        <5>1. \A i \in 1..agg.cleaned : i \in 1..(agg.cleaned + 1)
          BY <1>3
        <5>2. QED
          BY <3>2, <3>3, <5>1 DEF Deleted
      <4>3. Excused(v) => Excused(v)'
        BY <1>1 DEF Excused
      <4>4. QED
        BY <1>7, <2>1, <3>3, <3>5, <4>1, <4>2, <4>3 DEF Placed
    <3>6. AllPlaced'
      BY <1>1, <3>5 DEF Loss, AllPlaced, Cleaning
    <3>7. QED
      BY <1>2, <3>4, <3>6 DEF Loss
  <2>4. QED
    BY <2>2, <2>3
<1>10. QED
  BY <1>8, <1>9

LEMMA KillLoss == CourseTypes /\ Loss /\ Kill => Loss'
<1> SUFFICES ASSUME CourseTypes, Loss, Kill PROVE Loss'
  OBVIOUS
<1>1. SameRequest /\ UNCHANGED <<sources, mode>> /\ plan' = <<>> /\ agg'.at = "results" /\ exported' = 0
  BY Spending DEF Kill, Fresh, CourseTypes
<1>2. part' = part \/ (agg.at = "video" /\ part' = [part EXCEPT ![This].video = "cut"])
  BY DEF Kill
<1>3. \A n \in Number \ ({0} \cup Pending) : part'[n] = part[n]
  <2>1. part \in [Number -> PartFiles]
    BY DEF CourseTypes, DiskType
  <2>2. agg.at = "video" => This \in Pending
    BY ThisIsPending DEF Stages
  <2>3. QED
    BY <1>2, <2>1, <2>2
<1>4. Pending' = {}
  <2>1. Len(plan') = 0 /\ (exported' + 1)..Len(plan') = {}
    BY <1>1
  <2>2. QED
    BY <2>1 DEF Pending
<1>5. ASSUME NEW v \in Video, Placed(v), Cleaning PROVE Placed(v)'
  <2>1. CASE Deleted(v)
    <3>1. agg.at = "cleanup" /\ PartInHand /\ agg.at \in Stages
      BY <2>1 DEF Deleted, Loss, Stages
    <3>2. Saved(This, v)
      BY <2>1, <3>1, DeletedFromThis
    <3>3. This \in Number \ {0}
      <4>1. This \in Number /\ exported + 1 \in DOMAIN plan
        BY <3>1, InStage, InHand DEF CourseTypes
      <4>2. QED
        BY <1>5, <4>1 DEF Loss, AllPlaced, This
    <3>4. PICK n \in Number \ {0} : Saved(n, v)
      BY <3>2, <3>3
    <3>5. Saved(n, v)'
      BY <1>1, <1>2, <3>1, <3>4 DEF Saved, CompletePart, SameRequest
    <3>6. QED
      BY <1>4, <3>5 DEF Placed
  <2>2. CASE ~Deleted(v)
    <3>1. \A n \in Number \ ({0} \cup Pending) : Saved(n, v) => Saved(n, v)'
      BY <1>1, <1>3 DEF Saved, CompletePart, SameRequest
    <3>2. Excused(v) => Excused(v)'
      BY <1>1 DEF Excused, SameRequest
    <3>3. QED
      BY <1>1, <1>4, <1>5, <2>2, <3>1, <3>2 DEF Placed
  <2>3. QED
    BY <2>1, <2>2
<1>6. AllPlaced'
  <2>1. DOMAIN plan' = {}
    BY <1>1
  <2>2. QED
    BY <1>1, <1>5, <2>1 DEF Loss, AllPlaced, Cleaning, SameRequest
<1>7. AllInFolder'
  BY <1>1 DEF Loss, AllInFolder, SameRequest
<1>8. QED
  BY <1>1, <1>6, <1>7, NoneInHand DEF Loss

LEMMA InitLoss == CourseInit => Loss
<1> SUFFICES ASSUME CourseInit PROVE Loss
  OBVIOUS
<1>1. PartInHand
  BY DEF CourseInit, PartInHand
<1>2. AllInFolder
  BY DEF CourseInit, AllInFolder
<1>3. AllPlaced
  BY DEF CourseInit, AllPlaced, Placed
<1>4. QED
  BY <1>1, <1>2, <1>3 DEF Loss

LEMMA LossKept == CourseTypes /\ Loss /\ [CourseNext]_courseVars => Loss'
<1> SUFFICES ASSUME CourseTypes, Loss, [CourseNext]_courseVars PROVE Loss'
  OBVIOUS
<1>1. CASE UNCHANGED courseVars
  BY <1>1, QuietLoss DEF courseVars, disk, run, SameRequest
<1>2. CASE CourseNext
  BY <1>2, QuietSteps, BetweenLoss, StageLoss, CleanupLoss, KillLoss DEF CourseNext, Work
<1>3. QED
  BY <1>1, <1>2

\* In a folder whose parts are safely numbered, a video that was there from the
\* start is in the folder, or in a part that has all its files, was merged to
\* its end and lacks no more than verifyCoursePart lets pass, or came before one
\* that could not be deleted: for any number of videos, workers, runs, faults,
\* cancels and crashes, any limit on the parts and any tolerance.
THEOREM NothingEverLost == CourseSpec => []NothingLost
<1>1. CourseInit => CourseTypes /\ Loss
  BY InitTypes, InitLoss
<1>2. CourseTypes /\ Loss /\ [CourseNext]_courseVars => (CourseTypes /\ Loss)'
  BY TypesKept, LossKept
<1>3. QED
  BY <1>1, <1>2, LossIsNothing, PTL DEF CourseSpec
-----------------------------------------------------------------------------
\* What a run without errors that nobody cancelled has done.  Its workers lose
\* no video, the last pass finds all of them compressed and so exports every
\* part; the plain path has a transcript of each by then.  Exported parts are
\* good and stay so.
Fine == ~err /\ ~cancelled
Collected == files \subseteq At({"collected"})
PoolSmooth ==
  /\ pc \in {"whisper", "drain"} /\ Fine =>
       ~stopped /\ gone = 0 /\ \A v \in Video : at[v] \notin {"dropped", "failed", "counted"}
  /\ pc = "drain" /\ Fine => \A v \in files : at[v] # "none"
LastSmooth ==
  /\ pc = "drain" /\ Fine /\ agg.last => Collected
  /\ pc = "drain" /\ Fine /\ agg.at = "done" => exported = Len(plan)
  /\ pc # "off" /\ (mode = "pipe" \/ (agg.last /\ ~err)) => PlanCovers(plan, files)
PlainSmooth == mode = "plain" =>
  /\ \A v \in Video : at[v] \in {"sent", "collected"} => v \in srt
  /\ agg.at \in Stages => Collected
  /\ agg.at \in {"video", "text"} => part[This].srt
  /\ agg.at = "text" => part[This].video # "none"
\* What the check of the pipeline let pass.
NothingMissed(n) == part[n].video = "whole" /\ part[n].cut \in scenario.tolerated
Good(m) ==
  /\ CompletePart(plan[m].number) /\ InPart(m) \subseteq part[plan[m].number].has
  /\ mode = "pipe" => NothingMissed(plan[m].number)
GoodParts == \A m \in 1..exported : Good(m)
Whole == \A v \in files : \E n \in Number :
           CompletePart(n) /\ v \in part[n].has /\ (mode = "pipe" => NothingMissed(n))
Answered == answer = "ok" => pc = "off" /\ agg.at = "done" /\ (~cancelled => Whole)
Success == PoolSmooth /\ LastSmooth /\ PlainSmooth /\ GoodParts /\ Answered

LEMMA SuccessIsAnswered == Success => SuccessMeansWhole
BY DEF Success, Answered, Whole, SuccessMeansWhole, NothingMissed

\* The workers.
LEMMA PoolQuiet ==
  ASSUME PoolSmooth, UNCHANGED <<pc, files, pool, cancelled>>,
         err' = TRUE \/ (err' = err /\ stopped' = stopped)
  PROVE  PoolSmooth'
BY DEF PoolSmooth, Fine, pool

LEMMA PoolSmoothSteps ==
  ASSUME CourseTypes, PoolSmooth, CourseNext
  PROVE  PoolSmooth'
<1> USE DEF CourseTypes
<1>1. at \in [Video -> Places] /\ files \in SUBSET Video
  BY DEF PoolType, RunType
<1>2. CASE Begin
  <2>1. /\ files' = sources /\ gone' = 0 /\ stopped' = FALSE
        /\ \E V \in SUBSET Video : at' = Queued(V)
        /\ pc' = "drain" => at' = Queued(files')
    <3>1. sources \in SUBSET Video
      BY DEF DiskType
    <3>2. files' = sources /\ gone' = 0 /\ stopped' = FALSE
      BY <1>2 DEF Begin, Fresh
    <3>3. CASE sources \subseteq srt' \/ scenario.whisper \in {"batch", "broken"}
      <4>1. at' = Queued(sources \cap srt') /\ pc' = IF sources \subseteq srt' THEN "drain" ELSE "whisper"
        BY <1>2, <3>3 DEF Begin
      <4>2. sources \subseteq srt' => sources \cap srt' = sources
        OBVIOUS
      <4>3. QED
        BY <3>1, <3>2, <4>1, <4>2
    <3>4. CASE ~(sources \subseteq srt' \/ scenario.whisper \in {"batch", "broken"})
      <4>1. (pc' = "off" /\ at' = Queued({})) \/ (pc' = "drain" /\ at' = Queued(files'))
        BY <1>2, <3>4 DEF Begin, StartPlain
      <4>2. QED
        BY <3>1, <3>2, <4>1
    <3>5. QED
      BY <3>3, <3>4
  <2>2. \A v \in Video : at'[v] \notin {"dropped", "failed", "counted"}
    BY <2>1 DEF Queued
  <2>3. files' \subseteq Video
    BY <2>1 DEF DiskType
  <2>4. pc' = "drain" => \A v \in files' : at'[v] # "none"
    BY <2>1, <2>3 DEF Queued
  <2>5. QED
    BY <2>1, <2>2, <2>4 DEF PoolSmooth
<1>3. CASE Plain
  <2>1. /\ files' = files /\ gone' = 0 /\ stopped' = cancelled /\ cancelled' = cancelled
        /\ (pc' = "off" /\ at' = Queued({})) \/ (pc' = "drain" /\ at' = Queued(files'))
    BY <1>3 DEF Plain, Fresh, StartPlain
  <2>2. QED
    BY <1>1, <2>1 DEF PoolSmooth, Queued, Fine
<1>4. ASSUME NEW v \in Video, Transcribe(v) PROVE PoolSmooth'
  <2>1. /\ pc = "whisper" /\ pc' = "whisper" /\ UNCHANGED <<files, gone, ends, cancelled>>
        /\ at' \in {at, [at EXCEPT ![v] = "queued"]} \cup (IF stopped THEN {[at EXCEPT ![v] = "dropped"]} ELSE {})
    BY <1>4 DEF Transcribe, Enqueue, run
  <2>2. QED
    BY <1>1, <2>1 DEF PoolSmooth, Fine, ends
<1>5. CASE WhisperEnds
  <2> SUFFICES ASSUME ~err', ~cancelled'
               PROVE  /\ ~stopped' /\ gone' = 0 /\ \A v \in Video : at'[v] \notin {"dropped", "failed", "counted"}
                      /\ \A v \in files' : at'[v] # "none"
    BY DEF PoolSmooth, Fine
  <2>1. pc = "whisper" /\ Missing = {} /\ ~err /\ ~cancelled /\ UNCHANGED <<files, gone, ends>>
    BY <1>5 DEF WhisperEnds, SetErr, ends
  <2>2. ~stopped /\ gone = 0 /\ \A v \in Video : at[v] \notin {"dropped", "failed", "counted"}
    BY <2>1 DEF PoolSmooth, Fine
  <2>3. PICK queued \in {Silent} \cup (IF err \/ Missing # {} THEN {{}} ELSE {}),
             dropped \in IF stopped THEN SUBSET Silent ELSE {{}} :
          at' = [w \in Video |-> IF w \notin queued THEN at[w] ELSE IF w \in dropped THEN "dropped" ELSE "queued"]
    BY <1>5 DEF WhisperEnds
  <2>4. queued = Silent /\ dropped = {}
    BY <2>1, <2>2, <2>3
  <2>5. Silent = {v \in files : at[v] = "none"}
    BY <2>1 DEF Silent, Missing
  <2>6. QED
    BY <1>1, <2>1, <2>2, <2>3, <2>4, <2>5 DEF ends
<1>6. CASE WhisperBroken
  BY <1>6 DEF WhisperBroken, PoolSmooth
<1>7. ASSUME NEW v \in Video, Take(v) PROVE PoolSmooth'
  <2>1. /\ UNCHANGED <<pc, files, cancelled, ends>>
        /\ IF Drops THEN TRUE ELSE at' = [at EXCEPT ![v] = "taken"] /\ UNCHANGED gone
    BY <1>7 DEF Take, run
  <2>2. Drops => stopped
    BY DEF Drops
  <2>3. QED
    BY <1>1, <2>1, <2>2 DEF PoolSmooth, Fine, ends
<1>8. ASSUME NEW v \in Video, Compress(v) PROVE PoolSmooth'
  <2>1. /\ UNCHANGED <<pc, files, cancelled, ends>>
        /\ stopped \/ (at' = [at EXCEPT ![v] = "sent"] /\ UNCHANGED gone)
    BY <1>8 DEF Compress, Result, run
  <2>2. QED
    BY <1>1, <2>1 DEF PoolSmooth, Fine, ends
<1>9. ASSUME NEW v \in Video, CompressFails(v) PROVE PoolSmooth'
  <2>1. UNCHANGED <<pc, files, cancelled>> /\ (err' = TRUE \/ (stopped /\ UNCHANGED ends))
    BY <1>9 DEF CompressFails, SetErr, run
  <2>2. QED
    BY <2>1 DEF PoolSmooth, Fine, ends
<1>10. ASSUME NEW v \in Video, Collect(v) PROVE PoolSmooth'
  <2>1. UNCHANGED <<pc, files, cancelled, ends, gone>> /\ at' = [at EXCEPT ![v] = "collected"]
    BY <1>10 DEF Collect, run
  <2>2. QED
    BY <1>1, <2>1 DEF PoolSmooth, Fine, ends
<1>11. ASSUME NEW v \in Video, CollectFailure(v) PROVE PoolSmooth'
  BY <1>11 DEF CollectFailure, SetErr, PoolSmooth, Fine
<1>12. CASE LastPass
  <2>1. UNCHANGED <<pc, files, pool, cancelled, stopped>> /\ (err' = err \/ err' = (err \/ At({"collected"}) # files))
    BY <1>12 DEF LastPass, PlainResults
  <2>2. err \in BOOLEAN
    BY DEF EndType
  <2>3. err' = TRUE \/ err' = err
    BY <2>1, <2>2
  <2>4. QED
    BY <2>1, <2>3, PoolQuiet
<1>13. CASE Subtitles \/ MergeVideo \/ Text
  BY <1>13, PoolQuiet DEF Subtitles, MergeVideo, Text, OnlyPart, run, ends
<1>14. CASE MergeFails
  BY <1>14, PoolQuiet DEF MergeFails, Fails, SetErr, run
<1>15. CASE Verify \/ Cleanup
  BY <1>15, PoolQuiet DEF Verify, Cleanup, Fails, SetErr, OnlyExport, run, ends
<1>16. CASE Return \/ Kill
  BY <1>16 DEF Return, Kill, PoolSmooth
<1>17. CASE Cancel
  BY <1>17 DEF Cancel, PoolSmooth, Fine
<1>18. ASSUME NEW v \in Video, Late(v) PROVE PoolSmooth'
  BY <1>18, PoolQuiet DEF Late, run, ends
<1>19. QED
  BY <1>2, <1>3, <1>4, <1>5, <1>6, <1>7, <1>8, <1>9, <1>10, <1>11, <1>12, <1>13, <1>14, <1>15, <1>16, <1>17, <1>18
     DEF CourseNext, Work

\* What is collected stays so, but for a run that begins, gives up or dies.
LEMMA CollectedStays ==
  ASSUME CourseTypes, NEW v \in Video
  PROVE  Take(v) \/ Compress(v) \/ CompressFails(v) \/ Collect(v) \/ CollectFailure(v)
           => (Collected => Collected')
<1>1. at \in [Video -> Places]
  BY DEF CourseTypes, PoolType
<1>2. ASSUME files' = files, \A w \in Video : w # v => at'[w] = at[w], at[v] # "collected" \/ at'[v] = "collected"
      PROVE  Collected => Collected'
  BY <1>2 DEF Collected, At
<1>3. ASSUME Take(v) PROVE Collected => Collected'
  BY <1>1, <1>2, <1>3 DEF Take, run
<1>4. ASSUME Compress(v) PROVE Collected => Collected'
  BY <1>1, <1>2, <1>4 DEF Compress, Result, run
<1>5. ASSUME CompressFails(v) PROVE Collected => Collected'
  BY <1>1, <1>2, <1>5 DEF CompressFails, run
<1>6. ASSUME Collect(v) PROVE Collected => Collected'
  BY <1>1, <1>2, <1>6 DEF Collect, run
<1>7. ASSUME CollectFailure(v) PROVE Collected => Collected'
  BY <1>1, <1>2, <1>7 DEF CollectFailure, run
<1>8. QED
  BY <1>3, <1>4, <1>5, <1>6, <1>7

\* With nothing lost, the last pass comes when every video was collected.
LEMMA LastPassCollects ==
  ASSUME CourseTypes, PoolSmooth, pc = "drain", Fine, Closed, At({"sent", "failed"}) = {}
  PROVE  Collected
<1>1. at \in [Video -> Places] /\ files \in SUBSET Video /\ files # {}
  BY DEF CourseTypes, PoolType, RunType
<1>2. /\ gone = 0 /\ \A v \in Video : at[v] \notin {"dropped", "failed", "counted"}
      /\ \A v \in files : at[v] # "none"
  BY DEF PoolSmooth
<1>3. PoolSize # 0
  <2>1. Cardinality(files) \in Nat /\ Cardinality(files) # 0
    BY <1>1, VideosFinite, FS_EmptySet
  <2>2. QED
    BY <2>1, Parameters DEF PoolSize
<1>4. At({"taken"}) = {} /\ At({"queued"}) = {}
  BY <1>2, <1>3 DEF Closed
<1>5. \A v \in Video : at[v] \notin {"taken", "queued", "sent", "failed"}
  BY <1>4 DEF At
<1>6. QED
  BY <1>1, <1>2, <1>5 DEF Collected, At, Places

\* A part of the plan has videos of the run only, so all collected is ready.
LEMMA AllReady ==
  ASSUME CourseTypes, Collected, NEW n \in Nat, ~Ready(n, At({"collected"}))
  PROVE  n >= Len(plan)
<1>1. Len(plan) \in Nat /\ DOMAIN plan = 1..Len(plan)
  BY PlanIsSeq DEF CourseTypes
<1>2. ASSUME n < Len(plan) PROVE FALSE
  <2>1. n + 1 \in DOMAIN plan
    BY <1>1, <1>2
  <2>2. InPart(n + 1) \subseteq files
    BY <2>1 DEF InPart, CourseTypes, RunType, PlanFits
  <2>3. QED
    BY <1>2, <2>2 DEF Collected, Ready
<1>3. QED
  BY <1>1, <1>2

LEMMA LastQuiet ==
  ASSUME LastSmooth, UNCHANGED <<pc, mode, files, plan, cancelled>>, agg'.last = agg.last,
         err' = TRUE \/ err' = err, Collected => Collected',
         agg'.at = "done" => err' = TRUE \/ (agg.at = "done" /\ exported' = exported)
  PROVE  LastSmooth'
BY DEF LastSmooth, Fine

LEMMA LastPartDone ==
  ASSUME CourseTypes, LastSmooth, UNCHANGED <<run, pool, ends, cancelled>>, NEW from \in Stages, PartDone(from)
  PROVE  LastSmooth'
<1>1. agg.at \in Stages /\ exported' = exported + 1 /\ Scan(exported + 1, At({"collected"}))
  BY DEF PartDone
<1>2. exported + 1 \in Nat /\ exported + 1 <= Len(plan) /\ agg.last \in BOOLEAN /\ Len(plan) \in Nat
  BY <1>1, InStage
<1>3. agg'.last = agg.last /\ (agg'.at = "done" => agg.last /\ ~Ready(exported + 1, At({"collected"})))
  BY <1>1, <1>2, ScanGoes
<1>4. UNCHANGED <<pc, mode, files, plan, at, err, cancelled>> /\ (Collected => Collected')
  BY DEF run, pool, ends, Collected, At
<1>5. pc = "drain" /\ Fine /\ agg'.at = "done" => exported + 1 = Len(plan)
  <2> SUFFICES ASSUME pc = "drain", Fine, agg'.at = "done" PROVE exported + 1 = Len(plan)
    OBVIOUS
  <2>1. Collected
    BY <1>3 DEF LastSmooth
  <2>2. exported + 1 >= Len(plan)
    BY <1>2, <1>3, <2>1, AllReady
  <2>3. QED
    BY <1>2, <2>2
<1>6. QED
  BY <1>1, <1>3, <1>4, <1>5 DEF LastSmooth, Fine

LEMMA LastSmoothSteps ==
  ASSUME CourseTypes, PoolSmooth, LastSmooth, PlainSmooth, CourseNext
  PROVE  LastSmooth'
<1> USE DEF CourseTypes
<1>1. /\ agg \in [at: Stages \cup {"results", "done"}, last: BOOLEAN, cleaned: Nat]
      /\ exported \in Nat /\ err \in BOOLEAN
  BY DEF ExportType, EndType
<1>2. ASSUME agg'.at = "results", agg'.last = FALSE,
             pc' = "off" \/ mode' = "plain" \/ PlanCovers(plan', files')
      PROVE  LastSmooth'
  BY <1>2 DEF LastSmooth
<1>3. CASE Begin
  <2>1. agg'.at = "results" /\ agg'.last = FALSE /\ files' = sources /\ sources \in SUBSET Video
    BY <1>3 DEF Begin, Fresh, DiskType
  <2>2. mode' = "plain" \/ (plan' = PlanParts(sources) /\ Len(PlanParts(sources)) <= Len(FreeNumbers))
    BY <1>3 DEF Begin, StartPlain
  <2>3. QED
    BY <1>2, <2>1, <2>2, PlannedParts
<1>4. CASE Plain
  BY <1>2, <1>4 DEF Plain, Fresh, StartPlain
<1>5. CASE Return \/ Kill
  BY <1>5 DEF Return, Kill, LastSmooth
<1>6. CASE WhisperBroken
  BY <1>6 DEF WhisperBroken, LastSmooth, export
<1>7. ASSUME pc = "whisper", UNCHANGED <<files, plan, mode, export>>
      PROVE  LastSmooth'
  <2>1. mode = "pipe" /\ ~agg.last /\ agg.at # "done" /\ PlanCovers(plan, files)
    BY <1>7 DEF ModeShape, PlaceShape, LastSmooth
  <2>2. QED
    BY <1>7, <2>1 DEF LastSmooth, export
<1>8. ASSUME NEW v \in Video, Transcribe(v) PROVE LastSmooth'
  BY <1>7, <1>8 DEF Transcribe, run
<1>9. CASE WhisperEnds
  BY <1>7, <1>9 DEF WhisperEnds
<1>10. ASSUME NEW v \in Video, Take(v) \/ Compress(v) \/ CompressFails(v) \/ CollectFailure(v) PROVE LastSmooth'
  <2>1. UNCHANGED <<run, export, cancelled>> /\ (err' = TRUE \/ err' = err)
    BY <1>10 DEF Take, Compress, CompressFails, CollectFailure, SetErr, ends
  <2>2. Collected => Collected'
    BY <1>10, CollectedStays
  <2>3. QED
    BY <2>1, <2>2, LastQuiet DEF run, export
<1>11. ASSUME NEW v \in Video, Collect(v) PROVE LastSmooth'
  <2>1. agg.at = "results" /\ ~agg.last /\ UNCHANGED <<run, ends, cancelled, exported>>
    BY <1>11 DEF Collect, PlaceShape
  <2>2. agg'.last = agg.last /\ agg'.at # "done"
    <3>1. agg' = agg \/ Scan(exported, At({"collected"}) \cup {v})
      BY <1>11 DEF Collect
    <3>2. QED
      BY <1>1, <2>1, <3>1, ScanGoes
  <2>3. Collected => Collected'
    BY <1>11, CollectedStays
  <2>4. QED
    BY <2>1, <2>2, <2>3, LastQuiet DEF run, ends
<1>12. CASE LastPass
  <2>1. agg.at = "results" /\ ~agg.last /\ UNCHANGED <<pc, mode, files, pool, exported, cancelled>>
    BY <1>12 DEF LastPass, PlaceShape
  <2>2. pc \in {"drain", "giveup"} /\ Closed /\ At({"sent", "failed"}) = {}
    BY <1>12 DEF LastPass, Closed
  <2>3. Collected' <=> Collected
    BY <2>1 DEF Collected, At, pool
  <2>4. CASE mode = "plain"
    <3>1. /\ err' = (err \/ At({"collected"}) # files) /\ plan' = IF err' THEN <<>> ELSE PlainParts
          /\ agg' = [agg EXCEPT !.last = TRUE, !.at = IF err' THEN "done" ELSE "subtitles"]
      BY <1>12, <2>4 DEF LastPass, PlainResults
    <3>2. ~err' => Collected /\ plan' = PlainParts
      BY <3>1 DEF Collected
    <3>3. agg'.at = "done" => err'
      BY <1>1, <3>1
    <3>4. PlanCovers(PlainParts, files)
      BY PlainPartsFit DEF RunType
    <3>5. QED
      BY <2>1, <2>3, <2>4, <3>2, <3>3, <3>4 DEF LastSmooth, Fine
  <2>5. CASE mode # "plain"
    <3>1. /\ plan' = plan /\ err' = err
          /\ agg' = [agg EXCEPT !.last = TRUE, !.at = IF Ready(exported, At({"collected"})) THEN "subtitles" ELSE "done"]
      BY <1>12, <2>5 DEF LastPass
    <3>2. pc = "drain" /\ Fine => Collected
      BY <2>2, LastPassCollects
    <3>3. pc = "drain" /\ Fine /\ agg'.at = "done" => exported = Len(plan)
      <4> SUFFICES ASSUME pc = "drain", Fine, agg'.at = "done" PROVE exported = Len(plan)
        OBVIOUS
      <4>1. ~Ready(exported, At({"collected"}))
        BY <1>1, <3>1
      <4>2. exported >= Len(plan)
        BY <1>1, <3>2, <4>1, AllReady
      <4>3. exported <= Len(plan) /\ Len(plan) \in Nat
        BY PlanIsSeq DEF PlaceShape
      <4>4. QED
        BY <1>1, <4>2, <4>3
    <3>4. pc # "off" => PlanCovers(plan, files)
      BY <2>5 DEF LastSmooth, RunType
    <3>5. QED
      BY <2>1, <2>3, <3>1, <3>2, <3>3, <3>4 DEF LastSmooth, Fine
  <2>6. QED
    BY <2>4, <2>5
<1>13. ASSUME UNCHANGED <<run, pool, cancelled>>, err' = TRUE, agg'.last = agg.last PROVE LastSmooth'
  BY <1>13, LastQuiet DEF run, pool, Collected, At
<1>14. ASSUME UNCHANGED <<run, pool, ends, cancelled>>, agg'.last = agg.last, agg'.at # "done" PROVE LastSmooth'
  BY <1>14, LastQuiet DEF run, pool, ends, Collected, At
<1>15. ASSUME NEW from, Fails(from), UNCHANGED <<run, pool, cancelled>> PROVE LastSmooth'
  <2>1. agg'.last = agg.last /\ err' = TRUE
    BY <1>15, GiveUpGoes DEF Fails, SetErr
  <2>2. QED
    BY <1>13, <1>15, <2>1
<1>16. CASE Subtitles \/ MergeVideo
  <2>1. /\ UNCHANGED <<run, pool, ends, cancelled>>
        /\ agg' = [agg EXCEPT !.at = "video"] \/ agg' = [agg EXCEPT !.at = "text"]
    BY <1>16 DEF Subtitles, MergeVideo, OnlyPart, Step
  <2>2. QED
    BY <1>1, <1>14, <2>1
<1>17. CASE MergeFails
  BY <1>15, <1>17 DEF MergeFails
<1>18. CASE Text
  <2>1. UNCHANGED <<run, pool, ends, cancelled>>
    BY <1>18 DEF Text, OnlyPart
  <2>2. CASE mode = "plain"
    BY <1>18, <2>1, <2>2, LastPartDone DEF Text, Stages
  <2>3. CASE mode # "plain"
    <3>1. agg' = [agg EXCEPT !.at = "verify"]
      BY <1>18, <2>3 DEF Text, Step
    <3>2. QED
      BY <1>1, <1>14, <2>1, <3>1
  <2>4. QED
    BY <2>2, <2>3
<1>19. CASE Verify
  <2>1. UNCHANGED <<run, pool, cancelled>>
    BY <1>19 DEF Verify, OnlyExport
  <2>2. CASE Fails("verify")
    BY <1>15, <2>1, <2>2
  <2>3. CASE ~Fails("verify")
    <3>1. UNCHANGED ends /\ (agg' = [agg EXCEPT !.at = "cleanup"] \/ PartDone("verify"))
      BY <1>19, <2>3 DEF Verify, Step
    <3>2. CASE agg' = [agg EXCEPT !.at = "cleanup"]
      BY <1>1, <1>14, <2>1, <3>1, <3>2
    <3>3. CASE PartDone("verify")
      BY <2>1, <3>1, <3>3, LastPartDone DEF Stages
    <3>4. QED
      BY <3>1, <3>2, <3>3
  <2>4. QED
    BY <2>2, <2>3
<1>20. CASE Cleanup
  <2>1. UNCHANGED <<run, pool, cancelled>> /\ agg.at = "cleanup"
    BY <1>20 DEF Cleanup
  <2>2. CASE Fails("cleanup")
    BY <1>15, <2>1, <2>2
  <2>3. CASE ~Fails("cleanup")
    <3>1. UNCHANGED ends /\ (agg' = [agg EXCEPT !.cleaned = @ + 1] \/ PartDone("cleanup"))
      BY <1>20, <2>3 DEF Cleanup
    <3>2. CASE agg' = [agg EXCEPT !.cleaned = @ + 1]
      <4>1. agg'.at = "cleanup" /\ agg'.last = agg.last
        BY <1>1, <2>1, <3>2
      <4>2. QED
        BY <1>14, <2>1, <3>1, <4>1
    <3>3. CASE PartDone("cleanup")
      BY <2>1, <3>1, <3>3, LastPartDone DEF Stages
    <3>4. QED
      BY <3>1, <3>2, <3>3
  <2>4. QED
    BY <2>2, <2>3
<1>21. CASE Cancel
  <2>1. cancelled' = TRUE /\ UNCHANGED <<pc, mode, files, plan, export, err>>
    BY <1>21 DEF Cancel, run
  <2>2. QED
    BY <2>1 DEF LastSmooth, Fine, export
<1>22. ASSUME NEW v \in Video, Late(v) PROVE LastSmooth'
  <2>1. UNCHANGED <<run, pool, export, ends, cancelled>>
    BY <1>22 DEF Late
  <2>2. QED
    BY <2>1, LastQuiet DEF run, pool, export, ends, Collected, At
<1>23. QED
  BY <1>3, <1>4, <1>5, <1>6, <1>8, <1>9, <1>10, <1>11, <1>12, <1>16, <1>17, <1>18, <1>19, <1>20, <1>21, <1>22
     DEF CourseNext, Work

\* The plain path.
LEMMA PlainQuiet ==
  ASSUME PlainSmooth, UNCHANGED <<mode, files, plan, exported, at, part>>, srt \subseteq srt',
         agg'.at = agg.at \/ agg'.at \in {"results", "done"}
  PROVE  PlainSmooth'
<1>1. CASE agg'.at = agg.at
  BY <1>1 DEF PlainSmooth, Collected, At, This
<1>2. CASE agg'.at \in {"results", "done"}
  BY <1>2 DEF PlainSmooth, Stages
<1>3. QED
  BY <1>1, <1>2

LEMMA PlainSmoothSteps ==
  ASSUME CourseTypes, PlainSmooth, CourseNext
  PROVE  PlainSmooth'
<1> USE DEF CourseTypes
<1>1. /\ at \in [Video -> Places] /\ part \in [Number -> PartFiles]
      /\ agg \in [at: Stages \cup {"results", "done"}, last: BOOLEAN, cleaned: Nat]
  BY DEF PoolType, DiskType, ExportType
<1>2. ASSUME agg'.at = "results", \E V : at' = Queued(V) PROVE PlainSmooth'
  BY <1>2 DEF PlainSmooth, Queued, Stages
<1>3. CASE Begin
  <2>1. agg'.at = "results" /\ \E V : at' = Queued(V)
    BY <1>3 DEF Begin, Fresh, StartPlain
  <2>2. QED
    BY <1>2, <2>1
<1>4. CASE Plain
  <2>1. agg'.at = "results" /\ \E V : at' = Queued(V)
    BY <1>4 DEF Plain, Fresh, StartPlain
  <2>2. QED
    BY <1>2, <2>1
<1>5. CASE Kill
  <2>1. agg'.at = "results" /\ at' = [v \in Video |-> "none"]
    BY <1>5 DEF Kill, Fresh
  <2>2. QED
    BY <2>1 DEF PlainSmooth, Stages
<1>6. ASSUME mode # "plain", UNCHANGED mode PROVE PlainSmooth'
  BY <1>6 DEF PlainSmooth
<1>7. CASE WhisperEnds \/ WhisperBroken \/ \E v \in Video : Transcribe(v)
  <2>1. mode # "plain" /\ UNCHANGED mode
    BY <1>7 DEF WhisperEnds, WhisperBroken, Transcribe, ModeShape, run
  <2>2. QED
    BY <1>6, <2>1
<1>8. ASSUME NEW v \in Video, Take(v) \/ Compress(v) \/ CompressFails(v) \/ CollectFailure(v) PROVE PlainSmooth'
  <2>1. UNCHANGED <<mode, files, plan, export, part>> /\ srt \subseteq srt'
    BY <1>8 DEF Take, Compress, CompressFails, CollectFailure, PrepareTranscript, run, disk
  <2>2. Collected => Collected'
    BY <1>8, CollectedStays
  <2>3. mode = "plain" => \A w \in Video : at'[w] \in {"sent", "collected"} => w \in srt'
    <3>1. CASE Compress(v)
      <4>1. at' \in {[at EXCEPT ![v] = "sent"], [at EXCEPT ![v] = "dropped"]} /\ srt' = PrepareTranscript(v)
        BY <3>1 DEF Compress, Result
      <4>2. QED
        BY <1>1, <4>1 DEF PlainSmooth, PrepareTranscript
    <3>2. CASE Take(v) \/ CompressFails(v) \/ CollectFailure(v)
      <4>1. at' \in {[at EXCEPT ![v] = x] : x \in {"dropped", "taken", "failed", "counted"}}
        BY <3>2 DEF Take, CompressFails, CollectFailure
      <4>2. QED
        BY <1>1, <2>1, <4>1 DEF PlainSmooth
    <3>3. QED
      BY <1>8, <3>1, <3>2
  <2>4. This' = This
    BY <2>1 DEF This, export
  <2>5. QED
    BY <2>1, <2>2, <2>3, <2>4 DEF PlainSmooth, export
<1>9. ASSUME NEW v \in Video, Collect(v) PROVE PlainSmooth'
  <2>1. /\ agg.at = "results" /\ at[v] = "sent" /\ at' = [at EXCEPT ![v] = "collected"]
        /\ UNCHANGED <<mode, srt>> /\ (mode = "plain" => agg' = agg)
    BY <1>9 DEF Collect, run, disk
  <2>2. mode = "plain" => \A w \in Video : at'[w] \in {"sent", "collected"} => w \in srt'
    BY <1>1, <2>1 DEF PlainSmooth
  <2>3. QED
    BY <2>1, <2>2 DEF PlainSmooth, Stages
<1>10. CASE LastPass
  <2>1. CASE mode = "plain"
    <3>1. /\ err' = (err \/ At({"collected"}) # files) /\ UNCHANGED <<srt, at, mode, files>>
          /\ agg' = [agg EXCEPT !.last = TRUE, !.at = IF err' THEN "done" ELSE "subtitles"]
      BY <1>10, <2>1 DEF LastPass, PlainResults, pool, disk
    <3>2. agg'.at \in Stages => agg'.at = "subtitles" /\ Collected'
      <4>1. agg'.at = IF err' THEN "done" ELSE "subtitles"
        BY <1>1, <3>1
      <4>2. ~err' => Collected'
        BY <3>1 DEF Collected, At
      <4>3. QED
        BY <4>1, <4>2 DEF Stages
    <3>3. QED
      BY <3>1, <3>2 DEF PlainSmooth, Stages
  <2>2. CASE mode # "plain"
    BY <1>6, <1>10, <2>2 DEF LastPass
  <2>3. QED
    BY <2>1, <2>2
<1>11. CASE Verify \/ Cleanup
  <2>1. mode # "plain" /\ UNCHANGED mode
    BY <1>11 DEF Verify, Cleanup, ModeShape, OnlyExport, Fails, Step, PartDone, run
  <2>2. QED
    BY <1>6, <2>1
<1>12. CASE Return \/ Cancel
  BY <1>12, PlainQuiet DEF Return, Cancel, disk, pool, export, run
<1>13. ASSUME NEW v \in Video, Late(v) PROVE PlainSmooth'
  BY <1>13, PlainQuiet DEF Late, pool, export, run
<1>14. ASSUME mode = "plain", agg.at \in Stages
       PROVE  /\ Collected /\ This \in Number /\ part[This] \in PartFiles /\ These \subseteq srt /\ These # {}
              /\ \A v \in Video : at[v] \in {"sent", "collected"} => v \in srt
  <2>1. Collected /\ \A v \in Video : at[v] \in {"sent", "collected"} => v \in srt
    BY <1>14 DEF PlainSmooth
  <2>2. This \in Number /\ These \in SUBSET files /\ These # {}
    BY <1>14, InStage, InHand
  <2>3. QED
    BY <1>1, <2>1, <2>2 DEF Collected, At
<1>15. ASSUME mode = "plain", agg.at \in Stages, UNCHANGED <<run, pool, srt>>
       PROVE  /\ mode' = "plain" /\ Collected'
              /\ \A v \in Video : at'[v] \in {"sent", "collected"} => v \in srt'
  BY <1>14, <1>15 DEF run, pool, Collected, At
<1>16. CASE Subtitles
  <2>1. /\ agg.at = "subtitles" /\ agg'.at = "video" /\ UNCHANGED <<run, pool, srt, exported>>
        /\ part' = [part EXCEPT ![This] = [Kept(This) EXCEPT !.srt = (These \cap srt # {})]]
    BY <1>1, <1>16 DEF Subtitles, OnlyPart, Step
  <2>2. CASE mode = "plain"
    <3>1. Kept(This) \in PartFiles
      BY <2>1, InStage, WrittenParts DEF Stages
    <3>2. part'[This].srt = (These \cap srt # {})
      BY <1>1, <1>14, <2>1, <2>2, <3>1 DEF Stages, PartFiles
    <3>3. part'[This].srt
      BY <1>14, <2>1, <2>2, <3>2 DEF Stages
    <3>4. This' = This
      BY <2>1 DEF This, run
    <3>5. QED
      BY <1>15, <2>1, <2>2, <3>3, <3>4 DEF PlainSmooth, Stages
  <2>3. CASE mode # "plain"
    BY <1>6, <2>1, <2>3 DEF run
  <2>4. QED
    BY <2>2, <2>3
<1>17. CASE MergeVideo
  <2>1. /\ agg.at = "video" /\ agg'.at = "text" /\ UNCHANGED <<run, pool, srt, exported>>
        /\ part' = [part EXCEPT ![This].video = "whole", ![This].has = These,
                                ![This].cut = {v \in These : slide[v] # "whole"}]
    BY <1>1, <1>17 DEF MergeVideo, OnlyPart, Step
  <2>2. CASE mode = "plain"
    <3>1. part'[This].srt = part[This].srt /\ part'[This].video = "whole"
      BY <1>1, <1>14, <2>1, <2>2 DEF Stages, PartFiles
    <3>2. part[This].srt
      BY <2>1, <2>2 DEF PlainSmooth
    <3>3. This' = This
      BY <2>1 DEF This, run
    <3>4. QED
      BY <1>15, <2>1, <2>2, <3>1, <3>2, <3>3 DEF PlainSmooth, Stages
  <2>3. CASE mode # "plain"
    BY <1>6, <2>1, <2>3 DEF run
  <2>4. QED
    BY <2>2, <2>3
<1>18. CASE MergeFails
  <2>1. agg.at = "video" /\ GiveUpPart /\ UNCHANGED <<run, pool, srt>>
    BY <1>18 DEF MergeFails, Fails
  <2>2. agg'.at \in {"results", "done"}
    BY <1>1, <2>1 DEF GiveUpPart
  <2>3. QED
    BY <1>6, <1>15, <2>1, <2>2 DEF PlainSmooth, Stages, run
<1>19. CASE Text
  <2>1. UNCHANGED <<run, pool, srt>> /\ agg.at = "text"
    BY <1>19 DEF Text, OnlyPart, PartDone, Step
  <2>2. mode = "plain" => agg'.at \in {"subtitles", "results", "done"}
    BY <1>19 DEF Text, PartDone, Scan
  <2>3. QED
    BY <1>6, <1>15, <2>1, <2>2 DEF PlainSmooth, Stages, run
<1>20. QED
  BY <1>3, <1>4, <1>5, <1>7, <1>8, <1>9, <1>10, <1>11, <1>12, <1>13, <1>16, <1>17, <1>18, <1>19
     DEF CourseNext, Work

\* Exported parts.
SameTolerance == scenario'.tolerated = scenario.tolerated

LEMMA GoodQuiet ==
  ASSUME GoodParts, SameTolerance, UNCHANGED <<mode, plan, exported, part>>
  PROVE  GoodParts'
BY DEF GoodParts, Good, NothingMissed, SameTolerance, CompletePart, InPart

LEMMA GoodKept ==
  ASSUME CourseTypes, GoodParts, SameTolerance, agg.at \in Stages, UNCHANGED <<mode, plan>>,
         \A n \in Number : n # This => part'[n] = part[n]
  PROVE  \A m \in 1..exported : Good(m)'
<1> SUFFICES ASSUME NEW m \in 1..exported PROVE Good(m)'
  OBVIOUS
<1>1. m \in DOMAIN plan /\ plan[m].number # This
  BY ThisIsPending
<1>2. plan[m].number \in Number
  <2> DEFINE R == [items: Seq(Video), number: Number]
  <2>1. plan \in Seq(R)
    BY DEF CourseTypes, RunType, PlanFits
  <2> HIDE DEF R
  <2>2. plan[m] \in R
    BY <1>1, <2>1
  <2>3. QED
    BY <2>2 DEF R
<1>3. part'[plan[m].number] = part[plan[m].number]
  BY <1>1, <1>2
<1>4. Good(m)
  BY DEF GoodParts
<1>5. QED
  BY <1>3, <1>4 DEF Good, NothingMissed, SameTolerance, CompletePart, InPart

LEMMA OneMoreGood ==
  ASSUME CourseTypes, GoodParts, SameTolerance, agg.at \in Stages, UNCHANGED <<mode, plan>>, exported' = exported + 1,
         \A n \in Number : n # This => part'[n] = part[n],
         part'[This].video # "none", part'[This].srt, part'[This].text # {},
         These \subseteq part'[This].has,
         mode = "pipe" => part'[This].video = "whole" /\ part'[This].cut \in scenario.tolerated
  PROVE  GoodParts'
<1>1. \A m \in 1..exported : Good(m)'
  BY GoodKept
<1>2. exported \in Nat
  BY InStage
<1>3. ASSUME NEW m, m = exported + 1 PROVE Good(m)'
  <2>1. plan'[m].number = This /\ InPart(m)' = These
    BY <1>3 DEF This, These, InPart
  <2>2. QED
    BY <2>1 DEF Good, NothingMissed, SameTolerance, CompletePart
<1>4. \A m \in 1..exported' : m \in 1..exported \/ m = exported + 1
  BY <1>2
<1>5. \A m \in 1..exported' : Good(m)'
  BY <1>1, <1>3, <1>4
<1>6. QED
  BY <1>5 DEF GoodParts

\* What the check tolerates is asked once.
LEMMA ToleranceKept ==
  ASSUME CourseTypes, CourseNext
  PROVE  SameTolerance
<1>1. ScenarioType
  BY DEF CourseTypes
<1>2. SameRequest => SameTolerance
  BY DEF SameRequest, SameTolerance
<1>3. ASSUME NEW v \in Video, Late(v) PROVE SameTolerance
  BY <1>1, <1>3 DEF Late, ScenarioType, Request, SameTolerance
<1>4. ASSUME NEW v \in Video, CompressFails(v) PROVE SameTolerance
  BY <1>1, <1>2, <1>4, Spending DEF CompressFails
<1>5. ASSUME NEW v \in Video, Transcribe(v) \/ Take(v) \/ Compress(v) \/ Collect(v) \/ CollectFailure(v) PROVE SameTolerance
  BY <1>5 DEF Transcribe, Take, Compress, Collect, CollectFailure, SameTolerance
<1>6. CASE Begin \/ Cancel \/ Kill \/ WhisperEnds \/ MergeFails
  BY <1>1, <1>2, <1>6, Spending DEF Begin, Cancel, Kill, WhisperEnds, MergeFails
<1>7. CASE WhisperBroken \/ LastPass \/ Subtitles \/ MergeVideo \/ Text \/ Verify \/ Cleanup \/ Return \/ Plain
  BY <1>7 DEF WhisperBroken, LastPass, Subtitles, MergeVideo, Text, Verify, Cleanup, Return, Plain,
              OnlyPart, OnlyExport, SameTolerance
<1>8. QED
  BY <1>3, <1>4, <1>5, <1>6, <1>7 DEF CourseNext, Work

LEMMA GoodPartsSteps ==
  ASSUME CourseTypes, PartInHand, PlainSmooth, GoodParts, CourseNext
  PROVE  GoodParts'
<1> USE DEF CourseTypes
<1>1. ASSUME exported' = 0 PROVE GoodParts'
  BY <1>1 DEF GoodParts
<1>2. part \in [Number -> PartFiles] /\ SameTolerance
  BY ToleranceKept DEF DiskType
<1>3. CASE Begin \/ Plain \/ Kill
  BY <1>1, <1>3 DEF Begin, Plain, Kill, Fresh
<1>4. CASE WhisperEnds \/ WhisperBroken \/ Return \/ Cancel
  BY <1>2, <1>4, GoodQuiet DEF WhisperEnds, WhisperBroken, Return, Cancel, disk, run, export
<1>5. ASSUME NEW v \in Video,
             Transcribe(v) \/ Take(v) \/ Compress(v) \/ CompressFails(v) \/ Collect(v) \/ CollectFailure(v) \/ Late(v)
      PROVE  GoodParts'
  <2>1. UNCHANGED <<mode, plan, exported, part>>
    BY <1>5 DEF Transcribe, Take, Compress, CompressFails, Collect, CollectFailure, Late, disk, run, export
  <2>2. QED
    BY <1>2, <2>1, GoodQuiet
<1>6. CASE LastPass
  <2>1. CASE mode = "plain"
    <3>1. exported' = 0
      BY <1>6, <2>1 DEF LastPass, ModeShape, PlaceShape
    <3>2. QED
      BY <1>1, <3>1
  <2>2. CASE mode # "plain"
    BY <1>2, <1>6, <2>2, GoodQuiet DEF LastPass, disk
  <2>3. QED
    BY <2>1, <2>2
<1>7. ASSUME exported' = exported, agg.at \in Stages, UNCHANGED <<mode, plan>>,
             \A n \in Number : n # This => part'[n] = part[n]
      PROVE  GoodParts'
  BY <1>2, <1>7, GoodKept DEF GoodParts
<1>8. CASE Subtitles
  BY <1>2, <1>7, <1>8 DEF Subtitles, Step, OnlyPart, Stages, run
<1>9. CASE MergeVideo
  <2>1. agg.at \in Stages /\ exported' = exported /\ UNCHANGED <<mode, plan>>
    BY <1>9 DEF MergeVideo, Step, OnlyPart, Stages, run
  <2>2. \A n \in Number : n # This => part'[n] = part[n]
    BY <1>2, <1>9 DEF MergeVideo
  <2>3. QED
    BY <1>7, <2>1, <2>2
<1>10. CASE MergeFails
  <2>1. agg.at \in Stages /\ exported' = exported /\ UNCHANGED <<mode, plan>>
    BY <1>10 DEF MergeFails, Fails, Stages, run
  <2>2. \A n \in Number : n # This => part'[n] = part[n]
    BY <1>2, <1>10 DEF MergeFails
  <2>3. QED
    BY <1>7, <2>1, <2>2
<1>11. CASE Text
  <2>1. agg.at = "text" /\ agg.at \in Stages /\ UNCHANGED <<mode, plan>>
    BY <1>11 DEF Text, Step, PartDone, OnlyPart, Stages, run
  <2>2. part' = [part EXCEPT ![This].text = These \cap srt]
    BY <1>11 DEF Text
  <2>3. \A n \in Number : n # This => part'[n] = part[n]
    BY <1>2, <2>2
  <2>4. CASE mode = "plain"
    <3>1. This \in Number /\ These \in SUBSET files /\ These \subseteq Video /\ These # {} /\ part[This] \in PartFiles
      BY <1>2, <2>1, InStage, InHand
    <3>2. /\ part'[This].text = These \cap srt /\ part'[This].video = part[This].video
          /\ part'[This].srt = part[This].srt /\ part'[This].has = part[This].has
      BY <1>2, <2>2, <3>1 DEF PartFiles
    <3>3. part[This].srt /\ part[This].video # "none" /\ Collected
          /\ \A v \in Video : at[v] \in {"sent", "collected"} => v \in srt
      BY <2>1, <2>4 DEF PlainSmooth
    <3>4. These \cap srt # {}
      BY <3>1, <3>3 DEF Collected, At
    <3>5. part[This].has = These
      BY <2>1 DEF PartInHand
    <3>6. exported' = exported + 1
      BY <1>11, <2>4 DEF Text, PartDone
    <3>7. QED
      BY <2>1, <2>3, <2>4, <3>2, <3>3, <3>4, <3>5, <3>6, <1>2, OneMoreGood
  <2>5. CASE mode # "plain"
    <3>1. exported' = exported
      BY <1>11, <2>5 DEF Text
    <3>2. QED
      BY <1>7, <2>1, <2>3, <3>1
  <2>6. QED
    BY <2>4, <2>5
<1>12. ASSUME part' = part, UNCHANGED <<mode, plan>>, agg.at \in {"verify", "cleanup"}, Verified(This), exported' = exported + 1
       PROVE  GoodParts'
  <2>1. part[This].has = These
    BY <1>12 DEF PartInHand
  <2>2. agg.at \in Stages
    BY <1>12 DEF Stages
  <2>3. QED
    BY <1>2, <1>12, <2>1, <2>2, OneMoreGood DEF NothingMissed, Verified, AnyLength, CompletePart
<1>13. CASE Verify
  <2>1. agg.at = "verify" /\ part' = part /\ UNCHANGED <<mode, plan>>
    BY <1>13 DEF Verify, OnlyExport, disk, run
  <2>2. exported' = exported \/ (Verified(This) /\ exported' = exported + 1)
    BY <1>13 DEF Verify, PartDone
  <2>3. QED
    BY <1>2, <1>12, <2>1, <2>2, GoodQuiet
<1>14. CASE Cleanup
  <2>1. agg.at = "cleanup" /\ part' = part /\ UNCHANGED <<mode, plan>> /\ Verified(This)
    BY <1>14 DEF Cleanup, disk, run, PartInHand
  <2>2. exported' = exported \/ exported' = exported + 1
    BY <1>14 DEF Cleanup, PartDone
  <2>3. QED
    BY <1>2, <1>12, <2>1, <2>2, GoodQuiet
<1>15. QED
  BY <1>3, <1>4, <1>5, <1>6, <1>8, <1>9, <1>10, <1>11, <1>13, <1>14 DEF CourseNext, Work

\* The answer.
LEMMA AnswerQuiet ==
  ASSUME Answered, SameTolerance, UNCHANGED <<pc, mode, files, agg, part, cancelled, answer>>
  PROVE  Answered'
BY DEF Answered, Whole, NothingMissed, SameTolerance, CompletePart

LEMMA AnsweredSteps ==
  ASSUME CourseTypes, LastSmooth, GoodParts, Answered, CourseNext
  PROVE  Answered'
<1> USE DEF CourseTypes
<1>1. ASSUME answer' # "ok" PROVE Answered'
  BY <1>1 DEF Answered
<1>2. CASE Begin \/ Plain \/ Kill
  <2>1. answer' # "ok"
    BY <1>2 DEF Begin, Plain, Kill, StartPlain
  <2>2. QED
    BY <1>1, <2>1
<1>3. ASSUME UNCHANGED answer, pc # "off" \/ agg.at # "done" PROVE Answered'
  BY <1>3 DEF Answered
<1>4. CASE WhisperEnds \/ WhisperBroken \/ LastPass \/ Subtitles \/ MergeVideo \/ MergeFails \/ Text \/ Verify \/ Cleanup \/ Cancel
  <2>1. UNCHANGED answer
    BY <1>4 DEF WhisperEnds, WhisperBroken, LastPass, Subtitles, MergeVideo, MergeFails, Text, Verify, Cleanup, Cancel, OnlyPart, OnlyExport
  <2>2. pc # "off" \/ agg.at # "done"
    BY <1>4 DEF WhisperEnds, WhisperBroken, LastPass, Subtitles, MergeVideo, MergeFails, Text, Verify, Cleanup, Cancel, Step, Fails, PartDone
  <2>3. QED
    BY <1>3, <2>1, <2>2
<1>5. ASSUME NEW v \in Video, Transcribe(v) \/ Collect(v) \/ CollectFailure(v) PROVE Answered'
  BY <1>3, <1>5 DEF Transcribe, Collect, CollectFailure
<1>6. ASSUME NEW v \in Video, Take(v) \/ Compress(v) \/ CompressFails(v) \/ Late(v) PROVE Answered'
  <2>1. UNCHANGED <<pc, mode, files, agg, part, cancelled, answer>>
    BY <1>6 DEF Take, Compress, CompressFails, Late, run, disk, export
  <2>2. QED
    BY <2>1, ToleranceKept, AnswerQuiet
<1>7. CASE Return
  <2>1. /\ agg.at = "done" /\ pc = "drain" /\ pc' = "off" /\ answer' = IF err THEN "failed" ELSE "ok"
        /\ UNCHANGED <<part, mode, files, agg, cancelled>>
    BY <1>7 DEF Return, disk, export
  <2>2. CASE err \/ cancelled
    BY <2>1, <2>2 DEF Answered
  <2>3. CASE Fine
    <3>1. exported = Len(plan) /\ agg.last
      BY <2>1, <2>3 DEF LastSmooth, PlaceShape
    <3>2. PlanCovers(plan, files)
      BY <2>1, <2>3, <3>1 DEF LastSmooth, Fine
    <3>3. ASSUME NEW v \in files
          PROVE  \E n \in Number : CompletePart(n) /\ v \in part[n].has /\ (mode = "pipe" => NothingMissed(n))
      <4>1. PICK m \in DOMAIN plan : \E i \in DOMAIN plan[m].items : plan[m].items[i] = v
        BY <3>2 DEF PlanCovers
      <4>2. v \in InPart(m)
        BY <4>1 DEF InPart
      <4>3. Good(m)
        BY <3>1, <4>1, PlanIsSeq DEF GoodParts
      <4>4. plan[m].number \in Number
        <5> DEFINE R == [items: Seq(Video), number: Number]
        <5>1. plan \in Seq(R)
          BY DEF RunType, PlanFits
        <5> HIDE DEF R
        <5>2. plan[m] \in R
          BY <4>1, <5>1
        <5>3. QED
          BY <5>2 DEF R
      <4>5. QED
        BY <4>2, <4>3, <4>4 DEF Good
    <3>4. Whole'
      BY <2>1, <3>3, ToleranceKept DEF Whole, NothingMissed, SameTolerance, CompletePart
    <3>5. QED
      BY <2>1, <3>4 DEF Answered
  <2>4. QED
    BY <2>2, <2>3 DEF Fine
<1>8. QED
  BY <1>2, <1>4, <1>5, <1>6, <1>7 DEF CourseNext, Work

LEMMA InitSuccess == CourseInit => Success
<1> SUFFICES ASSUME CourseInit PROVE Success
  OBVIOUS
<1>1. PoolSmooth /\ LastSmooth
  BY DEF CourseInit, PoolSmooth, LastSmooth
<1>2. PlainSmooth /\ GoodParts /\ Answered
  BY DEF CourseInit, PlainSmooth, GoodParts, Answered
<1>3. QED
  BY <1>1, <1>2 DEF Success

LEMMA SuccessKept == CourseTypes /\ Loss /\ Success /\ [CourseNext]_courseVars => Success'
<1> SUFFICES ASSUME CourseTypes, Loss, Success, [CourseNext]_courseVars PROVE Success'
  OBVIOUS
<1>1. CASE UNCHANGED courseVars
  <2> USE <1>1 DEF courseVars, disk, run, pool, export, ends, Success
  <2>1. PoolSmooth'
    BY PoolQuiet
  <2>2. LastSmooth'
    BY LastQuiet DEF Collected, At
  <2>3. PlainSmooth'
    BY PlainQuiet
  <2>4. GoodParts' /\ Answered'
    BY GoodQuiet, AnswerQuiet DEF SameTolerance
  <2>5. QED
    BY <2>1, <2>2, <2>3, <2>4
<1>2. CASE CourseNext
  BY <1>2, PoolSmoothSteps, LastSmoothSteps, PlainSmoothSteps, GoodPartsSteps, AnsweredSteps DEF Success, Loss
<1>3. QED
  BY <1>1, <1>2

\* A run that returns no error, and was not cancelled, put each of its videos
\* into a part, which in the pipeline was merged to its end and lacks no more of
\* its videos than the check lets pass: whatever the order in which videos
\* were transcribed, compressed and collected, for any number of them, of
\* workers and of earlier runs.
THEOREM SuccessIsWhole == CourseSpec => []SuccessMeansWhole
<1>1. CourseInit => CourseTypes /\ Loss /\ Success
  BY InitTypes, InitLoss, InitSuccess
<1>2. CourseTypes /\ Loss /\ Success /\ [CourseNext]_courseVars => (CourseTypes /\ Loss /\ Success)'
  BY TypesKept, LossKept, SuccessKept
<1>3. QED
  BY <1>1, <1>2, SuccessIsAnswered, PTL DEF CourseSpec
=============================================================================
