--------------------------- MODULE ExecutionProofs ---------------------------
(***************************************************************************)
(* What is proved of internal/execution: the limiter, the order in which   *)
(* targets are tried, rotation over many requests, and Service.Execute,    *)
(* which uses the limiter as Limiter.tla says, so that what is shown of    *)
(* the limiter holds of the calls that are made.  For every set of         *)
(* requests, profiles, targets and keys, every way targets share keys, and *)
(* every limit and window.                                                 *)
(***************************************************************************)
EXTENDS Execution, Rotation, FiniteSetTheorems, FunctionTheorems, WellFoundedInduction, TLAPS

(* The limiter.                                                            *)

\* What the budgets rest on.  A row is trimmed from the store only when it is
\* older than StoreRetention, so the store has every call a restart may need;
\* memory then has every call a window may count.
StoreIsComplete ==
  \A e \in granted : e.at >= now - StoreRetention => e \in store

Finite == IsFiniteSet(events) /\ IsFiniteSet(store) /\ IsFiniteSet(granted)

NothingFromTheFuture == \A e \in granted : e.at <= now

LimiterInv ==
  /\ TypeOK
  /\ Finite
  /\ NothingFromTheFuture
  /\ StoreIsComplete
  /\ MemoryIsComplete
  /\ ActiveCountsHolders
  /\ ConcurrencyBound
  /\ MinuteBudget
  /\ TokenBudget
  /\ DailyBudget
-----------------------------------------------------------------------------
\* Adding an element to a finite set adds at most one to its size.
LEMMA AtMostOneMore ==
  ASSUME NEW S, NEW T, NEW x, IsFiniteSet(T), S \subseteq T \cup {x}
  PROVE  /\ IsFiniteSet(S)
         /\ Cardinality(S) \in Nat
         /\ Cardinality(T) \in Nat
         /\ Cardinality(S) <= Cardinality(T) + 1
<1>1. /\ IsFiniteSet(T \cup {x})
      /\ Cardinality(T \cup {x}) = IF x \in T THEN Cardinality(T) ELSE Cardinality(T) + 1
  BY FS_AddElement
<1>2. IsFiniteSet(S) /\ Cardinality(S) <= Cardinality(T \cup {x})
  BY <1>1, FS_Subset
<1>3. Cardinality(S) \in Nat /\ Cardinality(T) \in Nat
  BY <1>2, FS_CardinalityType
<1>4. QED
  BY <1>1, <1>2, <1>3

\* Two instants of one day are less than a day apart.
LEMMA SameDayIsClose ==
  ASSUME NEW d \in Nat \ {0}, NEW a \in Nat, NEW b \in Nat, a \div d = b \div d
  PROVE  a > b - d
<1> DEFINE q == a \div d
<1>1. q \in Int /\ a = d * q + (a % d) /\ (a % d) \in 0..(d - 1)
  OBVIOUS
<1>2. b = d * q + (b % d) /\ (b % d) \in 0..(d - 1)
  OBVIOUS
<1>3. PICK m \in Int : m = d * q
  BY <1>1
<1> HIDE DEF q
<1>4. QED
  BY <1>1, <1>2, <1>3
-----------------------------------------------------------------------------
(* Least elements, and the sums TokensIn takes, by minimal counterexample. *)

\* A set of naturals has the least element that Min chooses.
LEMMA MinOfNaturals ==
  ASSUME NEW S, S \subseteq Nat, S # {}
  PROVE  Min(S) \in S /\ \A y \in S : Min(S) <= y
<1> DEFINE Below == {0..x : x \in S}
<1>1. Below # {}
  OBVIOUS
<1>2. Below \subseteq FiniteSubsetsOf(Nat)
  <2> SUFFICES ASSUME NEW x \in S PROVE 0..x \in FiniteSubsetsOf(Nat)
    OBVIOUS
  <2>1. IsFiniteSet(0..x)
    BY FS_Interval
  <2>2. QED
    BY <2>1 DEF FiniteSubsetsOf
<1>3. PICK B \in Below : \A C \in Below : ~(<<C, B>> \in StrictSubsetOrdering(Nat))
  <2> HIDE DEF Below
  <2>1. IsWellFoundedOn(StrictSubsetOrdering(Nat), FiniteSubsetsOf(Nat))
    BY FS_StrictSubsetOrderingWellFounded
  <2>2. QED
    BY <1>1, <1>2, <2>1, WFMin
<1>4. PICK m \in S : B = 0..m
  OBVIOUS
<1>5. ASSUME NEW y \in S PROVE m <= y
  <2>1. ~(<<0..y, 0..m>> \in StrictSubsetOrdering(Nat))
    BY <1>3, <1>4
  <2>2. 0..y \in SUBSET Nat /\ 0..m \in SUBSET Nat
    OBVIOUS
  <2>3. ~(0..y \subseteq 0..m /\ 0..y # 0..m)
    BY <2>1, <2>2 DEF StrictSubsetOrdering
  <2>4. SUFFICES ASSUME y < m PROVE FALSE
    OBVIOUS
  <2>5. 0..y \subseteq 0..m /\ m \in 0..m /\ m \notin 0..y
    BY <2>4
  <2>6. QED
    BY <2>3, <2>5
<1>6. QED
  BY <1>5 DEF Min
\* Of sets within a finite one, one is a least.
LEMMA LeastSet ==
  ASSUME NEW E, IsFiniteSet(E), NEW Some, Some \subseteq SUBSET E, Some # {}
  PROVE  \E m \in Some : \A s \in Some : s \subseteq m => s = m
<1>1. Some \subseteq FiniteSubsetsOf(E)
  BY FS_Subset DEF FiniteSubsetsOf
<1>2. PICK m \in Some : \A s \in Some : ~(<<s, m>> \in StrictSubsetOrdering(E))
  <2>1. IsWellFoundedOn(StrictSubsetOrdering(E), FiniteSubsetsOf(E))
    BY FS_StrictSubsetOrderingWellFounded
  <2>2. QED
    BY <1>1, <2>1, WFMin
<1>3. QED
  BY <1>2 DEF StrictSubsetOrdering

\* The recursive function behind TokensIn: sums of all subsets.
AnyOf(s) == CHOOSE x \in s : TRUE

IsTable(S, f) ==
  f = [s \in SUBSET S |-> IF s = {} THEN 0 ELSE AnyOf(s).tokens + f[s \ {AnyOf(s)}]]

TableOf(S) == CHOOSE f : IsTable(S, f)

LEMMA TokensAreTable == ASSUME NEW S PROVE TokensIn(S) = TableOf(S)[S]
  BY Zenon DEF TokensIn, MapThenSumSet, MapThenFoldSet, TableOf, IsTable, AnyOf

LEMMA AnyIsMember == ASSUME NEW s, s # {} PROVE AnyOf(s) \in s
  BY DEF AnyOf

LEMMA TableAt ==
  ASSUME NEW S, NEW f, IsTable(S, f), NEW s \in SUBSET S
  PROVE  /\ s = {} => f[s] = 0
         /\ s # {} => f[s] = AnyOf(s).tokens + f[s \ {AnyOf(s)}]
  BY DEF IsTable

\* Two tables agree where both are defined.
LEMMA TablesAgree ==
  ASSUME NEW S, NEW T, NEW f, NEW g, IsTable(S, f), IsTable(T, g),
         NEW u, u \subseteq S, u \subseteq T, IsFiniteSet(u)
  PROVE  f[u] = g[u]
<1> SUFFICES ASSUME f[u] # g[u] PROVE FALSE
  OBVIOUS
<1> DEFINE Bad == {s \in SUBSET u : f[s] # g[s]}
<1>1. u \in Bad
  OBVIOUS
<1>2. PICK m \in Bad : \A s \in Bad : s \subseteq m => s = m
  <2>1. Bad \subseteq SUBSET u /\ Bad # {}
    BY <1>1
  <2> HIDE DEF Bad
  <2>2. QED
    BY <2>1, LeastSet
<1>3. m \in SUBSET S /\ m \in SUBSET T /\ f[m] # g[m]
  BY <1>2
<1>4. m # {}
  BY <1>3, TableAt
<1>5. AnyOf(m) \in m
  BY <1>4, AnyIsMember
<1>6. f[m \ {AnyOf(m)}] = g[m \ {AnyOf(m)}]
  BY <1>2, <1>5
<1>7. QED
  BY <1>3, <1>4, <1>6, TableAt

\* Every finite set has its table.
LEMMA TableExists ==
  ASSUME NEW S, IsFiniteSet(S)
  PROVE  IsTable(S, TableOf(S))
<1> SUFFICES ASSUME ~ \E f : IsTable(S, f) PROVE FALSE
  BY DEF TableOf
<1> DEFINE Bad == {s \in SUBSET S : ~ \E f : IsTable(s, f)}
<1>1. PICK m \in Bad : \A s \in Bad : s \subseteq m => s = m
  <2>1. Bad \subseteq SUBSET S /\ S \in Bad
    OBVIOUS
  <2> HIDE DEF Bad
  <2>2. QED
    BY <2>1, LeastSet
<1>2. ASSUME NEW s, s \subseteq m, s # m PROVE IsTable(s, TableOf(s))
  BY <1>1, <1>2 DEF TableOf
<1> DEFINE val(s) == TableOf(s)[s]
           g == [s \in SUBSET m |-> IF s = {} THEN 0 ELSE AnyOf(s).tokens + val(s \ {AnyOf(s)})]
<1>3. ASSUME NEW u, u \subseteq m, u # m PROVE g[u] = val(u)
  <2>1. IsTable(u, TableOf(u))
    BY <1>2, <1>3
  <2>2. CASE u = {}
    BY <1>3, <2>1, <2>2, TableAt
  <2>3. CASE u # {}
    <3> DEFINE v == u \ {AnyOf(u)}
    <3>1. AnyOf(u) \in u
      BY <2>3, AnyIsMember
    <3>2. v \subseteq u /\ v \subseteq m /\ v # m
      BY <1>3, <3>1
    <3>3. IsTable(v, TableOf(v))
      BY <1>2, <3>2
    <3>4. IsFiniteSet(v)
      BY <1>1, <3>2, FS_Subset
    <3>5. TableOf(u)[v] = TableOf(v)[v]
      BY <2>1, <3>2, <3>3, <3>4, TablesAgree
    <3>6. TableOf(u)[u] = AnyOf(u).tokens + TableOf(u)[v]
      BY <2>1, <2>3, TableAt
    <3>7. g[u] = AnyOf(u).tokens + val(v)
      BY <1>3, <2>3
    <3>8. QED
      BY <3>5, <3>6, <3>7
  <2>4. QED
    BY <2>2, <2>3
<1>4. \A s \in SUBSET m : s # {} => g[s \ {AnyOf(s)}] = val(s \ {AnyOf(s)})
  <2> SUFFICES ASSUME NEW s \in SUBSET m, s # {}
               PROVE  g[s \ {AnyOf(s)}] = val(s \ {AnyOf(s)})
    OBVIOUS
  <2>1. AnyOf(s) \in s
    BY AnyIsMember
  <2> HIDE DEF g, val
  <2>2. QED
    BY <1>3, <2>1
<1>5. \A s \in SUBSET m : g[s] = IF s = {} THEN 0 ELSE AnyOf(s).tokens + g[s \ {AnyOf(s)}]
  <2> SUFFICES ASSUME NEW s \in SUBSET m
               PROVE  g[s] = IF s = {} THEN 0 ELSE AnyOf(s).tokens + g[s \ {AnyOf(s)}]
    OBVIOUS
  <2>1. g[s] = IF s = {} THEN 0 ELSE AnyOf(s).tokens + val(s \ {AnyOf(s)})
    OBVIOUS
  <2> HIDE DEF g, val
  <2>2. QED
    BY <1>4, <2>1
<1>6. g = [s \in SUBSET m |-> g[s]]
  OBVIOUS
<1>7. IsTable(m, g)
  <2> HIDE DEF g, val
  <2>1. QED
    BY <1>5, <1>6 DEF IsTable
<1>8. QED
  BY <1>1, <1>7

\* What one call adds to the sum, for any call of a set.
LEMMA TokensOfNone == TokensIn({}) = 0
<1>1. IsTable({}, TableOf({}))
  BY TableExists, FS_EmptySet
<1>2. QED
  BY <1>1, TableAt, TokensAreTable

LEMMA TokensOfChosen ==
  ASSUME NEW S, IsFiniteSet(S), S # {}
  PROVE  TokensIn(S) = AnyOf(S).tokens + TokensIn(S \ {AnyOf(S)})
<1> DEFINE v == S \ {AnyOf(S)}
<1>1. IsFiniteSet(v)
  BY FS_Subset
<1>2. IsTable(S, TableOf(S)) /\ IsTable(v, TableOf(v))
  BY <1>1, TableExists
<1>3. TableOf(S)[v] = TableOf(v)[v]
  <2>1. v \subseteq S /\ v \subseteq v
    OBVIOUS
  <2> HIDE DEF v
  <2>2. QED
    BY <1>1, <1>2, <2>1, TablesAgree
<1>4. TableOf(S)[S] = AnyOf(S).tokens + TableOf(S)[v]
  BY <1>2, TableAt
<1>5. TokensIn(S) = TableOf(S)[S] /\ TokensIn(v) = TableOf(v)[v]
  BY TokensAreTable
<1>6. QED
  BY <1>3, <1>4, <1>5

LEMMA TokensAreNatural ==
  ASSUME NEW S, S \subseteq Event, IsFiniteSet(S)
  PROVE  TokensIn(S) \in Nat
<1> SUFFICES ASSUME TokensIn(S) \notin Nat PROVE FALSE
  OBVIOUS
<1> DEFINE Bad == {s \in SUBSET S : TokensIn(s) \notin Nat}
<1>1. PICK m \in Bad : \A s \in Bad : s \subseteq m => s = m
  <2>1. Bad \subseteq SUBSET S /\ S \in Bad
    OBVIOUS
  <2> HIDE DEF Bad
  <2>2. QED
    BY <2>1, LeastSet
<1>2. m # {}
  <2>1. TokensIn(m) \notin Nat
    BY <1>1
  <2>2. QED
    BY <2>1, TokensOfNone
<1>3. AnyOf(m) \in m /\ AnyOf(m) \in Event /\ IsFiniteSet(m)
  BY <1>1, <1>2, AnyIsMember, FS_Subset
<1>4. TokensIn(m \ {AnyOf(m)}) \in Nat
  BY <1>1, <1>3
<1>5. TokensIn(m) = AnyOf(m).tokens + TokensIn(m \ {AnyOf(m)})
  BY <1>2, <1>3, TokensOfChosen
<1>6. AnyOf(m).tokens \in Nat
  BY <1>3 DEF Event
<1>7. QED
  BY <1>1, <1>4, <1>5, <1>6

LEMMA TokensOfOneMore ==
  ASSUME NEW S, S \subseteq Event, IsFiniteSet(S), NEW y \in S
  PROVE  TokensIn(S) = y.tokens + TokensIn(S \ {y})
<1> SUFFICES ASSUME TokensIn(S) # y.tokens + TokensIn(S \ {y}) PROVE FALSE
  OBVIOUS
<1> DEFINE Bad == {s \in SUBSET S : \E z \in s : TokensIn(s) # z.tokens + TokensIn(s \ {z})}
<1>1. PICK m \in Bad : \A s \in Bad : s \subseteq m => s = m
  <2>1. Bad \subseteq SUBSET S /\ S \in Bad
    OBVIOUS
  <2> HIDE DEF Bad
  <2>2. QED
    BY <2>1, LeastSet
<1>2. PICK z \in m : TokensIn(m) # z.tokens + TokensIn(m \ {z})
  BY <1>1
<1> DEFINE x == AnyOf(m)
<1>3. x \in m /\ IsFiniteSet(m) /\ m \subseteq Event
  BY <1>1, <1>2, AnyIsMember, FS_Subset
<1>4. TokensIn(m) = x.tokens + TokensIn(m \ {x})
  BY <1>2, <1>3, TokensOfChosen
<1> HIDE DEF x
<1>5. x # z
  BY <1>2, <1>4
<1>6. \A s \in SUBSET m : s # m => \A u \in s : TokensIn(s) = u.tokens + TokensIn(s \ {u})
  BY <1>1
<1> DEFINE rest == m \ {x, z}
<1>7. TokensIn(m \ {x}) = z.tokens + TokensIn(rest)
  <2>1. m \ {x} \in SUBSET m /\ m \ {x} # m /\ z \in m \ {x} /\ rest = (m \ {x}) \ {z}
    BY <1>2, <1>3, <1>5
  <2> HIDE DEF rest
  <2>2. QED
    BY <1>6, <2>1
<1>8. TokensIn(m \ {z}) = x.tokens + TokensIn(rest)
  <2>1. m \ {z} \in SUBSET m /\ m \ {z} # m /\ x \in m \ {z} /\ rest = (m \ {z}) \ {x}
    BY <1>2, <1>3, <1>5
  <2> HIDE DEF rest
  <2>2. QED
    BY <1>6, <2>1
<1>9. /\ x.tokens \in Nat /\ z.tokens \in Nat
      /\ TokensIn(rest) \in Nat
  <2>1. IsFiniteSet(rest) /\ rest \subseteq Event
    BY <1>3, FS_Subset
  <2>2. QED
    BY <1>2, <1>3, <2>1, TokensAreNatural DEF Event
<1> HIDE DEF rest
<1>10. TokensIn(m) # z.tokens + TokensIn(m \ {z})
  BY <1>2
<1>11. QED
  BY <1>4, <1>7, <1>8, <1>9, <1>10

LEMMA TokensGrow ==
  ASSUME NEW S, S \subseteq Event, IsFiniteSet(S), NEW T, T \subseteq S
  PROVE  TokensIn(T) \in Nat /\ TokensIn(S) \in Nat /\ TokensIn(T) <= TokensIn(S)
<1>1. TokensIn(T) \in Nat /\ TokensIn(S) \in Nat
  <2>1. IsFiniteSet(T)
    BY FS_Subset
  <2>2. QED
    BY <2>1, TokensAreNatural
<1> SUFFICES ASSUME ~(TokensIn(T) <= TokensIn(S)) PROVE FALSE
  BY <1>1
<1> DEFINE Bad == {s \in SUBSET S : T \subseteq s /\ ~(TokensIn(T) <= TokensIn(s))}
<1>2. PICK m \in Bad : \A s \in Bad : s \subseteq m => s = m
  <2>1. Bad \subseteq SUBSET S /\ S \in Bad
    OBVIOUS
  <2> HIDE DEF Bad
  <2>2. QED
    BY <2>1, LeastSet
<1>3. m # T
  BY <1>1, <1>2
<1>4. PICK y \in m : y \notin T
  BY <1>2, <1>3
<1>5. IsFiniteSet(m) /\ m \subseteq Event /\ IsFiniteSet(m \ {y}) /\ m \ {y} \subseteq Event
  BY <1>2, FS_Subset
<1>6. TokensIn(T) <= TokensIn(m \ {y})
  BY <1>2, <1>4
<1>7. TokensIn(m) = y.tokens + TokensIn(m \ {y})
  BY <1>4, <1>5, TokensOfOneMore
<1>8. TokensIn(m \ {y}) \in Nat /\ y.tokens \in Nat
  BY <1>4, <1>5, TokensAreNatural DEF Event
<1>9. QED
  BY <1>1, <1>2, <1>6, <1>7, <1>8
-----------------------------------------------------------------------------
LEMMA InitEstablishes == Init => LimiterInv
<1> SUFFICES ASSUME Init PROVE LimiterInv
  OBVIOUS
<1> USE DEF Init
<1>1. TypeOK
  BY DEF TypeOK
<1>2. Finite
  BY FS_EmptySet DEF Finite
<1>3. ActiveCountsHolders
  BY FS_EmptySet DEF ActiveCountsHolders, HoldersOfKey
<1>4. ConcurrencyBound
  <2>1. \A t \in Target : HoldersOf(t) = {}
    BY LimiterAssumption DEF LimiterAssumption, HoldersOf
  <2>2. \A t \in Target : Cardinality(HoldersOf(t)) = 0
    BY <2>1, FS_EmptySet
  <2>3. QED
    BY <2>2, LimiterAssumption DEF LimiterAssumption, ConcurrencyBound
<1>5. QED
  BY <1>1, <1>2, <1>3, <1>4
  DEF LimiterInv, NothingFromTheFuture, StoreIsComplete, MemoryIsComplete, MinuteBudget, TokenBudget, DailyBudget

\* Every action keeps the types.
LEMMA TypePreserved == TypeOK /\ [Next]_limiterVars => TypeOK'
<1> SUFFICES ASSUME TypeOK, [Next]_limiterVars PROVE TypeOK'
  OBVIOUS
<1> USE LimiterAssumption DEF LimiterAssumption, TypeOK
<1>1. ASSUME NEW c \in Caller, NEW t \in Target, Refuse(c, t) PROVE TypeOK'
  BY <1>1 DEF Refuse, Pruned
<1>2. ASSUME NEW c \in Caller, NEW t \in Target, Grant(c, t) PROVE TypeOK'
  <2>1. NewEvent(c, t) \in Event
    BY DEF NewEvent, Event
  <2>2. active' \in [Key -> Nat] /\ holds' \in [Caller -> Target \cup {NoTarget}]
    BY <1>2 DEF Grant
  <2>3. CASE HasRateLimit(t)
    BY <1>2, <2>1, <2>2, <2>3 DEF Grant, Pruned, StoreTrimmed
  <2>4. CASE ~HasRateLimit(t)
    BY <1>2, <2>2, <2>4 DEF Grant, Pruned
  <2>5. QED
    BY <2>3, <2>4
<1>3. ASSUME NEW c \in Caller, NEW t \in Target, PersistFails(c, t) PROVE TypeOK'
  <2>1. NewEvent(c, t) \in Event
    BY DEF NewEvent, Event
  <2>2. QED
    BY <1>3, <2>1 DEF PersistFails, Pruned, StoreTrimmed
<1>4. ASSUME NEW c \in Caller, Release(c) PROVE TypeOK'
  BY <1>4 DEF Release
<1>5. ASSUME NEW t \in Target, SetCooldown(t) PROVE TypeOK'
  BY <1>5 DEF SetCooldown
<1>6. CASE Tick
  BY <1>6 DEF Tick
<1>7. CASE Restart
  BY <1>7 DEF Restart, LoadExecutionUsage
<1>8. CASE UNCHANGED limiterVars
  BY <1>8 DEF limiterVars
<1>9. QED
  BY <1>1, <1>2, <1>3, <1>4, <1>5, <1>6, <1>7, <1>8 DEF Next
LEMMA FinitePreserved == Finite /\ [Next]_limiterVars => Finite'
<1> SUFFICES ASSUME Finite, [Next]_limiterVars PROVE Finite'
  OBVIOUS
<1> USE DEF Finite
<1>1. \A k \in Key : Pruned(k) \subseteq events
  BY DEF Pruned
<1>2. StoreTrimmed \subseteq store
  BY DEF StoreTrimmed
<1>3. ASSUME NEW c \in Caller, NEW t \in Target, Refuse(c, t) PROVE Finite'
  <2>1. events' \subseteq events
    BY <1>3 DEF Refuse, Pruned
  <2>2. QED
    BY <1>3, <2>1, FS_Subset DEF Refuse
<1>4. ASSUME NEW c \in Caller, NEW t \in Target, Grant(c, t) PROVE Finite'
  <2>1. events' \subseteq events \cup {NewEvent(c, t)}
    BY <1>4 DEF Grant, Pruned
  <2>2. store' \subseteq store \cup {NewEvent(c, t)}
    BY <1>4, <1>2 DEF Grant
  <2>3. granted' \subseteq granted \cup {NewEvent(c, t)}
    BY <1>4 DEF Grant
  <2>4. QED
    BY <2>1, <2>2, <2>3, AtMostOneMore
<1>5. ASSUME NEW c \in Caller, NEW t \in Target, PersistFails(c, t) PROVE Finite'
  <2>1. events' \subseteq events
    BY <1>5 DEF PersistFails, Pruned
  <2>2. store' \subseteq store \cup {NewEvent(c, t)}
    BY <1>5, <1>2 DEF PersistFails
  <2>3. IsFiniteSet(events')
    BY <2>1, FS_Subset
  <2>4. IsFiniteSet(store')
    BY <2>2, AtMostOneMore
  <2>5. QED
    BY <1>5, <2>3, <2>4 DEF PersistFails
<1>6. ASSUME NEW c \in Caller, Release(c) PROVE Finite'
  BY <1>6 DEF Release
<1>7. ASSUME NEW t \in Target, SetCooldown(t) PROVE Finite'
  BY <1>7 DEF SetCooldown
<1>8. CASE Tick
  BY <1>8 DEF Tick
<1>9. CASE Restart
  <2>1. events' \subseteq store
    BY <1>9 DEF Restart, LoadExecutionUsage
  <2>2. QED
    BY <1>9, <2>1, FS_Subset DEF Restart, LoadExecutionUsage
<1>10. CASE UNCHANGED limiterVars
  BY <1>10 DEF limiterVars
<1>11. QED
  BY <1>3, <1>4, <1>5, <1>6, <1>7, <1>8, <1>9, <1>10 DEF Next

\* What is known about one granted event, and what each step may do to it.
LEMMA HistoryPreserved ==
  TypeOK /\ NothingFromTheFuture /\ StoreIsComplete /\ MemoryIsComplete /\ [Next]_limiterVars
    => NothingFromTheFuture' /\ StoreIsComplete' /\ MemoryIsComplete'
<1> SUFFICES ASSUME TypeOK, NothingFromTheFuture, StoreIsComplete, MemoryIsComplete,
                    [Next]_limiterVars
             PROVE  NothingFromTheFuture' /\ StoreIsComplete' /\ MemoryIsComplete'
  OBVIOUS
<1> USE LimiterAssumption DEF LimiterAssumption, NothingFromTheFuture, StoreIsComplete, MemoryIsComplete
<1>0. /\ now \in Nat /\ Retention \in Nat /\ StoreRetention \in Nat /\ Retention <= StoreRetention
      /\ \A e \in granted : e.at \in Nat
  BY DEF TypeOK, Event
<1> HIDE LimiterAssumption
<1>1. ASSUME NEW c \in Caller, NEW t \in Target, Refuse(c, t)
      PROVE  NothingFromTheFuture' /\ StoreIsComplete' /\ MemoryIsComplete'
  BY <1>0, <1>1 DEF Refuse, Pruned
<1>2. ASSUME NEW c \in Caller, NEW t \in Target, Grant(c, t)
      PROVE  NothingFromTheFuture' /\ StoreIsComplete' /\ MemoryIsComplete'
  <2>1. NewEvent(c, t).at = now
    BY DEF NewEvent
  <2>2. CASE HasRateLimit(t)
    BY <1>0, <1>2, <2>1, <2>2 DEF Grant, Pruned, StoreTrimmed
  <2>3. CASE ~HasRateLimit(t)
    BY <1>0, <1>2, <2>3 DEF Grant, Pruned
  <2>4. QED
    BY <2>2, <2>3
<1>3. ASSUME NEW c \in Caller, NEW t \in Target, PersistFails(c, t)
      PROVE  NothingFromTheFuture' /\ StoreIsComplete' /\ MemoryIsComplete'
  <2>1. StoreTrimmed \subseteq store' /\ UNCHANGED <<now, granted, usageErr>>
    BY <1>3 DEF PersistFails, StoreTrimmed
  <2>2. QED
    BY <1>0, <1>3, <2>1 DEF PersistFails, Pruned, StoreTrimmed
<1>4. ASSUME NEW c \in Caller, Release(c)
      PROVE  NothingFromTheFuture' /\ StoreIsComplete' /\ MemoryIsComplete'
  BY <1>4 DEF Release
<1>5. ASSUME NEW t \in Target, SetCooldown(t)
      PROVE  NothingFromTheFuture' /\ StoreIsComplete' /\ MemoryIsComplete'
  BY <1>5 DEF SetCooldown
<1>6. CASE Tick
  BY <1>0, <1>6 DEF Tick
<1>7. CASE Restart
  BY <1>0, <1>7 DEF Restart, LoadExecutionUsage
<1>8. CASE UNCHANGED limiterVars
  BY <1>8 DEF limiterVars
<1>9. QED
  BY <1>1, <1>2, <1>3, <1>4, <1>5, <1>6, <1>7, <1>8 DEF Next
\* Nobody but c changes what it holds, and c takes or gives back one lease.
LEMMA ActivePreserved ==
  TypeOK /\ ActiveCountsHolders /\ [Next]_limiterVars => ActiveCountsHolders'
<1> SUFFICES ASSUME TypeOK, ActiveCountsHolders, [Next]_limiterVars, NEW k \in Key
             PROVE  active'[k] = Cardinality(HoldersOfKey(k)')
  BY DEF ActiveCountsHolders
<1> USE LimiterAssumption DEF LimiterAssumption, TypeOK
<1>1. /\ IsFiniteSet(HoldersOfKey(k))
      /\ active[k] = Cardinality(HoldersOfKey(k))
  <2>1. HoldersOfKey(k) \subseteq Caller
    BY DEF HoldersOfKey
  <2>2. QED
    BY <2>1, FS_Subset DEF ActiveCountsHolders
<1>2. UNCHANGED <<holds, active>> => active'[k] = Cardinality(HoldersOfKey(k)')
  BY <1>1 DEF HoldersOfKey
<1>3. ASSUME NEW c \in Caller, NEW t \in Target, Grant(c, t)
      PROVE  active'[k] = Cardinality(HoldersOfKey(k)')
  <2>1. holds[c] = NoTarget /\ holds' = [holds EXCEPT ![c] = t]
    BY <1>3 DEF Grant
  <2>2. active' = [active EXCEPT ![KeyOf[t]] = @ + 1]
    BY <1>3 DEF Grant
  <2>3. CASE KeyOf[t] = k
    <3>1. HoldersOfKey(k)' = HoldersOfKey(k) \cup {c}
      BY <2>1, <2>3 DEF HoldersOfKey
    <3>2. c \notin HoldersOfKey(k)
      BY <2>1 DEF HoldersOfKey
    <3>3. Cardinality(HoldersOfKey(k) \cup {c}) = Cardinality(HoldersOfKey(k)) + 1
      BY <1>1, <3>2, FS_AddElement
    <3>4. active'[k] = active[k] + 1
      BY <2>2, <2>3
    <3>5. QED
      BY <1>1, <3>1, <3>3, <3>4
  <2>4. CASE KeyOf[t] # k
    <3>1. HoldersOfKey(k)' = HoldersOfKey(k)
      BY <2>1, <2>4 DEF HoldersOfKey
    <3>2. active'[k] = active[k]
      BY <2>2, <2>4
    <3>3. QED
      BY <1>1, <3>1, <3>2
  <2>5. QED
    BY <2>3, <2>4
<1>4. ASSUME NEW c \in Caller, Release(c)
      PROVE  active'[k] = Cardinality(HoldersOfKey(k)')
  <2>1. holds[c] \in Target /\ holds' = [holds EXCEPT ![c] = NoTarget]
    BY <1>4 DEF Release
  <2>2. CASE KeyOf[holds[c]] = k
    <3>1. HoldersOfKey(k)' = HoldersOfKey(k) \ {c}
      BY <2>1, <2>2 DEF HoldersOfKey
    <3>2. c \in HoldersOfKey(k)
      BY <2>1, <2>2 DEF HoldersOfKey
    <3>3. Cardinality(HoldersOfKey(k) \ {c}) = Cardinality(HoldersOfKey(k)) - 1
      BY <1>1, <3>2, FS_RemoveElement
    <3>4. active[k] # 0
      BY <1>1, <3>2, FS_EmptySet
    <3>5. active'[k] = active[k] - 1
      BY <1>4, <2>2, <3>4 DEF Release
    <3>6. QED
      BY <1>1, <3>1, <3>3, <3>5
  <2>3. CASE KeyOf[holds[c]] # k
    <3>1. HoldersOfKey(k)' = HoldersOfKey(k)
      BY <2>1, <2>3 DEF HoldersOfKey
    <3>2. active'[k] = active[k]
      BY <1>4, <2>3 DEF Release
    <3>3. QED
      BY <1>1, <3>1, <3>2
  <2>4. QED
    BY <2>2, <2>3
<1>5. CASE Restart
  <2>1. HoldersOfKey(k)' = {}
    BY <1>5 DEF Restart, LoadExecutionUsage, HoldersOfKey
  <2>2. QED
    BY <1>5, <2>1, FS_EmptySet DEF Restart, LoadExecutionUsage
<1>6. QED
  BY <1>2, <1>3, <1>4, <1>5
  DEF Next, Refuse, PersistFails, SetCooldown, Tick, limiterVars

LEMMA ConcurrencyPreserved ==
  TypeOK /\ ActiveCountsHolders /\ ConcurrencyBound /\ [Next]_limiterVars => ConcurrencyBound'
<1> SUFFICES ASSUME TypeOK, ActiveCountsHolders, ConcurrencyBound, [Next]_limiterVars,
                    NEW u \in Target, MaxConcurrency[u] > 0
             PROVE  Cardinality(HoldersOf(u)') <= MaxConcurrency[u]
  BY DEF ConcurrencyBound
<1> USE LimiterAssumption DEF LimiterAssumption, TypeOK
<1>1. /\ IsFiniteSet(HoldersOf(u))
      /\ Cardinality(HoldersOf(u)) \in Nat
      /\ Cardinality(HoldersOf(u)) <= MaxConcurrency[u]
  <2>1. HoldersOf(u) \subseteq Caller
    BY DEF HoldersOf
  <2>2. IsFiniteSet(HoldersOf(u))
    BY <2>1, FS_Subset
  <2>3. QED
    BY <2>2, FS_CardinalityType DEF ConcurrencyBound
<1>2. HoldersOf(u)' \subseteq HoldersOf(u) => Cardinality(HoldersOf(u)') <= MaxConcurrency[u]
  <2> SUFFICES ASSUME HoldersOf(u)' \subseteq HoldersOf(u)
               PROVE  Cardinality(HoldersOf(u)') <= MaxConcurrency[u]
    OBVIOUS
  <2>1. /\ IsFiniteSet(HoldersOf(u)')
        /\ Cardinality(HoldersOf(u)') <= Cardinality(HoldersOf(u))
    BY <1>1, FS_Subset
  <2>2. Cardinality(HoldersOf(u)') \in Nat
    BY <2>1, FS_CardinalityType
  <2>3. QED
    BY <1>1, <2>1, <2>2
<1>3. ASSUME NEW c \in Caller, NEW t \in Target, Grant(c, t)
      PROVE  Cardinality(HoldersOf(u)') <= MaxConcurrency[u]
  <2>1. holds' = [holds EXCEPT ![c] = t] /\ Ready(t, Tokens[c], now)
    BY <1>3 DEF Grant
  <2>2. CASE t # u
    <3>1. HoldersOf(u)' \subseteq HoldersOf(u)
      BY <2>1, <2>2 DEF HoldersOf
    <3>2. QED
      BY <1>2, <3>1
  <2>3. CASE t = u
    <3>1. active[KeyOf[u]] < MaxConcurrency[u]
      BY <2>1, <2>3 DEF Ready, Busy
    <3>2. HoldersOf(u) \subseteq HoldersOfKey(KeyOf[u])
      BY DEF HoldersOf, HoldersOfKey
    <3>3. HoldersOfKey(KeyOf[u]) \subseteq Caller
      BY DEF HoldersOfKey
    <3>4. Cardinality(HoldersOf(u)) <= active[KeyOf[u]]
      BY <3>2, <3>3, FS_Subset DEF ActiveCountsHolders
    <3>5. HoldersOf(u)' \subseteq HoldersOf(u) \cup {c}
      BY <2>1, <2>3 DEF HoldersOf
    <3>6. /\ Cardinality(HoldersOf(u)') \in Nat
          /\ Cardinality(HoldersOf(u)') <= Cardinality(HoldersOf(u)) + 1
      BY <1>1, <3>5, AtMostOneMore
    <3>7. QED
      BY <1>1, <3>1, <3>4, <3>6
  <2>4. QED
    BY <2>2, <2>3
<1>4. ASSUME NEW c \in Caller, Release(c)
      PROVE  Cardinality(HoldersOf(u)') <= MaxConcurrency[u]
  <2>1. HoldersOf(u)' \subseteq HoldersOf(u)
    BY <1>4 DEF Release, HoldersOf
  <2>2. QED
    BY <1>2, <2>1
<1>5. CASE Restart
  <2>1. HoldersOf(u)' \subseteq HoldersOf(u)
    BY <1>5 DEF Restart, LoadExecutionUsage, HoldersOf
  <2>2. QED
    BY <1>2, <2>1
<1>6. CASE UNCHANGED holds
  <2>1. HoldersOf(u)' \subseteq HoldersOf(u)
    BY <1>6 DEF HoldersOf
  <2>2. QED
    BY <1>2, <2>1
<1>7. QED
  BY <1>3, <1>4, <1>5, <1>6
  DEF Next, Refuse, PersistFails, SetCooldown, Tick, limiterVars
\* Only a granted, limited call changes the history the budgets are about.
LEMMA HistoryStep ==
  ASSUME [Next]_limiterVars, granted' # granted
  PROVE  \E c \in Caller, t \in Target :
           /\ Grant(c, t)
           /\ HasRateLimit(t)
           /\ ~usageErr
           /\ granted' = granted \cup {NewEvent(c, t)}
<1>1. PICK c \in Caller, t \in Target : Grant(c, t)
  BY DEF Next, Refuse, PersistFails, Release, SetCooldown, Tick, Restart, LoadExecutionUsage, limiterVars
<1>2. HasRateLimit(t)
  BY <1>1 DEF Grant
<1>3. QED
  BY <1>1, <1>2 DEF Grant, FailsClosed

LEMMA MinutePreserved ==
  TypeOK /\ Finite /\ NothingFromTheFuture /\ MemoryIsComplete /\ MinuteBudget /\ [Next]_limiterVars
    => MinuteBudget'
<1> SUFFICES ASSUME TypeOK, Finite, NothingFromTheFuture, MemoryIsComplete, MinuteBudget,
                    [Next]_limiterVars
             PROVE  MinuteBudget'
  OBVIOUS
<1>1. CASE granted' = granted
  BY <1>1 DEF MinuteBudget, MinuteOf
<1>2. CASE granted' # granted
  <2>1. PICK c \in Caller, t \in Target :
          /\ Grant(c, t) /\ HasRateLimit(t) /\ ~usageErr
          /\ granted' = granted \cup {NewEvent(c, t)}
    BY <1>2, HistoryStep
  <2> DEFINE new == NewEvent(c, t)
             recent == InMinute(KeyOf[t], now)
             before == {f \in granted : f.target = t /\ now - Minute < f.at /\ f.at <= now}
  <2>2. new.at = now /\ new.target = t /\ new \in Event
    BY LimiterAssumption DEF LimiterAssumption, TypeOK, NewEvent, Event
  <2>3. /\ now \in Nat /\ Minute \in Nat /\ Retention \in Nat /\ Minute <= Retention
        /\ \A e \in granted : e.at \in Nat /\ e.at <= now
        /\ Rpm \in [Target -> Nat]
    BY LimiterAssumption DEF LimiterAssumption, TypeOK, Event, NothingFromTheFuture
  <2>4. before \subseteq recent /\ recent \subseteq events
    BY <2>1, <2>3 DEF MemoryIsComplete, InMinute, Kept
  <2>5. /\ IsFiniteSet(before) /\ IsFiniteSet(recent)
        /\ Cardinality(before) <= Cardinality(recent)
        /\ Cardinality(before) \in Nat /\ Cardinality(recent) \in Nat
    <3>1. IsFiniteSet(recent)
      BY <2>4, FS_Subset DEF Finite
    <3>2. IsFiniteSet(before) /\ Cardinality(before) <= Cardinality(recent)
      BY <2>4, <3>1, FS_Subset
    <3>3. QED
      BY <3>1, <3>2, FS_CardinalityType
  <2> SUFFICES ASSUME NEW e \in granted', Rpm[e.target] > 0
               PROVE  Cardinality(MinuteOf(e)') <= Rpm[e.target]
    BY DEF MinuteBudget
  <2>6. CASE e.target = t /\ e.at = now
    <3>1. MinuteOf(e)' \subseteq before \cup {new}
      BY <2>1, <2>6 DEF MinuteOf
    <3>2. /\ Cardinality(MinuteOf(e)') <= Cardinality(before) + 1
          /\ Cardinality(MinuteOf(e)') \in Nat
      BY <2>5, <3>1, AtMostOneMore
    <3>3. ~MinuteFull(t, now)
      BY <2>1 DEF Grant, Ready
    <3>4. Cardinality(recent) < Rpm[t]
      BY <2>3, <2>5, <2>6, <3>3 DEF MinuteFull
    <3>5. QED
      BY <2>3, <2>5, <2>6, <3>2, <3>4
  <2>7. CASE ~(e.target = t /\ e.at = now)
    <3>1. e \in granted
      BY <2>1, <2>2, <2>7
    <3>2. MinuteOf(e)' = MinuteOf(e)
      BY <2>1, <2>2, <2>3, <2>7, <3>1 DEF MinuteOf
    <3>3. QED
      BY <3>1, <3>2 DEF MinuteBudget
  <2>8. QED
    BY <2>6, <2>7
<1>3. QED
  BY <1>1, <1>2

LEMMA DailyPreserved ==
  TypeOK /\ Finite /\ NothingFromTheFuture /\ MemoryIsComplete /\ DailyBudget /\ [Next]_limiterVars
    => DailyBudget'
<1> SUFFICES ASSUME TypeOK, Finite, NothingFromTheFuture, MemoryIsComplete, DailyBudget,
                    [Next]_limiterVars
             PROVE  DailyBudget'
  OBVIOUS
<1>1. CASE granted' = granted
  BY <1>1 DEF DailyBudget, DayOf
<1>2. CASE granted' # granted
  <2>1. PICK c \in Caller, t \in Target :
          /\ Grant(c, t) /\ HasRateLimit(t) /\ ~usageErr
          /\ granted' = granted \cup {NewEvent(c, t)}
    BY <1>2, HistoryStep
  <2> DEFINE new == NewEvent(c, t)
             today == OnDay(KeyOf[t], now)
             before == {f \in granted : f.target = t /\ f.at \div Day = now \div Day}
  <2>2. new.at = now /\ new.target = t /\ new \in Event
    BY LimiterAssumption DEF LimiterAssumption, TypeOK, NewEvent, Event
  <2>3. /\ now \in Nat /\ Day \in Nat \ {0} /\ Retention \in Nat /\ Day <= Retention
        /\ \A e \in granted : e.at \in Nat /\ e.at <= now
        /\ Rpd \in [Target -> Nat]
    BY LimiterAssumption DEF LimiterAssumption, TypeOK, Event, NothingFromTheFuture
  <2>4. \A f \in before : f.at > now - Retention
    <3> SUFFICES ASSUME NEW f \in before PROVE f.at > now - Retention
      OBVIOUS
    <3>1. f.at > now - Day
      BY <2>3, SameDayIsClose
    <3>2. QED
      BY <2>3, <3>1
  <2>5. before \subseteq today /\ today \subseteq events
    BY <2>1, <2>4 DEF MemoryIsComplete, OnDay, Kept
  <2>6. /\ IsFiniteSet(before) /\ IsFiniteSet(today)
        /\ Cardinality(before) <= Cardinality(today)
        /\ Cardinality(before) \in Nat /\ Cardinality(today) \in Nat
    <3>1. IsFiniteSet(today)
      BY <2>5, FS_Subset DEF Finite
    <3>2. IsFiniteSet(before) /\ Cardinality(before) <= Cardinality(today)
      BY <2>5, <3>1, FS_Subset
    <3>3. QED
      BY <3>1, <3>2, FS_CardinalityType
  <2> SUFFICES ASSUME NEW e \in granted', Rpd[e.target] > 0
               PROVE  Cardinality(DayOf(e)') <= Rpd[e.target]
    BY DEF DailyBudget
  <2>7. CASE e.target = t /\ e.at \div Day = now \div Day
    <3>1. DayOf(e)' \subseteq before \cup {new}
      BY <2>1, <2>7 DEF DayOf
    <3>2. /\ Cardinality(DayOf(e)') <= Cardinality(before) + 1
          /\ Cardinality(DayOf(e)') \in Nat
      BY <2>6, <3>1, AtMostOneMore
    <3>3. ~DaySpent(t, now)
      BY <2>1 DEF Grant, Ready
    <3>4. Cardinality(today) < Rpd[t]
      BY <2>3, <2>6, <2>7, <3>3 DEF DaySpent
    <3>5. QED
      BY <2>3, <2>6, <2>7, <3>2, <3>4
  <2>8. CASE ~(e.target = t /\ e.at \div Day = now \div Day)
    <3>1. e \in granted
      BY <2>1, <2>2, <2>8
    <3>2. DayOf(e)' = DayOf(e)
      BY <2>1, <2>2, <2>8, <3>1 DEF DayOf
    <3>3. QED
      BY <3>1, <3>2 DEF DailyBudget
  <2>9. QED
    BY <2>7, <2>8
<1>3. QED
  BY <1>1, <1>2

LEMMA TokenPreserved ==
  TypeOK /\ Finite /\ NothingFromTheFuture /\ MemoryIsComplete /\ TokenBudget /\ [Next]_limiterVars
    => TokenBudget'
<1> SUFFICES ASSUME TypeOK, Finite, NothingFromTheFuture, MemoryIsComplete, TokenBudget,
                    [Next]_limiterVars
             PROVE  TokenBudget'
  OBVIOUS
<1>1. CASE granted' = granted
  BY <1>1 DEF TokenBudget, MinuteOf
<1>2. CASE granted' # granted
  <2>1. PICK c \in Caller, t \in Target :
          /\ Grant(c, t) /\ HasRateLimit(t) /\ ~usageErr
          /\ granted' = granted \cup {NewEvent(c, t)}
    BY <1>2, HistoryStep
  <2> DEFINE new == NewEvent(c, t)
             recent == InMinute(KeyOf[t], now)
             before == {f \in granted : f.target = t /\ now - Minute < f.at /\ f.at <= now}
  <2>2. new.at = now /\ new.target = t /\ new.tokens = Tokens[c] /\ new \in Event
    BY LimiterAssumption DEF LimiterAssumption, TypeOK, NewEvent, Event
  <2>3. /\ now \in Nat /\ Minute \in Nat /\ Retention \in Nat /\ Minute <= Retention
        /\ \A e \in granted : e.at \in Nat /\ e.at <= now
        /\ Tpm \in [Target -> Nat] /\ Tokens[c] \in Nat
    BY LimiterAssumption DEF LimiterAssumption, TypeOK, Event, NothingFromTheFuture
  <2>4. before \subseteq recent /\ recent \subseteq events
    BY <2>1, <2>3 DEF MemoryIsComplete, InMinute, Kept
  <2>5. recent \subseteq Event /\ IsFiniteSet(recent)
    <3>1. recent \subseteq Event
      BY <2>4 DEF TypeOK
    <3>2. IsFiniteSet(recent)
      BY <2>4, FS_Subset DEF Finite
    <3>3. QED
      BY <3>1, <3>2
  <2> SUFFICES ASSUME NEW e \in granted', Tpm[e.target] > 0
               PROVE  TokensIn(MinuteOf(e)') <= Tpm[e.target]
    BY DEF TokenBudget
  <2>6. CASE e.target = t /\ e.at = now
    <3> DEFINE window == MinuteOf(e)'
    <3>1. window \subseteq before \cup {new}
      BY <2>1, <2>6 DEF MinuteOf
    <3>2. TokensIn(recent) + Tokens[c] <= Tpm[t]
      <4>1. ~TokensFull(t, Tokens[c], now)
        BY <2>1 DEF Grant, Ready
      <4>2. TokensIn(recent) \in Nat
        BY <2>5, TokensAreNatural
      <4>3. QED
        BY <2>3, <2>6, <4>1, <4>2 DEF TokensFull
    <3> HIDE DEF window, recent, before, new
    <3>3. /\ TokensIn(window \ {new}) \in Nat /\ TokensIn(recent) \in Nat
          /\ TokensIn(window \ {new}) <= TokensIn(recent)
      <4>1. window \ {new} \subseteq recent
        BY <2>4, <3>1
      <4>2. QED
        BY <2>5, <4>1, TokensGrow
    <3>4. TokensIn(window) <= TokensIn(recent) + Tokens[c]
      <4>1. CASE new \in window
        <5>1. window \subseteq recent \cup {new} /\ window \subseteq Event
          BY <2>2, <2>4, <2>5, <3>1
        <5>2. IsFiniteSet(window)
          BY <2>5, <5>1, AtMostOneMore
        <5>3. TokensIn(window) = new.tokens + TokensIn(window \ {new})
          BY <4>1, <5>1, <5>2, TokensOfOneMore
        <5>4. QED
          BY <2>2, <2>3, <3>3, <5>3
      <4>2. CASE new \notin window
        <5>1. window \ {new} = window
          BY <4>2
        <5>2. TokensIn(window \ {new}) = TokensIn(window)
          BY <5>1
        <5>3. QED
          BY <2>3, <3>3, <5>2
      <4>3. QED
        BY <4>1, <4>2
    <3>5. TokensIn(window) \in Nat
      <4>1. window \subseteq recent \cup {new} /\ window \subseteq Event
        BY <2>2, <2>4, <2>5, <3>1
      <4>2. IsFiniteSet(window)
        BY <2>5, <4>1, AtMostOneMore
      <4>3. QED
        BY <4>1, <4>2, TokensAreNatural
    <3>6. TokensIn(window) <= Tpm[t]
      BY <2>3, <3>2, <3>3, <3>4, <3>5
    <3>7. QED
      BY <2>6, <3>6 DEF window
  <2>7. CASE ~(e.target = t /\ e.at = now)
    <3>1. e \in granted
      BY <2>1, <2>2, <2>7
    <3>2. MinuteOf(e)' = MinuteOf(e)
      BY <2>1, <2>2, <2>3, <2>7, <3>1 DEF MinuteOf
    <3>3. QED
      BY <3>1, <3>2 DEF TokenBudget
  <2>8. QED
    BY <2>6, <2>7
<1>3. QED
  BY <1>1, <1>2
-----------------------------------------------------------------------------
\* The inductive invariant of the limiter.
THEOREM LimiterSafety == Spec => []LimiterInv
<1>1. Init => LimiterInv
  BY InitEstablishes
<1>2. LimiterInv /\ [Next]_limiterVars => LimiterInv'
  <2> SUFFICES ASSUME LimiterInv, [Next]_limiterVars PROVE LimiterInv'
    OBVIOUS
  <2> USE DEF LimiterInv
  <2>1. TypeOK' /\ Finite'
    BY TypePreserved, FinitePreserved
  <2>2. NothingFromTheFuture' /\ StoreIsComplete' /\ MemoryIsComplete'
    BY HistoryPreserved
  <2>3. ActiveCountsHolders' /\ ConcurrencyBound'
    BY ActivePreserved, ConcurrencyPreserved
  <2>4. MinuteBudget' /\ TokenBudget' /\ DailyBudget'
    BY MinutePreserved, TokenPreserved, DailyPreserved
  <2>5. QED
    BY <2>1, <2>2, <2>3, <2>4
<1>3. QED
  BY <1>1, <1>2, PTL DEF Spec

\* Every value the limiter keeps stays in its type.
THEOREM LimiterTypes == Spec => []TypeOK
  BY LimiterSafety, PTL DEF LimiterInv

\* usage[key].active (limiter.go) is the number of reservations out on the key.
THEOREM LeasesAreCounted == Spec => []ActiveCountsHolders
  BY LimiterSafety, PTL DEF LimiterInv

\* No target has more calls in flight than its max_concurrency.
THEOREM LeasesAreBounded == Spec => []ConcurrencyBound
  BY LimiterSafety, PTL DEF LimiterInv

\* Memory has every call the windows may count, whatever restarts trimmed.
THEOREM RestartsForgetNothing == Spec => []MemoryIsComplete
  BY LimiterSafety, PTL DEF LimiterInv

\* requests_per_minute holds over every sliding minute and every restart.
THEOREM MinuteBudgetHolds == Spec => []MinuteBudget
  BY LimiterSafety, PTL DEF LimiterInv

\* tokens_per_minute holds over every sliding minute and every restart.
THEOREM TokenBudgetHolds == Spec => []TokenBudget
  BY LimiterSafety, PTL DEF LimiterInv

\* requests_per_day holds on every day and over every restart.
THEOREM DailyBudgetHolds == Spec => []DailyBudget
  BY LimiterSafety, PTL DEF LimiterInv
-----------------------------------------------------------------------------
(* The wait a refused caller is told.                                      *)

\* Naturals below a bound have a greatest one.
LEMMA GreatestBelow ==
  ASSUME NEW S, S \subseteq Nat, S # {}, NEW n \in Nat, \A x \in S : x <= n
  PROVE  \E m \in S : \A x \in S : x <= m
<1> DEFINE gaps == {n - x : x \in S}
<1>1. gaps \subseteq Nat /\ gaps # {}
  <2>1. \A x \in S : n - x \in Nat
    OBVIOUS
  <2>2. PICK x \in S : TRUE
    OBVIOUS
  <2>3. n - x \in gaps
    OBVIOUS
  <2>4. QED
    BY <2>1, <2>3
<1>2. PICK d \in gaps : \A y \in gaps : d <= y
  <2> HIDE DEF gaps
  <2>1. QED
    BY <1>1, MinOfNaturals
<1>3. PICK m \in S : d = n - m
  BY <1>2
<1>4. ASSUME NEW x \in S PROVE x <= m
  <2>1. n - x \in gaps
    OBVIOUS
  <2>2. n - m <= n - x
    BY <1>2, <1>3, <2>1
  <2>3. x \in Nat /\ m \in Nat
    OBVIOUS
  <2> HIDE DEF gaps
  <2>4. QED
    BY <2>2, <2>3
<1>5. QED
  BY <1>4

LEMMA LargerOfTwo ==
  ASSUME NEW a \in Int, NEW b \in Int
  PROVE  Max({a, b}) \in {a, b} /\ Max({a, b}) >= a /\ Max({a, b}) >= b
<1>1. \E x \in {a, b} : \A y \in {a, b} : x >= y
  <2>1. CASE a >= b
    BY <2>1
  <2>2. CASE ~(a >= b)
    BY <2>2
  <2>3. QED
    BY <2>1, <2>2
<1>2. QED
  BY <1>1 DEF Max

\* What a window counts, now and at a later time.
LEMMA WindowsOf ==
  ASSUME TypeOK, Finite, NEW k, NEW x \in Int
  PROVE  /\ InMinute(k, x) \subseteq Event
         /\ IsFiniteSet(InMinute(k, x))
         /\ Cardinality(InMinute(k, x)) \in Nat
         /\ TokensIn(InMinute(k, x)) \in Nat
         /\ \A e \in InMinute(k, x) : e.at \in Nat /\ e.at > x - Minute
         /\ InMinute(k, x) = {e \in events : KeyOf[e.target] = k /\ e.at > x - Minute}
<1>1. /\ Minute \in Nat /\ Retention \in Nat /\ Minute <= Retention
      /\ \A e \in events : e \in Event /\ e.at \in Nat
  BY LimiterAssumption DEF LimiterAssumption, TypeOK, Event
<1>2. InMinute(k, x) = {e \in events : KeyOf[e.target] = k /\ e.at > x - Minute}
  BY <1>1 DEF InMinute, Kept
<1>3. InMinute(k, x) \subseteq events
  BY <1>2
<1>4. InMinute(k, x) \subseteq Event /\ \A e \in InMinute(k, x) : e.at \in Nat /\ e.at > x - Minute
  BY <1>1, <1>2
<1>5. IsFiniteSet(InMinute(k, x))
  BY <1>3, FS_Subset DEF Finite
<1>6. QED
  BY <1>2, <1>4, <1>5, FS_CardinalityType, TokensAreNatural

\* The oldest call of a full window, and the wait named after it.
LEMMA RequestWaitIs ==
  ASSUME TypeOK, Finite, NEW t \in Target, MinuteFull(t, now)
  PROVE  \E e \in InMinute(KeyOf[t], now) :
           /\ \A f \in InMinute(KeyOf[t], now) : e.at <= f.at
           /\ RequestWait(t, now) = e.at + Minute + Headroom - now
<1> DEFINE recent == InMinute(KeyOf[t], now)
           times == {e.at : e \in recent}
<1>1. /\ recent \subseteq Event /\ \A e \in recent : e.at \in Nat
      /\ Rpm[t] \in Nat /\ now \in Int
  BY WindowsOf, LimiterAssumption DEF LimiterAssumption, TypeOK
<1>2. recent # {}
  BY <1>1, FS_EmptySet DEF MinuteFull
<1>3. times \subseteq Nat /\ times # {}
  BY <1>1, <1>2
<1>4. Min(times) \in times /\ \A y \in times : Min(times) <= y
  <2> HIDE DEF times
  <2>1. QED
    BY <1>3, MinOfNaturals
<1>5. RequestWait(t, now) = Min(times) + Minute + Headroom - now
  BY DEF RequestWait
<1>6. PICK e \in recent : e.at = Min(times)
  BY <1>4
<1>7. \A f \in recent : e.at <= f.at
  BY <1>4, <1>6
<1>8. QED
  BY <1>5, <1>6, <1>7

\* The time tokenAvailabilityWait looks for: with the calls from then on the
\* reservation does not fit, with those after it it does, unless nothing helps.
LEMMA TokenWaitIs ==
  ASSUME TypeOK, Finite, NEW t \in Target, NEW n \in Nat, TokensFull(t, n, now)
  PROVE  \E a \in Nat :
           /\ a > now - Minute
           /\ TokenWait(t, n, now) = a + Minute + Headroom - now
           /\ TokensIn({e \in InMinute(KeyOf[t], now) : e.at >= a}) + n > Tpm[t]
           /\ \/ TokensIn({e \in InMinute(KeyOf[t], now) : e.at > a}) + n <= Tpm[t]
              \/ a = now
<1> DEFINE recent == InMinute(KeyOf[t], now)
           times == {e.at : e \in recent}
           after(x) == {e \in recent : e.at > x}
           from(x) == {e \in recent : e.at >= x}
           fits == {x \in times : TokensIn(after(x)) + n <= Tpm[t]}
           a == IF fits = {} THEN now ELSE Min(fits)
<1>1. /\ recent \subseteq Event /\ IsFiniteSet(recent)
      /\ \A e \in recent : e.at \in Nat /\ e.at > now - Minute
      /\ TokensIn(recent) \in Nat
  BY WindowsOf DEF TypeOK
<1>2. /\ now \in Nat /\ Minute \in Nat \ {0} /\ Headroom \in Nat \ {0} /\ Tpm[t] \in Nat
  BY LimiterAssumption DEF LimiterAssumption, TypeOK
<1>3. fits \subseteq times /\ times \subseteq Nat
  BY <1>1
<1>4. fits # {} => Min(fits) \in fits /\ \A y \in fits : Min(fits) <= y
  <2> HIDE DEF fits
  <2>1. fits \subseteq Nat
    BY <1>3
  <2>2. QED
    BY <2>1, MinOfNaturals
<1>5. a \in Nat /\ a > now - Minute
  <2>1. CASE fits = {}
    <3>1. a = now
      BY <2>1
    <3> HIDE DEF a, fits
    <3>2. QED
      BY <1>2, <3>1
  <2>2. CASE fits # {}
    <3>1. Min(fits) \in times
      BY <1>3, <1>4, <2>2
    <3>2. PICK e \in recent : e.at = Min(fits)
      BY <3>1
    <3>3. QED
      BY <1>1, <2>2, <3>2
  <2>3. QED
    BY <2>1, <2>2
<1>6. TokenWait(t, n, now) = a + Minute + Headroom - now
  <2>1. CASE fits = {}
    <3>1. TokenWait(t, n, now) = Minute + Headroom
      BY <2>1 DEF TokenWait
    <3>2. a = now
      BY <2>1
    <3> HIDE DEF a, fits
    <3>3. QED
      BY <1>2, <3>1, <3>2
  <2>2. CASE fits # {}
    BY <2>2 DEF TokenWait
  <2>3. QED
    BY <2>1, <2>2
<1>7. \A x \in times : x < a => TokensIn(after(x)) + n > Tpm[t]
  <2> SUFFICES ASSUME NEW x \in times, x < a PROVE TokensIn(after(x)) + n > Tpm[t]
    OBVIOUS
  <2>1. x \notin fits
    <3> SUFFICES ASSUME x \in fits PROVE FALSE
      OBVIOUS
    <3>1. a = Min(fits) /\ Min(fits) <= x
      BY <1>4
    <3>2. x \in Nat
      BY <1>3
    <3> HIDE DEF fits, times, a
    <3>3. QED
      BY <1>5, <3>1, <3>2
  <2>2. TokensIn(after(x)) \in Nat
    <3>1. after(x) \subseteq recent
      OBVIOUS
    <3> HIDE DEF recent, after
    <3>2. QED
      BY <1>1, <3>1, TokensGrow
  <2>3. ~(TokensIn(after(x)) + n <= Tpm[t])
    BY <2>1
  <2> HIDE DEF after
  <2>4. QED
    BY <1>2, <2>2, <2>3
<1>8. TokensIn(from(a)) + n > Tpm[t]
  <2> DEFINE older == {x \in times : x < a}
  <2>1. CASE older = {}
    <3>1. from(a) = recent
      <4> HIDE DEF a
      <4>1. \A e \in recent : ~(e.at < a)
        BY <2>1
      <4>2. QED
        BY <1>1, <1>5, <4>1
    <3>2. TokensIn(recent) + n > Tpm[t]
      BY <1>1, <1>2 DEF TokensFull
    <3> HIDE DEF from, recent
    <3>3. TokensIn(from(a)) = TokensIn(recent)
      BY <3>1
    <3>4. QED
      BY <3>2, <3>3
  <2>2. CASE older # {}
    <3>1. PICK b \in older : \A x \in older : x <= b
      <4>1. older \subseteq Nat
        BY <1>3
      <4>2. \A x \in older : x <= a
        <5>1. \A x \in older : x \in Nat /\ x < a
          BY <1>3
        <5> HIDE DEF older, a
        <5>2. QED
          BY <1>5, <5>1
      <4> HIDE DEF older, a
      <4>3. QED
        BY <1>5, <2>2, <4>1, <4>2, GreatestBelow
    <3>2. b \in times /\ b < a /\ b \in Nat
      BY <1>3, <3>1
    <3>3. after(b) = from(a)
      <4>1. \A e \in recent : e.at < a => e.at <= b
        BY <3>1
      <4> HIDE DEF a
      <4>2. QED
        BY <1>1, <1>5, <3>2, <4>1
    <3>4. TokensIn(after(b)) + n > Tpm[t]
      BY <1>7, <3>2
    <3> HIDE DEF from, after, a
    <3>5. TokensIn(from(a)) = TokensIn(after(b))
      BY <3>3
    <3>6. QED
      BY <3>4, <3>5
  <2>3. QED
    BY <2>1, <2>2
<1>9. TokensIn(after(a)) + n <= Tpm[t] \/ a = now
  <2>1. CASE fits = {}
    BY <2>1
  <2>2. CASE fits # {}
    <3>1. a = Min(fits) /\ a \in fits
      BY <1>4, <2>2
    <3> HIDE DEF a
    <3>2. QED
      BY <3>1
  <2>3. QED
    BY <2>1, <2>2
<1> HIDE DEF a
<1>10. QED
  BY <1>5, <1>6, <1>8, <1>9

\* Where all a window counts was let through to its target, it holds no more
\* calls than the target may make in a minute.
LEMMA WindowWithinBudget ==
  ASSUME TypeOK, Finite, NothingFromTheFuture, MinuteBudget, NEW t \in Target, Rpm[t] > 0,
         \A e \in InMinute(KeyOf[t], now) : e \in granted /\ e.target = t
  PROVE  Cardinality(InMinute(KeyOf[t], now)) <= Rpm[t]
<1> DEFINE recent == InMinute(KeyOf[t], now)
           times == {e.at : e \in recent}
<1>1. /\ IsFiniteSet(recent) /\ Cardinality(recent) \in Nat
      /\ \A e \in recent : e.at \in Nat /\ e.at > now - Minute
  BY WindowsOf DEF TypeOK
<1>2. now \in Nat /\ Rpm[t] \in Nat /\ Minute \in Nat
  BY LimiterAssumption DEF LimiterAssumption, TypeOK
<1>3. CASE recent = {}
  BY <1>2, <1>3, FS_EmptySet
<1>4. CASE recent # {}
  <2>1. times \subseteq Nat /\ times # {} /\ \A x \in times : x <= now
    BY <1>1, <1>4 DEF NothingFromTheFuture
  <2>2. PICK m \in times : \A x \in times : x <= m
    <3> HIDE DEF times
    <3>1. QED
      BY <1>2, <2>1, GreatestBelow
  <2>3. PICK e \in recent : e.at = m
    BY <2>2
  <2>4. \A f \in recent : f.at <= e.at
    BY <2>2, <2>3
  <2>5. e \in granted /\ e.target = t /\ e.at <= now
    BY DEF NothingFromTheFuture
  <2>6. recent \subseteq MinuteOf(e)
    <3> SUFFICES ASSUME NEW f \in recent PROVE f \in MinuteOf(e)
      OBVIOUS
    <3>1. f \in granted /\ f.target = t /\ f.at <= e.at /\ f.at > now - Minute
      BY <1>1, <2>4
    <3>2. e.at - Minute < f.at
      <4>1. e.at \in Nat /\ f.at \in Nat
        BY <1>1
      <4> HIDE DEF recent
      <4>2. QED
        BY <1>2, <2>5, <3>1, <4>1
    <3>3. QED
      BY <2>5, <3>1, <3>2 DEF MinuteOf
  <2>7. Cardinality(MinuteOf(e)) <= Rpm[t] /\ IsFiniteSet(MinuteOf(e))
    <3>1. IsFiniteSet(MinuteOf(e))
      BY FS_Subset DEF Finite, MinuteOf
    <3>2. QED
      BY <2>5, <3>1 DEF MinuteBudget
  <2>8. Cardinality(recent) <= Cardinality(MinuteOf(e)) /\ Cardinality(MinuteOf(e)) \in Nat
    BY <2>6, <2>7, FS_Subset, FS_CardinalityType
  <2>9. QED
    BY <1>1, <1>2, <2>7, <2>8
<1>5. QED
  BY <1>3, <1>4

\* The window at a time no sooner than the wait's end.
LEMMA OpenAfterWait ==
  ASSUME TypeOK, Finite, NothingFromTheFuture, MinuteBudget,
         NEW t \in Target, NEW n \in Nat, Tpm[t] > 0 => n <= Tpm[t],
         \A e \in InMinute(KeyOf[t], now) : e \in granted /\ e.target = t,
         NEW w \in Nat, w >= RequestWait(t, now), w >= TokenWait(t, n, now)
  PROVE  ~MinuteFull(t, now + w) /\ ~TokensFull(t, n, now + w)
<1> DEFINE recent == InMinute(KeyOf[t], now)
           later == InMinute(KeyOf[t], now + w)
<1>1. /\ now \in Nat /\ Minute \in Nat \ {0} /\ Headroom \in Nat \ {0}
      /\ Rpm[t] \in Nat /\ Tpm[t] \in Nat
  BY LimiterAssumption DEF LimiterAssumption, TypeOK
<1>2. /\ recent \subseteq Event /\ IsFiniteSet(recent) /\ Cardinality(recent) \in Nat
      /\ TokensIn(recent) \in Nat
      /\ \A e \in recent : e.at \in Nat /\ e.at > now - Minute
      /\ recent = {e \in events : KeyOf[e.target] = KeyOf[t] /\ e.at > now - Minute}
  BY <1>1, WindowsOf
<1>3. /\ \A e \in later : e.at \in Nat /\ e.at > now + w - Minute
      /\ later = {e \in events : KeyOf[e.target] = KeyOf[t] /\ e.at > now + w - Minute}
      /\ Cardinality(later) \in Nat /\ TokensIn(later) \in Nat
  BY <1>1, WindowsOf
<1> HIDE DEF recent, later
<1>4. later \subseteq recent
  <2>1. \A e \in later : e \in events /\ KeyOf[e.target] = KeyOf[t] /\ e.at > now - Minute
    BY <1>1, <1>3
  <2>2. QED
    BY <1>2, <2>1
<1>5. ASSUME Rpm[t] > 0 PROVE Cardinality(later) < Rpm[t]
  <2>1. CASE Cardinality(recent) < Rpm[t]
    <3>1. Cardinality(later) <= Cardinality(recent)
      BY <1>2, <1>4, FS_Subset
    <3>2. QED
      BY <1>1, <1>2, <1>3, <2>1, <3>1
  <2>2. CASE ~(Cardinality(recent) < Rpm[t])
    <3>1. MinuteFull(t, now)
      BY <1>1, <1>2, <1>5, <2>2 DEF MinuteFull, recent
    <3>2. PICK e \in recent : RequestWait(t, now) = e.at + Minute + Headroom - now
      BY <3>1, RequestWaitIs DEF recent
    <3>3. e \notin later
      <4>1. e.at \in Nat /\ w >= e.at + Minute + Headroom - now
        BY <1>2, <3>2
      <4>2. ~(e.at > now + w - Minute)
        BY <1>1, <4>1
      <4>3. QED
        BY <1>3, <4>2
    <3>4. later \subseteq recent \ {e}
      BY <1>4, <3>3
    <3>5. IsFiniteSet(recent \ {e}) /\ Cardinality(recent \ {e}) = Cardinality(recent) - 1
      BY <1>2, FS_RemoveElement
    <3>6. Cardinality(later) <= Cardinality(recent \ {e})
      BY <3>4, <3>5, FS_Subset
    <3>7. Cardinality(recent) <= Rpm[t]
      BY <1>5, WindowWithinBudget DEF recent
    <3>8. QED
      BY <1>1, <1>2, <1>3, <3>5, <3>6, <3>7
  <2>3. QED
    BY <2>1, <2>2
<1>6. ASSUME Tpm[t] > 0 PROVE TokensIn(later) + n <= Tpm[t]
  <2>1. CASE TokensIn(recent) + n <= Tpm[t]
    <3>1. TokensIn(later) <= TokensIn(recent)
      BY <1>2, <1>4, TokensGrow
    <3>2. QED
      BY <1>1, <1>2, <1>3, <2>1, <3>1
  <2>2. CASE ~(TokensIn(recent) + n <= Tpm[t])
    <3> DEFINE after(x) == {e \in recent : e.at > x}
    <3>1. TokensFull(t, n, now)
      BY <1>1, <1>2, <1>6, <2>2 DEF TokensFull, recent
    <3>2. PICK a \in Nat : /\ TokenWait(t, n, now) = a + Minute + Headroom - now
                           /\ TokensIn(after(a)) + n <= Tpm[t] \/ a = now
      BY <3>1, TokenWaitIs DEF recent
    <3>3. later \subseteq after(a)
      <4> SUFFICES ASSUME NEW e \in later PROVE e.at > a
        BY <1>4
      <4>1. e.at \in Nat /\ e.at > now + w - Minute
        BY <1>3
      <4>2. w >= a + Minute + Headroom - now
        BY <3>2
      <4>3. QED
        BY <1>1, <4>1, <4>2
    <3>4. TokensIn(after(a)) + n <= Tpm[t]
      <4>1. CASE a = now
        <5>1. \A e \in recent : e.at \in Nat /\ e.at <= now
          BY <1>2 DEF NothingFromTheFuture, recent
        <5>2. after(a) = {}
          BY <1>1, <4>1, <5>1
        <5> HIDE DEF after
        <5>3. TokensIn(after(a)) = 0
          BY <5>2, TokensOfNone
        <5>4. QED
          BY <1>1, <1>6, <5>3
      <4>2. QED
        BY <3>2, <4>1
    <3>5. after(a) \subseteq recent
      OBVIOUS
    <3> HIDE DEF after
    <3>6. TokensIn(later) <= TokensIn(after(a)) /\ TokensIn(after(a)) \in Nat
      <4>1. IsFiniteSet(after(a)) /\ after(a) \subseteq Event
        BY <1>2, <3>5, FS_Subset
      <4>2. QED
        BY <3>3, <4>1, TokensGrow
    <3>7. QED
      BY <1>1, <1>3, <3>4, <3>6
  <2>3. QED
    BY <2>1, <2>2
<1>7. ~MinuteFull(t, now + w)
  <2>1. ~(Rpm[t] > 0 /\ Cardinality(later) >= Rpm[t])
    BY <1>1, <1>3, <1>5
  <2>2. QED
    BY <2>1 DEF MinuteFull, later
<1>8. ~TokensFull(t, n, now + w)
  <2>1. ~(Tpm[t] > 0 /\ TokensIn(later) + n > Tpm[t])
    BY <1>1, <1>3, <1>6
  <2>2. QED
    BY <2>1 DEF TokensFull, later
<1>9. QED
  BY <1>7, <1>8

\* A window that began no later than a wait's end less the margin is as shut.
LEMMA ShutBeforeMargin ==
  ASSUME TypeOK, Finite, NEW t \in Target, NEW n \in Nat, NEW a \in Nat, a > now - Minute
  PROVE  /\ {e \in InMinute(KeyOf[t], now) : e.at >= a} \subseteq InMinute(KeyOf[t], a + Minute - 1)
<1>1. now \in Nat /\ Minute \in Nat
  BY LimiterAssumption DEF LimiterAssumption, TypeOK
<1>2. InMinute(KeyOf[t], a + Minute - 1) =
        {e \in events : KeyOf[e.target] = KeyOf[t] /\ e.at > a + Minute - 1 - Minute}
  BY <1>1, WindowsOf
<1>3. /\ InMinute(KeyOf[t], now) = {e \in events : KeyOf[e.target] = KeyOf[t] /\ e.at > now - Minute}
      /\ \A e \in InMinute(KeyOf[t], now) : e.at \in Nat
  BY <1>1, WindowsOf
<1>4. ASSUME NEW e \in InMinute(KeyOf[t], now), e.at >= a PROVE e.at > a + Minute - 1 - Minute
  BY <1>1, <1>3, <1>4
<1>5. QED
  BY <1>2, <1>3, <1>4

LEMMA ShutByRequests ==
  ASSUME TypeOK, Finite, NEW t \in Target, MinuteFull(t, now)
  PROVE  /\ RequestWait(t, now) \in Int /\ RequestWait(t, now) > 0
         /\ MinuteFull(t, now + RequestWait(t, now) - Headroom - 1)
<1>1. PICK e \in InMinute(KeyOf[t], now) :
           /\ \A f \in InMinute(KeyOf[t], now) : e.at <= f.at
           /\ RequestWait(t, now) = e.at + Minute + Headroom - now
  BY RequestWaitIs
<1>2. /\ now \in Nat /\ Minute \in Nat \ {0} /\ Headroom \in Nat \ {0} /\ Rpm[t] \in Nat
  BY LimiterAssumption DEF LimiterAssumption, TypeOK
<1>3. /\ IsFiniteSet(InMinute(KeyOf[t], now)) /\ Cardinality(InMinute(KeyOf[t], now)) \in Nat
      /\ \A f \in InMinute(KeyOf[t], now) : f.at \in Nat /\ f.at > now - Minute
  BY <1>2, WindowsOf
<1> DEFINE y == e.at + Minute - 1
<1>4. e.at \in Nat /\ e.at > now - Minute
  BY <1>3
<1>5. y \in Int /\ now + RequestWait(t, now) - Headroom - 1 = y
  BY <1>1, <1>2, <1>4
<1>6. InMinute(KeyOf[t], now) \subseteq InMinute(KeyOf[t], y)
  <2>1. {f \in InMinute(KeyOf[t], now) : f.at >= e.at} \subseteq InMinute(KeyOf[t], y)
    BY <1>4, ShutBeforeMargin
  <2>2. \A f \in InMinute(KeyOf[t], now) : f.at >= e.at
    BY <1>1, <1>3, <1>4
  <2>3. QED
    BY <2>1, <2>2
<1> HIDE DEF y
<1>7. IsFiniteSet(InMinute(KeyOf[t], y)) /\ Cardinality(InMinute(KeyOf[t], y)) \in Nat
  BY <1>5, WindowsOf
<1>8. Cardinality(InMinute(KeyOf[t], now)) <= Cardinality(InMinute(KeyOf[t], y))
  BY <1>6, <1>7, FS_Subset
<1>9. MinuteFull(t, y)
  BY <1>2, <1>3, <1>7, <1>8 DEF MinuteFull
<1>10. QED
  BY <1>1, <1>2, <1>4, <1>5, <1>9

LEMMA ShutByTokens ==
  ASSUME TypeOK, Finite, NEW t \in Target, NEW n \in Nat, TokensFull(t, n, now)
  PROVE  /\ TokenWait(t, n, now) \in Int /\ TokenWait(t, n, now) > 0
         /\ TokensFull(t, n, now + TokenWait(t, n, now) - Headroom - 1)
<1>1. PICK a \in Nat :
           /\ a > now - Minute
           /\ TokenWait(t, n, now) = a + Minute + Headroom - now
           /\ TokensIn({e \in InMinute(KeyOf[t], now) : e.at >= a}) + n > Tpm[t]
  BY TokenWaitIs
<1>2. /\ now \in Nat /\ Minute \in Nat \ {0} /\ Headroom \in Nat \ {0} /\ Tpm[t] \in Nat
  BY LimiterAssumption DEF LimiterAssumption, TypeOK
<1> DEFINE y == a + Minute - 1
           from == {e \in InMinute(KeyOf[t], now) : e.at >= a}
<1>3. y \in Int /\ now + TokenWait(t, n, now) - Headroom - 1 = y
  BY <1>1, <1>2
<1>4. from \subseteq InMinute(KeyOf[t], y)
  BY <1>1, ShutBeforeMargin
<1>5. TokensIn(from) + n > Tpm[t]
  BY <1>1
<1> HIDE DEF y, from
<1>6. /\ IsFiniteSet(InMinute(KeyOf[t], y)) /\ InMinute(KeyOf[t], y) \subseteq Event
      /\ TokensIn(InMinute(KeyOf[t], y)) \in Nat
  BY <1>3, WindowsOf
<1>7. TokensIn(from) \in Nat /\ TokensIn(from) <= TokensIn(InMinute(KeyOf[t], y))
  BY <1>4, <1>6, TokensGrow
<1>8. TokensFull(t, n, y)
  <2>1. Tpm[t] > 0
    BY DEF TokensFull
  <2>2. TokensIn(InMinute(KeyOf[t], y)) + n > Tpm[t]
    BY <1>2, <1>5, <1>6, <1>7
  <2>3. QED
    BY <2>1, <2>2 DEF TokensFull
<1>9. QED
  BY <1>1, <1>2, <1>3, <1>8

LEMMA WaitsFollow == LimiterInv => WaitIsRight
<1> SUFFICES ASSUME TypeOK, Finite, NothingFromTheFuture, MinuteBudget,
                    NEW t \in Target, NEW c \in Caller,
                    ~Cooling(t, now), ~Busy(t), ~DaySpent(t, now),
                    MinuteFull(t, now) \/ TokensFull(t, Tokens[c], now)
             PROVE  LET n == Tokens[c]
                        w == Wait(t, n, now)
                        y == now + w - Headroom - 1
                    IN  /\ w > 0
                        /\ MinuteFull(t, y) \/ TokensFull(t, n, y)
                        /\ /\ \A e \in InMinute(KeyOf[t], now) : e \in granted /\ e.target = t
                           /\ Tpm[t] > 0 => n <= Tpm[t]
                           => ~MinuteFull(t, now + w) /\ ~TokensFull(t, n, now + w)
  BY DEF LimiterInv, WaitIsRight
<1> DEFINE n == Tokens[c]
           rw == RequestWait(t, now)
           tw == TokenWait(t, n, now)
           w == Wait(t, n, now)
<1>1. n \in Nat /\ now \in Nat
  BY LimiterAssumption DEF LimiterAssumption, TypeOK
<1>2. w = Max({rw, tw})
  BY DEF Wait
<1> HIDE DEF n, w
<1>3. MinuteFull(t, now) => rw \in Int /\ rw > 0 /\ MinuteFull(t, now + rw - Headroom - 1)
  BY ShutByRequests
<1>4. ~MinuteFull(t, now) => rw = 0
  BY DEF RequestWait
<1>5. TokensFull(t, n, now) => tw \in Int /\ tw > 0 /\ TokensFull(t, n, now + tw - Headroom - 1)
  BY <1>1, ShutByTokens
<1>6. ~TokensFull(t, n, now) => tw = 0
  BY DEF TokenWait
<1>7. MinuteFull(t, now) \/ TokensFull(t, n, now)
  BY DEF n
<1> HIDE DEF rw, tw
<1>8. rw \in Int /\ tw \in Int
  BY <1>3, <1>4, <1>5, <1>6
<1>9. w \in {rw, tw} /\ w >= rw /\ w >= tw
  BY <1>2, <1>8, LargerOfTwo
<1>10. w \in Nat /\ w > 0
  BY <1>3, <1>5, <1>7, <1>8, <1>9
<1>11. MinuteFull(t, now + w - Headroom - 1) \/ TokensFull(t, n, now + w - Headroom - 1)
  BY <1>3, <1>4, <1>5, <1>6, <1>9, <1>10
<1>12. ASSUME \A e \in InMinute(KeyOf[t], now) : e \in granted /\ e.target = t,
              Tpm[t] > 0 => n <= Tpm[t]
       PROVE  ~MinuteFull(t, now + w) /\ ~TokensFull(t, n, now + w)
  BY <1>1, <1>9, <1>10, <1>12, OpenAfterWait DEF rw, tw
<1>13. QED
  BY <1>10, <1>11, <1>12 DEF n, w

\* The wait reserve names ends no sooner than it must, and when it ends the
\* minute windows are open.
THEOREM WaitsAreRight == Spec => []WaitIsRight
  BY LimiterSafety, WaitsFollow, PTL
-----------------------------------------------------------------------------
(* targetsFor, for lists of any length.                                    *)

\* What is assumed of a list of targets.
IsList(ts, prio) ==
  /\ ts \in Seq(DOMAIN prio)
  /\ \A t \in DOMAIN prio : prio[t] \in Nat

IsSorted(ts, prio) ==
  \A i, j \in DOMAIN ts : i < j => prio[ts[i]] <= prio[ts[j]]

\* The place Rotated takes position i's target from.
Source(ts, prio, shift, i) ==
  LET tier  == Tier(ts, prio, i)
      first == Min(tier)
  IN  first + ((i - first + shift) % Cardinality(tier))

\* A tier starts at its least position and fits into the list from there.
LEMMA TierFacts ==
  ASSUME NEW ts, NEW prio, IsList(ts, prio), NEW i \in DOMAIN ts
  PROVE  LET tier == Tier(ts, prio, i)
         IN  /\ tier \subseteq DOMAIN ts /\ i \in tier
             /\ IsFiniteSet(tier) /\ Cardinality(tier) \in Nat \ {0}
             /\ Min(tier) \in tier /\ \A j \in tier : Min(tier) <= j
             /\ Min(tier) + Cardinality(tier) <= Len(ts) + 1
<1> DEFINE tier == Tier(ts, prio, i)
<1>1. DOMAIN ts = 1..Len(ts) /\ Len(ts) \in Nat
  BY DEF IsList
<1>2. tier \subseteq DOMAIN ts /\ i \in tier
  BY DEF Tier
<1> HIDE DEF tier
<1>3. Min(tier) \in tier /\ \A j \in tier : Min(tier) <= j
  BY <1>1, <1>2, MinOfNaturals
<1>4. PICK m \in 1..Len(ts) : m = Min(tier)
  BY <1>1, <1>2, <1>3
<1>5. tier \in SUBSET (m..Len(ts))
  BY <1>1, <1>2, <1>3, <1>4
<1>6. IsFiniteSet(m..Len(ts)) /\ Cardinality(m..Len(ts)) = Len(ts) - m + 1
  BY <1>1, <1>4, FS_Interval
<1>7. IsFiniteSet(tier) /\ Cardinality(tier) <= Len(ts) - m + 1
  BY <1>5, <1>6, FS_Subset
<1>8. Cardinality(tier) \in Nat /\ Cardinality(tier) # 0
  BY <1>2, <1>7, FS_CardinalityType, FS_EmptySet
<1>9. QED
  BY <1>1, <1>2, <1>3, <1>4, <1>7, <1>8 DEF tier

\* Rotated takes every target from a place of the list.
LEMMA SourceInList ==
  ASSUME NEW ts, NEW prio, IsList(ts, prio),
         NEW shift \in Nat, NEW i \in DOMAIN ts
  PROVE  Source(ts, prio, shift, i) \in DOMAIN ts
<1> DEFINE tier == Tier(ts, prio, i)
<1>1. /\ tier \subseteq DOMAIN ts
      /\ Cardinality(tier) \in Nat \ {0}
      /\ Min(tier) \in tier
      /\ Min(tier) + Cardinality(tier) <= Len(ts) + 1
  BY TierFacts
<1>2. DOMAIN ts = 1..Len(ts) /\ Len(ts) \in Nat
  BY DEF IsList
<1> DEFINE first == Min(tier)  size == Cardinality(tier)  k == (i - first + shift) % size
<1>3. Source(ts, prio, shift, i) = first + k
  BY DEF Source
<1> HIDE DEF tier
<1>4. i \in Int /\ first \in Int /\ first >= 1 /\ size \in Nat \ {0} /\ first + size <= Len(ts) + 1
  BY <1>1, <1>2
<1> HIDE DEF first, size
<1>5. k \in 0..(size - 1)
  BY <1>4
<1>6. QED
  BY <1>2, <1>3, <1>4, <1>5

\* The targets tried are targets of the profile.
LEMMA RotatedType ==
  ASSUME NEW ts, NEW prio, IsList(ts, prio), NEW shift \in Nat
  PROVE  Rotated(ts, prio, shift) \in Seq(DOMAIN prio)
<1>1. Rotated(ts, prio, shift) = [i \in DOMAIN ts |-> ts[Source(ts, prio, shift, i)]]
  BY DEF Rotated, Source
<1>2. /\ DOMAIN ts = 1..Len(ts) /\ Len(ts) \in Nat
      /\ \A i \in DOMAIN ts : ts[i] \in DOMAIN prio
  BY DEF IsList
<1>3. \A i \in DOMAIN ts : ts[Source(ts, prio, shift, i)] \in DOMAIN prio
  BY <1>2, SourceInList
<1>4. QED
  BY <1>1, <1>2, <1>3

\* In a sorted list a tier is an interval, so the rotation stays in it.
LEMMA SourceInTier ==
  ASSUME NEW ts, NEW prio, IsList(ts, prio), IsSorted(ts, prio),
         NEW shift \in Nat, NEW i \in DOMAIN ts
  PROVE  Source(ts, prio, shift, i) \in Tier(ts, prio, i)
<1> DEFINE tier == Tier(ts, prio, i)
           first == Min(tier)
           s == Source(ts, prio, shift, i)
<1>1. /\ tier \subseteq DOMAIN ts /\ i \in tier
      /\ IsFiniteSet(tier) /\ Cardinality(tier) \in Nat \ {0}
      /\ first \in tier /\ \A j \in tier : first <= j
  BY TierFacts
<1>2. s \in DOMAIN ts
  BY SourceInList
<1>3. DOMAIN ts = 1..Len(ts) /\ Len(ts) \in Nat
  BY DEF IsList
<1>4. s \in tier
  <2>1. s >= first /\ s < first + Cardinality(tier)
    <3>1. PICK m \in Nat : m = first
      BY <1>1, <1>3
    <3>2. PICK z \in Nat \ {0} : z = Cardinality(tier)
      BY <1>1
    <3>3. s = m + ((i - m + shift) % z)
      BY <3>1, <3>2 DEF Source
    <3>4. (i - m + shift) \in Int
      BY <1>3
    <3>5. ((i - m + shift) % z) \in 0..(z - 1)
      BY <3>4
    <3>6. QED
      BY <3>1, <3>2, <3>3, <3>5
  <2>2. SUFFICES ASSUME s \notin tier PROVE FALSE
    OBVIOUS
  <2>3. ASSUME NEW j \in tier PROVE j < s
    <3>1. SUFFICES ASSUME j >= s PROVE FALSE
      BY <1>1, <1>2, <1>3
    <3>2. first < s /\ s < j
      BY <1>1, <1>2, <1>3, <2>1, <2>2, <3>1
    <3>3. prio[ts[first]] <= prio[ts[s]] /\ prio[ts[s]] <= prio[ts[j]]
      BY <1>1, <1>2, <3>2 DEF IsSorted
    <3>4. prio[ts[first]] = prio[ts[i]] /\ prio[ts[j]] = prio[ts[i]]
      BY <1>1 DEF Tier
    <3>5. \A x \in DOMAIN ts : prio[ts[x]] \in Nat
      BY <1>3 DEF IsList
    <3>6. prio[ts[s]] = prio[ts[i]]
      BY <1>1, <1>2, <3>3, <3>4, <3>5
    <3>7. QED
      BY <1>2, <2>2, <3>6 DEF Tier
  <2>4. tier \in SUBSET (first..(s - 1))
    BY <1>1, <1>2, <1>3, <2>3
  <2>5. first \in Int /\ s \in Int
    BY <1>1, <1>2, <1>3
  <2>6. IsFiniteSet(first..(s - 1)) /\ Cardinality(first..(s - 1)) = IF first > s - 1 THEN 0 ELSE s - 1 - first + 1
    <3> HIDE DEF first, s
    <3>1. QED
      BY <2>5, FS_Interval
  <2>7. Cardinality(tier) <= Cardinality(first..(s - 1))
    BY <2>4, <2>6, FS_Subset
  <2>8. QED
    BY <1>1, <2>1, <2>5, <2>6, <2>7
<1>5. QED
  BY <1>4

\* A sorted list keeps its tiers whatever it is rotated by: a target is only
\* ever tried in the place of one of its own priority.
THEOREM TiersAreKept ==
  ASSUME NEW ts, NEW prio, IsList(ts, prio), IsSorted(ts, prio),
         NEW roundRobin \in BOOLEAN, NEW shift \in Nat, NEW i \in DOMAIN ts
  PROVE  prio[TargetsFor(ts, prio, roundRobin, shift)[i]] = prio[ts[i]]
<1> DEFINE s == Source(ts, prio, shift, i)
<1>1. prio[ts[s]] = prio[ts[i]]
  BY SourceInTier DEF Tier
<1>2. Rotated(ts, prio, shift)[i] = ts[s]
  BY DEF Rotated, Source
<1>3. QED
  BY <1>1, <1>2 DEF TargetsFor

\* Numbers less than n apart that leave the same remainder are equal.
LEMMA SameRemainder ==
  ASSUME NEW n \in Nat \ {0}, NEW a \in Int, NEW b \in Int,
         a % n = b % n, a - b < n, b - a < n
  PROVE  a = b
<1>1. PICK p \in Int, r \in Int : a = n * p + r /\ r = a % n
  <2>1. a = n * (a \div n) + (a % n) /\ a \div n \in Int /\ a % n \in Int
    OBVIOUS
  <2>2. QED
    BY <2>1
<1>2. PICK q \in Int, t \in Int : b = n * q + t /\ t = b % n
  <2>1. b = n * (b \div n) + (b % n) /\ b \div n \in Int /\ b % n \in Int
    OBVIOUS
  <2>2. QED
    BY <2>1
<1>3. r = t
  BY <1>1, <1>2
<1>4. p = q
  <2>1. a - b = n * (p - q)
    BY <1>1, <1>2, <1>3
  <2>2. ASSUME p - q >= 1 PROVE FALSE
    <3>1. n * (p - q) >= n
      BY <2>2
    <3>2. QED
      BY <2>1, <3>1
  <2>3. ASSUME q - p >= 1 PROVE FALSE
    <3>1. n * (p - q) <= -n
      BY <2>3
    <3>2. QED
      BY <2>1, <3>1
  <2>4. QED
    BY <2>2, <2>3
<1>5. QED
  BY <1>1, <1>2, <1>3, <1>4

\* Two places of a list are not served from one.
LEMMA SourceInjective ==
  ASSUME NEW ts, NEW prio, IsList(ts, prio), IsSorted(ts, prio),
         NEW shift \in Nat, NEW i \in DOMAIN ts, NEW j \in DOMAIN ts,
         Source(ts, prio, shift, i) = Source(ts, prio, shift, j)
  PROVE  i = j
<1> DEFINE tier == Tier(ts, prio, i)
<1>1. tier = Tier(ts, prio, j)
  <2>1. Source(ts, prio, shift, i) \in tier \cap Tier(ts, prio, j)
    BY SourceInTier
  <2>2. prio[ts[i]] = prio[ts[j]]
    BY <2>1 DEF Tier
  <2>3. QED
    BY <2>2 DEF Tier
<1>2. DOMAIN ts = 1..Len(ts) /\ Len(ts) \in Nat
  BY DEF IsList
<1>3. /\ tier \subseteq DOMAIN ts /\ i \in tier /\ j \in tier
      /\ IsFiniteSet(tier) /\ Cardinality(tier) \in Nat \ {0}
      /\ Min(tier) \in tier /\ \A x \in tier : Min(tier) <= x
  BY <1>1, TierFacts
<1>4. PICK m \in Nat, z \in Nat \ {0} : m = Min(tier) /\ z = Cardinality(tier)
  BY <1>2, <1>3
\* All of the tier lies within its size, as its rotations do.
<1>5. \A x \in tier : x < m + z
  <2> SUFFICES ASSUME NEW x \in tier, x >= m + z PROVE FALSE
    BY <1>2, <1>3
  <2>1. m..x \subseteq tier
    <3> SUFFICES ASSUME NEW y \in m..x PROVE y \in tier
      OBVIOUS
    <3>1. y \in DOMAIN ts
      BY <1>2, <1>3, <1>4
    <3>2. prio[ts[m]] = prio[ts[i]] /\ prio[ts[x]] = prio[ts[i]]
      BY <1>3, <1>4 DEF Tier
    <3>3. m \in DOMAIN ts /\ x \in DOMAIN ts
      BY <1>3, <1>4
    <3>4. prio[ts[m]] <= prio[ts[y]] /\ prio[ts[y]] <= prio[ts[x]]
      <4>1. \A v \in DOMAIN ts : prio[ts[v]] \in Nat
        BY <1>2 DEF IsList
      <4>2. y = m \/ m < y
        BY <1>2, <3>3
      <4>3. y = x \/ y < x
        BY <1>2, <3>3
      <4>4. QED
        BY <3>1, <3>3, <4>1, <4>2, <4>3 DEF IsSorted
    <3>5. \A v \in DOMAIN ts : prio[ts[v]] \in Nat
      BY <1>2 DEF IsList
    <3>6. prio[ts[y]] = prio[ts[i]]
      BY <3>1, <3>2, <3>3, <3>4, <3>5
    <3>7. QED
      BY <3>1, <3>6 DEF Tier
  <2>2. m \in Int /\ x \in Int
    BY <1>2, <1>3, <1>4
  <2>3. Cardinality(m..x) = x - m + 1
    BY <1>4, <2>2, FS_Interval
  <2>4. Cardinality(m..x) <= z
    BY <1>3, <1>4, <2>1, FS_Subset
  <2>5. QED
    BY <1>4, <2>2, <2>3, <2>4
<1>6. i \in Int /\ j \in Int /\ m <= i /\ i < m + z /\ m <= j /\ j < m + z
  BY <1>2, <1>3, <1>4, <1>5
<1>7. (i - m + shift) % z = (j - m + shift) % z
  <2>1. m + ((i - m + shift) % z) = m + ((j - m + shift) % z)
    BY <1>1, <1>4 DEF Source
  <2>2. (i - m + shift) % z \in Int /\ (j - m + shift) % z \in Int
    BY <1>4, <1>6
  <2>3. QED
    BY <1>4, <2>1, <2>2
<1>8. i - m + shift = j - m + shift
  <2>1. i - m + shift \in Int /\ j - m + shift \in Int
    BY <1>4, <1>6
  <2>2. (i - m + shift) - (j - m + shift) < z /\ (j - m + shift) - (i - m + shift) < z
    BY <1>4, <1>6
  <2>3. QED
    BY <1>4, <1>7, <2>1, <2>2, SameRemainder
<1>9. QED
  BY <1>4, <1>6, <1>8

\* A rotation has exactly the targets of the list.
THEOREM NoTargetIsLost ==
  ASSUME NEW ts, NEW prio, IsList(ts, prio), IsSorted(ts, prio),
         NEW shift \in Nat
  PROVE  /\ \A i \in DOMAIN ts :
              \E j \in DOMAIN ts : Rotated(ts, prio, shift)[i] = ts[j]
         /\ \A j \in DOMAIN ts :
              \E i \in DOMAIN ts : Rotated(ts, prio, shift)[i] = ts[j]
<1> DEFINE D == DOMAIN ts
           f == [i \in D |-> Source(ts, prio, shift, i)]
           order == Rotated(ts, prio, shift)
<1>1. f \in Injection(D, D)
  <2>1. f \in [D -> D]
    BY SourceInList
  <2>2. \A i, j \in D : f[i] = f[j] => i = j
    BY SourceInjective
  <2>3. QED
    BY <2>1, <2>2, Fun_IsInj
<1>2. IsFiniteSet(D)
  <2>1. D = 1..Len(ts) /\ Len(ts) \in Int
    BY DEF IsList
  <2>2. QED
    BY <2>1, FS_Interval
<1>3. f \in Surjection(D, D)
  <2> HIDE DEF f, D
  <2>1. QED
    BY <1>1, <1>2, FS_Injection
<1>4. \A j \in D : \E i \in D : f[i] = j
  <2> HIDE DEF f, D
  <2>1. QED
    BY <1>3 DEF Surjection
<1>5. order = [i \in D |-> ts[f[i]]]
  BY DEF Rotated, Source
<1>6. QED
  <2>1. \A i \in D : f[i] \in D
    BY SourceInList
  <2>2. \A i \in D : order[i] = ts[f[i]]
    BY <1>5
  <2> HIDE DEF f, order
  <2>3. /\ \A i \in D : \E j \in D : order[i] = ts[j]
        /\ \A j \in D : \E i \in D : order[i] = ts[j]
    BY <1>4, <2>1, <2>2
  <2>4. QED
    BY <2>3 DEF order
-----------------------------------------------------------------------------
(* A round-robin profile, after any number of requests.                    *)

SortedList ==
  /\ priority \in [Listed -> Level]
  /\ list \in Seq(Listed)
  /\ IsSorted(list, priority)
  /\ offset \in Nat

\* The list stays as NormalizeExecutionProfiles left it.
LEMMA ListStaysSorted == RotationSpec => []SortedList
<1> USE RotationAssumption
<1>1. RotationInit => SortedList
  <2> SUFFICES ASSUME RotationInit PROVE SortedList
    OBVIOUS
  <2>1. Cardinality(Listed) \in Nat
    BY FS_CardinalityType
  <2>2. PICK n \in 2..Cardinality(Listed) : list \in [1..n -> Listed]
    BY DEF RotationInit
  <2>3. n \in Nat /\ list \in Seq(Listed)
    BY <2>1, <2>2
  <2>4. QED
    BY <2>3 DEF RotationInit, SortedList, IsSorted
<1>2. SortedList /\ [Serve]_rotationVars => SortedList'
  <2> SUFFICES ASSUME SortedList, [Serve]_rotationVars PROVE SortedList'
    OBVIOUS
  <2>1. list' = list /\ priority' = priority /\ offset' \in {offset, offset + 1}
    BY DEF Serve, rotationVars
  <2>2. QED
    BY <2>1 DEF SortedList, IsSorted
<1>3. QED
  BY <1>1, <1>2, PTL DEF RotationSpec

LEMMA SortedListIsList == SortedList => IsList(list, priority)
BY RotationAssumption DEF SortedList, IsList

\* Round robin never lets a target of a lower tier before one of a higher.
THEOREM TiersKeptAlways == RotationSpec => []TiersKept
<1>1. SortedList => TiersKept
  <2> SUFFICES ASSUME SortedList, NEW i \in DOMAIN list
               PROVE  priority[Order[i]] = priority[list[i]]
    BY DEF TiersKept
  <2>1. IsList(list, priority) /\ IsSorted(list, priority) /\ offset \in Nat
    BY SortedListIsList DEF SortedList
  <2>2. QED
    BY <2>1, TiersAreKept DEF Order
<1>2. QED
  BY <1>1, ListStaysSorted, PTL

\* Round robin never leaves a target out, so every one is a fallback.
THEOREM EveryTargetInOrderAlways == RotationSpec => []EveryTargetInOrder
<1>1. SortedList => EveryTargetInOrder
  <2> SUFFICES ASSUME SortedList PROVE EveryTargetInOrder
    OBVIOUS
  <2>1. IsList(list, priority) /\ IsSorted(list, priority) /\ offset \in Nat
    BY SortedListIsList DEF SortedList
  <2>2. /\ \A i \in DOMAIN list : \E j \in DOMAIN list : Order[i] = list[j]
        /\ \A j \in DOMAIN list : \E i \in DOMAIN list : Order[i] = list[j]
    BY <2>1, NoTargetIsLost DEF Order, TargetsFor
  <2> HIDE DEF Order
  <2>3. QED
    BY <2>2 DEF EveryTargetInOrder
<1>2. QED
  BY <1>1, ListStaysSorted, PTL

\* The targets of the best tier of a sorted list are its first ones.
LEMMA BestComesFirst ==
  ASSUME NEW ts, NEW prio, IsList(ts, prio), IsSorted(ts, prio), NEW i \in Tier(ts, prio, 1)
  PROVE  i \in 1..Cardinality(Tier(ts, prio, 1))
<1> DEFINE tier == Tier(ts, prio, 1)
<1>1. DOMAIN ts = 1..Len(ts) /\ Len(ts) \in Nat
  BY DEF IsList
<1>2. i \in DOMAIN ts /\ 1 \in DOMAIN ts /\ prio[ts[i]] = prio[ts[1]]
  BY <1>1 DEF Tier
<1>3. IsFiniteSet(tier) /\ Cardinality(tier) \in Nat
  BY <1>2, TierFacts
<1>4. 1..i \subseteq tier
  <2> SUFFICES ASSUME NEW j \in 1..i PROVE j \in tier
    OBVIOUS
  <2>1. j \in DOMAIN ts
    BY <1>1, <1>2
  <2>2. \A x \in DOMAIN ts : prio[ts[x]] \in Nat
    BY <1>1 DEF IsList
  <2>3. prio[ts[1]] <= prio[ts[j]] /\ prio[ts[j]] <= prio[ts[i]]
    BY <1>1, <1>2, <2>1, <2>2 DEF IsSorted
  <2>4. prio[ts[j]] = prio[ts[1]]
    BY <1>2, <2>1, <2>2, <2>3
  <2>5. QED
    BY <2>1, <2>4 DEF Tier
<1>5. i \in Nat /\ i >= 1
  BY <1>1, <1>2
<1>6. Cardinality(1..i) = i
  BY <1>5, FS_Interval
<1>7. Cardinality(1..i) <= Cardinality(tier)
  BY <1>3, <1>4, FS_Subset
<1>8. QED
  BY <1>3, <1>5, <1>6, <1>7

\* Counting on by one: the remainder grows, or wraps and the quotient grows.
LEMMA CountOn ==
  ASSUME NEW m \in Nat \ {0}, NEW n \in Nat
  PROVE  /\ n \div m \in Nat /\ n % m \in 0..(m - 1)
         /\ (n + 1) \div m \in Nat /\ (n + 1) % m \in 0..(m - 1)
         /\ IF (n % m) + 1 < m
            THEN (n + 1) \div m = n \div m /\ (n + 1) % m = (n % m) + 1
            ELSE (n + 1) \div m = n \div m + 1 /\ (n + 1) % m = 0
<1> DEFINE q == n \div m
           r == n % m
           p == (n + 1) \div m
           s == (n + 1) % m
<1>1. q \in Nat /\ r \in 0..(m - 1) /\ n = m * q + r
  OBVIOUS
<1>2. p \in Nat /\ s \in 0..(m - 1) /\ n + 1 = m * p + s
  OBVIOUS
<1> HIDE DEF q, r, p, s
<1>3. m * p + s = m * q + r + 1
  BY <1>1, <1>2
<1>4. m * p - m * q = m * (p - q)
  BY <1>1, <1>2
<1>5. m * (p - q) = r + 1 - s
  <2>1. m * p \in Int /\ m * q \in Int
    BY <1>1, <1>2
  <2>2. QED
    BY <1>1, <1>2, <1>3, <1>4, <2>1
<1>6. PICK d \in Int : d = p - q
  BY <1>1, <1>2
<1>7. m * d = r + 1 - s
  BY <1>5, <1>6
<1>8. d \in {0, 1}
  <2>1. r + 1 - s <= m /\ r + 1 - s > 0 - m
    BY <1>1, <1>2
  <2>2. d < 2
    <3> SUFFICES ASSUME d >= 2 PROVE FALSE
      BY <1>6
    <3>1. m * d >= m * 2
      BY <1>6
    <3>2. QED
      BY <1>7, <2>1, <3>1
  <2>3. d > -1
    <3> SUFFICES ASSUME d <= -1 PROVE FALSE
      BY <1>6
    <3>1. m * d <= m * (-1)
      BY <1>6
    <3>2. QED
      BY <1>7, <2>1, <3>1
  <2>4. QED
    BY <1>6, <2>2, <2>3
<1>9. CASE d = 0
  <2>1. s = r + 1 /\ p = q
    BY <1>1, <1>2, <1>6, <1>7, <1>9
  <2>2. QED
    BY <1>1, <1>2, <2>1 DEF q, r, p, s
<1>10. CASE d = 1
  <2>1. s = r + 1 - m /\ p = q + 1
    BY <1>1, <1>2, <1>6, <1>7, <1>10
  <2>2. ~(r + 1 < m) /\ s = 0
    BY <1>1, <1>2, <2>1
  <2>3. QED
    BY <1>1, <1>2, <2>1, <2>2 DEF q, r, p, s
<1>11. QED
  BY <1>8, <1>9, <1>10

\* How often each target of the best tier was served after offset requests.
Best == Tier(list, priority, 1)

AllOn == \A i \in Best : list[i] \notin disabled

Share(i, n) == n \div Cardinality(Best) + (IF i <= n % Cardinality(Best) THEN 1 ELSE 0)

FairInv ==
  /\ SortedList
  /\ Len(list) >= 2
  /\ \A i, j \in DOMAIN list : list[i] = list[j] => i = j
  /\ served \in [Listed -> Nat]
  /\ AllOn => \A i \in Best : served[list[i]] = Share(i, offset)

LEMMA BestFacts ==
  ASSUME FairInv
  PROVE  /\ Cardinality(Best) \in Nat \ {0}
         /\ \A i \in Best : i \in DOMAIN list /\ i \in 1..Cardinality(Best)
         /\ 1 \in DOMAIN list /\ DOMAIN list = 1..Len(list) /\ Len(list) \in Nat
         /\ Source(list, priority, offset, 1) \in Best
         /\ Source(list, priority, offset, 1) = 1 + (offset % Cardinality(Best))
         /\ Order[1] = list[Source(list, priority, offset, 1)]
         /\ IsList(list, priority)
<1>1. IsList(list, priority) /\ IsSorted(list, priority) /\ offset \in Nat
  BY SortedListIsList DEF FairInv, SortedList
<1>2. DOMAIN list = 1..Len(list) /\ Len(list) \in Nat /\ 1 \in DOMAIN list
  BY DEF FairInv, SortedList
<1>3. /\ Best \subseteq DOMAIN list /\ 1 \in Best /\ Cardinality(Best) \in Nat \ {0}
      /\ Min(Best) \in Best /\ \A j \in Best : Min(Best) <= j
  BY <1>1, <1>2, TierFacts DEF Best
<1>4. \A i \in Best : i \in 1..Cardinality(Best)
  BY <1>1, BestComesFirst DEF Best
<1>5. Min(Best) = 1
  BY <1>2, <1>3
<1>6. Source(list, priority, offset, 1) = 1 + ((1 - 1 + offset) % Cardinality(Best))
  BY <1>5 DEF Source, Best
<1>7. 1 - 1 + offset = offset
  BY <1>1
<1>8. Source(list, priority, offset, 1) \in Best
  BY <1>1, <1>2, SourceInTier DEF Best
<1>9. Order[1] = list[Source(list, priority, offset, 1)]
  BY <1>2 DEF FairInv, Order, TargetsFor, Rotated, Source
<1>10. QED
  BY <1>1, <1>2, <1>3, <1>4, <1>6, <1>7, <1>8, <1>9

\* While the best tier is on, the next of it in turn serves.
LEMMA NextServes ==
  ASSUME FairInv, Serve, AllOn
  PROVE  /\ offset' = offset + 1
         /\ \A i \in Best : served'[list[i]] = IF i = 1 + (offset % Cardinality(Best))
                                               THEN served[list[i]] + 1 ELSE served[list[i]]
<1> DEFINE s == 1 + (offset % Cardinality(Best))
<1>1. s \in Best /\ Order[1] = list[s] /\ 1 \in DOMAIN list
  BY BestFacts
<1>2. DOMAIN Order = DOMAIN list /\ DOMAIN list = 1..Len(list) /\ Len(list) \in Nat
  BY BestFacts DEF Order, TargetsFor, Rotated
<1> HIDE DEF s
<1>3. Order[1] \notin disabled
  BY <1>1 DEF AllOn
<1>4. Serving = {1}
  <2>1. 1 \in Serving
    BY <1>1, <1>2, <1>3 DEF Serving
  <2>2. ASSUME NEW i \in Serving PROVE i = 1
    <3>1. i \in 1..Len(list) /\ \A j \in 1..(i - 1) : Order[j] \in disabled
      BY <1>2 DEF Serving
    <3>2. QED
      BY <1>2, <1>3, <3>1
  <2>3. QED
    BY <2>1, <2>2
<1>5. {Order[i] : i \in Serving} = {list[s]}
  BY <1>1, <1>4
<1>6. served' = [t \in Listed |-> IF t \in {list[s]} THEN served[t] + 1 ELSE served[t]]
  BY <1>5 DEF Serve
<1>7. \A i \in Best : list[i] \in Listed /\ (list[i] = list[s] <=> i = s)
  BY <1>1, <1>2, BestFacts DEF FairInv, SortedList
<1>8. offset' = offset + 1
  BY DEF Serve, CountsRotation, FairInv
<1>9. QED
  BY <1>6, <1>7, <1>8 DEF s

\* Targets of the best tier take turns: no two are ever more than one request
\* apart (targetsFor, limiter.go), for every list, however many tie.
THEOREM RotationIsFair == RotationSpec => []FairWhenAllOn
<1>1. RotationInit /\ SortedList => FairInv
  <2> SUFFICES ASSUME RotationInit, SortedList PROVE FairInv
    OBVIOUS
  <2>1. Cardinality(Listed) \in Nat
    BY RotationAssumption, FS_CardinalityType DEF RotationAssumption
  <2>2. PICK n \in 2..Cardinality(Listed) : list \in [1..n -> Listed]
    BY DEF RotationInit
  <2>3. n \in Nat /\ n >= 2 /\ DOMAIN list = 1..n /\ Len(list) = n
    BY <2>1, <2>2
  <2>4. \A i, j \in DOMAIN list : list[i] = list[j] => i = j
    BY <2>3 DEF RotationInit
  <2>5. served \in [Listed -> Nat] /\ offset = 0
    BY DEF RotationInit
  <2>6. ASSUME NEW i \in Best PROVE served[list[i]] = Share(i, offset)
    <3>1. IsList(list, priority) /\ IsSorted(list, priority)
      BY SortedListIsList DEF SortedList
    <3>2. 1 \in DOMAIN list /\ i \in DOMAIN list
      BY <2>3, <2>6 DEF Best, Tier
    <3>3. Cardinality(Best) \in Nat \ {0}
      BY <3>1, <3>2, TierFacts DEF Best
    <3>4. 0 \div Cardinality(Best) = 0 /\ 0 % Cardinality(Best) = 0
      BY <3>3
    <3>5. ~(i <= 0)
      BY <2>3, <3>2
    <3>6. served[list[i]] = 0
      BY <2>3, <3>2 DEF RotationInit, SortedList
    <3>7. QED
      BY <2>5, <3>4, <3>5, <3>6 DEF Share
  <2>7. QED
    BY <2>3, <2>4, <2>5, <2>6 DEF FairInv
<1>2. FairInv /\ [Serve]_rotationVars /\ SortedList' => FairInv'
  <2> SUFFICES ASSUME FairInv, [Serve]_rotationVars, SortedList' PROVE FairInv'
    OBVIOUS
  <2>1. CASE UNCHANGED rotationVars
    BY <2>1 DEF rotationVars, FairInv, SortedList, Best, AllOn, Share
  <2>2. CASE Serve
    <3>1. list' = list /\ priority' = priority /\ disabled' = disabled
      BY <2>2 DEF Serve
    <3>2. Best' = Best /\ AllOn' = AllOn
      BY <3>1 DEF Best, AllOn
    <3>3. served' \in [Listed -> Nat]
      BY <2>2 DEF Serve, FairInv
    <3>4. ASSUME AllOn, NEW i \in Best PROVE served'[list[i]] = Share(i, offset + 1)
      <4> DEFINE m == Cardinality(Best)
      <4>1. m \in Nat \ {0} /\ i \in 1..m /\ offset \in Nat
        BY <3>4, BestFacts DEF FairInv, SortedList
      <4>2. served[list[i]] = Share(i, offset)
        BY <3>4 DEF FairInv
      <4>3. served'[list[i]] = IF i = 1 + (offset % m) THEN served[list[i]] + 1 ELSE served[list[i]]
        BY <2>2, <3>4, NextServes
      <4> HIDE DEF m
      <4>4. /\ offset \div m \in Nat /\ offset % m \in 0..(m - 1)
            /\ IF (offset % m) + 1 < m
               THEN (offset + 1) \div m = offset \div m /\ (offset + 1) % m = (offset % m) + 1
               ELSE (offset + 1) \div m = offset \div m + 1 /\ (offset + 1) % m = 0
        BY <4>1, CountOn
      <4> DEFINE q == offset \div m
                 r == offset % m
      <4>5. Share(i, offset) = q + (IF i <= r THEN 1 ELSE 0)
        BY DEF Share, m
      <4>6. Share(i, offset + 1) = (offset + 1) \div m + (IF i <= (offset + 1) % m THEN 1 ELSE 0)
        BY DEF Share, m
      <4>7. q \in Nat /\ r \in 0..(m - 1)
        BY <4>4
      <4>8. CASE r + 1 < m
        <5>1. Share(i, offset + 1) = q + (IF i <= r + 1 THEN 1 ELSE 0)
          BY <4>4, <4>6, <4>8
        <5> HIDE DEF q, r
        <5>2. QED
          BY <4>1, <4>2, <4>3, <4>5, <4>7, <5>1 DEF r
      <4>9. CASE ~(r + 1 < m)
        <5>1. Share(i, offset + 1) = q + 1 + (IF i <= 0 THEN 1 ELSE 0)
          BY <4>4, <4>6, <4>9
        <5>2. served'[list[i]] = IF i = 1 + r THEN Share(i, offset) + 1 ELSE Share(i, offset)
          BY <4>2, <4>3
        <5> HIDE DEF q, r
        <5>3. r = m - 1
          BY <4>1, <4>7, <4>9
        <5>4. QED
          BY <4>1, <4>5, <4>7, <5>1, <5>2, <5>3
      <4>10. QED
        BY <4>8, <4>9
    <3>5. AllOn => offset' = offset + 1
      BY <2>2, NextServes
    <3>6. AllOn' => \A i \in Best' : served'[list'[i]] = Share(i, offset)'
      <4> SUFFICES ASSUME AllOn, NEW i \in Best PROVE served'[list[i]] = Share(i, offset)'
        BY <3>1, <3>2
      <4>1. Share(i, offset)' = Share(i, offset + 1)
        BY <3>2, <3>5 DEF Share
      <4>2. QED
        BY <3>4, <4>1
    <3>7. QED
      BY <3>1, <3>3, <3>6 DEF FairInv
  <2>3. QED
    BY <2>1, <2>2
<1>3. FairInv => FairWhenAllOn
  <2> SUFFICES ASSUME FairInv,
                      {list[i] : i \in {j \in DOMAIN list : priority[list[j]] = priority[list[1]]}}
                        \cap disabled = {},
                      NEW i \in Best, NEW j \in Best
               PROVE  served[list[i]] - served[list[j]] \in -1..1
    BY DEF FairWhenAllOn, Best, Tier
  <2>1. AllOn
    BY DEF AllOn, Best, Tier
  <2>2. served[list[i]] = Share(i, offset) /\ served[list[j]] = Share(j, offset)
    BY <2>1 DEF FairInv
  <2>3. offset \div Cardinality(Best) \in Nat
    BY BestFacts, CountOn DEF FairInv, SortedList
  <2>4. /\ Share(i, offset) \in {offset \div Cardinality(Best), offset \div Cardinality(Best) + 1}
        /\ Share(j, offset) \in {offset \div Cardinality(Best), offset \div Cardinality(Best) + 1}
    BY <2>3 DEF Share
  <2>5. QED
    BY <2>2, <2>3, <2>4
<1>4. QED
  BY <1>1, <1>2, <1>3, ListStaysSorted, PTL DEF RotationSpec
-----------------------------------------------------------------------------
(* Service.Execute.                                                        *)

\* Every request goes by settings that were in force when it began.
SettingsInv ==
  /\ epoch \in 0..MaxUpdates
  /\ runtime \in [Caller -> 0..MaxUpdates]
  /\ \A r \in Caller : runtime[r] <= epoch
  /\ profiles \in [0..MaxUpdates -> [Profile -> Config]]

LEMMA ConfigFacts ==
  ASSUME SettingsInv, NEW g \in 0..MaxUpdates, NEW p \in Profile
  PROVE  profiles[g][p].slots \in Nat /\ profiles[g][p].targets \in Seq(Target)
<1>1. profiles[g][p] \in Config
  BY DEF SettingsInv
<1>2. QED
  BY <1>1 DEF Config

LEMMA InitSettings == ExecInit => SettingsInv
BY ExecutionAssumption DEF ExecutionAssumption, ExecInit, SettingsInv

LEMMA StepKeepsSettings == SettingsInv /\ [ExecNext]_execVars => SettingsInv'
<1> SUFFICES ASSUME SettingsInv, [ExecNext]_execVars PROVE SettingsInv'
  OBVIOUS
<1>1. UNCHANGED <<epoch, profiles, runtime>> => SettingsInv'
  BY DEF SettingsInv
<1>2. ASSUME NEW r \in Caller, Start(r) PROVE SettingsInv'
  BY <1>2 DEF Start, SettingsInv
<1>3. ASSUME NEW s \in Settings, UpdateProfiles(s) PROVE SettingsInv'
  <2>1. s \in [Profile -> Config]
    BY ExecutionAssumption DEF ExecutionAssumption
  <2>2. epoch' \in 0..MaxUpdates /\ epoch' = epoch + 1 /\ UNCHANGED runtime
    BY <1>3, ExecutionAssumption DEF ExecutionAssumption, UpdateProfiles, SettingsInv
  <2>3. profiles' \in [0..MaxUpdates -> [Profile -> Config]]
    BY <1>3, <2>1 DEF UpdateProfiles, SettingsInv
  <2>4. \A r \in Caller : runtime'[r] <= epoch'
    BY <2>2 DEF SettingsInv
  <2>5. QED
    BY <2>2, <2>3, <2>4 DEF SettingsInv
<1>4. ASSUME NEW r \in Caller, Acquire(r) \/ Work(r) \/ Disconnect(r) PROVE UNCHANGED <<epoch, profiles, runtime>>
  BY <1>4 DEF Acquire, Work, Disconnect, SkipDisabled, NoProvider, Refused, Dispatch, ReserveFails, Succeed, Fail,
              CoolDown, GiveUp, Sleep, Wake, AlarmRings, Rescan, GiveUpWaiting, Finish, Continue
<1>5. CASE Crash \/ Advance \/ UNCHANGED execVars
  BY <1>1, <1>5 DEF Crash, Advance, execVars, controlVars
<1>6. QED
  BY <1>1, <1>2, <1>3, <1>4, <1>5 DEF ExecNext

\* Where a request can be in its pass over its targets.
Placed ==
  /\ pc \in [Caller -> {"idle", "queued", "scan", "call", "cool", "wait", "done"}]
  /\ targets \in [Caller -> Seq(Target)]
  /\ pos \in [Caller -> Nat \ {0}]
  /\ rotation \in [Profile -> Nat]
  /\ \A r \in Caller : pc[r] \in {"call", "cool"} => pos[r] <= Len(targets[r])
  /\ holds \in [Caller -> Target \cup {NoTarget}]
  /\ LeasesMatchCalls

\* A request at a target is at one of its profile's.
LEMMA HereIsTarget ==
  ASSUME Placed, NEW r \in Caller, AtTarget(r) \/ pc[r] \in {"call", "cool"}
  PROVE  Here(r) \in Target
<1>1. targets[r] \in Seq(Target) /\ pos[r] \in 1..Len(targets[r])
  BY DEF Placed, AtTarget
<1>2. QED
  BY <1>1 DEF Here

\* What a step of Execute is to the limiter.
LEMMA StepRefines == Placed /\ [ExecNext]_execVars => [Next]_limiterVars
<1> SUFFICES ASSUME Placed, [ExecNext]_execVars PROVE [Next]_limiterVars
  OBVIOUS
<1>1. ASSUME NEW r \in Caller, Start(r) \/ Acquire(r) \/ Disconnect(r) PROVE UNCHANGED limiterVars
  BY <1>1 DEF Start, Acquire, Disconnect, limiterVars
<1>2. ASSUME NEW r \in Caller, Work(r) PROVE [Next]_limiterVars
  <2>1. CASE \/ SkipDisabled(r) \/ NoProvider(r) \/ GiveUp(r) \/ Sleep(r)
             \/ Wake(r) \/ AlarmRings(r) \/ GiveUpWaiting(r)
    BY <2>1 DEF SkipDisabled, NoProvider, GiveUp, Sleep, Wake, AlarmRings, Rescan, GiveUpWaiting, limiterVars
  <2>2. CASE Refused(r) \/ Dispatch(r) \/ ReserveFails(r)
    <3>1. Here(r) \in Target
      BY <2>2, HereIsTarget DEF Refused, Dispatch, ReserveFails, Reserving
    <3>2. QED
      BY <2>2, <3>1 DEF Refused, Dispatch, ReserveFails, Next
  <2>3. CASE Succeed(r) \/ Fail(r)
    BY <2>3 DEF Succeed, Fail, Next
  <2>4. CASE CoolDown(r)
    <3>1. Here(r) \in Target
      BY <2>4, HereIsTarget DEF CoolDown
    <3>2. QED
      BY <2>4, <3>1 DEF CoolDown, Next
  <2>5. QED
    BY <1>2, <2>1, <2>2, <2>3, <2>4 DEF Work
<1>3. ASSUME NEW s \in Settings, UpdateProfiles(s) PROVE UNCHANGED limiterVars
  BY <1>3 DEF UpdateProfiles, limiterVars
<1>4. CASE Crash
  BY <1>4 DEF Crash, Next
<1>5. CASE Advance
  BY <1>5 DEF Advance, Next
<1>6. CASE UNCHANGED execVars
  BY <1>6 DEF execVars
<1>7. QED
  BY <1>1, <1>2, <1>3, <1>4, <1>5, <1>6 DEF ExecNext

\* Forgetting a finished request keeps the others where they are.
LEMMA FinishKeepsPlace ==
  ASSUME Placed, NEW r \in Caller, NEW what, Finish(r, what),
         holds' = [holds EXCEPT ![r] = NoTarget]
  PROVE  Placed'
<1>1. /\ pc' = [pc EXCEPT ![r] = "done"]
      /\ targets' = [q \in Caller |-> IF q \in {r} THEN <<>> ELSE targets[q]]
      /\ pos' = [q \in Caller |-> IF q \in {r} THEN 1 ELSE pos[q]]
      /\ rotation' = rotation
  BY DEF Finish, Forget
<1>2. <<>> \in Seq(Target)
  OBVIOUS
<1>3. QED
  BY <1>1, <1>2 DEF Placed, LeasesMatchCalls, Here

\* Going on within a pass: to the next target, or to the call and its cooldown.
LEMMA ContinueKeepsPlace ==
  ASSUME Placed, NEW r \in Caller, NEW where \in {"scan", "call", "cool"}, Continue(r, where),
         where # "scan" => pos[r] <= Len(targets[r]),
         holds' = [holds EXCEPT ![r] = IF where = "call" THEN Here(r) ELSE NoTarget],
         where = "call" => Here(r) \in Target
  PROVE  Placed'
<1>1. /\ pc' = [pc EXCEPT ![r] = where]
      /\ targets' = targets /\ rotation' = rotation
      /\ pos' = IF where = "scan" THEN [pos EXCEPT ![r] = @ + 1] ELSE pos
  BY DEF Continue
<1>2. pos' \in [Caller -> Nat \ {0}]
  BY <1>1 DEF Placed
<1>3. \A q \in Caller \ {r} : pc'[q] = pc[q] /\ pos'[q] = pos[q] /\ holds'[q] = holds[q] /\ Here(q)' = Here(q)
  BY <1>1 DEF Placed, Here
<1>4. where # "scan" => pos'[r] = pos[r] /\ Here(r)' = Here(r)
  BY <1>1 DEF Here
<1>5. pc'[r] = where /\ holds'[r] = (IF where = "call" THEN Here(r) ELSE NoTarget)
  BY <1>1 DEF Placed
<1>6. \A q \in Caller : pc'[q] \in {"call", "cool"} => pos'[q] <= Len(targets'[q])
  BY <1>1, <1>3, <1>4, <1>5 DEF Placed
<1>7. LeasesMatchCalls'
  <2> SUFFICES ASSUME NEW q \in Caller
               PROVE  IF pc'[q] = "call" THEN holds'[q] = Here(q)' ELSE holds'[q] = NoTarget
    BY DEF LeasesMatchCalls
  <2>1. CASE q = r
    BY <1>4, <1>5, <2>1
  <2>2. CASE q # r
    BY <1>3, <2>2 DEF Placed, LeasesMatchCalls
  <2>3. QED
    BY <2>1, <2>2
<1>8. QED
  BY <1>1, <1>2, <1>6, <1>7 DEF Placed

LEMMA NothingHeld ==
  ASSUME Placed, NEW r \in Caller, pc[r] # "call", holds' = holds
  PROVE  holds' = [holds EXCEPT ![r] = NoTarget]
BY DEF Placed, LeasesMatchCalls

\* A request works and keeps its place.
LEMMA WorkKeepsPlace == ASSUME Placed, NEW r \in Caller, Work(r) PROVE Placed'
<1>1. CASE SkipDisabled(r) \/ NoProvider(r) \/ Refused(r)
  <2>1. Continue(r, "scan") /\ pc[r] = "scan" /\ holds' = holds
    BY <1>1 DEF SkipDisabled, NoProvider, Refused, Reserving, AtTarget, Refuse, limiterVars
  <2>2. QED
    BY <2>1, NothingHeld, ContinueKeepsPlace
<1>2. CASE Dispatch(r)
  <2>1. Continue(r, "call") /\ AtTarget(r) /\ holds' = [holds EXCEPT ![r] = Here(r)]
    BY <1>2 DEF Dispatch, Reserving, Grant
  <2>2. Here(r) \in Target
    BY <2>1, HereIsTarget
  <2>3. QED
    BY <2>1, <2>2, ContinueKeepsPlace DEF AtTarget
<1>3. CASE ReserveFails(r)
  <2>1. Finish(r, "usageError") /\ pc[r] = "scan" /\ holds' = holds
    BY <1>3 DEF ReserveFails, Reserving, AtTarget, PersistFails, limiterVars
  <2>2. QED
    BY <2>1, NothingHeld, FinishKeepsPlace
<1>4. CASE Succeed(r)
  <2>1. Finish(r, "ok") /\ holds' = [holds EXCEPT ![r] = NoTarget]
    BY <1>4 DEF Succeed, Release
  <2>2. QED
    BY <2>1, FinishKeepsPlace
<1>5. CASE Fail(r)
  <2>1. pc[r] = "call" /\ holds' = [holds EXCEPT ![r] = NoTarget]
    BY <1>5 DEF Fail, Release
  <2>2. pos[r] <= Len(targets[r])
    BY <2>1 DEF Placed
  <2>3. Continue(r, "scan") \/ Continue(r, "cool")
    BY <1>5 DEF Fail
  <2>4. QED
    BY <2>1, <2>2, <2>3, ContinueKeepsPlace
<1>6. CASE CoolDown(r)
  <2>1. Continue(r, "scan") /\ pc[r] = "cool" /\ holds' = holds
    BY <1>6 DEF CoolDown, SetCooldown
  <2>2. QED
    BY <2>1, NothingHeld, ContinueKeepsPlace
<1>7. CASE GiveUp(r)
  <2>1. pc[r] = "scan" /\ holds' = holds /\ \E what : Finish(r, what)
    BY <1>7 DEF GiveUp, PassOver, limiterVars
  <2>2. QED
    BY <2>1, NothingHeld, FinishKeepsPlace
<1>8. CASE Sleep(r)
  <2>1. pc[r] = "scan" /\ pc' = [pc EXCEPT ![r] = "wait"]
    BY <1>8 DEF Sleep, PassOver
  <2>2. UNCHANGED <<holds, targets, pos, rotation>>
    BY <1>8 DEF Sleep, limiterVars
  <2>3. QED
    BY <2>1, <2>2 DEF Placed, LeasesMatchCalls, Here
<1>9. CASE Wake(r) \/ AlarmRings(r)
  <2>1. pc[r] = "wait" /\ pc' = [pc EXCEPT ![r] = "scan"] /\ pos' = [pos EXCEPT ![r] = 1]
    BY <1>9 DEF Wake, AlarmRings, Rescan
  <2>2. UNCHANGED <<holds, targets, rotation>>
    BY <1>9 DEF Wake, AlarmRings, Rescan, limiterVars
  <2>3. QED
    BY <2>1, <2>2 DEF Placed, LeasesMatchCalls, Here
<1>10. CASE GiveUpWaiting(r)
  <2>1. holds' = holds
    BY <1>10 DEF GiveUpWaiting, limiterVars
  <2>2. CASE pc[r] = "wait" /\ Finish(r, "context")
    BY <2>1, <2>2, NothingHeld, FinishKeepsPlace
  <2>3. CASE pc[r] = "queued" /\ pc' = [pc EXCEPT ![r] = "done"] /\ Forget({r}) /\ rotation' = rotation
    <3>1. /\ targets' = [q \in Caller |-> IF q \in {r} THEN <<>> ELSE targets[q]]
          /\ pos' = [q \in Caller |-> IF q \in {r} THEN 1 ELSE pos[q]]
      BY <2>3 DEF Forget
    <3>2. <<>> \in Seq(Target)
      OBVIOUS
    <3>3. QED
      BY <2>1, <2>3, <3>1, <3>2 DEF Placed, LeasesMatchCalls, Here
  <2>4. QED
    BY <1>10, <2>2, <2>3 DEF GiveUpWaiting
<1>11. QED
  BY <1>1, <1>2, <1>3, <1>4, <1>5, <1>6, <1>7, <1>8, <1>9, <1>10 DEF Work

LEMMA InitPlaced == ExecInit => Placed
<1> SUFFICES ASSUME ExecInit PROVE Placed
  OBVIOUS
<1>1. <<>> \in Seq(Target)
  OBVIOUS
<1>2. QED
  BY <1>1 DEF ExecInit, Init, Placed, LeasesMatchCalls

LEMMA StepKeepsPlace == SettingsInv /\ Placed /\ [ExecNext]_execVars => Placed'
<1> SUFFICES ASSUME SettingsInv, Placed, [ExecNext]_execVars PROVE Placed'
  OBVIOUS
<1>1. ASSUME NEW r \in Caller, Start(r) PROVE Placed'
  <2>1. UNCHANGED <<holds, targets, pos, rotation>>
    BY <1>1 DEF Start, limiterVars
  <2>2. pc[r] = "idle" /\ pc' \in {[pc EXCEPT ![r] = "queued"], [pc EXCEPT ![r] = "done"]}
    BY <1>1 DEF Start
  <2>3. QED
    BY <2>1, <2>2 DEF Placed, LeasesMatchCalls, Here
<1>2. ASSUME NEW r \in Caller, Acquire(r) PROVE Placed'
  <2> DEFINE p == ProfileOf[r]
             configured == ConfigOf(r).targets
             order == TargetsFor(configured, Priority, ConfigOf(r).rotates, rotation[p])
  <2>1. /\ pc[r] = "queued" /\ pc' = [pc EXCEPT ![r] = "scan"]
        /\ targets' = [targets EXCEPT ![r] = order]
        /\ rotation' = rotation \/ rotation' = [rotation EXCEPT ![p] = @ + 1]
    BY <1>2 DEF Acquire
  <2>2. pos' = pos /\ holds' = holds
    BY <1>2 DEF Acquire, limiterVars
  <2>3. p \in Profile /\ configured \in Seq(Target) /\ DOMAIN Priority = Target
    BY ConfigFacts, ExecutionAssumption DEF ExecutionAssumption, SettingsInv, ConfigOf
  <2>4. order \in Seq(Target)
    <3> HIDE DEF configured
    <3>1. rotation[p] \in Nat /\ IsList(configured, Priority)
      BY <2>3, ExecutionAssumption DEF ExecutionAssumption, Placed, IsList
    <3>2. Rotated(configured, Priority, rotation[p]) \in Seq(Target)
      BY <2>3, <3>1, RotatedType
    <3>3. QED
      BY <2>3, <3>2 DEF TargetsFor
  <2>5. rotation' \in [Profile -> Nat]
    <3>1. p \in Profile /\ rotation \in [Profile -> Nat]
      BY <2>3 DEF Placed
    <3> HIDE DEF order, configured, p
    <3>2. QED
      BY <2>1, <3>1
  <2> HIDE DEF order, configured
  <2>6. QED
    BY <2>1, <2>2, <2>4, <2>5 DEF Placed, LeasesMatchCalls, Here
<1>3. ASSUME NEW r \in Caller, Work(r) PROVE Placed'
  BY <1>3, WorkKeepsPlace
<1>4. ASSUME NEW r \in Caller, Disconnect(r) PROVE Placed'
  BY <1>4 DEF Disconnect, limiterVars, Placed, LeasesMatchCalls, Here
<1>5. ASSUME NEW s \in Settings, UpdateProfiles(s) PROVE Placed'
  BY <1>5 DEF UpdateProfiles, limiterVars, Placed, LeasesMatchCalls, Here
<1>6. CASE Crash
  <2> DEFINE R == {r \in Caller : pc[r] \notin {"idle", "done"}}
  <2>1. /\ pc' = [r \in Caller |-> IF pc[r] \in {"idle", "done"} THEN pc[r] ELSE "done"]
        /\ targets' = [r \in Caller |-> IF r \in R THEN <<>> ELSE targets[r]]
        /\ pos' = [r \in Caller |-> IF r \in R THEN 1 ELSE pos[r]]
        /\ rotation' = [p \in Profile |-> 0]
        /\ holds' = [r \in Caller |-> NoTarget]
    BY <1>6 DEF Crash, Forget, Restart, LoadExecutionUsage
  <2>2. <<>> \in Seq(Target)
    OBVIOUS
  <2>3. QED
    BY <2>1, <2>2 DEF Placed, LeasesMatchCalls
<1>7. CASE Advance
  BY <1>7 DEF Advance, Tick, controlVars, Placed, LeasesMatchCalls, Here
<1>8. CASE UNCHANGED execVars
  BY <1>8 DEF execVars, controlVars, limiterVars, Placed, LeasesMatchCalls, Here
<1>9. QED
  BY <1>1, <1>2, <1>3, <1>4, <1>5, <1>6, <1>7, <1>8 DEF ExecNext

LEMMA AlwaysPlaced == ExecSpec => [](SettingsInv /\ Placed)
BY InitSettings, StepKeepsSettings, InitPlaced, StepKeepsPlace, PTL DEF ExecSpec

\* Every reservation, release, cooldown and restart of Execute is one of
\* Limiter's, by the way Execute is written.
LEMMA ExecutionImplementsLimiter == ExecSpec => Spec
<1>1. ExecInit => Init
  BY DEF ExecInit
<1>2. QED
  BY <1>1, StepRefines, AlwaysPlaced, PTL DEF ExecSpec, Spec

\* No path out of tryTargets keeps a lease, or gives back one it has not.
THEOREM LeasesAlwaysMatchCalls == ExecSpec => []LeasesMatchCalls
<1>1. Placed => LeasesMatchCalls
  BY DEF Placed
<1>2. QED
  BY <1>1, AlwaysPlaced, PTL

\* The calls Execute makes stay within max_concurrency and the budgets.
THEOREM ExecutionStaysInBudget ==
  ExecSpec => [](ConcurrencyBound /\ MinuteBudget /\ TokenBudget /\ DailyBudget)
BY ExecutionImplementsLimiter, LeasesAreBounded, MinuteBudgetHolds, TokenBudgetHolds,
   DailyBudgetHolds, PTL
-----------------------------------------------------------------------------
\* The numbers given so far tell a new call from every earlier one.
Numbered == \A e \in granted : e.id < nextId

LEMMA StaysNumbered == TypeOK /\ Numbered /\ [Next]_limiterVars => Numbered'
<1> SUFFICES ASSUME TypeOK, Numbered, [Next]_limiterVars PROVE Numbered'
  OBVIOUS
<1>1. nextId \in Nat /\ \A e \in granted : e.id \in Nat
  BY DEF TypeOK, Event
<1>2. nextId' \in {nextId, nextId + 1}
  BY DEF Next, Refuse, Grant, PersistFails, Release, SetCooldown, Tick, Restart, LoadExecutionUsage, limiterVars
<1>3. CASE granted' = granted
  BY <1>1, <1>2, <1>3 DEF Numbered
<1>4. CASE granted' # granted
  <2>1. PICK c \in Caller, t \in Target :
          Grant(c, t) /\ HasRateLimit(t) /\ granted' = granted \cup {NewEvent(c, t)}
    BY <1>4, HistoryStep
  <2>2. nextId' = nextId + 1 /\ NewEvent(c, t).id = nextId
    BY <2>1 DEF Grant, NewEvent
  <2>3. QED
    BY <1>1, <2>1, <2>2 DEF Numbered
<1>5. QED
  BY <1>3, <1>4

LEMMA CallsAreLeases == Placed => Calls = holds
BY DEF Placed, LeasesMatchCalls, Calls

LEMMA CallsStayLeases == Placed' => Calls' = holds'
BY DEF Placed, LeasesMatchCalls, Calls, Here

LEMMA SameTokens == ASSUME NEW S PROVE Admitted!TokensOf(S) = TokensIn(S)
<1>1. Admitted!TokensOf(S) = TableOf(S)[S]
  BY Zenon DEF Admitted!TokensOf, Admitted!MapThenSumSet, Admitted!MapThenFoldSet, TableOf, IsTable, AnyOf
<1>2. QED
  BY <1>1, TokensAreTable

LEMMA SameSize == ASSUME NEW S PROVE Admitted!Cardinality(S) = Cardinality(S)
BY Zenon DEF Admitted!Cardinality, Cardinality

\* The calls of the whole history in a window are among those the limiter has
\* in memory, so what it lets through the gate lets through.
LEMMA BudgetIsLeft ==
  ASSUME LimiterInv, NEW c \in Caller, NEW t \in Target, Grant(c, t), HasRateLimit(t)
  PROVE  Admitted!HasBudget(t, Tokens[c])
<1> DEFINE recent == InMinute(KeyOf[t], now)
           today == OnDay(KeyOf[t], now)
           minute == Admitted!LastMinute(t)
           day == Admitted!Today(t)
<1>1. /\ now \in Nat /\ Minute \in Nat /\ Retention \in Nat /\ Day \in Nat \ {0}
      /\ Minute <= Retention /\ Day <= Retention
      /\ Rpm[t] \in Nat /\ Tpm[t] \in Nat /\ Rpd[t] \in Nat /\ Tokens[c] \in Nat
      /\ \A e \in granted : e.at \in Nat /\ e.at <= now
  BY LimiterAssumption DEF LimiterAssumption, LimiterInv, TypeOK, Event, NothingFromTheFuture
<1>2. ~usageErr /\ Ready(t, Tokens[c], now)
  BY DEF Grant, FailsClosed
<1>3. minute \subseteq recent
  BY <1>1, <1>2 DEF LimiterInv, MemoryIsComplete, Admitted!LastMinute, InMinute, Kept
<1>4. day \subseteq today
  <2> SUFFICES ASSUME NEW e \in day PROVE e \in today
    OBVIOUS
  <2>1. e \in granted /\ e.target = t /\ e.at \div Day = now \div Day
    BY DEF Admitted!Today
  <2>2. e.at > now - Day
    BY <1>1, <2>1, SameDayIsClose
  <2>3. e.at > now - Retention
    BY <1>1, <2>1, <2>2
  <2>4. QED
    BY <1>2, <2>1, <2>3 DEF LimiterInv, MemoryIsComplete, OnDay, Kept
<1>5. recent \subseteq events /\ today \subseteq events /\ events \subseteq Event /\ IsFiniteSet(events)
  BY DEF LimiterInv, TypeOK, Finite, InMinute, OnDay, Kept
<1>6. Rpm[t] > 0 => Cardinality(recent) < Rpm[t]
  <2>1. Cardinality(recent) \in Nat
    BY <1>5, FS_Subset, FS_CardinalityType
  <2>2. QED
    BY <1>1, <1>2, <2>1 DEF Ready, MinuteFull
<1>7. Rpd[t] > 0 => Cardinality(today) < Rpd[t]
  <2>1. Cardinality(today) \in Nat
    BY <1>5, FS_Subset, FS_CardinalityType
  <2>2. QED
    BY <1>1, <1>2, <2>1 DEF Ready, DaySpent
<1>8. Tpm[t] > 0 => TokensIn(recent) + Tokens[c] <= Tpm[t]
  <2>1. IsFiniteSet(recent) /\ recent \subseteq Event
    BY <1>5, FS_Subset
  <2>2. TokensIn(recent) \in Nat
    BY <2>1, TokensAreNatural
  <2>3. QED
    BY <1>1, <1>2, <2>2 DEF Ready, TokensFull
<1> HIDE DEF recent, today, minute, day
<1>9. Rpm[t] > 0 => Cardinality(minute) < Rpm[t]
  <2>1. /\ Cardinality(minute) \in Nat /\ Cardinality(recent) \in Nat
        /\ Cardinality(minute) <= Cardinality(recent)
    BY <1>3, <1>5, FS_Subset, FS_CardinalityType
  <2>2. QED
    BY <1>1, <1>6, <2>1
<1>10. Rpd[t] > 0 => Cardinality(day) < Rpd[t]
  <2>1. /\ Cardinality(day) \in Nat /\ Cardinality(today) \in Nat
        /\ Cardinality(day) <= Cardinality(today)
    BY <1>4, <1>5, FS_Subset, FS_CardinalityType
  <2>2. QED
    BY <1>1, <1>7, <2>1
<1>11. Tpm[t] > 0 => TokensIn(minute) + Tokens[c] <= Tpm[t]
  <2>1. IsFiniteSet(recent) /\ recent \subseteq Event
    BY <1>5, FS_Subset
  <2>2. TokensIn(minute) \in Nat /\ TokensIn(recent) \in Nat /\ TokensIn(minute) <= TokensIn(recent)
    BY <1>3, <2>1, TokensGrow
  <2>3. QED
    BY <1>1, <1>8, <2>2
<1>12. Admitted!TokensOf(minute) = TokensIn(minute)
  BY SameTokens
<1>13. Admitted!Cardinality(minute) = Cardinality(minute) /\ Admitted!Cardinality(day) = Cardinality(day)
  BY SameSize
<1>14. QED
  BY <1>9, <1>10, <1>11, <1>12, <1>13 DEF Admitted!HasBudget, minute, day

\* A slot of the key is left, so one of the target is.
LEMMA RoomIsLeft ==
  ASSUME LimiterInv, Calls = holds, NEW c \in Caller, NEW t \in Target, Grant(c, t)
  PROVE  Admitted!HasRoom(t)
<1> SUFFICES ASSUME MaxConcurrency[t] > 0
             PROVE  Cardinality(Admitted!CallsTo(t)) < MaxConcurrency[t]
  BY SameSize DEF Admitted!HasRoom
<1>1. MaxConcurrency[t] \in Nat /\ KeyOf[t] \in Key /\ IsFiniteSet(Caller) /\ t # NoTarget
  BY LimiterAssumption DEF LimiterAssumption
<1>2. active[KeyOf[t]] = Cardinality(HoldersOfKey(KeyOf[t]))
  BY <1>1 DEF LimiterInv, ActiveCountsHolders
<1>3. Admitted!CallsTo(t) \subseteq HoldersOfKey(KeyOf[t]) /\ HoldersOfKey(KeyOf[t]) \subseteq Caller
  BY <1>1 DEF Admitted!CallsTo, HoldersOfKey
<1>4. /\ Cardinality(Admitted!CallsTo(t)) \in Nat /\ Cardinality(HoldersOfKey(KeyOf[t])) \in Nat
      /\ Cardinality(Admitted!CallsTo(t)) <= Cardinality(HoldersOfKey(KeyOf[t]))
  BY <1>1, <1>3, FS_Subset, FS_CardinalityType
<1>5. active[KeyOf[t]] < MaxConcurrency[t]
  BY <1>1, <1>2, <1>4 DEF Grant, Ready, Busy
<1>6. QED
  BY <1>1, <1>2, <1>4, <1>5

\* What a step of Execute is to the gate that remembers every call.
LEMMA StepIsAdmitted ==
  ASSUME LimiterInv, Numbered, Calls = holds, Calls' = holds', [Next]_limiterVars
  PROVE  [Admitted!AdmissionNext]_<<now, Calls, granted>>
<1>1. ASSUME NEW c \in Caller, NEW t \in Target, Grant(c, t) PROVE Admitted!Admit(c, t)
  <2>1. holds[c] = NoTarget /\ holds' = [holds EXCEPT ![c] = t] /\ now' = now
    BY <1>1 DEF Grant
  <2>2. Admitted!Budgeted(t) <=> HasRateLimit(t)
    BY DEF Admitted!Budgeted, HasRateLimit
  <2>3. CASE HasRateLimit(t)
    <3>1. nextId \in 0..MaxEvents
      BY <1>1, <2>3, LimiterAssumption DEF LimiterAssumption, LimiterInv, TypeOK, Grant
    <3>2. NewEvent(c, t) \notin granted
      BY <3>1 DEF Numbered, NewEvent
    <3>3. granted' = granted \cup {NewEvent(c, t)}
      BY <1>1, <2>3 DEF Grant
    <3>4. QED
      BY <1>1, <2>1, <2>2, <2>3, <3>1, <3>2, <3>3, BudgetIsLeft, RoomIsLeft DEF Admitted!Admit, NewEvent
  <2>4. CASE ~HasRateLimit(t)
    <3>1. Admitted!HasBudget(t, Tokens[c])
      BY <2>4 DEF HasRateLimit, Admitted!HasBudget
    <3>2. granted' = granted
      BY <1>1, <2>4 DEF Grant
    <3>3. QED
      BY <1>1, <2>1, <2>2, <2>4, <3>1, <3>2, RoomIsLeft DEF Admitted!Admit
  <2>5. QED
    BY <2>3, <2>4
<1>2. ASSUME NEW c \in Caller, Release(c) PROVE Admitted!CallEnds(c)
  BY <1>2 DEF Release, Admitted!CallEnds
<1>3. CASE Restart
  BY <1>3 DEF Restart, LoadExecutionUsage, Admitted!AllCallsLost, Admitted!AdmissionNext
<1>4. CASE Tick
  BY <1>4 DEF Tick, Admitted!TimePasses, Admitted!AdmissionNext
<1>5. CASE UNCHANGED <<now, holds, granted>>
  BY <1>5
<1>6. QED
  BY <1>1, <1>2, <1>3, <1>4, <1>5
  DEF Next, Refuse, PersistFails, SetCooldown, limiterVars, Admitted!AdmissionNext

\* Every call that goes out to a provider is one that a gate remembering all
\* calls ever made would have let through: within max_concurrency and all
\* budgets of its target, over prunings, restarts and replaced settings.
THEOREM ExecutionImplementsAdmission == ExecSpec => ImplementsAdmission
<1>1. ExecInit => Admitted!AdmissionInit /\ Numbered
  BY DEF ExecInit, Init, Calls, Admitted!AdmissionInit, Numbered
<1>2. Spec => []Numbered
  <2>1. Init => Numbered
    BY DEF Init, Numbered
  <2>2. QED
    BY <2>1, StaysNumbered, LimiterTypes, PTL DEF Spec
<1>3. LimiterInv /\ Numbered /\ Placed /\ Placed' /\ [Next]_limiterVars
        => [Admitted!AdmissionNext]_<<now, Calls, granted>>
  BY StepIsAdmitted, CallsAreLeases, CallsStayLeases
<1>4. QED
  BY <1>1, <1>2, <1>3, ExecutionImplementsLimiter, LimiterSafety, AlwaysPlaced, PTL
  DEF ExecSpec, Spec, ImplementsAdmission, Admitted!AdmissionSpec, Admitted!admissionVars
-----------------------------------------------------------------------------
SlotInv ==
  /\ pc \in [Caller -> {"idle", "queued", "scan", "call", "cool", "wait", "done"}]
  /\ SettingsInv
  /\ slots \in [Profile -> [0..MaxUpdates -> Nat]]
  /\ SlotsMatchRequests

LEMMA OccupantsAreFinite ==
  ASSUME NEW p \in Profile, NEW g \in 0..MaxUpdates
  PROVE  IsFiniteSet(Occupants(p, g)) /\ Cardinality(Occupants(p, g)) \in Nat
<1>1. Occupants(p, g) \subseteq Caller
  BY DEF Occupants
<1>2. QED
  BY <1>1, LimiterAssumption, FS_Subset, FS_CardinalityType DEF LimiterAssumption

\* A step in which nobody takes or gives back a slot.
LEMMA NoSlotMoves ==
  ASSUME SlotInv, slots' = slots,
         pc' \in [Caller -> {"idle", "queued", "scan", "call", "cool", "wait", "done"}],
         SettingsInv', profiles' = profiles,
         \A r \in Caller : Running(r)' <=> Running(r),
         \A r \in Caller : Running(r) => runtime'[r] = runtime[r]
  PROVE  SlotInv'
<1>1. \A p \in Profile, g \in 0..MaxUpdates : Occupants(p, g)' = Occupants(p, g)
  BY DEF Occupants
<1>2. QED
  BY <1>1 DEF SlotInv, SlotsMatchRequests

\* acquire.
LEMMA SlotTaken == ASSUME SlotInv, NEW r \in Caller, Acquire(r) PROVE SlotInv'
<1> DEFINE p0 == ProfileOf[r]
           g0 == runtime[r]
<1>1. /\ pc[r] = "queued" /\ pc' = [pc EXCEPT ![r] = "scan"]
      /\ slots[p0][g0] < profiles[g0][p0].slots
      /\ slots' = [slots EXCEPT ![p0][g0] = @ + 1]
      /\ runtime' = runtime /\ epoch' = epoch /\ profiles' = profiles
  BY DEF Acquire, ConfigOf
<1>2. p0 \in Profile /\ g0 \in 0..MaxUpdates /\ profiles[g0][p0].slots \in Nat
  BY ConfigFacts, ExecutionAssumption DEF ExecutionAssumption, SlotInv, SettingsInv
<1>3. slots' \in [Profile -> [0..MaxUpdates -> Nat]]
  <2> HIDE DEF p0, g0
  <2>1. PICK Epochs : Epochs = 0..MaxUpdates
    OBVIOUS
  <2>2. g0 \in Epochs /\ slots[p0] \in [Epochs -> Nat] /\ slots \in [Profile -> [Epochs -> Nat]]
    BY <1>2, <2>1 DEF SlotInv
  <2>3. slots[p0][g0] \in Nat
    BY <2>2
  <2>4. [slots[p0] EXCEPT ![g0] = @ + 1] \in [Epochs -> Nat]
    BY <2>2, <2>3
  <2>5. slots' \in [Profile -> [Epochs -> Nat]]
    BY <1>1, <1>2, <2>2, <2>4
  <2>6. QED
    BY <2>1, <2>5
<1>4. ~Running(r) /\ Running(r)' /\ \A q \in Caller \ {r} : Running(q)' <=> Running(q)
  BY <1>1 DEF SlotInv, Running
<1>5. ASSUME NEW p \in Profile, NEW g \in 0..MaxUpdates
      PROVE  /\ slots'[p][g] = Cardinality(Occupants(p, g)')
             /\ slots'[p][g] <= profiles[g][p].slots
  <2>1. /\ slots[p][g] = Cardinality(Occupants(p, g)) /\ slots[p][g] <= profiles[g][p].slots
        /\ slots[p][g] \in Nat
    BY DEF SlotInv, SlotsMatchRequests
  <2>2. CASE p = p0 /\ g = g0
    <3>1. Occupants(p, g)' = Occupants(p, g) \cup {r} /\ r \notin Occupants(p, g)
      BY <1>1, <1>4, <2>2 DEF Occupants
    <3>2. slots'[p][g] = slots[p][g] + 1
      BY <1>1, <1>2, <2>2 DEF SlotInv
    <3>3. Cardinality(Occupants(p, g)') = Cardinality(Occupants(p, g)) + 1
      BY <3>1, OccupantsAreFinite, FS_AddElement
    <3>4. QED
      BY <1>1, <1>2, <2>1, <2>2, <3>2, <3>3
  <2>3. CASE ~(p = p0 /\ g = g0)
    <3>1. Occupants(p, g)' = Occupants(p, g)
      BY <1>1, <1>4, <2>3 DEF Occupants
    <3>2. slots'[p][g] = slots[p][g]
      BY <1>1, <1>2, <2>3 DEF SlotInv
    <3>3. QED
      BY <2>1, <3>1, <3>2
  <2>4. QED
    BY <2>2, <2>3
<1>6. pc' \in [Caller -> {"idle", "queued", "scan", "call", "cool", "wait", "done"}]
  BY <1>1 DEF SlotInv
<1>7. QED
  BY <1>1, <1>3, <1>5, <1>6 DEF SlotInv, SettingsInv, SlotsMatchRequests

\* The deferred release.
LEMMA SlotGivenBack ==
  ASSUME SlotInv, NEW r \in Caller, NEW what, Running(r), Finish(r, what)
  PROVE  SlotInv'
<1> DEFINE p0 == ProfileOf[r]
           g0 == runtime[r]
<1>1. /\ pc' = [pc EXCEPT ![r] = "done"]
      /\ slots' = [slots EXCEPT ![p0][g0] = @ - 1]
      /\ runtime' = runtime /\ epoch' = epoch /\ profiles' = profiles
  BY DEF Finish
<1>2. p0 \in Profile /\ g0 \in 0..MaxUpdates
  BY ExecutionAssumption DEF ExecutionAssumption, SlotInv, SettingsInv
<1>3. Running(r) /\ ~Running(r)' /\ \A q \in Caller \ {r} : Running(q)' <=> Running(q)
  BY <1>1 DEF SlotInv, Running
<1>4. ASSUME NEW p \in Profile, NEW g \in 0..MaxUpdates
      PROVE  /\ slots'[p][g] = Cardinality(Occupants(p, g)') /\ slots'[p][g] \in Nat
             /\ slots'[p][g] <= profiles[g][p].slots
  <2>1. /\ slots[p][g] = Cardinality(Occupants(p, g)) /\ slots[p][g] <= profiles[g][p].slots
        /\ slots[p][g] \in Nat /\ profiles[g][p].slots \in Nat
    BY ConfigFacts DEF SlotInv, SlotsMatchRequests
  <2>2. CASE p = p0 /\ g = g0
    <3>1. Occupants(p, g)' = Occupants(p, g) \ {r} /\ r \in Occupants(p, g)
      BY <1>1, <1>3, <2>2 DEF Occupants
    <3>2. slots'[p][g] = slots[p][g] - 1
      BY <1>1, <1>2, <2>2 DEF SlotInv
    <3>3. /\ Cardinality(Occupants(p, g)') = Cardinality(Occupants(p, g)) - 1
          /\ Cardinality(Occupants(p, g)') \in Nat
      <4>1. IsFiniteSet(Occupants(p, g)) /\ IsFiniteSet(Occupants(p, g) \ {r})
        BY OccupantsAreFinite, FS_RemoveElement
      <4>2. Cardinality(Occupants(p, g) \ {r}) = Cardinality(Occupants(p, g)) - 1
        BY <3>1, <4>1, FS_RemoveElement
      <4>3. QED
        BY <3>1, <4>1, <4>2, FS_CardinalityType
    <3>4. QED
      BY <2>1, <3>2, <3>3
  <2>3. CASE ~(p = p0 /\ g = g0)
    <3>1. Occupants(p, g)' = Occupants(p, g)
      BY <1>1, <1>3, <2>3 DEF Occupants
    <3>2. slots'[p][g] = slots[p][g]
      BY <1>1, <1>2, <2>3 DEF SlotInv
    <3>3. QED
      BY <2>1, <3>1, <3>2
  <2>4. QED
    BY <2>2, <2>3
<1>5. slots' \in [Profile -> [0..MaxUpdates -> Nat]]
  <2>1. \A p \in Profile : DOMAIN slots'[p] = 0..MaxUpdates /\ slots'[p] = [g \in 0..MaxUpdates |-> slots'[p][g]]
    BY <1>1, <1>2 DEF SlotInv
  <2>2. DOMAIN slots' = Profile /\ slots' = [p \in Profile |-> slots'[p]]
    BY <1>1, <1>2 DEF SlotInv
  <2>3. \A p \in Profile : slots'[p] \in [0..MaxUpdates -> Nat]
    BY <1>4, <2>1
  <2>4. QED
    BY <2>2, <2>3
<1>6. pc' \in [Caller -> {"idle", "queued", "scan", "call", "cool", "wait", "done"}]
  BY <1>1 DEF SlotInv
<1>7. QED
  BY <1>1, <1>4, <1>5, <1>6 DEF SlotInv, SettingsInv, SlotsMatchRequests

\* A running request that stays so.
LEMMA StillRunning ==
  ASSUME SlotInv, NEW r \in Caller, NEW where \in {"scan", "call", "cool", "wait"},
         Running(r), pc' = [pc EXCEPT ![r] = where],
         UNCHANGED <<slots, epoch, profiles, runtime>>
  PROVE  SlotInv'
<1>1. \A q \in Caller : Running(q)' <=> Running(q)
  BY DEF SlotInv, Running
<1>2. QED
  BY <1>1, NoSlotMoves DEF SlotInv, SettingsInv

LEMMA WorkKeepsSlots == ASSUME SlotInv, NEW r \in Caller, Work(r) PROVE SlotInv'
<1>1. CASE SkipDisabled(r) \/ NoProvider(r) \/ Refused(r) \/ Dispatch(r) \/ Fail(r) \/ CoolDown(r)
  <2>1. Running(r)
    BY <1>1 DEF SkipDisabled, NoProvider, Refused, Dispatch, Fail, CoolDown, Reserving, AtTarget, Running
  <2>2. PICK where \in {"scan", "call", "cool"} : Continue(r, where)
    BY <1>1 DEF SkipDisabled, NoProvider, Refused, Dispatch, Fail, CoolDown
  <2>3. QED
    BY <2>1, <2>2, StillRunning DEF Continue
<1>2. CASE Sleep(r) \/ Wake(r) \/ AlarmRings(r)
  <2>1. Running(r)
    BY <1>2 DEF Sleep, PassOver, Wake, AlarmRings, Running
  <2>2. PICK where \in {"scan", "wait"} : pc' = [pc EXCEPT ![r] = where] /\ UNCHANGED <<slots, epoch, profiles, runtime>>
    BY <1>2 DEF Sleep, Wake, AlarmRings, Rescan
  <2>3. QED
    BY <2>1, <2>2, StillRunning
<1>3. CASE ReserveFails(r) \/ Succeed(r) \/ GiveUp(r)
  <2>1. Running(r)
    BY <1>3 DEF ReserveFails, Succeed, GiveUp, Reserving, AtTarget, PassOver, Running
  <2>2. PICK what : Finish(r, what)
    BY <1>3 DEF ReserveFails, Succeed, GiveUp
  <2>3. QED
    BY <2>1, <2>2, SlotGivenBack
<1>4. CASE GiveUpWaiting(r)
  <2>1. CASE pc[r] = "wait" /\ Finish(r, "context")
    <3>1. Running(r)
      BY <2>1 DEF Running
    <3>2. QED
      BY <2>1, <3>1, SlotGivenBack
  <2>2. CASE pc[r] = "queued" /\ pc' = [pc EXCEPT ![r] = "done"] /\ UNCHANGED <<epoch, profiles, runtime, slots>>
    <3>1. \A q \in Caller : Running(q)' <=> Running(q)
      BY <2>2 DEF SlotInv, Running
    <3>2. QED
      BY <2>2, <3>1, NoSlotMoves DEF SlotInv, SettingsInv
  <2>3. QED
    BY <1>4, <2>1, <2>2 DEF GiveUpWaiting
<1>5. QED
  BY <1>1, <1>2, <1>3, <1>4 DEF Work

LEMMA StepKeepsSlots == SlotInv /\ [ExecNext]_execVars => SlotInv'
<1> SUFFICES ASSUME SlotInv, [ExecNext]_execVars PROVE SlotInv'
  OBVIOUS
<1> USE ExecutionAssumption DEF ExecutionAssumption
<1>0. SettingsInv'
  BY StepKeepsSettings DEF SlotInv
<1>1. ASSUME NEW r \in Caller, Start(r) PROVE SlotInv'
  <2>1. /\ pc[r] = "idle" /\ (pc' = [pc EXCEPT ![r] = "queued"] \/ pc' = [pc EXCEPT ![r] = "done"])
        /\ runtime' = [runtime EXCEPT ![r] = epoch] \/ runtime' = runtime
        /\ UNCHANGED <<slots, epoch, profiles>>
    BY <1>1 DEF Start
  <2>2. \A q \in Caller : Running(q)' <=> Running(q)
    BY <2>1 DEF SlotInv, Running
  <2>3. \A q \in Caller : Running(q) => runtime'[q] = runtime[q]
    BY <2>1 DEF SlotInv, SettingsInv, Running
  <2>5. pc' \in [Caller -> {"idle", "queued", "scan", "call", "cool", "wait", "done"}]
    BY <2>1 DEF SlotInv
  <2>7. QED
    BY <1>0, <2>1, <2>2, <2>3, <2>5, NoSlotMoves
<1>2. ASSUME NEW r \in Caller, Acquire(r) PROVE SlotInv'
  BY <1>2, SlotTaken
<1>3. ASSUME NEW r \in Caller, Work(r) PROVE SlotInv'
  BY <1>3, WorkKeepsSlots
<1>4. CASE (\E r \in Caller : Disconnect(r)) \/ Advance \/ UNCHANGED execVars
  <2>1. UNCHANGED <<pc, slots, epoch, profiles, runtime>>
    BY <1>4 DEF Disconnect, Advance, execVars, controlVars
  <2>2. \A q \in Caller : Running(q)' <=> Running(q)
    BY <2>1 DEF Running
  <2>3. QED
    BY <2>1, <2>2, NoSlotMoves DEF SlotInv, SettingsInv
<1>5. ASSUME NEW s \in Settings, UpdateProfiles(s) PROVE SlotInv'
  <2>1. UNCHANGED <<pc, slots, runtime>> /\ profiles' = [profiles EXCEPT ![epoch + 1] = s]
    BY <1>5 DEF UpdateProfiles
  <2>2. ASSUME NEW p \in Profile, NEW g \in 0..MaxUpdates
        PROVE  slots'[p][g] = Cardinality(Occupants(p, g)') /\ slots'[p][g] <= profiles'[g][p].slots
    <3>1. Occupants(p, g)' = Occupants(p, g) /\ slots[p][g] = Cardinality(Occupants(p, g))
          /\ slots[p][g] <= profiles[g][p].slots
      BY <2>1 DEF SlotInv, SlotsMatchRequests, Occupants, Running
    <3>2. CASE g = epoch + 1
      <4>1. Occupants(p, g) = {}
        BY <3>2 DEF SlotInv, SettingsInv, Occupants
      <4>2. slots[p][g] = 0 /\ profiles'[g][p].slots \in Nat
        BY <1>0, <3>1, <4>1, FS_EmptySet, ConfigFacts DEF SettingsInv, Config
      <4>3. QED
        BY <2>1, <3>1, <4>2
    <3>3. CASE g # epoch + 1
      <4>1. profiles'[g] = profiles[g]
        BY <2>1, <3>3 DEF SlotInv, SettingsInv
      <4>2. QED
        BY <2>1, <3>1, <4>1
    <3>4. QED
      BY <3>2, <3>3
  <2>3. QED
    BY <1>0, <2>1, <2>2 DEF SlotInv, SlotsMatchRequests
<1>6. CASE Crash
  <2>1. /\ pc' = [r \in Caller |-> IF pc[r] \in {"idle", "done"} THEN pc[r] ELSE "done"]
        /\ slots' = [p \in Profile |-> [g \in 0..MaxUpdates |-> 0]]
        /\ UNCHANGED <<epoch, profiles, runtime>>
    BY <1>6 DEF Crash
  <2>2. \A p \in Profile, g \in 0..MaxUpdates : Occupants(p, g)' = {}
    BY <2>1 DEF Occupants, Running, SlotInv
  <2>3. \A p \in Profile, g \in 0..MaxUpdates : Cardinality(Occupants(p, g)') = 0
    BY <2>2, FS_EmptySet
  <2>4. QED
    <3>1. \A p \in Profile, g \in 0..MaxUpdates : 0 <= profiles[g][p].slots
      BY ConfigFacts DEF SlotInv
    <3>2. QED
      BY <1>0, <2>1, <2>3, <3>1 DEF SlotInv, SlotsMatchRequests
<1>7. QED
  BY <1>1, <1>2, <1>3, <1>4, <1>5, <1>6 DEF ExecNext

\* max_concurrency holds of each configuration's semaphore, and no slot is lost.
THEOREM SlotsAlwaysMatchRequests == ExecSpec => []SlotsMatchRequests
<1>1. ExecInit => SlotInv
  <2> SUFFICES ASSUME ExecInit PROVE SlotInv
    OBVIOUS
  <2>1. \A p \in Profile, g \in 0..MaxUpdates : Occupants(p, g) = {}
    BY DEF ExecInit, Occupants, Running
  <2>2. \A p \in Profile, g \in 0..MaxUpdates : Cardinality(Occupants(p, g)) = 0
    BY <2>1, FS_EmptySet
  <2>3. SettingsInv
    BY InitSettings
  <2>4. \A p \in Profile, g \in 0..MaxUpdates : 0 <= profiles[g][p].slots
    BY <2>3, ConfigFacts
  <2>5. QED
    BY <2>2, <2>3, <2>4 DEF ExecInit, SlotInv, SlotsMatchRequests
<1>2. SlotInv => SlotsMatchRequests
  BY DEF SlotInv
<1>3. QED
  BY <1>1, <1>2, StepKeepsSlots, PTL DEF ExecSpec
-----------------------------------------------------------------------------
(* Sleepers.                                                               *)

\* What NoSleeperForgotten asks for: all targets are one key with one lease,
\* and no budget is set.
OneLease ==
  \A s, t \in Target : MaxConcurrency[s] = 1 /\ ~HasRateLimit(s) /\ KeyOf[s] = KeyOf[t]

Uncooled == \A k \in Key : cooldown[k] = 0

\* The targets a request does not pass over.
Usable(t) == t \notin Disabled \cup Unknown

MayReserve(r) == \E i \in DOMAIN targets[r] : Usable(targets[r][i])

\* Requests that sleep without a timer, or will at the end of their pass.
Put(r) == (pc[r] = "wait" /\ alarm[r] = 0) \/ (pc[r] = "scan" /\ tally[r].busy)

\* Requests that met no refusal in this pass and have targets left.
Looking(q) ==
  /\ pc[q] = "scan" /\ ~tally[q].busy
  /\ \E i \in DOMAIN targets[q] : i >= pos[q] /\ Usable(targets[q][i])

\* Requests that will take the lease, or give it back and wake a sleeper.
Stirring(q) == pc[q] \in {"call", "cool"} \/ Looking(q)

\* Whoever is put to sleep has somebody to wake it.
Attended == Uncooled /\ (\E r \in Caller : Put(r)) => wake \/ \E q \in Caller : Stirring(q)

\* A refusal is the lease's, by a target that may be reserved.
Hopeful(r) ==
  /\ pc[r] \in {"scan", "call", "cool"} => tally[r].wait = 0
  /\ pc[r] = "wait" \/ (pc[r] \in {"scan", "call", "cool"} /\ tally[r].busy) => MayReserve(r)

SleepInv ==
  /\ OneLease
  /\ tally = [r \in Caller |-> tally[r]] /\ alarm = [r \in Caller |-> alarm[r]]
  /\ \A r \in Caller : pc[r] \in {"idle", "queued"} => tally[r] = NoTally
  /\ Uncooled => \A r \in Caller : Hopeful(r)
  /\ Attended

\* A lease that is taken is a call's.
LEMMA BusyMeansCall ==
  ASSUME LimiterInv, Placed, OneLease, NEW t \in Target, Busy(t)
  PROVE  \E q \in Caller : pc[q] = "call"
<1> DEFINE k == KeyOf[t]
<1>1. k \in Key
  BY LimiterAssumption DEF LimiterAssumption
<1>2. active[k] # 0
  BY LimiterAssumption DEF Busy, OneLease
<1>3. Cardinality(HoldersOfKey(k)) # 0
  BY <1>1, <1>2 DEF LimiterInv, ActiveCountsHolders
<1>4. PICK q \in Caller : holds[q] # NoTarget
  <2>1. HoldersOfKey(k) # {}
    BY <1>3, FS_EmptySet
  <2>2. QED
    BY <2>1 DEF HoldersOfKey
<1>5. QED
  BY <1>4 DEF Placed, LeasesMatchCalls

\* While a call is made, nothing is ready.
LEMMA CallMeansBusy ==
  ASSUME LimiterInv, Placed, OneLease, NEW q \in Caller, pc[q] = "call", NEW t \in Target
  PROVE  Busy(t)
<1> DEFINE k == KeyOf[t]
<1>1. k \in Key
  BY LimiterAssumption DEF LimiterAssumption
<1>2. holds[q] \in Target
  BY HereIsTarget DEF Placed, LeasesMatchCalls
<1>3. q \in HoldersOfKey(k)
  BY <1>2, LimiterAssumption DEF HoldersOfKey, OneLease, LimiterAssumption
<1>4. IsFiniteSet(HoldersOfKey(k))
  <2>1. HoldersOfKey(k) \subseteq Caller
    BY DEF HoldersOfKey
  <2>2. QED
    BY <2>1, LimiterAssumption, FS_Subset DEF LimiterAssumption
<1>5. Cardinality(HoldersOfKey(k)) \in Nat /\ Cardinality(HoldersOfKey(k)) # 0
  BY <1>3, <1>4, FS_EmptySet, FS_CardinalityType
<1>6. active[k] >= 1
  BY <1>1, <1>5 DEF LimiterInv, ActiveCountsHolders
<1>7. QED
  BY <1>6 DEF Busy, OneLease

\* Without budgets and cooldowns, only the lease can be in the way.
LEMMA RefusedMeansBusy ==
  ASSUME LimiterInv, OneLease, Uncooled, NEW t \in Target, NEW n, ~Ready(t, n, now)
  PROVE  ~Cooling(t, now) /\ Busy(t)
<1>1. KeyOf[t] \in Key /\ now \in Nat
  BY LimiterAssumption DEF LimiterAssumption, LimiterInv, TypeOK
<1>2. ~Cooling(t, now)
  BY <1>1 DEF Cooling, Uncooled
<1>3. ~DaySpent(t, now) /\ ~MinuteFull(t, now) /\ ~TokensFull(t, n, now)
  BY DEF OneLease, HasRateLimit, DaySpent, MinuteFull, TokensFull
<1>4. QED
  BY <1>2, <1>3 DEF Ready

\* Nobody new to be woken, nobody less to do it.
LEMMA StillAttended ==
  ASSUME Attended, cooldown' = cooldown, wake => wake',
         Uncooled => \A r \in Caller : Put(r)' => Put(r),
         \A q \in Caller : Stirring(q) => Stirring(q)'
  PROVE  Attended'
<1>1. Uncooled' => Uncooled
  BY DEF Uncooled
<1>2. QED
  BY <1>1 DEF Attended

\* Execute returns; whoever would wake others has not just looked.
LEMMA FinishKeepsSleepers ==
  ASSUME SleepInv, Placed, NEW r \in Caller, NEW what, Finish(r, what)
  PROVE  /\ \A q \in Caller \ {r} : /\ pc'[q] = pc[q] /\ tally'[q] = tally[q] /\ alarm'[q] = alarm[q]
                                    /\ targets'[q] = targets[q] /\ pos'[q] = pos[q]
         /\ pc'[r] = "done"
         /\ tally' = [q \in Caller |-> tally'[q]] /\ alarm' = [q \in Caller |-> alarm'[q]]
BY DEF SleepInv, Placed, Finish, Forget

\* A step of one request leaves what is said of each to that request.
LEMMA OthersAsTheyWere ==
  ASSUME SleepInv, NEW r \in Caller,
         \A q \in Caller \ {r} : /\ pc'[q] = pc[q] /\ tally'[q] = tally[q] /\ alarm'[q] = alarm[q]
                                 /\ targets'[q] = targets[q] /\ pos'[q] = pos[q],
         tally' = [q \in Caller |-> tally'[q]], alarm' = [q \in Caller |-> alarm'[q]],
         pc'[r] \in {"idle", "queued"} => tally'[r] = NoTally,
         Uncooled' => Uncooled /\ Hopeful(r)',
         Attended'
  PROVE  SleepInv'
<1>1. \A q \in Caller \ {r} : Hopeful(q)' <=> Hopeful(q)
  BY DEF Hopeful, MayReserve, Usable
<1>2. OneLease'
  BY DEF SleepInv, OneLease, HasRateLimit
<1>3. QED
  BY <1>1, <1>2 DEF SleepInv

LEMMA OthersStir ==
  ASSUME NEW q \in Caller, pc'[q] = pc[q], tally'[q] = tally[q], alarm'[q] = alarm[q],
         targets'[q] = targets[q], pos'[q] = pos[q]
  PROVE  (Put(q)' <=> Put(q)) /\ (Stirring(q)' <=> Stirring(q))
BY DEF Put, Stirring, Looking

\* A step of tryTargets, a wake-up or a return keeps sleepers attended.
LEMMA WorkKeepsSleepers ==
  ASSUME SleepInv, Placed, LimiterInv, NEW r \in Caller, Work(r)
  PROVE  SleepInv'
<1> USE DEF SleepInv
<1>1. AtTarget(r) => Here(r) \in Target /\ pos[r] \in DOMAIN targets[r] /\ Here(r) = targets[r][pos[r]]
  <2>1. targets[r] \in Seq(Target) /\ pos[r] \in Nat \ {0}
    BY DEF Placed
  <2>2. QED
    BY <2>1, HereIsTarget DEF AtTarget, Here
<1>2. CASE SkipDisabled(r) \/ NoProvider(r)
  <2>1. /\ AtTarget(r) /\ ~Usable(Here(r))
        /\ pc' = [pc EXCEPT ![r] = "scan"] /\ pos' = [pos EXCEPT ![r] = @ + 1]
        /\ UNCHANGED <<targets, tally, alarm, cooldown, wake>>
    BY <1>2 DEF SkipDisabled, NoProvider, Continue, Usable, limiterVars
  <2>2. \A q \in Caller \ {r} : pc'[q] = pc[q] /\ pos'[q] = pos[q]
    BY <2>1 DEF Placed
  <2>3. pc[r] = "scan" /\ pc'[r] = "scan" /\ pos'[r] = pos[r] + 1 /\ pos[r] \in Nat
    BY <2>1 DEF AtTarget, Placed
  <2>4. Looking(r) => Looking(r)'
    <3> SUFFICES ASSUME Looking(r) PROVE Looking(r)'
      OBVIOUS
    <3>1. PICK i \in DOMAIN targets[r] : i >= pos[r] /\ Usable(targets[r][i])
      BY DEF Looking
    <3>2. i \in Nat /\ i # pos[r]
      BY <1>1, <2>1, <3>1 DEF Placed
    <3>3. i >= pos'[r]
      BY <2>3, <3>1, <3>2
    <3>4. QED
      BY <2>1, <2>3, <3>1, <3>3 DEF Looking, Usable
  <2>5. \A q \in Caller : (Put(q)' => Put(q)) /\ (Stirring(q) => Stirring(q)')
    BY <2>1, <2>2, <2>3, <2>4, OthersStir DEF Put, Stirring
  <2>6. Attended'
    BY <2>1, <2>5, StillAttended
  <2>7. QED
    BY <2>1, <2>2, <2>3, <2>6, OthersAsTheyWere DEF Uncooled, Hopeful, MayReserve, Usable
<1>3. CASE Refused(r)
  <2> DEFINE t == Here(r)
  <2>1. /\ AtTarget(r) /\ Usable(t) /\ ~Ready(t, Tokens[r], now)
        /\ pc' = [pc EXCEPT ![r] = "scan"] /\ pos' = [pos EXCEPT ![r] = @ + 1]
        /\ tally' = [tally EXCEPT ![r] = Counted(r, t)]
        /\ UNCHANGED <<targets, alarm, cooldown, wake>>
    BY <1>3 DEF Refused, Reserving, Refuse, Continue, Usable
  <2>2. \A q \in Caller \ {r} : pc'[q] = pc[q] /\ pos'[q] = pos[q] /\ tally'[q] = tally[q]
    BY <2>1 DEF Placed
  <2>3. pc[r] = "scan" /\ pc'[r] = "scan" /\ tally' = [q \in Caller |-> tally'[q]]
    BY <2>1 DEF AtTarget, Placed
  <2>4. MayReserve(r)'
    BY <1>1, <2>1 DEF MayReserve, Usable
  <2>5. Attended'
    <3> SUFFICES ASSUME Uncooled' PROVE \E q \in Caller : Stirring(q)'
      BY DEF Attended
    <3>1. PICK q \in Caller : pc[q] = "call"
      BY <1>1, <2>1, RefusedMeansBusy, BusyMeansCall DEF Uncooled
    <3>2. pc'[q] = "call"
      BY <2>2, <2>3, <3>1
    <3>3. QED
      BY <3>2 DEF Stirring
  <2>6. Uncooled' => Uncooled /\ Hopeful(r)'
    <3> SUFFICES ASSUME Uncooled' PROVE Uncooled /\ Hopeful(r)'
      OBVIOUS
    <3>1. Uncooled
      BY <2>1 DEF Uncooled
    <3>2. Wait(t, Tokens[r], now) = 0
      BY <1>1, <2>1, <3>1, RefusedMeansBusy DEF Wait
    <3>3. tally'[r] = Counted(r, t)
      BY <2>1
    <3>4. tally'[r].wait = tally[r].wait
      BY <3>2, <3>3 DEF Counted
    <3>5. QED
      BY <2>3, <2>4, <3>1, <3>4 DEF Hopeful
  <2> HIDE DEF t
  <2>7. QED
    BY <2>2, <2>3, <2>1, <2>5, <2>6, OthersAsTheyWere
<1>4. CASE Dispatch(r)
  <2>1. /\ pc' = [pc EXCEPT ![r] = "call"]
        /\ UNCHANGED <<targets, pos, tally, alarm, cooldown, wake>>
    BY <1>4 DEF Dispatch, Grant, Continue
  <2>2. \A q \in Caller \ {r} : pc'[q] = pc[q]
    BY <2>1 DEF Placed
  <2>3. pc[r] = "scan" /\ pc'[r] = "call"
    BY <1>4, <2>1 DEF Placed, Dispatch, Reserving, AtTarget
  <2>4. Attended'
    BY <2>3 DEF Attended, Stirring
  <2>5. QED
    BY <2>1, <2>2, <2>3, <2>4, OthersAsTheyWere DEF Uncooled, Hopeful, MayReserve, Usable
<1>5. CASE ReserveFails(r)
  <2>1. FailsClosed(Here(r)) \/ PersistFails(r, Here(r))
    BY <1>5 DEF ReserveFails
  <2>2. HasRateLimit(Here(r))
    BY <2>1 DEF FailsClosed, PersistFails
  <2>3. Here(r) \in Target
    BY <1>1, <1>5 DEF ReserveFails, Reserving
  <2>4. QED
    BY <2>2, <2>3 DEF OneLease
<1>6. CASE Succeed(r)
  <2>1. wake' = TRUE /\ Finish(r, "ok")
    BY <1>6 DEF Succeed
  <2>2. Attended'
    BY <2>1 DEF Attended
  <2>3. QED
    BY <1>6, <2>1, <2>2, FinishKeepsSleepers, OthersAsTheyWere DEF Succeed, Release, Uncooled, Hopeful
<1>7. CASE Fail(r) \/ CoolDown(r)
  <2>1. /\ wake' = TRUE /\ pc[r] \in {"call", "cool"}
        /\ UNCHANGED <<targets, tally, alarm>>
        /\ \E where \in {"scan", "cool"} : /\ pc' = [pc EXCEPT ![r] = where]
                                           /\ pos' = IF where = "scan" THEN [pos EXCEPT ![r] = @ + 1] ELSE pos
    BY <1>7 DEF Fail, CoolDown, Continue
  <2>2. \A q \in Caller \ {r} : pc'[q] = pc[q] /\ pos'[q] = pos[q]
    BY <2>1 DEF Placed
  <2>3. pc'[r] \in {"scan", "cool"}
    BY <2>1 DEF Placed
  <2>4. Attended'
    BY <2>1 DEF Attended
  <2>5. Uncooled' => Uncooled
    <3>1. CASE Fail(r)
      BY <3>1 DEF Fail, Release, Uncooled
    <3>2. CASE CoolDown(r)
      <4>1. /\ KeyOf[Here(r)] \in Key
            /\ cooldown' = [cooldown EXCEPT ![KeyOf[Here(r)]] = now + Cooldown]
        BY <3>2, HereIsTarget, LimiterAssumption DEF LimiterAssumption, CoolDown, SetCooldown
      <4>2. cooldown'[KeyOf[Here(r)]] # 0
        BY <4>1, LimiterAssumption DEF LimiterAssumption, LimiterInv, TypeOK
      <4>3. QED
        BY <4>1, <4>2 DEF Uncooled
    <3>3. QED
      BY <1>7, <3>1, <3>2
  <2>6. QED
    BY <2>1, <2>2, <2>3, <2>4, <2>5, OthersAsTheyWere DEF Hopeful, MayReserve, Usable
<1>8. CASE GiveUp(r) \/ (GiveUpWaiting(r) /\ pc[r] = "wait")
  <2>1. /\ UNCHANGED <<cooldown, wake>>
        /\ \E what : Finish(r, what)
    BY <1>8 DEF GiveUp, GiveUpWaiting, limiterVars
  <2>2. ~Stirring(r)
    BY <1>8 DEF GiveUp, PassOver, Stirring, Looking, Placed
  <2>3. Attended'
    BY <2>1, <2>2, FinishKeepsSleepers, OthersStir, StillAttended DEF Put
  <2>4. QED
    BY <2>1, <2>3, FinishKeepsSleepers, OthersAsTheyWere DEF Uncooled, Hopeful
<1>9. CASE Sleep(r)
  <2>1. /\ PassOver(r) /\ ~NothingToWaitFor(r)
        /\ pc' = [pc EXCEPT ![r] = "wait"]
        /\ alarm' = [alarm EXCEPT ![r] = IF tally[r].wait = 0 THEN 0 ELSE now + tally[r].wait]
        /\ UNCHANGED <<targets, pos, tally, cooldown, wake>>
    BY <1>9 DEF Sleep, limiterVars
  <2>2. \A q \in Caller \ {r} : pc'[q] = pc[q] /\ alarm'[q] = alarm[q]
    BY <2>1 DEF Placed
  <2>3. pc[r] = "scan" /\ pc'[r] = "wait" /\ alarm' = [q \in Caller |-> alarm'[q]]
    BY <2>1 DEF PassOver, Placed
  <2>4. ~Stirring(r) /\ (Uncooled => Put(r) /\ MayReserve(r))
    <3>1. ~Stirring(r)
      BY <2>1 DEF PassOver, Stirring, Looking, Placed
    <3>2. Uncooled => tally[r].busy
      BY <2>1, <2>3 DEF NothingToWaitFor, Hopeful
    <3>3. QED
      BY <2>3, <3>1, <3>2 DEF Put, Hopeful
  <2>5. \A q \in Caller \ {r} : (Put(q)' <=> Put(q)) /\ (Stirring(q)' <=> Stirring(q))
    BY <2>1, <2>2, OthersStir
  <2>6. Attended'
    BY <2>1, <2>4, <2>5, StillAttended
  <2>7. QED
    BY <2>1, <2>2, <2>3, <2>4, <2>6, OthersAsTheyWere DEF Uncooled, Hopeful, MayReserve, Usable
<1>10. CASE Wake(r) \/ AlarmRings(r)
  <2>1. /\ pc[r] = "wait"
        /\ pc' = [pc EXCEPT ![r] = "scan"] /\ pos' = [pos EXCEPT ![r] = 1]
        /\ tally' = [tally EXCEPT ![r] = NoTally] /\ alarm' = [alarm EXCEPT ![r] = 0]
        /\ UNCHANGED <<targets, cooldown>>
    BY <1>10 DEF Wake, AlarmRings, Rescan, limiterVars
  <2>2. \A q \in Caller \ {r} : /\ pc'[q] = pc[q] /\ pos'[q] = pos[q]
                                /\ tally'[q] = tally[q] /\ alarm'[q] = alarm[q]
    BY <2>1 DEF Placed
  <2>3. /\ pc'[r] = "scan" /\ pos'[r] = 1 /\ tally'[r] = NoTally
        /\ tally' = [q \in Caller |-> tally'[q]] /\ alarm' = [q \in Caller |-> alarm'[q]]
    BY <2>1 DEF Placed
  <2>4. Uncooled => MayReserve(r)
    BY <2>1 DEF Hopeful
  <2>5. Uncooled => Looking(r)'
    <3> SUFFICES ASSUME Uncooled PROVE Looking(r)'
      OBVIOUS
    <3>1. PICK i \in DOMAIN targets[r] : Usable(targets[r][i])
      BY <2>4 DEF MayReserve
    <3>2. i >= 1
      BY <3>1 DEF Placed
    <3>3. QED
      BY <2>1, <2>3, <3>1, <3>2 DEF Looking, NoTally, Usable
  <2>6. Attended'
    BY <2>1, <2>5 DEF Attended, Stirring, Uncooled
  <2>7. QED
    BY <2>1, <2>2, <2>3, <2>4, <2>6, OthersAsTheyWere DEF NoTally, Uncooled, Hopeful, MayReserve, Usable
<1>11. CASE GiveUpWaiting(r) /\ pc[r] # "wait"
  <2>1. /\ pc[r] = "queued" /\ pc' = [pc EXCEPT ![r] = "done"] /\ Forget({r})
        /\ UNCHANGED <<cooldown, wake>>
    BY <1>11 DEF GiveUpWaiting, limiterVars
  <2>2. /\ \A q \in Caller \ {r} : /\ pc'[q] = pc[q] /\ tally'[q] = tally[q] /\ alarm'[q] = alarm[q]
                                   /\ targets'[q] = targets[q] /\ pos'[q] = pos[q]
        /\ pc'[r] = "done"
        /\ tally' = [q \in Caller |-> tally'[q]] /\ alarm' = [q \in Caller |-> alarm'[q]]
    BY <2>1 DEF Forget, Placed
  <2>3. Attended'
    BY <2>1, <2>2, OthersStir, StillAttended DEF Put, Stirring, Looking
  <2>4. QED
    BY <2>1, <2>2, <2>3, OthersAsTheyWere DEF Uncooled, Hopeful
<1>12. QED
  BY <1>2, <1>3, <1>4, <1>5, <1>6, <1>7, <1>8, <1>9, <1>10, <1>11 DEF Work

LEMMA StepKeepsSleepers ==
  SleepInv /\ Placed /\ LimiterInv /\ [ExecNext]_execVars => SleepInv'
<1> SUFFICES ASSUME SleepInv, Placed, LimiterInv, [ExecNext]_execVars PROVE SleepInv'
  OBVIOUS
<1>1. ASSUME NEW r \in Caller, Start(r) \/ Acquire(r) PROVE SleepInv'
  <2>1. /\ pc[r] \in {"idle", "queued"}
        /\ \E where \in {"queued", "scan", "done"} : pc' = [pc EXCEPT ![r] = where]
        /\ \A q \in Caller \ {r} : targets'[q] = targets[q]
        /\ UNCHANGED <<pos, tally, alarm, cooldown, wake>>
    BY <1>1 DEF Start, Acquire, Placed, limiterVars
  <2>2. pc[r] = "queued" \/ pc'[r] # "scan"
    BY <1>1 DEF Start, Acquire, Placed
  <2>3. \A q \in Caller \ {r} : pc'[q] = pc[q]
    BY <2>1 DEF Placed
  <2>4. pc'[r] \in {"queued", "scan", "done"} /\ tally'[r] = NoTally
    BY <2>1 DEF Placed, SleepInv
  <2>5. ~Put(r)' /\ ~Stirring(r)
    BY <2>1, <2>4 DEF Put, Stirring, Looking, NoTally
  <2>6. Attended'
    BY <2>1, <2>3, <2>5, OthersStir, StillAttended DEF SleepInv
  <2>7. Hopeful(r)'
    BY <2>4 DEF Hopeful, NoTally
  <2>8. QED
    BY <2>1, <2>3, <2>4, <2>6, <2>7, OthersAsTheyWere DEF SleepInv, Uncooled
<1>2. ASSUME NEW r \in Caller, Work(r) PROVE SleepInv'
  BY <1>2, WorkKeepsSleepers
<1>3. CASE Crash
  <2>1. /\ pc' = [r \in Caller |-> IF pc[r] \in {"idle", "done"} THEN pc[r] ELSE "done"]
        /\ tally' = [r \in Caller |-> IF r \in {q \in Caller : pc[q] \notin {"idle", "done"}} THEN NoTally ELSE tally[r]]
        /\ alarm' = [r \in Caller |-> IF r \in {q \in Caller : pc[q] \notin {"idle", "done"}} THEN 0 ELSE alarm[r]]
    BY <1>3 DEF Crash, Forget
  <2>2. \A r \in Caller : /\ pc'[r] \in {"idle", "done"}
                          /\ pc'[r] = "idle" => pc[r] = "idle" /\ tally'[r] = tally[r]
    BY <2>1
  <2>3. \A r \in Caller : pc'[r] \notin {"scan", "call", "cool", "wait"}
    BY <2>2
  <2>4. OneLease'
    BY DEF SleepInv, OneLease, HasRateLimit
  <2>5. QED
    <3>1. \A r \in Caller : Hopeful(r)'
      BY <2>3 DEF Hopeful
    <3>2. \A r \in Caller : ~Put(r)'
      BY <2>3 DEF Put
    <3>3. QED
      BY <2>1, <2>2, <2>4, <3>1, <3>2 DEF SleepInv, Attended
<1>4. CASE \/ \E r \in Caller : Disconnect(r)
           \/ \E s \in Settings : UpdateProfiles(s)
           \/ Advance \/ UNCHANGED execVars
  <2>1. UNCHANGED <<pc, targets, pos, tally, alarm, cooldown, wake>>
    BY <1>4 DEF Disconnect, UpdateProfiles, Advance, Tick, execVars, controlVars, limiterVars
  <2>2. \A r \in Caller : (Put(r)' <=> Put(r)) /\ (Stirring(r)' <=> Stirring(r)) /\ (Hopeful(r)' <=> Hopeful(r))
    BY <2>1 DEF Put, Stirring, Looking, Hopeful, MayReserve, Usable
  <2>3. Attended' /\ OneLease'
    BY <2>1, <2>2, StillAttended DEF SleepInv, OneLease, HasRateLimit
  <2>4. QED
    BY <2>1, <2>2, <2>3 DEF SleepInv, Uncooled
<1>5. QED
  BY <1>1, <1>2, <1>3, <1>4 DEF ExecNext

\* With one lease to wait for, no sleeper is left over a free target: while it
\* sleeps the lease is taken, a wake-up is pending, or a request is on the
\* way to the lease or back from it.
THEOREM SleepersAreRemembered == OneLease /\ ExecSpec => []NoSleeperForgotten
<1>1. OneLease /\ ExecInit => SleepInv
  BY DEF ExecInit, Init, SleepInv, Hopeful, Attended, Put
<1>2. SleepInv /\ Placed /\ LimiterInv => NoSleeperForgotten
  <2> SUFFICES ASSUME SleepInv, Placed, LimiterInv, NEW r \in Caller,
                      pc[r] = "wait", alarm[r] = 0, Uncooled,
                      NEW i \in DOMAIN targets[r], Ready(targets[r][i], Tokens[r], now)
               PROVE  wake \/ \E q \in Caller : pc[q] \in {"scan", "cool"}
    BY DEF NoSleeperForgotten, Uncooled
  <2>1. targets[r][i] \in Target
    BY DEF Placed
  <2>2. \A q \in Caller : pc[q] # "call"
    BY <2>1, CallMeansBusy DEF Ready, SleepInv
  <2>3. wake \/ \E q \in Caller : Stirring(q)
    BY DEF SleepInv, Attended, Put
  <2>4. QED
    BY <2>2, <2>3 DEF Stirring, Looking
<1>3. ExecSpec => []LimiterInv
  BY ExecutionImplementsLimiter, LimiterSafety, PTL
<1>4. QED
  BY <1>1, <1>2, <1>3, AlwaysPlaced, StepKeepsSleepers, PTL DEF ExecSpec
=============================================================================
