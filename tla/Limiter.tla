------------------------------- MODULE Limiter -------------------------------
(***************************************************************************)
(* The per-target limiter of internal/execution: reservations taken under  *)
(* s.mu before a call is dispatched, given back when it returns, and the   *)
(* durable usage events behind them (internal/storage/execution_usage.go). *)
(* A caller is anything between reserve and release; Execution.tla says    *)
(* who calls.  Time is an integer clock; the windows keep the order of     *)
(* the code's: Minute < Day < Retention < StoreRetention.                  *)
(***************************************************************************)
EXTENDS Integers, FiniteSets, FiniteSetsExt

CONSTANTS
  Caller,         \* requests that may hold a reservation
  Target,         \* configured execution targets, of every profile
  Key,            \* usage keys: what is shared by targets naming one provider and model
  NoTarget,       \* "holds nothing"
  KeyOf,          \* usageKey of a target
  MaxConcurrency, \* per target; 0 is unlimited
  Rpm, Tpm, Rpd,  \* requests_per_minute, tokens_per_minute, requests_per_day; 0 is none
  Tokens,         \* estimateRequestTokens of a caller's request
  Minute, Headroom, Day, Retention, StoreRetention, Cooldown,
  MaxTime,        \* bound on the clock
  MaxEvents       \* bound on the usage events ever written

ASSUME LimiterAssumption ==
  /\ NoTarget \notin Target
  /\ IsFiniteSet(Caller)
  /\ KeyOf \in [Target -> Key]
  /\ MaxConcurrency \in [Target -> Nat]
  /\ Rpm \in [Target -> Nat] /\ Tpm \in [Target -> Nat] /\ Rpd \in [Target -> Nat]
  /\ Tokens \in [Caller -> Nat \ {0}]
  /\ {Minute, Headroom, Day, Retention, StoreRetention, Cooldown} \subseteq Nat \ {0}
  /\ Minute <= Day /\ Day <= Retention /\ Retention <= StoreRetention
  /\ MaxTime \in Nat /\ MaxEvents \in Nat

VARIABLES
  now,       \* s.now()
  holds,     \* the target a caller's reservation is on
  active,    \* usage[key].active
  events,    \* usage[key].events, of every key together
  usageErr,  \* loadUsage failed when this process started
  cooldown,  \* cooldowns[key]; 0 when there is none
  store,     \* rows of execution_usage_events
  nextId,    \* rows are distinct; also what MaxEvents bounds
  granted    \* history: rate-limited reservations that let a call go ahead

limiterVars == <<now, holds, active, events, usageErr, cooldown, store, nextId, granted>>
-----------------------------------------------------------------------------
Event == [id: Nat, target: Target, at: Nat, tokens: Nat]

HasRateLimit(t) == Rpm[t] > 0 \/ Tpm[t] > 0 \/ Rpd[t] > 0

Init ==
  /\ now = 0
  /\ holds = [c \in Caller |-> NoTarget]
  /\ active = [k \in Key |-> 0]
  /\ events = {}
  /\ usageErr = FALSE
  /\ cooldown = [k \in Key |-> 0]
  /\ store = {}
  /\ nextId = 0
  /\ granted = {}

\* What pruneUsage leaves of a key's events at time x.
Kept(k, x) == {e \in events : KeyOf[e.target] = k /\ e.at > x - Retention}

\* events after reserve has pruned the key it looks at.
Pruned(k) == {e \in events : KeyOf[e.target] = k => e.at > now - Retention}

InMinute(k, x) == {e \in Kept(k, x) : e.at > x - Minute}

OnDay(k, x) == {e \in Kept(k, x) : e.at \div Day = x \div Day}

TokensIn(S) == MapThenSumSet(LAMBDA e : e.tokens, S)


\* evaluateRateLimit: what stops a reservation of n tokens at time x.
MinuteFull(t, x) == Rpm[t] > 0 /\ Cardinality(InMinute(KeyOf[t], x)) >= Rpm[t]

\* Mutant: the budget is compared without the reservation asked for.
TokensFullLate(t, n, x) == Tpm[t] > 0 /\ TokensIn(InMinute(KeyOf[t], x)) > Tpm[t]

TokensFull(t, n, x) == Tpm[t] > 0 /\ TokensIn(InMinute(KeyOf[t], x)) + n > Tpm[t]

DaySpent(t, x) == Rpd[t] > 0 /\ Cardinality(OnDay(KeyOf[t], x)) >= Rpd[t]

Cooling(t, x) == x < cooldown[KeyOf[t]]

Busy(t) == MaxConcurrency[t] > 0 /\ active[KeyOf[t]] >= MaxConcurrency[t]

Ready(t, n, x) ==
  ~Cooling(t, x) /\ ~Busy(t) /\ ~DaySpent(t, x) /\ ~MinuteFull(t, x) /\ ~TokensFull(t, n, x)

\* Mutant: an unreadable budget is taken for an empty one.
FailsOpen(t) == FALSE

\* A process that could not read its usage refuses every limited target.
FailsClosed(t) == usageErr /\ HasRateLimit(t)

\* Mutant: waits for the newest call of the window instead of the oldest.
RequestWaitNewest(t, x) ==
  IF MinuteFull(t, x)
  THEN Max({e.at : e \in InMinute(KeyOf[t], x)}) + Minute + Headroom - x
  ELSE 0

\* The oldest call of a full minute window leaves it; a margin is added.
RequestWait(t, x) ==
  IF MinuteFull(t, x)
  THEN Min({e.at : e \in InMinute(KeyOf[t], x)}) + Minute + Headroom - x
  ELSE 0

\* tokenAvailabilityWait: the oldest calls leave the window first, until the
\* new reservation fits; one that never fits waits a whole window.
TokenWait(t, n, x) ==
  LET recent == InMinute(KeyOf[t], x)
      fits   == {a \in {e.at : e \in recent} :
                   TokensIn({e \in recent : e.at > a}) + n <= Tpm[t]}
  IN  IF ~TokensFull(t, n, x) THEN 0
      ELSE IF fits = {} THEN Minute + Headroom
      ELSE Min(fits) + Minute + Headroom - x

\* The wait reserve answers with; 0 where it names none.
Wait(t, n, x) ==
  IF Cooling(t, x) THEN cooldown[KeyOf[t]] - x
  ELSE IF Busy(t) \/ DaySpent(t, x) THEN 0
  ELSE Max({RequestWait(t, x), TokenWait(t, n, x)})
-----------------------------------------------------------------------------
NewEvent(c, t) == [id |-> nextId, target |-> t, at |-> now, tokens |-> Tokens[c]]

\* The DELETE that RecordExecutionUsage runs before its INSERT.
StoreTrimmed == {e \in store : e.at >= now - StoreRetention}

\* reserve answers "not now"; a cooling key returns before its usage is pruned.
Refuse(c, t) ==
  /\ holds[c] = NoTarget
  /\ ~FailsClosed(t)
  /\ ~Ready(t, Tokens[c], now)
  /\ events' = IF Cooling(t, now) THEN events ELSE Pruned(KeyOf[t])
  /\ UNCHANGED <<now, holds, active, usageErr, cooldown, store, nextId, granted>>

\* reserve succeeds: the event is durable before memory counts it.
Grant(c, t) ==
  /\ holds[c] = NoTarget
  /\ ~FailsClosed(t)
  /\ Ready(t, Tokens[c], now)
  /\ holds' = [holds EXCEPT ![c] = t]
  /\ active' = [active EXCEPT ![KeyOf[t]] = @ + 1]
  /\ IF HasRateLimit(t)
     THEN /\ nextId < MaxEvents
          /\ nextId' = nextId + 1
          /\ store' = StoreTrimmed \cup {NewEvent(c, t)}
          /\ events' = Pruned(KeyOf[t]) \cup {NewEvent(c, t)}
          /\ granted' = granted \cup {NewEvent(c, t)}
     ELSE /\ events' = Pruned(KeyOf[t])
          /\ UNCHANGED <<nextId, store, granted>>
  /\ UNCHANGED <<now, usageErr, cooldown>>

\* RecordExecutionUsage reports an error, wherever in its two statements it
\* arose: the DELETE, the INSERT, or the answer to an INSERT that was done.
PersistFails(c, t) ==
  /\ holds[c] = NoTarget
  /\ ~FailsClosed(t)
  /\ Ready(t, Tokens[c], now)
  /\ HasRateLimit(t)
  /\ events' = Pruned(KeyOf[t])
  /\ \/ store' \in {store, StoreTrimmed} /\ nextId' = nextId
     \/ /\ nextId < MaxEvents
        /\ nextId' = nextId + 1
        /\ store' = StoreTrimmed \cup {NewEvent(c, t)}
  /\ UNCHANGED <<now, holds, active, usageErr, cooldown, granted>>

\* The call returned.
Release(c) ==
  /\ holds[c] # NoTarget
  /\ LET k == KeyOf[holds[c]]
     IN  active' = [active EXCEPT ![k] = IF @ > 0 THEN @ - 1 ELSE @]
  /\ holds' = [holds EXCEPT ![c] = NoTarget]
  /\ UNCHANGED <<now, events, usageErr, cooldown, store, nextId, granted>>

\* setCooldown, after a call the provider refused as rate limited.
SetCooldown(t) ==
  /\ cooldown' = [cooldown EXCEPT ![KeyOf[t]] = now + Cooldown]
  /\ UNCHANGED <<now, holds, active, events, usageErr, store, nextId, granted>>

Tick ==
  /\ now < MaxTime
  /\ now' = now + 1
  /\ UNCHANGED <<holds, active, events, usageErr, cooldown, store, nextId, granted>>

LoadExecutionUsage == {e \in store : e.at >= now - Retention}

\* The process dies, with every call it had in flight, and a new one loads
\* the usage of the retention window, or fails to.
Restart ==
  /\ holds' = [c \in Caller |-> NoTarget]
  /\ active' = [k \in Key |-> 0]
  /\ cooldown' = [k \in Key |-> 0]
  /\ \/ /\ usageErr' = FALSE
        /\ events' = LoadExecutionUsage
     \/ /\ usageErr' = TRUE
        /\ events' = {}
  /\ UNCHANGED <<now, store, nextId, granted>>

Next ==
  \/ \E c \in Caller, t \in Target : Refuse(c, t) \/ Grant(c, t) \/ PersistFails(c, t)
  \/ \E c \in Caller : Release(c)
  \/ \E t \in Target : SetCooldown(t)
  \/ Tick
  \/ Restart

Spec == Init /\ [][Next]_limiterVars
-----------------------------------------------------------------------------
TypeOK ==
  /\ now \in Nat
  /\ holds \in [Caller -> Target \cup {NoTarget}]
  /\ active \in [Key -> Nat]
  /\ events \subseteq Event /\ store \subseteq Event /\ granted \subseteq Event
  /\ usageErr \in BOOLEAN
  /\ cooldown \in [Key -> Nat]
  /\ nextId \in Nat

HoldersOfKey(k) == {c \in Caller : holds[c] # NoTarget /\ KeyOf[holds[c]] = k}

\* The counter reserve compares with max_concurrency is exactly the number of
\* reservations on the key: none leaks and none is given back twice, also when
\* targets share the key or the process restarts.
ActiveCountsHolders == \A k \in Key : active[k] = Cardinality(HoldersOfKey(k))

\* What the limiter decides on misses no call that can still matter: the call
\* may have been let through by an earlier process, its row trimmed since.
MemoryIsComplete ==
  ~usageErr => \A e \in granted : e.at > now - Retention => e \in events

HoldersOf(t) == {c \in Caller : holds[c] = t}

\* "Per-target max_concurrency leases a credential to a bounded number of
\* in-flight calls" (README.md:297): whatever other targets share its key,
\* and across restarts, no more calls than that hold a target at once.
ConcurrencyBound ==
  \A t \in Target : MaxConcurrency[t] > 0 => Cardinality(HoldersOf(t)) <= MaxConcurrency[t]

\* Calls let through to e's target in the Minute that ends with e, and on e's
\* day.  No window holds more calls than one that ends with a call.
MinuteOf(e) == {f \in granted : f.target = e.target /\ e.at - Minute < f.at /\ f.at <= e.at}

DayOf(e) == {f \in granted : f.target = e.target /\ f.at \div Day = e.at \div Day}

\* requests_per_minute holds over every sliding window, not only the one the
\* limiter looked at, and over restarts ("free-tier safeguards survive
\* restarts", README.md:297).
MinuteBudget ==
  \A e \in granted : Rpm[e.target] > 0 => Cardinality(MinuteOf(e)) <= Rpm[e.target]

\* tokens_per_minute likewise; a reservation larger than the whole budget is
\* never let through.
TokenBudget ==
  \A e \in granted : Tpm[e.target] > 0 => TokensIn(MinuteOf(e)) <= Tpm[e.target]

\* requests_per_day holds on every UTC day, however often the process restarts.
DailyBudget ==
  \A e \in granted : Rpd[e.target] > 0 => Cardinality(DayOf(e)) <= Rpd[e.target]

\* The wait a refused caller is told is right: it is positive, the minute
\* windows are still shut just before the margin it adds, and with no call in
\* between they are open after it, for a request not larger than the whole
\* budget.  The last needs that all the window counts are calls let through to
\* the target: where another target shares the key, or a restart brought back
\* the row of a reservation whose write was done but answered an error, more
\* calls may be in it than the target may make, and one wait is not enough.
WaitIsRight ==
  \A t \in Target, c \in Caller :
    LET n == Tokens[c]
        w == Wait(t, n, now)
        y == now + w - Headroom - 1
    IN  /\ ~Cooling(t, now) /\ ~Busy(t) /\ ~DaySpent(t, now)
        /\ MinuteFull(t, now) \/ TokensFull(t, n, now)
        => /\ w > 0
           /\ MinuteFull(t, y) \/ TokensFull(t, n, y)
           /\ /\ \A e \in InMinute(KeyOf[t], now) : e \in granted /\ e.target = t
              /\ Tpm[t] > 0 => n <= Tpm[t]
              => ~MinuteFull(t, now + w) /\ ~TokensFull(t, n, now + w)

=============================================================================
