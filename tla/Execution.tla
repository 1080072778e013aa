------------------------------ MODULE Execution ------------------------------
(***************************************************************************)
(* Service.Execute of internal/execution: a request takes a slot of its    *)
(* profile, tries the profile's targets in order, each under a reservation *)
(* of Limiter, and sleeps when every target only asks it to come back.     *)
(* Sleepers of all profiles share one wake channel of capacity one.        *)
(* Requests are Limiter's callers; each executes once.                     *)
(***************************************************************************)
EXTENDS Limiter, TargetOrder

CONSTANTS
  Profile, ProfileOf,    \* profiles, and the one a request names
  Settings,              \* what execution_profiles of the settings may be
  Priority, Disabled,    \* of the targets; other limits are another target
  Unknown,               \* targets whose provider is not configured
  Results,               \* what providers answer: "ok", "fail", "limited"
  MaxUpdates             \* bound on UpdateProfiles

\* A profile's configuration: whether it may be executed, its targets sorted by
\* priority, its strategy, max_concurrency and timeout_seconds.
Config == [on: BOOLEAN, targets: Seq(Target), rotates: BOOLEAN, slots: Nat \ {0}, timeout: Nat \ {0}]

ASSUME ExecutionAssumption ==
  /\ ProfileOf \in [Caller -> Profile]
  /\ Settings \subseteq [Profile -> Config]
  /\ Priority \in [Target -> Nat]
  /\ Disabled \subseteq Target /\ Unknown \subseteq Target
  /\ Results \subseteq {"ok", "fail", "limited"}
  /\ MaxUpdates \in Nat

VARIABLES
  pc,         \* where in Execute each request is
  targets,    \* tryTargets: the order this request tries them in
  pos,        \* the target it is at
  tally,      \* what this pass over the targets was refused for
  attempted,  \* the targets in response.Attempts with an error
  deadline,   \* of the context with the profile's timeout
  alarm,      \* the timer a sleeper set; 0 is none
  gone,       \* requests whose client disconnected
  outcome,    \* what Execute returned
  epoch,      \* how often UpdateProfiles ran
  profiles,   \* the settings of each epoch
  runtime,    \* the epoch whose configuration and semaphore a request uses
  slots,      \* semaphore length, per profile and epoch
  rotation,   \* s.rotation
  wake        \* the wake channel holds a token

controlVars == <<pc, targets, pos, tally, attempted, deadline, alarm, gone, outcome,
                 epoch, profiles, runtime, slots, rotation, wake>>
execVars == <<limiterVars, controlVars>>
-----------------------------------------------------------------------------
NoTally == [limited |-> 0, daily |-> 0, busy |-> FALSE, wait |-> 0]

Running(r) == pc[r] \in {"scan", "call", "cool", "wait"}

Here(r) == targets[r][pos[r]]

ConfigOf(r) == profiles[runtime[r]][ProfileOf[r]]

Expired(r) == r \in gone \/ now >= deadline[r]

ExecInit ==
  /\ Init
  /\ pc = [r \in Caller |-> "idle"]
  /\ targets = [r \in Caller |-> <<>>]
  /\ pos = [r \in Caller |-> 1]
  /\ tally = [r \in Caller |-> NoTally]
  /\ attempted = [r \in Caller |-> {}]
  /\ deadline = [r \in Caller |-> 0]
  /\ alarm = [r \in Caller |-> 0]
  /\ gone = {}
  /\ outcome = [r \in Caller |-> "none"]
  /\ epoch = 0
  /\ \E s \in Settings : profiles = [g \in 0..MaxUpdates |-> s]
  /\ runtime = [r \in Caller |-> 0]
  /\ slots = [p \in Profile |-> [g \in 0..MaxUpdates |-> 0]]
  /\ rotation = [p \in Profile |-> 0]
  /\ wake = FALSE

\* runtimeFor: the semaphore is the one of the configuration read here.
Start(r) ==
  /\ pc[r] = "idle"
  /\ IF profiles[epoch][ProfileOf[r]].on
     THEN /\ pc' = [pc EXCEPT ![r] = "queued"]
          /\ runtime' = [runtime EXCEPT ![r] = epoch]
          /\ UNCHANGED outcome
     ELSE /\ pc' = [pc EXCEPT ![r] = "done"]
          /\ outcome' = [outcome EXCEPT ![r] = "disabled"]
          /\ UNCHANGED runtime
  /\ UNCHANGED <<limiterVars, targets, pos, tally, attempted, deadline, alarm, gone,
                 epoch, profiles, slots, rotation, wake>>

\* acquire got a slot: the timeout starts and targetsFor fixes the order.
Acquire(r) ==
  LET p == ProfileOf[r]
      config == ConfigOf(r)
  IN  /\ pc[r] = "queued"
      /\ slots[p][runtime[r]] < config.slots
      /\ now + config.timeout <= MaxTime
      /\ slots' = [slots EXCEPT ![p][runtime[r]] = @ + 1]
      /\ deadline' = [deadline EXCEPT ![r] = now + config.timeout]
      /\ targets' = [targets EXCEPT ![r] =
                       TargetsFor(config.targets, Priority, config.rotates, rotation[p])]
      /\ rotation' = IF CountsRotation(config.targets, config.rotates)
                     THEN [rotation EXCEPT ![p] = @ + 1] ELSE rotation
      /\ pc' = [pc EXCEPT ![r] = "scan"]
      /\ UNCHANGED <<limiterVars, pos, tally, attempted, alarm, gone, outcome,
                     epoch, profiles, runtime, wake>>

\* tryTargets is over: its local variables are gone.
Forget(R) ==
  /\ targets' = [r \in Caller |-> IF r \in R THEN <<>> ELSE targets[r]]
  /\ pos' = [r \in Caller |-> IF r \in R THEN 1 ELSE pos[r]]
  /\ tally' = [r \in Caller |-> IF r \in R THEN NoTally ELSE tally[r]]
  /\ attempted' = [r \in Caller |-> IF r \in R THEN {} ELSE attempted[r]]
  /\ deadline' = [r \in Caller |-> IF r \in R THEN 0 ELSE deadline[r]]
  /\ alarm' = [r \in Caller |-> IF r \in R THEN 0 ELSE alarm[r]]
  /\ gone' = gone \ R

\* Mutant: the slot given back is one of the semaphore now configured.
FinishCurrent(r, what) ==
  /\ pc' = [pc EXCEPT ![r] = "done"]
  /\ outcome' = [outcome EXCEPT ![r] = what]
  /\ slots' = [slots EXCEPT ![ProfileOf[r]][epoch] = @ - 1]
  /\ Forget({r})
  /\ UNCHANGED <<epoch, profiles, runtime, rotation>>

\* Execute returns and its deferred release gives the slot back.
Finish(r, what) ==
  /\ pc' = [pc EXCEPT ![r] = "done"]
  /\ outcome' = [outcome EXCEPT ![r] = what]
  /\ slots' = [slots EXCEPT ![ProfileOf[r]][runtime[r]] = @ - 1]
  /\ Forget({r})
  /\ UNCHANGED <<epoch, profiles, runtime, rotation>>

\* On to the next target of the pass, at place where.
Continue(r, where) ==
  /\ pc' = [pc EXCEPT ![r] = where]
  /\ pos' = IF where = "scan" THEN [pos EXCEPT ![r] = @ + 1] ELSE pos
  /\ UNCHANGED <<targets, deadline, alarm, gone, outcome, epoch, profiles, runtime, slots, rotation>>
-----------------------------------------------------------------------------
\* One turn of the loop over targets (tryTargets), by what it meets.
AtTarget(r) == pc[r] = "scan" /\ pos[r] <= Len(targets[r])

SkipDisabled(r) ==
  /\ AtTarget(r) /\ Here(r) \in Disabled
  /\ Continue(r, "scan")
  /\ UNCHANGED <<limiterVars, tally, attempted, wake>>

NoProvider(r) ==
  /\ AtTarget(r) /\ Here(r) \in Unknown \ Disabled
  /\ attempted' = [attempted EXCEPT ![r] = @ \cup {Here(r)}]
  /\ Continue(r, "scan")
  /\ UNCHANGED <<limiterVars, tally, wake>>

Reserving(r) == AtTarget(r) /\ Here(r) \notin Disabled \cup Unknown

\* tally after one more refusal by t.
Counted(r, t) ==
  LET w    == Wait(t, Tokens[r], now)
      busy == ~Cooling(t, now) /\ Busy(t)
      day  == ~Cooling(t, now) /\ ~Busy(t) /\ DaySpent(t, now)
  IN  [limited |-> tally[r].limited + (IF busy THEN 0 ELSE 1),
       daily   |-> tally[r].daily + (IF day THEN 1 ELSE 0),
       busy    |-> tally[r].busy \/ busy,
       wait    |-> IF w > 0 /\ (tally[r].wait = 0 \/ w < tally[r].wait) THEN w ELSE tally[r].wait]

Refused(r) ==
  /\ Reserving(r)
  /\ Refuse(r, Here(r))
  /\ tally' = [tally EXCEPT ![r] = Counted(r, Here(r))]
  /\ Continue(r, "scan")
  /\ UNCHANGED <<attempted, wake>>

\* Mutant: reservation.ready is not looked at.
DispatchUnready(r) ==
  /\ Reserving(r)
  /\ holds' = [holds EXCEPT ![r] = Here(r)]
  /\ active' = [active EXCEPT ![KeyOf[Here(r)]] = @ + 1]
  /\ Continue(r, "call")
  /\ UNCHANGED <<now, events, usageErr, cooldown, store, nextId, granted, tally, attempted, wake>>

\* A reservation that must be persisted is not, once the context is done.
Dispatch(r) ==
  /\ Reserving(r)
  /\ HasRateLimit(Here(r)) => ~Expired(r)
  /\ Grant(r, Here(r))
  /\ Continue(r, "call")
  /\ UNCHANGED <<tally, attempted, wake>>

\* reserve's error ends the request, whatever targets are left.
ReserveFails(r) ==
  /\ Reserving(r)
  /\ \/ FailsClosed(Here(r)) /\ UNCHANGED limiterVars
     \/ PersistFails(r, Here(r))
  /\ Finish(r, "usageError")
  /\ UNCHANGED wake

\* The provider answers, or the context does for it: its timeout counts as a
\* rate limit, a disconnect as a plain error.  The lease is released before the answer is looked at.
Answers(r) ==
  Results \cup {x \in {"limited"} : now >= deadline[r]} \cup {x \in {"fail"} : r \in gone}

\* Mutant: a call that succeeded wakes nobody.
SucceedSilently(r) ==
  /\ pc[r] = "call" /\ "ok" \in Answers(r)
  /\ Release(r)
  /\ Finish(r, "ok")
  /\ UNCHANGED wake

Succeed(r) ==
  /\ pc[r] = "call" /\ "ok" \in Answers(r)
  /\ Release(r)
  /\ wake' = TRUE
  /\ Finish(r, "ok")

\* Mutant: the lease is kept while other targets are tried.
FailHolding(r) ==
  /\ pc[r] = "call"
  /\ wake' = TRUE
  /\ attempted' = [attempted EXCEPT ![r] = @ \cup {Here(r)}]
  /\ \/ "fail" \in Answers(r) /\ Continue(r, "scan")
     \/ "limited" \in Answers(r) /\ Continue(r, "cool")
  /\ UNCHANGED <<limiterVars, tally>>

Fail(r) ==
  /\ pc[r] = "call"
  /\ Release(r)
  /\ wake' = TRUE
  /\ attempted' = [attempted EXCEPT ![r] = @ \cup {Here(r)}]
  /\ \/ "fail" \in Answers(r) /\ Continue(r, "scan")
     \/ "limited" \in Answers(r) /\ Continue(r, "cool")
  /\ UNCHANGED tally

\* setCooldown, a critical section of its own.
CoolDown(r) ==
  /\ pc[r] = "cool"
  /\ SetCooldown(Here(r))
  /\ wake' = TRUE
  /\ Continue(r, "scan")
  /\ UNCHANGED <<tally, attempted>>

\* The decisions below the loop, in their order.
PassOver(r) == pc[r] = "scan" /\ pos[r] > Len(targets[r])

DayIsSpent(r) == tally[r].limited > 0 /\ tally[r].daily = tally[r].limited

NothingToWaitFor(r) == ~tally[r].busy /\ tally[r].wait = 0

TooLate(r) == tally[r].wait > 0 /\ now + tally[r].wait > deadline[r]

GiveUp(r) ==
  /\ PassOver(r)
  /\ \/ attempted[r] # {} /\ Finish(r, "failed")
     \/ attempted[r] = {} /\ DayIsSpent(r) /\ Finish(r, "daily")
     \/ attempted[r] = {} /\ ~DayIsSpent(r) /\ NothingToWaitFor(r) /\ Finish(r, "noTargets")
     \/ attempted[r] = {} /\ ~DayIsSpent(r) /\ TooLate(r) /\ Finish(r, "rateLimited")
  /\ UNCHANGED <<limiterVars, wake>>

Sleep(r) ==
  /\ PassOver(r)
  /\ attempted[r] = {} /\ ~DayIsSpent(r) /\ ~NothingToWaitFor(r) /\ ~TooLate(r)
  /\ pc' = [pc EXCEPT ![r] = "wait"]
  /\ alarm' = [alarm EXCEPT ![r] = IF tally[r].wait = 0 THEN 0 ELSE now + tally[r].wait]
  /\ UNCHANGED <<limiterVars, targets, pos, tally, attempted, deadline, gone, outcome,
                 epoch, profiles, runtime, slots, rotation, wake>>

\* waitUntilAvailable returns and the targets are tried again from the first.
Rescan(r) ==
  /\ pc' = [pc EXCEPT ![r] = "scan"]
  /\ pos' = [pos EXCEPT ![r] = 1]
  /\ tally' = [tally EXCEPT ![r] = NoTally]
  /\ alarm' = [alarm EXCEPT ![r] = 0]
  /\ UNCHANGED <<limiterVars, targets, attempted, deadline, gone, outcome,
                 epoch, profiles, runtime, slots, rotation>>

Wake(r) == pc[r] = "wait" /\ wake /\ wake' = FALSE /\ Rescan(r)

AlarmRings(r) ==
  /\ pc[r] = "wait" /\ alarm[r] > 0 /\ now >= alarm[r]
  /\ UNCHANGED wake
  /\ Rescan(r)

\* Mutant: the timeout is for provider calls only.
GiveUpWaitingIfGone(r) ==
  /\ pc[r] = "wait" /\ r \in gone /\ Finish(r, "context")
  /\ UNCHANGED <<limiterVars, wake>>

\* Mutant: release is deferred before acquire has succeeded.
GiveUpWaitingReleases(r) ==
  /\ \/ pc[r] = "wait" /\ Expired(r)
     \/ pc[r] = "queued" /\ r \in gone
  /\ Finish(r, "context")
  /\ UNCHANGED <<limiterVars, wake>>

\* A context is done while its request sleeps, or still waits for a slot.
GiveUpWaiting(r) ==
  /\ \/ pc[r] = "wait" /\ Expired(r) /\ Finish(r, "context")
     \/ /\ pc[r] = "queued" /\ r \in gone
        /\ pc' = [pc EXCEPT ![r] = "done"]
        /\ outcome' = [outcome EXCEPT ![r] = "context"]
        /\ Forget({r})
        /\ UNCHANGED <<epoch, profiles, runtime, slots, rotation>>
  /\ UNCHANGED <<limiterVars, wake>>

Disconnect(r) ==
  /\ pc[r] = "queued" \/ Running(r)
  /\ gone' = gone \cup {r}
  /\ UNCHANGED <<limiterVars, pc, targets, pos, tally, attempted, deadline, alarm, outcome,
                 epoch, profiles, runtime, slots, rotation, wake>>

\* New settings: every profile is configured anew, with a new semaphore;
\* requests keep the configuration and the semaphore they have.
UpdateProfiles(s) ==
  /\ epoch < MaxUpdates
  /\ epoch' = epoch + 1
  /\ profiles' = [profiles EXCEPT ![epoch + 1] = s]
  /\ UNCHANGED <<limiterVars, pc, targets, pos, tally, attempted, deadline, alarm, gone,
                 outcome, runtime, slots, rotation, wake>>

\* The server process dies; requests it was serving get no answer from it.
Crash ==
  /\ Restart
  /\ pc' = [r \in Caller |-> IF pc[r] \in {"idle", "done"} THEN pc[r] ELSE "done"]
  /\ outcome' = [r \in Caller |-> IF pc[r] \in {"idle", "done"} THEN outcome[r] ELSE "lost"]
  /\ slots' = [p \in Profile |-> [g \in 0..MaxUpdates |-> 0]]
  /\ rotation' = [p \in Profile |-> 0]
  /\ wake' = FALSE
  /\ Forget({r \in Caller : pc[r] \notin {"idle", "done"}})
  /\ UNCHANGED <<epoch, profiles, runtime>>

Advance == Tick /\ UNCHANGED controlVars

Work(r) ==
  \/ SkipDisabled(r) \/ NoProvider(r) \/ Refused(r) \/ Dispatch(r) \/ ReserveFails(r)
  \/ Succeed(r) \/ Fail(r) \/ CoolDown(r) \/ GiveUp(r) \/ Sleep(r)
  \/ Wake(r) \/ AlarmRings(r) \/ GiveUpWaiting(r)

ExecNext ==
  \/ \E r \in Caller : Start(r) \/ Acquire(r) \/ Work(r) \/ Disconnect(r)
  \/ \E s \in Settings : UpdateProfiles(s)
  \/ Crash
  \/ Advance

ExecSpec == ExecInit /\ [][ExecNext]_execVars
\* The runtime runs every goroutine that can go on; providers honour the
\* context they are called with, so a call ends at the latest by its deadline;
\* time passes.  Clients, crashes and new settings owe nothing.
ExecFairness ==
  /\ WF_execVars(Advance)
  /\ \A r \in Caller : WF_execVars(Work(r))

FairExecSpec == ExecSpec /\ ExecFairness
-----------------------------------------------------------------------------
\* The calls out to providers.
Calls == [r \in Caller |-> IF pc[r] = "call" THEN Here(r) ELSE NoTarget]

Admitted == INSTANCE Admission
              WITH clock <- now, calls <- Calls, admitted <- granted, Id <- 0..MaxEvents

\* Every call that goes out to a provider is one that a gate with the whole
\* history of calls, over all earlier processes, would have let through: what
\* was pruned from memory, trimmed from the store or lost in a restart, and what
\* other requests do between reserve and release, lets no call out too many.
ImplementsAdmission == Admitted!AdmissionSpec

\* A lease is out exactly while its call is: no path out of tryTargets, an
\* error, a timeout, a disconnect, keeps one or gives one back twice.
LeasesMatchCalls ==
  \A r \in Caller :
    IF pc[r] = "call" THEN holds[r] = Here(r) ELSE holds[r] = NoTarget

\* The requests of a profile that took a slot of its semaphore of epoch g.
Occupants(p, g) == {r \in Caller : Running(r) /\ ProfileOf[r] = p /\ runtime[r] = g}

\* Each semaphore counts the requests between acquire and return that took it,
\* also when UpdateProfiles replaced it meanwhile, and stays within
\* the max_concurrency it was made for.
SlotsMatchRequests ==
  \A p \in Profile, g \in 0..MaxUpdates :
    /\ slots[p][g] = Cardinality(Occupants(p, g))
    /\ slots[p][g] <= profiles[g][p].slots

\* No sleeper stays asleep over a target that is free for it, unless a wake-up
\* is pending or another request is just looking for a target.  So it is as
\* long as one key with one lease is all that is waited for; a cooldown, a
\* budget, a second key or a second lease can strand a sleeper until its timeout.
NoSleeperForgotten ==
  \A r \in Caller :
    /\ pc[r] = "wait" /\ alarm[r] = 0
    /\ \A k \in Key : cooldown[k] = 0
    /\ \E i \in DOMAIN targets[r] :
         targets[r][i] \notin Disabled \cup Unknown /\ Ready(targets[r][i], Tokens[r], now)
    => wake \/ \E q \in Caller : pc[q] \in {"scan", "cool"}

\* Every request admitted to a profile returns, in whatever state its targets
\* and the other requests are.
EveryRequestReturns == \A r \in Caller : Running(r) ~> pc[r] = "done"

=============================================================================
