\* Two requests for one slot, whose profile is replaced once: targets with
\* budgets, one switched off and one without provider, under a running clock.
CONSTANTS
  r1 = r1 r2 = r2 r3 = r3 profP = profP profQ = profQ tgtA = tgtA tgtB = tgtB tgtU = tgtU tgtX = tgtX
  Caller = {r1, r2}
  Target = {tgtX, tgtA, tgtB, tgtU}
  Key = {tgtX, tgtA, tgtB, tgtU}
  NoTarget = NoTarget
  KeyOf <- OwnKey
  MaxConcurrency <- One
  Rpm <- BudgetRpm
  Tpm <- Zero
  Rpd <- BudgetRpd
  Tokens <- OneToken
  Minute = 1
  Headroom = 1
  Day = 3
  Retention = 3
  StoreRetention = 3
  Cooldown = 1
  MaxTime = 2
  MaxEvents = 2
  Profile = {profP}
  ProfileOf <- BudgetProfiles
  Settings <- BudgetSettings
  Priority <- SamePriority
  Disabled = {tgtX}
  Unknown = {tgtU}
  Results = {"ok", "limited"}
  MaxUpdates = 1
SPECIFICATION ExecSpec
INVARIANTS SlotsMatchRequests LeasesMatchCalls
PROPERTIES ImplementsAdmission
CHECK_DEADLOCK FALSE
