\* Three requests for one lease, whose sleepers a cooldown may strand.
CONSTANTS
  r1 = r1 r2 = r2 r3 = r3 profP = profP profQ = profQ tgtA = tgtA tgtB = tgtB tgtU = tgtU tgtX = tgtX
  Caller = {r1, r2, r3}
  Target = {tgtA, tgtB, tgtX}
  Key = {"k"}
  NoTarget = NoTarget
  KeyOf <- OneLeaseKey
  MaxConcurrency <- One
  Rpm <- Zero
  Tpm <- Zero
  Rpd <- Zero
  Tokens <- OneToken
  Minute = 1
  Headroom = 1
  Day = 1
  Retention = 1
  StoreRetention = 1
  Cooldown = 1
  MaxTime = 1
  MaxEvents = 0
  Profile = {profP, profQ}
  ProfileOf <- OneLeaseProfiles
  Settings <- OneLeaseSettings
  Priority <- SamePriority
  Disabled = {tgtX}
  Unknown = {}
  Results = {"ok", "fail", "limited"}
  MaxUpdates = 0
SPECIFICATION FairExecSpec
INVARIANTS NoSleeperForgotten
PROPERTIES EveryRequestReturns
CHECK_DEADLOCK FALSE
