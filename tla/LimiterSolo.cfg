\* One target with every limit, two requests of different sizes, across days
\* (Day = 4) and restarts.
CONSTANTS
  c1 = c1
  c2 = c2
  solo = solo
  Caller = {c1, c2}
  Target = {solo}
  Key = {"k"}
  NoTarget = NoTarget
  KeyOf <- OneKey
  MaxConcurrency <- SoloMaxConcurrency
  Rpm <- SoloRpm
  Tpm <- SoloTpm
  Rpd <- SoloRpd
  Tokens <- SoloTokens
  Minute = 3
  Headroom = 1
  Day = 4
  Retention = 4
  StoreRetention = 4
  Cooldown = 1
  MaxTime = 5
  MaxEvents = 4
SPECIFICATION Spec
INVARIANTS MinuteBudget TokenBudget WaitIsRight
CHECK_DEADLOCK FALSE
