\* Every list of up to four targets in up to two tiers, over six requests.
CONSTANTS
  Listed = {1, 2, 3, 4}
  Level = {10, 20}
  MaxRequests = 6
SPECIFICATION RotationSpec
INVARIANTS TiersKept FairWhenAllOn
CHECK_DEADLOCK FALSE
