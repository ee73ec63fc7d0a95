SPECIFICATION FairSpec
CONSTANTS
  Tricks = 3
  BonusTricks = {2}
  Deals <- TwoDeals
  MaxLost = 2
INVARIANT InTurn PlaysByTheRules ScoredOnce InStep
PROPERTY Completes
CHECK_DEADLOCK FALSE
