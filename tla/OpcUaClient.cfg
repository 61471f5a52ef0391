\* Three attempts, a batch of two variables.
CONSTANTS
    retry_count = 2
    NumVariables = 2
    MaxStat = 1
SPECIFICATION FairSpec
INVARIANTS TypeOK OkIsEarned BatchIsWhole EffectsBounded
PROPERTIES CallReturns
