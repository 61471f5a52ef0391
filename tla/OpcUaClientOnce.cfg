\* Two (the default) attempts, a batch of two variables.
CONSTANTS
    retry_count = 1
    NumVariables = 2
    MaxStat = 1
SPECIFICATION Spec
INVARIANT OnlyReadsRetried
