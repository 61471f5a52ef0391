\* A small int, -3 .. 15: every initial and maximal delay and every failure count.
CONSTANTS
    IntMin <- MCIntMin
    IntMax = 15
SPECIFICATION FairSpec
INVARIANTS TypeOK DelayIsExponential
PROPERTIES Returns
CHECK_DEADLOCK FALSE
