\* One device with two variables, both threads refreshing, clients diagnosing,
\* one configuration change.
CONSTANTS
    v1 = v1
    v2 = v2
    Devices = {d1}
    Variables = {v1, v2}
    Worker = worker
    Mcp = mcp
    Readings <- MCReadings
    Rules <- MCRules
    MaxChanges = 1
SPECIFICATION DiagnosisSpec
INVARIANTS NoStaleState SignatureBacked CausesMatchAlarms
PROPERTIES WorkerDoesNotRepeat  LooksFitTogether
