\* One server, two devices, two configuration changes.  The process may end.
CONSTANTS
    NumServers = 1
    MaxBacklog = 2
    Devices = {d1, d2}
    MaxChanges = 2
SPECIFICATION FairViewSpec
INVARIANTS HandlerSafe AnswerMatchesConfig
PROPERTIES ShutdownCompletes RequestsAnswered
CHECK_DEADLOCK FALSE
