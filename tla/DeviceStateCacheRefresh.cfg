\* Clients refresh, too; every read is answered with a number.
CONSTANTS
    Devices = {d1}
    Variables = {v1}
    Worker = worker
    Mcp = mcp
    Readings <- MCNumbers
    Rules <- MCRules
    MaxChanges = 0
SPECIFICATION FairSpec
PROPERTY AlarmNotRepeated
