\* One device with one variable and all kinds of readings, both threads refreshing.
CONSTANTS
    Devices = {d1}
    Variables = {v1}
    Worker = worker
    Mcp = mcp
    Readings <- MCReadings
    Rules <- MCRules
    MaxChanges = 1
SPECIFICATION FairSpec
PROPERTIES ChangeCompletes CacheConverges AlarmsSettle
