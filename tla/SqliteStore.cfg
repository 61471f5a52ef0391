\* Two threads, three records of two devices in two different seconds, two cuts.
\* With one cut the bound on the loss (two records) is below the number of records;
\* the second cut is there for what it does to the lines.
CONSTANTS
    d1 = d1
    Devices = {d1, d2}
    AnyDevice = any
    Times = {1, 2}
    Threads = {mcp, worker}
    Mcp = mcp
    Queries <- MCQueries
    MaxRecords = 3
    MaxCuts = 2
SPECIFICATION StoreSpec
INVARIANTS AppendTruthful LossBounded QueryUndisturbed NewestAnswered
