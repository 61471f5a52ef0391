\* One device, both threads; a read takes up to three attempts, the circuit opens at
\* the third failure and the failure count goes past the threshold.
CONSTANTS
    Devices = {d1}
    Threads = {mcp, worker}
    Worker = worker
    circuit_failure_threshold = 3
    circuit_cooldown = 3
    max_retry_count = 2
    MaxFailures = 4
    MaxReconnects = 2
SPECIFICATION FairSpec
INVARIANTS TypeOK CircuitMatchesStreak HealthConsistent OpenCallsBounded
PROPERTIES DisconnectsCounted ImplementsContract CallsReturn Recovery OutageDetected
