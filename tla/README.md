# Verification of the Industrial MCP server

TLA+ models of the server's reliability layer, OPC UA client, device cache and
diagnosis, tool calls with their permissions and audit trail, two-phase device
actions, alarm storage and HTTP servers; TLC runs that check them on small
instances; and TLAPS proofs, for every instance, of all the safety properties that
the passing runs check.  Paths such as `device_connection_manager.cpp` are under `src/src/`.

## 1. The system

The process reads MCP (JSON-RPC) requests from standard input, one at a time, and
answers them on standard output.  Behind the tools are OPC UA devices.

| Component | State | Operations | What is hard |
|---|---|---|---|
| `DeviceConnectionManager`, `CircuitBreaker` | per device: connection state, online, failure streak, reconnect count, circuit | `read_node(s)`, `write_node`, `call_method`, `get_health`, `reset` | two threads; the connector is called outside the lock; results are recorded late |
| `RetryPolicy` | none | `delay_ms`, `max_retry_count` | doubling in an `int` |
| `OpcUaClient` | statistics per device; the result object of the call | the attempt loop of each operation | exceptions at every step; the same result object in every attempt; lost replies |
| `DeviceStateCache` | states, active alarm signatures, worker, stop flag | `start`, `stop`, `reset`, `refresh_*`, `clear_cached_alarm` | worker and MCP thread run the same refresh in small critical sections |
| `McpServer`, device actions | pending operations, their counter | `prepare_/confirm_/cancel_device_action`, `call_device_method` | expiry, reuse, change of the configuration in between |
| `McpServer`, configuration | `config_` | `add_/remove_/enable_/disable_device`, `reload_configuration`, `update_alarm_rule` | stop, change, reset, start while others read |
| `McpServer`, tool calls; `AuditLogger` | `config_`, the logger's path | `handle_message`, `call_tool`, `record` | permissions and write policy read afresh at each call; effect, record and answer are three steps of a process that can die |
| Configuration loader | none | `load_file`, `load_json` | defaults and overrides decide who may do what |
| `AlarmStore`, JSONL and SQLite backends | the alarm file, or two tables | `append`, `acknowledge`, `query_json`, `analyze_json` | two writers, failing writes, crashes; two connections to one database |
| `DiagnosticsEngine` | none | `diagnose` | two looks at a cache that changes, a second classification of the values |
| `HttpServer`, health and metrics handlers | running flag, thread | `start`, `stop`, `serve`, `handle_http_request` | shutdown against a running handler; lists that change while they are walked |
| Metrics, log, JSON helpers, simulator | counters | | sequential data processing |

Threads: the MCP thread (stdio), the cache's worker, and one thread for each HTTP
server.  The MCP thread and the worker both call devices through
`DeviceConnectionManager` and both raise alarms; the HTTP threads only read.  A
configuration change on the MCP thread stops (joins) the worker, changes
`config_`, resets manager, cache and pending operations, and starts the worker
again.  `update_alarm_rule` is the exception: it resets only the cache, so pending
operations survive it.

The hazards that follow from this are listed in `PROJECT.json`, each with its line
and the properties that would catch it.

## 2. Modules

```
CircuitBreaker <-- DeviceConnectionManager <-- DeviceConnectionManagerProofs
                        |
                        v implements
                   BreakerContract
RetryPolicy        <-- MCRetryPolicy, RetryPolicyProofs
OpcUaClient        <-- OpcUaClientProofs
DeviceStateCache   <-- MCDeviceStateCache
       ^-------------- Diagnosis   <-- MCDiagnosis, DiagnosisProofs
PendingOperations  <-- PendingOperationsProofs <--.
       ^-------------- ToolCalls   <-- MCToolCalls, ToolCallsProofs
AlarmStore     <------ SqliteStore <-- MCSqliteStore, SqliteStoreProofs
HttpServer     <------ HealthViews <-- HttpServerProofs
```

`A <-- B` is "B EXTENDS A".  A module layered on another one uses its actions, adds
state of its own and keeps the other's properties, which its run checks again.

* **DeviceConnectionManager** (with **CircuitBreaker**).  A call is the steps
  admit, mark_connecting, connector, record_success or record_failure, the last
  three repeated by the retry loop; each step is one critical section of `mutex_`
  or the unlocked call of the connector, and the steps of the threads interleave.
  `states[d]` is `states_[d]`; `calls[t]` is the program counter and the locals
  of thread `t`; `openCalls` is a history variable.  `Admit`/`Refuse` are the two
  outcomes of the first critical section, `ConnectorRejects` a write or method call
  that the connector refuses without calling the device, `Reset` is `reset()`, which
  the server calls only when no other call is in progress.  A circuit counts the
  ticks since it opened instead of storing a time.
* **BreakerContract** is what the layer promises for each device: a streak of
  failures, a circuit that opens at the threshold and admits a probe after a full
  cooldown.  No threads, calls or locks.  The manager refines it
  (`ImplementsContract`).
* **RetryPolicy** is `delay_ms`, one action per exit and per round of the loop.
* **OpcUaClient** is one call: begin, connect, request, disconnect, finish, any of
  the library's calls throwing, for each operation.  `result` is the object that
  the attempts share, `effects` counts how often the device carried the call out.
  Calls share only the statistics, updated in one critical section, so that one
  call at a time is enough.
* **DeviceStateCache** has the worker and the MCP thread in one `task` each, with
  a step for every critical section of `refresh_configured_device`.  A batch read is
  one step that returns what the variables give at that moment.  History: `version`
  counts the configurations, and the task takes it along from its read, so that
  `states` and `signedUnder` tell under which configuration a state, and the reading
  behind a signature, was read, however late it is stored; `stored`, `recent` and
  `refreshed`.
* **Diagnosis** adds `diagnose_fault` to the cache: `Diagnose` is the look of
  `state_for`, `StateJson` the second look, `QueryAlarms` the question to the alarm
  store and the answer; the worker's steps go on in between, another client's call
  does not.  `logged` is which devices have a record in the store, `refused` and
  `cleared` are history variables.
* **PendingOperations** handles one tool call per step, as the MCP thread does;
  `issued` and `last` are history variables that record the client's side.
* **ToolCalls** adds everything around this: `settings` and `nodes` are what
  `load_json` makes of a configuration file (`LoadSettings`, `LoadNode`),
  `audit_path` is what `AuditLogger` was constructed with, and `call` is the call
  under way: a tool's action takes effect and leaves it at "audit", `WriteRecord`
  at "answer", `Answer` ends it, and `Restart` may come between any two.  Each tool
  that changes something is an action of its own or shares one with those that
  work alike; `Refused` is every early return.  The module as a whole implements
  PendingOperations (`ImplementsOperations`).
* **AlarmStore** has the file as a sequence of lines, each with the texts
  written into it; a text may be cut short and a line may lack its newline.
  Timestamps have seconds, so that records can share one.  A query's two loads read
  as many lines as they get (`LinesRead`): none if the file cannot be opened, fewer
  than there are if reading fails, and nobody is told.
* **SqliteStore** puts the database in front of it: `rows` and `acks` are the two
  tables, `inserting` the statement that holds the backend's mutex, `auditing` the
  write of the other connection, and `Fallback` the steps of AlarmStore while `db_`
  is null.  SQLite itself is external: a statement is committed as a whole or not
  at all, and fails while the other connection writes; a `SELECT` may not be prepared, or
  stop after any row (`RowsRead`).  A restart may find the insert
  that was on its way committed or not.
* **HttpServer** has the main thread from construction to destruction and a
  `serve()` per server.  `recv` waits for a client that says nothing, `send` for one
  that does not read a response larger than the socket's buffer (`WaitsForClient`);
  when the client has left, `send` fails or the signal it raises ends the process
  (`Killed`).
* **HealthViews** puts the handler into it: `walk[s]` is the answer under way,
  device by device in `all_health_json` (`WalkDevice`) and as a whole, under the
  cache's lock, in `state_json`; the MCP thread goes through stop, change, reset of
  the manager, reset of the cache, start.  What is known of a device is the
  `generation` of the configuration it was learnt under.

Definitions that start with "Mutant:" in their comment are plausible mistakes in
the definition after them; each property of a passing run is violated when the
mutant that `PROJECT.json` pairs with it is put in its place.

## 3. Runs

| Run | Config | Bounds | Shows |
|---|---|---|---|
| `connections` | DeviceConnectionManager.cfg | 1 device, both threads, up to 3 attempts, threshold 3, cooldown 3, counters saturate | circuit agrees with the streak; health fields agree; load on an open circuit is bounded; every disconnect counted; refinement of BreakerContract; calls return; recovery; outages are detected |
| `opcua_client` | OpcUaClient.cfg | 3 attempts, batch of 2 | ok is earned; batches are whole; effects at most one per attempt; calls return |
| `opcua_read_retry` | OpcUaClientReadRetry.cfg | 2 attempts | violation, see 6.1 |
| `opcua_once` | OpcUaClientOnce.cfg | 2 attempts | violation, see 6.2 |
| `tool_calls` | ToolCalls.cfg | 1 device with 2 methods and 1 variable, 1 operation, 3 roles and no role, 4 values, 3 files | operations are used once and as approved, also across restarts; factory roles are kept apart; writes obey the policy; answered changes are on record; refinement of PendingOperations |
| `tool_calls_audit` | ToolCallsAudit.cfg | the same | violation, see 6.4 |
| `retry_policy` | RetryPolicy.cfg | all inputs of an `int` from -3 to 15 | no overflow; result equals the capped exponential; termination |
| `device_cache` | Diagnosis.cfg | 1 device, 2 variables, 1 change | no stale state after a change; signatures are backed by alarms; the worker alone does not repeat alarms; a diagnosis agrees with the alarms, has a record behind it, and its two looks fit together |
| `device_cache_live` | DeviceStateCacheLive.cfg | 1 device, 1 variable, 4 readings, 1 change | changes complete; cache and alarms catch up with the plant |
| `device_cache_refresh` | DeviceStateCacheRefresh.cfg | 1 device, 1 variable | violation, see 6.3 |
| `alarm_store` | SqliteStore.cfg | 3 records, 2 devices, 2 seconds, 2 interrupted appends, both backends | append's result is true (database); loss is bounded (file); queries are undisturbed and return the newest, also when loads fail |
| `http_server` | HealthViews.cfg | 1 server, backlog 2, 2 devices, 2 changes | no handler after destruction; answers match the configuration; requests are answered and shutdown completes unless a client holds the server up for ever |

Why the bounds are enough.  The failure count is only compared with zero and with
the threshold, so a count that saturates above the threshold decides like the
unbounded one (`BoundsLargeEnough` states this requirement).  Two threads are
all that call devices; devices share nothing but the mutex, and the safety
properties are proved for any number of them.  With three attempts a retry follows
a retry.  One operation at a time is enough in `tool_calls`, because the confusion
of one operation with another, of devices and of lifetimes is excluded by the
proofs for any number of them; two methods let an operation be used for the wrong
one.  The three files are an installation with every default, one that allows
bounded writes, and one that gives tools to the roles in both sections of the file,
lists allowed values, and names a default role that does not exist.  The range of
`int` in `retry_policy` is small, but every input in it is tried, the ones at its
ends included; the proof covers the real range.  In the cache, a refresh of one
device does not touch another's entries; two variables are needed to tell a
partial failure from a complete one: one is critical or fails, the other is no
number or fails.  All classes of readings are tried in `device_cache_live`.  Three
records leave one untouched record when an interrupted append spoils itself and
its successor, so that the bound on the loss could be exceeded after one interruption;
after two it could not with so few records, and the proof has to be relied on.  One HTTP
server suffices beside the proofs for any number of them: the servers' threads have no state in common but the main thread's, and handlers only
read.  Two changes let an answer begin under one configuration
and end under the next but one.

Two runs switch deadlock checking off: `retry_policy`, where the function
returns, and `http_server`, where the process ends.

Fairness:
* `connections`: a call that entered the manager goes on, since connector
  calls time out; time passes; and the worker requests every enabled device again
  and again (its loop), stated as strong fairness because the worker is at times
  inside a call.  Nothing is assumed of clients.  `Recovery` has the premise that
  from some time on the connector rejects no request: each rejection (a value the
  client library cannot encode, a batch of no variables) is recorded as a
  communication failure and can use up the probe.
* `opcua_client`: library calls return or time out.
* `device_cache_live`: both threads are scheduled, and reads and the worker's wait
  have time limits.  Clients and plant need do nothing.
* `http_server`: threads are scheduled, and the worker's reads end.  Nothing is assumed
  of clients, nor that the input ends.  `ShutdownCompletes` and `RequestsAnswered` have
  a premise instead: that a server waits again and again for no client.
  Neither `recv` nor `send` has a time limit, so without the premise both are false:
  one silent client keeps `stop()` from returning.

## 4. Proofs

All are checked by TLAPS without unproved steps.  `Spec`, `StoreSpec`,
`DiagnosisSpec`, `ToolSpec` and `ViewSpec` are the specifications without fairness.

| Module | Theorem | States |
|---|---|---|
| DeviceConnectionManagerProofs | TypeCorrect, CircuitFollowsStreak, HealthIsConsistent, LoadShedding | the four invariants of `connections` |
| | EveryDisconnectCounted | the action property `DisconnectsCounted` |
| | ManagerImplementsContract | the refinement of `BreakerContract` |
| RetryPolicyProofs | NoOverflow | every value that `delay_ms` computes fits in the `int` and the configured limit |
| | BackOffIsExponential | `DelayIsExponential` |
| OpcUaClientProofs | TypeCorrect, SuccessIsEarned, BatchesAreWhole, EffectsAreBounded | the four invariants of `opcua_client` |
| DiagnosisProofs | NothingStale, SignaturesAreBacked | `NoStaleState`, `SignatureBacked` |
| | WorkerRaisesOnce | the action property `WorkerDoesNotRepeat` |
| | DiagnosisImplementsCache | diagnoses do not disturb the cache, so that the three above hold beside them |
| | LooksFit, DiagnosesAreLogged | the action properties `LooksFitTogether`, `DiagnosedIsLogged` |
| | CausesMatch | `CausesMatchAlarms` |
| PendingOperationsProofs | TypeCorrect, OperationsAreOneTime, InvocationsAreApproved | type, one-time use and approval of operations |
| ToolCallsProofs | ServerImplementsOperations | the refinement of `PendingOperations` by the whole server |
| | ServerOperationsAreOneTime, ServerInvocationsAreApproved | the same properties, of the whole server |
| | ServerIsAccountable | `Accountable` |
| | RolesAreSeparated, WritesObeyPolicy | the action properties `RoleSeparation`, `WritePolicy` |
| SqliteStoreProofs | AppendsTellTheTruth | `AppendTruthful`, which is about the database |
| | LossIsBounded | `LossBounded`, which is about the file |
| | QueriesAreUndisturbed, NewestAreAnswered | `QueryUndisturbed`, `NewestAnswered`, of queries to either, with loads that fail |
| HttpServerProofs | NoHandlerAfterDestruction | `HandlerSafe` |
| | ViewsImplementServers | HealthViews implements HttpServer ... |
| | NoViewAfterDestruction | ... so that its handlers are safe, too |
| | AnswersMatchConfig | `AnswerMatchesConfig` |

Assumptions are the named ones in the modules: types of the constants, and for the
manager `BoundsLargeEnough`.  Threads, devices, attempts, threshold, cooldown,
operations, lifetime, roles, configuration files, values, variables, readings, rules,
records, queries and servers are arbitrary.  Four assumptions say more than a type:
`WritesConfig` (the values that count as numbers and the bounds in a file are
integers), `ReservedKey` (no variable is called `__communication`, the key under which
the cache keeps a device's communication alarm; the loader does not check this),
`ViewConfig` (finitely many devices) and `StoreConfig` (`Free` is no thread, and a
query asks for at least one record).

The inductive invariants:
* *Manager.*  `CircuitMatchesStreak` and `HealthConsistent` need each other:
  whether a refusal may clear `online` without counting depends on an open circuit
  implying not online.  `CallsInProgress` says that a call is on an enabled
  device and within its attempts.  `CallBudget` makes the load bound inductive:
  the calls made since the circuit opened plus those the present call may still
  make share one operation's attempts.  The proof treats one managed state at a time
  (`StateInv`), so that each action changes one device's part.  The refinement is
  proved from the same invariant: a step of the manager maps to a step of the
  contract or leaves it unchanged.
* *Back-off.*  The type invariant is inductive; the one arithmetic fact is that
  below half of the limit doubling stays below it.  For the result, `BackedOff` says
  that the delay is the initial one times a power of two.  The laws of powers come from
  counting subsets, since the provers know none.
* *Client.*  The properties speak of calls that have returned; the invariant says what
  holds on the way: a set `ok` has been earned (`Earned`), an attempt whose request is to come has
  had no effect (`Acted`), and the batch is of this attempt once connected (`Batched`).
* *Cache.*  `CacheInv`: while the configuration changes there is no worker
  (`Phases`), and outside of a change a refresh is about a configured device
  (`Current`) and carries the present version; without them a late store could put
  what was read under the old configuration into the new cache.
  For `WorkerDoesNotRepeat`, `Unrepeated` says of every alarm raised since the value
  behind it last changed: its signature is still set, or the value no longer calls for
  it, and what the worker has read and not handled yet calls for the same.
* *Diagnosis.*  `CausesOwed` treats an alarm as a debt: a state with a cause is in the
  cache only if its device is on record or some thread will still append an alarm of
  it.  For `CausesMatchAlarms`, `Settled` says that every signature which the worker
  has handled is the one that the cached reading calls for, and `SeveritiesAgree` that
  the classifications in `device_state_cache.cpp` and `diagnostics.cpp` give a
  reading the same severity.
* *Pending operations.*  `Faithful`: an entry of the map is what the client was
  told, issued, unused and not withdrawn.  The approval of an invocation is then read
  off the entry that is consumed.
* *Tool calls.*  Each action of ToolCalls is an action of PendingOperations or leaves
  its state alone (a restart is for the operations what a reload is), so the two
  properties carry over.  `Accountable` needs an invariant about the moment between
  effect and record: a tool that has changed something is not on the list
  `ToolCallReadOnly`, which the code keeps apart from the other lists.
  `RoleSeparation` and `WritePolicy` follow step by step from the guards on each path
  to an effect.
* *Alarm store.*  `Locks` and `Ending` say who is writing and what the file then ends
  with.  On them rest three invariants.  `Ledger`, for the database: a record is not in
  the table before its insert, append knows whether it is there afterwards (`Truth`),
  and no number is given twice (`Ids`).
  `FileInv`, for the loss: the records lost already plus those that the end of the
  file will still cost (`Debt`) are at most two for each interrupted append.
  `QueryInv`: as long as no append was cut short, every line but the one being
  written is whole (`Clean`); a load that fails reads a part of what `Clean` speaks
  of.  `NewestAnswered` is an invariant of the loop in `query`
  (`FoundIn`).
* *HTTP.*  `Progress` says how far the destructor has come and which threads have
  ended; `Waiting` that a thread about to accept has a connection.  `ViewInv` adds
  what each walk has listed so far (`WalksFit`), that the worker rests during a change
  (`WorkerRests`), and that nothing but what is still to be reset was learnt under an
  earlier configuration (`Learnt`).

Two of these proofs are by induction, over the rounds of a loop and the distance in a
sorted sequence.  The induction theorems of the library cannot be used, because they
have operators as parameters; instead the proofs take the least counterexample
(`Least`, from `WFMin`), and show that the recursive function in `Collect` exists
(`RoundsExist`).

Only model-checked: liveness and termination, which are out of the prover's reach
(`CallsReturn`, `Recovery`, `OutageDetected`, `CallReturns`, `Returns`,
`ChangeCompletes`, `CacheConverges`, `AlarmsSettle`, `ShutdownCompletes`,
`RequestsAnswered`).

`ToolTypeOK`, `StoreTypeOK`, `DiagnosisTypeOK` and `ViewTypeOK` document the values of
the variables of the layered modules.  They hold at the bounds of the runs, but no
configuration lists them: they say little beyond the properties that are listed.

## 5. Abstractions

* Texts, timestamps of the health record, latencies and JSON layouts are left
  out where no decision depends on them.
* The manager's `next_retry_delay_ms` is `RetryPolicy`'s result for the
  streak and is reported only; no call waits for it.
* Without open62541pp the client returns a fixed error; that build is not modelled.
  Nor is the mock connector.
* The cache's reads are atomic and a disabled device is one whose reads fail; what
  happens inside a read is the matter of the first modules.
* In AlarmStore the level and keyword filters, which work like the device filter,
  are left out, as are the statistics of `analyze_json` and the result of
  `append` on the file, which is computed before the stream is flushed.
* `LossBounded` is about the file.  A process that has a database reads the table
  alone: the records in the file are there, but its queries do not find them.  Inserts
  that fail are not counted as a loss: `append` says so, though the worker does not look.
* The ids of configured devices are taken to be different.  The loader does not
  check this; `find_device` then finds the first of two.
* A call's role, arguments and results are members of small sets; arguments that are
  missing, of the wrong type or unknown are one case, `Refused`.  `initialize`,
  `ping`, `tools/list` and notifications change nothing and are left out.
* What tools do to cache, alarm store and plant is a label in ToolCalls; the other
  modules say what happens there.
* Diagnosis leaves out the staleness flag, which adds a limitation to the answer
  and changes no cause, and a client's time range.
* In HealthViews a walk overtaken by a change has no defined outcome (`Undefined`):
  in the code it is a data race, and may also crash the process, which is left
  out.  The race on single settings that handlers read (`server.name`,
  `cache.enabled`) is left out, as is `update_alarm_rule`, which changes no list.
* The masking of sensitive arguments in audit records is left out.

Not modelled: metrics and log formatting (counters that nothing reads back), the
JSON helpers, the mock connector, the simulation server (a test program).

## 6. Findings

1. **A retried read is reported as failed** (`opcua_read_retry`).
   `OpcUaClient::read_node` computes `ok` from `result.error` being empty and never
   clears the error of an earlier attempt (`opcua_client.cpp:290`).  A read
   that fails once and is then answered is returned with `ok = false`, so that these
   retries, which the README describes (`README.md:38`), have no effect for single reads.
   (The manager's own retries do: each is a call with a fresh result.)
2. **Writes and method calls are retried** (`opcua_once`).  The loops at
   `opcua_client.cpp:437` and `:540` send them again after a lost reply or a failing
   disconnect, so that the plant may be acted on more than once.  `README.md:38` and
   `docs/final-acceptance-matrix.md:29` speak of retries of reads.
3. **Repeated alarms** (`device_cache_refresh`).  A client's refresh and the worker's
   interleave: the slower one clears the signature on an outdated normal value, and
   the next pass raises the alarm again though the value never returned to normal.
   `docs/operations.md:110` promises the opposite.  With the worker alone the
   promise holds (`WorkerDoesNotRepeat`).
4. **A reload does not enable the audit log** (`tool_calls_audit`).  `audit_` is
   constructed with the first configuration's `audit.log_path` and
   `reload_configuration` (`mcp_server.cpp:954`) does not touch it.  After a reload
   that sets the path, calls are answered without a record, although
   `get_gateway_health` reports `audit.enabled`.  `docs/operations.md:270` ties the
   log to the setting.  With the path set at start the trail is complete
   (`Accountable`).

Worth knowing, though no document says otherwise: writes that the connector rejects
count towards the circuit breaker, and so does every pass over a device without
variables (`device_connection_manager.cpp:398`); an alarm insert fails without a
trace while the audit connection writes to the same database; an interrupted append
costs the next alarm too (`LossBounded` has the factor 2 for this reason); a query whose load fails answers like
one that found nothing; a silent HTTP client can hold up the shutdown, and one that
leaves before its answer may end the process.

## 7. Plan

Done: all the modules that were planned, and the proofs of the safety properties that
the runs check.

Next:
1. An abstract specification of the alarm store (a set of records that grows, an
   append that answers) which SqliteStore implements while no append is cut short.
2. That a diagnosis is a read: what `Diagnosis` adds implements one atomic look at the
   cache when the worker rests.
3. Lemmas on `LoadSettings` of ToolCalls: which defaults and overrides decide about
   permissions, for every file.
