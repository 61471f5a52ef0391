-------------------------- MODULE DeviceStateCache --------------------------
(***************************************************************************)
(* DeviceStateCache (device_state_cache.cpp): the cached state of every    *)
(* device, the suppression of repeated alarms, the worker thread that      *)
(* refreshes them, and the MCP thread that also refreshes them, clears     *)
(* alarms, and stops and restarts the worker around every configuration    *)
(* change (mcp_server.cpp).                                                *)
(*                                                                         *)
(* Both threads run refresh_configured_device, which takes mutex_ anew for *)
(* each of its effects: reading the device (no lock), storing the state,   *)
(* setting or clearing one alarm signature after the other, and appending  *)
(* a raised alarm to the store (no lock).  Each of these is a step here.   *)
(*                                                                         *)
(* A batch read returns what the variables of the device give at one       *)
(* moment; the DeviceConnectionManager and OpcUaClient modules say what    *)
(* happens inside it.  A disabled device is one whose reads all fail.      *)
(***************************************************************************)
EXTENDS Integers, FiniteSets

CONSTANTS Devices, Variables,
          Worker, Mcp,     \* the two threads
          Readings,        \* what each variable can give: a subset of Reading
          Rules,           \* alarm rules a variable can have: a subset of Rule
          MaxChanges       \* bound: configuration changes

\* The result of one read: failed, or a number, or a value that is none.
Reading == [ok : BOOLEAN, numeric : BOOLEAN, value : Int]

\* Each limit is optional: a set with at most one number.
Limit == {limit \in SUBSET Int : Cardinality(limit) <= 1}
Rule == [warn_min : Limit, warn_max : Limit, alarm_min : Limit, alarm_max : Limit]

ASSUME CacheConfig == /\ Worker # Mcp
                      /\ \A v \in Variables : \A r \in Readings[v] :
                             r.ok \in BOOLEAN /\ r.numeric \in BOOLEAN /\ r.value \in Int
                      /\ MaxChanges \in Nat

\* The key of a device's communication alarm is the name of no variable.  (The
\* configuration loader does not see to it.)
Communication == "__communication"
ASSUME ReservedKey == Communication \notin Variables

VARIABLES config,       \* cache.enabled, the configured devices and their rules
          version,      \* history: which configuration this is
          plant,        \* environment: what each variable would give now
          states,       \* states_, NoState where there is no entry
          signatures,   \* active_alarm_signatures_, None where there is no entry
          signedUnder,  \* history: which configuration the reading behind the last
                        \* signature of a key was made under
          started, stop_requested,
          task,         \* where each thread is
          stored,       \* history: alarms in the store (or refused by it) since
                        \* their key was last cleared
          recent,       \* history: alarms raised since the reading behind them changed
          refreshed     \* history: has a client called refresh_device_state?

vars == <<config, version, plant, states, signatures, signedUnder, started, stop_requested,
          task, stored, recent, refreshed>>

Threads == {Worker, Mcp}
Reads == {r \in [Variables -> UNION {Readings[v] : v \in Variables}] :
             \A v \in Variables : r[v] \in Readings[v]}
Keys == Devices \X (Variables \cup {Communication})
ThresholdCodes == {"VARIABLE_ABOVE_ALARM_MAX", "VARIABLE_BELOW_ALARM_MIN",
                   "VARIABLE_ABOVE_WARN_MAX", "VARIABLE_BELOW_WARN_MIN"}
Codes == ThresholdCodes \cup {"COMMUNICATION_ERROR", "OPCUA_READ_FAILED"}
None == "none"

Configs == [enabled : BOOLEAN, devices : SUBSET Devices, rules : [Devices -> [Variables -> Rules]]]
NoState == [version |-> -1]
CachedState == [version : 0 .. MaxChanges, reads : Reads]

\* A thread is between refreshes, or in a pass over the devices in todo; in
\* the refresh of one of them it is about to store what it has read, to
\* handle the communication alarm, or those of the variables left, or to
\* append an alarm that it has just raised.  The version is history: the
\* configuration that the device was read under.
Task == [at : {"none", "wait", "idle", "stopping", "reconfigure", "start"}]
        \cup [at : {"pass"}, todo : SUBSET Devices]
        \cup [at : {"store", "communication", "variables"}, todo : SUBSET Devices,
              device : Devices, version : 0 .. MaxChanges, reads : Reads, left : SUBSET Variables]
        \cup [at : {"append"}, todo : SUBSET Devices, device : Devices, version : 0 .. MaxChanges,
              reads : Reads, left : SUBSET Variables, alarm : Keys \X Codes]

TypeOK == /\ config \in Configs
          /\ version \in 0 .. MaxChanges
          /\ plant \in [Devices -> Reads]
          /\ states \in [Devices -> CachedState \cup {NoState}]
          /\ signatures \in [Keys -> Codes \cup {None}]
          /\ signedUnder \in [Keys -> 0 .. MaxChanges]
          /\ started \in BOOLEAN /\ stop_requested \in BOOLEAN
          /\ task \in [Threads -> Task]
          /\ stored \subseteq Keys \X Codes
          /\ recent \subseteq Keys \X Codes
          /\ refreshed \in BOOLEAN

-----------------------------------------------------------------------------
(* What a reading means.                                                   *)

Above(x, limit) == \E l \in limit : x > l
Below(x, limit) == \E l \in limit : x < l

\* Mutant: the warning limits are looked at first.
WarningsFirst(x, rule) ==
    IF Above(x, rule.warn_max) THEN "VARIABLE_ABOVE_WARN_MAX"
    ELSE IF Below(x, rule.warn_min) THEN "VARIABLE_BELOW_WARN_MIN"
    ELSE IF Above(x, rule.alarm_max) THEN "VARIABLE_ABOVE_ALARM_MAX"
    ELSE IF Below(x, rule.alarm_min) THEN "VARIABLE_BELOW_ALARM_MIN"
    ELSE None

\* The alarm that a number calls for, if any: the first limit it breaks.
ThresholdCode(x, rule) ==
    IF Above(x, rule.alarm_max) THEN "VARIABLE_ABOVE_ALARM_MAX"
    ELSE IF Below(x, rule.alarm_min) THEN "VARIABLE_BELOW_ALARM_MIN"
    ELSE IF Above(x, rule.warn_max) THEN "VARIABLE_ABOVE_WARN_MAX"
    ELSE IF Below(x, rule.warn_min) THEN "VARIABLE_BELOW_WARN_MIN"
    ELSE None

AllFailed(reads) == Variables # {} /\ \A v \in Variables : ~reads[v].ok

\* The signature that a reading calls for.
SignatureFor(reading, rule) ==
    IF ~reading.ok THEN "OPCUA_READ_FAILED"
    ELSE IF ~reading.numeric THEN None
    ELSE ThresholdCode(reading.value, rule)

-----------------------------------------------------------------------------
NoSignatures == [k \in Keys |-> None]

Init == /\ config \in [enabled : {TRUE}, devices : SUBSET Devices,
                       rules : [Devices -> [Variables -> Rules]]]
        /\ version = 0
        /\ plant \in [Devices -> Reads]
        /\ states = [d \in Devices |-> NoState]
        /\ signatures = NoSignatures
        /\ signedUnder = [k \in Keys |-> 0]
        /\ started = TRUE /\ stop_requested = FALSE
        /\ task = [t \in Threads |->
                     IF t = Worker THEN [at |-> "pass", todo |-> config.devices]
                     ELSE [at |-> "idle"]]
        /\ stored = {} /\ recent = {}
        /\ refreshed = FALSE

Of(k, alarms) == {a \in alarms : a[1] = k}

Goto(t, at) == task' = [task EXCEPT ![t].at = at]

-----------------------------------------------------------------------------
(* refresh_configured_device, run by thread t.                             *)

\* Mutant: the old state is dropped before the device is read.
ReadInvalidates(t, d) ==
    /\ task[t].at = "pass" /\ d \in task[t].todo
    /\ task' = [task EXCEPT ![t] = [at |-> "store", todo |-> @.todo \ {d}, device |-> d,
                                    version |-> version, reads |-> plant[d], left |-> Variables]]
    /\ states' = [states EXCEPT ![d] = NoState]
    /\ UNCHANGED <<config, version, plant, signatures, signedUnder, started, stop_requested,
                   stored, recent, refreshed>>

Read(t, d) ==
    /\ task[t].at = "pass" /\ d \in task[t].todo
    /\ task' = [task EXCEPT ![t] = [at |-> "store", todo |-> @.todo \ {d}, device |-> d,
                                    version |-> version, reads |-> plant[d], left |-> Variables]]
    /\ UNCHANGED <<config, version, plant, states, signatures, signedUnder, started,
                   stop_requested,
                   stored, recent, refreshed>>

Store(t) ==
    /\ task[t].at = "store"
    /\ states' = [states EXCEPT ![task[t].device] = [version |-> task[t].version,
                                                    reads |-> task[t].reads]]
    /\ Goto(t, "communication")
    /\ UNCHANGED <<config, version, plant, signatures, signedUnder, started,
                   stop_requested, stored, recent, refreshed>>

\* clear_alarm_state(k)
ClearAlarmState(k) ==
    /\ signatures' = [signatures EXCEPT ![k] = None]
    /\ stored' = stored \ Of(k, stored)
    /\ UNCHANGED <<signedUnder, recent>>

\* Mutant: every abnormal reading raises its alarm.
NeverSuppressed(k, code) == FALSE

Suppressed(k, code) == signatures[k] = code

\* append_alarm_if_changed(k, code): under the lock, nothing if the signature
\* is active already; otherwise it is set, and the append is the next step.
AppendAlarmIfChanged(t, k, code, rest) ==
    LET going == [task[t] EXCEPT !.at = "variables", !.left = rest] IN
    IF Suppressed(k, code)
    THEN /\ task' = [task EXCEPT ![t] = going]
         /\ UNCHANGED <<signatures, signedUnder, stored, recent>>
    ELSE /\ signatures' = [signatures EXCEPT ![k] = code]
         /\ signedUnder' = [signedUnder EXCEPT ![k] = task[t].version]
         /\ task' = [task EXCEPT ![t] =
                       [at |-> "append", todo |-> going.todo, device |-> going.device,
                        version |-> going.version, reads |-> going.reads, left |-> rest,
                        alarm |-> <<k, code>>]]
         /\ recent' = recent \cup {<<k, code>>}
         /\ UNCHANGED stored

CommunicationAlarm(t) ==
    /\ task[t].at = "communication"
    /\ LET k == <<task[t].device, Communication>> IN
         IF AllFailed(task[t].reads)
         THEN AppendAlarmIfChanged(t, k, "COMMUNICATION_ERROR", Variables)
         ELSE ClearAlarmState(k) /\ Goto(t, "variables")
    /\ UNCHANGED <<config, version, plant, states, started, stop_requested, refreshed>>

\* A variable that could not be read, on a device none of which could, keeps
\* its signature.
VariableAlarm(t, v) ==
    /\ task[t].at = "variables" /\ v \in task[t].left
    /\ LET d == task[t].device
           k == <<d, v>>
           code == SignatureFor(task[t].reads[v], config.rules[d][v])
           rest == task[t].left \ {v}
           going == [task EXCEPT ![t].left = rest]
       IN IF AllFailed(task[t].reads)
          THEN task' = going /\ UNCHANGED <<signatures, signedUnder, stored, recent>>
          ELSE IF code = None THEN ClearAlarmState(k) /\ task' = going
          ELSE AppendAlarmIfChanged(t, k, code, rest)
    /\ UNCHANGED <<config, version, plant, states, started, stop_requested, refreshed>>

\* AlarmStore::append, whose result is ignored: stored also holds the alarms
\* that the store refused.
AppendAlarm(t) ==
    /\ task[t].at = "append"
    /\ stored' = stored \cup {task[t].alarm}
    /\ task' = [task EXCEPT ![t] = [at |-> "variables", todo |-> @.todo, device |-> @.device,
                                    version |-> @.version, reads |-> @.reads, left |-> @.left]]
    /\ UNCHANGED <<config, version, plant, states, signatures, signedUnder, started,
                   stop_requested, recent, refreshed>>

AfterDevice(c) == [at |-> "pass", todo |-> c.todo]

\* The device is done; on to the next one of the pass.
DeviceDone(t) ==
    /\ task[t].at = "variables" /\ task[t].left = {}
    /\ task' = [task EXCEPT ![t] = AfterDevice(@)]
    /\ UNCHANGED <<config, version, plant, states, signatures, signedUnder, started,
                   stop_requested,
                   stored, recent, refreshed>>

PassDone(t) ==
    /\ task[t].at = "pass" /\ task[t].todo = {}
    /\ task' = [task EXCEPT ![t] = [at |-> IF t = Worker THEN "wait" ELSE "idle"]]
    /\ UNCHANGED <<config, version, plant, states, signatures, signedUnder, started,
                   stop_requested,
                   stored, recent, refreshed>>

-----------------------------------------------------------------------------
(* The worker loop.                                                        *)

\* Mutant: the wait does not look at the flag.
StopUnseen == FALSE

StopSeen == stop_requested

\* wait_for returns: because of the flag, or because the interval is over.
WorkerWakes ==
    /\ task[Worker].at = "wait"
    /\ task' = [task EXCEPT ![Worker] = IF StopSeen THEN [at |-> "none"]
                                        ELSE [at |-> "pass", todo |-> config.devices]]
    /\ UNCHANGED <<config, version, plant, states, signatures, signedUnder, started,
                   stop_requested,
                   stored, recent, refreshed>>

-----------------------------------------------------------------------------
(* The MCP thread.                                                         *)

\* refresh_device_state, for one device or for all.
Refresh(todo) ==
    /\ config.enabled
    /\ task[Mcp].at = "idle"
    /\ task' = [task EXCEPT ![Mcp] = [at |-> "pass", todo |-> todo]]
    /\ refreshed' = TRUE
    /\ UNCHANGED <<config, version, plant, states, signatures, signedUnder, started,
                   stop_requested,
                   stored, recent>>

\* clear_cached_alarm: what has been raised before may be raised again.
ClearCachedAlarm(k) ==
    /\ task[Mcp].at = "idle"
    /\ k[1] \in config.devices
    /\ signatures' = [signatures EXCEPT ![k] = None]
    /\ stored' = stored \ Of(k, stored)
    /\ recent' = recent \ Of(k, recent)
    /\ UNCHANGED <<config, version, plant, states, signedUnder, started, stop_requested,
                   task,
                   refreshed>>

\* A configuration change begins with stop(), which raises the flag and then
\* waits for the worker to end.
RequestStop ==
    /\ task[Mcp].at = "idle" /\ version < MaxChanges
    /\ stop_requested' = (started \/ stop_requested)
    /\ Goto(Mcp, IF started THEN "stopping" ELSE "reconfigure")
    /\ UNCHANGED <<config, version, plant, states, signatures, signedUnder, started,
                   stored, recent, refreshed>>

\* Mutant: the worker is not waited for.
JoinSkipped == TRUE

Joined == task[Worker].at = "none"

StopReturns ==
    /\ task[Mcp].at = "stopping" /\ Joined
    /\ started' = FALSE
    /\ Goto(Mcp, "reconfigure")
    /\ UNCHANGED <<config, version, plant, states, signatures, signedUnder, stop_requested,
                   stored, recent, refreshed>>

\* Mutant: the signatures survive the reset.
SignaturesKept == signatures

\* reset() clears the states and the signatures.
SignaturesAfterReset == NoSignatures

\* The change itself and the reset.  add_device, remove_device and
\* update_alarm_rule change part of the configuration, reload_configuration
\* all of it.
Reconfigure ==
    /\ task[Mcp].at = "reconfigure"
    /\ config' \in Configs
    /\ version' = version + 1
    /\ states' = [d \in Devices |-> NoState]
    /\ signatures' = SignaturesAfterReset
    /\ stored' = {} /\ recent' = {}
    /\ Goto(Mcp, "start")
    /\ UNCHANGED <<plant, signedUnder, started, stop_requested, refreshed>>

\* Mutant: the flag of the last stop() is left up.
StopFlagKept == stop_requested

StopFlagAtStart == FALSE

\* start()
Start ==
    /\ task[Mcp].at = "start"
    /\ IF config.enabled
       THEN /\ started' = TRUE /\ stop_requested' = StopFlagAtStart
            /\ task' = [task EXCEPT ![Mcp] = [at |-> "idle"],
                                    ![Worker] = [at |-> "pass", todo |-> config.devices]]
       ELSE Goto(Mcp, "idle") /\ UNCHANGED <<started, stop_requested>>
    /\ UNCHANGED <<config, version, plant, states, signatures, signedUnder, stored, recent,
                   refreshed>>

\* A variable gives something else: whatever is raised for it, or for the
\* device as a whole, from now on is not a repetition.
PlantChanges(d, v) ==
    \E r \in Readings[v] \ {plant[d][v]} :
        /\ plant' = [plant EXCEPT ![d][v] = r]
        /\ recent' = recent \ (Of(<<d, v>>, recent) \cup Of(<<d, Communication>>, recent))
        /\ UNCHANGED <<config, version, states, signatures, signedUnder, started,
                       stop_requested, task, stored, refreshed>>

RefreshStep(t) == \/ \E d \in Devices : Read(t, d)
                  \/ Store(t)
                  \/ CommunicationAlarm(t)
                  \/ \E v \in Variables : VariableAlarm(t, v)
                  \/ AppendAlarm(t)
                  \/ DeviceDone(t)
                  \/ PassDone(t)

WorkerStep == RefreshStep(Worker) \/ WorkerWakes
McpStep == RefreshStep(Mcp) \/ StopReturns \/ Reconfigure \/ Start

\* The calls of clients, which the MCP thread takes up one at a time.
ClientStep == \/ \E todo \in {{d} : d \in config.devices} \cup {config.devices} : Refresh(todo)
              \/ \E k \in Keys : ClearCachedAlarm(k)
              \/ RequestStop

PlantStep == \E d \in Devices, v \in Variables : PlantChanges(d, v)

Next == WorkerStep \/ McpStep \/ ClientStep \/ PlantStep

Spec == Init /\ [][Next]_vars

\* Both threads are scheduled, reads and the wait of the worker end (they
\* have timeouts); clients and the plant need not do anything.
FairSpec == Spec /\ WF_vars(WorkerStep) /\ WF_vars(McpStep)

-----------------------------------------------------------------------------
(* Properties.                                                             *)

\* Nothing of an earlier configuration is shown or suppresses an alarm: every
\* state in the cache and every active signature comes from a reading made
\* under the configuration in force, of a device it has.  A refresh that read
\* the device before the change can neither store its state nor set a
\* signature after the reset, also when the device is still configured.
NoStaleState ==
    /\ \A d \in Devices : states[d] # NoState
                          => states[d].version = version /\ d \in config.devices
    /\ \A k \in Keys : signatures[k] # None
                       => signedUnder[k] = version /\ k[1] \in config.devices

\* An active signature suppresses only what has been handed to the store: its
\* alarm was appended since the last clear, or the thread that set the
\* signature is about to append it.  A rule change starts afresh.
SignatureBacked ==
    \A k \in Keys : signatures[k] # None
        => \/ <<k, signatures[k]>> \in stored
           \/ \E t \in Threads : task[t].at = "append" /\ task[t].alarm = <<k, signatures[k]>>

\* What the operations manual says of the alarms: the same alarm is not
\* raised again while the reading behind it does not change.
Repeats(t) == /\ task'[t].at = "append" /\ task[t].at # "append"
              /\ task'[t].alarm \in recent

AlarmNotRepeated == [][\A t \in Threads : ~Repeats(t)]_vars

\* The same as long as no client has refreshed: the worker alone keeps the
\* promise, also when alarms are cleared and configurations change.
WorkerDoesNotRepeat == [][~refreshed => \A t \in Threads : ~Repeats(t)]_vars

\* A configuration change is carried through: stop() returns although the
\* worker only looks at the flag between two passes.
ChangeCompletes == task[Mcp].at = "stopping" ~> task[Mcp].at = "idle"

Watched(d) == config.enabled /\ d \in config.devices

\* The cache catches up: once the readings of a watched device stay as they
\* are, the cache comes to show them and keeps showing them; a refresh that
\* read earlier and stores later cannot undo that for good.
CacheConverges ==
    \A d \in Devices, r \in Reads :
        <>[](Watched(d) /\ plant[d] = r)
        => <>[](states[d] # NoState /\ states[d].reads = r)

\* The severity that a number deserves, limit by limit.
Severity(code) == CASE code \in {"VARIABLE_ABOVE_ALARM_MAX", "VARIABLE_BELOW_ALARM_MIN"} -> "CRITICAL"
                    [] code \in {"VARIABLE_ABOVE_WARN_MAX", "VARIABLE_BELOW_WARN_MIN"} -> "WARN"
                    [] code \in {"COMMUNICATION_ERROR", "OPCUA_READ_FAILED"} -> "ERROR"
                    [] OTHER -> "NORMAL"

Outside(x, low, high) == Above(x, high) \/ Below(x, low)

Deserved(reading, rule) ==
    CASE ~reading.ok -> "ERROR"
      [] reading.ok /\ reading.numeric /\ Outside(reading.value, rule.alarm_min, rule.alarm_max)
           -> "CRITICAL"
      [] reading.ok /\ reading.numeric /\ ~Outside(reading.value, rule.alarm_min, rule.alarm_max)
           /\ Outside(reading.value, rule.warn_min, rule.warn_max) -> "WARN"
      [] OTHER -> "NORMAL"

\* Alarms catch up, too: while the readings of a watched device stay as they
\* are (and not all of them fail), the active signature of each variable
\* comes, again and again, to have the severity the reading deserves under
\* the rules in force, whatever clears and older refreshes come between.
AlarmsSettle ==
    \A d \in Devices, r \in Reads, v \in Variables :
        <>[](Watched(d) /\ plant[d] = r) /\ ~AllFailed(r)
        => []<>(Severity(signatures[<<d, v>>]) = Deserved(r[v], config.rules[d][v]))
=============================================================================
