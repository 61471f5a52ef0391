------------------------------ MODULE Diagnosis ------------------------------
(***************************************************************************)
(* diagnose_fault (diagnostics.cpp) beside the cache it reads.             *)
(*                                                                         *)
(* The MCP thread looks at the cache twice, state_for and then state_json, *)
(* each under the lock of the cache, and then asks the alarm store; the    *)
(* worker goes on refreshing in between.  The causes it names for the      *)
(* variables come from a classification of its own (variable_context),     *)
(* written apart from the one that raises the alarms (ThresholdCode).      *)
(*                                                                         *)
(* The answer is the set of its causes.  Texts, confidences, limitations   *)
(* and the staleness flag, which only adds a limitation, are left out.     *)
(***************************************************************************)
EXTENDS DeviceStateCache

VARIABLES diagnosis,   \* the diagnosis under way on the MCP thread
          logged,      \* devices that have an alarm in the store
          refused,     \* history: devices all of whose alarms the store has refused
          cleared      \* history: keys cleared by a client and not handled since by the
                       \* worker (kept only until a client refreshes)

diagnosisVars == <<vars, diagnosis, logged, refused, cleared>>

NoDiagnosis == [at |-> "none"]

\* After the first look, what it found: no state, a state, or a state that
\* gives causes while no thread is in the middle of a refresh.
Diagnoses == {NoDiagnosis}
             \cup [at : {"state_json", "alarms"}, device : Devices,
                   found : {"nothing", "state", "settled causes"}]

\* The answer to a client is put together from values of the right kind, and
\* only for a configured device, whatever happened to the configuration before.
DiagnosisTypeOK ==
    /\ TypeOK
    /\ diagnosis \in Diagnoses
    /\ diagnosis # NoDiagnosis => task[Mcp].at = "idle" /\ diagnosis.device \in config.devices
    /\ logged \subseteq Devices /\ refused \subseteq Devices
    /\ cleared \subseteq Keys

-----------------------------------------------------------------------------
(* The rules of diagnose.                                                  *)

\* Mutant: a value between the warning and the critical limits is not told
\* from one beyond both.
WarningHidesCritical(reading, rule) ==
    IF ~reading.ok \/ ~reading.numeric THEN None
    ELSE IF Above(reading.value, rule.warn_max) \/ Below(reading.value, rule.warn_min)
         THEN "VARIABLE_OUTSIDE_WARNING_RANGE"
    ELSE IF Above(reading.value, rule.alarm_max) THEN "VARIABLE_ABOVE_ALARM_MAX"
    ELSE IF Below(reading.value, rule.alarm_min) THEN "VARIABLE_BELOW_ALARM_MIN"
    ELSE None

\* variable_context, for one variable: failed reads and values that are no
\* numbers are passed over.
VariableContext(reading, rule) ==
    IF ~reading.ok \/ ~reading.numeric THEN None
    ELSE IF Above(reading.value, rule.alarm_max) THEN "VARIABLE_ABOVE_ALARM_MAX"
    ELSE IF Below(reading.value, rule.alarm_min) THEN "VARIABLE_BELOW_ALARM_MIN"
    ELSE IF Above(reading.value, rule.warn_max) \/ Below(reading.value, rule.warn_min)
         THEN "VARIABLE_OUTSIDE_WARNING_RANGE"
    ELSE None

Online(state) == state # NoState /\ \E v \in Variables : state.reads[v].ok

\* The causes the answer names on a state of the cache, each with the variable
\* it is about.
PossibleCauses(d, state) ==
    (IF Online(state) THEN {} ELSE {<<Communication, "DEVICE_OFFLINE">>})
    \cup (IF state = NoState THEN {}
          ELSE {c \in {<<v, VariableContext(state.reads[v], config.rules[d][v])>> : v \in Variables} :
                  c[2] # None})

\* Mutant: only alarms that are still active count.
ActiveAlarmsOnly(d) == \E a \in stored : a[1][1] = d

\* One more cause, if the alarm store has a record of the device.
RecentAlarmPattern(d) == d \in logged

-----------------------------------------------------------------------------
(* diagnose, step by step.                                                 *)

\* No thread is in the middle of refreshing a device.
Calm == \A t \in Threads : task[t].at \notin {"store", "communication", "variables", "append"}

Found(d) == IF states[d] = NoState THEN "nothing"
            ELSE IF Calm /\ PossibleCauses(d, states[d]) # {} THEN "settled causes"
            ELSE "state"

\* An unknown device is answered at once; for a configured one the first look
\* is state_for, and the MCP thread is busy until the answer.
Diagnose(d) ==
    /\ task[Mcp].at = "idle" /\ diagnosis = NoDiagnosis
    /\ d \in config.devices
    /\ diagnosis' = [at |-> "state_json", device |-> d, found |-> Found(d)]
    /\ UNCHANGED <<vars, logged, refused, cleared>>

\* The second look; the state it finds is only copied into the answer.
StateJson ==
    /\ diagnosis.at = "state_json"
    /\ diagnosis' = [diagnosis EXCEPT !.at = "alarms"]
    /\ UNCHANGED <<vars, logged, refused, cleared>>

\* analyze_json and query_json (without a time range), and the answer.
QueryAlarms ==
    /\ diagnosis.at = "alarms"
    /\ diagnosis' = NoDiagnosis
    /\ UNCHANGED <<vars, logged, refused, cleared>>

DiagnosisStep == StateJson \/ QueryAlarms

-----------------------------------------------------------------------------
(* The cache, with what its alarms leave in the store.                     *)

\* An append is accepted by the store or refused; the cache does not look.
AppendOutcome(t) ==
    LET d == task[t].device IN
    \/ logged' = logged \cup {d} /\ refused' = refused \ {d}
    \/ refused' = refused \cup ({d} \ logged) /\ UNCHANGED logged

\* A thread that has handled a key has undone the client's clear.
Handled == {k \in Keys : \E t \in Threads :
              /\ task[t].at = "variables" /\ task'[t].at \in {"variables", "append"}
              /\ task[t].device = k[1]
              /\ k[2] \in task[t].left \ task'[t].left}
           \cup {k \in Keys : \E t \in Threads :
                   task[t].at = "communication" /\ task'[t].at # "communication"
                   /\ k = <<task[t].device, Communication>>}

CacheStep ==
    /\ \/ /\ \E t \in Threads : AppendAlarm(t) /\ AppendOutcome(t)
       \/ /\ WorkerStep \/ McpStep \/ PlantStep
          /\ ~\E t \in Threads : task[t].at = "append" /\ task'[t].at # "append"
          /\ UNCHANGED <<logged, refused>>
    /\ cleared' = IF version' # version THEN {} ELSE cleared \ Handled
    /\ UNCHANGED diagnosis

\* Another call of a client is taken up when the diagnosis has been answered.
OtherCall ==
    /\ diagnosis = NoDiagnosis
    /\ ClientStep
    /\ cleared' = IF refreshed' THEN {}
                  ELSE cleared \cup {k \in Keys : signatures[k] # None /\ signatures'[k] = None}
    /\ UNCHANGED <<diagnosis, logged, refused>>

DiagnosisInit == /\ Init
                 /\ diagnosis = NoDiagnosis
                 /\ logged = {} /\ refused = {} /\ cleared = {}

DiagnosisNext == \/ CacheStep
                 \/ OtherCall
                 \/ \E d \in Devices : Diagnose(d)
                 \/ DiagnosisStep

DiagnosisSpec == DiagnosisInit /\ [][DiagnosisNext]_diagnosisVars

-----------------------------------------------------------------------------
(* Properties.                                                             *)

\* The severity of a cause.
CauseSeverity(cause) == CASE cause \in {"VARIABLE_ABOVE_ALARM_MAX", "VARIABLE_BELOW_ALARM_MIN"} -> "CRITICAL"
                          [] cause = "VARIABLE_OUTSIDE_WARNING_RANGE" -> "WARN"
                          [] OTHER -> "NORMAL"

\* What a diagnosis says and what the alarms say is the same: as long as the
\* worker alone refreshes, whenever it rests, a device named offline is one
\* whose communication alarm is active, and a variable named as a cause is one
\* whose alarm of that severity is active, and the other way round, unless a
\* client has cleared the alarm since.
CausesMatchAlarms ==
    ~refreshed /\ Calm =>
        \A d \in config.devices : states[d] # NoState =>
            LET signature(k) == IF <<d, k>> \in cleared THEN "cleared" ELSE signatures[<<d, k>>] IN
            /\ signature(Communication) # "cleared" /\ Variables # {} =>
                 (~Online(states[d]) <=> signature(Communication) = "COMMUNICATION_ERROR")
            /\ \A v \in Variables : Online(states[d]) /\ signature(v) # "cleared" =>
                 LET cause == VariableContext(states[d].reads[v], config.rules[d][v]) IN
                 IF ~states[d].reads[v].ok
                 THEN cause = None /\ signature(v) = "OPCUA_READ_FAILED"
                 ELSE CauseSeverity(cause) = Severity(signature(v))

\* A cause has a record behind it: an answer that names a variable, or the
\* loss of a device the cache has read, on a look taken while no refresh was
\* under way also names the recent alarms, however many threads refreshed and
\* whatever clients cleared, unless the store refused every alarm of the device.
\* (A device without variables is named offline, but no alarm is raised for it.)
DiagnosedIsLogged ==
    [][/\ Variables # {}
       /\ diagnosis.at = "alarms" /\ diagnosis' = NoDiagnosis /\ diagnosis.found = "settled causes"
       => RecentAlarmPattern(diagnosis.device) \/ diagnosis.device \in refused]_diagnosisVars

\* The two looks of one answer fit together: what the first one found has not
\* vanished before the second, although the lock is released in between and
\* the worker goes on.
LooksFitTogether ==
    [][diagnosis.at = "state_json" /\ diagnosis'.at = "alarms" /\ diagnosis.found # "nothing"
       => states[diagnosis.device] # NoState]_diagnosisVars
=============================================================================
