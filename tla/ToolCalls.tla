------------------------------ MODULE ToolCalls ------------------------------
(***************************************************************************)
(* The life of a tools/call in McpServer (mcp_server.cpp): is the tool     *)
(* known and may the role use it, what the tool does, the audit record,    *)
(* and the answer.  The two-phase operations of PendingOperations are the  *)
(* part of the server's state that most tools work on; the rest is the     *)
(* configuration that config.cpp loads.                                    *)
(*                                                                         *)
(* handle_message runs on the stdio thread: the tool takes effect, then    *)
(* the record is appended, then the answer is written, and the process can *)
(* die between any two of these.  Notifications are dropped without any of *)
(* them.                                                                   *)
(*                                                                         *)
(* What a tool changes outside this module is a label: "plant" for writes  *)
(* and method calls handed to the connection manager (also when they fail, *)
(* a lost reply being a failure), "cache" and "alarms" for the cache and   *)
(* the alarm store.  The connection statistics that reading a device       *)
(* updates are not counted.  A request is reduced to its tool, its role,   *)
(* and arguments from small sets.                                          *)
(***************************************************************************)
EXTENDS PendingOperations, Sequences, TLC

CONSTANTS Roles,         \* role names of clients and configurations
          NoRole,        \* a request that names no role
          Variables,     \* variables of the devices
          Values,        \* values that clients write: records [numeric, number]
          Files,         \* contents of the configuration file
          Consulted      \* bound: the read-only tools that clients call

\* Values that count as numbers are numbers, and so are the bounds in a file.
ASSUME WritesConfig ==
    /\ \A value \in Values : value.numeric => value.number \in Int
    /\ \A file \in Files, v \in Variables :
          file.nodes[v].min \subseteq Int /\ file.nodes[v].max \subseteq Int

-----------------------------------------------------------------------------
(* The tools.                                                              *)

ReadTools == {"get_gateway_health", "get_server_health", "list_devices", "get_device_state",
              "get_device_health", "get_alarm_history", "query_alarm_logs", "analyze_alarms",
              "diagnose_fault", "get_network_status", "read_node", "read_opcua_node",
              "read_device_snapshot", "get_device_status"}
AdministrativeTools == {"add_device", "remove_device", "enable_device", "disable_device",
                        "reload_configuration", "update_alarm_rule"}
HighRiskTools == {"write_node", "call_device_method", "prepare_device_action",
                  "confirm_device_action"}
LowRiskTools == {"acknowledge_alarm", "clear_cached_alarm", "refresh_device_state",
                 "cancel_device_action"}

\* is_known_tool
KnownTools == ReadTools \cup AdministrativeTools \cup HighRiskTools \cup LowRiskTools

\* A name that is not on the list.
UnknownTool == "unknown_tool"

\* Tools that take no argument, or none that could be wrong.
PlainTools == {"get_gateway_health", "get_server_health", "list_devices", "get_device_state",
               "get_alarm_history", "query_alarm_logs", "analyze_alarms", "diagnose_fault"}

\* tool_call_read_only, the flag of the audit record: a list of its own.
ToolCallReadOnly(tool) ==
    tool \notin {"write_node", "call_device_method", "acknowledge_alarm", "clear_cached_alarm",
                 "refresh_device_state", "prepare_device_action", "confirm_device_action",
                 "cancel_device_action", "add_device", "remove_device", "enable_device",
                 "disable_device", "reload_configuration", "update_alarm_rule"}

-----------------------------------------------------------------------------
(* The configuration file and what is made of it.                          *)

\* Mutant: operators may confirm what was prepared.
OperatorsConfirm ==
    [role \in {"viewer", "operator", "administrator"} |->
        CASE role = "viewer" -> ReadTools
          [] role = "operator" -> ReadTools \cup LowRiskTools \cup {"confirm_device_action"}
          [] role = "administrator" -> {"*"}]

\* default_roles
DefaultRoles ==
    [role \in {"viewer", "operator", "administrator"} |->
        CASE role = "viewer" -> ReadTools
          [] role = "operator" -> ReadTools \cup {"refresh_device_state", "acknowledge_alarm",
                                                  "clear_cached_alarm", "cancel_device_action"}
          [] role = "administrator" -> {"*"}]

\* An optional entry of the file is a set with at most one value.
Entry(optional, fallback) == IF optional = {} THEN fallback ELSE CHOOSE x \in optional : TRUE

\* load_json: an entry that is missing (or of the wrong type) has its
\* default; a role in the file replaces the default of the same name, one in
\* the top-level section also one in security.roles.
LoadSettings(file) ==
    [read_only     |-> Entry(file.read_only, TRUE),
     write_enabled |-> Entry(file.write_enabled, FALSE),
     security      |-> Entry(file.security, TRUE),
     default_role  |-> Entry(file.default_role, "viewer"),
     roles         |-> file.roles @@ file.security_roles @@ DefaultRoles,
     audit         |-> file.audit_log_path # {}]

\* Each bound is optional; no allowed_values means any value.
LoadNode(section) ==
    [writable |-> Entry(section.writable, FALSE), allowed |-> section.allowed,
     min |-> section.min, max |-> section.max]

LoadVariables(file) == [v \in Variables |-> LoadNode(file.nodes[v])]
LoadNodes(file) == [d \in Devices |-> LoadVariables(file)]

Settings == {LoadSettings(file) : file \in Files}
NodeConfigs == {LoadNode(file.nodes[v]) : file \in Files, v \in Variables}

VARIABLES settings,    \* config_ but for the devices
          nodes,       \* the variables of the devices in config_
          audit_path,  \* had audit_ a log_path when it was made?
          call         \* the tools/call under way, or NoCall

server == <<settings, nodes, audit_path>>
toolVars == <<vars, server, call>>

NoCall == [at |-> "none"]
Places == {"plant", "configuration", "operations", "alarms", "cache"}
Writes == [device : Devices, variable : Variables, value : Values]
NoWrite == [device |-> "none"]
Tools == KnownTools \cup {UnknownTool}
Record == [tool : Tools, ok : BOOLEAN, read_only : BOOLEAN]
NoRecord == [tool |-> "none"]
FailedRecord == [tool |-> "failed"]

\* The effect has taken place and the record is still to come; then the
\* answer is.
Calls == [at : {"audit"}, tool : Tools, role : Roles \cup {NoRole}, ok : BOOLEAN,
          changes : SUBSET Places, write : Writes \cup {NoWrite}]
         \cup [at : {"answer"}, tool : Tools \cup {"none"}, changes : SUBSET Places,
               record : Record \cup {NoRecord, FailedRecord}]

\* The values the variables take.
ToolTypeOK == /\ TypeOK
              /\ settings \in Settings
              /\ nodes \in [Devices -> [Variables -> NodeConfigs]]
              /\ audit_path \in BOOLEAN
              /\ call \in Calls \cup {NoCall}

\* The constructor of McpServer: audit_ gets the log_path of this moment.
ToolInit == /\ Init
            /\ \E file \in Files : /\ settings = LoadSettings(file)
                                   /\ nodes = LoadNodes(file)
            /\ audit_path = settings.audit
            /\ call = NoCall

-----------------------------------------------------------------------------
(* May the call go ahead?                                                  *)

\* call_context_string: the role that the request names, or the default one.
RoleOf(role) == IF role = NoRole THEN settings.default_role ELSE role

\* has_tool_permission
HasToolPermission(role, tool) ==
    \/ ~settings.security
    \/ /\ RoleOf(role) \in DOMAIN settings.roles
       /\ {"*", tool} \cap settings.roles[RoleOf(role)] # {}

Begins(tool, role) == call = NoCall /\ HasToolPermission(role, tool)

\* Mutant: numbers are compared, everything else passes.
OnlyNumbersChecked(node, value) ==
    /\ node.allowed = {} \/ value \in node.allowed
    /\ value.numeric => /\ \A low \in node.min : value.number >= low
                        /\ \A high \in node.max : value.number <= high

\* validate_write_constraints
ValidateWriteConstraints(node, value) ==
    /\ node.allowed = {} \/ value \in node.allowed
    /\ node.min \cup node.max # {} => value.numeric
    /\ value.numeric => /\ \A low \in node.min : ~(value.number < low)
                        /\ \A high \in node.max : ~(value.number > high)

-----------------------------------------------------------------------------
(* The tools.  Each ends with the call waiting for its record.             *)

Executed(tool, role, ok, changes, write) ==
    call' = [at |-> "audit", tool |-> tool, role |-> role, ok |-> ok, changes |-> changes,
             write |-> write]

\* A tool that only reads.
Consult(tool, role) ==
    /\ Begins(tool, role)
    /\ Executed(tool, role, TRUE, {}, NoWrite)
    /\ UNCHANGED <<vars, server>>

\* The tool is unknown or refused to the role, or it finds its arguments missing, unknown
\* or unfit, or (reload_configuration) the file unreadable: an error, and
\* nothing has changed.
Refused(tool, role) ==
    /\ call = NoCall
    /\ tool \in KnownTools /\ HasToolPermission(role, tool) => tool \notin PlainTools
    /\ Executed(tool, role, FALSE, {}, NoWrite)
    /\ UNCHANGED <<vars, server>>

\* write_node.  The write may fail and have reached the device all the same.
WriteNode(role, d, v, value, ok) ==
    /\ Begins("write_node", role)
    /\ ~settings.read_only /\ settings.write_enabled
    /\ config[d].status = "enabled"
    /\ nodes[d][v].writable
    /\ ValidateWriteConstraints(nodes[d][v], value)
    /\ Executed("write_node", role, ok, {"plant"}, [device |-> d, variable |-> v, value |-> value])
    /\ UNCHANGED <<vars, server>>

\* call_device_method, with arguments that fit its input_types.
CallDeviceMethod(role, d, m, ok) ==
    /\ Begins("call_device_method", role)
    /\ CallFree(d, m) \/ \E id \in Ids : CallGuarded(d, m, id)
    /\ Executed("call_device_method", role, ok, {"plant"}, NoWrite)
    /\ UNCHANGED server

PrepareDeviceAction(role, d, action, m) ==
    /\ Begins("prepare_device_action", role)
    /\ Prepare(d, action, m)
    /\ Executed("prepare_device_action", role, TRUE, {"operations"}, NoWrite)
    /\ UNCHANGED server

ConfirmDeviceAction(role, id) ==
    /\ Begins("confirm_device_action", role)
    /\ Confirm(id)
    /\ Executed("confirm_device_action", role, TRUE, {"operations"}, NoWrite)
    /\ UNCHANGED server

\* confirm_device_action, or call_device_method on a guarded method, with an
\* operation that has expired.
OperationExpired(tool, role, id) ==
    /\ Begins(tool, role)
    /\ tool = "call_device_method"
       => /\ pending[id].confirmed
          /\ \E d \in Devices, m \in Methods : /\ config[d].status = "enabled"
                                               /\ config[d].method[m] = "guarded"
    /\ DropExpired(id)
    /\ Executed(tool, role, FALSE, {"operations"}, NoWrite)
    /\ UNCHANGED server

\* cancel_device_action is a success for an operation that is not pending, too.
CancelDeviceAction(role, id) ==
    /\ Begins("cancel_device_action", role)
    /\ \/ /\ Cancel(id)
          /\ Executed("cancel_device_action", role, TRUE, {"operations"}, NoWrite)
       \/ /\ ~IsPending(id)
          /\ Executed("cancel_device_action", role, TRUE, {}, NoWrite)
          /\ UNCHANGED vars
    /\ UNCHANGED server

\* acknowledge_alarm, clear_cached_alarm, refresh_device_state: the device is
\* configured, or (refresh_device_state) none is named; only the alarm store
\* can still fail.
AlarmOrCacheTool(tool, role, d, ok) ==
    /\ Begins(tool, role)
    /\ config[d].status # "absent" \/ tool = "refresh_device_state"
    /\ ok \/ tool = "acknowledge_alarm"
    /\ Executed(tool, role, ok, {IF tool = "acknowledge_alarm" THEN "alarms" ELSE "cache"}, NoWrite)
    /\ UNCHANGED <<vars, server>>

\* add_device, remove_device, enable_device, disable_device.  An added device
\* brings its own variables.
ManageDevice(tool, role, d, section) ==
    /\ Begins(tool, role)
    /\ CASE tool = "add_device" -> config[d].status = "absent"
         [] tool = "remove_device" -> config[d].status # "absent" /\ section.status = "absent"
         [] tool = "enable_device" -> config[d].status # "absent" /\ section.status = "enabled"
         [] tool = "disable_device" -> config[d].status # "absent" /\ section.status = "disabled"
    /\ ChangeDevice(d, section)
    /\ IF tool = "add_device"
       THEN \E file \in Files :
              nodes' = [nodes EXCEPT ![d] = LoadVariables(file)]
       ELSE UNCHANGED nodes
    /\ Executed(tool, role, TRUE, {"configuration", "operations"}, NoWrite)
    /\ UNCHANGED <<settings, audit_path>>

\* update_alarm_rule changes the limits that DeviceStateCache applies.
UpdateAlarmRule(role, d) ==
    /\ Begins("update_alarm_rule", role)
    /\ config[d].status # "absent"
    /\ Executed("update_alarm_rule", role, TRUE, {"configuration", "cache"}, NoWrite)
    /\ UNCHANGED <<vars, server>>

\* reload_configuration replaces config_; audit_ stays what it is.
ReloadConfiguration(role) ==
    /\ Begins("reload_configuration", role)
    /\ Reload
    /\ \E file \in Files : settings' = LoadSettings(file) /\ nodes' = LoadNodes(file)
    /\ Executed("reload_configuration", role, TRUE, {"configuration", "operations"}, NoWrite)
    /\ UNCHANGED audit_path

-----------------------------------------------------------------------------
(* After the tool.                                                         *)

\* A tools/call without params or without a name: an exception, answered with
\* an error before any tool has run, and no record.
Malformed ==
    /\ call = NoCall
    /\ call' = [at |-> "answer", tool |-> "none", changes |-> {}, record |-> NoRecord]
    /\ UNCHANGED <<vars, server>>

\* Mutant: failed calls are only logged.
RecordsSuccess(c) == IF c.ok THEN [tool |-> c.tool, ok |-> TRUE, read_only |-> ToolCallReadOnly(c.tool)]
                     ELSE NoRecord

\* The audit record of a call, whatever its result.
RecordOf(c) == [tool |-> c.tool, ok |-> c.ok, read_only |-> ToolCallReadOnly(c.tool)]

\* AuditLogger::record: nothing without a path; a record that cannot be
\* appended is given up.  The metrics that follow are left out.
WriteRecord ==
    /\ call.at = "audit"
    /\ \E record \in IF audit_path THEN {RecordOf(call), FailedRecord} ELSE {NoRecord} :
          call' = [at |-> "answer", tool |-> call.tool, changes |-> call.changes,
                   record |-> record]
    /\ UNCHANGED <<vars, server>>

\* run() writes the response and reads the next message.
Answer ==
    /\ call.at = "answer"
    /\ call' = NoCall
    /\ UNCHANGED <<vars, server>>

\* Mutant: the operations are found again after a restart.
PendingRestored == pending

PendingAtStart == NoPending

\* The process dies, at whatever point, and is started again with the file as
\* it is by then.  The identifiers it issues from now on differ from earlier
\* ones by their timestamp; the counter here simply goes on.
Restart ==
    /\ config' \in [Devices -> DeviceConfigs]
    /\ \E file \in Files : settings' = LoadSettings(file) /\ nodes' = LoadNodes(file)
    /\ audit_path' = settings'.audit
    /\ pending' = PendingAtStart
    /\ issued' = Withdrawn
    /\ call' = NoCall
    /\ UNCHANGED <<now, operation_counter, last>>

\* Time within a call makes no difference: each tool looks at the clock once.
TimePasses == call = NoCall /\ Tick /\ UNCHANGED <<server, call>>

Execute(role) ==
    \/ \E tool \in Consulted : Consult(tool, role)
    \/ \E tool \in Consulted \cup (Tools \ ReadTools) : Refused(tool, role)
    \/ \E d \in Devices, v \in Variables, value \in Values, ok \in BOOLEAN :
          WriteNode(role, d, v, value, ok)
    \/ \E d \in Devices, m \in Methods, ok \in BOOLEAN : CallDeviceMethod(role, d, m, ok)
    \/ \E d \in Devices, a \in Actions, m \in Methods \cup {NoMethod} :
          PrepareDeviceAction(role, d, a, m)
    \/ \E id \in Ids : \/ ConfirmDeviceAction(role, id) \/ CancelDeviceAction(role, id)
                       \/ \E tool \in {"confirm_device_action", "call_device_method"} :
                             OperationExpired(tool, role, id)
    \/ \E tool \in {"acknowledge_alarm", "clear_cached_alarm", "refresh_device_state"},
          d \in Devices, ok \in BOOLEAN : AlarmOrCacheTool(tool, role, d, ok)
    \/ \E tool \in AdministrativeTools \ {"reload_configuration", "update_alarm_rule"},
          d \in Devices : \E section \in Sections(d) : ManageDevice(tool, role, d, section)
    \/ \E d \in Devices : UpdateAlarmRule(role, d)
    \/ ReloadConfiguration(role)

ToolNext == \/ \E role \in Roles \cup {NoRole} : Execute(role)
            \/ Malformed \/ WriteRecord \/ Answer \/ Restart \/ TimePasses

ToolSpec == ToolInit /\ [][ToolNext]_toolVars

-----------------------------------------------------------------------------
(* Properties.                                                             *)

\* A client that gets its answer can rely on the audit trail: if the call may
\* have changed anything, successfully or not, and the process was started
\* with an audit log, its record is in that log (unless the append failed)
\* and is not marked read-only.  Reloading the configuration in between makes
\* no difference, nor does the order in which the lists of tools were written.
Accountable ==
    call.at = "answer" /\ call.changes # {} /\ audit_path
    => \/ call.record = FailedRecord
       \/ call.record.tool = call.tool /\ ~call.record.read_only

\* Did this step run a tool under the role, by name or by default?
Acts(role) == /\ call = NoCall /\ call'.at = "audit"
              /\ role = IF call'.role = NoRole THEN settings.default_role ELSE call'.role

\* The factory roles keep what the README says of them ("viewer" only reads,
\* "operator" does low-risk operations): as long as a role has its default
\* tools, no call under it reaches the plant, the configuration or, but for
\* withdrawing one, an operation; a viewer's call changes nothing at all.
Factory(role) == settings.security /\ settings.roles[role] = DefaultRoles[role]

RoleSeparation ==
    [][/\ Acts("viewer") /\ Factory("viewer")
          => call'.changes = {} /\ UNCHANGED <<vars, server>>
       /\ Acts("operator") /\ Factory("operator")
          => /\ call'.changes \subseteq {"alarms", "cache", "operations"}
             /\ UNCHANGED <<config, last, server>>
             /\ \A id \in Ids : pending'[id] \in {pending[id], NotPending}]_toolVars

\* What a node's section allows, entry by entry: the reference for
\* validate_write_constraints.
Allowed(node, value) ==
    /\ node.allowed # {} => value \in node.allowed
    /\ \A low \in node.min : value.numeric /\ low <= value.number
    /\ \A high \in node.max : value.numeric /\ value.number <= high

\* A value reaches a device only if the operations manual's conditions hold
\* under the configuration of that moment, whatever was reloaded, added or
\* disabled before: both switches, an enabled device, a writable variable,
\* and every one of its constraints.
WritePolicy ==
    [][call'.at = "audit" /\ call = NoCall /\ call'.write # NoWrite
       => LET w == call'.write IN
          /\ ~settings.read_only /\ settings.write_enabled
          /\ config[w.device].status = "enabled"
          /\ nodes[w.device][w.variable].writable
          /\ Allowed(nodes[w.device][w.variable], w.value)]_toolVars

\* The server as a whole implements the protocol of two-phase operations:
\* whatever tool, role, reload or restart, every step is one of
\* PendingOperations or leaves its state alone.
ImplementsOperations == Spec

\* What the operations manual says: the audit log is enabled whenever
\* audit.log_path is set.
AuditFollowsConfig ==
    call.at = "answer" /\ call.tool # "none" /\ settings.audit => call.record # NoRecord
=============================================================================
