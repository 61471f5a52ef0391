--------------------------- MODULE ToolCallsProofs ---------------------------
(***************************************************************************)
(* The server with all its tools, roles, reloads and restarts keeps the    *)
(* promises of the two-phase operations, because it implements             *)
(* PendingOperations step by step; and its audit trail is complete.  The   *)
(* second needs an invariant about the moment between effect and record:   *)
(* a tool that has changed something is not on the list of read-only ones. *)
(* Last come the two action properties, that the factory roles are kept    *)
(* apart and that writes obey the policy, each from the guards of every    *)
(* step that could break it.                                               *)
(***************************************************************************)
EXTENDS ToolCalls, PendingOperationsProofs

\* One call of a tool is a step of PendingOperations or none.
LEMMA ExecuteStep ==
    ASSUME NEW role \in Roles \cup {NoRole}, Execute(role)
    PROVE  [Next]_vars
<1>1. ASSUME NEW tool, Consult(tool, role) \/ Refused(tool, role) PROVE UNCHANGED vars
  BY <1>1 DEF Consult, Refused
<1>2. ASSUME NEW d, NEW v, NEW value, NEW ok, WriteNode(role, d, v, value, ok)
      PROVE  UNCHANGED vars
  BY <1>2 DEF WriteNode
<1>3. ASSUME NEW d \in Devices, NEW m \in Methods, NEW ok, CallDeviceMethod(role, d, m, ok)
      PROVE  Next
  BY <1>3 DEF CallDeviceMethod, Next
<1>4. ASSUME NEW d \in Devices, NEW a \in Actions, NEW m \in Methods \cup {NoMethod},
             PrepareDeviceAction(role, d, a, m)
      PROVE  Next
  BY <1>4 DEF PrepareDeviceAction, Next
<1>5. ASSUME NEW id \in Ids, ConfirmDeviceAction(role, id) \/ CancelDeviceAction(role, id)
      PROVE  [Next]_vars
  BY <1>5 DEF ConfirmDeviceAction, CancelDeviceAction, Next
<1>6. ASSUME NEW id \in Ids, NEW tool, OperationExpired(tool, role, id) PROVE Next
  BY <1>6 DEF OperationExpired, Next
<1>7. ASSUME NEW tool, NEW d, NEW ok, AlarmOrCacheTool(tool, role, d, ok) PROVE UNCHANGED vars
  BY <1>7 DEF AlarmOrCacheTool
<1>8. ASSUME NEW tool, NEW d \in Devices, NEW section \in Sections(d),
             ManageDevice(tool, role, d, section)
      PROVE  Next
  BY <1>8 DEF ManageDevice, Next
<1>9. ASSUME NEW d, UpdateAlarmRule(role, d) PROVE UNCHANGED vars
  BY <1>9 DEF UpdateAlarmRule
<1>10. ASSUME ReloadConfiguration(role) PROVE Next
  BY <1>10 DEF ReloadConfiguration, Next
<1>11. QED
  BY <1>1, <1>2, <1>3, <1>4, <1>5, <1>6, <1>7, <1>8, <1>9, <1>10 DEF Execute

\* A restart is for the operations what a reload is: all of them are gone.
LEMMA ServerStep == [ToolNext]_toolVars => [Next]_vars
<1> SUFFICES ASSUME [ToolNext]_toolVars PROVE [Next]_vars
  OBVIOUS
<1>1. CASE UNCHANGED toolVars
  BY <1>1 DEF toolVars
<1>2. ASSUME NEW role \in Roles \cup {NoRole}, Execute(role) PROVE [Next]_vars
  BY <1>2, ExecuteStep
<1>3. CASE Malformed \/ WriteRecord \/ Answer
  BY <1>3 DEF Malformed, WriteRecord, Answer
<1>4. CASE Restart
  BY <1>4 DEF Restart, PendingAtStart, Reload, Next
<1>5. CASE TimePasses
  BY <1>5 DEF TimePasses, Next
<1>6. QED
  BY <1>1, <1>2, <1>3, <1>4, <1>5 DEF ToolNext

\* The server implements the protocol of two-phase operations, whatever the
\* configuration files, roles and tools are.
THEOREM ServerImplementsOperations == ToolSpec => ImplementsOperations
<1>1. ToolInit => Init
  BY DEF ToolInit
<1>2. [ToolNext]_toolVars => [Next]_vars
  BY ServerStep
<1>3. QED
  BY <1>1, <1>2, PTL DEF ToolSpec, ImplementsOperations, Spec

\* So an operation_id is good for one invocation also across restarts, ...
THEOREM ServerOperationsAreOneTime == ToolSpec => []OneTimeOperation
BY ServerImplementsOperations, OperationsAreOneTime, PTL DEF ImplementsOperations

\* ... and a guarded method only ever runs under an operation approved for it.
THEOREM ServerInvocationsAreApproved == ToolSpec => InvocationApproved
BY ServerImplementsOperations, InvocationsAreApproved, PTL DEF ImplementsOperations

-----------------------------------------------------------------------------
(* The audit trail.                                                        *)

\* Between effect and record: what has changed something will not be recorded
\* as read-only.
EffectIsDeclared == call.at = "audit" /\ call.changes # {} => ~ToolCallReadOnly(call.tool)

AuditInv == EffectIsDeclared /\ Accountable

\* A call that has just been executed carries what its tool says.
LEMMA ExecuteDeclares ==
    ASSUME NEW role \in Roles \cup {NoRole}, Execute(role)
    PROVE  call'.at = "audit" /\ (call'.changes # {} => ~ToolCallReadOnly(call'.tool))
<1> USE DEF Executed, ToolCallReadOnly
<1>1. ASSUME NEW tool, Consult(tool, role) \/ Refused(tool, role)
      PROVE  call'.at = "audit" /\ call'.changes = {}
  BY <1>1 DEF Consult, Refused
<1>2. ASSUME NEW d, NEW v, NEW value, NEW ok, WriteNode(role, d, v, value, ok)
      PROVE  call'.at = "audit" /\ call'.tool = "write_node"
  BY <1>2 DEF WriteNode
<1>3. ASSUME NEW d, NEW m, NEW ok, CallDeviceMethod(role, d, m, ok)
      PROVE  call'.at = "audit" /\ call'.tool = "call_device_method"
  BY <1>3 DEF CallDeviceMethod
<1>4. ASSUME NEW d, NEW a, NEW m, PrepareDeviceAction(role, d, a, m)
      PROVE  call'.at = "audit" /\ call'.tool = "prepare_device_action"
  BY <1>4 DEF PrepareDeviceAction
<1>5. ASSUME NEW id, ConfirmDeviceAction(role, id) \/ CancelDeviceAction(role, id)
      PROVE  call'.at = "audit" /\ call'.tool \in {"confirm_device_action", "cancel_device_action"}
  BY <1>5 DEF ConfirmDeviceAction, CancelDeviceAction
<1>6. ASSUME NEW id, NEW tool \in {"confirm_device_action", "call_device_method"},
             OperationExpired(tool, role, id)
      PROVE  call'.at = "audit" /\ call'.tool \in {"confirm_device_action", "call_device_method"}
  BY <1>6 DEF OperationExpired
<1>7. ASSUME NEW tool \in {"acknowledge_alarm", "clear_cached_alarm", "refresh_device_state"},
             NEW d, NEW ok, AlarmOrCacheTool(tool, role, d, ok)
      PROVE  call'.at = "audit"
             /\ call'.tool \in {"acknowledge_alarm", "clear_cached_alarm", "refresh_device_state"}
  BY <1>7 DEF AlarmOrCacheTool
<1>8. ASSUME NEW tool \in AdministrativeTools, NEW d, NEW section,
             ManageDevice(tool, role, d, section)
      PROVE  call'.at = "audit" /\ call'.tool \in AdministrativeTools
  BY <1>8 DEF ManageDevice
<1>9. ASSUME NEW d, UpdateAlarmRule(role, d)
      PROVE  call'.at = "audit" /\ call'.tool = "update_alarm_rule"
  BY <1>9 DEF UpdateAlarmRule
<1>10. ASSUME ReloadConfiguration(role)
       PROVE  call'.at = "audit" /\ call'.tool = "reload_configuration"
  BY <1>10 DEF ReloadConfiguration
<1>11. QED
  BY <1>1, <1>2, <1>3, <1>4, <1>5, <1>6, <1>7, <1>8, <1>9, <1>10 DEF Execute, AdministrativeTools

\* Every step keeps the audit trail complete: the record is made from the call
\* as it was executed, and nothing but a restart changes whether there is a log.
LEMMA AuditStep == AuditInv /\ [ToolNext]_toolVars => AuditInv'
<1> SUFFICES ASSUME AuditInv, [ToolNext]_toolVars PROVE AuditInv'
  OBVIOUS
<1> USE DEF AuditInv, EffectIsDeclared, Accountable
<1>1. CASE UNCHANGED toolVars
  BY <1>1 DEF toolVars, server, ToolCallReadOnly
<1>2. ASSUME NEW role \in Roles \cup {NoRole}, Execute(role) PROVE AuditInv'
  <2>1. call'.at = "audit" /\ (call'.changes # {} => ~ToolCallReadOnly(call'.tool))
    BY <1>2, ExecuteDeclares
  <2>2. QED
    BY <2>1 DEF ToolCallReadOnly
<1>3. CASE Malformed
  BY <1>3 DEF Malformed
<1>4. CASE WriteRecord
  <2>1. PICK record \in IF audit_path THEN {RecordOf(call), FailedRecord} ELSE {NoRecord} :
          call' = [at |-> "answer", tool |-> call.tool, changes |-> call.changes, record |-> record]
    BY <1>4 DEF WriteRecord
  <2>2. call.at = "audit" /\ audit_path' = audit_path
    BY <1>4 DEF WriteRecord, server
  <2>3. QED
    BY <2>1, <2>2 DEF RecordOf, FailedRecord, NoRecord
<1>5. CASE Answer \/ Restart
  BY <1>5 DEF Answer, Restart, NoCall
<1>6. CASE TimePasses
  BY <1>6 DEF TimePasses, server, NoCall
<1>7. QED
  BY <1>1, <1>2, <1>3, <1>4, <1>5, <1>6 DEF ToolNext

\* Whatever the tools, roles and configurations: a client that has its answer
\* finds every call that may have changed something in the audit log, not
\* marked read-only, unless the append failed or there is no log.
THEOREM ServerIsAccountable == ToolSpec => []Accountable
<1>1. ToolInit => AuditInv
  BY DEF ToolInit, NoCall, AuditInv, EffectIsDeclared, Accountable
<1>2. AuditInv => Accountable
  BY DEF AuditInv
<1>3. QED
  BY <1>1, <1>2, AuditStep, PTL DEF ToolSpec

-----------------------------------------------------------------------------
(* Roles and the write policy.                                             *)

\* What a tool that may change something has in common with the others: the
\* role was allowed to use it, it is recorded under that role and its own
\* name, and only write_node writes.
LEMMA ExecutePermitted ==
    ASSUME NEW role \in Roles \cup {NoRole}, Execute(role)
    PROVE  /\ call = NoCall /\ call'.role = role
           /\ \/ call'.changes = {} /\ UNCHANGED <<vars, server>>
              \/ /\ HasToolPermission(role, call'.tool)
                 /\ call'.tool \in AdministrativeTools \cup HighRiskTools
              \/ /\ HasToolPermission(role, call'.tool)
                 /\ call'.tool \in LowRiskTools
                 /\ call'.changes \subseteq {"alarms", "cache"} /\ UNCHANGED <<vars, server>>
              \/ /\ call'.changes \subseteq {"operations"} /\ UNCHANGED server
                 /\ HasToolPermission(role, call'.tool)
                 /\ call'.tool \in LowRiskTools
                 /\ \E id \in Ids : Cancel(id)
<1> USE DEF Executed, Begins, AdministrativeTools, HighRiskTools, LowRiskTools
<1>1. ASSUME NEW tool, Consult(tool, role) \/ Refused(tool, role)
      PROVE  call = NoCall /\ call'.role = role /\ call'.changes = {} /\ UNCHANGED <<vars, server>>
  BY <1>1 DEF Consult, Refused
<1>2. ASSUME NEW d, NEW v, NEW value, NEW ok, WriteNode(role, d, v, value, ok)
      PROVE  /\ call = NoCall /\ call'.role = role /\ HasToolPermission(role, call'.tool)
             /\ call'.tool \in HighRiskTools
  BY <1>2 DEF WriteNode
<1>3. ASSUME NEW d, NEW m, NEW ok, CallDeviceMethod(role, d, m, ok)
      PROVE  /\ call = NoCall /\ call'.role = role /\ HasToolPermission(role, call'.tool)
             /\ call'.tool \in HighRiskTools
  BY <1>3 DEF CallDeviceMethod
<1>4. ASSUME NEW d, NEW a, NEW m, PrepareDeviceAction(role, d, a, m)
      PROVE  /\ call = NoCall /\ call'.role = role /\ HasToolPermission(role, call'.tool)
             /\ call'.tool \in HighRiskTools
  BY <1>4 DEF PrepareDeviceAction
<1>5. ASSUME NEW id, ConfirmDeviceAction(role, id)
      PROVE  /\ call = NoCall /\ call'.role = role /\ HasToolPermission(role, call'.tool)
             /\ call'.tool \in HighRiskTools
  BY <1>5 DEF ConfirmDeviceAction
<1>6. ASSUME NEW id, NEW tool \in {"confirm_device_action", "call_device_method"},
             OperationExpired(tool, role, id)
      PROVE  /\ call = NoCall /\ call'.role = role /\ HasToolPermission(role, call'.tool)
             /\ call'.tool \in HighRiskTools
  BY <1>6 DEF OperationExpired
<1>7. ASSUME NEW tool \in {"acknowledge_alarm", "clear_cached_alarm", "refresh_device_state"},
             NEW d, NEW ok, AlarmOrCacheTool(tool, role, d, ok)
      PROVE  /\ call = NoCall /\ call'.role = role /\ HasToolPermission(role, call'.tool)
             /\ call'.tool \in LowRiskTools
             /\ call'.changes \subseteq {"alarms", "cache"} /\ UNCHANGED <<vars, server>>
  BY <1>7 DEF AlarmOrCacheTool
<1>8. ASSUME NEW id \in Ids, CancelDeviceAction(role, id)
      PROVE  /\ call = NoCall /\ call'.role = role /\ HasToolPermission(role, call'.tool)
             /\ call'.tool \in LowRiskTools
             /\ \/ call'.changes = {} /\ UNCHANGED <<vars, server>>
                \/ call'.changes = {"operations"} /\ UNCHANGED server /\ Cancel(id)
  BY <1>8 DEF CancelDeviceAction
<1>9. ASSUME NEW tool \in AdministrativeTools, NEW d, NEW section,
             ManageDevice(tool, role, d, section)
      PROVE  /\ call = NoCall /\ call'.role = role /\ HasToolPermission(role, call'.tool)
             /\ call'.tool \in AdministrativeTools
  BY <1>9 DEF ManageDevice
<1>10. ASSUME NEW d, UpdateAlarmRule(role, d)
       PROVE  /\ call = NoCall /\ call'.role = role /\ HasToolPermission(role, call'.tool)
              /\ call'.tool \in AdministrativeTools
  BY <1>10 DEF UpdateAlarmRule
<1>11. ASSUME ReloadConfiguration(role)
       PROVE  /\ call = NoCall /\ call'.role = role /\ HasToolPermission(role, call'.tool)
              /\ call'.tool \in AdministrativeTools
  BY <1>11 DEF ReloadConfiguration
<1> HIDE DEF AdministrativeTools, HighRiskTools, LowRiskTools
<1>12. QED
  BY <1>1, <1>2, <1>3, <1>4, <1>5, <1>6, <1>7, <1>8, <1>9, <1>10, <1>11
     DEF Execute, AdministrativeTools

\* The factory roles have none of the tools beyond theirs, and no wildcard.
LEMMA FactoryTools ==
    /\ DefaultRoles["viewer"] \cap ({"*"} \cup AdministrativeTools \cup HighRiskTools \cup LowRiskTools) = {}
    /\ DefaultRoles["operator"] \cap ({"*"} \cup AdministrativeTools \cup HighRiskTools) = {}
BY DEF DefaultRoles, ReadTools, AdministrativeTools, HighRiskTools, LowRiskTools

\* A step that begins a call is the execution of a tool.
LEMMA ActingStep ==
    ASSUME ToolNext, call = NoCall, call'.at = "audit"
    PROVE  \E role \in Roles \cup {NoRole} : Execute(role)
BY DEF ToolNext, Malformed, WriteRecord, Answer, Restart, TimePasses, NoCall

\* Whatever the configuration files say of other roles: under the factory
\* roles no call goes beyond what the README gives them.
THEOREM RolesAreSeparated == ToolSpec => RoleSeparation
<1> DEFINE Separated ==
      /\ Acts("viewer") /\ Factory("viewer")
         => call'.changes = {} /\ UNCHANGED <<vars, server>>
      /\ Acts("operator") /\ Factory("operator")
         => /\ call'.changes \subseteq {"alarms", "cache", "operations"}
            /\ UNCHANGED <<config, last, server>>
            /\ \A id \in Ids : pending'[id] \in {pending[id], NotPending}
<1>1. IInv /\ [ToolNext]_toolVars => [Separated]_toolVars
  <2> SUFFICES ASSUME IInv, ToolNext, call = NoCall, call'.at = "audit" PROVE Separated
    BY DEF Acts
  <2>1. PICK role \in Roles \cup {NoRole} : Execute(role)
    BY ActingStep
  <2>2. call'.role = role
    BY <2>1, ExecutePermitted
  <2>3. ASSUME Acts("viewer"), Factory("viewer") PROVE ~HasToolPermission(role, call'.tool)
               \/ call'.tool \notin AdministrativeTools \cup HighRiskTools \cup LowRiskTools
    BY <2>2, <2>3, FactoryTools DEF Acts, Factory, HasToolPermission, RoleOf
  <2>4. ASSUME Acts("operator"), Factory("operator") PROVE ~HasToolPermission(role, call'.tool)
               \/ call'.tool \notin AdministrativeTools \cup HighRiskTools
    BY <2>2, <2>4, FactoryTools DEF Acts, Factory, HasToolPermission, RoleOf
  <2>5. ASSUME UNCHANGED vars
        PROVE  /\ UNCHANGED <<config, last>>
               /\ \A id \in Ids : pending'[id] \in {pending[id], NotPending}
    BY <2>5 DEF vars
  <2>6. ASSUME NEW id \in Ids, Cancel(id)
        PROVE  /\ UNCHANGED <<config, last>>
               /\ \A k \in Ids : pending'[k] \in {pending[k], NotPending}
    BY <2>6 DEF Cancel, IInv, TypeOK
  <2>7. QED
    BY <2>1, <2>3, <2>4, <2>5, <2>6, ExecutePermitted
<1>2. ToolSpec => []IInv
  BY ServerImplementsOperations, Invariance, PTL DEF ImplementsOperations
<1>3. QED
  BY <1>1, <1>2, PTL DEF ToolSpec, RoleSeparation

\* The sections of the variables come from a configuration file, also after
\* reloads, restarts and added devices.
NodesTyped == nodes \in [Devices -> [Variables -> NodeConfigs]]

\* What is made of a file has the type.
LEMMA LoadedNodes ==
    ASSUME NEW file \in Files
    PROVE  /\ LoadVariables(file) \in [Variables -> NodeConfigs]
           /\ LoadNodes(file) \in [Devices -> [Variables -> NodeConfigs]]
<1>1. ASSUME NEW v \in Variables PROVE LoadNode(file.nodes[v]) \in NodeConfigs
  BY DEF NodeConfigs
<1>2. LoadVariables(file) \in [Variables -> NodeConfigs]
  BY <1>1 DEF LoadVariables
<1>3. QED
  BY <1>2 DEF LoadNodes

\* A section's bounds are numbers.
LEMMA BoundsAreNumbers ==
    ASSUME NEW node \in NodeConfigs
    PROVE  node.min \subseteq Int /\ node.max \subseteq Int
<1>1. PICK file \in Files, v \in Variables : node = LoadNode(file.nodes[v])
  BY DEF NodeConfigs
<1>2. node.min = file.nodes[v].min /\ node.max = file.nodes[v].max
  BY <1>1 DEF LoadNode
<1>3. QED
  BY <1>2, WritesConfig

\* Only an added device, a reload and a restart change the sections.
LEMMA NodesStep == NodesTyped /\ [ToolNext]_toolVars => NodesTyped'
<1> SUFFICES ASSUME NodesTyped, [ToolNext]_toolVars PROVE NodesTyped'
  OBVIOUS
<1>1. ASSUME UNCHANGED server PROVE NodesTyped'
  BY <1>1 DEF NodesTyped, server
<1>2. ASSUME NEW file \in Files, nodes' = LoadNodes(file) PROVE NodesTyped'
  BY <1>2, LoadedNodes DEF NodesTyped
<1>3. ASSUME NEW tool, NEW role, NEW d \in Devices, NEW section, ManageDevice(tool, role, d, section)
      PROVE  NodesTyped'
  <2>1. CASE UNCHANGED nodes
    BY <2>1 DEF NodesTyped
  <2>2. ASSUME NEW file \in Files, nodes' = [nodes EXCEPT ![d] = LoadVariables(file)]
        PROVE  NodesTyped'
    BY <2>2, LoadedNodes DEF NodesTyped
  <2>3. QED
    BY <1>3, <2>1, <2>2 DEF ManageDevice
<1>4. ASSUME NEW role \in Roles \cup {NoRole}, Execute(role) PROVE NodesTyped'
  BY <1>1, <1>2, <1>3, <1>4
     DEF Execute, Consult, Refused, WriteNode, CallDeviceMethod, PrepareDeviceAction,
         ConfirmDeviceAction, CancelDeviceAction, OperationExpired, AlarmOrCacheTool,
         UpdateAlarmRule, ReloadConfiguration
<1>5. QED
  BY <1>1, <1>2, <1>4 DEF ToolNext, toolVars, Malformed, WriteRecord, Answer, Restart, TimePasses

\* Only write_node hands a value to a device.
LEMMA WritingStep ==
    ASSUME NEW role \in Roles \cup {NoRole}, Execute(role), call'.write # NoWrite
    PROVE  \E d \in Devices, v \in Variables, value \in Values, ok \in BOOLEAN :
              WriteNode(role, d, v, value, ok)
<1> USE DEF Executed
<1>1. ~(\E tool : Consult(tool, role) \/ Refused(tool, role))
  BY DEF Consult, Refused
<1>2. ~(\E tool, d, ok : AlarmOrCacheTool(tool, role, d, ok))
  BY DEF AlarmOrCacheTool
<1>3. ~(\E d, m, ok : CallDeviceMethod(role, d, m, ok))
  BY DEF CallDeviceMethod
<1>4. ~(\E d, a, m : PrepareDeviceAction(role, d, a, m))
  BY DEF PrepareDeviceAction
<1>5. ~(\E id : ConfirmDeviceAction(role, id) \/ CancelDeviceAction(role, id)
                \/ \E tool : OperationExpired(tool, role, id))
  BY DEF ConfirmDeviceAction, CancelDeviceAction, OperationExpired
<1>6. ASSUME NEW tool, NEW d, NEW section, ManageDevice(tool, role, d, section) PROVE FALSE
  <2>1. Executed(tool, role, TRUE, {"configuration", "operations"}, NoWrite)
    BY <1>6 DEF ManageDevice
  <2>2. QED
    BY <2>1
<1>7. ~(\E d : UpdateAlarmRule(role, d)) /\ ~ReloadConfiguration(role)
  BY DEF UpdateAlarmRule, ReloadConfiguration
<1>8. QED
  BY <1>1, <1>2, <1>3, <1>4, <1>5, <1>6, <1>7 DEF Execute

\* validate_write_constraints lets through only what the section allows.
LEMMA ConstraintsAreChecked ==
    ASSUME NEW node \in NodeConfigs, NEW value \in Values, ValidateWriteConstraints(node, value)
    PROVE  Allowed(node, value)
<1>1. node.min \subseteq Int /\ node.max \subseteq Int
  BY BoundsAreNumbers
<1>2. value.numeric => value.number \in Int
  BY WritesConfig
<1>3. ASSUME NEW low \in node.min PROVE value.numeric /\ low <= value.number
  BY <1>1, <1>2, <1>3 DEF ValidateWriteConstraints
<1>4. ASSUME NEW high \in node.max PROVE value.numeric /\ value.number <= high
  BY <1>1, <1>2, <1>4 DEF ValidateWriteConstraints
<1>5. QED
  BY <1>3, <1>4 DEF Allowed, ValidateWriteConstraints

\* For all configuration files, variables and values: a value reaches a device
\* only under both switches and within every constraint in force.
THEOREM WritesObeyPolicy == ToolSpec => WritePolicy
<1> DEFINE Obeyed ==
      call'.at = "audit" /\ call = NoCall /\ call'.write # NoWrite
      => LET w == call'.write IN
         /\ ~settings.read_only /\ settings.write_enabled
         /\ config[w.device].status = "enabled"
         /\ nodes[w.device][w.variable].writable
         /\ Allowed(nodes[w.device][w.variable], w.value)
<1>1. NodesTyped /\ [ToolNext]_toolVars => [Obeyed]_toolVars
  <2> SUFFICES ASSUME NodesTyped, ToolNext, call = NoCall, call'.at = "audit", call'.write # NoWrite
               PROVE  Obeyed
    OBVIOUS
  <2>1. PICK role \in Roles \cup {NoRole} : Execute(role)
    BY ActingStep
  <2>2. PICK d \in Devices, v \in Variables, value \in Values, ok \in BOOLEAN :
               WriteNode(role, d, v, value, ok)
    BY <2>1, WritingStep
  <2>3. call'.write = [device |-> d, variable |-> v, value |-> value]
    BY <2>2 DEF WriteNode, Executed
  <2>4. /\ ~settings.read_only /\ settings.write_enabled
        /\ config[d].status = "enabled" /\ nodes[d][v].writable
        /\ ValidateWriteConstraints(nodes[d][v], value)
    BY <2>2 DEF WriteNode
  <2>5. Allowed(nodes[d][v], value)
    BY <2>4, ConstraintsAreChecked DEF NodesTyped
  <2>6. QED
    BY <2>3, <2>4, <2>5
<1>2. ToolInit => NodesTyped
  BY LoadedNodes DEF ToolInit, NodesTyped
<1>3. QED
  BY <1>1, <1>2, NodesStep, PTL DEF ToolSpec, WritePolicy
=============================================================================
