----------------------------- MODULE MCToolCalls -----------------------------
(***************************************************************************)
(* An instance of ToolCalls for TLC.                                       *)
(***************************************************************************)
EXTENDS ToolCalls

CONSTANTS d1, m1, m2, v1

MCDevices == {d1}
MCMethods == {m1, m2}
MCVariables == {v1}
MCRoles == {"viewer", "operator", "administrator"}

\* Device sections of the configuration files: both methods need a
\* confirmation; one needs none and the other is switched off.
MCDeviceConfigs ==
    {[status |-> "enabled", method |-> (m1 :> "guarded" @@ m2 :> "guarded")],
     [status |-> "enabled", method |-> (m1 :> "free" @@ m2 :> "disabled")]}

Number(n) == [numeric |-> TRUE, number |-> n]
Text == [numeric |-> FALSE, number |-> 0]
MCValues == {Number(1), Number(2), Number(3), Text}

Unrestricted == [writable |-> {TRUE}, allowed |-> {}, min |-> {}, max |-> {}]

\* A read-only installation with every default; one that allows writes within
\* bounds, with an audit log; one that hands tools to the roles and lists the
\* allowed values, and whose default role is unknown.
ReadOnlyFile ==
    [read_only |-> {}, write_enabled |-> {}, security |-> {}, default_role |-> {},
     roles |-> <<>>, security_roles |-> <<>>, audit_log_path |-> {},
     nodes |-> v1 :> [Unrestricted EXCEPT !.writable = {}]]
MaintenanceFile ==
    [read_only |-> {FALSE}, write_enabled |-> {TRUE}, security |-> {}, default_role |-> {"operator"},
     roles |-> <<>>, security_roles |-> <<>>, audit_log_path |-> {"audit"},
     nodes |-> v1 :> [Unrestricted EXCEPT !.min = {2}, !.max = {2}]]
OperatorsFile ==
    [read_only |-> {FALSE}, write_enabled |-> {TRUE}, security |-> {TRUE}, default_role |-> {"guest"},
     roles |-> "operator" :> {"write_node", "call_device_method", "prepare_device_action",
                              "confirm_device_action"},
     security_roles |-> "viewer" :> {"diagnose_fault"} @@ "operator" :> {"list_devices"},
     audit_log_path |-> {"audit"},
     nodes |-> v1 :> [Unrestricted EXCEPT !.allowed = {Number(1), Text}]]

MCFiles == {ReadOnlyFile, MaintenanceFile, OperatorsFile}
MCConsulted == {"diagnose_fault", "read_node"}
=============================================================================
