-------------------------- MODULE PendingOperations --------------------------
(***************************************************************************)
(* The two-phase confirmation of high-risk calls in McpServer              *)
(* (mcp_server.cpp): prepare_device_action issues an operation_id,         *)
(* confirm_device_action confirms it, call_device_method consumes it, and  *)
(* every configuration change throws all of them away.                     *)
(*                                                                         *)
(* The stdio thread handles one tool call at a time, so a tool call is one *)
(* step; a call that is answered with an error and changes nothing is no   *)
(* step at all.  Time passes between the calls.  Handing the call over to  *)
(* the connection manager is an "invocation"; what becomes of it there is  *)
(* the subject of DeviceConnectionManager and OpcUaClient.                 *)
(***************************************************************************)
EXTENDS Integers

CONSTANTS Devices, Methods,
          NoMethod,        \* an operation prepared without a method argument
          DeviceConfigs,   \* device sections that a configuration can hold
          Expiry,          \* lifetime of an operation (60 s), in ticks
          MaxOperations,   \* bound: operations issued
          MaxTime          \* bound: ticks

ASSUME OperationsConfig == /\ NoMethod \notin Methods
                           /\ Expiry \in Nat
                           /\ MaxOperations \in Nat
                           /\ MaxTime \in Nat

\* A method is on the device's white list and enabled, and then needs a
\* confirmation ("guarded") or not ("free"); or it is disabled or unknown.
MethodStatus == {"guarded", "free", "disabled", "unknown"}
DeviceStatus == {"enabled", "disabled", "absent"}
DeviceConfig == [status : DeviceStatus, method : [Methods -> MethodStatus]]

ASSUME DeviceConfigsTyped == DeviceConfigs \subseteq DeviceConfig

VARIABLES config,             \* config_.devices
          now,                \* steady_clock
          operation_counter,  \* operation_counter_
          pending,            \* pending_operations_, NotPending where there is no entry
          issued,             \* history: what became of each operation_id
          last                \* history: the last invocation

vars == <<config, now, operation_counter, pending, issued, last>>

Ids == 1 .. MaxOperations
Actions == {"call_device_method", "other"}

Operation == [device_id : Devices, action : Actions, method : Methods \cup {NoMethod},
              expires_at : Nat, confirmed : BOOLEAN]
NotPending == [confirmed |-> FALSE]

\* The client's side of an operation_id: for what it was issued, when, whether
\* it was confirmed, withdrawn (cancelled or overtaken by a configuration
\* change), and how often it has led to an invocation.
Issue == [device : Devices, method : Methods \cup {NoMethod}, at : Nat,
          confirmed : BOOLEAN, withdrawn : BOOLEAN, uses : Nat]
NotIssued == [uses |-> 0]
Invocation == [device : Devices, method : Methods, id : Ids \cup {0}]
NoInvocation == [id |-> 0]

TypeOK == /\ config \in [Devices -> DeviceConfig]
          /\ now \in Nat
          /\ operation_counter \in 0 .. MaxOperations
          /\ pending \in [Ids -> Operation \cup {NotPending}]
          /\ issued \in [Ids -> Issue \cup {NotIssued}]
          /\ last \in Invocation \cup {NoInvocation}

Init == /\ config \in [Devices -> DeviceConfigs]
        /\ now = 0
        /\ operation_counter = 0
        /\ pending = [id \in Ids |-> NotPending]
        /\ issued = [id \in Ids |-> NotIssued]
        /\ last = NoInvocation

IsPending(id) == pending[id] # NotPending
Expired(id) == now > pending[id].expires_at
Callable(d, m) == /\ config[d].status = "enabled"
                  /\ config[d].method[m] \in {"guarded", "free"}

-----------------------------------------------------------------------------
(* The tools.                                                              *)

\* prepare_device_action.  Only the action call_device_method has its method
\* checked; any other action may carry a method or none.
Prepare(d, action, m) ==
    /\ operation_counter < MaxOperations
    /\ config[d].status = "enabled"
    /\ action = "call_device_method" => m \in Methods /\ Callable(d, m)
    /\ LET id == operation_counter + 1 IN
         /\ operation_counter' = id
         /\ pending' = [pending EXCEPT ![id] =
                          [device_id |-> d, action |-> action, method |-> m,
                           expires_at |-> now + Expiry, confirmed |-> FALSE]]
         /\ issued' = [issued EXCEPT ![id] =
                          [device |-> d, method |-> m, at |-> now, confirmed |-> FALSE,
                           withdrawn |-> FALSE, uses |-> 0]]
    /\ UNCHANGED <<config, now, last>>

\* confirm_device_action on a live operation.
Confirm(id) ==
    /\ IsPending(id) /\ ~Expired(id)
    /\ pending' = [pending EXCEPT ![id].confirmed = TRUE]
    /\ issued' = [issued EXCEPT ![id].confirmed = TRUE]
    /\ UNCHANGED <<config, now, operation_counter, last>>

\* confirm_device_action, or call_device_method with a confirmed operation
\* for a guarded method, finds the operation expired and erases it.
DropExpired(id) ==
    /\ IsPending(id) /\ Expired(id)
    /\ pending' = [pending EXCEPT ![id] = NotPending]
    /\ UNCHANGED <<config, now, operation_counter, issued, last>>

\* cancel_device_action
Cancel(id) ==
    /\ IsPending(id)
    /\ pending' = [pending EXCEPT ![id] = NotPending]
    /\ issued' = [issued EXCEPT ![id].withdrawn = TRUE]
    /\ UNCHANGED <<config, now, operation_counter, last>>

\* The operation fits the call: same device and action, and the method it
\* was prepared for, if it names one.
Matches(id, d, m) ==
    /\ pending[id].device_id = d
    /\ pending[id].action = "call_device_method"
    /\ pending[id].method \in {m, NoMethod}

\* Mutant: the operation is not erased when it is used.
NotConsumed(id) == pending

Consumed(id) == [pending EXCEPT ![id] = NotPending]

\* call_device_method on a guarded method: the operation is erased before the
\* call is handed to the connection manager, so it is spent even if the
\* circuit refuses the call.
CallGuarded(d, m, id) ==
    /\ config[d].status = "enabled" /\ config[d].method[m] = "guarded"
    /\ IsPending(id) /\ pending[id].confirmed /\ ~Expired(id)
    /\ Matches(id, d, m)
    /\ pending' = Consumed(id)
    /\ issued' = [issued EXCEPT ![id].uses = @ + 1]
    /\ last' = [device |-> d, method |-> m, id |-> id]
    /\ UNCHANGED <<config, now, operation_counter>>

\* call_device_method on a method that needs no confirmation.
CallFree(d, m) ==
    /\ config[d].status = "enabled" /\ config[d].method[m] = "free"
    /\ last' = [device |-> d, method |-> m, id |-> 0]
    /\ UNCHANGED <<config, now, operation_counter, pending, issued>>

-----------------------------------------------------------------------------
(* Configuration changes and time.                                         *)

\* Mutant: the runtime reset leaves the pending operations in place.
PendingKept == pending

\* reset_runtime_after_config_change clears the map.
NoPending == [id \in Ids |-> NotPending]

Withdrawn == [id \in Ids |-> IF IsPending(id) THEN [issued[id] EXCEPT !.withdrawn = TRUE]
                             ELSE issued[id]]

\* add_device, remove_device, enable_device, disable_device.
ChangeDevice(d, section) ==
    /\ \/ /\ config[d].status = "absent"                        \* add
          /\ section.status # "absent"
       \/ /\ config[d].status # "absent"                        \* remove
          /\ section = [config[d] EXCEPT !.status = "absent"]
       \/ /\ config[d].status # "absent"                        \* enable, disable
          /\ \E s \in {"enabled", "disabled"} : section = [config[d] EXCEPT !.status = s]
    /\ config' = [config EXCEPT ![d] = section]
    /\ pending' = NoPending
    /\ issued' = Withdrawn
    /\ UNCHANGED <<now, operation_counter, last>>

Sections(d) == DeviceConfigs \cup {[config[d] EXCEPT !.status = s] : s \in DeviceStatus}

\* reload_configuration with a file that parses.
Reload ==
    /\ config' \in [Devices -> DeviceConfigs]
    /\ pending' = NoPending
    /\ issued' = Withdrawn
    /\ UNCHANGED <<now, operation_counter, last>>

Tick == /\ now < MaxTime
        /\ now' = now + 1
        /\ UNCHANGED <<config, operation_counter, pending, issued, last>>

Next == \/ \E d \in Devices, a \in Actions, m \in Methods \cup {NoMethod} : Prepare(d, a, m)
        \/ \E id \in Ids : Confirm(id) \/ DropExpired(id) \/ Cancel(id)
        \/ \E d \in Devices, m \in Methods :
              CallFree(d, m) \/ \E id \in Ids : CallGuarded(d, m, id)
        \/ \E d \in Devices : \E section \in Sections(d) : ChangeDevice(d, section)
        \/ Reload
        \/ Tick

Spec == Init /\ [][Next]_vars

-----------------------------------------------------------------------------
(* Properties.                                                             *)

\* An operation_id is good for one invocation, for ever: not again after the
\* call failed, after a configuration change, or by confirming it once more.
OneTimeOperation == \A id \in Ids : issued[id].uses <= 1

\* A guarded method is invoked only under an operation_id, and one that the
\* client got for this very device and method, confirmed, did not cancel,
\* that is not older than its lifetime, and since whose issue the
\* configuration has not changed; and the method is enabled at that moment.
InvocationApproved ==
    [][/\ last' # last /\ config[last'.device].method[last'.method] = "guarded"
          => last'.id \in Ids /\ issued'[last'.id].uses # issued[last'.id].uses
       /\ \A id \in Ids :
            issued'[id].uses # issued[id].uses
            => /\ issued[id].confirmed
               /\ ~issued[id].withdrawn
               /\ now <= issued[id].at + Expiry
               /\ issued[id].device = last'.device
               /\ issued[id].method = last'.method
               /\ Callable(last'.device, last'.method)]_vars
=============================================================================
