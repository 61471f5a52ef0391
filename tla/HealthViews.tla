----------------------------- MODULE HealthViews -----------------------------
(***************************************************************************)
(* What the HTTP servers answer (handle_http_request in mcp_server.cpp)    *)
(* while the MCP thread changes the configuration and the worker of the    *)
(* cache refreshes.                                                        *)
(*                                                                         *)
(* An answer about the devices has two parts.  all_health_json walks       *)
(* config_.devices without a lock and takes the lock of the connection     *)
(* manager for each device; state_json walks it under the lock of the      *)
(* cache.  The MCP thread changes the list under neither: it stops the     *)
(* worker, changes config_, resets the manager, then the cache, and starts *)
(* the worker again.  A walk during which the list is changed has no       *)
(* defined outcome: Undefined stands for any list.  (The process may also  *)
(* crash, after which there is nothing to say.)                            *)
(*                                                                         *)
(* What is known of a device is abstracted to the generation of the        *)
(* configuration under which it was learnt.  update_alarm_rule, which      *)
(* changes no list and resets only the cache, is left out.                 *)
(***************************************************************************)
EXTENDS HttpServer, FiniteSets, SequencesExt

CONSTANTS Devices,
          MaxChanges    \* bound: configuration changes

ASSUME ViewConfig == MaxChanges \in Nat /\ IsFiniteSet(Devices)

VARIABLES devices,      \* the ids in config_.devices, in order
          generation,   \* history: how many times the configuration has been changed
          change,       \* where the MCP thread is in a change
          connections,  \* per device, under which generation its connection state was learnt
          states,       \* the same for the state in the cache
          worker,       \* the worker of the cache
          walk          \* per server, the answer its handler puts together

viewVars == <<devices, generation, change, connections, states, worker, walk>>
allVars == <<vars, viewVars>>

Nothing == -1           \* nothing has been learnt: the state of a fresh entry
Known == Nothing .. MaxChanges
Undefined == << <<"undefined", Nothing - 1>> >>   \* what no walk can list

DeviceLists == {s \in SeqOf(Devices, Cardinality(Devices)) : IsInjective(s)}

\* The order in which a path computes its parts; the arguments of
\* prometheus_text may be evaluated in either order.
Parts == {<<"connections", "cache">>, <<"cache", "connections">>}

NoWalk == [at |-> "none"]
Listing == Seq(Devices \X Known) \cup {Undefined}

\* A handler is at the first of the parts that are left.  It has listed the
\* devices before next, and a change has overlapped with it or not.
Walks == [at : {"walk", "done"}, left : {SubSeq(p, i, 2) : p \in Parts, i \in 1 .. 3},
          next : 1 .. Cardinality(Devices) + 1, overlapped : BOOLEAN,
          listed : [{"connections", "cache"} -> Listing] \cup {<<>>}]

\* The answer of every handler in the handler's place, and never one without.
ViewTypeOK ==
    /\ TypeOK
    /\ devices \in DeviceLists
    /\ generation \in 0 .. MaxChanges
    /\ change \in {"none", "stop", "change", "connections", "cache", "start"}
    /\ connections \in [Devices -> Known] /\ states \in [Devices -> Known]
    /\ worker \in {<<"off">>, <<"waits">>} \cup ({"read"} \X Devices \X Known)
    /\ \A s \in Servers : walk[s] # NoWalk => serve[s] = "handle" /\ walk[s] \in Walks

ViewInit == /\ Init
            /\ devices \in DeviceLists
            /\ generation = 0 /\ change = "none"
            /\ connections = [d \in Devices |-> Nothing]
            /\ states = [d \in Devices |-> Nothing]
            /\ worker = <<"waits">>
            /\ walk = [s \in Servers |-> NoWalk]

-----------------------------------------------------------------------------
(* The handlers.                                                           *)

\* Is the list changed, with what was learnt of the old one still in place?
Changing == change \in {"connections", "cache"}

\* /health/live and unknown paths say nothing of the devices; /health/ready,
\* /health/devices and /metrics do.
HandlerStarts(s) ==
    /\ serve[s] = "handle" /\ walk[s] = NoWalk
    /\ \E parts \in Parts \cup {<<>>} :
         walk' = [walk EXCEPT ![s] = [at |-> IF parts = <<>> THEN "done" ELSE "walk",
                                      left |-> parts, next |-> 1, overlapped |-> Changing,
                                      listed |-> [p \in ToSet(parts) |-> <<>>]]]
    /\ UNCHANGED <<vars, devices, generation, change, connections, states, worker>>

\* The next part, or the end.
PartDone(w) == [w EXCEPT !.left = Tail(@), !.next = 1,
                         !.at = IF Tail(w.left) = <<>> THEN "done" ELSE "walk"]

\* What is listed of a device.
Entry(d, known) == <<d, known[d]>>

\* all_health_json: one turn of the loop takes the manager's lock for the
\* device's snapshot, ...
WalkDevice(s) ==
    /\ walk[s].at = "walk" /\ Head(walk[s].left) = "connections"
    /\ walk[s].next <= Len(devices) /\ walk[s].listed["connections"] # Undefined
    /\ walk' = [walk EXCEPT ![s].next = @ + 1,
                            ![s].listed["connections"] =
                               Append(@, Entry(devices[walk[s].next], connections))]
    /\ UNCHANGED <<vars, devices, generation, change, connections, states, worker>>

WalkEnds(s) ==
    /\ walk[s].at = "walk" /\ Head(walk[s].left) = "connections"
    /\ walk[s].next > Len(devices) \/ walk[s].listed["connections"] = Undefined
    /\ walk' = [walk EXCEPT ![s] = PartDone(@)]
    /\ UNCHANGED <<vars, devices, generation, change, connections, states, worker>>

\* ... state_json holds the lock of the cache for the whole loop: worker and
\* reset wait for it, a change of the list does not.
StateJson(s) ==
    /\ walk[s].at = "walk" /\ Head(walk[s].left) = "cache"
    /\ walk' = [walk EXCEPT ![s] = PartDone(
                   IF walk[s].listed["cache"] = Undefined THEN walk[s]
                   ELSE [walk[s] EXCEPT !.listed["cache"] =
                           [i \in DOMAIN devices |-> Entry(devices[i], states)]])]
    /\ UNCHANGED <<vars, devices, generation, change, connections, states, worker>>

\* The handler returns its response.
Respond(s) ==
    /\ walk[s].at = "done"
    /\ Handle(s)
    /\ walk' = [walk EXCEPT ![s] = NoWalk]
    /\ UNCHANGED <<devices, generation, change, connections, states, worker>>

-----------------------------------------------------------------------------
(* The worker: read_nodes records in the manager, then the state is stored. *)

WorkerReads(d) ==
    /\ worker = <<"waits">> /\ d \in ToSet(devices)
    /\ worker' = <<"read", d, generation>>
    /\ connections' = [connections EXCEPT ![d] = generation]
    /\ UNCHANGED <<vars, devices, generation, change, states, walk>>

WorkerStores ==
    /\ worker[1] = "read"
    /\ states' = [states EXCEPT ![worker[2]] = worker[3]]
    /\ worker' = <<"waits">>
    /\ UNCHANGED <<vars, devices, generation, change, connections, walk>>

-----------------------------------------------------------------------------
(* add_device, remove_device, enable_device, disable_device and            *)
(* reload_configuration on the MCP thread.                                 *)

ChangeBegins ==
    /\ main.at = "running" /\ change = "none" /\ generation < MaxChanges
    /\ change' = "stop"
    /\ UNCHANGED <<vars, devices, generation, connections, states, worker, walk>>

\* Mutant: the worker is not waited for.
StopsAtOnce == TRUE

WorkerStopped == worker \in {<<"off">>, <<"waits">>}

StopWorker ==
    /\ change = "stop" /\ WorkerStopped
    /\ worker' = IF worker = <<"waits">> THEN <<"off">> ELSE worker
    /\ change' = "change"
    /\ UNCHANGED <<vars, devices, generation, connections, states, walk>>

\* The lists a change can lead to: one device more at the end, one fewer, the
\* same (a device is enabled or disabled), or any (the file is read again).
Changed(list) == {Append(list, d) : d \in Devices \ ToSet(list)}
                 \cup {RemoveAt(list, i) : i \in DOMAIN list}
                 \cup {list} \cup DeviceLists

\* A handler in the middle of the old list is left with whatever it finds: one
\* in all_health_json that has listed a device, one in state_json.
Overtaken(w, inStateJson) ==
    IF w = NoWalk THEN w
    ELSE [w EXCEPT !.overlapped = TRUE,
                   !.listed = IF w.at = "walk" /\ (w.next > 1 \/ (Head(w.left) = "cache" /\ inStateJson))
                              THEN [@ EXCEPT ![Head(w.left)] = Undefined] ELSE @]

ChangeConfig ==
    /\ change = "change"
    /\ devices' \in Changed(devices)
    /\ generation' = generation + 1
    /\ \E inStateJson \in SUBSET Servers :
         walk' = [s \in Servers |-> Overtaken(walk[s], s \in inStateJson)]
    /\ change' = "connections"
    /\ UNCHANGED <<vars, connections, states, worker>>

\* Mutant: only the cache is reset.
ConnectionsKept == connections

ConnectionsAfterReset == [d \in Devices |-> Nothing]

ResetConnections ==
    /\ change = "connections"
    /\ connections' = ConnectionsAfterReset
    /\ change' = "cache"
    /\ UNCHANGED <<vars, devices, generation, states, worker, walk>>

ResetCache ==
    /\ change = "cache"
    /\ states' = [d \in Devices |-> Nothing]
    /\ change' = "start"
    /\ UNCHANGED <<vars, devices, generation, connections, worker, walk>>

\* start(), unless the new configuration has no cache.
StartWorker ==
    /\ change = "start"
    /\ worker' \in {<<"off">>, <<"waits">>}
    /\ change' = "none"
    /\ UNCHANGED <<vars, devices, generation, connections, states, walk>>

-----------------------------------------------------------------------------
HandlerStep(s) == HandlerStarts(s) \/ WalkDevice(s) \/ WalkEnds(s) \/ StateJson(s) \/ Respond(s)

\* The steps of HttpServer other than Handle.
ServerStep(s) == /\ serve[s] # "handle"
                 /\ ServeStep(s)
                 /\ UNCHANGED viewVars

\* A signal ends the process with everything in it.
ProcessKilled(s) ==
    /\ Killed(s)
    /\ change' = "none" /\ worker' = <<"off">>
    /\ connections' = [d \in Devices |-> Nothing] /\ states' = [d \in Devices |-> Nothing]
    /\ walk' = [r \in Servers |-> NoWalk]
    /\ UNCHANGED <<devices, generation>>

\* The destructor of McpServer stops the worker last.
MainThread == /\ MainStep
              /\ worker' = IF main'.at = "destroyed" THEN <<"off">> ELSE worker
              /\ UNCHANGED <<devices, generation, change, connections, states, walk>>

WorkerStep == (\E d \in Devices : WorkerReads(d)) \/ WorkerStores

McpStep == StopWorker \/ ChangeConfig \/ ResetConnections \/ ResetCache \/ StartWorker

ViewNext ==
    \/ MainThread
    \/ change = "none" /\ InputEnds /\ UNCHANGED viewVars
    \/ \E s \in Servers : HandlerStep(s) \/ ServerStep(s) \/ ProcessKilled(s)
    \/ \E s \in Servers : ClientStep(s) /\ UNCHANGED viewVars
    \/ WorkerStep
    \/ ChangeBegins \/ McpStep

ViewSpec == ViewInit /\ [][ViewNext]_allVars

\* As in HttpServer; the MCP thread and the worker are scheduled, too.
FairViewSpec ==
    /\ ViewSpec
    /\ WF_allVars(MainThread)
    /\ \A s \in Servers : WF_allVars(HandlerStep(s) \/ ServerStep(s))
    /\ WF_allVars(WorkerStep)
    /\ WF_allVars(McpStep)

-----------------------------------------------------------------------------
(* Properties.                                                             *)

\* An answer with which no change has overlapped lists in both parts exactly
\* the configured devices, in order, and shows of them only what has been
\* learnt under this configuration: neither the worker nor a reset left
\* anything of an earlier one behind.
AnswerMatchesConfig ==
    \A s \in Servers :
        walk[s].at = "done" /\ ~walk[s].overlapped =>
            \A part \in DOMAIN walk[s].listed :
                LET listed == walk[s].listed[part] IN
                /\ [i \in DOMAIN listed |-> listed[i][1]] = devices
                /\ \A i \in DOMAIN listed : listed[i][2] \in {Nothing, generation}

\* A request that has been sent is answered, also while the configuration is
\* changed again and again and when the process is already shutting down,
\* provided that its clients do not keep the server waiting for ever.  (Or the
\* process has been killed.)
RequestsAnswered ==
    \A s \in Servers :
        []<>~WaitsForClient(s) => (client[s] \in {"sent", "left"} ~> client[s] = "none")
=============================================================================
