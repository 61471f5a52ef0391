----------------------- MODULE DeviceConnectionManager -----------------------
(***************************************************************************)
(* DeviceConnectionManager (device_connection_manager.cpp): the managed    *)
(* state of every device, and the calls that the MCP thread and the cache  *)
(* worker make through it at the same time.                                *)
(*                                                                         *)
(* Every access to a managed state is one critical section of mutex_, and  *)
(* the connector is called outside it.  One call is therefore the steps    *)
(*                                                                         *)
(*   admit | mark_connecting | connector | record_success/record_failure   *)
(*                                                                         *)
(* with the last three repeated by the retry loop of the read operations,  *)
(* and the steps of different threads interleave freely between them.      *)
(*                                                                         *)
(* Left out: timestamps, error texts, attempts and latency of the last     *)
(* call, which no decision reads; next_retry_delay_ms, which is always     *)
(* RetryPolicy's delay for consecutive_failures (see RetryPolicy.tla);     *)
(* the "connector is not configured" branch, which needs a configured      *)
(* device without connector while reset() creates both together.           *)
(***************************************************************************)
EXTENDS CircuitBreaker

CONSTANTS Devices,
          Threads,           \* the MCP (stdio) thread and the cache worker
          Worker,            \* the cache worker, one of Threads
          max_retry_count,   \* reliability.max_retry_count
          MaxFailures,       \* bound: consecutive_failures saturates here
          MaxReconnects      \* bound: reconnect_count saturates here

ASSUME ManagerConfig == /\ Worker \in Threads
                        /\ max_retry_count \in Int

\* The failure count is only compared with 0 and with the threshold, so a
\* count that saturates at or above the threshold takes every decision as
\* the unbounded one does.
ASSUME BoundsLargeEnough == /\ MaxFailures \in Nat
                            /\ MaxFailures >= Threshold
                            /\ MaxReconnects \in Nat \ {0}

VARIABLES
    enabled,    \* config_.devices[d].enabled
    states,     \* states_[d]
    calls,      \* what each thread is doing inside the manager
    reachable,  \* environment: does device d answer the connector?
    openCalls   \* history: connector calls begun by t on d since d's circuit opened

vars == <<enabled, states, calls, reachable, openCalls>>

DeviceConnectionState == {"Disabled", "Disconnected", "Connecting", "Connected",
                          "Reconnecting", "Faulted"}

ManagedState == [connection_state     : DeviceConnectionState,
                 online               : BOOLEAN,
                 consecutive_failures : 0 .. MaxFailures,
                 reconnect_count      : 0 .. MaxReconnects,
                 circuit              : Breaker]

\* The public operations; the read operations retry, the others call the
\* connector once.
ReadOperations == {"read_node", "read_nodes"}
SingleOperations == {"write_node", "call_method", "get_health"}
Operations == ReadOperations \cup SingleOperations

max_attempts == (IF max_retry_count > 0 THEN max_retry_count ELSE 0) + 1
AttemptsOf(op) == IF op \in ReadOperations THEN max_attempts ELSE 1

\* A thread is idle, or it is in a call on device, about to do step in the
\* given attempt.  A thread at a record step carries the connector's answer,
\* which may be out of date by the time it is recorded.
Idle == [step |-> "idle"]
CallSteps == {"connecting", "connector", "record_success", "record_failure"}
Calls == [step : CallSteps, device : Devices,
          attempt : 1 .. max_attempts, last : 1 .. max_attempts]

InCall(t, d) == calls[t] # Idle /\ calls[t].device = d

TypeOK == /\ enabled \in [Devices -> BOOLEAN]
          /\ states \in [Devices -> ManagedState]
          /\ calls \in [Threads -> Calls \cup {Idle}]
          /\ reachable \in [Devices -> BOOLEAN]
          /\ openCalls \in [Threads -> [Devices -> Nat]]

-----------------------------------------------------------------------------
\* reset(): a fresh managed state for every configured device.
FreshState(isEnabled) ==
    [connection_state     |-> IF isEnabled THEN "Disconnected" ELSE "Disabled",
     online               |-> FALSE,
     consecutive_failures |-> 0,
     reconnect_count      |-> 0,
     circuit              |-> NewBreaker]

Init == /\ enabled \in [Devices -> BOOLEAN]
        /\ states = [d \in Devices |-> FreshState(enabled[d])]
        /\ calls = [t \in Threads |-> Idle]
        /\ reachable \in [Devices -> BOOLEAN]
        /\ openCalls = [t \in Threads |-> [d \in Devices |-> 0]]

Saturate(n, bound) == IF n < bound THEN n + 1 ELSE bound

\* The history variable restarts whenever the circuit is not open, or opens.
TrackOpenCalls ==
    openCalls' = [t \in Threads |-> [d \in Devices |->
        IF states[d].circuit.state = "Open" /\ states'[d].circuit.state = "Open"
        THEN openCalls[t][d] ELSE 0]]

-----------------------------------------------------------------------------
(* Admission: the first critical section of every operation.               *)

\* Mutant: a refused request is let through to the connector.
AdmitAlways(s) == TRUE

Admitted(s) == Allows(s.circuit)

\* What the critical section leaves behind, admitted or refused.
AfterAdmission(s) == [s EXCEPT !.circuit = AfterAllow(@)]
AfterRefusal(s) == [s EXCEPT !.connection_state = "Faulted", !.online = FALSE,
                             !.circuit = AfterAllow(@)]

\* state_for_locked on a disabled device.
MarkDisabled(s) == [s EXCEPT !.connection_state = "Disabled", !.online = FALSE]

\* The circuit lets the request through (possibly as a HalfOpen probe).
Admit(t, d, op) ==
    /\ calls[t] = Idle
    /\ enabled[d]
    /\ Admitted(states[d])
    /\ states' = [states EXCEPT ![d] = AfterAdmission(@)]
    /\ calls' = [calls EXCEPT ![t] = [step |-> "connecting", device |-> d,
                                      attempt |-> 1, last |-> AttemptsOf(op)]]
    /\ TrackOpenCalls
    /\ UNCHANGED <<enabled, reachable>>

\* The circuit is open: the device is reported faulted and the call returns.
Refuse(t, d) ==
    /\ calls[t] = Idle
    /\ enabled[d]
    /\ ~Admitted(states[d])
    /\ states' = [states EXCEPT ![d] = AfterRefusal(@)]
    /\ TrackOpenCalls
    /\ UNCHANGED <<enabled, calls, reachable>>

\* A call on a disabled device returns before any of this; get_health alone
\* also writes the disabled marks into the managed state.
HealthOfDisabled(t, d) ==
    /\ calls[t] = Idle
    /\ ~enabled[d]
    /\ states' = [states EXCEPT ![d] = MarkDisabled(@)]
    /\ TrackOpenCalls
    /\ UNCHANGED <<enabled, calls, reachable>>

-----------------------------------------------------------------------------
(* One attempt.                                                            *)

\* Mutant: every attempt is shown as a first connection.
AlwaysConnecting(s) == [s EXCEPT !.connection_state = "Connecting"]

AfterMarkConnecting(s) ==
    [s EXCEPT !.connection_state = IF s.consecutive_failures > 0
                                   THEN "Reconnecting" ELSE "Connecting"]

\* mark_connecting, after which the thread is inside the connector.
MarkConnecting(t) ==
    /\ calls[t].step = "connecting"
    /\ LET d == calls[t].device IN
         /\ states' = [states EXCEPT ![d] = AfterMarkConnecting(@)]
         /\ openCalls' = [openCalls EXCEPT ![t][d] =
                              IF states[d].circuit.state = "Open" THEN @ + 1 ELSE 0]
    /\ calls' = [calls EXCEPT ![t].step = "connector"]
    /\ UNCHANGED <<enabled, reachable>>

\* The connector answers, outside the lock.  A batch of reads counts as a
\* success when any of its reads is one.
ConnectorAnswers(t) ==
    /\ calls[t].step = "connector"
    /\ calls' = [calls EXCEPT ![t].step =
                     IF reachable[calls[t].device] THEN "record_success"
                     ELSE "record_failure"]
    /\ UNCHANGED <<enabled, states, reachable, openCalls>>

\* A client's request is turned down although the device can be reached: a
\* node or method it does not know, a value it does not take, or one that the
\* connector cannot even convert; or none of the variables of a batch can be
\* read, as when the device is configured without any.  The manager makes no
\* difference between this and a communication failure.
ConnectorRejects(t) ==
    /\ calls[t].step = "connector"
    /\ calls' = [calls EXCEPT ![t].step = "record_failure"]
    /\ UNCHANGED <<enabled, states, reachable, openCalls>>

\* Mutant: the failure streak survives a success.
SuccessKeepsStreak(s) == [s EXCEPT !.online = TRUE,
                                   !.connection_state = "Connected",
                                   !.circuit = AfterSuccess(@)]

AfterRecordSuccess(s) ==
    [connection_state     |-> "Connected",
     online               |-> TRUE,
     consecutive_failures |-> 0,
     reconnect_count      |-> s.reconnect_count,
     circuit              |-> AfterSuccess(s.circuit)]

RecordSuccess(t) ==
    /\ calls[t].step = "record_success"
    /\ states' = [states EXCEPT ![calls[t].device] = AfterRecordSuccess(@)]
    /\ calls' = [calls EXCEPT ![t] = Idle]
    /\ TrackOpenCalls
    /\ UNCHANGED <<enabled, reachable>>

\* Mutant: only the first failure after start-up is counted as a disconnect.
CountsFirstFailureOnly(s) == s.consecutive_failures = 0 /\ ~s.online

\* A failure is a (new) disconnect if the device was online or this is the
\* first failure of a streak.
StartsOutage(s) == s.online \/ s.consecutive_failures = 0

\* Mutant: a failure does not take the device offline.
FailureKeepsOnline(s) ==
    LET failures == Saturate(s.consecutive_failures, MaxFailures)
        circuit == AfterFailure(s.circuit, failures)
    IN  [s EXCEPT !.consecutive_failures = failures,
                  !.reconnect_count = IF StartsOutage(s)
                                      THEN Saturate(@, MaxReconnects) ELSE @,
                  !.circuit = circuit,
                  !.connection_state = IF circuit.state = "Open"
                                       THEN "Faulted" ELSE "Reconnecting"]

AfterRecordFailure(s) ==
    LET failures == Saturate(s.consecutive_failures, MaxFailures)
        circuit == AfterFailure(s.circuit, failures)
    IN  [connection_state     |-> IF circuit.state = "Open"
                                  THEN "Faulted" ELSE "Reconnecting",
         online               |-> FALSE,
         consecutive_failures |-> failures,
         reconnect_count      |-> IF StartsOutage(s)
                                  THEN Saturate(s.reconnect_count, MaxReconnects)
                                  ELSE s.reconnect_count,
         circuit              |-> circuit]

\* Mutant: the loop variable is not advanced.
RetryForever(c) == IF c.attempt < c.last THEN [c EXCEPT !.step = "connecting"] ELSE Idle

\* Mutant: one attempt too many.
RetryOnceMore(c) == IF c.attempt <= c.last
                    THEN [c EXCEPT !.step = "connecting", !.attempt = @ + 1]
                    ELSE Idle

\* The retry loop of read_node and read_nodes; it does not ask the circuit
\* again.  The back-off sleep is a pause between two steps.
AfterFailedAttempt(c) ==
    IF c.attempt < c.last THEN [c EXCEPT !.step = "connecting", !.attempt = @ + 1]
    ELSE Idle

RecordFailure(t) ==
    /\ calls[t].step = "record_failure"
    /\ states' = [states EXCEPT ![calls[t].device] = AfterRecordFailure(@)]
    /\ calls' = [calls EXCEPT ![t] = AfterFailedAttempt(@)]
    /\ TrackOpenCalls
    /\ UNCHANGED <<enabled, reachable>>

-----------------------------------------------------------------------------
(* Configuration changes, time and the environment.                        *)

\* The MCP thread stops (joins) the cache worker, changes the configuration
\* and calls reset(); no call is inside the manager meanwhile.
Reset ==
    /\ \A t \in Threads : calls[t] = Idle
    /\ enabled' \in [Devices -> BOOLEAN]
    /\ states' = [d \in Devices |-> FreshState(enabled'[d])]
    /\ openCalls' = [t \in Threads |-> [d \in Devices |-> 0]]
    /\ UNCHANGED <<calls, reachable>>

ClockAdvances(s) == [s EXCEPT !.circuit = AfterTick(@)]

Tick ==
    /\ states' = [d \in Devices |-> ClockAdvances(states[d])]
    /\ UNCHANGED <<enabled, calls, reachable, openCalls>>

ReachabilityChanges(d) ==
    /\ reachable' = [reachable EXCEPT ![d] = ~@]
    /\ UNCHANGED <<enabled, states, calls, openCalls>>

\* The cache worker only reads batches.
OperationsOf(t) == IF t = Worker THEN {"read_nodes"} ELSE Operations

ThreadStep(t) == \/ MarkConnecting(t)
                 \/ ConnectorAnswers(t)
                 \/ ConnectorRejects(t)
                 \/ RecordSuccess(t)
                 \/ RecordFailure(t)

Request(t, d) == \/ \E op \in OperationsOf(t) : Admit(t, d, op)
                 \/ Refuse(t, d)

Next == \/ \E t \in Threads : \/ ThreadStep(t)
                              \/ \E d \in Devices : Request(t, d)
        \/ \E t \in Threads \ {Worker}, d \in Devices : HealthOfDisabled(t, d)
        \/ Reset
        \/ Tick
        \/ \E d \in Devices : ReachabilityChanges(d)

Spec == Init /\ [][Next]_vars

\* A call that has entered the manager is carried through (connector calls
\* time out), time passes, and the refresh loop of the cache worker comes to
\* every enabled device again and again.
Fairness == /\ \A t \in Threads : WF_vars(ThreadStep(t))
            /\ \A d \in Devices : SF_vars(Request(Worker, d))
            /\ WF_vars(Tick)

FairSpec == Spec /\ Fairness

-----------------------------------------------------------------------------
(* Properties.                                                             *)

\* The breaker is closed exactly while the failure streak is below the
\* threshold, whichever threads report in whichever order: a late failure
\* recorded while HalfOpen or Open, or a late success, never separates the
\* two.  (So the HalfOpen-below-threshold branch of record_failure is dead.)
StreakMatches(s) == s.circuit.state = "Closed" <=> s.consecutive_failures < Threshold

CircuitMatchesStreak == \A d \in Devices : StreakMatches(states[d])

\* What get_health and snapshot report never contradicts itself: an online
\* device has no failure streak and a closed circuit, a Connected device is
\* online, a Faulted one has tripped its circuit, a tripped one is shown as
\* Faulted or Reconnecting, and exactly the disabled devices are Disabled.
Consistent(s, isEnabled) ==
    /\ s.online => /\ s.consecutive_failures = 0
                   /\ s.circuit.state = "Closed"
                   /\ s.connection_state \in {"Connected", "Connecting"}
    /\ s.connection_state = "Connected" => s.online
    /\ s.connection_state = "Faulted" => s.circuit.state # "Closed"
    /\ s.circuit.state # "Closed" => s.connection_state \in {"Faulted", "Reconnecting"}
    /\ s.connection_state = "Disabled" <=> ~isEnabled

HealthConsistent == \A d \in Devices : Consistent(states[d], enabled[d])

\* Load shedding: after its circuit has opened a device sees, from each
\* thread, at most the connector calls of the one operation that was already
\* past admission; the retry loops do not re-check the circuit, but they
\* cannot outlive their attempts, and no new call is admitted.
OpenCallsBounded ==
    \A t \in Threads, d \in Devices : openCalls[t][d] <= max_attempts

\* reconnect_count counts every disconnect: whenever an online device goes
\* offline (other than by a configuration reset) the counter advances in the
\* same step.  The refusal path also clears online, without counting.
DisconnectsCounted ==
    [][\A d \in Devices :
          states[d].online /\ ~states'[d].online
          => \/ states'[d] = FreshState(enabled'[d])
             \/ states'[d].reconnect_count
                  = Saturate(states[d].reconnect_count, MaxReconnects)]_vars

\* Every operation returns to its caller.
CallsReturn == \A t \in Threads : calls[t] # Idle ~> calls[t] = Idle

\* A device that stays enabled and reachable comes back online, however long
\* its circuit had been open and whatever requests keep being refused by it.
\* (Clients must not go on for ever making requests that the device rejects,
\* nor the worker reading a device that has no readable variable: each such
\* call may use up the probe and open the circuit anew.)
Recovery ==
    \A d \in Devices :
        /\ <>[](enabled[d] /\ reachable[d])
        /\ <>[][\A t \in Threads : ~ConnectorRejects(t)]_vars
        => []<>(states[d].online /\ states[d].circuit.state = "Closed")

\* A device that stays unreachable is eventually reported offline for good;
\* answers that were on their way cannot keep it online.
OutageDetected ==
    \A d \in Devices : <>[]~reachable[d] => <>[]~states[d].online

\* The manager implements the breaker's contract (see BreakerContract.tla).
Contract == INSTANCE BreakerContract WITH
    streak  <- [d \in Devices |-> IF states[d].consecutive_failures < Threshold
                                  THEN states[d].consecutive_failures ELSE Threshold],
    circuit <- [d \in Devices |-> states[d].circuit.state],
    waited  <- [d \in Devices |-> states[d].circuit.elapsed]

\* Every step of every thread is, for each device's breaker, a step the
\* contract allows.
ImplementsContract == Contract!Spec

=============================================================================
