-------------------- MODULE DeviceConnectionManagerProofs --------------------
(***************************************************************************)
(* Machine-checked proofs about DeviceConnectionManager, for any set of    *)
(* devices and threads and any reliability configuration.                  *)
(***************************************************************************)
EXTENDS DeviceConnectionManager, TLAPS

(* The inductive invariant.                                                *)

\* Connector calls that thread t may still begin on d in its current call.
Remaining(t, d) ==
    IF InCall(t, d)
    THEN calls[t].last - calls[t].attempt + (IF calls[t].step = "connecting" THEN 1 ELSE 0)
    ELSE 0

\* A call in progress is on an enabled device and within its attempts.
CallsInProgress ==
    \A t \in Threads : calls[t] # Idle => /\ enabled[calls[t].device]
                                          /\ calls[t].attempt <= calls[t].last

\* The calls begun since the circuit opened and those still to come share
\* one operation's attempts; there are none while the circuit is not open.
CallBudget ==
    \A t \in Threads, d \in Devices :
        /\ openCalls[t][d] + Remaining(t, d) <= max_attempts
        /\ states[d].circuit.state # "Open" => openCalls[t][d] = 0

IInv == /\ TypeOK
        /\ CircuitMatchesStreak
        /\ HealthConsistent
        /\ CallsInProgress
        /\ CallBudget

-----------------------------------------------------------------------------
(* Lemmas about the constants and the operators.                           *)

\* The clamped configuration values are in range whatever the configuration.
LEMMA ConfigRange == /\ Threshold \in Nat \ {0}
                     /\ Cooldown \in Nat
                     /\ max_attempts \in Nat \ {0}
                     /\ MaxFailures \in Nat /\ MaxFailures >= Threshold
                     /\ MaxReconnects \in Nat
BY BreakerConfigInt, ManagerConfig, BoundsLargeEnough
DEF Threshold, Cooldown, max_attempts

\* Breaker operations yield breakers.
LEMMA BreakerOps ==
    ASSUME NEW b \in Breaker, NEW n \in Nat
    PROVE  /\ AfterAllow(b) \in Breaker
           /\ AfterSuccess(b) \in Breaker
           /\ AfterFailure(b, n) \in Breaker
           /\ AfterTick(b) \in Breaker
BY ConfigRange, BreakerConfigInt
DEF Breaker, CircuitState, AfterAllow, AfterSuccess, AfterFailure, AfterTick,
    Allows

\* What the breaker's operations do to its state.
LEMMA BreakerStates ==
    ASSUME NEW b \in Breaker, NEW n \in Nat
    PROVE  /\ AfterAllow(b).state = "Open" <=> (b.state = "Open" /\ ~Allows(b))
           /\ AfterAllow(b).state = "Closed" <=> b.state = "Closed"
           /\ AfterSuccess(b).state = "Closed"
           /\ AfterFailure(b, n).state = "Open" <=> (n >= Threshold \/ b.state = "HalfOpen")
           /\ AfterFailure(b, n).state = "Closed" <=> ~(n >= Threshold \/ b.state = "HalfOpen")
           /\ AfterTick(b).state = b.state
BY DEF Breaker, CircuitState, AfterAllow, AfterSuccess, AfterFailure, AfterTick

\* A new breaker is closed.
LEMMA NewBreakerClosed == NewBreaker \in Breaker /\ NewBreaker.state = "Closed"
BY ConfigRange DEF NewBreaker, Breaker, CircuitState

\* Saturating counters stay within their bound and never fall back to zero.
LEMMA SaturateRange ==
    ASSUME NEW bound \in Nat, NEW n \in 0 .. bound
    PROVE  /\ Saturate(n, bound) \in 0 .. bound
           /\ bound > 0 => Saturate(n, bound) > 0
           /\ Saturate(n, bound) >= n
BY DEF Saturate

\* A failure recorded on a managed state, field by field.
LEMMA RecordFailureFields ==
    ASSUME NEW s \in ManagedState
    PROVE  LET r == AfterRecordFailure(s)
               n == Saturate(s.consecutive_failures, MaxFailures)
           IN  /\ r \in ManagedState
               /\ ~r.online
               /\ r.consecutive_failures = n
               /\ n > 0
               /\ n >= s.consecutive_failures
               /\ r.circuit = AfterFailure(s.circuit, n)
               /\ r.connection_state = IF r.circuit.state = "Open"
                                       THEN "Faulted" ELSE "Reconnecting"
               /\ s.online => r.reconnect_count = Saturate(s.reconnect_count, MaxReconnects)
<1> DEFINE n == Saturate(s.consecutive_failures, MaxFailures)
<1>1. n \in 0 .. MaxFailures /\ n > 0 /\ n >= s.consecutive_failures /\ n \in Nat
  BY ConfigRange, SaturateRange DEF ManagedState
<1>2. Saturate(s.reconnect_count, MaxReconnects) \in 0 .. MaxReconnects
  BY ConfigRange, SaturateRange DEF ManagedState
<1>3. AfterFailure(s.circuit, n) \in Breaker
  BY <1>1, BreakerOps DEF ManagedState
<1>4. QED
  BY <1>1, <1>2, <1>3
  DEF AfterRecordFailure, ManagedState, DeviceConnectionState, StartsOutage

\* A success recorded on a managed state, field by field.
LEMMA RecordSuccessFields ==
    ASSUME NEW s \in ManagedState
    PROVE  LET r == AfterRecordSuccess(s)
           IN  /\ r \in ManagedState
               /\ r.online
               /\ r.consecutive_failures = 0
               /\ r.circuit = AfterSuccess(s.circuit)
               /\ r.connection_state = "Connected"
<1>1. AfterSuccess(s.circuit) \in Breaker
  BY BreakerOps DEF ManagedState
<1>2. QED
  BY <1>1, ConfigRange DEF AfterRecordSuccess, ManagedState, DeviceConnectionState

\* A freshly reset managed state.
LEMMA FreshFields ==
    ASSUME NEW e \in BOOLEAN
    PROVE  /\ FreshState(e) \in ManagedState
           /\ ~FreshState(e).online
           /\ FreshState(e).consecutive_failures = 0
           /\ FreshState(e).circuit = NewBreaker
           /\ FreshState(e).connection_state = IF e THEN "Disconnected" ELSE "Disabled"
BY NewBreakerClosed, ConfigRange DEF FreshState, ManagedState, DeviceConnectionState

\* The steps of a call are not the idle mark.
LEMMA CallShape ==
    ASSUME TypeOK, NEW t \in Threads
    PROVE  /\ calls[t] = Idle <=> calls[t].step = "idle"
           /\ calls[t].step \in CallSteps <=> calls[t] \in Calls
           /\ calls[t] # Idle => calls[t] \in Calls
BY DEF TypeOK, Calls, Idle, CallSteps

\* The retry loop keeps a call within its attempts.
LEMMA RetryShape ==
    ASSUME NEW c \in Calls, c.attempt <= c.last
    PROVE  LET r == AfterFailedAttempt(c)
           IN  /\ r \in Calls \cup {Idle}
               /\ r # Idle => /\ r.device = c.device
                              /\ r.last = c.last
                              /\ r.attempt = c.attempt + 1
                              /\ r.attempt <= r.last
                              /\ r.step = "connecting"
<1>1. CASE c.attempt < c.last
  <2>1. AfterFailedAttempt(c) = [step |-> "connecting", device |-> c.device,
                                 attempt |-> c.attempt + 1, last |-> c.last]
    BY <1>1 DEF AfterFailedAttempt, Calls
  <2>2. c.attempt + 1 \in 1 .. max_attempts /\ c.attempt + 1 <= c.last
    BY <1>1, ConfigRange DEF Calls
  <2>3. QED
    BY <2>1, <2>2 DEF Calls, CallSteps
<1>2. CASE ~(c.attempt < c.last)
  BY <1>2 DEF AfterFailedAttempt
<1>3. QED
  BY <1>1, <1>2

-----------------------------------------------------------------------------
(* Every critical section preserves what is promised of one managed state. *)

StateInv(s, isEnabled) ==
    s \in ManagedState /\ StreakMatches(s) /\ Consistent(s, isEnabled)

\* Admission touches only the circuit.
LEMMA AdmissionFields ==
    ASSUME NEW s \in ManagedState
    PROVE  /\ AfterAdmission(s) \in ManagedState
           /\ AfterAdmission(s).connection_state = s.connection_state
           /\ AfterAdmission(s).online = s.online
           /\ AfterAdmission(s).consecutive_failures = s.consecutive_failures
           /\ AfterAdmission(s).circuit = AfterAllow(s.circuit)
BY BreakerOps, ConfigRange DEF AfterAdmission, ManagedState

\* A refusal, field by field.
LEMMA RefusalFields ==
    ASSUME NEW s \in ManagedState
    PROVE  /\ AfterRefusal(s) \in ManagedState
           /\ AfterRefusal(s).connection_state = "Faulted"
           /\ ~AfterRefusal(s).online
           /\ AfterRefusal(s).consecutive_failures = s.consecutive_failures
           /\ AfterRefusal(s).circuit = AfterAllow(s.circuit)
BY BreakerOps, ConfigRange DEF AfterRefusal, ManagedState, DeviceConnectionState

\* Marking a disabled device, field by field.
LEMMA DisabledFields ==
    ASSUME NEW s \in ManagedState
    PROVE  /\ MarkDisabled(s) \in ManagedState
           /\ MarkDisabled(s).connection_state = "Disabled"
           /\ ~MarkDisabled(s).online
           /\ MarkDisabled(s).consecutive_failures = s.consecutive_failures
           /\ MarkDisabled(s).circuit = s.circuit
BY DEF MarkDisabled, ManagedState, DeviceConnectionState

\* mark_connecting touches only connection_state.
LEMMA ConnectingFields ==
    ASSUME NEW s \in ManagedState
    PROVE  /\ AfterMarkConnecting(s) \in ManagedState
           /\ AfterMarkConnecting(s).connection_state
                = IF s.consecutive_failures > 0 THEN "Reconnecting" ELSE "Connecting"
           /\ AfterMarkConnecting(s).online = s.online
           /\ AfterMarkConnecting(s).consecutive_failures = s.consecutive_failures
           /\ AfterMarkConnecting(s).circuit = s.circuit
BY DEF AfterMarkConnecting, ManagedState, DeviceConnectionState

\* The clock touches only the circuit.
LEMMA ClockFields ==
    ASSUME NEW s \in ManagedState
    PROVE  /\ ClockAdvances(s) \in ManagedState
           /\ ClockAdvances(s).connection_state = s.connection_state
           /\ ClockAdvances(s).online = s.online
           /\ ClockAdvances(s).consecutive_failures = s.consecutive_failures
           /\ ClockAdvances(s).circuit = AfterTick(s.circuit)
BY BreakerOps, ConfigRange DEF ClockAdvances, ManagedState

\* Each operation on an enabled device's managed state keeps StateInv.
LEMMA StateInvPreserved ==
    ASSUME NEW s, StateInv(s, TRUE)
    PROVE  /\ StateInv(AfterAdmission(s), TRUE)
           /\ ~Admitted(s) => StateInv(AfterRefusal(s), TRUE)
           /\ StateInv(AfterMarkConnecting(s), TRUE)
           /\ StateInv(AfterRecordSuccess(s), TRUE)
           /\ StateInv(AfterRecordFailure(s), TRUE)
<1> s \in ManagedState /\ s.circuit \in Breaker /\ s.consecutive_failures \in Nat
  BY ConfigRange DEF StateInv, ManagedState
<1>1. StateInv(AfterAdmission(s), TRUE)
  BY AdmissionFields, BreakerStates DEF StateInv, StreakMatches, Consistent
<1>2. ASSUME ~Admitted(s) PROVE StateInv(AfterRefusal(s), TRUE)
  <2>1. AfterAllow(s.circuit).state = "Open" /\ s.circuit.state = "Open"
    BY <1>2, BreakerStates DEF Admitted, Allows
  <2>2. QED
    BY <2>1, RefusalFields DEF StateInv, StreakMatches, Consistent
<1>3. StateInv(AfterMarkConnecting(s), TRUE)
  BY ConnectingFields, ConfigRange DEF StateInv, StreakMatches, Consistent
<1>4. StateInv(AfterRecordSuccess(s), TRUE)
  BY RecordSuccessFields, BreakerStates, ConfigRange DEF StateInv, StreakMatches, Consistent
<1>5. StateInv(AfterRecordFailure(s), TRUE)
  <2> DEFINE r == AfterRecordFailure(s)
             n == Saturate(s.consecutive_failures, MaxFailures)
  <2>1. /\ r \in ManagedState /\ ~r.online /\ r.consecutive_failures = n
        /\ r.circuit = AfterFailure(s.circuit, n)
        /\ r.connection_state = IF r.circuit.state = "Open" THEN "Faulted" ELSE "Reconnecting"
        /\ n \in Nat /\ n >= s.consecutive_failures
    BY RecordFailureFields, ConfigRange, SaturateRange DEF ManagedState
  <2>2. /\ r.circuit.state = "Open" <=> (n >= Threshold \/ s.circuit.state = "HalfOpen")
        /\ r.circuit.state = "Closed" <=> ~(n >= Threshold \/ s.circuit.state = "HalfOpen")
    BY <2>1, BreakerStates
  <2>3. s.circuit.state = "HalfOpen" => n >= Threshold
    BY <2>1, ConfigRange DEF StateInv, StreakMatches
  <2>4. StreakMatches(r)
    BY <2>1, <2>2, <2>3, ConfigRange DEF StreakMatches
  <2>5. Consistent(r, TRUE)
    BY <2>1, <2>2 DEF Consistent
  <2>6. QED
    BY <2>1, <2>4, <2>5 DEF StateInv
<1>6. QED
  BY <1>1, <1>2, <1>3, <1>4, <1>5

\* A fresh state, a disabled device and the clock keep it for any device.
LEMMA StateInvAny ==
    ASSUME NEW e \in BOOLEAN
    PROVE  /\ StateInv(FreshState(e), e)
           /\ \A s : StateInv(s, e) => StateInv(ClockAdvances(s), e)
           /\ \A s : StateInv(s, FALSE) => StateInv(MarkDisabled(s), FALSE)
<1>1. StateInv(FreshState(e), e)
  BY FreshFields, NewBreakerClosed, ConfigRange DEF StateInv, StreakMatches, Consistent
<1>2. ASSUME NEW s, StateInv(s, e) PROVE StateInv(ClockAdvances(s), e)
  <2>1. s \in ManagedState /\ s.circuit \in Breaker
    BY <1>2 DEF StateInv, ManagedState
  <2>2. AfterTick(s.circuit).state = s.circuit.state
    BY <2>1, BreakerStates
  <2>3. QED
    BY <1>2, <2>1, <2>2, ClockFields DEF StateInv, StreakMatches, Consistent
<1>3. ASSUME NEW s, StateInv(s, FALSE) PROVE StateInv(MarkDisabled(s), FALSE)
  BY <1>3, DisabledFields DEF StateInv, StreakMatches, Consistent
<1>4. QED
  BY <1>1, <1>2, <1>3

-----------------------------------------------------------------------------
(* The inductive invariant.                                                *)

\* IInv as one promise per device and one per thread.
LEMMA IInvSplit ==
    IInv <=> /\ enabled \in [Devices -> BOOLEAN]
             /\ reachable \in [Devices -> BOOLEAN]
             /\ DOMAIN states = Devices /\ states = [d \in Devices |-> states[d]]
             /\ \A d \in Devices : StateInv(states[d], enabled[d])
             /\ calls \in [Threads -> Calls \cup {Idle}]
             /\ openCalls \in [Threads -> [Devices -> Nat]]
             /\ CallsInProgress
             /\ CallBudget
BY DEF IInv, TypeOK, CircuitMatchesStreak, HealthConsistent, StateInv

\* The history variable never grows by tracking, and is zero off Open.
LEMMA Tracked ==
    ASSUME openCalls \in [Threads -> [Devices -> Nat]], TrackOpenCalls
    PROVE  /\ openCalls' \in [Threads -> [Devices -> Nat]]
           /\ \A t \in Threads, d \in Devices :
                /\ openCalls'[t][d] <= openCalls[t][d]
                /\ states'[d].circuit.state # "Open" => openCalls'[t][d] = 0
                /\ states[d].circuit.state # "Open" => openCalls'[t][d] = 0
BY DEF TrackOpenCalls

\* An upper bound on what a thread may still begin.
LEMMA RemainingRange ==
    ASSUME IInv, NEW t \in Threads, NEW d \in Devices
    PROVE  Remaining(t, d) \in 0 .. max_attempts
BY ConfigRange, CallShape DEF IInv, TypeOK, Remaining, InCall, CallsInProgress, Calls

\* A manager that has just been constructed and reset satisfies the invariant.
LEMMA InitIInv == Init => IInv
<1> SUFFICES ASSUME Init PROVE IInv
  OBVIOUS
<1>1. \A d \in Devices : StateInv(states[d], enabled[d])
  BY StateInvAny DEF Init
<1>2. CallsInProgress /\ CallBudget
  BY ConfigRange DEF Init, CallsInProgress, CallBudget, Remaining, InCall
<1>3. QED
  BY <1>1, <1>2, IInvSplit DEF Init

\* Admission starts a call with a fresh budget.
LEMMA AdmitStep ==
    ASSUME IInv, NEW t \in Threads, NEW d \in Devices, NEW op \in Operations, Admit(t, d, op)
    PROVE  IInv'
<1>1. \A e \in Devices : StateInv(states'[e], enabled'[e])
  BY IInvSplit, StateInvPreserved DEF Admit
<1>2. states' = [e \in Devices |-> states'[e]] /\ DOMAIN states' = Devices
  BY IInvSplit DEF Admit
<1>3. AttemptsOf(op) \in 1 .. max_attempts
  BY ConfigRange DEF AttemptsOf
<1>4. calls' \in [Threads -> Calls \cup {Idle}] /\ CallsInProgress'
  BY <1>3, ConfigRange, IInvSplit DEF Admit, Calls, CallSteps, CallsInProgress, Idle
<1>5. states'[d].circuit.state # "Open"
  <2>1. states[d] \in ManagedState /\ states[d].circuit \in Breaker
    BY DEF IInv, TypeOK, ManagedState
  <2>2. QED
    BY <2>1, IInvSplit, BreakerStates, AdmissionFields DEF Admit, Admitted
<1>6. CallBudget'
  <2> SUFFICES ASSUME NEW u \in Threads, NEW e \in Devices
               PROVE  /\ openCalls'[u][e] + Remaining(u, e)' <= max_attempts
                      /\ states'[e].circuit.state # "Open" => openCalls'[u][e] = 0
    BY DEF CallBudget
  <2>1. /\ openCalls'[u][e] \in Nat /\ openCalls[u][e] \in Nat
        /\ openCalls'[u][e] <= openCalls[u][e]
        /\ states'[e].circuit.state # "Open" => openCalls'[u][e] = 0
    BY Tracked, IInvSplit DEF Admit
  <2>2. openCalls[u][e] + Remaining(u, e) <= max_attempts
    BY DEF IInv, CallBudget
  <2>3. CASE u = t /\ e = d
    <3>1. Remaining(u, e)' = AttemptsOf(op)
      BY <2>3, <1>3, ConfigRange, IInvSplit DEF Admit, Remaining, InCall, Idle
    <3>2. QED
      BY <3>1, <2>1, <2>3, <1>5, <1>3, ConfigRange
  <2>4. CASE ~(u = t /\ e = d)
    <3>1. Remaining(u, e)' = Remaining(u, e)
      BY <2>4, IInvSplit DEF Admit, Remaining, InCall, Idle
    <3>2. QED
      BY <3>1, <2>1, <2>2, RemainingRange, ConfigRange
  <2>5. QED
    BY <2>3, <2>4
<1>7. openCalls' \in [Threads -> [Devices -> Nat]]
  BY Tracked, IInvSplit DEF Admit
<1>8. QED
  BY <1>1, <1>2, <1>4, <1>6, <1>7, IInvSplit DEF Admit, IInv, TypeOK,
     CircuitMatchesStreak, HealthConsistent, StateInv

\* A refusal leaves the calls alone and an open circuit open.
LEMMA RefuseStep ==
    ASSUME IInv, NEW t \in Threads, NEW d \in Devices,
           Refuse(t, d) \/ HealthOfDisabled(t, d)
    PROVE  IInv'
<1>1. \A e \in Devices : StateInv(states'[e], enabled'[e])
  <2>1. \A e \in Devices : StateInv(states[e], enabled[e])
    BY IInvSplit
  <2>2. CASE Refuse(t, d)
    <3>1. StateInv(AfterRefusal(states[d]), TRUE)
      BY <2>1, <2>2, StateInvPreserved, IInvSplit DEF Refuse
    <3>2. QED
      BY <2>1, <2>2, <3>1, IInvSplit DEF Refuse
  <2>3. CASE HealthOfDisabled(t, d)
    <3>1. StateInv(MarkDisabled(states[d]), FALSE)
      BY <2>1, <2>3, StateInvAny, IInvSplit DEF HealthOfDisabled
    <3>2. QED
      BY <2>1, <2>3, <3>1, IInvSplit DEF HealthOfDisabled
  <2>4. QED
    BY <2>2, <2>3
<1>2. states' = [e \in Devices |-> states'[e]] /\ DOMAIN states' = Devices
  BY IInvSplit DEF Refuse, HealthOfDisabled
<1>3. TrackOpenCalls /\ UNCHANGED <<enabled, calls, reachable>>
  BY DEF Refuse, HealthOfDisabled
<1>4. CallsInProgress'
  BY <1>3 DEF IInv, CallsInProgress
<1>5. CallBudget'
  <2> SUFFICES ASSUME NEW u \in Threads, NEW e \in Devices
               PROVE  /\ openCalls'[u][e] + Remaining(u, e)' <= max_attempts
                      /\ states'[e].circuit.state # "Open" => openCalls'[u][e] = 0
    BY DEF CallBudget
  <2>1. /\ openCalls'[u][e] \in Nat /\ openCalls[u][e] \in Nat
        /\ openCalls'[u][e] <= openCalls[u][e]
        /\ states'[e].circuit.state # "Open" => openCalls'[u][e] = 0
    BY <1>3, Tracked, IInvSplit
  <2>2. openCalls[u][e] + Remaining(u, e) <= max_attempts
    BY DEF IInv, CallBudget
  <2>3. Remaining(u, e)' = Remaining(u, e)
    BY <1>3 DEF Remaining, InCall
  <2>4. QED
    BY <2>1, <2>2, <2>3, RemainingRange, ConfigRange
<1>6. QED
  BY <1>1, <1>2, <1>3, <1>4, <1>5, Tracked, IInvSplit DEF IInv, TypeOK,
     CircuitMatchesStreak, HealthConsistent, StateInv

\* Beginning a connector call moves one attempt from "to come" to "begun".
LEMMA MarkConnectingStep ==
    ASSUME IInv, NEW t \in Threads, MarkConnecting(t)
    PROVE  IInv'
<1> DEFINE d == calls[t].device
<1>1. /\ calls[t] \in Calls /\ calls[t] # Idle /\ d \in Devices /\ enabled[d]
      /\ calls[t].step = "connecting"
  BY CallShape DEF IInv, MarkConnecting, CallSteps, Calls, CallsInProgress
<1>2. \A e \in Devices : StateInv(states'[e], enabled'[e])
  <2>1. \A e \in Devices : StateInv(states[e], enabled[e])
    BY IInvSplit
  <2>2. StateInv(AfterMarkConnecting(states[d]), TRUE)
    BY <1>1, <2>1, StateInvPreserved, IInvSplit
  <2>3. QED
    BY <1>1, <2>1, <2>2, IInvSplit DEF MarkConnecting
<1>3. states' = [e \in Devices |-> states'[e]] /\ DOMAIN states' = Devices
  BY IInvSplit DEF MarkConnecting
<1>4. \A e \in Devices : states'[e].circuit = states[e].circuit
  BY <1>1, IInvSplit, ConnectingFields DEF MarkConnecting, StateInv
<1>5. /\ calls'[t] = [step |-> "connector", device |-> d,
                      attempt |-> calls[t].attempt, last |-> calls[t].last]
      /\ calls'[t] \in Calls /\ calls'[t] # Idle
      /\ \A u \in Threads : u # t => calls'[u] = calls[u]
      /\ calls' \in [Threads -> Calls \cup {Idle}]
  <2>1. calls' = [calls EXCEPT ![t].step = "connector"]
    BY DEF MarkConnecting
  <2>2. QED
    BY <1>1, <2>1 DEF IInv, TypeOK, Calls, CallSteps, Idle
<1>6. CallsInProgress'
  <2>1. CallsInProgress /\ enabled' = enabled
    BY DEF IInv, MarkConnecting
  <2>2. QED
    BY <1>1, <1>5, <2>1 DEF CallsInProgress
<1>7. /\ openCalls' \in [Threads -> [Devices -> Nat]]
      /\ \A u \in Threads, e \in Devices :
            ~(u = t /\ e = d) => openCalls'[u][e] = openCalls[u][e]
      /\ openCalls'[t][d] = IF states[d].circuit.state = "Open"
                            THEN openCalls[t][d] + 1 ELSE 0
  BY <1>1, IInvSplit DEF MarkConnecting
<1>8. CallBudget'
  <2> SUFFICES ASSUME NEW u \in Threads, NEW e \in Devices
               PROVE  /\ openCalls'[u][e] + Remaining(u, e)' <= max_attempts
                      /\ states'[e].circuit.state # "Open" => openCalls'[u][e] = 0
    BY DEF CallBudget
  <2>1. /\ openCalls[u][e] + Remaining(u, e) <= max_attempts
        /\ states[e].circuit.state # "Open" => openCalls[u][e] = 0
        /\ openCalls[u][e] \in Nat
    BY IInvSplit DEF CallBudget
  <2>2. CASE u = t /\ e = d
    <3>1. /\ Remaining(u, e)' = calls[t].last - calls[t].attempt
          /\ Remaining(u, e) = calls[t].last - calls[t].attempt + 1
      BY <1>1, <1>5, <2>2 DEF Remaining, InCall, Calls
    <3>2. /\ calls[t].last \in Nat /\ calls[t].attempt \in Nat
          /\ calls[t].attempt >= 1 /\ calls[t].last <= max_attempts
      BY <1>1, ConfigRange DEF Calls
    <3>3. QED
      BY <3>1, <3>2, <2>1, <2>2, <1>4, <1>7, ConfigRange
  <2>3. CASE ~(u = t /\ e = d)
    <3>1. Remaining(u, e)' = Remaining(u, e)
      BY <1>1, <1>5, <2>3 DEF Remaining, InCall
    <3>2. QED
      BY <3>1, <2>1, <2>3, <1>4, <1>7
  <2>4. QED
    BY <2>2, <2>3
<1>9. QED
  BY <1>2, <1>3, <1>5, <1>6, <1>7, <1>8, IInvSplit DEF IInv, TypeOK,
     CircuitMatchesStreak, HealthConsistent, StateInv, MarkConnecting

\* The connector's answer changes only what the thread does next.
LEMMA ConnectorStep ==
    ASSUME IInv, NEW t \in Threads, ConnectorAnswers(t) \/ ConnectorRejects(t)
    PROVE  IInv'
<1>1. calls[t] \in Calls /\ calls[t] # Idle /\ calls[t].step = "connector"
  BY CallShape DEF IInv, ConnectorAnswers, ConnectorRejects, CallSteps, Calls
<1>2. PICK next \in {"record_success", "record_failure"} :
         calls' = [calls EXCEPT ![t].step = next]
  BY DEF ConnectorAnswers, ConnectorRejects
<1>3. /\ calls'[t] = [step |-> next, device |-> calls[t].device,
                      attempt |-> calls[t].attempt, last |-> calls[t].last]
      /\ calls'[t] \in Calls /\ calls'[t] # Idle
      /\ \A u \in Threads : u # t => calls'[u] = calls[u]
      /\ calls' \in [Threads -> Calls \cup {Idle}]
  BY <1>1, <1>2 DEF IInv, TypeOK, Calls, CallSteps, Idle
<1>4. UNCHANGED <<enabled, states, reachable, openCalls>>
  BY DEF ConnectorAnswers, ConnectorRejects
<1>5. CallsInProgress'
  BY <1>1, <1>3, <1>4 DEF IInv, CallsInProgress
<1>6. ASSUME NEW u \in Threads, NEW e \in Devices
      PROVE  Remaining(u, e)' = Remaining(u, e)
  <2>1. CASE u = t
    BY <1>1, <1>3, <2>1 DEF Remaining, InCall, Calls
  <2>2. CASE u # t
    BY <1>3, <2>2 DEF Remaining, InCall
  <2>3. QED
    BY <2>1, <2>2
<1>7. CallBudget'
  BY <1>4, <1>6 DEF IInv, CallBudget
<1>8. QED
  BY <1>3, <1>4, <1>5, <1>7 DEF IInv, TypeOK, CircuitMatchesStreak, HealthConsistent

\* Recording a result: a success ends the call, a failure may go on to the
\* next attempt; neither leaves more connector calls to come than before.
LEMMA RecordStep ==
    ASSUME IInv, NEW t \in Threads, RecordSuccess(t) \/ RecordFailure(t)
    PROVE  IInv'
<1> DEFINE d == calls[t].device
<1>1. /\ calls[t] \in Calls /\ calls[t] # Idle /\ d \in Devices /\ enabled[d]
      /\ calls[t].attempt <= calls[t].last
      /\ calls[t].step \in {"record_success", "record_failure"}
  BY CallShape DEF IInv, RecordSuccess, RecordFailure, CallSteps, Calls, CallsInProgress
<1>2. TrackOpenCalls /\ UNCHANGED <<enabled, reachable>>
  BY DEF RecordSuccess, RecordFailure
<1>3. PICK r : states' = [states EXCEPT ![d] = r] /\ StateInv(r, TRUE)
  BY <1>1, IInvSplit, StateInvPreserved DEF RecordSuccess, RecordFailure
<1>4. /\ \A e \in Devices : StateInv(states'[e], enabled'[e])
      /\ states' = [e \in Devices |-> states'[e]] /\ DOMAIN states' = Devices
  BY <1>1, <1>2, <1>3, IInvSplit
<1>5. PICK c \in Calls \cup {Idle} :
         /\ calls' = [calls EXCEPT ![t] = c]
         /\ c # Idle => /\ c.device = d /\ c.last = calls[t].last
                        /\ c.attempt = calls[t].attempt + 1 /\ c.attempt <= c.last
                        /\ c.step = "connecting"
  BY <1>1, RetryShape DEF RecordSuccess, RecordFailure
<1>6. /\ calls' \in [Threads -> Calls \cup {Idle}]
      /\ calls'[t] = c /\ \A u \in Threads : u # t => calls'[u] = calls[u]
  BY <1>5 DEF IInv, TypeOK
<1>7. CallsInProgress'
  BY <1>1, <1>2, <1>5, <1>6 DEF IInv, CallsInProgress
<1>8. CallBudget'
  <2> SUFFICES ASSUME NEW u \in Threads, NEW e \in Devices
               PROVE  /\ openCalls'[u][e] + Remaining(u, e)' <= max_attempts
                      /\ states'[e].circuit.state # "Open" => openCalls'[u][e] = 0
    BY DEF CallBudget
  <2>1. /\ openCalls'[u][e] \in Nat /\ openCalls[u][e] \in Nat
        /\ openCalls'[u][e] <= openCalls[u][e]
        /\ states'[e].circuit.state # "Open" => openCalls'[u][e] = 0
    BY <1>2, Tracked, IInvSplit
  <2>2. openCalls[u][e] + Remaining(u, e) <= max_attempts
    BY DEF IInv, CallBudget
  <2>3. Remaining(u, e)' \in Int /\ Remaining(u, e)' <= Remaining(u, e)
    <3>1. CASE u = t
      BY <3>1, <1>1, <1>5, <1>6, ConfigRange DEF Remaining, InCall, Calls
    <3>2. CASE u # t
      BY <3>2, <1>6, RemainingRange, ConfigRange DEF Remaining, InCall
    <3>3. QED
      BY <3>1, <3>2
  <2>4. QED
    BY <2>1, <2>2, <2>3, RemainingRange, ConfigRange
<1>9. QED
  BY <1>2, <1>4, <1>6, <1>7, <1>8, Tracked, IInvSplit DEF IInv, TypeOK,
     CircuitMatchesStreak, HealthConsistent, StateInv

\* Resets, the clock and the environment.
LEMMA EnvironmentStep ==
    ASSUME IInv, Reset \/ Tick \/ \E d \in Devices : ReachabilityChanges(d)
    PROVE  IInv'
<1>1. CASE Reset
  <2>1. /\ \A e \in Devices : StateInv(states'[e], enabled'[e])
        /\ states' = [e \in Devices |-> states'[e]] /\ DOMAIN states' = Devices
    BY <1>1, StateInvAny DEF Reset
  <2>2. CallsInProgress' /\ CallBudget'
    BY <1>1, ConfigRange DEF Reset, CallsInProgress, CallBudget, Remaining, InCall
  <2>3. QED
    BY <1>1, <2>1, <2>2 DEF Reset, IInv, TypeOK,
       CircuitMatchesStreak, HealthConsistent, StateInv
<1>2. CASE Tick
  <2>1. /\ \A e \in Devices : StateInv(states'[e], enabled'[e])
        /\ states' = [e \in Devices |-> states'[e]] /\ DOMAIN states' = Devices
    BY <1>2, StateInvAny, IInvSplit DEF Tick
  <2>2. \A e \in Devices : states'[e].circuit.state = states[e].circuit.state
    BY <1>2, IInvSplit, ClockFields, BreakerStates DEF Tick, StateInv, ManagedState
  <2>3. CallsInProgress' /\ CallBudget'
    BY <1>2, <2>2 DEF IInv, Tick, CallsInProgress, CallBudget, Remaining, InCall
  <2>4. QED
    BY <1>2, <2>1, <2>3, IInvSplit DEF Tick, IInv, TypeOK,
       CircuitMatchesStreak, HealthConsistent, StateInv
<1>3. CASE \E d \in Devices : ReachabilityChanges(d)
  <2>1. reachable' \in [Devices -> BOOLEAN]
    BY <1>3 DEF IInv, TypeOK, ReachabilityChanges
  <2>2. UNCHANGED <<enabled, states, calls, openCalls>>
    BY <1>3 DEF ReachabilityChanges
  <2>3. QED
    BY <2>1, <2>2 DEF IInv, TypeOK, CircuitMatchesStreak, HealthConsistent,
       CallsInProgress, CallBudget, Remaining, InCall
<1>4. QED
  BY <1>1, <1>2, <1>3

\* Every step of a thread, of the clock and of the environment keeps the invariant.
LEMMA NextIInv == IInv /\ [Next]_vars => IInv'
<1> SUFFICES ASSUME IInv, [Next]_vars PROVE IInv'
  OBVIOUS
<1>1. CASE UNCHANGED vars
  BY <1>1 DEF vars, IInv, TypeOK, CircuitMatchesStreak, HealthConsistent,
     CallsInProgress, CallBudget, Remaining, InCall
<1>2. CASE Next
  <2>1. \A t \in Threads : OperationsOf(t) \subseteq Operations
    BY DEF OperationsOf, Operations, ReadOperations
  <2>2. QED
    BY <1>2, <2>1, AdmitStep, RefuseStep, MarkConnectingStep, ConnectorStep,
       RecordStep, EnvironmentStep
    DEF Next, ThreadStep, Request
<1>3. QED
  BY <1>1, <1>2

-----------------------------------------------------------------------------
(* The theorems.                                                           *)

\* The inductive invariant holds in every reachable state.
THEOREM Invariance == Spec => []IInv
BY InitIInv, NextIInv, PTL DEF Spec

\* Every reachable managed state and call has the type of the code's.
THEOREM TypeCorrect == Spec => []TypeOK
<1>1. IInv => TypeOK
  BY DEF IInv
<1>2. QED
  BY <1>1, Invariance, PTL

\* The circuit is closed exactly while the streak is below the threshold,
\* under any interleaving of record_success, record_failure and
\* allow_request of any number of threads.
THEOREM CircuitFollowsStreak == Spec => []CircuitMatchesStreak
<1>1. IInv => CircuitMatchesStreak
  BY DEF IInv
<1>2. QED
  BY <1>1, Invariance, PTL

\* The reported health never contradicts itself.
THEOREM HealthIsConsistent == Spec => []HealthConsistent
<1>1. IInv => HealthConsistent
  BY DEF IInv
<1>2. QED
  BY <1>1, Invariance, PTL

\* After a circuit opens, each thread makes at most one operation's worth of
\* connector calls on the device.
THEOREM LoadShedding == Spec => []OpenCallsBounded
<1>1. IInv => OpenCallsBounded
  <2> SUFFICES ASSUME IInv, NEW t \in Threads, NEW d \in Devices
               PROVE  openCalls[t][d] <= max_attempts
    BY DEF OpenCallsBounded
  <2>1. openCalls[t][d] + Remaining(t, d) <= max_attempts /\ openCalls[t][d] \in Nat
    BY DEF IInv, TypeOK, CallBudget
  <2>2. QED
    BY <2>1, RemainingRange, ConfigRange
<1>2. QED
  BY <1>1, Invariance, PTL

\* Every transition from online to offline, other than a reset, is counted
\* by reconnect_count in the same step.
THEOREM EveryDisconnectCounted == Spec => DisconnectsCounted
<1> DEFINE Counted ==
      \A d \in Devices :
          states[d].online /\ ~states'[d].online
          => \/ states'[d] = FreshState(enabled'[d])
             \/ states'[d].reconnect_count
                  = Saturate(states[d].reconnect_count, MaxReconnects)
<1>1. IInv /\ [Next]_vars => [Counted]_vars
  <2> SUFFICES ASSUME IInv, Next, NEW d \in Devices,
                      states[d].online, ~states'[d].online
               PROVE  \/ states'[d] = FreshState(enabled'[d])
                      \/ states'[d].reconnect_count
                           = Saturate(states[d].reconnect_count, MaxReconnects)
    OBVIOUS
  <2>1. /\ states[d] \in ManagedState /\ StateInv(states[d], enabled[d])
        /\ states = [e \in Devices |-> states[e]]
    BY IInvSplit DEF StateInv
  <2>2. enabled[d] /\ states[d].circuit.state = "Closed"
    BY <2>1 DEF StateInv, Consistent
  <2>3. ASSUME NEW t \in Threads, ThreadStep(t)
        PROVE  states'[d].reconnect_count = Saturate(states[d].reconnect_count, MaxReconnects)
    <3>1. CASE MarkConnecting(t)
      BY <2>1, <3>1, ConnectingFields DEF MarkConnecting
    <3>2. CASE ConnectorAnswers(t) \/ ConnectorRejects(t)
      BY <3>2 DEF ConnectorAnswers, ConnectorRejects
    <3>3. CASE RecordSuccess(t)
      BY <2>1, <3>3, RecordSuccessFields DEF RecordSuccess
    <3>4. CASE RecordFailure(t)
      BY <2>1, <3>4, RecordFailureFields DEF RecordFailure
    <3>5. QED
      BY <2>3, <3>1, <3>2, <3>3, <3>4 DEF ThreadStep
  <2>4. ASSUME NEW t \in Threads, NEW e \in Devices, NEW op, Admit(t, e, op)
        PROVE  FALSE
    BY <2>1, <2>4, AdmissionFields DEF Admit
  <2>5. ASSUME NEW t \in Threads, NEW e \in Devices, Refuse(t, e) \/ HealthOfDisabled(t, e)
        PROVE  FALSE
    <3>1. e = d
      BY <2>1, <2>5 DEF Refuse, HealthOfDisabled
    <3>2. QED
      BY <2>2, <2>5, <3>1 DEF Refuse, HealthOfDisabled, Admitted, Allows
  <2>6. CASE Reset
    BY <2>6 DEF Reset
  <2>7. CASE Tick
    BY <2>1, <2>7, ClockFields DEF Tick
  <2>8. CASE \E e \in Devices : ReachabilityChanges(e)
    BY <2>8 DEF ReachabilityChanges
  <2>9. QED
    BY <2>3, <2>4, <2>5, <2>6, <2>7, <2>8 DEF Next, Request
<1>2. QED
  BY <1>1, Invariance, PTL DEF Spec, DisconnectsCounted

-----------------------------------------------------------------------------
(* Refinement of the breaker's contract.                                   *)

\* The abstract value of one managed state.
Streak(s) == IF s.consecutive_failures < Threshold THEN s.consecutive_failures
             ELSE Threshold

\* A managed state whose abstract value is unchanged.
SameBreaker(r, s) == r.consecutive_failures = s.consecutive_failures /\ r.circuit = s.circuit

\* A recorded failure is the contract's Fail.
LEMMA FailureIsFail ==
    ASSUME NEW s, StateInv(s, TRUE)
    PROVE  LET r == AfterRecordFailure(s)
               n == IF Streak(s) < Threshold THEN Streak(s) + 1 ELSE Threshold
           IN  /\ Streak(r) = n
               /\ r.circuit.state = IF n = Threshold THEN "Open" ELSE "Closed"
               /\ r.circuit.elapsed = IF n = Threshold /\ s.circuit.state # "Open"
                                      THEN 0 ELSE s.circuit.elapsed
<1> DEFINE f == s.consecutive_failures
           m == Saturate(f, MaxFailures)
<1>1. s \in ManagedState /\ s.circuit \in Breaker /\ f \in 0 .. MaxFailures
  BY DEF StateInv, ManagedState
<1>2. AfterRecordFailure(s).consecutive_failures = m
      /\ AfterRecordFailure(s).circuit = AfterFailure(s.circuit, m)
  BY <1>1, RecordFailureFields
<1>3. m = IF f < MaxFailures THEN f + 1 ELSE MaxFailures
  BY DEF Saturate
<1>4. s.circuit.state = "Closed" <=> f < Threshold
  BY DEF StateInv, StreakMatches
<1>5. QED
  BY <1>1, <1>2, <1>3, <1>4, ConfigRange DEF Streak, AfterFailure, Breaker, CircuitState

\* Each step of the manager is a step of the contract or changes nothing in it.
LEMMA StepRefines == IInv /\ [Next]_vars => [Contract!Next]_(Contract!vars)
<1> SUFFICES ASSUME IInv, [Next]_vars PROVE [Contract!Next]_(Contract!vars)
  OBVIOUS
<1> USE DEF Contract!vars, Contract!Next, Contract!Fail, Contract!Succeed,
        Contract!Probe, Contract!Tick, Contract!Restart
<1>1. /\ \A e \in Devices : StateInv(states[e], enabled[e])
      /\ \A e \in Devices : states[e] \in ManagedState /\ states[e].circuit \in Breaker
      /\ states = [e \in Devices |-> states[e]]
  BY IInvSplit DEF StateInv, ManagedState
<1>2. ASSUME \A e \in Devices : SameBreaker(states'[e], states[e])
      PROVE  UNCHANGED Contract!vars
  BY <1>2 DEF SameBreaker
<1>3. CASE UNCHANGED vars
  BY <1>3, <1>2 DEF vars, SameBreaker
<1>4. ASSUME NEW t \in Threads, NEW d \in Devices, NEW op, Admit(t, d, op)
      PROVE  [Contract!Next]_(Contract!vars)
  <2>1. states' = [states EXCEPT ![d] = AfterAdmission(states[d])] /\ Allows(states[d].circuit)
    BY <1>4 DEF Admit, Admitted
  <2>2. CASE states[d].circuit.state = "Open"
    <3>1. /\ states'[d].circuit = [states[d].circuit EXCEPT !.state = "HalfOpen"]
          /\ states'[d].consecutive_failures = states[d].consecutive_failures
          /\ \A e \in Devices : e # d => states'[e] = states[e]
          /\ states[d].circuit.elapsed = Cooldown
      <4>1. states[d].circuit.elapsed = Cooldown
        <5>1. states[d].circuit.elapsed \in 0 .. Cooldown
          BY <1>1 DEF Breaker
        <5>2. states[d].circuit.elapsed >= Cooldown
          BY <2>1, <2>2 DEF Allows
        <5>3. QED
          BY <5>1, <5>2, ConfigRange
      <4>2. AfterAllow(states[d].circuit) = [states[d].circuit EXCEPT !.state = "HalfOpen"]
        BY <2>1, <2>2 DEF AfterAllow
      <4>3. states'[d] = AfterAdmission(states[d]) /\ \A e \in Devices : e # d => states'[e] = states[e]
        BY <1>1, <2>1
      <4>4. QED
        BY <1>1, <4>1, <4>2, <4>3, AdmissionFields
    <3>2. \A e \in Devices :
            /\ states'[e].circuit.state = IF e = d THEN "HalfOpen" ELSE states[e].circuit.state
            /\ states'[e].circuit.elapsed = states[e].circuit.elapsed
            /\ states'[e].consecutive_failures = states[e].consecutive_failures
      <4>1. /\ [states[d].circuit EXCEPT !.state = "HalfOpen"].state = "HalfOpen"
            /\ [states[d].circuit EXCEPT !.state = "HalfOpen"].elapsed = states[d].circuit.elapsed
        BY <1>1 DEF Breaker
      <4>2. QED
        BY <3>1, <4>1
    <3>3. Contract!Probe(d)
      BY <2>2, <3>1, <3>2
    <3>4. QED
      BY <3>3
  <2>3. CASE states[d].circuit.state # "Open"
    BY <1>1, <1>2, <2>1, <2>3, AdmissionFields DEF AfterAllow, SameBreaker
  <2>4. QED
    BY <2>2, <2>3
<1>5. ASSUME NEW t \in Threads, NEW d \in Devices, Refuse(t, d)
      PROVE  UNCHANGED Contract!vars
  BY <1>1, <1>2, <1>5, RefusalFields DEF Refuse, Admitted, Allows, AfterAllow, SameBreaker
<1>6. ASSUME NEW t \in Threads, NEW d \in Devices, HealthOfDisabled(t, d)
      PROVE  UNCHANGED Contract!vars
  BY <1>1, <1>2, <1>6, DisabledFields DEF HealthOfDisabled, SameBreaker
<1>7. ASSUME NEW t \in Threads, MarkConnecting(t) \/ ConnectorAnswers(t) \/ ConnectorRejects(t)
      PROVE  UNCHANGED Contract!vars
  BY <1>1, <1>2, <1>7, ConnectingFields DEF MarkConnecting, ConnectorAnswers,
     ConnectorRejects, SameBreaker
<1>8. ASSUME NEW t \in Threads, RecordSuccess(t) PROVE Contract!Next
  <2> DEFINE d == calls[t].device
  <2>1. d \in Devices
    BY <1>8, CallShape DEF IInv, RecordSuccess, CallSteps, Calls
  <2>2. /\ states'[d].circuit = [states[d].circuit EXCEPT !.state = "Closed"]
        /\ states'[d].consecutive_failures = 0
        /\ \A e \in Devices : e # d => states'[e] = states[e]
    BY <1>1, <1>8, <2>1, RecordSuccessFields DEF RecordSuccess, AfterSuccess
  <2>3. \A e \in Devices :
          /\ states'[e].circuit.state = IF e = d THEN "Closed" ELSE states[e].circuit.state
          /\ states'[e].circuit.elapsed = states[e].circuit.elapsed
          /\ Streak(states'[e]) = IF e = d THEN 0 ELSE Streak(states[e])
    BY <1>1, <2>1, <2>2, ConfigRange DEF Breaker, Streak
  <2> HIDE DEF d
  <2>4. Contract!Succeed(d)
    BY <2>1, <2>3 DEF Streak
  <2>5. QED
    BY <2>1, <2>4
<1>9. ASSUME NEW t \in Threads, RecordFailure(t) PROVE Contract!Next
  <2> DEFINE d == calls[t].device
  <2>1. d \in Devices /\ enabled[d]
    BY <1>9, CallShape DEF IInv, RecordFailure, CallSteps, Calls, CallsInProgress
  <2>2. /\ states'[d] = AfterRecordFailure(states[d])
        /\ \A e \in Devices : e # d => states'[e] = states[e]
    BY <1>1, <1>9, <2>1 DEF RecordFailure
  <2>3. StateInv(states[d], TRUE)
    BY <1>1, <2>1, IInvSplit
  <2> DEFINE n == IF Streak(states[d]) < Threshold THEN Streak(states[d]) + 1 ELSE Threshold
  <2>4. \A e \in Devices :
          /\ Streak(states'[e]) = IF e = d THEN n ELSE Streak(states[e])
          /\ states'[e].circuit.state =
                IF e = d THEN (IF n = Threshold THEN "Open" ELSE "Closed")
                ELSE states[e].circuit.state
          /\ states'[e].circuit.elapsed =
                IF e = d /\ n = Threshold /\ states[d].circuit.state # "Open"
                THEN 0 ELSE states[e].circuit.elapsed
    <3>1. /\ Streak(AfterRecordFailure(states[d])) = n
          /\ AfterRecordFailure(states[d]).circuit.state
                = IF n = Threshold THEN "Open" ELSE "Closed"
          /\ AfterRecordFailure(states[d]).circuit.elapsed
                = IF n = Threshold /\ states[d].circuit.state # "Open"
                  THEN 0 ELSE states[d].circuit.elapsed
      BY <2>3, FailureIsFail
    <3> HIDE DEF n, d
    <3>2. QED
      BY <2>1, <2>2, <3>1
  <2> HIDE DEF d
  <2>5. Contract!Fail(d)
    <3>1. n = LET m == Streak(states[d]) IN IF m < Threshold THEN m + 1 ELSE Threshold
      OBVIOUS
    <3> HIDE DEF n
    <3>2. [e \in Devices |-> Streak(states'[e])]
            = [[e \in Devices |-> Streak(states[e])] EXCEPT ![d] = n]
      BY <2>1, <2>4
    <3>3. [e \in Devices |-> states'[e].circuit.state]
            = [[e \in Devices |-> states[e].circuit.state] EXCEPT
                 ![d] = IF n = Threshold THEN "Open" ELSE "Closed"]
      BY <2>1, <2>4
    <3>4. [e \in Devices |-> states'[e].circuit.elapsed]
            = [[e \in Devices |-> states[e].circuit.elapsed] EXCEPT
                 ![d] = IF n = Threshold /\ states[d].circuit.state # "Open"
                        THEN 0 ELSE states[d].circuit.elapsed]
      BY <2>1, <2>4
    <3>5. QED
      BY <2>1, <3>1, <3>2, <3>3, <3>4 DEF Streak
  <2>6. QED
    BY <2>1, <2>5
<1>10. CASE Reset
  <2>1. \A e \in Devices : states'[e].consecutive_failures = 0 /\ states'[e].circuit = NewBreaker
    BY <1>10, FreshFields DEF Reset
  <2>2. Contract!Restart
    BY <2>1, ConfigRange DEF NewBreaker
  <2>3. QED
    BY <2>2
<1>11. CASE Tick
  <2>1. \A e \in Devices :
           /\ states'[e].consecutive_failures = states[e].consecutive_failures
           /\ states'[e].circuit = AfterTick(states[e].circuit)
    BY <1>1, <1>11, ClockFields DEF Tick
  <2>2. \A e \in Devices :
           /\ states'[e].circuit.state = states[e].circuit.state
           /\ states'[e].circuit.elapsed =
                IF states[e].circuit.state = "Open" /\ states[e].circuit.elapsed < Cooldown
                THEN states[e].circuit.elapsed + 1 ELSE states[e].circuit.elapsed
    BY <1>1, <2>1 DEF AfterTick, Breaker
  <2>3. Contract!Tick
    BY <2>1, <2>2
  <2>4. QED
    BY <2>3
<1>12. CASE \E d \in Devices : ReachabilityChanges(d)
  BY <1>2, <1>12 DEF ReachabilityChanges, SameBreaker
<1>13. QED
  BY <1>3, <1>4, <1>5, <1>6, <1>7, <1>8, <1>9, <1>10, <1>11, <1>12
  DEF Next, ThreadStep, Request

\* The connection manager implements the breaker's contract: what every
\* thread does to a device's breaker is a behaviour of BreakerContract.
THEOREM ManagerImplementsContract == Spec => ImplementsContract
<1>1. Init => Contract!Init
  BY FreshFields, ConfigRange DEF Init, Contract!Init, NewBreaker
<1>2. IInv /\ [Next]_vars => [Contract!Next]_(Contract!vars)
  BY StepRefines
<1>3. QED
  BY <1>1, <1>2, Invariance, PTL DEF Spec, ImplementsContract, Contract!Spec

=============================================================================
