--------------------------- MODULE CircuitBreaker ---------------------------
(***************************************************************************)
(* The per-device circuit breaker of the reliability layer                 *)
(* (class CircuitBreaker, device_connection_manager.cpp) as operators on   *)
(* its value: the state and the time since it was last opened.             *)
(*                                                                         *)
(* The code keeps the time point opened_at_ and compares now - opened_at_  *)
(* with the cooldown.  Only "has the cooldown elapsed" matters, so the     *)
(* model keeps the elapsed time itself, in ticks, saturating at the        *)
(* cooldown.                                                               *)
(***************************************************************************)
EXTENDS Integers

CONSTANTS circuit_failure_threshold,  \* reliability.circuit_failure_threshold
          circuit_cooldown            \* reliability.circuit_cooldown_ms, in ticks

ASSUME BreakerConfigInt == /\ circuit_failure_threshold \in Int
                           /\ circuit_cooldown \in Int

\* The code clamps what the configuration says: a threshold below one
\* means one, a negative cooldown means none.
Threshold == IF circuit_failure_threshold > 1 THEN circuit_failure_threshold ELSE 1
Cooldown == IF circuit_cooldown > 0 THEN circuit_cooldown ELSE 0

CircuitState == {"Closed", "Open", "HalfOpen"}
Breaker == [state : CircuitState, elapsed : 0 .. Cooldown]

NewBreaker == [state |-> "Closed", elapsed |-> 0]

-----------------------------------------------------------------------------
\* Mutant: the breaker forgets to compare the elapsed time.
AllowsWithoutCooldown(b) == TRUE

\* allow_request returns a verdict and moves an open breaker whose cooldown
\* is over to HalfOpen: Allows is the verdict, AfterAllow the new value.
Allows(b) == b.state # "Open" \/ b.elapsed >= Cooldown

\* Mutant: an open breaker never reaches HalfOpen; a refused request restarts
\* the cooldown.
RestartOnRefusal(b) ==
    IF b.state = "Open" /\ Allows(b) THEN [b EXCEPT !.state = "HalfOpen"]
    ELSE [b EXCEPT !.elapsed = 0]

AfterAllow(b) ==
    IF b.state = "Open" /\ Allows(b) THEN [b EXCEPT !.state = "HalfOpen"] ELSE b

AfterSuccess(b) == [b EXCEPT !.state = "Closed"]

\* Mutant: the threshold comparison is off by one.
TripsOneLate(b, failures) ==
    IF failures > Threshold \/ b.state = "HalfOpen"
    THEN [state |-> "Open", elapsed |-> IF b.state = "Open" THEN b.elapsed ELSE 0]
    ELSE [b EXCEPT !.state = "Closed"]

\* record_failure(consecutive_failures, threshold): opened_at_ is taken only
\* when the breaker was not open already; a failing HalfOpen probe re-opens
\* whatever the count; any other failure leaves the breaker closed.
AfterFailure(b, failures) ==
    IF failures >= Threshold \/ b.state = "HalfOpen"
    THEN [state |-> "Open", elapsed |-> IF b.state = "Open" THEN b.elapsed ELSE 0]
    ELSE [b EXCEPT !.state = "Closed"]

\* One tick of the steady clock, as an open breaker sees it.
AfterTick(b) ==
    IF b.state = "Open" /\ b.elapsed < Cooldown
    THEN [b EXCEPT !.elapsed = @ + 1]
    ELSE b
=============================================================================
