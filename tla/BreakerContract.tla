--------------------------- MODULE BreakerContract ---------------------------
(***************************************************************************)
(* What the reliability layer promises about one device's circuit, with no *)
(* threads, locks or calls: a streak of consecutive failures, the circuit, *)
(* and the time waited since it opened.                                    *)
(***************************************************************************)
EXTENDS Integers

CONSTANTS Devices, Threshold, Cooldown

VARIABLES streak,   \* consecutive failures, saturating at Threshold
          circuit,
          waited    \* time since the circuit opened, saturating at Cooldown

vars == <<streak, circuit, waited>>

Init == /\ streak = [d \in Devices |-> 0]
        /\ circuit = [d \in Devices |-> "Closed"]
        /\ waited = [d \in Devices |-> 0]

\* The Threshold-th failure in a row opens the circuit; before it the circuit
\* is closed.  A failure while open does not prolong the wait.
Fail(d) ==
    LET n == IF streak[d] < Threshold THEN streak[d] + 1 ELSE Threshold IN
    /\ streak' = [streak EXCEPT ![d] = n]
    /\ circuit' = [circuit EXCEPT ![d] = IF n = Threshold THEN "Open" ELSE "Closed"]
    /\ waited' = [waited EXCEPT ![d] = IF n = Threshold /\ circuit[d] # "Open"
                                       THEN 0 ELSE @]

\* A success, of a probe or of a call begun earlier, closes the circuit.
Succeed(d) ==
    /\ streak' = [streak EXCEPT ![d] = 0]
    /\ circuit' = [circuit EXCEPT ![d] = "Closed"]
    /\ UNCHANGED waited

\* Only a full cooldown turns an open circuit into a half-open one.
Probe(d) ==
    /\ circuit[d] = "Open"
    /\ waited[d] = Cooldown
    /\ circuit' = [circuit EXCEPT ![d] = "HalfOpen"]
    /\ UNCHANGED <<streak, waited>>

Tick == /\ waited' = [d \in Devices |->
                        IF circuit[d] = "Open" /\ waited[d] < Cooldown
                        THEN waited[d] + 1 ELSE waited[d]]
        /\ UNCHANGED <<streak, circuit>>

\* A configuration change starts every circuit afresh.
Restart == /\ streak' = [d \in Devices |-> 0]
           /\ circuit' = [d \in Devices |-> "Closed"]
           /\ waited' = [d \in Devices |-> 0]

Next == \/ \E d \in Devices : Fail(d) \/ Succeed(d) \/ Probe(d)
        \/ Tick
        \/ Restart

Spec == Init /\ [][Next]_vars
=============================================================================
