----------------------------- MODULE MCDiagnosis -----------------------------
(***************************************************************************)
(* Readings and alarm rules for Diagnosis.                                 *)
(***************************************************************************)
EXTENDS Diagnosis

Number(n) == [ok |-> TRUE, numeric |-> TRUE, value |-> n]
Failed == [ok |-> FALSE, numeric |-> FALSE, value |-> 0]
Text == [ok |-> TRUE, numeric |-> FALSE, value |-> 0]

CONSTANTS v1, v2

\* One variable is critical or cannot be read, the other is no number or
\* cannot be read: partial and complete failures.
MCReadings == [v \in {v1, v2} |-> IF v = v1 THEN {Number(3), Failed} ELSE {Text, Failed}]

\* A value above 1 is a warning, above 2 critical.
MCRules == {[warn_min |-> {}, warn_max |-> {1}, alarm_min |-> {}, alarm_max |-> {2}]}
=============================================================================
