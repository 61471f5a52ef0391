------------------------- MODULE MCDeviceStateCache -------------------------
(***************************************************************************)
(* Readings and alarm rules for DeviceStateCache.                          *)
(***************************************************************************)
EXTENDS DeviceStateCache

Number(n) == [ok |-> TRUE, numeric |-> TRUE, value |-> n]
Failed == [ok |-> FALSE, numeric |-> FALSE, value |-> 0]

\* Normal, beyond the warning and the critical limit, no answer.
MCReadings == [v \in Variables |-> {Number(1), Number(2), Number(3), Failed}]

\* Normal and critical.
MCNumbers == [v \in Variables |-> {Number(1), Number(3)}]

\* A value above 1 is a warning, above 2 critical.
MCRules == {[warn_min |-> {}, warn_max |-> {1}, alarm_min |-> {}, alarm_max |-> {2}]}
=============================================================================
