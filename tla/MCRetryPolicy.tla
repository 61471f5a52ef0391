---------------------------- MODULE MCRetryPolicy ----------------------------
(***************************************************************************)
(* A small int for RetryPolicy; negative numbers cannot stand in a cfg.    *)
(***************************************************************************)
EXTENDS RetryPolicy

MCIntMin == -3
=============================================================================
