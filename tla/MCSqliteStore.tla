---------------------------- MODULE MCSqliteStore ----------------------------
(***************************************************************************)
(* Queries for SqliteStore.                                                *)
(***************************************************************************)
EXTENDS SqliteStore

CONSTANT d1

\* Of one device from the beginning, of any device in a bounded time range,
\* with limits below and above the number of records.
MCQueries ==
    {[device_id |-> d1, start_time |-> 0, end_time |-> 9, limit |-> 1],
     [device_id |-> AnyDevice, start_time |-> 0, end_time |-> 9, limit |-> 2],
     [device_id |-> AnyDevice, start_time |-> 2, end_time |-> 2, limit |-> 9]}

=============================================================================
