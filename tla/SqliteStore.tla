----------------------------- MODULE SqliteStore -----------------------------
(***************************************************************************)
(* AlarmStore on the SQLite backend (storage_backend.cpp), with the JSONL  *)
(* backend of module AlarmStore as its fallback: while the database is     *)
(* open alarms go to the table alarm_records, and acknowledgements to      *)
(* alarm_acknowledgements as well; if it could not be opened, or its       *)
(* tables not be created, everything goes to the file.                     *)
(*                                                                         *)
(* alarms_ and audit_ (mcp_server.cpp) each have a backend of their own,   *)
(* so there are two connections to one database and no mutex between them. *)
(* SQLite lets one connection write at a time; with no busy timeout set,   *)
(* the other one fails at once with SQLITE_BUSY.  An insert is committed   *)
(* as a whole or not at all, also by a crash.                              *)
(***************************************************************************)
EXTENDS AlarmStore

VARIABLES db,          \* db_ # nullptr, in the process that runs now
          rows,        \* the table alarm_records, by id
          acks,        \* the table alarm_acknowledgements
          inserting,   \* the append that holds AlarmStore's mutex_, or NoInsert
          auditing,    \* is the audit connection writing?
          accepted,    \* history: records whose append returned true
          refused,     \* history: records whose append returned false
          unanswered   \* history: records whose append a crash cut off

sqlite == <<db, rows, acks, inserting, auditing, accepted, refused, unanswered>>
jsonl == <<file, begun, finished, cuts>>
storeVars == <<vars, sqlite>>

NoInsert == [at |-> "none"]
Inserts == [at : {"write", "copy"}, thread : Threads, record : AlarmRecord, ok : BOOLEAN]

\* The values the variables take; while a record is written the store's lock is held
\* by its thread.
StoreTypeOK == /\ TypeOK
               /\ db \in BOOLEAN /\ auditing \in BOOLEAN
               /\ rows \in Seq(AlarmRecord)
               /\ inserting \in Inserts \cup {NoInsert}
               /\ \A records \in {acks, accepted, refused, unanswered} : records \subseteq AlarmRecord
               /\ inserting.at = "write" => db /\ mutex = inserting.thread /\ ~auditing

StoreInit == /\ Init
             /\ db \in BOOLEAN
             /\ rows = <<>> /\ acks = {}
             /\ inserting = NoInsert /\ auditing = FALSE
             /\ accepted = {} /\ refused = {} /\ unanswered = {}

-----------------------------------------------------------------------------
(* append_alarm_json.                                                      *)

\* append makes the record, on either backend.
MakeRecord(t, d, time) ==
    /\ t = Mcp => ~auditing
    /\ AppendAlarm(t, d, time)
    /\ UNCHANGED sqlite

\* append returns ok.
Returns(t, record, ok) ==
    /\ threads' = [threads EXCEPT ![t] = Idle]
    /\ inserting' = NoInsert
    /\ accepted' = IF ok THEN accepted \cup {record} ELSE accepted
    /\ refused' = IF ok THEN refused ELSE refused \cup {record}

\* What follows the first insert: for an acknowledgement, which only the MCP
\* thread makes, the second one, whether or not the first one succeeded.
AfterInsert(t, record, ok) ==
    \/ Returns(t, record, ok)
    \/ /\ t = Mcp
       /\ inserting' = [at |-> "copy", thread |-> t, record |-> record, ok |-> ok]
       /\ UNCHANGED <<threads, accepted, refused>>

\* insert_json into alarm_records: the statement gets the write lock, ...
Insert(t) ==
    /\ db /\ threads[t].at = "append" /\ inserting = NoInsert
    /\ mutex = Free /\ ~auditing
    /\ mutex' = t
    /\ inserting' = [at |-> "write", thread |-> t, record |-> threads[t].record, ok |-> FALSE]
    /\ UNCHANGED <<jsonl, threads, counter, answer, db, rows, acks, auditing, accepted, refused,
                   unanswered>>

\* ... or not, because the audit connection has it, or it cannot be prepared.
InsertFails(t) ==
    /\ db /\ threads[t].at = "append" /\ inserting = NoInsert
    /\ mutex = Free
    /\ AfterInsert(t, threads[t].record, FALSE)
    /\ UNCHANGED <<jsonl, mutex, counter, answer, db, rows, acks, auditing, unanswered>>

\* The step is done, or fails (the disk is full) and leaves nothing behind.
Commit(ok) ==
    /\ inserting.at = "write"
    /\ rows' = IF ok THEN Append(rows, inserting.record) ELSE rows
    /\ mutex' = Free
    /\ AfterInsert(inserting.thread, inserting.record, ok)
    /\ UNCHANGED <<jsonl, counter, answer, db, acks, auditing, unanswered>>

\* Mutant: append returns what the last insert gave.
LastResult(first, second) == second

Result(first, second) == first

\* The copy into alarm_acknowledgements; its result is ignored.
Copy(ok) ==
    /\ inserting.at = "copy" /\ mutex = Free
    /\ ok => ~auditing
    /\ acks' = IF ok THEN acks \cup {inserting.record} ELSE acks
    /\ Returns(inserting.thread, inserting.record, Result(inserting.ok, ok))
    /\ UNCHANGED <<jsonl, mutex, counter, answer, db, rows, auditing, unanswered>>

-----------------------------------------------------------------------------
(* load_alarm_json, twice for each query as on the JSONL backend.          *)

\* The records the table holds.
InTable == ToSet(rows)

\* A load gets the rows up to the end or to a step that fails, and none if the
\* SELECT cannot be prepared.
LoadRows(n) == {rows[i] : i \in 1 .. n}
RowsRead == 0 .. Len(rows)

\* The payloads all parse, however many of them are read.
CountInvalidRows(q) ==
    /\ db /\ ~auditing
    /\ threads[Mcp] = Idle /\ mutex = Free
    /\ threads' = [threads EXCEPT ![Mcp] = [at |-> "query", query |-> q, invalid |-> 0,
                                            before |-> accepted]]
    /\ answer' = NoAnswer
    /\ UNCHANGED <<jsonl, mutex, counter, sqlite>>

QueryRows ==
    /\ db /\ threads[Mcp].at = "query" /\ mutex = Free
    /\ \E n \in RowsRead : Answers(LoadRows(n), n = Len(rows))
    /\ threads' = [threads EXCEPT ![Mcp] = Idle]
    /\ UNCHANGED <<jsonl, mutex, counter, sqlite>>

-----------------------------------------------------------------------------
(* The audit record that the MCP thread writes after each call.            *)

\* It is given up when the worker is writing.
AuditBegins ==
    /\ db /\ ~auditing /\ threads[Mcp] = Idle
    /\ inserting.at # "write"
    /\ auditing' = TRUE
    /\ UNCHANGED <<vars, db, rows, acks, inserting, accepted, refused, unanswered>>

AuditEnds ==
    /\ auditing
    /\ auditing' = FALSE
    /\ UNCHANGED <<vars, db, rows, acks, inserting, accepted, refused, unanswered>>

\* The process dies and is started again; the database can be opened or not.
\* What had been committed stays, and an insert on its way may just have been.
Restart ==
    /\ db' \in BOOLEAN
    /\ unanswered' = unanswered \cup {threads[t].record : t \in {u \in Threads : threads[u].at = "append"}}
    /\ inserting' = NoInsert /\ auditing' = FALSE
    /\ IF db THEN /\ mutex' = Free
                  /\ threads' = [t \in Threads |-> Idle]
                  /\ answer' = NoAnswer
                  /\ UNCHANGED <<jsonl, counter>>
             ELSE Crash
    /\ \/ UNCHANGED <<rows, acks>>
       \/ /\ inserting.at = "write"
          /\ rows' = Append(rows, inserting.record)
          /\ UNCHANGED acks
       \/ /\ inserting.at = "copy"
          /\ acks' = acks \cup {inserting.record}
          /\ UNCHANGED rows
    /\ UNCHANGED <<accepted, refused>>

\* Without a database the fallback works as in AlarmStore.
Fallback ==
    /\ ~db
    /\ \/ \E q \in Queries : CountInvalid(q)
       \/ QueryJson
       \/ \E t \in Threads : \/ Open(t) \/ OpenFails(t)
                             \/ WriteSome(t) \/ WriteRest(t) \/ WriteNewline(t)
                             \/ WriteFails(t)
    /\ UNCHANGED sqlite

StoreNext == \/ \E t \in Threads : \/ \E d \in Devices, time \in Times : MakeRecord(t, d, time)
                                   \/ Insert(t) \/ InsertFails(t)
             \/ \E ok \in BOOLEAN : Commit(ok) \/ Copy(ok)
             \/ \E q \in Queries : CountInvalidRows(q)
             \/ QueryRows
             \/ AuditBegins \/ AuditEnds
             \/ Restart
             \/ Fallback

StoreSpec == StoreInit /\ [][StoreNext]_storeVars

-----------------------------------------------------------------------------
(* Properties.                                                             *)

\* append tells the truth, whatever the audit connection does meanwhile and
\* however often the process dies afterwards: a record whose append returned
\* true is in the table for good, one whose append returned false never is.
\* An acknowledgement without its record exists only if the client was told
\* of the failure or got no answer at all.
AppendTruthful ==
    /\ accepted \subseteq InTable
    /\ refused \cap InTable = {}
    /\ acks \subseteq InTable \cup refused \cup unanswered
=============================================================================
