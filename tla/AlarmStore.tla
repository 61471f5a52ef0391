----------------------------- MODULE AlarmStore -----------------------------
(***************************************************************************)
(* AlarmStore (alarm_store.cpp) on the JSONL backend (storage_backend.cpp),*)
(* the default storage: two threads append alarm records to a file of JSON *)
(* lines and one of them queries it, while writes can fail and the process *)
(* can crash.                                                              *)
(*                                                                         *)
(* A load reads the file from its beginning; when it cannot be opened or   *)
(* read on, what was read so far (maybe nothing) is all it returns.        *)
(* append_json_line opens the file in append mode, writes the text of the  *)
(* record and a newline, and closes it, all under the backend's mutex_.    *)
(* What reaches the disk of this is up to the stream and the file system:  *)
(* nothing, some of the text, all of it but no newline, or the whole line. *)
(* The next append continues wherever the file ends, so that an unfinished *)
(* line and the record after it become one line, which no longer parses.   *)
(*                                                                         *)
(* A record is what a query tells apart: its number, device and timestamp. *)
(* The level and keyword filters work like the device filter and are left  *)
(* out; append()'s result is left out, too: no caller but                  *)
(* acknowledge_alarm looks at it, and the stream is flushed only after it  *)
(* has been computed.  Module SqliteStore adds the SQLite backend.         *)
(***************************************************************************)
EXTENDS Integers, SequencesExt

CONSTANTS Devices,
          AnyDevice,     \* the empty device filter of a query
          Times,         \* timestamps, in seconds: different records share them
          Threads,       \* the MCP thread and the cache worker
          Mcp,           \* the MCP thread, which also queries
          Queries,       \* the queries clients make: a subset of AlarmQuery
          MaxRecords,    \* bound: records appended
          MaxCuts        \* bound: appends cut short

AlarmQuery == [device_id : Devices \cup {AnyDevice}, start_time : Int, end_time : Int,
               limit : Nat \ {0}]

Free == "free"

ASSUME StoreConfig == /\ AnyDevice \notin Devices
                      /\ Times \subseteq Nat
                      /\ Mcp \in Threads /\ Free \notin Threads
                      /\ \A q \in Queries : /\ q.device_id \in Devices \cup {AnyDevice}
                                            /\ q.limit \in Nat \ {0}
                      /\ MaxRecords \in Nat /\ MaxCuts \in Nat

VARIABLES file,     \* the lines; the last one may lack its newline
          mutex,    \* the backend's mutex_: the thread that holds it, or Free
          threads,  \* where each thread is
          counter,  \* numbers the records
          begun,    \* history: records whose append got as far as the file
          finished, \* history: records whose append ran to its end
          cuts,     \* history: appends cut short by a failing write or a crash
          answer    \* what the last query returned, and from what

vars == <<file, mutex, threads, counter, begun, finished, cuts, answer>>

Idle == [at |-> "idle"]
NoAnswer == [invalid |-> -1]

AlarmRecord == [id : 1 .. MaxRecords, device_id : Devices, timestamp : Times]

\* A line consists of the texts that were written into it one after the other.
Part == [record : AlarmRecord, whole : BOOLEAN]
Line == [parts : Seq(Part), ended : BOOLEAN]

ThreadState == {Idle} \cup [at : {"append", "open", "text", "newline"}, record : AlarmRecord]
               \cup [at : {"query"}, query : Queries, invalid : Nat, before : SUBSET AlarmRecord]

Answer == [query : Queries, invalid : Nat, before : SUBSET AlarmRecord,
           loaded : SUBSET AlarmRecord, complete : BOOLEAN, alarms : Seq(AlarmRecord)]

TypeOK == /\ file \in Seq(Line)
          /\ \A i \in 1 .. Len(file) : /\ Len(file[i].parts) > 0
                                       /\ i < Len(file) => file[i].ended
          /\ mutex \in Threads \cup {Free}
          /\ threads \in [Threads -> ThreadState]
          /\ counter \in 0 .. MaxRecords
          /\ begun \subseteq AlarmRecord /\ finished \subseteq begun
          /\ cuts \in 0 .. MaxCuts
          /\ answer \in Answer \cup {NoAnswer}

Init == /\ file = <<>>
        /\ mutex = Free
        /\ threads = [t \in Threads |-> Idle]
        /\ counter = 0
        /\ begun = {} /\ finished = {}
        /\ cuts = 0
        /\ answer = NoAnswer

-----------------------------------------------------------------------------
(* Reading.                                                                *)

\* A text cut short never closes its outer brace, nor do two texts in a row
\* make one JSON value.
Parses(line) == Len(line.parts) = 1 /\ line.parts[1].whole

\* load_alarm_json and load_all, when n lines could be read: the records that
\* parse (all of them are valid, append having filled in their fields), and the
\* number of other lines.  A set will do: the ids differ, and load_all sorts.
LoadLines(n) == {file[i].parts[1].record : i \in {j \in 1 .. n : Parses(file[j])}}
InvalidLines(n) == Cardinality({i \in 1 .. n : ~Parses(file[i])})

\* The lines a load may get: all of them, none because the file cannot be
\* opened, or those before one that cannot be read.  The caller is not told.
LinesRead == 0 .. Len(file)

\* The records the file holds.
InFile == LoadLines(Len(file))

\* std::sort by timestamp, which may leave equal timestamps in any order.
SortedOrders(records) ==
    {s \in SetToSeqs(records) : \A i \in 1 .. Len(s) - 1 : s[i].timestamp <= s[i + 1].timestamp}

Matches(q, r) == /\ q.device_id \in {AnyDevice, r.device_id}
                 /\ q.start_time <= r.timestamp
                 /\ r.timestamp <= q.end_time

Smaller(m, n) == IF m < n THEN m ELSE n

\* The loop of query: of the records in this order, the first limit that match.
Collect(order, q) ==
    LET result[n \in 0 .. Len(order)] ==
            IF n = 0 THEN <<>>
            ELSE IF Matches(q, order[n]) /\ Len(result[n - 1]) < q.limit
                 THEN Append(result[n - 1], order[n])
                 ELSE result[n - 1]
    IN  result[Len(order)]

\* Mutant: the walk starts at the oldest record.
OldestFirst(sorted, q) == Collect(sorted, q)

\* query walks back from the newest record.
Query(sorted, q) == Collect(Reverse(sorted), q)

\* Mutant: loading does not take the mutex.
LoadsAnyTime == TRUE

MayLoad == mutex = Free

\* query_json and analyze_json load the file twice: first to count the lines
\* that are no records, ...
CountInvalid(q) ==
    /\ threads[Mcp] = Idle
    /\ MayLoad
    /\ \E n \in LinesRead :
         threads' = [threads EXCEPT ![Mcp] = [at |-> "query", query |-> q,
                                              invalid |-> InvalidLines(n), before |-> finished]]
    /\ answer' = NoAnswer
    /\ UNCHANGED <<file, mutex, counter, begun, finished, cuts>>

\* The query under way is answered from the records loaded: all, if complete.
Answers(records, complete) ==
    LET q == threads[Mcp].query IN
      \E sorted \in SortedOrders(records) :
         answer' = [query |-> q, invalid |-> threads[Mcp].invalid,
                    before |-> threads[Mcp].before, loaded |-> records,
                    complete |-> complete, alarms |-> Query(sorted, q)]

\* ... then for the records.
QueryJson ==
    /\ threads[Mcp].at = "query"
    /\ MayLoad
    /\ \E n \in LinesRead : Answers(LoadLines(n), n = Len(file))
    /\ threads' = [threads EXCEPT ![Mcp] = Idle]
    /\ UNCHANGED <<file, mutex, counter, begun, finished, cuts>>

-----------------------------------------------------------------------------
(* Appending.                                                              *)

\* append (of the cache worker, or by acknowledge for a client) makes the
\* record; its timestamp is taken before the mutex.
AppendAlarm(t, d, time) ==
    /\ threads[t] = Idle
    /\ counter < MaxRecords
    /\ counter' = counter + 1
    /\ threads' = [threads EXCEPT ![t] = [at |-> "append",
                      record |-> [id |-> counter + 1, device_id |-> d, timestamp |-> time]]]
    /\ answer' = IF t = Mcp THEN NoAnswer ELSE answer
    /\ UNCHANGED <<file, mutex, begun, finished, cuts>>

\* Mutant: the file is written without taking the mutex.
OpensAnyTime == TRUE

MayOpen == mutex = Free

Goto(t, at) == threads' = [threads EXCEPT ![t].at = at]

Open(t) ==
    /\ threads[t].at = "append" /\ MayOpen
    /\ mutex' = t
    /\ begun' = begun \cup {threads[t].record}
    /\ Goto(t, "open")
    /\ UNCHANGED <<file, counter, finished, cuts, answer>>

\* The file cannot be opened: append returns false.
OpenFails(t) ==
    /\ threads[t].at = "append" /\ MayOpen
    /\ threads' = [threads EXCEPT ![t] = Idle]
    /\ UNCHANGED <<file, mutex, counter, begun, finished, cuts, answer>>

\* What is written goes to the end of the file.
AtEnd(part) ==
    IF file = <<>> \/ Last(file).ended
    THEN Append(file, [parts |-> <<part>>, ended |-> FALSE])
    ELSE [file EXCEPT ![Len(file)].parts = Append(@, part)]

\* output << value.dump() << '\n', as it reaches the disk: some of the text,
WriteSome(t) ==
    /\ threads[t].at = "open"
    /\ file' = AtEnd([record |-> threads[t].record, whole |-> FALSE])
    /\ Goto(t, "text")
    /\ UNCHANGED <<mutex, counter, begun, finished, cuts, answer>>

\* the rest of it,
WriteRest(t) ==
    /\ threads[t].at = "text"
    /\ file' = [file EXCEPT ![Len(file)].parts[Len(Last(file).parts)].whole = TRUE]
    /\ Goto(t, "newline")
    /\ UNCHANGED <<mutex, counter, begun, finished, cuts, answer>>

\* and the newline.
WriteNewline(t) ==
    /\ threads[t].at = "newline"
    /\ file' = [file EXCEPT ![Len(file)].ended = TRUE]
    /\ mutex' = Free
    /\ finished' = finished \cup {threads[t].record}
    /\ threads' = [threads EXCEPT ![t] = Idle]
    /\ UNCHANGED <<counter, begun, cuts, answer>>

Writing(t) == threads[t].at \in {"open", "text", "newline"}

\* The disk is full: the rest is not written.
WriteFails(t) ==
    /\ Writing(t) /\ cuts < MaxCuts
    /\ cuts' = cuts + 1
    /\ mutex' = Free
    /\ threads' = [threads EXCEPT ![t] = Idle]
    /\ UNCHANGED <<file, counter, begun, finished, answer>>

\* The process dies and is started again; the file stays as it is.
Crash ==
    /\ mutex # Free => cuts < MaxCuts
    /\ cuts' = IF mutex = Free THEN cuts ELSE cuts + 1
    /\ mutex' = Free
    /\ threads' = [t \in Threads |-> Idle]
    /\ answer' = NoAnswer
    /\ UNCHANGED <<file, counter, begun, finished>>

Next == \/ \E q \in Queries : CountInvalid(q)
        \/ QueryJson
        \/ \E t \in Threads : \/ \E d \in Devices, time \in Times : AppendAlarm(t, d, time)
                              \/ Open(t) \/ OpenFails(t)
                              \/ WriteSome(t) \/ WriteRest(t) \/ WriteNewline(t)
                              \/ WriteFails(t)
        \/ Crash

Spec == Init /\ [][Next]_vars

-----------------------------------------------------------------------------
(* Properties.                                                             *)

\* The records of ended appends that the file does not yield, however much of
\* it is read.
Lost == {r \in begun : /\ r \notin InFile
                       /\ \A t \in Threads : Writing(t) => threads[t].record # r}

\* Every append to the file that is cut short, by a failing write or by a crash in the
\* middle of it, costs at most two alarms: its own, and the one appended next,
\* which continues the unfinished line.  Nothing else is ever lost; a crash
\* between two appends costs nothing.
LossBounded == Cardinality(Lost) <= 2 * cuts

\* As long as no append is cut short, a query never sees an unfinished line:
\* it reports no invalid record, even if a load fails; and although it loads
\* twice, it finds every alarm whose append had ended when it began, if its
\* second load got to the end.  A load that fails is not reported: the answer
\* then looks like any other and has less in it.
QueryUndisturbed ==
    answer # NoAnswer /\ cuts = 0
    => /\ answer.invalid = 0
       /\ answer.complete => answer.before \subseteq answer.loaded

\* A query answers with the newest of the loaded records that match it, newest first:
\* as many as there are up to the limit, and none that is left out is newer
\* than one that is not.
NewestAnswered ==
    answer # NoAnswer =>
    LET given == answer.alarms
        matching == {r \in answer.loaded : Matches(answer.query, r)}
    IN  /\ Len(given) = Cardinality(ToSet(given))
        /\ ToSet(given) \subseteq matching
        /\ Len(given) = Smaller(answer.query.limit, Cardinality(matching))
        /\ \A i \in 1 .. Len(given) :
              /\ \A j \in i .. Len(given) : given[i].timestamp >= given[j].timestamp
              /\ \A r \in matching \ ToSet(given) : given[i].timestamp >= r.timestamp
=============================================================================
