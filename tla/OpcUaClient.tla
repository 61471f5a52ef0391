----------------------------- MODULE OpcUaClient -----------------------------
(***************************************************************************)
(* OpcUaClient (opcua_client.cpp, the build with OPC UA support): the      *)
(* attempt loop of one call on one device.                                 *)
(*                                                                         *)
(* Every attempt opens a new session (connect), sends the request(s) and   *)
(* disconnects; each of these may throw.  An exception is recorded in the  *)
(* result and, unless the attempts are used up, the loop goes round again  *)
(* with the SAME result object: what an attempt does not overwrite, the    *)
(* next one inherits.  Calls share only stats_, which each call updates in *)
(* one critical section at its end, so one call at a time is modelled.     *)
(*                                                                         *)
(* A value or error text is abstracted to "is there an error".  The        *)
(* mock:// branches are not modelled: make_connector_for_device gives mock *)
(* endpoints to MockConnector.                                             *)
(***************************************************************************)
EXTENDS Integers, Sequences

CONSTANTS retry_count,   \* opcua.retry_count
          NumVariables,  \* variables of the batch that read_nodes reads
          MaxStat        \* bound: the counters of stats_ saturate here

ASSUME ClientConfig == /\ retry_count \in Int
                       /\ NumVariables \in Nat
                       /\ MaxStat \in Nat

VARIABLES op,       \* the operation in progress, or the last one
          step,     \* where the call is
          attempt,
          result,   \* the result object: ok, and whether error is non-empty
          batch,    \* results of read_nodes: per entry, its attempt and ok
          stats,    \* stats_[device]
          answers,  \* history: good answers the device gave to this call
          effects   \* history: times the device carried this call out

vars == <<op, step, attempt, result, batch, stats, answers, effects>>

Operations == {"read_node", "read_nodes", "write_node", "call_method", "get_status"}
Changing == {"write_node", "call_method"}   \* operations that act on the plant
Steps == {"idle", "connect", "request", "disconnect", "finish", "returned"}

attempts_for == IF retry_count < 0 THEN 1 ELSE retry_count + 1

TypeOK == /\ op \in Operations
          /\ step \in Steps
          /\ attempt \in 1 .. attempts_for
          /\ result \in [ok : BOOLEAN, error : BOOLEAN]
          /\ batch \in Seq([attempt : 1 .. attempts_for, ok : BOOLEAN])
          /\ Len(batch) <= NumVariables
          /\ stats \in [has_state : BOOLEAN, online : BOOLEAN,
                        disconnect_count : 0 .. MaxStat,
                        consecutive_failures : 0 .. MaxStat]
          /\ answers \in Nat
          /\ effects \in Nat

Init == /\ op = "get_status" /\ step = "idle" /\ attempt = 1
        /\ result = [ok |-> FALSE, error |-> FALSE]
        /\ batch = <<>>
        /\ stats = [has_state |-> FALSE, online |-> FALSE,
                    disconnect_count |-> 0, consecutive_failures |-> 0]
        /\ answers = 0 /\ effects = 0

-----------------------------------------------------------------------------
Saturate(n) == IF n < MaxStat THEN n + 1 ELSE MaxStat

update_stats(online) ==
    stats' = [has_state |-> TRUE,
              online |-> online,
              disconnect_count |-> IF stats.has_state /\ stats.online /\ ~online
                                   THEN Saturate(stats.disconnect_count)
                                   ELSE stats.disconnect_count,
              consecutive_failures |-> IF online THEN 0
                                       ELSE Saturate(stats.consecutive_failures)]

\* A new call: a fresh result, first attempt.
Begin(o) ==
    /\ step \in {"idle", "returned"}
    /\ op' = o
    /\ step' = "connect"
    /\ attempt' = 1
    /\ result' = [ok |-> FALSE, error |-> FALSE]
    /\ batch' = <<>>
    /\ answers' = 0 /\ effects' = 0
    /\ UNCHANGED stats

\* A value that make_write_variant cannot convert is refused before the loop,
\* without touching stats_.
Refuse(o) ==
    /\ step \in {"idle", "returned"}
    /\ op' = o
    /\ step' = "returned"
    /\ attempt' = 1
    /\ result' = [ok |-> FALSE, error |-> TRUE]
    /\ batch' = <<>>
    /\ answers' = 0 /\ effects' = 0
    /\ UNCHANGED stats

RefuseValue == Refuse("write_node")

\* call_method also refuses a disabled method and arguments that do not fit.
RefuseCall == Refuse("call_method")

\* Mutant: the handlers append to what was read instead of replacing it.
BatchNotCleared == batch \o [i \in 1 .. NumVariables |-> [attempt |-> attempt, ok |-> FALSE]]

\* The exception handlers of read_nodes replace what was read so far by one
\* failed result per variable.
FailedBatch == [i \in 1 .. NumVariables |-> [attempt |-> attempt, ok |-> FALSE]]

\* Mutant: one attempt too many.
NextAttemptTooFar == IF attempt <= attempts_for
                     THEN step' = "connect" /\ attempt' = attempt + 1
                     ELSE step' = "finish" /\ UNCHANGED attempt

\* Mutant: the loop variable is never advanced.
NextAttemptForever == /\ step' = "connect"
                      /\ UNCHANGED attempt

\* End of the loop body after an exception.
NextAttempt == IF attempt < attempts_for
               THEN step' = "connect" /\ attempt' = attempt + 1
               ELSE step' = "finish" /\ UNCHANGED attempt

\* Mutant: an exception is taken for an answer.
HandlersSetOk == /\ result' = [ok |-> TRUE, error |-> TRUE]
                 /\ batch' = IF op = "read_nodes" THEN FailedBatch ELSE batch

\* The exception handlers: the error is recorded, ok is left as it is.
HandleException == /\ result' = [result EXCEPT !.error = TRUE]
                   /\ batch' = IF op = "read_nodes" THEN FailedBatch ELSE batch

ConnectThrows ==
    /\ step = "connect"
    /\ HandleException
    /\ NextAttempt
    /\ UNCHANGED <<op, stats, answers, effects>>

\* get_status asks for nothing more than the session; read_nodes clears its
\* results at the top of each attempt.
Connected ==
    /\ step = "connect"
    /\ step' = IF op = "get_status" THEN "disconnect" ELSE "request"
    /\ result' = IF op = "get_status" THEN [result EXCEPT !.ok = TRUE] ELSE result
    /\ batch' = <<>>
    /\ UNCHANGED <<op, attempt, stats, answers, effects>>

\* What a reply makes of the result object.  read_node derives ok from an
\* error field that it never clears; write_node only ever sets ok;
\* call_method derives it from the reply alone.
AfterReply(good) ==
    CASE op = "read_node" ->
            LET error == result.error \/ ~good IN [ok |-> ~error, error |-> error]
      [] op = "call_method" -> [ok |-> good, error |-> result.error \/ ~good]
      [] op = "write_node" -> [result EXCEPT !.ok = TRUE]
      [] OTHER -> result

\* The device answers.  A reply that is not good: a value or output of a
\* type the gateway cannot convert (the method has been carried out), or a
\* bad method status; a write has no such reply.  read_nodes asks for one
\* variable after the other.
Reply(good, carriedOut) ==
    /\ step = "request"
    /\ op = "write_node" => good
    /\ op \in Changing /\ good => carriedOut
    /\ carriedOut => op \in Changing
    /\ op = "read_nodes" => Len(batch) < NumVariables
    /\ answers' = IF good THEN answers + 1 ELSE answers
    /\ effects' = IF carriedOut THEN effects + 1 ELSE effects
    /\ result' = AfterReply(good)
    /\ batch' = IF op = "read_nodes"
                THEN Append(batch, [attempt |-> attempt, ok |-> good]) ELSE batch
    /\ step' = IF op = "read_nodes" THEN "request" ELSE "disconnect"
    /\ UNCHANGED <<op, attempt, stats>>

\* The whole batch has been read.
BatchRead ==
    /\ step = "request" /\ op = "read_nodes" /\ Len(batch) = NumVariables
    /\ step' = "disconnect"
    /\ UNCHANGED <<op, attempt, result, batch, stats, answers, effects>>

\* The request throws: it never reached the device, or (carriedOut) it did
\* and only the reply was lost or late.
RequestThrows(carriedOut) ==
    /\ step = "request"
    /\ carriedOut => op \in Changing
    /\ effects' = IF carriedOut THEN effects + 1 ELSE effects
    /\ HandleException
    /\ NextAttempt
    /\ UNCHANGED <<op, stats, answers>>

\* client.disconnect() is inside the try block: when it throws, the request
\* that has just succeeded is sent again.
DisconnectThrows ==
    /\ step = "disconnect"
    /\ HandleException
    /\ NextAttempt
    /\ UNCHANGED <<op, stats, answers, effects>>

AllOk == \A i \in 1 .. Len(batch) : batch[i].ok

\* disconnect, then break out of the loop; read_nodes returns from inside it.
Disconnected ==
    /\ step = "disconnect"
    /\ IF op = "read_nodes"
       THEN step' = "returned" /\ update_stats(AllOk)
       ELSE step' = "finish" /\ UNCHANGED stats
    /\ UNCHANGED <<op, attempt, result, batch, answers, effects>>

\* After the loop.
Finish ==
    /\ step = "finish"
    /\ step' = "returned"
    /\ update_stats(IF op = "read_nodes" THEN FALSE ELSE result.ok)
    /\ UNCHANGED <<op, attempt, result, batch, answers, effects>>

LoopStep == \/ ConnectThrows \/ Connected
            \/ \E good, carriedOut \in BOOLEAN : Reply(good, carriedOut)
            \/ BatchRead
            \/ \E carriedOut \in BOOLEAN : RequestThrows(carriedOut)
            \/ DisconnectThrows \/ Disconnected
            \/ Finish

Next == \/ \E o \in Operations : Begin(o)
        \/ RefuseValue \/ RefuseCall
        \/ LoopStep

Spec == Init /\ [][Next]_vars

\* Every library call returns or times out.
FairSpec == Spec /\ WF_vars(LoopStep)

-----------------------------------------------------------------------------
(* Properties.                                                             *)

\* A call that reports success was answered: read_node, write_node and
\* call_method return ok only if the device gave a good answer in some
\* attempt of this very call, whatever was thrown before or after it, and
\* an ok write or method call has been carried out.
OkIsEarned ==
    step = "returned" /\ result.ok /\ op # "get_status"
    => answers > 0 /\ (op \in Changing => effects > 0)

\* read_nodes returns one result per variable, all of the same attempt, also
\* when the session breaks in the middle of the batch.  (The cache indexes
\* the results with reads.at(i): a shorter batch would end its thread.)
BatchIsWhole ==
    step = "returned" /\ op = "read_nodes"
    => /\ Len(batch) = NumVariables
       /\ \A i, j \in 1 .. Len(batch) : batch[i].attempt = batch[j].attempt

\* The plant is acted on at most once per attempt, so a write or method call
\* is repeated at most retry_count times.
EffectsBounded == effects <= attempts_for

\* Every call returns, whatever the device does.
CallReturns == step # "idle" ~> step = "returned"

\* What the documentation says: the reliability layer retries reads.  A write
\* or a method call is not sent again once the device has carried it out.
OnlyReadsRetried == op \in Changing => effects <= 1

\* What the read retry is for: when any attempt of read_node is answered with
\* a good value, the read is reported as successful.
RetriedReadSucceeds ==
    [][op = "read_node" /\ step = "request" /\ answers' = answers + 1
       => result'.ok]_vars
=============================================================================
