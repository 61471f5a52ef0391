-------------------------- MODULE OpcUaClientProofs --------------------------
(***************************************************************************)
(* The attempt loop of OpcUaClient for every number of attempts and every  *)
(* size of batch.  None of the properties is inductive: each speaks of the *)
(* call that has returned, and the invariant has to say what the result    *)
(* object means while the loop is still going round.                       *)
(***************************************************************************)
EXTENDS OpcUaClient, SequenceTheorems, TLAPS

\* As soon as ok is set it has been earned, whatever is thrown afterwards.
Earned == result.ok /\ op # "get_status" => answers > 0 /\ (op \in Changing => effects > 0)

\* An attempt whose request is still to come has not acted on the plant.
Acted == /\ effects <= attempt
         /\ step \in {"connect", "request"} => effects < attempt

\* Once connected, what is in the batch is of this attempt, and it is complete
\* when the requests have been made.
Batched == op = "read_nodes" =>
    /\ step \in {"request", "disconnect", "finish", "returned"}
       => \A i \in 1 .. Len(batch) : batch[i].attempt = attempt
    /\ step \in {"disconnect", "finish", "returned"} => Len(batch) = NumVariables

IInv == TypeOK /\ Earned /\ Acted /\ Batched

Entry == [attempt : 1 .. attempts_for, ok : BOOLEAN]

\* There is at least one attempt.
LEMMA AttemptsPositive == attempts_for \in Nat \ {0}
BY ClientConfig DEF attempts_for

\* One failed result per variable is a batch.
LEMMA FailedBatchIsWhole ==
    ASSUME TypeOK
    PROVE  /\ FailedBatch \in Seq(Entry)
           /\ Len(FailedBatch) = NumVariables
           /\ \A i \in 1 .. Len(FailedBatch) : FailedBatch[i].attempt = attempt
<1>1. NumVariables \in Nat
  BY ClientConfig
<1>2. \A i \in 1 .. NumVariables : FailedBatch[i] = [attempt |-> attempt, ok |-> FALSE]
  BY DEF FailedBatch
<1>3. \A i \in 1 .. NumVariables : FailedBatch[i] \in Entry
  <2>1. [attempt |-> attempt, ok |-> FALSE] \in Entry
    BY DEF TypeOK, Entry
  <2>2. QED
    BY <1>2, <2>1
<1>4. FailedBatch \in Seq(Entry) /\ Len(FailedBatch) = NumVariables
  <2>1. FailedBatch \in [1 .. NumVariables -> Entry]
    BY <1>3 DEF FailedBatch
  <2>2. QED
    BY <1>1, <2>1, IsASeq, LenProperties
<1>5. QED
  BY <1>2, <1>4

\* Before the first call the invariant holds.
LEMMA InitIInv == Init => IInv
<1> SUFFICES ASSUME Init PROVE IInv
  OBVIOUS
<1>1. TypeOK
  BY AttemptsPositive, ClientConfig DEF Init, TypeOK, Operations, Steps
<1>2. QED
  BY <1>1 DEF Init, IInv, Earned, Acted, Batched

\* A call begins, or is refused, with a result of its own.
LEMMA BeginStep ==
    ASSUME IInv, NEW o \in Operations, Begin(o) \/ (o # "read_nodes" /\ Refuse(o))
    PROVE  IInv'
<1>1. TypeOK'
  <2>1. /\ op' \in Operations /\ step' \in Steps /\ attempt' = 1
        /\ result' \in [ok : BOOLEAN, error : BOOLEAN]
        /\ batch' = <<>> /\ stats' = stats /\ answers' = 0 /\ effects' = 0
    <3>1. CASE Begin(o)
      BY <3>1 DEF Begin, Steps
    <3>2. CASE Refuse(o)
      BY <3>2 DEF Refuse, Steps
    <3>3. QED
      BY <3>1, <3>2
  <2>2. batch' \in Seq(Entry) /\ Len(batch') <= NumVariables
    BY <2>1, ClientConfig
  <2>3. QED
    BY <2>1, <2>2, AttemptsPositive DEF IInv, TypeOK, Entry
<1>2. QED
  BY <1>1 DEF Begin, Refuse, IInv, Earned, Acted, Batched

\* The loop variable stays in range; the loop goes on or is left.
LEMMA NextAttemptRange ==
    ASSUME TypeOK, NextAttempt
    PROVE  /\ attempt' \in 1 .. attempts_for
           /\ \/ step' = "connect" /\ attempt' = attempt + 1
              \/ step' = "finish" /\ attempt' = attempt
BY AttemptsPositive DEF TypeOK, NextAttempt

\* An exception in an attempt, which may have acted on the plant before.
LEMMA ExceptionStep ==
    ASSUME IInv, HandleException, NextAttempt, UNCHANGED <<op, stats, answers>>,
           effects' \in {effects, effects + 1},
           effects' # effects => step = "request"
    PROVE  IInv'
<1>1. /\ attempt' \in 1 .. attempts_for
      /\ \/ step' = "connect" /\ attempt' = attempt + 1
         \/ step' = "finish" /\ attempt' = attempt
  BY NextAttemptRange DEF IInv
<1>2. result' \in [ok : BOOLEAN, error : BOOLEAN] /\ result'.ok = result.ok
  BY DEF HandleException, IInv, TypeOK
<1>3. batch' \in Seq(Entry) /\ Len(batch') <= NumVariables
  BY FailedBatchIsWhole, ClientConfig DEF HandleException, IInv, TypeOK, Entry
<1>4. TypeOK'
  BY <1>1, <1>2, <1>3 DEF IInv, TypeOK, Steps, Entry
<1>5. Earned'
  BY <1>2 DEF IInv, Earned, TypeOK
<1>6. Acted'
  BY <1>1, AttemptsPositive DEF IInv, Acted, TypeOK
<1>7. Batched'
  BY <1>1, FailedBatchIsWhole DEF HandleException, IInv, Batched
<1>8. QED
  BY <1>4, <1>5, <1>6, <1>7 DEF IInv

\* The session is open.
LEMMA ConnectedStep == ASSUME IInv, Connected PROVE IInv'
<1>1. batch' \in Seq(Entry) /\ Len(batch') = 0
  BY DEF Connected
<1>2. TypeOK'
  <2>1. step' \in Steps
    BY DEF Connected, Steps
  <2>2. result' \in [ok : BOOLEAN, error : BOOLEAN]
    BY DEF Connected, IInv, TypeOK
  <2>3. QED
    BY <1>1, <2>1, <2>2, ClientConfig DEF Connected, IInv, TypeOK, Entry
<1>3. QED
  BY <1>1, <1>2 DEF Connected, IInv, Earned, Acted, Batched

\* A reply: ok comes with a good answer, and an effect uses the attempt up.
LEMMA ReplyStep ==
    ASSUME IInv, NEW good \in BOOLEAN, NEW carriedOut \in BOOLEAN, Reply(good, carriedOut)
    PROVE  IInv'
<1> USE DEF Reply
<1>1. result' \in [ok : BOOLEAN, error : BOOLEAN]
  BY DEF IInv, TypeOK, AfterReply
<1>2. CASE op = "read_nodes"
  <2>1. /\ batch' \in Seq(Entry) /\ Len(batch') = Len(batch) + 1
        /\ \A i \in 1 .. Len(batch) : batch'[i] = batch[i]
        /\ batch'[Len(batch) + 1] = [attempt |-> attempt, ok |-> good]
    BY <1>2, AppendProperties DEF IInv, TypeOK, Entry
  <2>2. Len(batch') <= NumVariables
    BY <1>2, <2>1, ClientConfig DEF IInv, TypeOK
  <2>3. TypeOK'
    BY <1>1, <1>2, <2>1, <2>2 DEF IInv, TypeOK, Steps, Entry, Changing
  <2>4. Earned' /\ Acted'
    BY <1>2 DEF IInv, TypeOK, Earned, Acted, AfterReply, Changing
  <2>5. Batched'
    BY <1>2, <2>1 DEF IInv, TypeOK, Batched
  <2>6. QED
    BY <2>3, <2>4, <2>5 DEF IInv
<1>3. CASE op # "read_nodes"
  <2>1. TypeOK'
    BY <1>1, <1>3 DEF IInv, TypeOK, Steps
  <2>2. Earned'
    BY <1>3 DEF IInv, TypeOK, Earned, AfterReply, Changing
  <2>3. Acted'
    BY <1>3 DEF IInv, TypeOK, Acted
  <2>4. Batched'
    BY <1>3 DEF Batched
  <2>5. QED
    BY <2>1, <2>2, <2>3, <2>4 DEF IInv
<1>4. QED
  BY <1>2, <1>3

\* The ends of the loop: only the step and the counters change.
LEMMA LeavingStep ==
    ASSUME IInv, BatchRead \/ Disconnected \/ Finish
    PROVE  IInv'
<1>1. stats' \in [has_state : BOOLEAN, online : BOOLEAN,
                  disconnect_count : 0 .. MaxStat, consecutive_failures : 0 .. MaxStat]
  <2>1. ASSUME NEW online \in BOOLEAN, update_stats(online)
        PROVE  stats' \in [has_state : BOOLEAN, online : BOOLEAN,
                           disconnect_count : 0 .. MaxStat, consecutive_failures : 0 .. MaxStat]
    BY <2>1, ClientConfig DEF update_stats, Saturate, IInv, TypeOK
  <2>2. AllOk \in BOOLEAN
    BY DEF AllOk
  <2>3. CASE BatchRead
    BY <2>3 DEF BatchRead, IInv, TypeOK
  <2>4. CASE Disconnected
    BY <2>1, <2>2, <2>4 DEF Disconnected, IInv, TypeOK
  <2>5. CASE Finish
    BY <2>1, <2>5 DEF Finish, IInv, TypeOK
  <2>6. QED
    BY <2>3, <2>4, <2>5
<1>2. TypeOK'
  BY <1>1 DEF BatchRead, Disconnected, Finish, IInv, TypeOK, Steps
<1>3. QED
  BY <1>2 DEF BatchRead, Disconnected, Finish, IInv, Earned, Acted, Batched

\* Every step keeps the invariant.
LEMMA NextIInv == IInv /\ [Next]_vars => IInv'
<1> SUFFICES ASSUME IInv, [Next]_vars PROVE IInv'
  OBVIOUS
<1>1. CASE UNCHANGED vars
  BY <1>1 DEF vars, IInv, TypeOK, Earned, Acted, Batched
<1>2. ASSUME NEW o \in Operations, Begin(o) PROVE IInv'
  BY <1>2, BeginStep
<1>3. CASE RefuseValue \/ RefuseCall
  BY <1>3, BeginStep DEF RefuseValue, RefuseCall, Operations
<1>4. CASE ConnectThrows \/ DisconnectThrows
  BY <1>4, ExceptionStep DEF ConnectThrows, DisconnectThrows
<1>5. ASSUME NEW carriedOut \in BOOLEAN, RequestThrows(carriedOut) PROVE IInv'
  BY <1>5, ExceptionStep DEF RequestThrows
<1>6. CASE Connected
  BY <1>6, ConnectedStep
<1>7. ASSUME NEW good \in BOOLEAN, NEW carriedOut \in BOOLEAN, Reply(good, carriedOut) PROVE IInv'
  BY <1>7, ReplyStep
<1>8. CASE BatchRead \/ Disconnected \/ Finish
  BY <1>8, LeavingStep
<1>9. QED
  BY <1>1, <1>2, <1>3, <1>4, <1>5, <1>6, <1>7, <1>8 DEF Next, LoopStep

-----------------------------------------------------------------------------
\* The inductive invariant holds in every reachable state.
THEOREM Invariance == Spec => []IInv
BY InitIInv, NextIInv, PTL DEF Spec

\* The client's state keeps its type: the loop variable never leaves its
\* range, and a batch is never longer than the list of variables.
THEOREM TypeCorrect == Spec => []TypeOK
<1>1. IInv => TypeOK
  BY DEF IInv
<1>2. QED
  BY <1>1, Invariance, PTL

\* A call reports success only if the device answered this very call, for any
\* retry_count and any mixture of lost replies and failing disconnects.
THEOREM SuccessIsEarned == Spec => []OkIsEarned
<1>1. IInv => OkIsEarned
  BY DEF IInv, Earned, OkIsEarned
<1>2. QED
  BY <1>1, Invariance, PTL

\* read_nodes returns one result per variable, all of one attempt.
THEOREM BatchesAreWhole == Spec => []BatchIsWhole
<1>1. IInv => BatchIsWhole
  BY DEF IInv, Batched, BatchIsWhole
<1>2. QED
  BY <1>1, Invariance, PTL

\* The plant is acted on at most once per attempt.
THEOREM EffectsAreBounded == Spec => []EffectsBounded
<1>1. IInv => EffectsBounded
  BY AttemptsPositive DEF IInv, TypeOK, Acted, EffectsBounded
<1>2. QED
  BY <1>1, Invariance, PTL
=============================================================================
