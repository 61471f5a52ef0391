--------------------------- MODULE DiagnosisProofs ---------------------------
(***************************************************************************)
(* The cache of device states and the diagnosis that reads it, for every   *)
(* number of devices, variables, rules and configuration changes.          *)
(*                                                                         *)
(* CacheInv says where the two threads can be at the same time: outside of *)
(* a change each refresh is about a configured device, and while the       *)
(* configuration changes the worker has ended.  The other parts follow a   *)
(* reading on its way from the plant through a thread into the cache, the  *)
(* signatures and the alarm store.                                         *)
(***************************************************************************)
EXTENDS Diagnosis, TLAPS

\* Thread t is in the middle of refreshing a device.
InRefresh(t) == task[t].at \in {"store", "communication", "variables", "append"}

\* Without a worker there is no refresh of it, and the configuration is
\* changed only then, as often as the bound allows.
Phases == /\ ~started => task[Worker].at = "none"
          /\ task[Mcp].at \in {"reconfigure", "start"} => ~started
          /\ task[Mcp].at \in {"stopping", "reconfigure"} => version < MaxChanges

\* What a thread is about belongs to the present configuration.
Current == \A t \in Threads :
    /\ task[t].at = "pass" \/ InRefresh(t) => task[t].todo \subseteq config.devices
    /\ InRefresh(t) => task[t].device \in config.devices /\ task[t].version = version
    /\ task[t].at \in {"store", "communication"} => task[t].left = Variables
    /\ task[t].at = "append" => task[t].alarm[1][1] = task[t].device

CacheInv == TypeOK /\ Phases /\ Current /\ NoStaleState /\ SignatureBacked

-----------------------------------------------------------------------------
(* What the steps of a thread do to its task.                              *)

PassTask == [at : {"pass"}, todo : SUBSET Devices]
RefreshTask == [at : {"store", "communication", "variables"}, todo : SUBSET Devices,
                device : Devices, version : 0 .. MaxChanges, reads : Reads, left : SUBSET Variables]
AppendTask == [at : {"append"}, todo : SUBSET Devices, device : Devices, version : 0 .. MaxChanges,
               reads : Reads, left : SUBSET Variables, alarm : Keys \X Codes]

\* Where a thread is tells which fields its task has.
LEMMA TaskShape ==
    ASSUME NEW c \in Task
    PROVE  /\ c.at = "pass" => c \in PassTask
           /\ c.at \in {"store", "communication", "variables"} => c \in RefreshTask
           /\ c.at = "append" => c \in AppendTask
           /\ c.at \in {"none", "wait", "idle", "stopping", "reconfigure", "start"}
              => c = [at |-> c.at]
BY DEF Task, PassTask, RefreshTask, AppendTask

\* One thread's task changes, the other's stays.
LEMMA TaskUpdate ==
    ASSUME TypeOK, NEW t \in Threads, NEW c \in Task, task' = [task EXCEPT ![t] = c]
    PROVE  /\ task' \in [Threads -> Task]
           /\ task'[t] = c
           /\ \A u \in Threads : u # t => task'[u] = task[u]
BY DEF TypeOK

\* The signature that key x of device d should have after a reading of r, by
\* the rules in force.
Call(d, x, r) == IF x = Communication
                 THEN IF AllFailed(r) THEN "COMMUNICATION_ERROR" ELSE None
                 ELSE SignatureFor(r[x], config.rules[d][x])

\* It is one of the codes, or none.
LEMMA CallType == \A d, x, r : Call(d, x, r) \in Codes \cup {None}
BY DEF Call, SignatureFor, ThresholdCode, Codes, ThresholdCodes

\* Thread t handles key x of its device: it leaves the signature alone (a
\* variable when all of them failed, or because the alarm is active already),
\* clears it, or sets it and goes on to append the alarm.
Handling(t, x) ==
    LET c == task[t]
        n == task'[t]
        k == <<c.device, x>>
        code == Call(c.device, x, c.reads)
    IN  /\ x \in Variables \cup {Communication}
        /\ x = Communication => c.at = "communication" /\ n.left = Variables
        /\ x \in Variables => c.at = "variables" /\ x \in c.left /\ n.left = c.left \ {x}
        /\ n.todo = c.todo /\ n.device = c.device /\ n.version = c.version /\ n.reads = c.reads
        /\ \/ /\ AllFailed(c.reads) /\ x # Communication
              /\ n.at = "variables" /\ UNCHANGED <<signatures, signedUnder, stored, recent>>
           \/ /\ code = None /\ n.at = "variables"
              /\ ClearAlarmState(k)
           \/ /\ code # None /\ signatures[k] = code /\ n.at = "variables"
              /\ UNCHANGED <<signatures, signedUnder, stored, recent>>
           \/ /\ code # None /\ signatures[k] # code
              /\ ~(AllFailed(c.reads) /\ x # Communication)
              /\ n.at = "append" /\ n.alarm = <<k, code>>
              /\ signatures' = [signatures EXCEPT ![k] = code]
              /\ signedUnder' = [signedUnder EXCEPT ![k] = c.version]
              /\ recent' = recent \cup {<<k, code>>}
              /\ UNCHANGED stored
        /\ task' \in [Threads -> Task]
        /\ \A u \in Threads : u # t => task'[u] = task[u]
        /\ UNCHANGED <<config, version, plant, states, started, stop_requested, refreshed>>

\* append_alarm_if_changed, seen from the task.
LEMMA AppendIfChanged ==
    ASSUME TypeOK, NEW t \in Threads, task[t].at \in {"communication", "variables"},
           NEW k \in Keys, NEW code \in Codes, NEW rest \in SUBSET Variables,
           AppendAlarmIfChanged(t, k, code, rest)
    PROVE  /\ task' \in [Threads -> Task]
           /\ \A u \in Threads : u # t => task'[u] = task[u]
           /\ task'[t].todo = task[t].todo /\ task'[t].device = task[t].device
           /\ task'[t].version = task[t].version
           /\ task'[t].reads = task[t].reads /\ task'[t].left = rest
           /\ \/ /\ signatures[k] = code /\ task'[t].at = "variables"
                 /\ UNCHANGED <<signatures, signedUnder, stored, recent>>
              \/ /\ signatures[k] # code
                 /\ task'[t].at = "append" /\ task'[t].alarm = <<k, code>>
                 /\ signatures' = [signatures EXCEPT ![k] = code]
                 /\ signedUnder' = [signedUnder EXCEPT ![k] = task[t].version]
                 /\ recent' = recent \cup {<<k, code>>}
                 /\ UNCHANGED stored
<1>1. task[t] \in RefreshTask
  BY TaskShape DEF TypeOK
<1> DEFINE going == [task[t] EXCEPT !.at = "variables", !.left = rest]
           raised == [at |-> "append", todo |-> going.todo, device |-> going.device,
                      version |-> going.version, reads |-> going.reads, left |-> rest,
                      alarm |-> <<k, code>>]
<1>2. /\ going \in RefreshTask
      /\ going.at = "variables" /\ going.left = rest /\ going.todo = task[t].todo
      /\ going.device = task[t].device /\ going.version = task[t].version
      /\ going.reads = task[t].reads
  BY <1>1 DEF RefreshTask
<1>3. raised \in AppendTask
  BY <1>2 DEF RefreshTask, AppendTask
<1>4. going \in Task /\ raised \in Task
  BY <1>2, <1>3 DEF Task, RefreshTask, AppendTask
<1>5. CASE Suppressed(k, code)
  <2>1. task' = [task EXCEPT ![t] = going] /\ UNCHANGED <<signatures, signedUnder, stored,
                                                          recent>>
    BY <1>5 DEF AppendAlarmIfChanged
  <2>2. QED
    BY <1>2, <1>4, <1>5, <2>1, TaskUpdate DEF Suppressed
<1>6. CASE ~Suppressed(k, code)
  <2>1. /\ task' = [task EXCEPT ![t] = raised]
        /\ signatures' = [signatures EXCEPT ![k] = code]
        /\ signedUnder' = [signedUnder EXCEPT ![k] = task[t].version]
        /\ recent' = recent \cup {<<k, code>>} /\ UNCHANGED stored
    BY <1>6 DEF AppendAlarmIfChanged
  <2>2. QED
    BY <1>2, <1>4, <1>6, <2>1, TaskUpdate DEF Suppressed
<1>7. QED
  BY <1>5, <1>6

\* Both alarm steps handle a key.
LEMMA CommunicationHandled ==
    ASSUME TypeOK, Current, NEW t \in Threads, CommunicationAlarm(t)
    PROVE  Handling(t, Communication)
<1>1. task[t] \in RefreshTask /\ task[t].at = "communication"
  BY TaskShape DEF TypeOK, CommunicationAlarm
<1>2. <<task[t].device, Communication>> \in Keys
  BY <1>1 DEF RefreshTask, Keys
<1>3. CASE AllFailed(task[t].reads)
  <2>1. AppendAlarmIfChanged(t, <<task[t].device, Communication>>, "COMMUNICATION_ERROR", Variables)
    BY <1>3 DEF CommunicationAlarm
  <2>2. "COMMUNICATION_ERROR" \in Codes /\ "COMMUNICATION_ERROR" # None
    BY DEF Codes, None
  <2>3. Call(task[t].device, Communication, task[t].reads) = "COMMUNICATION_ERROR"
    BY <1>3 DEF Call
  <2>4. UNCHANGED <<config, version, plant, states, started, stop_requested, refreshed>>
    BY DEF CommunicationAlarm
  <2>5. QED
    BY <1>1, <1>2, <2>1, <2>2, <2>3, <2>4, AppendIfChanged, ReservedKey DEF Handling
<1>4. CASE ~AllFailed(task[t].reads)
  <2>1. /\ ClearAlarmState(<<task[t].device, Communication>>) 
        /\ task' = [task EXCEPT ![t] = [task[t] EXCEPT !.at = "variables"]]
        /\ UNCHANGED <<config, version, plant, states, started, stop_requested, refreshed>>
    BY <1>4 DEF CommunicationAlarm, Goto
  <2>2. [task[t] EXCEPT !.at = "variables"] \in RefreshTask
    BY <1>1 DEF RefreshTask
  <2>3. [task[t] EXCEPT !.at = "variables"] \in Task
    BY <2>2 DEF Task, RefreshTask
  <2>4. /\ task' \in [Threads -> Task]
        /\ task'[t] = [task[t] EXCEPT !.at = "variables"]
        /\ \A u \in Threads : u # t => task'[u] = task[u]
    BY <2>1, <2>3, TaskUpdate
  <2>5. /\ task'[t].at = "variables" /\ task'[t].left = Variables
        /\ task'[t].todo = task[t].todo /\ task'[t].device = task[t].device
        /\ task'[t].version = task[t].version /\ task'[t].reads = task[t].reads
    BY <1>1, <2>4 DEF Current, RefreshTask
  <2>6. Call(task[t].device, Communication, task[t].reads) = None
    BY <1>4 DEF Call
  <2>7. QED
    BY <1>1, <2>1, <2>4, <2>5, <2>6, ReservedKey DEF Handling
<1>5. QED
  BY <1>3, <1>4

\* The rules of a variable, likewise.
LEMMA VariableHandled ==
    ASSUME TypeOK, NEW t \in Threads, NEW v \in Variables, VariableAlarm(t, v)
    PROVE  Handling(t, v)
<1> DEFINE d == task[t].device
           k == <<d, v>>
           code == SignatureFor(task[t].reads[v], config.rules[d][v])
           rest == task[t].left \ {v}
<1>1. task[t] \in RefreshTask /\ task[t].at = "variables" /\ v \in task[t].left
  BY TaskShape DEF TypeOK, VariableAlarm
<1>2. k \in Keys /\ rest \in SUBSET Variables /\ v # Communication
  BY <1>1, ReservedKey DEF RefreshTask, Keys
<1>3. Call(d, v, task[t].reads) = code
  BY <1>2 DEF Call
<1>4. UNCHANGED <<config, version, plant, states, started, stop_requested, refreshed>>
  BY DEF VariableAlarm
<1>5. ASSUME task' = [task EXCEPT ![t].left = rest]
      PROVE  /\ task' \in [Threads -> Task]
             /\ \A u \in Threads : u # t => task'[u] = task[u]
             /\ task'[t].todo = task[t].todo /\ task'[t].device = task[t].device
             /\ task'[t].version = task[t].version
             /\ task'[t].reads = task[t].reads /\ task'[t].left = rest
             /\ task'[t].at = "variables"
  <2>1. task' = [task EXCEPT ![t] = [task[t] EXCEPT !.left = rest]]
    BY <1>5
  <2>2. [task[t] EXCEPT !.left = rest] \in RefreshTask
    BY <1>1, <1>2 DEF RefreshTask
  <2>3. [task[t] EXCEPT !.left = rest] \in Task
    BY <2>2 DEF Task, RefreshTask
  <2>4. QED
    BY <1>1, <2>1, <2>2, <2>3, TaskUpdate DEF RefreshTask
<1>6. CASE AllFailed(task[t].reads)
  <2>1. task' = [task EXCEPT ![t].left = rest] /\ UNCHANGED <<signatures, signedUnder,
                                                              stored, recent>>
    BY <1>6 DEF VariableAlarm
  <2>2. QED
    BY <1>1, <1>2, <1>4, <1>5, <1>6, <2>1 DEF Handling
<1>7. CASE ~AllFailed(task[t].reads) /\ code = None
  <2>1. task' = [task EXCEPT ![t].left = rest] /\ ClearAlarmState(k)
    BY <1>7 DEF VariableAlarm
  <2>2. QED
    BY <1>1, <1>2, <1>3, <1>4, <1>5, <1>7, <2>1 DEF Handling
<1>8. CASE ~AllFailed(task[t].reads) /\ code # None
  <2>1. AppendAlarmIfChanged(t, k, code, rest)
    BY <1>8 DEF VariableAlarm
  <2>2. code \in Codes
    BY <1>3, <1>8, CallType
  <2>3. QED
    BY <1>1, <1>2, <1>3, <1>4, <1>8, <2>1, <2>2, AppendIfChanged DEF Handling
<1>9. QED
  BY <1>6, <1>7, <1>8

-----------------------------------------------------------------------------
(* The invariant of the cache.                                             *)

\* What Current says of one task.
Fits(c) ==
    /\ c.at \in {"pass", "store", "communication", "variables", "append"}
       => c.todo \subseteq config.devices
    /\ c.at \in {"store", "communication", "variables", "append"}
       => c.device \in config.devices /\ c.version = version
    /\ c.at \in {"store", "communication"} => c.left = Variables
    /\ c.at = "append" => c.alarm[1][1] = c.device

\* Current, thread by thread.
LEMMA CurrentFits == Current <=> \A t \in Threads : Fits(task[t])
BY DEF Current, Fits, InRefresh

\* A step that changes nothing but one thread's task keeps the invariant if
\* the new task fits and no alarm is dropped.
LEMMA MoveStep ==
    ASSUME CacheInv, NEW t \in Threads, NEW c \in Task, task' = [task EXCEPT ![t] = c],
           task[t].at # "append", Fits(c),
           t = Worker /\ ~started => c.at = "none",
           t = Mcp /\ c.at \in {"reconfigure", "start"} => ~started,
           t = Mcp /\ c.at \in {"stopping", "reconfigure"} => version < MaxChanges,
           UNCHANGED <<config, version, plant, states, signatures, signedUnder, started,
                       stored, recent>>,
           stop_requested' \in BOOLEAN, refreshed' \in BOOLEAN
    PROVE  CacheInv'
<1>1. /\ task' \in [Threads -> Task] /\ task'[t] = c
      /\ \A u \in Threads : u # t => task'[u] = task[u]
  BY TaskUpdate DEF CacheInv
<1>2. TypeOK'
  BY <1>1 DEF CacheInv, TypeOK
<1>3. Phases'
  BY <1>1, CacheConfig DEF CacheInv, Phases, Threads
<1>4. Current'
  <2>1. ASSUME NEW u \in Threads PROVE Fits(task'[u])
    BY <1>1, CurrentFits DEF CacheInv
  <2>2. QED
    BY <2>1 DEF Current, Fits, InRefresh
<1>5. NoStaleState'
  BY DEF CacheInv, NoStaleState
<1>6. SignatureBacked'
  BY <1>1 DEF CacheInv, SignatureBacked
<1>7. QED
  BY <1>2, <1>3, <1>4, <1>5, <1>6 DEF CacheInv

\* A thread that has no worker behind it is not refreshing.
LEMMA RefreshingWorker ==
    ASSUME CacheInv, NEW t \in Threads, task[t].at # "none"
    PROVE  t = Worker => started
BY DEF CacheInv, Phases

\* A refresh begins with the reading of a configured device.
LEMMA ReadStep ==
    ASSUME CacheInv, NEW t \in Threads, NEW d \in Devices, Read(t, d)
    PROVE  CacheInv'
<1> DEFINE c == [at |-> "store", todo |-> task[t].todo \ {d}, device |-> d,
                 version |-> version, reads |-> plant[d], left |-> Variables]
<1>1. task[t] \in PassTask /\ task[t].at = "pass"
  BY TaskShape DEF CacheInv, TypeOK, Read
<1>2. plant[d] \in Reads /\ version \in 0 .. MaxChanges
  BY DEF CacheInv, TypeOK
<1>3. c \in Task
  <2>1. c \in RefreshTask
    BY <1>1, <1>2 DEF RefreshTask, PassTask
  <2>2. QED
    BY <2>1 DEF Task, RefreshTask
<1>4. Fits(c)
  BY <1>1 DEF Fits, CacheInv, Current, Read
<1>5. /\ task' = [task EXCEPT ![t] = c]
      /\ UNCHANGED <<config, version, plant, states, signatures, signedUnder, started,
                     stop_requested, stored, recent, refreshed>>
  BY DEF Read
<1>6. QED
  BY <1>1, <1>3, <1>4, <1>5, MoveStep, RefreshingWorker DEF CacheInv, TypeOK

\* The reading becomes the device's state.
LEMMA StoreStep ==
    ASSUME CacheInv, NEW t \in Threads, Store(t)
    PROVE  CacheInv'
<1> DEFINE c == [task[t] EXCEPT !.at = "communication"]
           d == task[t].device
<1>1. task[t] \in RefreshTask /\ task[t].at = "store"
  BY TaskShape DEF CacheInv, TypeOK, Store
<1>2. /\ c \in RefreshTask /\ c.at = "communication" /\ c.todo = task[t].todo
      /\ c.device = d /\ c.version = task[t].version /\ c.left = task[t].left
  BY <1>1 DEF RefreshTask
<1>3. c \in Task
  BY <1>2 DEF Task, RefreshTask
<1>4. /\ task' = [task EXCEPT ![t] = c]
      /\ states' = [states EXCEPT ![d] = [version |-> task[t].version, reads |-> task[t].reads]]
      /\ UNCHANGED <<config, version, plant, signatures, signedUnder, started,
                     stop_requested, stored, recent, refreshed>>
  BY DEF Store, Goto
<1>5. /\ task' \in [Threads -> Task] /\ task'[t] = c
      /\ \A u \in Threads : u # t => task'[u] = task[u]
  BY <1>3, <1>4, TaskUpdate DEF CacheInv
<1>6. d \in Devices /\ d \in config.devices /\ task[t].left = Variables /\ task[t].version = version
  BY <1>1 DEF CacheInv, Current, InRefresh, RefreshTask
<1>7. TypeOK'
  <2>1. [version |-> task[t].version, reads |-> task[t].reads] \in CachedState
    BY <1>1 DEF CacheInv, TypeOK, CachedState, RefreshTask
  <2>2. states' \in [Devices -> CachedState \cup {NoState}]
    BY <1>4, <1>6, <2>1 DEF CacheInv, TypeOK
  <2>3. QED
    BY <1>4, <1>5, <2>2 DEF CacheInv, TypeOK
<1>8. Phases'
  BY <1>1, <1>2, <1>4, <1>5, CacheConfig DEF CacheInv, Phases, Threads
<1>9. Current'
  <2>1. ASSUME NEW u \in Threads PROVE Fits(task'[u])
    <3>1. Fits(c)
      BY <1>1, <1>2, <1>6 DEF Fits, CacheInv, Current, InRefresh
    <3>2. QED
      BY <1>5, <3>1, CurrentFits DEF CacheInv
  <2>2. QED
    BY <1>4, <2>1 DEF Current, Fits, InRefresh
<1>10. NoStaleState'
  BY <1>4, <1>6 DEF CacheInv, TypeOK, NoStaleState
<1>11. SignatureBacked'
  BY <1>1, <1>4, <1>5 DEF CacheInv, SignatureBacked
<1>12. QED
  BY <1>7, <1>8, <1>9, <1>10, <1>11 DEF CacheInv

\* Handling a key: the signature is set only together with the task to append
\* its alarm, and cleared together with the alarms stored for it.
LEMMA HandlingStep ==
    ASSUME CacheInv, NEW t \in Threads, NEW x, Handling(t, x)
    PROVE  CacheInv'
<1> DEFINE k == <<task[t].device, x>>
           code == Call(task[t].device, x, task[t].reads)
<1>1. /\ task[t].at \in {"communication", "variables"} /\ task[t] \in RefreshTask
      /\ task' \in [Threads -> Task]
      /\ \A u \in Threads : u # t => task'[u] = task[u]
      /\ task'[t].todo = task[t].todo /\ task'[t].device = task[t].device
      /\ task'[t].version = task[t].version
      /\ UNCHANGED <<config, version, plant, states, started, stop_requested, refreshed>>
      /\ task'[t].at \in {"variables", "append"}
  <2>1. task[t].at \in {"communication", "variables"}
    BY DEF Handling
  <2>2. QED
    BY <2>1, TaskShape DEF Handling, CacheInv, TypeOK
<1>2. /\ task[t].device \in Devices /\ task[t].device \in config.devices
      /\ task[t].version = version
  BY <1>1 DEF CacheInv, Current, InRefresh, RefreshTask
<1>3. k \in Keys /\ code \in Codes \cup {None}
  BY <1>2, CallType DEF Handling, Keys
<1>4. \/ UNCHANGED <<signatures, signedUnder, stored, recent>>
      \/ ClearAlarmState(k) /\ recent' = recent
      \/ /\ code \in Codes /\ task'[t].at = "append" /\ task'[t].alarm = <<k, code>>
         /\ signatures' = [signatures EXCEPT ![k] = code]
         /\ signedUnder' = [signedUnder EXCEPT ![k] = task[t].version]
         /\ recent' = recent \cup {<<k, code>>} /\ stored' = stored
  BY <1>3 DEF Handling, ClearAlarmState
<1>5. TypeOK'
  <2>1. signedUnder' \in [Keys -> 0 .. MaxChanges]
    BY <1>2, <1>4 DEF CacheInv, TypeOK, ClearAlarmState
  <2>2. signatures' \in [Keys -> Codes \cup {None}] /\ stored' \subseteq Keys \X Codes
    BY <1>3, <1>4 DEF CacheInv, TypeOK, ClearAlarmState, None
  <2>3. recent' \subseteq Keys \X Codes
    BY <1>3, <1>4 DEF CacheInv, TypeOK, ClearAlarmState
  <2>4. QED
    BY <1>1, <2>1, <2>2, <2>3 DEF CacheInv, TypeOK
<1>6. Phases'
  BY <1>1, CacheConfig DEF CacheInv, Phases, Threads
<1>7. Current'
  <2>1. task'[t].at = "append" => task'[t].alarm[1][1] = task'[t].device
    BY <1>1 DEF Handling
  <2>2. QED
    BY <1>1, <2>1 DEF CacheInv, Current, InRefresh
<1>8. NoStaleState'
  <2>1. ASSUME NEW j \in Keys, signatures'[j] # None
        PROVE  \/ signatures[j] # None /\ signedUnder'[j] = signedUnder[j]
               \/ j = k /\ signedUnder'[j] = version
    BY <1>2, <1>3, <1>4, <2>1 DEF CacheInv, TypeOK, ClearAlarmState
  <2>2. QED
    BY <1>1, <1>2, <2>1 DEF CacheInv, NoStaleState
<1>9. SignatureBacked'
  <2> SUFFICES ASSUME NEW j \in Keys, signatures'[j] # None
               PROVE  \/ <<j, signatures'[j]>> \in stored'
                      \/ \E u \in Threads : task'[u].at = "append"
                                            /\ task'[u].alarm = <<j, signatures'[j]>>
    BY DEF SignatureBacked
  <2>1. CASE UNCHANGED <<signatures, signedUnder, stored>>
    BY <1>1, <2>1 DEF CacheInv, SignatureBacked
  <2>2. CASE ClearAlarmState(k)
    <3>1. j # k /\ signatures'[j] = signatures[j]
      BY <1>3, <2>2 DEF ClearAlarmState, CacheInv, TypeOK
    <3>2. <<j, signatures[j]>> \in stored => <<j, signatures[j]>> \in stored'
      BY <2>2, <3>1 DEF ClearAlarmState, Of
    <3>3. QED
      BY <1>1, <3>1, <3>2 DEF CacheInv, SignatureBacked
  <2>3. CASE /\ task'[t].at = "append" /\ task'[t].alarm = <<k, code>>
             /\ signatures' = [signatures EXCEPT ![k] = code] /\ stored' = stored
    BY <1>1, <1>3, <2>3 DEF CacheInv, TypeOK, SignatureBacked
  <2>4. QED
    BY <1>4, <2>1, <2>2, <2>3
<1>10. QED
  BY <1>5, <1>6, <1>7, <1>8, <1>9 DEF CacheInv

\* The store has the alarm now, so that its signature is backed without the thread.
LEMMA AppendStep ==
    ASSUME CacheInv, NEW t \in Threads, AppendAlarm(t)
    PROVE  CacheInv'
<1> DEFINE c == [at |-> "variables", todo |-> task[t].todo, device |-> task[t].device,
                 version |-> task[t].version, reads |-> task[t].reads, left |-> task[t].left]
<1>1. task[t] \in AppendTask /\ task[t].at = "append"
  BY TaskShape DEF CacheInv, TypeOK, AppendAlarm
<1>2. c \in Task
  <2>1. c \in RefreshTask
    BY <1>1 DEF RefreshTask, AppendTask
  <2>2. QED
    BY <2>1 DEF Task, RefreshTask
<1>3. /\ task' = [task EXCEPT ![t] = c] /\ stored' = stored \cup {task[t].alarm}
      /\ UNCHANGED <<config, version, plant, states, signatures, signedUnder, started,
                     stop_requested, recent,
                     refreshed>>
  BY DEF AppendAlarm
<1>4. /\ task' \in [Threads -> Task] /\ task'[t] = c
      /\ \A u \in Threads : u # t => task'[u] = task[u]
  BY <1>2, <1>3, TaskUpdate DEF CacheInv
<1>5. task[t].alarm \in Keys \X Codes
  BY <1>1 DEF AppendTask
<1>6. TypeOK'
  BY <1>3, <1>4, <1>5 DEF CacheInv, TypeOK
<1>7. Phases'
  BY <1>1, <1>3, <1>4, CacheConfig DEF CacheInv, Phases, Threads
<1>8. Current'
  BY <1>1, <1>3, <1>4 DEF CacheInv, Current, InRefresh
<1>9. NoStaleState'
  BY <1>3 DEF CacheInv, NoStaleState
<1>10. SignatureBacked'
  BY <1>3, <1>4 DEF CacheInv, SignatureBacked
<1>11. QED
  BY <1>6, <1>7, <1>8, <1>9, <1>10 DEF CacheInv

\* The end of a device and of a pass.
LEMMA DoneStep ==
    ASSUME CacheInv, NEW t \in Threads, DeviceDone(t) \/ PassDone(t)
    PROVE  CacheInv'
<1>1. CASE DeviceDone(t)
  <2>1. task[t] \in RefreshTask /\ task[t].at = "variables"
    BY <1>1, TaskShape DEF CacheInv, TypeOK, DeviceDone
  <2> DEFINE c == [at |-> "pass", todo |-> task[t].todo]
  <2>2. c \in Task
    BY <2>1 DEF Task, RefreshTask
  <2>3. Fits(c)
    BY <2>1 DEF Fits, CacheInv, Current, InRefresh
  <2>4. /\ task' = [task EXCEPT ![t] = c]
        /\ UNCHANGED <<config, version, plant, states, signatures, signedUnder, started,
                       stop_requested, stored, recent, refreshed>>
    BY <1>1 DEF DeviceDone, AfterDevice
  <2>5. QED
    BY <2>1, <2>2, <2>3, <2>4, MoveStep, RefreshingWorker DEF CacheInv, TypeOK
<1>2. CASE PassDone(t)
  <2> DEFINE c == [at |-> IF t = Worker THEN "wait" ELSE "idle"]
  <2>1. task[t].at = "pass"
    BY <1>2 DEF PassDone
  <2>2. c \in Task /\ c.at \in {"wait", "idle"}
    BY DEF Task
  <2>3. Fits(c)
    BY <2>2 DEF Fits
  <2>4. /\ task' = [task EXCEPT ![t] = c]
        /\ UNCHANGED <<config, version, plant, states, signatures, signedUnder, started,
                       stop_requested, stored, recent, refreshed>>
    BY <1>2 DEF PassDone
  <2>5. QED
    BY <2>1, <2>2, <2>3, <2>4, MoveStep, RefreshingWorker DEF CacheInv, TypeOK
<1>3. QED
  BY <1>1, <1>2

\* So every step of a refresh keeps the invariant.
LEMMA RefreshKeeps ==
    ASSUME CacheInv, NEW t \in Threads, RefreshStep(t)
    PROVE  CacheInv'
<1>1. ASSUME CommunicationAlarm(t) PROVE CacheInv'
  BY <1>1, CommunicationHandled, HandlingStep DEF CacheInv
<1>2. ASSUME NEW v \in Variables, VariableAlarm(t, v) PROVE CacheInv'
  BY <1>2, VariableHandled, HandlingStep DEF CacheInv
<1>3. QED
  BY <1>1, <1>2, ReadStep, StoreStep, AppendStep, DoneStep DEF RefreshStep

\* The worker ends, or begins a pass over the configured devices.
LEMMA WakeStep ==
    ASSUME CacheInv, WorkerWakes
    PROVE  CacheInv'
<1> DEFINE c == IF stop_requested THEN [at |-> "none"] ELSE [at |-> "pass", todo |-> config.devices]
<1>1. Worker \in Threads /\ task[Worker].at = "wait"
  BY DEF Threads, WorkerWakes
<1>2. config.devices \in SUBSET Devices
  BY DEF CacheInv, TypeOK, Configs
<1>3. c \in Task /\ Fits(c) /\ c.at \in {"none", "pass"}
  BY <1>2 DEF Task, Fits
<1>4. /\ task' = [task EXCEPT ![Worker] = c]
      /\ UNCHANGED <<config, version, plant, states, signatures, signedUnder, started,
                     stop_requested, stored, recent, refreshed>>
  BY DEF WorkerWakes, StopSeen
<1>5. started
  BY <1>1, RefreshingWorker
<1>6. QED
  BY <1>1, <1>3, <1>4, <1>5, MoveStep, CacheConfig DEF CacheInv, TypeOK

\* A client's refresh begins a pass over configured devices.
LEMMA RefreshCallStep ==
    ASSUME CacheInv, NEW todo \in SUBSET config.devices, Refresh(todo)
    PROVE  CacheInv'
<1> DEFINE c == [at |-> "pass", todo |-> todo]
<1>1. Mcp \in Threads /\ task[Mcp].at = "idle"
  BY DEF Threads, Refresh
<1>2. config.devices \in SUBSET Devices
  BY DEF CacheInv, TypeOK, Configs
<1>3. c \in Task /\ Fits(c) /\ c.at = "pass"
  BY <1>2 DEF Task, Fits
<1>4. /\ task' = [task EXCEPT ![Mcp] = c] /\ refreshed' = TRUE
      /\ UNCHANGED <<config, version, plant, states, signatures, signedUnder, started,
                     stop_requested, stored, recent>>
  BY DEF Refresh
<1>5. QED
  BY <1>1, <1>3, <1>4, MoveStep, CacheConfig DEF CacheInv, TypeOK

\* A cleared key has no signature left to back.
LEMMA ClearStep ==
    ASSUME CacheInv, NEW k \in Keys, ClearCachedAlarm(k)
    PROVE  CacheInv'
<1>1. /\ signatures' = [signatures EXCEPT ![k] = None]
      /\ stored' = stored \ Of(k, stored) /\ recent' = recent \ Of(k, recent)
      /\ UNCHANGED <<config, version, plant, states, signedUnder, started, stop_requested,
                     task,
                     refreshed>>
  BY DEF ClearCachedAlarm
<1>2. TypeOK'
  BY <1>1 DEF CacheInv, TypeOK
<1>3. Phases' /\ Current'
  BY <1>1 DEF CacheInv, Phases, Current, InRefresh
<1>4. \A j \in Keys : signatures'[j] # None => j # k /\ signatures'[j] = signatures[j]
  BY <1>1 DEF CacheInv, TypeOK
<1>5. NoStaleState'
  BY <1>1, <1>4 DEF CacheInv, NoStaleState
<1>6. ASSUME NEW j \in Keys, signatures'[j] # None, <<j, signatures[j]>> \in stored
      PROVE  <<j, signatures[j]>> \in stored'
  BY <1>1, <1>4, <1>6 DEF Of
<1>7. SignatureBacked'
  BY <1>1, <1>4, <1>6 DEF CacheInv, SignatureBacked
<1>8. QED
  BY <1>2, <1>3, <1>5, <1>7 DEF CacheInv

\* Going to a place outside of passes.
LEMMA GotoTask ==
    ASSUME TypeOK, NEW t \in Threads, NEW at \in {"none", "wait", "idle", "stopping", "reconfigure", "start"},
           task[t].at \in {"none", "wait", "idle", "stopping", "reconfigure", "start"}, Goto(t, at)
    PROVE  /\ [at |-> at] \in Task
           /\ task' = [task EXCEPT ![t] = [at |-> at]]
<1>1. task[t] = [at |-> task[t].at]
  BY TaskShape DEF TypeOK
<1>2. [task[t] EXCEPT !.at = at] = [at |-> at]
  BY <1>1
<1>3. QED
  BY <1>2 DEF Goto, Task

\* stop(), the change and start(): the worker has ended before anything of the
\* old configuration is thrown away.
LEMMA ChangeStep ==
    ASSUME CacheInv, RequestStop \/ StopReturns \/ Reconfigure \/ Start
    PROVE  CacheInv'
<1>0. Mcp \in Threads /\ Worker \in Threads /\ Mcp # Worker /\ Threads = {Worker, Mcp}
  BY CacheConfig DEF Threads
<1>1. CASE RequestStop
  <2> DEFINE at == IF started THEN "stopping" ELSE "reconfigure"
             c == [at |-> at]
  <2>1. c \in Task /\ task' = [task EXCEPT ![Mcp] = c]
    BY <1>0, <1>1, GotoTask DEF CacheInv, RequestStop
  <2>2. Fits(c)
    BY DEF Fits
  <2>3. QED
    BY <1>0, <1>1, <2>1, <2>2, MoveStep DEF CacheInv, TypeOK, RequestStop
<1>2. CASE StopReturns
  <2>1. /\ [at |-> "reconfigure"] \in Task
        /\ task' = [task EXCEPT ![Mcp] = [at |-> "reconfigure"]]
    BY <1>0, <1>2, GotoTask DEF CacheInv, StopReturns
  <2>2. /\ task' \in [Threads -> Task] /\ task'[Mcp] = [at |-> "reconfigure"]
        /\ task'[Worker] = task[Worker] /\ task[Worker].at = "none" /\ task[Mcp].at = "stopping"
        /\ started' = FALSE
        /\ UNCHANGED <<config, version, plant, states, signatures, signedUnder,
                       stop_requested, stored, recent, refreshed>>
    BY <1>0, <1>2, <2>1, TaskUpdate DEF CacheInv, StopReturns, Joined
  <2>3. TypeOK'
    BY <2>2 DEF CacheInv, TypeOK
  <2>4. Phases' /\ Current'
    BY <1>0, <2>2 DEF CacheInv, Phases, Current, InRefresh
  <2>5. NoStaleState' /\ SignatureBacked'
    BY <1>0, <2>2 DEF CacheInv, NoStaleState, SignatureBacked
  <2>6. QED
    BY <2>3, <2>4, <2>5 DEF CacheInv
<1>3. CASE Reconfigure
  <2>1. /\ [at |-> "start"] \in Task
        /\ task' = [task EXCEPT ![Mcp] = [at |-> "start"]]
    BY <1>0, <1>3, GotoTask DEF CacheInv, Reconfigure
  <2>2. /\ task' \in [Threads -> Task] /\ task'[Mcp] = [at |-> "start"]
        /\ task'[Worker] = task[Worker] /\ task[Mcp].at = "reconfigure"
        /\ config' \in Configs /\ version' = version + 1
        /\ states' = [d \in Devices |-> NoState] /\ signatures' = NoSignatures
        /\ stored' = {} /\ recent' = {}
        /\ UNCHANGED <<plant, signedUnder, started, stop_requested, refreshed>>
    BY <1>0, <1>3, <2>1, TaskUpdate DEF CacheInv, Reconfigure, SignaturesAfterReset
  <2>3. version' \in 0 .. MaxChanges
    BY <2>2, CacheConfig DEF CacheInv, TypeOK, Phases
  <2>4. TypeOK'
    BY <2>2, <2>3 DEF CacheInv, TypeOK, NoSignatures
  <2>5. ~started /\ task[Worker].at = "none"
    BY <2>2 DEF CacheInv, Phases
  <2>6. Phases' /\ Current'
    BY <1>0, <2>2, <2>5 DEF CacheInv, Phases, Current, InRefresh
  <2>7. NoStaleState' /\ SignatureBacked'
    BY <2>2 DEF NoStaleState, SignatureBacked, NoSignatures
  <2>8. QED
    BY <2>4, <2>6, <2>7 DEF CacheInv
<1>4. CASE Start
  <2> DEFINE w == [at |-> "pass", todo |-> config.devices]
  <2>1. config.devices \in SUBSET Devices /\ task[Mcp].at = "start"
    BY <1>4 DEF CacheInv, TypeOK, Configs, Start
  <2>2. /\ ~started /\ task[Worker].at = "none"
        /\ task[Mcp] = [at |-> "start"] /\ task[Worker] = [at |-> "none"]
    BY <1>0, <2>1, TaskShape DEF CacheInv, Phases, TypeOK
  <2>3. w \in Task /\ [at |-> "idle"] \in Task
    BY <2>1 DEF Task
  <2>4. /\ task'[Mcp] = [at |-> "idle"] /\ task' \in [Threads -> Task]
        /\ \/ task'[Worker] = w /\ started' = TRUE
           \/ task'[Worker] = task[Worker] /\ started' = started
        /\ stop_requested' \in BOOLEAN
        /\ UNCHANGED <<config, version, plant, states, signatures, signedUnder, stored,
                       recent, refreshed>>
    <3>1. CASE config.enabled
      <4>1. /\ task' = [task EXCEPT ![Mcp] = [at |-> "idle"], ![Worker] = w]
            /\ started' = TRUE /\ stop_requested' = FALSE
            /\ UNCHANGED <<config, version, plant, states, signatures, signedUnder, stored,
                           recent, refreshed>>
        BY <1>4, <3>1 DEF Start, StopFlagAtStart
      <4>2. QED
        BY <1>0, <2>3, <4>1 DEF CacheInv, TypeOK
    <3>2. CASE ~config.enabled
      <4>1. /\ task' = [task EXCEPT ![Mcp] = [at |-> "idle"]]
            /\ UNCHANGED <<started, stop_requested, config, version, plant, states,
                           signatures, signedUnder, stored,
                           recent, refreshed>>
        BY <1>0, <1>4, <2>1, <3>2, GotoTask DEF Start, CacheInv
      <4>2. QED
        BY <1>0, <2>3, <4>1 DEF CacheInv, TypeOK
    <3>3. QED
      BY <3>1, <3>2
  <2>5. TypeOK'
    BY <2>4 DEF CacheInv, TypeOK
  <2>6. Phases' /\ Current'
    BY <1>0, <2>2, <2>4 DEF CacheInv, Phases, Current, InRefresh
  <2>7. NoStaleState' /\ SignatureBacked'
    BY <1>0, <2>2, <2>4 DEF CacheInv, NoStaleState, SignatureBacked
  <2>8. QED
    BY <2>5, <2>6, <2>7 DEF CacheInv
<1>5. QED
  BY <1>1, <1>2, <1>3, <1>4

\* The plant changes into readings it can give.
LEMMA PlantType ==
    ASSUME TypeOK, NEW d \in Devices, NEW v \in Variables, PlantChanges(d, v)
    PROVE  /\ plant' \in [Devices -> Reads]
           /\ recent' \subseteq recent
           /\ UNCHANGED <<config, version, states, signatures, signedUnder, started,
                          stop_requested, task, stored,
                          refreshed>>
<1>1. PICK r \in Readings[v] : /\ plant' = [plant EXCEPT ![d] = [plant[d] EXCEPT ![v] = r]]
                               /\ recent' = recent \ (Of(<<d, v>>, recent) \cup Of(<<d, Communication>>, recent))
                               /\ UNCHANGED <<config, version, states, signatures,
                                              signedUnder, started, stop_requested,
                                              task, stored, refreshed>>
  BY DEF PlantChanges
<1>2. r \in UNION {Readings[w] : w \in Variables}
  OBVIOUS
<1>3. plant[d] \in Reads
  BY DEF TypeOK
<1>4. [plant[d] EXCEPT ![v] = r] \in Reads
  BY <1>2, <1>3 DEF Reads
<1>5. QED
  BY <1>1, <1>4 DEF TypeOK

\* What the plant does is not in the invariant.
LEMMA PlantKeeps ==
    ASSUME CacheInv, PlantStep
    PROVE  CacheInv'
<1>1. PICK d \in Devices, v \in Variables : PlantChanges(d, v)
  BY DEF PlantStep
<1>2. /\ plant' \in [Devices -> Reads] /\ recent' \subseteq recent
      /\ UNCHANGED <<config, version, states, signatures, signedUnder, started,
                     stop_requested, task, stored, refreshed>>
  BY <1>1, PlantType DEF CacheInv
<1>3. TypeOK'
  BY <1>2 DEF CacheInv, TypeOK
<1>4. Phases' /\ Current' /\ NoStaleState' /\ SignatureBacked'
  BY <1>2 DEF CacheInv, Phases, Current, InRefresh, NoStaleState, SignatureBacked
<1>5. QED
  BY <1>3, <1>4 DEF CacheInv

\* An empty cache has nothing stale and no signature.
LEMMA CacheInit == Init => CacheInv
<1> SUFFICES ASSUME Init PROVE CacheInv
  OBVIOUS
<1>1. Threads = {Worker, Mcp} /\ Worker # Mcp
  BY CacheConfig DEF Threads
<1>2. config \in Configs /\ config.devices \in SUBSET Devices
  BY DEF Init, Configs
<1>3. /\ task \in [Threads -> Task]
      /\ task[Worker] = [at |-> "pass", todo |-> config.devices] /\ task[Mcp] = [at |-> "idle"]
  BY <1>1, <1>2 DEF Init, Task
<1>4. TypeOK
  <2>1. version \in 0 .. MaxChanges /\ plant \in [Devices -> Reads]
    BY CacheConfig DEF Init
  <2>2. states \in [Devices -> CachedState \cup {NoState}] /\ signatures \in [Keys -> Codes \cup {None}]
    BY DEF Init, NoSignatures
  <2>3. QED
    BY <1>2, <1>3, <2>1, <2>2 DEF Init, TypeOK
<1>5. Phases /\ Current
  BY <1>1, <1>2, <1>3 DEF Init, Phases, Current, InRefresh
<1>6. NoStaleState /\ SignatureBacked
  BY DEF Init, NoStaleState, SignatureBacked, NoSignatures
<1>7. QED
  BY <1>4, <1>5, <1>6 DEF CacheInv

\* Every step of the cache keeps the invariant.
LEMMA CacheNext == CacheInv /\ [Next]_vars => CacheInv'
<1> SUFFICES ASSUME CacheInv, [Next]_vars PROVE CacheInv'
  OBVIOUS
<1>1. CASE WorkerStep
  BY <1>1, RefreshKeeps, WakeStep DEF WorkerStep, Threads
<1>2. CASE McpStep
  BY <1>2, RefreshKeeps, ChangeStep DEF McpStep, Threads
<1>3. CASE ClientStep
  <2>1. ASSUME NEW todo \in {{d} : d \in config.devices} \cup {config.devices} PROVE todo \in SUBSET config.devices
    OBVIOUS
  <2>2. QED
    BY <1>3, <2>1, RefreshCallStep, ClearStep, ChangeStep DEF ClientStep
<1>4. CASE PlantStep
  BY <1>4, PlantKeeps
<1>5. CASE UNCHANGED vars
  BY <1>5 DEF CacheInv, TypeOK, Phases, Current, InRefresh, NoStaleState, SignatureBacked, vars
<1>6. QED
  BY <1>1, <1>2, <1>3, <1>4, <1>5 DEF Next

\* The cache invariant holds throughout, of the cache by itself.
THEOREM CacheInvariance == Spec => []CacheInv
<1>1. QED
  BY CacheInit, CacheNext, PTL DEF Spec

\* Every state in the cache and every active signature comes from a reading
\* made under the configuration in force: a refresh carries the version under
\* which it read the device (Current), and no refresh outlives a change,
\* because stop() has waited for the worker and the MCP thread, which makes the
\* change, is not in a refresh itself.
THEOREM NothingStale == Spec => []NoStaleState
<1>1. CacheInv => NoStaleState
  BY DEF CacheInv
<1>2. QED
  BY <1>1, CacheInvariance, PTL

\* Suppression hides no alarm: whichever thread set an active signature, its
\* alarm has been handed to the store since the key was last cleared, or the
\* thread is on its way to do so.
THEOREM SignaturesAreBacked == Spec => []SignatureBacked
<1>1. CacheInv => SignatureBacked
  BY DEF CacheInv
<1>2. QED
  BY <1>1, CacheInvariance, PTL

-----------------------------------------------------------------------------
(* The steps, told apart by what they do to the refreshes under way.       *)

\* No refresh begins or gets any further, and nothing that a refresh reads or
\* writes changes; one that had nothing left to do may end.
Quiet ==
    /\ \A u \in Threads :
         \/ task'[u] = task[u]
         \/ /\ InRefresh(u) => task[u].at = "variables" /\ task[u].left = {}
            /\ ~InRefresh(u)'
    /\ UNCHANGED <<config, version, plant, states, signatures, stored, recent>>
    /\ refreshed => refreshed'
    /\ \/ refreshed' 
       \/ task[Mcp].at = "pass" \/ InRefresh(Mcp)
       \/ task'[Mcp].at # "pass"

\* Between two devices, passes or changes nothing happens to states and signatures.
LEMMA QuietSteps ==
    ASSUME CacheInv,
           \/ \E t \in Threads : DeviceDone(t) \/ PassDone(t)
           \/ WorkerWakes \/ RequestStop \/ StopReturns \/ Start
           \/ \E todo \in SUBSET config.devices : Refresh(todo)
    PROVE  Quiet
<1>0. Mcp \in Threads /\ Worker \in Threads /\ Mcp # Worker /\ Threads = {Worker, Mcp}
  BY CacheConfig DEF Threads
<1> DEFINE Away == {"none", "wait", "idle", "stopping", "reconfigure", "start", "pass"}
<1>1. ASSUME NEW t \in Threads, NEW c, task' = [task EXCEPT ![t] = c], c.at \in Away,
             InRefresh(t) => task[t].at = "variables" /\ task[t].left = {}
      PROVE  /\ task'[t] = c
             /\ \A u \in Threads : \/ task'[u] = task[u]
                             \/ /\ InRefresh(u) => task[u].at = "variables" /\ task[u].left = {}
                                /\ ~InRefresh(u)'
  BY <1>1 DEF CacheInv, TypeOK, InRefresh
<1>2. ASSUME NEW t \in Threads, DeviceDone(t) PROVE Quiet
  <2>1. task' = [task EXCEPT ![t] = [at |-> "pass", todo |-> task[t].todo]]
    BY <1>2 DEF DeviceDone, AfterDevice
  <2>2. t = Mcp \/ task'[Mcp] = task[Mcp]
    BY <1>0, <2>1 DEF CacheInv, TypeOK
  <2>3. QED
    BY <1>1, <1>2, <2>1, <2>2 DEF Quiet, DeviceDone, InRefresh
<1>3. ASSUME NEW t \in Threads, PassDone(t) PROVE Quiet
  <2>1. task' = [task EXCEPT ![t] = [at |-> IF t = Worker THEN "wait" ELSE "idle"]]
    BY <1>3 DEF PassDone
  <2>2. t = Mcp \/ task'[Mcp] = task[Mcp]
    BY <1>0, <2>1 DEF CacheInv, TypeOK
  <2>3. QED
    BY <1>1, <1>3, <2>1, <2>2 DEF Quiet, PassDone, InRefresh
<1>4. ASSUME WorkerWakes PROVE Quiet
  <2> DEFINE c == IF stop_requested THEN [at |-> "none"] ELSE [at |-> "pass", todo |-> config.devices]
  <2>1. task' = [task EXCEPT ![Worker] = c] /\ c.at \in Away
    BY <1>4 DEF WorkerWakes, StopSeen
  <2>2. task'[Mcp] = task[Mcp]
    BY <1>0, <2>1 DEF CacheInv, TypeOK
  <2>3. QED
    BY <1>0, <1>1, <1>4, <2>1, <2>2 DEF Quiet, WorkerWakes, InRefresh
<1>5. ASSUME RequestStop \/ StopReturns PROVE Quiet
  <2>1. PICK at \in {"stopping", "reconfigure"} : Goto(Mcp, at)
    BY <1>5 DEF RequestStop, StopReturns
  <2>2. task' = [task EXCEPT ![Mcp] = [at |-> at]]
    BY <1>0, <1>5, <2>1, GotoTask DEF RequestStop, StopReturns, CacheInv
  <2>3. ~InRefresh(Mcp) 
    BY <1>5 DEF RequestStop, StopReturns, InRefresh
  <2>4. task'[Mcp].at # "pass"
    BY <1>0, <2>2 DEF CacheInv, TypeOK
  <2>5. UNCHANGED <<config, version, plant, states, signatures, stored, recent, refreshed>>
    BY <1>5 DEF RequestStop, StopReturns
  <2>6. QED
    BY <1>0, <1>1, <2>2, <2>3, <2>4, <2>5 DEF Quiet
<1>6. ASSUME Start PROVE Quiet
  <2>1. task[Mcp].at = "start" /\ task[Worker].at = "none"
    BY <1>6 DEF Start, CacheInv, Phases
  <2>2. UNCHANGED <<config, version, plant, states, signatures, stored, recent, refreshed>>
    BY <1>6 DEF Start
  <2>3. /\ task'[Mcp] = [at |-> "idle"]
        /\ task'[Worker] = [at |-> "pass", todo |-> config.devices] \/ task'[Worker] = task[Worker]
    <3>1. CASE config.enabled
      <4>1. task' = [task EXCEPT ![Mcp] = [at |-> "idle"], ![Worker] = [at |-> "pass", todo |-> config.devices]]
        BY <1>6, <3>1 DEF Start
      <4>2. QED
        BY <1>0, <4>1 DEF CacheInv, TypeOK
    <3>2. CASE ~config.enabled
      <4>1. task' = [task EXCEPT ![Mcp] = [at |-> "idle"]]
        BY <1>0, <1>6, <2>1, <3>2, GotoTask DEF Start, CacheInv
      <4>2. QED
        BY <1>0, <4>1 DEF CacheInv, TypeOK
    <3>3. QED
      BY <3>1, <3>2
  <2>4. QED
    BY <1>0, <2>1, <2>2, <2>3 DEF Quiet, InRefresh
<1>7. ASSUME NEW todo \in SUBSET config.devices, Refresh(todo) PROVE Quiet
  <2>1. task' = [task EXCEPT ![Mcp] = [at |-> "pass", todo |-> todo]]
    BY <1>7 DEF Refresh
  <2>2. QED
    BY <1>0, <1>1, <1>7, <2>1 DEF Quiet, Refresh, InRefresh
<1>8. QED
  BY <1>2, <1>3, <1>4, <1>5, <1>6, <1>7

\* The kinds of steps that the two threads and the plant make, ...
LEMMA ThreadKinds ==
    ASSUME CacheInv, WorkerStep \/ McpStep \/ PlantStep
    PROVE  \/ \E t \in Threads : \/ \E d \in Devices : Read(t, d)
                                 \/ Store(t)
                                 \/ \E x \in Variables \cup {Communication} : Handling(t, x)
                                 \/ AppendAlarm(t)
           \/ Quiet
           \/ Reconfigure
           \/ PlantStep
<1>1. ASSUME NEW t \in Threads, RefreshStep(t)
      PROVE  \/ \E d \in Devices : Read(t, d)
             \/ Store(t)
             \/ \E x \in Variables \cup {Communication} : Handling(t, x)
             \/ AppendAlarm(t)
             \/ Quiet
  <2>1. ASSUME CommunicationAlarm(t) PROVE Handling(t, Communication)
    BY <2>1, CommunicationHandled DEF CacheInv
  <2>2. ASSUME NEW v \in Variables, VariableAlarm(t, v) PROVE Handling(t, v)
    BY <2>2, VariableHandled DEF CacheInv
  <2>3. QED
    BY <1>1, <2>1, <2>2, QuietSteps DEF RefreshStep
<1>2. QED
  BY <1>1, QuietSteps DEF WorkerStep, McpStep, Threads

\* ... the kinds that a client's call makes, ...
LEMMA ClientKinds ==
    ASSUME CacheInv, ClientStep
    PROVE  Quiet \/ \E k \in Keys : ClearCachedAlarm(k)
<1>1. ASSUME NEW todo \in {{d} : d \in config.devices} \cup {config.devices} PROVE todo \in SUBSET config.devices
  OBVIOUS
<1>2. QED
  BY <1>1, QuietSteps DEF ClientStep

\* ... and all of them together.
LEMMA StepKinds ==
    ASSUME CacheInv, Next
    PROVE  \/ \E t \in Threads : \/ \E d \in Devices : Read(t, d)
                                 \/ Store(t)
                                 \/ \E x \in Variables \cup {Communication} : Handling(t, x)
                                 \/ AppendAlarm(t)
           \/ Quiet
           \/ \E k \in Keys : ClearCachedAlarm(k)
           \/ Reconfigure
           \/ PlantStep
BY ThreadKinds, ClientKinds DEF Next

\* What the other three steps of a refresh do, field by field.
LEMMA ReadEffect ==
    ASSUME CacheInv, NEW t \in Threads, NEW d \in Devices, Read(t, d)
    PROVE  /\ task[t].at = "pass" /\ task'[t].at = "store" /\ task'[t].device = d
           /\ task'[t].reads = plant[d] /\ task'[t].left = Variables
           /\ \A u \in Threads : u # t => task'[u] = task[u]
           /\ UNCHANGED <<config, version, plant, states, signatures, stored, recent,
                          refreshed>>
BY DEF Read, CacheInv, TypeOK

\* What storing a reading changes, and what it does not.
LEMMA StoreEffect ==
    ASSUME CacheInv, NEW t \in Threads, Store(t)
    PROVE  /\ task[t].at = "store" /\ task'[t].at = "communication"
           /\ task[t].device \in Devices /\ task[t].reads \in Reads
           /\ task'[t].device = task[t].device /\ task'[t].reads = task[t].reads
           /\ task[t].left = Variables /\ task'[t].left = Variables
           /\ \A u \in Threads : u # t => task'[u] = task[u]
           /\ states' = [states EXCEPT ![task[t].device] = [version |-> task[t].version, reads |-> task[t].reads]]
           /\ UNCHANGED <<config, version, plant, signatures, stored, recent, refreshed>>
<1>1. task[t] \in RefreshTask /\ task[t].at = "store"
  BY TaskShape DEF CacheInv, TypeOK, Store
<1>2. task' = [task EXCEPT ![t] = [task[t] EXCEPT !.at = "communication"]]
  BY DEF Store, Goto
<1>3. task[t].left = Variables
  BY <1>1 DEF CacheInv, Current
<1>4. task'[t] = [task[t] EXCEPT !.at = "communication"] /\ \A u \in Threads : u # t => task'[u] = task[u]
  BY <1>2 DEF CacheInv, TypeOK
<1>5. /\ task'[t].at = "communication" /\ task'[t].device = task[t].device
      /\ task'[t].reads = task[t].reads /\ task'[t].left = task[t].left
  BY <1>1, <1>4 DEF RefreshTask
<1>6. task[t].device \in Devices /\ task[t].reads \in Reads
  BY <1>1 DEF RefreshTask
<1>7. QED
  BY <1>1, <1>3, <1>4, <1>5, <1>6 DEF Store

\* What appending an alarm changes, and what it does not.
LEMMA AppendEffect ==
    ASSUME CacheInv, NEW t \in Threads, AppendAlarm(t)
    PROVE  /\ task[t].at = "append" /\ task'[t].at = "variables"
           /\ task[t].device \in Devices
           /\ task'[t].device = task[t].device /\ task'[t].reads = task[t].reads
           /\ task'[t].left = task[t].left
           /\ \A u \in Threads : u # t => task'[u] = task[u]
           /\ stored' = stored \cup {task[t].alarm} /\ task[t].alarm[1][1] = task[t].device
           /\ UNCHANGED <<config, version, plant, states, signatures, recent, refreshed>>
<1>1. task[t] \in AppendTask /\ task[t].at = "append"
  BY TaskShape DEF CacheInv, TypeOK, AppendAlarm
<1>2. task[t].device \in Devices /\ task[t].alarm[1][1] = task[t].device
  BY <1>1 DEF AppendTask, CacheInv, Current
<1>3. QED
  BY <1>1, <1>2 DEF AppendAlarm, CacheInv, TypeOK

\* What a thread in the middle of a refresh has in its task.
LEMMA RefreshFields ==
    ASSUME CacheInv, NEW t \in Threads, InRefresh(t)
    PROVE  /\ task[t].device \in Devices /\ task[t].device \in config.devices
           /\ task[t].reads \in Reads /\ task[t].left \subseteq Variables
<1>1. task[t] \in RefreshTask \cup AppendTask
  BY TaskShape DEF CacheInv, TypeOK, InRefresh
<1>2. QED
  BY <1>1 DEF RefreshTask, AppendTask, CacheInv, Current

-----------------------------------------------------------------------------
(* No repeated alarms while the worker alone refreshes.                    *)

Xs == Variables \cup {Communication}

\* Thread t has yet to handle key x of device d.
Left(t, d, x) == /\ InRefresh(t) /\ task[t].device = d
                 /\ \/ x \in task[t].left
                    \/ x = Communication /\ task[t].at \in {"store", "communication"}

\* Until a client refreshes, the MCP thread does not.
Alone == ~refreshed => ~InRefresh(Mcp) /\ task[Mcp].at # "pass"

\* An alarm raised since the reading behind it changed is still active, or is
\* not the one that the reading now calls for; and what the worker has read
\* and not handled yet calls for the same.
Unrepeated ==
    ~refreshed => \A d \in Devices, x \in Xs, code \in Codes :
        <<<<d, x>>, code>> \in recent
        => /\ signatures[<<d, x>>] = code \/ Call(d, x, plant[d]) # code
           /\ Left(Worker, d, x) => Call(d, x, task[Worker].reads) = Call(d, x, plant[d])

RepeatInv == CacheInv /\ Alone /\ Unrepeated

\* Handling a key is done with it, and with no other.
LEMMA HandlingLeft ==
    ASSUME CacheInv, NEW t \in Threads, NEW x \in Xs, Handling(t, x)
    PROVE  /\ InRefresh(t) /\ InRefresh(t)' /\ Left(t, task[t].device, x) /\ ~Left(t, task[t].device, x)'
           /\ \A d \in Devices, y \in Xs : Left(t, d, y)' => Left(t, d, y) /\ ~(d = task[t].device /\ y = x)
           /\ task[t].device \in Devices /\ task[t].reads \in Reads
<1>1. InRefresh(t) /\ task[t].at \in {"communication", "variables"} /\ task'[t].at \in {"variables", "append"}
  BY DEF Handling, InRefresh
<1>2. task'[t].device = task[t].device
  BY DEF Handling
<1>3. CASE x = Communication
  <2>1. task[t].at = "communication" /\ task[t].left = Variables /\ task'[t].left = Variables
    BY <1>3 DEF Handling, CacheInv, Current
  <2>2. QED
    BY <1>1, <1>2, <1>3, <2>1, RefreshFields, ReservedKey DEF Left, InRefresh, Xs
<1>4. CASE x \in Variables
  <2>1. task[t].at = "variables" /\ x \in task[t].left /\ task'[t].left = task[t].left \ {x}
    BY <1>4 DEF Handling
  <2>2. QED
    BY <1>1, <1>2, <1>4, <2>1, RefreshFields, ReservedKey DEF Left, InRefresh, Xs
<1>5. QED
  BY <1>3, <1>4 DEF Xs

\* Without a client's refresh it is the worker that refreshes.
LEMMA AloneStep ==
    ASSUME CacheInv, Alone, Next
    PROVE  /\ Alone'
           /\ ~refreshed' => ~refreshed
           /\ ~refreshed => \A t \in Threads : InRefresh(t) \/ task[t].at = "pass" => t = Worker
<1>1. Threads = {Worker, Mcp} /\ Worker # Mcp
  BY CacheConfig DEF Threads
<1>2. ~refreshed => \A t \in Threads : InRefresh(t) \/ task[t].at = "pass" => t = Worker
  BY <1>1 DEF Alone
<1>3. ASSUME NEW t \in Threads, NEW d \in Devices, Read(t, d) PROVE Alone' /\ refreshed' = refreshed
  BY <1>1, <1>2, <1>3, ReadEffect DEF Alone, InRefresh
<1>4. ASSUME NEW t \in Threads, Store(t) PROVE Alone' /\ refreshed' = refreshed
  BY <1>1, <1>2, <1>4, StoreEffect DEF Alone, InRefresh
<1>5. ASSUME NEW t \in Threads, NEW x \in Xs, Handling(t, x) PROVE Alone' /\ refreshed' = refreshed
  BY <1>1, <1>2, <1>5, HandlingLeft DEF Alone, Handling, InRefresh
<1>6. ASSUME NEW t \in Threads, AppendAlarm(t) PROVE Alone' /\ refreshed' = refreshed
  BY <1>1, <1>2, <1>6, AppendEffect DEF Alone, InRefresh
<1>7. ASSUME Quiet PROVE Alone' /\ (~refreshed' => ~refreshed)
  BY <1>1, <1>7 DEF Alone, Quiet, InRefresh
<1>8. ASSUME NEW k \in Keys, ClearCachedAlarm(k) PROVE Alone' /\ refreshed' = refreshed
  BY <1>8 DEF Alone, ClearCachedAlarm, InRefresh
<1>9. ASSUME Reconfigure PROVE Alone' /\ refreshed' = refreshed
  <2>1. task'[Mcp] = [at |-> "start"]
    BY <1>1, <1>9, GotoTask DEF Reconfigure, CacheInv, TypeOK
  <2>2. QED
    BY <1>9, <2>1 DEF Alone, InRefresh, Reconfigure
<1>10. ASSUME PlantStep PROVE Alone' /\ refreshed' = refreshed
  BY <1>10 DEF Alone, PlantStep, PlantChanges, InRefresh
<1>11. QED
  BY <1>2, <1>3, <1>4, <1>5, <1>6, <1>7, <1>8, <1>9, <1>10, StepKinds DEF Xs

\* The rules are the same after the step.
LEMMA SameCall == ASSUME UNCHANGED config
                  PROVE  \A d, x, r : Call(d, x, r)' = Call(d, x, r)
BY DEF Call

\* A plant that gives something else for v changes no call of another variable.
LEMMA PlantCall ==
    ASSUME TypeOK, NEW d \in Devices, NEW v \in Variables, PlantChanges(d, v),
           NEW e \in Devices, NEW x \in Xs, NEW code, <<<<e, x>>, code>> \in recent'
    PROVE  <<<<e, x>>, code>> \in recent /\ Call(e, x, plant[e])' = Call(e, x, plant[e])
<1>1. PICK r \in Readings[v] : /\ plant' = [plant EXCEPT ![d] = [plant[d] EXCEPT ![v] = r]]
                               /\ recent' = recent \ (Of(<<d, v>>, recent) \cup Of(<<d, Communication>>, recent))
                               /\ UNCHANGED config
  BY DEF PlantChanges
<1>2. <<<<e, x>>, code>> \in recent /\ (e = d => x # v /\ x # Communication)
  BY <1>1 DEF Of
<1>3. CASE e # d
  BY <1>1, <1>2, <1>3 DEF Call, TypeOK
<1>4. CASE e = d
  <2>1. plant[d] \in [Variables -> UNION {Readings[w] : w \in Variables}]
    BY DEF TypeOK, Reads
  <2>2. plant'[e][x] = plant[e][x] /\ x # Communication
    BY <1>1, <1>2, <1>4, <2>1 DEF TypeOK, Xs
  <2>3. QED
    BY <1>1, <1>2, <2>2 DEF Call
<1>5. QED
  BY <1>3, <1>4

\* No step of the lone worker sets a signature for a reading whose alarm is known.
LEMMA UnrepeatedStep ==
    ASSUME RepeatInv, Next
    PROVE  Unrepeated' /\ (~refreshed => \A t \in Threads : ~Repeats(t))
<1>1. Threads = {Worker, Mcp} /\ Worker # Mcp /\ CacheInv /\ Alone
  BY CacheConfig DEF Threads, RepeatInv
<1>2. /\ ~refreshed' => ~refreshed
      /\ ~refreshed => \A t \in Threads : InRefresh(t) \/ task[t].at = "pass" => t = Worker
  BY AloneStep DEF RepeatInv
<1> DEFINE Fine(d, x, code) ==
      /\ signatures[<<d, x>>] = code \/ Call(d, x, plant[d]) # code
      /\ Left(Worker, d, x) => Call(d, x, task[Worker].reads) = Call(d, x, plant[d])
<1>3. ~refreshed => \A d \in Devices, x \in Xs, code \in Codes : <<<<d, x>>, code>> \in recent => Fine(d, x, code)
  BY DEF RepeatInv, Unrepeated
<1>4. ASSUME ~refreshed' => \A d \in Devices, x \in Xs, code \in Codes :
                 <<<<d, x>>, code>> \in recent' => Fine(d, x, code)'
      PROVE  Unrepeated'
  BY <1>4 DEF Unrepeated
<1>5. ASSUME \A t \in Threads : task'[t].at = "append" => task[t].at = "append"
      PROVE  \A t \in Threads : ~Repeats(t)
  BY <1>5 DEF Repeats
<1> HIDE DEF Fine
<1>6. ASSUME UNCHANGED <<config, plant, signatures, recent>>,
             \A d \in Devices, x \in Xs : Left(Worker, d, x)' => /\ Left(Worker, d, x)
                                                                 /\ task'[Worker].reads = task[Worker].reads
      PROVE  Unrepeated'
  BY <1>2, <1>3, <1>4, <1>6, SameCall DEF Fine
<1>7. CASE \E t \in Threads, d \in Devices : Read(t, d)
  <2>1. PICK t \in Threads, d \in Devices : Read(t, d)
    BY <1>7
  <2>2. \A e \in Devices, x \in Xs : ~refreshed /\ Left(Worker, e, x)' => task'[Worker].reads = plant[e]
    BY <1>1, <1>2, <2>1, ReadEffect DEF Left
  <2>3. ASSUME ~refreshed', NEW e \in Devices, NEW x \in Xs, NEW code \in Codes,
               <<<<e, x>>, code>> \in recent'
        PROVE  Fine(e, x, code)'
    <3>1. ~refreshed /\ Fine(e, x, code) /\ UNCHANGED <<config, plant, signatures, recent>>
      BY <1>1, <1>2, <1>3, <2>1, <2>3, ReadEffect
    <3>2. QED
      BY <2>2, <3>1, SameCall DEF Fine
  <2>4. QED
    BY <1>1, <1>4, <1>5, <2>1, <2>3, ReadEffect
<1>8. CASE \E t \in Threads : Store(t)
  <2>1. PICK t \in Threads : Store(t)
    BY <1>8
  <2>2. \A d \in Devices, x \in Xs : Left(Worker, d, x)' => /\ Left(Worker, d, x)
                                                            /\ task'[Worker].reads = task[Worker].reads
    BY <1>1, <2>1, StoreEffect DEF Left, InRefresh
  <2>3. QED
    BY <1>1, <1>5, <1>6, <2>1, <2>2, StoreEffect
<1>9. CASE \E t \in Threads : AppendAlarm(t)
  <2>1. PICK t \in Threads : AppendAlarm(t)
    BY <1>9
  <2>2. \A d \in Devices, x \in Xs : Left(Worker, d, x)' => /\ Left(Worker, d, x)
                                                            /\ task'[Worker].reads = task[Worker].reads
    BY <1>1, <2>1, AppendEffect DEF Left, InRefresh
  <2>3. QED
    BY <1>1, <1>5, <1>6, <2>1, <2>2, AppendEffect
<1>10. CASE Quiet
  <2>1. \A d \in Devices, x \in Xs : Left(Worker, d, x)' => /\ Left(Worker, d, x)
                                                            /\ task'[Worker].reads = task[Worker].reads
    BY <1>1, <1>10 DEF Left, InRefresh, Quiet
  <2>2. QED
    BY <1>5, <1>6, <1>10, <2>1 DEF Quiet, InRefresh
<1>11. CASE \E k \in Keys : ClearCachedAlarm(k)
  <2>1. PICK k \in Keys : ClearCachedAlarm(k)
    BY <1>11
  <2>2. UNCHANGED <<config, plant, task,
                    refreshed>> /\ signatures' = [signatures EXCEPT ![k] = None]
    BY <2>1 DEF ClearCachedAlarm
  <2>3. ASSUME NEW e \in Devices, NEW x \in Xs, NEW code, <<<<e, x>>, code>> \in recent'
        PROVE  <<<<e, x>>, code>> \in recent /\ signatures'[<<e, x>>] = signatures[<<e, x>>]
    <3>1. <<<<e, x>>, code>> \in recent /\ <<e, x>> # k
      BY <2>1, <2>3 DEF ClearCachedAlarm, Of
    <3>2. <<e, x>> \in Keys
      BY DEF Keys, Xs
    <3>3. QED
      BY <1>1, <2>2, <3>1, <3>2 DEF CacheInv, TypeOK
  <2>4. \A e \in Devices, x \in Xs : Left(Worker, e, x)' = Left(Worker, e, x)
    BY <2>2 DEF Left, InRefresh
  <2>5. Unrepeated'
    BY <1>3, <1>4, <2>2, <2>3, <2>4, SameCall DEF Fine
  <2>6. QED
    BY <1>5, <2>2, <2>5
<1>12. CASE Reconfigure
  <2>1. recent' = {} /\ task'[Worker] = task[Worker] /\ task'[Mcp].at # "append"
    BY <1>1, <1>12, GotoTask DEF Reconfigure, CacheInv, TypeOK
  <2>2. QED
    BY <1>1, <1>4, <1>5, <2>1
<1>13. CASE PlantStep
  <2>1. PICK d \in Devices, v \in Variables : PlantChanges(d, v)
    BY <1>13 DEF PlantStep
  <2>2. UNCHANGED <<config, signatures, task, refreshed>>
    BY <2>1 DEF PlantChanges
  <2>3. \A e \in Devices, x \in Xs : Left(Worker, e, x)' = Left(Worker, e, x)
    BY <2>2 DEF Left, InRefresh
  <2>4. \A e \in Devices, x \in Xs, code \in Codes : <<<<e, x>>, code>> \in recent'
          => <<<<e, x>>, code>> \in recent /\ Call(e, x, plant[e])' = Call(e, x, plant[e])
    BY <1>1, <2>1, PlantCall DEF CacheInv
  <2>5. Unrepeated'
    BY <1>3, <1>4, <2>2, <2>3, <2>4, SameCall DEF Fine
  <2>6. QED
    BY <1>5, <2>2, <2>5
<1>14. CASE \E t \in Threads, x \in Xs : Handling(t, x)
  <2>1. PICK t \in Threads, x \in Xs : Handling(t, x)
    BY <1>14
  <2> DEFINE dev == task[t].device
             k == <<dev, x>>
             call == Call(dev, x, task[t].reads)
  <2>2. /\ dev \in Devices /\ InRefresh(t) /\ Left(t, dev, x) /\ k \in Keys
        /\ UNCHANGED <<config, plant, refreshed>> /\ task'[t].reads = task[t].reads
        /\ \A u \in Threads : u # t => task'[u] = task[u]
    BY <1>1, <2>1, HandlingLeft DEF Handling, Keys, Xs
  <2>3. ~refreshed => t = Worker
    BY <1>2, <2>2
  <2>4. /\ \/ UNCHANGED <<signatures, recent>> /\ task'[t].at = "variables"
           \/ /\ call = None /\ signatures' = [signatures EXCEPT ![k] = None] /\ UNCHANGED recent
              /\ task'[t].at = "variables"
           \/ /\ call # None /\ signatures[k] # call /\ task'[t].alarm = <<k, call>>
              /\ signatures' = [signatures EXCEPT ![k] = call] /\ recent' = recent \cup {<<k, call>>}
    BY <2>1 DEF Handling, ClearAlarmState
  <2>5. None \notin Codes /\ call \in Codes \cup {None}
    BY CallType DEF None, Codes, ThresholdCodes
  <2>6. ASSUME ~refreshed, call # None, signatures[k] # call PROVE <<k, call>> \notin recent
    BY <1>3, <2>2, <2>3, <2>5, <2>6 DEF Fine
  <2>7. ASSUME ~refreshed PROVE \A u \in Threads : ~Repeats(u)
    BY <1>1, <2>2, <2>4, <2>6, <2>7 DEF Repeats
  <2>8. ASSUME ~refreshed', NEW e \in Devices, NEW y \in Xs, NEW code \in Codes,
               <<<<e, y>>, code>> \in recent'
        PROVE  Fine(e, y, code)'
    <3>1. ~refreshed /\ t = Worker
      BY <1>2, <2>3, <2>8
    <3>2. Left(Worker, e, y)' => Left(Worker, e, y) /\ <<e, y>> # k
      BY <1>1, <2>1, <3>1, HandlingLeft
    <3>3. <<e, y>> \in Keys
      BY DEF Keys, Xs
    <3>4. CASE <<e, y>> # k
      <4>1. <<<<e, y>>, code>> \in recent /\ signatures'[<<e, y>>] = signatures[<<e, y>>]
        BY <1>1, <2>2, <2>4, <2>8, <3>3, <3>4 DEF CacheInv, TypeOK
      <4>2. Fine(e, y, code)
        BY <1>3, <3>1, <4>1
      <4>3. QED
        BY <2>2, <3>1, <3>2, <4>1, <4>2, SameCall DEF Fine
    <3>5. CASE <<e, y>> = k
      <4>1. ~Left(Worker, e, y)'
        BY <3>2, <3>5
      <4>2. e = dev /\ y = x
        BY <3>5
      <4>3. CASE <<<<e, y>>, code>> \in recent
        <5>1. Fine(e, y, code)
          BY <1>3, <3>1, <4>3
        <5>2. call = Call(e, y, plant[e])
          BY <2>2, <3>1, <4>2, <5>1 DEF Fine
        <5>3. signatures'[k] = signatures[k] \/ signatures'[k] = call
          BY <1>1, <2>2, <2>4 DEF CacheInv, TypeOK
        <5>4. call # code \/ signatures[k] = code
          BY <4>2, <5>1, <5>2 DEF Fine
        <5>5. Call(e, y, plant[e])' = Call(e, y, plant[e])
          BY <2>2, SameCall
        <5>6. QED
          BY <4>1, <4>2, <5>2, <5>3, <5>4, <5>5 DEF Fine
      <4>4. CASE <<<<e, y>>, code>> \notin recent
        <5>1. <<<<e, y>>, code>> = <<k, call>> /\ signatures' = [signatures EXCEPT ![k] = call]
          BY <2>4, <2>8, <4>4
        <5>2. signatures'[<<e, y>>] = code
          BY <1>1, <2>2, <5>1 DEF CacheInv, TypeOK
        <5>3. QED
          BY <4>1, <5>2 DEF Fine
      <4>5. QED
        BY <4>3, <4>4
    <3>6. QED
      BY <3>4, <3>5
  <2>9. QED
    BY <1>4, <2>7, <2>8
<1>15. QED
  BY <1>1, <1>7, <1>8, <1>9, <1>10, <1>11, <1>12, <1>13, <1>14, StepKinds DEF Xs

\* Hence the invariant about repetition is inductive, ...
LEMMA RepeatStep == RepeatInv /\ [Next]_vars => RepeatInv'
<1>1. ASSUME RepeatInv, Next PROVE RepeatInv'
  BY <1>1, CacheNext, AloneStep, UnrepeatedStep DEF RepeatInv
<1>2. ASSUME RepeatInv, UNCHANGED vars PROVE RepeatInv'
  <2>1. CacheInv'
    BY <1>2, CacheNext DEF RepeatInv
  <2>2. Alone' /\ Unrepeated'
    BY <1>2 DEF RepeatInv, Alone, Unrepeated, Left, Call, InRefresh, vars
  <2>3. QED
    BY <2>1, <2>2 DEF RepeatInv
<1>3. QED
  BY <1>1, <1>2

\* ... it holds at first, ...
LEMMA RepeatInit == Init => RepeatInv
<1> SUFFICES ASSUME Init PROVE RepeatInv
  OBVIOUS
<1>1. task[Mcp] = [at |-> "idle"] /\ recent = {}
  BY CacheConfig DEF Init, Threads
<1>2. QED
  BY <1>1, CacheInit DEF RepeatInv, Alone, Unrepeated, InRefresh

\* ... and always.
LEMMA RepeatInvariance == Spec => []RepeatInv
<1>1. QED
  BY RepeatInit, RepeatStep, PTL DEF Spec

\* As long as no client refreshes, the worker never raises an alarm a second
\* time while the reading behind it stays what it was, whatever alarms clients
\* clear and however the configuration changes in between.
THEOREM WorkerRaisesOnce == Spec => WorkerDoesNotRepeat
<1>1. RepeatInv /\ [Next]_vars => [~refreshed => \A t \in Threads : ~Repeats(t)]_vars
  BY UnrepeatedStep
<1>2. QED
  BY <1>1, RepeatInvariance, PTL DEF Spec, WorkerDoesNotRepeat

-----------------------------------------------------------------------------
(* Diagnosis beside the cache.                                             *)

\* A step of the whole is a step of the cache or leaves it alone.
LEMMA CacheUnderDiagnosis == [DiagnosisNext]_diagnosisVars => [Next]_vars
<1>1. ASSUME CacheStep PROVE Next
  BY <1>1 DEF CacheStep, Next, WorkerStep, McpStep, RefreshStep, Threads
<1>2. QED
  BY <1>1 DEF DiagnosisNext, OtherCall, Next, Diagnose, DiagnosisStep, StateJson, QueryAlarms,
             diagnosisVars, vars

\* Diagnosing disturbs nothing: with diagnoses under way the cache still
\* behaves as it does by itself, so all that is proved of Spec holds here.
THEOREM DiagnosisImplementsCache == DiagnosisSpec => Spec
<1>1. DiagnosisInit => Init
  BY DEF DiagnosisInit
<1>2. QED
  BY <1>1, CacheUnderDiagnosis, PTL DEF DiagnosisSpec, Spec

\* Devices that have had an alarm accepted or refused by the store.
Listed == logged \cup refused

\* What was read of device d gives a cause to name.
Cause(d, r) == \/ AllFailed(r)
               \/ \E v \in Variables : VariableContext(r[v], config.rules[d][v]) # None

\* Thread t is about to append an alarm of device d, or will come to a key of
\* it for which an alarm has to be active.
Owes(t, d) ==
    /\ InRefresh(t) /\ task[t].device = d
    /\ \/ task[t].at = "append"
       \/ task[t].at = "communication" /\ Cause(d, task[t].reads)
       \/ /\ task[t].at = "variables" /\ ~AllFailed(task[t].reads)
          /\ \E v \in task[t].left : VariableContext(task[t].reads[v], config.rules[d][v]) # None

Owed(d) == d \in Listed \/ \E t \in Threads : Owes(t, d)

CausesOwed ==
    /\ \A a \in stored : a[1][1] \in Listed
    /\ \A d \in Devices : states[d] # NoState /\ Cause(d, states[d].reads) => Owed(d)

\* The two classifications agree on what is abnormal.
LEMMA ContextCalls ==
    ASSUME NEW reading, NEW rule, VariableContext(reading, rule) # None
    PROVE  SignatureFor(reading, rule) # None
BY DEF VariableContext, SignatureFor, ThresholdCode, None

\* An active signature means that the alarm is listed or about to be appended.
LEMMA ActiveOwed ==
    ASSUME CacheInv, CausesOwed, NEW k \in Keys, signatures[k] # None
    PROVE  k[1] \in Listed \/ \E u \in Threads : task[u].at = "append" /\ task[u].device = k[1]
<1>1. CASE <<k, signatures[k]>> \in stored
  BY <1>1 DEF CausesOwed
<1>2. CASE \E u \in Threads : task[u].at = "append" /\ task[u].alarm = <<k, signatures[k]>>
  BY <1>2 DEF CacheInv, Current
<1>3. QED
  BY <1>1, <1>2 DEF CacheInv, SignatureBacked

\* A thread that handles a key passes its debt on, or settles it.
LEMMA HandlingOwes ==
    ASSUME CacheInv, CausesOwed, NEW t \in Threads, NEW x \in Xs, Handling(t, x),
           NEW d \in Devices, Owes(t, d), UNCHANGED <<logged, refused>>
    PROVE  Owed(d)'
<1> DEFINE call == Call(d, x, task[t].reads)
           k == <<d, x>>
<1>1. /\ task[t].device = d /\ task[t].at \in {"communication", "variables"}
      /\ task'[t].device = d /\ task'[t].reads = task[t].reads /\ UNCHANGED config
      /\ task'[t].at \in {"variables", "append"}
      /\ k \in Keys /\ k[1] = d
      /\ \A u \in Threads : u # t => task'[u] = task[u]
  BY DEF Owes, Handling, Keys, Xs
<1>2. CASE task'[t].at = "append"
  BY <1>1, <1>2 DEF Owed, Owes, InRefresh
<1>3. CASE task'[t].at = "variables" /\ call # None /\ (AllFailed(task[t].reads) => x = Communication)
  <2>1. signatures[k] = call
    BY <1>1, <1>3 DEF Handling
  <2>2. d \in Listed \/ \E u \in Threads : task[u].at = "append" /\ task[u].device = d
    BY <1>1, <1>3, <2>1, ActiveOwed
  <2>3. QED
    BY <1>1, <2>2 DEF Owed, Owes, Listed, InRefresh
<1>4. CASE /\ task'[t].at = "variables" /\ ~AllFailed(task[t].reads)
           /\ \E v \in task'[t].left : VariableContext(task[t].reads[v], config.rules[d][v]) # None
  BY <1>1, <1>4 DEF Owed, Owes, InRefresh
<1>5. CASE x = Communication
  <2>1. task[t].at = "communication" /\ Cause(d, task[t].reads) /\ task'[t].left = Variables
    BY <1>5 DEF Handling, Owes
  <2>2. AllFailed(task[t].reads) => call # None
    BY <1>5 DEF Call, None
  <2>3. QED
    BY <1>1, <1>2, <1>3, <1>4, <1>5, <2>1, <2>2 DEF Cause
<1>6. CASE x \in Variables
  <2>1. task[t].at = "variables" /\ x # Communication /\ task'[t].left = task[t].left \ {x}
    BY <1>6, ReservedKey DEF Handling
  <2>2. PICK v \in task[t].left : VariableContext(task[t].reads[v], config.rules[d][v]) # None
    BY <2>1 DEF Owes
  <2>3. ~AllFailed(task[t].reads)
    BY <2>1 DEF Owes
  <2>4. v = x => call # None
    BY <2>1, <2>2, ContextCalls DEF Call
  <2>5. QED
    BY <1>1, <1>2, <1>3, <1>4, <2>1, <2>2, <2>3, <2>4
<1>7. QED
  BY <1>5, <1>6 DEF Xs

\* Debts of devices survive where states, rules and the threads' tasks do.
LEMMA OwedStep ==
    ASSUME CacheInv, CausesOwed, Next,
           \/ \E t \in Threads : AppendAlarm(t) /\ AppendOutcome(t)
           \/ (\A t \in Threads : ~AppendAlarm(t)) /\ UNCHANGED <<logged, refused>>
    PROVE  CausesOwed' /\ Listed \subseteq Listed'
<1>1. ASSUME NEW t \in Threads, AppendAlarm(t), AppendOutcome(t) PROVE CausesOwed' /\ Listed \subseteq Listed'
  <2>1. Listed' = Listed \cup {task[t].device}
    BY <1>1 DEF AppendOutcome, Listed
  <2>2. \A a \in stored' : a[1][1] \in Listed'
    BY <1>1, <2>1, AppendEffect DEF CausesOwed
  <2>3. ASSUME NEW d \in Devices, states'[d] # NoState, Cause(d, states[d].reads)' PROVE Owed(d)'
    <3>1. Owed(d)
      BY <1>1, <2>3, AppendEffect DEF CausesOwed, Cause
    <3>2. CASE \E u \in Threads : u # t /\ Owes(u, d)
      BY <1>1, <3>2, AppendEffect DEF Owed, Owes, InRefresh, Cause
    <3>3. CASE Owes(t, d) \/ d \in Listed
      BY <2>1, <3>3 DEF Owed, Owes
    <3>4. QED
      BY <3>1, <3>2, <3>3 DEF Owed
  <2>4. QED
    BY <2>1, <2>2, <2>3 DEF CausesOwed
<1> SUFFICES ASSUME \A t \in Threads : ~AppendAlarm(t), UNCHANGED <<logged, refused>>
             PROVE  CausesOwed'
  BY <1>1 DEF Listed
<1>2. Listed' = Listed
  BY DEF Listed
<1>3. ASSUME UNCHANGED <<config, states>>, stored' \subseteq stored,
             \A t \in Threads, d \in Devices : Owes(t, d) => Owed(d)'
      PROVE  CausesOwed'
  BY <1>2, <1>3 DEF CausesOwed, Owed, Cause
<1>4. ASSUME NEW t \in Threads, UNCHANGED config, task'[t] = task[t], NEW d
      PROVE  Owes(t, d)' = Owes(t, d)
  BY <1>4 DEF Owes, InRefresh, Cause
<1>5. ASSUME NEW t \in Threads, NEW d \in Devices, Read(t, d) PROVE CausesOwed'
  <2>1. \A u \in Threads, e \in Devices : Owes(u, e) => u # t
    BY <1>5, ReadEffect DEF Owes, InRefresh
  <2>2. QED
    BY <1>3, <1>4, <1>5, <2>1, ReadEffect DEF Owed
<1>6. ASSUME NEW t \in Threads, Store(t) PROVE CausesOwed'
  <2> DEFINE dev == task[t].device
  <2>1. /\ dev \in Devices /\ states' = [states EXCEPT ![dev] = [version |-> task[t].version, reads |-> task[t].reads]]
        /\ task'[t].at = "communication" /\ task'[t].device = dev /\ task'[t].reads = task[t].reads
        /\ UNCHANGED <<config, stored>> /\ task[t].at = "store"
        /\ \A u \in Threads : u # t => task'[u] = task[u]
    BY <1>6, StoreEffect
  <2>2. states'[dev].reads = task[t].reads /\ \A e \in Devices : e # dev => states'[e] = states[e]
    BY <2>1 DEF CacheInv, TypeOK
  <2>3. Cause(dev, states[dev].reads)' => Owed(dev)'
    BY <2>1, <2>2 DEF Owed, Owes, InRefresh, Cause
  <2>4. ASSUME NEW e \in Devices, e # dev, states'[e] # NoState, Cause(e, states[e].reads)' PROVE Owed(e)'
    <3>1. Owed(e)
      BY <2>1, <2>2, <2>4 DEF CausesOwed, Cause
    <3>2. \A u \in Threads : Owes(u, e) => u # t
      BY <2>1 DEF Owes
    <3>3. QED
      BY <1>2, <1>4, <2>1, <3>1, <3>2 DEF Owed
  <2>5. QED
    BY <1>2, <2>1, <2>3, <2>4 DEF CausesOwed
<1>7. ASSUME NEW t \in Threads, NEW x \in Xs, Handling(t, x) PROVE CausesOwed'
  <2>1. UNCHANGED <<config, states>> /\ stored' \subseteq stored
    BY <1>7 DEF Handling, ClearAlarmState
  <2>2. ASSUME NEW u \in Threads, NEW d \in Devices, Owes(u, d) PROVE Owed(d)'
    <3>1. CASE u = t
      BY <1>7, <2>2, <3>1, HandlingOwes
    <3>2. CASE u # t
      BY <1>4, <1>7, <2>1, <2>2, <3>2 DEF Owed, Handling
    <3>3. QED
      BY <3>1, <3>2
  <2>3. QED
    BY <1>3, <2>1, <2>2
<1>8. ASSUME Quiet PROVE CausesOwed'
  <2>1. \A u \in Threads, d \in Devices : Owes(u, d) => task'[u] = task[u]
    BY <1>8 DEF Quiet, Owes
  <2>2. QED
    BY <1>3, <1>4, <1>8, <2>1 DEF Quiet, Owed
<1>9. ASSUME NEW k \in Keys, ClearCachedAlarm(k) PROVE CausesOwed'
  BY <1>3, <1>4, <1>9 DEF ClearCachedAlarm, Owed
<1>10. ASSUME Reconfigure PROVE CausesOwed'
  BY <1>10 DEF Reconfigure, CausesOwed
<1>11. ASSUME PlantStep PROVE CausesOwed'
  BY <1>3, <1>4, <1>11 DEF PlantStep, PlantChanges, Owed
<1>12. QED
  BY <1>5, <1>6, <1>7, <1>8, <1>9, <1>10, <1>11, StepKinds DEF Xs

\* While a diagnosis is under way its thread is busy with it, so that what the
\* first look found stays: no other thread takes a state away or changes the
\* configuration, and a record of the alarms stays a record.
Answering ==
    diagnosis # NoDiagnosis =>
        /\ diagnosis.found # "nothing" => states[diagnosis.device] # NoState
        /\ diagnosis.found = "settled causes" /\ Variables # {} => diagnosis.device \in Listed

DiagnosisInv == CacheInv /\ DiagnosisTypeOK /\ CausesOwed /\ Answering

\* The steps beside an idle MCP thread.
LEMMA IdleMcp ==
    ASSUME CacheInv, WorkerStep \/ McpStep \/ PlantStep, task[Mcp].at = "idle"
    PROVE  /\ task'[Mcp] = task[Mcp] /\ UNCHANGED config
           /\ \A d \in Devices : states[d] # NoState => states'[d] # NoState
<1>1. Threads = {Worker, Mcp} /\ Worker # Mcp
  BY CacheConfig DEF Threads
<1>2. ~McpStep
  BY DEF McpStep, RefreshStep, Read, Store, CommunicationAlarm, VariableAlarm, AppendAlarm, DeviceDone,
         PassDone, StopReturns, Reconfigure, Start
<1>3. CASE PlantStep
  BY <1>3 DEF PlantStep, PlantChanges
<1>4. CASE WorkerStep
  <2>1. CASE WorkerWakes
    BY <1>1, <2>1 DEF WorkerWakes, CacheInv, TypeOK
  <2>2. ASSUME NEW x \in Xs, Handling(Worker,
                                                                                             x) PROVE task'[Mcp] = task[Mcp] /\ UNCHANGED <<config, states>>
    BY <1>1, <2>2 DEF Handling
  <2>3. CASE CommunicationAlarm(Worker)
    BY <1>1, <2>2, <2>3, CommunicationHandled DEF Xs, CacheInv
  <2>4. ASSUME NEW v \in Variables, VariableAlarm(Worker,
                                                                                                         v) PROVE task'[Mcp] = task[Mcp] /\ UNCHANGED <<config, states>>
    BY <1>1, <2>2, <2>4, VariableHandled DEF Xs, CacheInv
  <2>5. ASSUME NEW d \in Devices, Read(Worker,
                                                                                              d) PROVE task'[Mcp] = task[Mcp] /\ UNCHANGED <<config, states>>
    BY <1>1, <2>5, ReadEffect
  <2>6. CASE Store(Worker)
    <3>1. [version |-> task[Worker].version, reads |-> task[Worker].reads] # NoState
      BY DEF NoState, CacheInv, TypeOK
    <3>2. QED
      BY <1>1, <2>6, <3>1, StoreEffect DEF CacheInv, TypeOK
  <2>7. CASE AppendAlarm(Worker)
    BY <1>1, <2>7, AppendEffect
  <2>8. CASE DeviceDone(Worker) \/ PassDone(Worker)
    BY <1>1, <2>8 DEF DeviceDone, PassDone, CacheInv, TypeOK
  <2>9. QED
    BY <1>4, <2>1, <2>3, <2>4, <2>5, <2>6, <2>7, <2>8 DEF WorkerStep, RefreshStep
<1>5. QED
  BY <1>2, <1>3, <1>4

\* What the first look finds has an alarm behind it.
LEMMA FoundListed ==
    ASSUME CacheInv, CausesOwed, NEW d \in Devices, Found(d) = "settled causes", Variables # {}
    PROVE  d \in Listed
<1>1. states[d] # NoState /\ Calm /\ PossibleCauses(d, states[d]) # {}
  BY DEF Found
<1>2. Cause(d, states[d].reads)
  <2>1. CASE ~Online(states[d])
    BY <1>1, <2>1 DEF Online, Cause, AllFailed
  <2>2. CASE Online(states[d])
    <3>1. PICK c \in {<<v, VariableContext(states[d].reads[v], config.rules[d][v])>> : v \in Variables} :
                c[2] # None
      BY <1>1, <2>2 DEF PossibleCauses
    <3>2. PICK v \in Variables : c = <<v, VariableContext(states[d].reads[v], config.rules[d][v])>>
      BY <3>1
    <3>3. VariableContext(states[d].reads[v], config.rules[d][v]) # None
      BY <3>1, <3>2
    <3>4. QED
      BY <3>3 DEF Cause
  <2>3. QED
    BY <2>1, <2>2
<1>3. \A t \in Threads : ~Owes(t, d)
  BY <1>1 DEF Calm, Owes, InRefresh
<1>4. QED
  BY <1>1, <1>2, <1>3 DEF CausesOwed, Owed

\* A diagnosis under way knows its device and what the first look found.
LEMMA DiagnosisShape ==
    ASSUME DiagnosisTypeOK, diagnosis.at \in {"state_json", "alarms"}
    PROVE  /\ diagnosis # NoDiagnosis
           /\ diagnosis \in [at : {"state_json", "alarms"}, device : Devices,
                             found : {"nothing", "state", "settled causes"}]
<1>1. diagnosis # NoDiagnosis
  BY DEF NoDiagnosis
<1>2. QED
  BY <1>1 DEF DiagnosisTypeOK, Diagnoses

\* Before the first diagnosis no cause is owed a record.
LEMMA DiagnosisInvInit == DiagnosisInit => DiagnosisInv
<1> SUFFICES ASSUME DiagnosisInit PROVE DiagnosisInv
  OBVIOUS
<1>1. CacheInv
  BY CacheInit DEF DiagnosisInit
<1>2. DiagnosisTypeOK /\ Answering
  BY <1>1 DEF DiagnosisInit, DiagnosisTypeOK, Diagnoses, Answering, CacheInv
<1>3. CausesOwed
  BY DEF DiagnosisInit, Init, CausesOwed
<1>4. QED
  BY <1>1, <1>2, <1>3 DEF DiagnosisInv

\* The steps of a diagnosis and those of the cache keep what Answering says.
LEMMA DiagnosisInvNext == DiagnosisInv /\ [DiagnosisNext]_diagnosisVars => DiagnosisInv'
<1> SUFFICES ASSUME DiagnosisInv, [DiagnosisNext]_diagnosisVars PROVE DiagnosisInv'
  OBVIOUS
<1>1. CacheInv'
  BY CacheUnderDiagnosis, CacheNext DEF DiagnosisInv
<1>2. TypeOK'
  BY <1>1 DEF CacheInv
<1>3. ASSUME UNCHANGED <<vars, logged, refused>> PROVE CausesOwed' /\ Listed' = Listed
  BY <1>3 DEF DiagnosisInv, CausesOwed, Owed, Owes, Cause, Listed, InRefresh, vars
<1>4. CASE \E d \in Devices : Diagnose(d)
  <2>1. PICK d \in Devices : Diagnose(d)
    BY <1>4
  <2>2. /\ diagnosis' = [at |-> "state_json", device |-> d, found |-> Found(d)]
        /\ task[Mcp].at = "idle" /\ d \in config.devices /\ UNCHANGED <<vars, logged,
                                                                        refused, cleared>>
    BY <2>1 DEF Diagnose
  <2>3. Found(d) \in {"nothing", "state", "settled causes"} /\ (Found(d) # "nothing" => states[d] # NoState)
    BY DEF Found
  <2>4. DiagnosisTypeOK'
    BY <1>2, <2>2, <2>3 DEF DiagnosisInv, DiagnosisTypeOK, Diagnoses, vars
  <2>5. Answering'
    BY <1>3, <2>2, <2>3, FoundListed DEF DiagnosisInv, Answering, vars
  <2>6. QED
    BY <1>1, <1>3, <2>2, <2>4, <2>5 DEF DiagnosisInv
<1>5. CASE DiagnosisStep
  <2>1. /\ UNCHANGED <<vars, logged, refused, cleared>>
        /\ \/ diagnosis' = NoDiagnosis
           \/ diagnosis.at = "state_json" /\ diagnosis' = [diagnosis EXCEPT !.at = "alarms"]
    BY <1>5 DEF DiagnosisStep, StateJson, QueryAlarms
  <2>2. \/ diagnosis' = NoDiagnosis
        \/ /\ diagnosis # NoDiagnosis /\ diagnosis' \in Diagnoses
           /\ diagnosis'.device = diagnosis.device /\ diagnosis'.found = diagnosis.found
    <3>1. CASE diagnosis.at = "state_json" /\ diagnosis' = [diagnosis EXCEPT !.at = "alarms"]
      <4>1. /\ diagnosis # NoDiagnosis
            /\ diagnosis \in [at : {"state_json", "alarms"}, device : Devices,
                              found : {"nothing", "state", "settled causes"}]
        BY <3>1, DiagnosisShape DEF DiagnosisInv
      <4>2. /\ diagnosis' \in [at : {"state_json", "alarms"}, device : Devices,
                               found : {"nothing", "state", "settled causes"}]
            /\ diagnosis'.device = diagnosis.device /\ diagnosis'.found = diagnosis.found
        BY <3>1, <4>1
      <4>3. QED
        BY <4>1, <4>2 DEF Diagnoses
    <3>2. QED
      BY <2>1, <3>1
  <2>3. DiagnosisTypeOK'
    <3>1. diagnosis' \in Diagnoses
      BY <2>2 DEF Diagnoses
    <3>2. QED
      BY <1>2, <2>1, <2>2, <3>1 DEF DiagnosisInv, DiagnosisTypeOK, vars
  <2>4. Answering'
    <3>1. Listed' = Listed /\ states' = states
      BY <1>3, <2>1 DEF vars
    <3>2. CASE diagnosis' = NoDiagnosis
      BY <3>2 DEF Answering
    <3>3. CASE /\ diagnosis # NoDiagnosis
               /\ diagnosis'.device = diagnosis.device /\ diagnosis'.found = diagnosis.found
      BY <3>1, <3>3 DEF DiagnosisInv, Answering
    <3>4. QED
      BY <2>2, <3>2, <3>3
  <2>5. QED
    BY <1>1, <1>3, <2>1, <2>3, <2>4 DEF DiagnosisInv
<1>6. CASE OtherCall
  <2>1. diagnosis' = NoDiagnosis /\ UNCHANGED <<logged, refused>> /\ Next
    BY <1>6 DEF OtherCall, Next
  <2>2. cleared' \subseteq Keys
    BY <1>6 DEF OtherCall, DiagnosisInv, DiagnosisTypeOK
  <2>3. \A t \in Threads : ~AppendAlarm(t)
    <3>1. ClientStep
      BY <1>6 DEF OtherCall
    <3>2. stored' \subseteq stored /\ (\A u \in Threads : task[u].at = "append" => task'[u] = task[u])
      <4>1. CASE \E k \in Keys : ClearCachedAlarm(k)
        BY <4>1 DEF ClearCachedAlarm
      <4>2. CASE RequestStop \/ \E todo \in {{d} : d \in config.devices} \cup {config.devices} : Refresh(todo)
        BY <4>2 DEF RequestStop, Refresh, Goto, DiagnosisInv, CacheInv, TypeOK, Threads
      <4>3. QED
        BY <3>1, <4>1, <4>2 DEF ClientStep
    <3>3. QED
      BY <3>2, AppendEffect DEF DiagnosisInv
  <2>4. CausesOwed'
    BY <2>1, <2>3, OwedStep DEF DiagnosisInv
  <2>5. QED
    BY <1>1, <1>2, <2>1, <2>2, <2>4 DEF DiagnosisInv, DiagnosisTypeOK, Diagnoses, Answering
<1>7. CASE CacheStep
  <2>1. /\ WorkerStep \/ McpStep \/ PlantStep
        /\ Next /\ UNCHANGED diagnosis
        /\ \/ \E t \in Threads : AppendAlarm(t) /\ AppendOutcome(t)
           \/ (\A t \in Threads : ~AppendAlarm(t)) /\ UNCHANGED <<logged, refused>>
    <3>1. ASSUME NEW t \in Threads, AppendAlarm(t), AppendOutcome(t) PROVE WorkerStep \/ McpStep
      BY <3>1 DEF WorkerStep, McpStep, RefreshStep, Threads
    <3>2. ASSUME ~\E t \in Threads : task[t].at = "append" /\ task'[t].at # "append"
          PROVE  \A t \in Threads : ~AppendAlarm(t)
      BY <3>2, AppendEffect DEF DiagnosisInv
    <3>3. QED
      BY <1>7, <3>1, <3>2 DEF CacheStep, Next
  <2>2. CausesOwed' /\ Listed \subseteq Listed'
    BY <2>1, OwedStep DEF DiagnosisInv
  <2>3. cleared' \subseteq Keys /\ logged' \subseteq Devices /\ refused' \subseteq Devices
    <3>1. cleared' \subseteq Keys
      BY <1>7 DEF CacheStep, DiagnosisInv, DiagnosisTypeOK
    <3>2. ASSUME NEW t \in Threads, AppendAlarm(t), AppendOutcome(t)
          PROVE  logged' \subseteq Devices /\ refused' \subseteq Devices
      BY <3>2, AppendEffect DEF AppendOutcome, DiagnosisInv, DiagnosisTypeOK
    <3>3. QED
      BY <2>1, <3>1, <3>2 DEF DiagnosisInv, DiagnosisTypeOK
  <2>4. diagnosis # NoDiagnosis => /\ diagnosis.device \in Devices /\ task'[Mcp] = task[Mcp] /\ UNCHANGED config
                                   /\ \A d \in Devices : states[d] # NoState => states'[d] # NoState
    BY <2>1, IdleMcp DEF DiagnosisInv, DiagnosisTypeOK, Diagnoses
  <2>5. DiagnosisTypeOK'
    BY <1>2, <2>1, <2>3, <2>4 DEF DiagnosisInv, DiagnosisTypeOK
  <2>6. Answering'
    BY <2>1, <2>2, <2>4 DEF DiagnosisInv, Answering
  <2>7. QED
    BY <1>1, <2>2, <2>5, <2>6 DEF DiagnosisInv
<1>8. CASE UNCHANGED diagnosisVars
  <2>1. UNCHANGED <<vars, diagnosis, logged, refused, cleared>>
    BY <1>8 DEF diagnosisVars
  <2>2. DiagnosisTypeOK' /\ Answering'
    BY <1>2, <1>3, <2>1 DEF DiagnosisInv, DiagnosisTypeOK, Answering, vars
  <2>3. QED
    BY <1>1, <1>3, <2>1, <2>2 DEF DiagnosisInv
<1>9. QED
  BY <1>4, <1>5, <1>6, <1>7, <1>8 DEF DiagnosisNext

\* So the invariant of the diagnosis holds throughout.
LEMMA DiagnosisInvariance == DiagnosisSpec => []DiagnosisInv
<1>1. QED
  BY DiagnosisInvInit, DiagnosisInvNext, PTL DEF DiagnosisSpec

\* The state that the first look found is still there at the second: the worker
\* only replaces states, and only the thread of the diagnosis resets the cache.
THEOREM LooksFit == DiagnosisSpec => LooksFitTogether
<1>1. DiagnosisInv /\ [DiagnosisNext]_diagnosisVars
      => [diagnosis.at = "state_json" /\ diagnosis'.at = "alarms" /\ diagnosis.found # "nothing"
          => states[diagnosis.device] # NoState]_diagnosisVars
  BY DiagnosisShape DEF DiagnosisInv, Answering
<1>2. QED
  BY <1>1, DiagnosisInvariance, PTL DEF DiagnosisSpec, LooksFitTogether

\* A cause that a diagnosis names on a settled state has an alarm record, or
\* the store refused it: of every cause some thread raised the alarm, or found
\* its signature active, and a signature is active only when its alarm has
\* been appended.
THEOREM DiagnosesAreLogged == DiagnosisSpec => DiagnosedIsLogged
<1>1. DiagnosisInv /\ [DiagnosisNext]_diagnosisVars
      => [/\ Variables # {}
          /\ diagnosis.at = "alarms" /\ diagnosis' = NoDiagnosis /\ diagnosis.found = "settled causes"
          => RecentAlarmPattern(diagnosis.device) \/ diagnosis.device \in refused]_diagnosisVars
  BY DiagnosisShape DEF DiagnosisInv, Answering, RecentAlarmPattern, Listed
<1>2. QED
  BY <1>1, DiagnosisInvariance, PTL DEF DiagnosisSpec, DiagnosedIsLogged

-----------------------------------------------------------------------------
(* Causes and alarms.                                                      *)

\* Thread t has stored its reading of device d and has yet to handle key x.
StillToDo(t, d, x) == Left(t, d, x) /\ task[t].at # "store"

\* The state from which the worker is raising alarms is the one in the cache;
\* and every signature that it has handled, and no client cleared since, is
\* the one that the cached reading calls for.
SettledFor(d) ==
    /\ InRefresh(Worker) /\ task[Worker].at # "store" /\ task[Worker].device = d
       => states[d] # NoState /\ states[d].reads = task[Worker].reads
    /\ \A x \in Xs : /\ states[d] # NoState /\ <<d, x>> \notin cleared /\ ~StillToDo(Worker, d, x)
                     /\ x \in Variables => ~AllFailed(states[d].reads)
                     => signatures[<<d, x>>] = Call(d, x, states[d].reads)

Settled == ~refreshed => \A d \in Devices : SettledFor(d)

MatchInv == RepeatInv /\ Settled

\* The classification that names causes and the one that raises alarms give a
\* reading the same severity.
LEMMA SeveritiesAgree ==
    ASSUME NEW reading, NEW rule, reading.ok
    PROVE  CauseSeverity(VariableContext(reading, rule)) = Severity(SignatureFor(reading, rule))
<1>1. CASE ~reading.numeric
  BY <1>1 DEF VariableContext, SignatureFor, CauseSeverity, Severity, None
<1>2. CASE reading.numeric /\ Above(reading.value, rule.alarm_max)
  BY <1>2 DEF VariableContext, SignatureFor, ThresholdCode, CauseSeverity, Severity
<1>3. CASE reading.numeric /\ ~Above(reading.value, rule.alarm_max) /\ Below(reading.value, rule.alarm_min)
  BY <1>3 DEF VariableContext, SignatureFor, ThresholdCode, CauseSeverity, Severity
<1>4. CASE /\ reading.numeric /\ ~Above(reading.value, rule.alarm_max) /\ ~Below(reading.value, rule.alarm_min)
           /\ Above(reading.value, rule.warn_max) 
  BY <1>4 DEF VariableContext, SignatureFor, ThresholdCode, CauseSeverity, Severity
<1>5. CASE /\ reading.numeric /\ ~Above(reading.value, rule.alarm_max) /\ ~Below(reading.value, rule.alarm_min)
           /\ ~Above(reading.value, rule.warn_max) /\ Below(reading.value, rule.warn_min)
  BY <1>5 DEF VariableContext, SignatureFor, ThresholdCode, CauseSeverity, Severity
<1>6. CASE /\ reading.numeric /\ ~Above(reading.value, rule.alarm_max) /\ ~Below(reading.value, rule.alarm_min)
           /\ ~Above(reading.value, rule.warn_max) /\ ~Below(reading.value, rule.warn_min)
  BY <1>6 DEF VariableContext, SignatureFor, ThresholdCode, CauseSeverity, Severity, None
<1>7. QED
  BY <1>1, <1>2, <1>3, <1>4, <1>5, <1>6

\* Settled signatures give what the property says.
LEMMA SettledMatches == MatchInv => CausesMatchAlarms
<1> SUFFICES ASSUME MatchInv, ~refreshed, Calm, NEW d \in config.devices, states[d] # NoState
             PROVE  LET signature(k) == IF <<d, k>> \in cleared THEN "cleared" ELSE signatures[<<d, k>>] IN
                    /\ signature(Communication) # "cleared" /\ Variables # {} =>
                         (~Online(states[d]) <=> signature(Communication) = "COMMUNICATION_ERROR")
                    /\ \A v \in Variables : Online(states[d]) /\ signature(v) # "cleared" =>
                         LET cause == VariableContext(states[d].reads[v], config.rules[d][v]) IN
                         IF ~states[d].reads[v].ok
                         THEN cause = None /\ signature(v) = "OPCUA_READ_FAILED"
                         ELSE CauseSeverity(cause) = Severity(signature(v))
  BY DEF CausesMatchAlarms
<1>1. d \in Devices
  BY DEF MatchInv, RepeatInv, CacheInv, TypeOK, Configs
<1>2. \A x : ~StillToDo(Worker, d, x)
  BY DEF Calm, StillToDo, Left, InRefresh, Threads
<1>3. \A x \in Xs : <<d, x>> \notin cleared /\ (x \in Variables => ~AllFailed(states[d].reads))
                    => signatures[<<d, x>>] = Call(d, x, states[d].reads)
  BY <1>1, <1>2 DEF MatchInv, Settled, SettledFor
<1>4. Variables # {} => (~Online(states[d]) <=> AllFailed(states[d].reads))
  BY DEF Online, AllFailed
<1>5. ASSUME <<d, Communication>> \notin cleared, Variables # {}
      PROVE  ~Online(states[d]) <=> signatures[<<d, Communication>>] = "COMMUNICATION_ERROR"
  <2>1. signatures[<<d, Communication>>] = Call(d, Communication, states[d].reads)
    BY <1>3, <1>5, ReservedKey DEF Xs
  <2>2. QED
    BY <1>4, <1>5, <2>1 DEF Call, None
<1>6. ASSUME NEW v \in Variables, Online(states[d]), <<d, v>> \notin cleared
      PROVE  IF ~states[d].reads[v].ok
             THEN /\ VariableContext(states[d].reads[v], config.rules[d][v]) = None
                  /\ signatures[<<d, v>>] = "OPCUA_READ_FAILED"
             ELSE CauseSeverity(VariableContext(states[d].reads[v], config.rules[d][v]))
                  = Severity(signatures[<<d, v>>])
  <2>1. signatures[<<d, v>>] = Call(d, v, states[d].reads)
    BY <1>3, <1>4, <1>6 DEF Xs
  <2>2. Call(d, v, states[d].reads) = SignatureFor(states[d].reads[v], config.rules[d][v])
    BY ReservedKey DEF Call
  <2>3. CASE ~states[d].reads[v].ok
    BY <2>1, <2>2, <2>3 DEF SignatureFor, VariableContext
  <2>4. CASE states[d].reads[v].ok
    BY <2>1, <2>2, <2>4, SeveritiesAgree
  <2>5. QED
    BY <2>3, <2>4
<1>7. QED
  BY <1>5, <1>6

\* The keys that a step of the cache handles.
LEMMA HandledKeys ==
    ASSUME CacheInv
    PROVE  /\ \A t \in Threads, x \in Xs : Handling(t, x) => Handled = {<<task[t].device, x>>}
           /\ \A t \in Threads : AppendAlarm(t) => Handled = {}
           /\ \A t \in Threads : Store(t) => Handled = {}
           /\ \A t \in Threads, d \in Devices : Read(t, d) => Handled = {}
           /\ Quiet \/ UNCHANGED task => Handled = {}
<1>1. ASSUME NEW t \in Threads, NEW x \in Xs, Handling(t, x) PROVE Handled = {<<task[t].device, x>>}
  <2>1. /\ \A u \in Threads : u # t => task'[u] = task[u]
        /\ task'[t].at \in {"variables", "append"} /\ <<task[t].device, x>> \in Keys
    BY <1>1, HandlingLeft DEF Handling, Keys, Xs
  <2>2. CASE x = Communication
    <3>1. task[t].at = "communication"
      BY <1>1, <2>2 DEF Handling
    <3>2. QED
      BY <2>1, <2>2, <3>1 DEF Handled
  <2>3. CASE x \in Variables
    <3>1. task[t].at = "variables" /\ x \in task[t].left /\ task'[t].left = task[t].left \ {x}
      BY <1>1, <2>3 DEF Handling
    <3>2. \A k \in Keys : k[1] = task[t].device /\ k[2] = x <=> k = <<task[t].device, x>>
      BY DEF Keys
    <3>3. QED
      BY <2>1, <3>1, <3>2 DEF Handled
  <2>4. QED
    BY <2>2, <2>3 DEF Xs
<1>2. ASSUME NEW t \in Threads, task[t].at \in {"append", "store", "pass"},
             \A u \in Threads : u # t => task'[u] = task[u]
      PROVE  Handled = {}
  BY <1>2 DEF Handled
<1>3. ASSUME Quiet \/ UNCHANGED task PROVE Handled = {}
  BY <1>3 DEF Handled, Quiet, InRefresh
<1>4. QED
  BY <1>1, <1>2, <1>3, AppendEffect, StoreEffect, ReadEffect

\* Handling a key gives it the signature that the reading calls for.
LEMMA HandlingSettles ==
    ASSUME CacheInv, NEW t \in Threads, NEW x \in Xs, Handling(t, x),
           x \in Variables => ~AllFailed(task[t].reads)
    PROVE  signatures'[<<task[t].device, x>>] = Call(task[t].device, x, task[t].reads)
<1>1. <<task[t].device, x>> \in Keys /\ signatures \in [Keys -> Codes \cup {None}]
  BY HandlingLeft DEF Keys, Xs, CacheInv, TypeOK
<1>2. QED
  BY <1>1 DEF Handling, ClearAlarmState, Xs

\* The lone worker leaves every key with the signature its reading calls for.
LEMMA SettledStep ==
    ASSUME MatchInv, DiagnosisNext
    PROVE  Settled'
<1>1. Threads = {Worker, Mcp} /\ Worker # Mcp /\ CacheInv /\ Alone
  BY CacheConfig DEF Threads, MatchInv, RepeatInv
<1> USE <1>1
<1> SUFFICES ASSUME ~refreshed' PROVE \A d \in Devices : SettledFor(d)'
  BY DEF Settled
<1>2. /\ ~refreshed
      /\ \A t \in Threads : InRefresh(t) \/ task[t].at = "pass" => t = Worker
      /\ \A d \in Devices : SettledFor(d)
  <2>1. CASE Next
    BY <2>1, AloneStep DEF MatchInv, RepeatInv, Settled
  <2>2. CASE UNCHANGED vars
    BY <2>2 DEF MatchInv, Settled, Alone, vars
  <2>3. QED
    BY <2>1, <2>2, CacheUnderDiagnosis
<1>3. ASSUME UNCHANGED <<config, states, signatures>>, cleared \subseteq cleared',
             \A d \in Devices, x \in Xs : StillToDo(Worker, d, x) => StillToDo(Worker, d, x)',
             InRefresh(Worker)' /\ task'[Worker].at # "store"
               => /\ InRefresh(Worker) /\ task[Worker].at # "store"
                  /\ task'[Worker].device = task[Worker].device /\ task'[Worker].reads = task[Worker].reads
      PROVE  \A d \in Devices : SettledFor(d)'
  BY <1>2, <1>3, SameCall DEF SettledFor
<1>4. ASSUME UNCHANGED <<config, states, signatures, task>>, cleared \subseteq cleared'
      PROVE  \A d \in Devices : SettledFor(d)'
  BY <1>3, <1>4 DEF StillToDo, Left, InRefresh
<1>5. ASSUME Quiet, cleared \subseteq cleared' PROVE \A d \in Devices : SettledFor(d)'
  <2>1. \A d \in Devices, x \in Xs : StillToDo(Worker, d, x) => StillToDo(Worker, d, x)'
    BY <1>5 DEF Quiet, StillToDo, Left, InRefresh
  <2>2. QED
    BY <1>3, <1>5, <2>1 DEF Quiet, InRefresh
<1>6. CASE (\E d \in Devices : Diagnose(d)) \/ DiagnosisStep
  BY <1>4, <1>6 DEF Diagnose, DiagnosisStep, StateJson, QueryAlarms, vars
<1>7. CASE OtherCall
  <2>1. cleared' = cleared \cup {k \in Keys : signatures[k] # None /\ signatures'[k] = None}
    BY <1>7 DEF OtherCall
  <2>2. CASE Quiet
    BY <1>5, <2>1, <2>2
  <2>3. ASSUME NEW k \in Keys, ClearCachedAlarm(k) PROVE \A d \in Devices : SettledFor(d)'
    <3>1. UNCHANGED <<config, states,
                      task>> /\ signatures' = [signatures EXCEPT ![k] = None]
      BY <2>3 DEF ClearCachedAlarm
    <3>2. ASSUME NEW d \in Devices, NEW x \in Xs, <<d, x>> \notin cleared'
          PROVE  <<d, x>> \notin cleared /\ signatures'[<<d, x>>] = signatures[<<d, x>>]
      <4>1. <<d, x>> \in Keys
        BY DEF Keys, Xs
      <4>2. QED
        BY <2>1, <3>1, <3>2, <4>1 DEF CacheInv, TypeOK
    <3>3. \A d, x : StillToDo(Worker, d, x)' = StillToDo(Worker, d, x)
      BY <3>1 DEF StillToDo, Left, InRefresh
    <3>4. InRefresh(Worker)' = InRefresh(Worker)
      BY <3>1 DEF InRefresh
    <3>5. QED
      BY <1>2, <3>1, <3>2, <3>3, <3>4, SameCall DEF SettledFor
  <2>4. QED
    BY <1>7, <2>2, <2>3, ClientKinds DEF OtherCall
<1>8. CASE CacheStep
  <2>1. /\ version' = version => cleared' = cleared \ Handled
        /\ WorkerStep \/ McpStep \/ PlantStep
    BY <1>8 DEF CacheStep, WorkerStep, McpStep, RefreshStep
  <2>2. ASSUME NEW t \in Threads, NEW d \in Devices, Read(t, d) PROVE \A e \in Devices : SettledFor(e)'
    <3>1. t = Worker /\ task[Worker].at = "pass" /\ cleared' = cleared
      BY <1>2, <2>1, <2>2, ReadEffect, HandledKeys
    <3>2. QED
      BY <1>3, <2>2, <3>1, ReadEffect DEF StillToDo, Left, InRefresh
  <2>3. ASSUME NEW t \in Threads, AppendAlarm(t) PROVE \A e \in Devices : SettledFor(e)'
    <3>1. t = Worker /\ task[Worker].at = "append" /\ cleared' = cleared
      BY <1>2, <2>1, <2>3, AppendEffect, HandledKeys DEF InRefresh
    <3>2. QED
      BY <1>3, <2>3, <3>1, AppendEffect DEF StillToDo, Left, InRefresh
  <2>4. CASE Quiet
    BY <1>5, <2>1, <2>4, HandledKeys DEF Quiet
  <2>5. CASE PlantStep
    BY <1>4, <2>1, <2>5, HandledKeys DEF PlantStep, PlantChanges
  <2>6. CASE Reconfigure
    <3>1. /\ states' = [d \in Devices |-> NoState] /\ task[Worker].at = "none" /\ task'[Worker] = task[Worker]
      BY <2>6, GotoTask DEF Reconfigure, CacheInv, TypeOK, Phases
    <3>2. QED
      BY <3>1 DEF SettledFor, InRefresh
  <2>7. ASSUME NEW t \in Threads, Store(t) PROVE \A e \in Devices : SettledFor(e)'
    <3>1. t = Worker /\ task[Worker].at = "store" /\ cleared' = cleared
      BY <1>2, <2>1, <2>7, StoreEffect, HandledKeys DEF InRefresh
    <3>0. PICK dev \in Devices : dev = task[Worker].device
      BY <2>7, <3>1, StoreEffect
    <3>2. /\ task'[Worker].at = "communication" /\ task'[Worker].device = dev
          /\ task'[Worker].left = Variables /\ task'[Worker].reads = task[Worker].reads
          /\ dev \in Devices /\ states' = [states EXCEPT ![dev] = [version |-> task[Worker].version, reads |-> task[Worker].reads]]
          /\ UNCHANGED <<config, signatures>>
      BY <2>7, <3>0, <3>1, StoreEffect
    <3>3. [version |-> task[Worker].version, reads |-> task[Worker].reads] # NoState
      BY DEF NoState
    <3>4. SettledFor(dev)'
      <4>1. \A x \in Xs : StillToDo(Worker, dev, x)'
        BY <3>2 DEF StillToDo, Left, InRefresh, Xs
      <4>2. states'[dev] # NoState /\ states'[dev].reads = task'[Worker].reads
        BY <3>2, <3>3 DEF CacheInv, TypeOK
      <4>3. QED
        BY <4>1, <4>2 DEF SettledFor
    <3>5. ASSUME NEW e \in Devices, e # dev PROVE SettledFor(e)'
      <4>1. states'[e] = states[e]
        BY <3>2, <3>5 DEF CacheInv, TypeOK
      <4>2. \A x : ~StillToDo(Worker, e, x) /\ ~StillToDo(Worker, e, x)'
        BY <3>0, <3>1, <3>2, <3>5 DEF StillToDo, Left
      <4>3. QED
        BY <1>2, <3>0, <3>1, <3>2, <3>5, <4>1, <4>2, SameCall DEF SettledFor
    <3>6. QED
      BY <3>4, <3>5
  <2>8. ASSUME NEW t \in Threads, NEW x \in Xs, Handling(t, x) PROVE \A e \in Devices : SettledFor(e)'
    <3> DEFINE dev == task[Worker].device
               k == <<dev, x>>
    <3>1. /\ t = Worker /\ InRefresh(Worker) /\ InRefresh(Worker)' /\ dev \in Devices /\ k \in Keys
          /\ task[Worker].at \in {"communication", "variables"} /\ task'[Worker].at \in {"variables", "append"}
      <4>1. InRefresh(t)
        BY <2>8, HandlingLeft
      <4>2. t = Worker
        BY <1>2, <4>1
      <4>3. QED
        BY <2>8, <4>2, HandlingLeft DEF Handling, Keys, Xs
    <3>2. /\ task'[Worker].device = dev /\ task'[Worker].reads = task[Worker].reads
          /\ UNCHANGED <<config, states, version>> /\ cleared' = cleared \ {k}
      BY <2>1, <2>8, <3>1, HandledKeys DEF Handling
    <3>3. states[dev] # NoState /\ states[dev].reads = task[Worker].reads
      BY <1>2, <3>1 DEF SettledFor
    <3>4. \A e \in Devices, y \in Xs : <<e, y>> # k => signatures'[<<e, y>>] = signatures[<<e, y>>]
      BY <2>8, <3>1 DEF Handling, ClearAlarmState, CacheInv, TypeOK, Keys, Xs
    <3>5. \A e \in Devices, y \in Xs : <<e, y>> # k /\ StillToDo(Worker, e, y) => StillToDo(Worker, e, y)'
      <4>1. CASE x = Communication
        <5>1. task'[Worker].left = Variables
          BY <2>8, <3>1, <4>1 DEF Handling
        <5>2. QED
          BY <3>1, <3>2, <4>1, <5>1 DEF StillToDo, Left, InRefresh, Xs
      <4>2. CASE x \in Variables
        <5>1. task[Worker].at = "variables" /\ task'[Worker].left = task[Worker].left \ {x}
          BY <2>8, <3>1, <4>2 DEF Handling
        <5>2. QED
          BY <3>1, <3>2, <5>1 DEF StillToDo, Left, InRefresh
      <4>3. QED
        BY <4>1, <4>2 DEF Xs
    <3>6. ASSUME NEW e \in Devices, NEW y \in Xs, states'[e] # NoState, <<e, y>> \notin cleared',
                 ~StillToDo(Worker, e, y)', y \in Variables => ~AllFailed(states'[e].reads)
          PROVE  signatures'[<<e, y>>] = Call(e, y, states'[e].reads)
      <4>1. CASE <<e, y>> # k
        BY <1>2, <3>2, <3>4, <3>5, <3>6, <4>1 DEF SettledFor
      <4>2. CASE <<e, y>> = k
        <5>1. e = dev /\ y = x
          BY <4>2
        <5>2. x \in Variables => ~AllFailed(task[Worker].reads)
          BY <3>2, <3>3, <3>6, <5>1
        <5>3. signatures'[k] = Call(dev, x, task[Worker].reads)
          BY <2>8, <3>1, <5>2, HandlingSettles
        <5>4. QED
          BY <3>2, <3>3, <5>1, <5>3
      <4>3. QED
        BY <4>1, <4>2
    <3>7. \A e, y, r : Call(e, y, r)' = Call(e, y, r)
      BY <3>2, SameCall
    <3>8. QED
      BY <3>2, <3>3, <3>6, <3>7 DEF SettledFor
  <2>9. QED
    BY <2>1, <2>2, <2>3, <2>4, <2>5, <2>6, <2>7, <2>8, ThreadKinds DEF Xs
<1>9. QED
  BY <1>6, <1>7, <1>8 DEF DiagnosisNext

\* What the diagnosis and the alarms say about a device is the same: as long as
\* the worker alone refreshes, whenever it rests, a cause is named for a key if
\* and only if an alarm of the same severity is active for it, unless a client
\* has cleared that since.
THEOREM CausesMatch == DiagnosisSpec => []CausesMatchAlarms
<1>1. DiagnosisInit => MatchInv
  <2> SUFFICES ASSUME DiagnosisInit PROVE MatchInv
    OBVIOUS
  <2>1. states = [d \in Devices |-> NoState] /\ task[Worker].at = "pass"
    BY CacheConfig DEF DiagnosisInit, Init, Threads
  <2>2. RepeatInv
    BY RepeatInit DEF DiagnosisInit
  <2>3. QED
    BY <2>1, <2>2 DEF MatchInv, Settled, SettledFor, InRefresh
<1>2. MatchInv /\ [DiagnosisNext]_diagnosisVars => MatchInv'
  <2> SUFFICES ASSUME MatchInv, [DiagnosisNext]_diagnosisVars PROVE MatchInv'
    OBVIOUS
  <2>1. RepeatInv'
    BY CacheUnderDiagnosis, RepeatStep DEF MatchInv
  <2>2. CASE UNCHANGED diagnosisVars
    <3>1. Settled'
      BY <2>2 DEF MatchInv, Settled, SettledFor, StillToDo, Left, InRefresh, Call, diagnosisVars, vars
    <3>2. QED
      BY <2>1, <3>1 DEF MatchInv
  <2>3. QED
    BY <2>1, <2>2, SettledStep DEF MatchInv
<1>3. QED
  BY <1>1, <1>2, SettledMatches, PTL DEF DiagnosisSpec
=============================================================================
