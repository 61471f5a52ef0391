----------------------- MODULE PendingOperationsProofs -----------------------
(***************************************************************************)
(* Machine-checked proofs about the two-phase confirmation, for any set of *)
(* devices and methods, any configuration contents, any lifetime and any   *)
(* number of operations.                                                   *)
(***************************************************************************)
EXTENDS PendingOperations, TLAPS

\* An entry of the map is exactly what the client was told: issued, unused,
\* not withdrawn, with the same device, method, lifetime and confirmation,
\* and for an existing method if it is for a method call.  An id that has not
\* been given out is neither pending nor issued.
Faithful ==
    \A id \in Ids :
        /\ id > operation_counter => pending[id] = NotPending /\ issued[id] = NotIssued
        /\ pending[id] # NotPending
           => /\ issued[id] \in Issue
              /\ issued[id].uses = 0
              /\ ~issued[id].withdrawn
              /\ issued[id].device = pending[id].device_id
              /\ issued[id].method = pending[id].method
              /\ pending[id].expires_at = issued[id].at + Expiry
              /\ pending[id].confirmed => issued[id].confirmed
              /\ pending[id].action = "call_device_method" => pending[id].method \in Methods

IInv == TypeOK /\ Faithful /\ OneTimeOperation

-----------------------------------------------------------------------------
\* The records that stand for "no entry" are not entries.
LEMMA Marks == NotPending \notin Operation /\ NotIssued \notin Issue
<1>1. \A o \in Operation : "device_id" \in DOMAIN o
  BY DEF Operation
<1>2. "device_id" \notin DOMAIN NotPending
  BY DEF NotPending
<1>3. \A i \in Issue : "device" \in DOMAIN i
  BY DEF Issue
<1>4. "device" \notin DOMAIN NotIssued
  BY DEF NotIssued
<1>5. QED
  BY <1>1, <1>2, <1>3, <1>4

\* A server that has issued no operation satisfies the invariant.
LEMMA InitIInv == Init => IInv
BY OperationsConfig, DeviceConfigsTyped
DEF Init, IInv, TypeOK, Faithful, OneTimeOperation, Ids, NotIssued, NotPending

\* Issuing an operation touches an id that nobody has.
LEMMA PrepareStep ==
    ASSUME IInv, NEW d \in Devices, NEW a \in Actions, NEW m \in Methods \cup {NoMethod},
           Prepare(d, a, m)
    PROVE  IInv'
<1> DEFINE id == operation_counter + 1
           o == [device_id |-> d, action |-> a, method |-> m,
                 expires_at |-> now + Expiry, confirmed |-> FALSE]
           i == [device |-> d, method |-> m, at |-> now, confirmed |-> FALSE,
                 withdrawn |-> FALSE, uses |-> 0]
<1>1. id \in Ids /\ operation_counter' = id /\ operation_counter \in Nat
  BY OperationsConfig DEF IInv, TypeOK, Prepare, Ids
<1>2. o \in Operation /\ i \in Issue
  BY OperationsConfig DEF IInv, TypeOK, Operation, Issue
<1>3. pending' = [pending EXCEPT ![id] = o] /\ issued' = [issued EXCEPT ![id] = i]
  BY DEF Prepare
<1>4. UNCHANGED <<config, now, last>>
  BY DEF Prepare
<1>5. a = "call_device_method" => m \in Methods
  BY DEF Prepare
<1> HIDE DEF id
<1>6. TypeOK'
  BY <1>1, <1>2, <1>3, <1>4 DEF IInv, TypeOK, Ids
<1>7. Faithful'
  <2> SUFFICES ASSUME NEW k \in Ids
               PROVE  /\ k > id => pending'[k] = NotPending /\ issued'[k] = NotIssued
                      /\ pending'[k] # NotPending
                         => /\ issued'[k] \in Issue
                            /\ issued'[k].uses = 0
                            /\ ~issued'[k].withdrawn
                            /\ issued'[k].device = pending'[k].device_id
                            /\ issued'[k].method = pending'[k].method
                            /\ pending'[k].expires_at = issued'[k].at + Expiry
                            /\ pending'[k].confirmed => issued'[k].confirmed
                            /\ pending'[k].action = "call_device_method"
                               => pending'[k].method \in Methods
    BY <1>1 DEF Faithful
  <2>1. CASE k = id
    <3>1. pending'[k] = o /\ issued'[k] = i
      BY <2>1, <1>1, <1>3 DEF IInv, TypeOK
    <3>2. ~(k > id)
      BY <2>1, <1>1 DEF Ids
    <3>3. i.uses = 0 /\ ~i.withdrawn /\ i.device = o.device_id /\ i.method = o.method
      OBVIOUS
    <3>4. o.expires_at = i.at + Expiry /\ ~o.confirmed
      OBVIOUS
    <3>5. o.action = "call_device_method" => o.method \in Methods
      BY <1>5
    <3> HIDE DEF o, i
    <3>6. QED
      BY <3>1, <3>2, <3>3, <3>4, <3>5, <1>2
  <2>2. CASE k # id
    <3>1. pending'[k] = pending[k] /\ issued'[k] = issued[k]
      BY <2>2, <1>3 DEF IInv, TypeOK
    <3>2. k > id => k > operation_counter
      BY <1>1 DEF id, Ids
    <3>3. QED
      BY <3>1, <3>2 DEF IInv, Faithful
  <2>3. QED
    BY <2>1, <2>2
<1>8. OneTimeOperation'
  BY <1>1, <1>3 DEF IInv, TypeOK, OneTimeOperation
<1>9. QED
  BY <1>6, <1>7, <1>8 DEF IInv

\* A step that rewrites one entry and its history, keeping them in agreement.
LEMMA UpdateStep ==
    ASSUME IInv, NEW id \in Ids, UNCHANGED <<config, now, operation_counter>>,
           last' \in Invocation \cup {NoInvocation},
           pending[id] # NotPending,
           NEW o, pending' = [pending EXCEPT ![id] = o],
           NEW i, issued' = [issued EXCEPT ![id] = i],
           o \in Operation \cup {NotPending}, i \in Issue, i.uses <= 1,
           o # NotPending => /\ i.uses = 0 /\ ~i.withdrawn
                             /\ i.device = o.device_id /\ i.method = o.method
                             /\ o.expires_at = i.at + Expiry
                             /\ o.confirmed => i.confirmed
                             /\ o.action = "call_device_method" => o.method \in Methods
    PROVE  IInv'
<1>1. TypeOK'
  BY DEF IInv, TypeOK
<1>2. /\ pending'[id] = o /\ issued'[id] = i
      /\ \A k \in Ids : k # id => pending'[k] = pending[k] /\ issued'[k] = issued[k]
      /\ ~(id > operation_counter)
  BY DEF IInv, TypeOK, Faithful
<1>3. Faithful'
  BY <1>2 DEF IInv, Faithful
<1>4. OneTimeOperation'
  BY <1>2 DEF IInv, OneTimeOperation
<1>5. QED
  BY <1>1, <1>3, <1>4 DEF IInv

\* An entry of the map and its history.
LEMMA EntryShape ==
    ASSUME IInv, NEW id \in Ids, pending[id] # NotPending
    PROVE  /\ pending[id] \in Operation /\ issued[id] \in Issue
           /\ issued[id].uses = 0 /\ ~issued[id].withdrawn
           /\ issued[id].device = pending[id].device_id
           /\ issued[id].method = pending[id].method
           /\ pending[id].expires_at = issued[id].at + Expiry
           /\ pending[id].confirmed => issued[id].confirmed
           /\ pending[id].action = "call_device_method" => pending[id].method \in Methods
BY DEF IInv, TypeOK, Faithful

\* Confirming an operation rewrites its entry and its history together.
LEMMA ConfirmStep ==
    ASSUME IInv, NEW id \in Ids, Confirm(id)
    PROVE  IInv'
<1> DEFINE p == pending[id]
           q == issued[id]
           o == [p EXCEPT !.confirmed = TRUE]
           i == [q EXCEPT !.confirmed = TRUE]
<1>1. p # NotPending /\ pending' = [pending EXCEPT ![id] = o]
      /\ issued' = [issued EXCEPT ![id] = i]
      /\ UNCHANGED <<config, now, operation_counter, last>>
  BY DEF Confirm, IsPending
<1>2. /\ p \in Operation /\ q \in Issue
      /\ q.uses = 0 /\ ~q.withdrawn /\ q.device = p.device_id /\ q.method = p.method
      /\ p.expires_at = q.at + Expiry
      /\ p.action = "call_device_method" => p.method \in Methods
  BY <1>1, EntryShape
<1> HIDE DEF p, q
<1>3. /\ o \in Operation
      /\ o.device_id = p.device_id /\ o.method = p.method /\ o.action = p.action
      /\ o.expires_at = p.expires_at
  BY <1>2 DEF Operation
<1>4. /\ i \in Issue
      /\ i.device = q.device /\ i.method = q.method /\ i.at = q.at /\ i.uses = q.uses
      /\ ~i.withdrawn /\ i.confirmed
  BY <1>2 DEF Issue
<1> HIDE DEF o, i
<1>5. QED
  <2>1. last' \in Invocation \cup {NoInvocation}
    BY <1>1 DEF IInv, TypeOK
  <2>2. pending[id] # NotPending
    BY <1>1 DEF p
  <2>3. /\ UNCHANGED <<config, now, operation_counter>>
        /\ pending' = [pending EXCEPT ![id] = o] /\ issued' = [issued EXCEPT ![id] = i]
    BY <1>1
  <2>4. o \in Operation \cup {NotPending} /\ i \in Issue /\ i.uses <= 1
    BY <1>2, <1>3, <1>4
  <2>5. /\ i.uses = 0 /\ ~i.withdrawn
        /\ i.device = o.device_id /\ i.method = o.method
        /\ o.expires_at = i.at + Expiry
        /\ o.confirmed => i.confirmed
        /\ o.action = "call_device_method" => o.method \in Methods
    BY <1>2, <1>3, <1>4
  <2>6. QED
    BY <2>1, <2>2, <2>3, <2>4, <2>5, UpdateStep

\* Erasing an entry: expiry, cancellation, use.
LEMMA EraseStep ==
    ASSUME IInv, NEW id \in Ids,
           \/ DropExpired(id)
           \/ Cancel(id)
           \/ \E d \in Devices, m \in Methods : CallGuarded(d, m, id)
    PROVE  IInv'
<1>1. /\ pending[id] # NotPending
      /\ pending' = [pending EXCEPT ![id] = NotPending]
      /\ UNCHANGED <<config, now, operation_counter>>
      /\ last' \in Invocation \cup {NoInvocation}
  BY DEF IInv, TypeOK, DropExpired, Cancel, CallGuarded, IsPending, Consumed, Invocation
<1>2. issued[id] \in Issue /\ issued[id].uses = 0
  BY <1>1, EntryShape
<1>3. PICK i \in Issue : i.uses <= 1 /\ issued' = [issued EXCEPT ![id] = i]
  <2>1. CASE DropExpired(id)
    BY <2>1, <1>2 DEF DropExpired, IInv, TypeOK
  <2>2. CASE Cancel(id)
    <3> DEFINE j == [issued[id] EXCEPT !.withdrawn = TRUE]
    <3>1. j \in Issue /\ j.uses = issued[id].uses
      BY <1>2 DEF Issue
    <3>2. issued' = [issued EXCEPT ![id] = j]
      BY <2>2 DEF Cancel
    <3> HIDE DEF j
    <3>3. j.uses <= 1
      BY <3>1, <1>2
    <3>4. QED
      BY <3>1, <3>2, <3>3, Zenon
  <2>3. CASE \E d \in Devices, m \in Methods : CallGuarded(d, m, id)
    <3> DEFINE j == [issued[id] EXCEPT !.uses = issued[id].uses + 1]
    <3>1. j \in Issue /\ j.uses = 1
      BY <1>2 DEF Issue
    <3>2. issued' = [issued EXCEPT ![id] = j]
      BY <2>3 DEF CallGuarded
    <3> HIDE DEF j
    <3>3. j.uses <= 1
      BY <3>1
    <3>4. QED
      BY <3>1, <3>2, <3>3, Zenon
  <2>4. QED
    BY <2>1, <2>2, <2>3
<1>4. QED
  BY <1>1, <1>3, UpdateStep

\* A configuration change empties the map.
LEMMA ClearStep ==
    ASSUME IInv, config' \in [Devices -> DeviceConfig], pending' = NoPending,
           issued' = Withdrawn, UNCHANGED <<now, operation_counter, last>>
    PROVE  IInv'
<1>1. ASSUME NEW k \in Ids
      PROVE  /\ issued'[k] \in Issue \cup {NotIssued}
             /\ issued'[k].uses <= 1
             /\ k > operation_counter => issued'[k] = NotIssued
  <2>1. CASE IsPending(k)
    <3>1. issued[k] \in Issue /\ issued[k].uses = 0 /\ ~(k > operation_counter)
      BY <2>1, EntryShape DEF IsPending, IInv, Faithful
    <3>2. /\ [issued[k] EXCEPT !.withdrawn = TRUE] \in Issue
          /\ [issued[k] EXCEPT !.withdrawn = TRUE].uses = issued[k].uses
      BY <3>1 DEF Issue
    <3>3. issued'[k] = [issued[k] EXCEPT !.withdrawn = TRUE]
      BY <2>1 DEF Withdrawn
    <3>4. QED
      BY <3>1, <3>2, <3>3
  <2>2. CASE ~IsPending(k)
    BY <2>2 DEF Withdrawn, IInv, TypeOK, Faithful, OneTimeOperation
  <2>3. QED
    BY <2>1, <2>2
<1>2. DOMAIN issued' = Ids /\ issued' = [k \in Ids |-> issued'[k]]
  BY DEF Withdrawn
<1>3. TypeOK'
  BY <1>1, <1>2 DEF IInv, TypeOK, NoPending
<1>4. Faithful' /\ OneTimeOperation'
  BY <1>1 DEF Faithful, OneTimeOperation, NoPending
<1>5. QED
  BY <1>3, <1>4 DEF IInv

\* A changed section is a section.
LEMMA SectionTyped ==
    ASSUME IInv, NEW d \in Devices, NEW section \in Sections(d)
    PROVE  section \in DeviceConfig
BY DeviceConfigsTyped DEF IInv, TypeOK, Sections, DeviceConfig, DeviceStatus

\* Every tool call, configuration change and tick keeps the invariant.
LEMMA NextIInv == IInv /\ [Next]_vars => IInv'
<1> SUFFICES ASSUME IInv, [Next]_vars PROVE IInv'
  OBVIOUS
<1>1. CASE UNCHANGED vars
  BY <1>1 DEF vars, IInv, TypeOK, Faithful, OneTimeOperation
<1>2. ASSUME NEW d \in Devices, NEW m \in Methods, CallFree(d, m) PROVE IInv'
  BY <1>2 DEF CallFree, IInv, TypeOK, Faithful, OneTimeOperation, Invocation
<1>3. ASSUME NEW d \in Devices, NEW section \in Sections(d), ChangeDevice(d, section)
      PROVE  IInv'
  <2>1. section \in DeviceConfig
    BY SectionTyped
  <2>2. config' \in [Devices -> DeviceConfig]
    BY <1>3, <2>1 DEF ChangeDevice, IInv, TypeOK
  <2>3. QED
    BY <1>3, <2>2, ClearStep DEF ChangeDevice
<1>4. CASE Reload
  <2>1. config' \in [Devices -> DeviceConfig]
    BY <1>4, DeviceConfigsTyped DEF Reload
  <2>2. QED
    BY <1>4, <2>1, ClearStep DEF Reload
<1>5. CASE Tick
  BY <1>5 DEF Tick, IInv, TypeOK, Faithful, OneTimeOperation
<1>6. QED
  BY <1>1, <1>2, <1>3, <1>4, <1>5, PrepareStep, ConfirmStep, EraseStep DEF Next

-----------------------------------------------------------------------------
\* The inductive invariant holds in every reachable state.
THEOREM Invariance == Spec => []IInv
BY InitIInv, NextIInv, PTL DEF Spec

\* The state of the confirmation protocol is well typed.
THEOREM TypeCorrect == Spec => []TypeOK
<1>1. IInv => TypeOK
  BY DEF IInv
<1>2. QED
  BY <1>1, Invariance, PTL

\* An operation_id leads to at most one invocation.
THEOREM OperationsAreOneTime == Spec => []OneTimeOperation
<1>1. IInv => OneTimeOperation
  BY DEF IInv
<1>2. QED
  BY <1>1, Invariance, PTL

\* A guarded method is invoked only under a confirmed, live, unwithdrawn
\* operation for the same device and method.
THEOREM InvocationsAreApproved == Spec => InvocationApproved
<1> DEFINE Approved ==
      /\ last' # last /\ config[last'.device].method[last'.method] = "guarded"
         => last'.id \in Ids /\ issued'[last'.id].uses # issued[last'.id].uses
      /\ \A id \in Ids :
           issued'[id].uses # issued[id].uses
           => /\ issued[id].confirmed
              /\ ~issued[id].withdrawn
              /\ now <= issued[id].at + Expiry
              /\ issued[id].device = last'.device
              /\ issued[id].method = last'.method
              /\ Callable(last'.device, last'.method)
<1>1. IInv /\ [Next]_vars => [Approved]_vars
  <2> SUFFICES ASSUME IInv, Next PROVE Approved
    OBVIOUS
  <2>1. ASSUME last' = last, \A id \in Ids : issued'[id].uses = issued[id].uses
        PROVE  Approved
    BY <2>1
  <2>2. ASSUME NEW d \in Devices, NEW a \in Actions, NEW m \in Methods \cup {NoMethod},
               Prepare(d, a, m)
        PROVE  Approved
    <3>1. operation_counter + 1 \in Ids /\ operation_counter + 1 > operation_counter
      BY <2>2, OperationsConfig DEF IInv, TypeOK, Prepare, Ids
    <3>2. issued[operation_counter + 1] = NotIssued
      BY <3>1 DEF IInv, Faithful
    <3>3. \A id \in Ids : issued'[id].uses = issued[id].uses
      BY <2>2, <3>1, <3>2 DEF IInv, TypeOK, Prepare, NotIssued
    <3>4. QED
      BY <2>1, <2>2, <3>3 DEF Prepare
  <2>3. ASSUME NEW id \in Ids, Confirm(id) \/ Cancel(id) PROVE Approved
    <3>1. issued[id] \in Issue
      BY <2>3, EntryShape DEF Confirm, Cancel, IsPending
    <3>2. \A k \in Ids : issued'[k].uses = issued[k].uses
      BY <2>3, <3>1 DEF IInv, TypeOK, Confirm, Cancel, Issue
    <3>3. QED
      BY <2>1, <2>3, <3>2 DEF Confirm, Cancel
  <2>4. ASSUME NEW id \in Ids, DropExpired(id) PROVE Approved
    BY <2>1, <2>4 DEF DropExpired
  <2>5. ASSUME NEW d \in Devices, NEW m \in Methods, CallFree(d, m) PROVE Approved
    BY <2>5 DEF CallFree
  <2>6. ASSUME NEW d \in Devices, NEW m \in Methods, NEW id \in Ids, CallGuarded(d, m, id)
        PROVE  Approved
    <3>1. /\ pending[id] # NotPending /\ pending[id].confirmed
          /\ ~(now > pending[id].expires_at)
          /\ pending[id].device_id = d /\ pending[id].action = "call_device_method"
          /\ pending[id].method \in {m, NoMethod}
          /\ last' = [device |-> d, method |-> m, id |-> id]
          /\ issued' = [issued EXCEPT ![id] = [issued[id] EXCEPT !.uses = issued[id].uses + 1]]
          /\ Callable(d, m)
      BY <2>6 DEF CallGuarded, IsPending, Expired, Matches, Callable
    <3>2. /\ pending[id] \in Operation /\ issued[id] \in Issue
          /\ issued[id].uses = 0 /\ ~issued[id].withdrawn /\ issued[id].confirmed
          /\ issued[id].device = d /\ issued[id].method = pending[id].method
          /\ pending[id].expires_at = issued[id].at + Expiry
          /\ pending[id].method \in Methods
      BY <3>1, EntryShape
    <3>3. issued[id].method = m
      BY <3>1, <3>2, OperationsConfig
    <3>4. now <= issued[id].at + Expiry
      BY <3>1, <3>2, OperationsConfig DEF IInv, TypeOK, Issue
    <3>5. /\ issued'[id].uses = 1
          /\ \A k \in Ids : k # id => issued'[k] = issued[k]
      BY <3>1, <3>2 DEF IInv, TypeOK, Issue
    <3>6. QED
      BY <3>1, <3>2, <3>3, <3>4, <3>5
  <2>7. ASSUME issued' = Withdrawn, last' = last PROVE Approved
    <3>1. ASSUME NEW k \in Ids PROVE issued'[k].uses = issued[k].uses
      <4>1. CASE IsPending(k)
        BY <2>7, <4>1, EntryShape DEF IsPending, Withdrawn, Issue
      <4>2. CASE ~IsPending(k)
        BY <2>7, <4>2 DEF Withdrawn
      <4>3. QED
        BY <4>1, <4>2
    <3>2. QED
      BY <2>1, <2>7, <3>1
  <2>8. CASE Tick
    BY <2>1, <2>8 DEF Tick
  <2>9. QED
    BY <2>2, <2>3, <2>4, <2>5, <2>6, <2>7, <2>8 DEF Next, ChangeDevice, Reload
<1>2. QED
  BY <1>1, Invariance, PTL DEF Spec, InvocationApproved

=============================================================================
