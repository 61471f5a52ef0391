-------------------------- MODULE HttpServerProofs --------------------------
(***************************************************************************)
(* HandlerSafe for every number of servers and every backlog.  It is not   *)
(* inductive: the destructor goes from server to server, so the invariant  *)
(* has to say which threads have ended already (Progress), and the types   *)
(* need to know which have not been started and that a thread about to     *)
(* accept has something to accept (Waiting).                               *)
(*                                                                         *)
(* The handlers of HealthViews keep this because they implement the        *)
(* servers; that their answers match the configuration needs an invariant  *)
(* of its own, ViewInv, which says what each walk has seen so far and what *)
(* is known of each device.                                                *)
(***************************************************************************)
EXTENDS HealthViews, FiniteSetTheorems, SequenceTheorems, TLAPS

Over(s) == serve[s] \in {"none", "ended"}

Progress == /\ main.at = "starting" => \A s \in Servers : s >= main.server => serve[s] = "none"
            /\ main.at = "starting" => main.server > 0
            /\ main.at \in {"stopping", "joining"} => \A s \in Servers : s > main.server => Over(s)
            /\ main.at \in {"stopping", "joining"} => main.server <= NumServers
            /\ main.at = "joining" => main.server > 0
            /\ main.at = "destroyed" => \A s \in Servers : Over(s)

Waiting == \A s \in Servers : serve[s] = "accept" => backlog[s] > 0

IInv == TypeOK /\ Progress /\ Waiting

\* Before anything has been started the invariant holds.
LEMMA InitIInv == Init => IInv
  BY ServerConfig DEF Init, IInv, TypeOK, Progress, Waiting, Over, Servers, MainSteps, ServeSteps, Connected

\* The main thread keeps the invariant: it starts threads where there were
\* none, and goes on from one server to the next only when its thread has ended.
LEMMA MainKeepsIInv == IInv /\ (MainStep \/ InputEnds) => IInv'
<1> SUFFICES ASSUME IInv, MainStep \/ InputEnds PROVE IInv'
  OBVIOUS
<1> USE ServerConfig DEF IInv, TypeOK, Progress, Waiting, Over, Servers, MainSteps, ServeSteps, Connected
<1>1. ASSUME NEW hasPort \in BOOLEAN, Start(hasPort) PROVE IInv'
  <2> USE <1>1 DEF Start
  <2>1. serve[main.server] = "none" /\ main.server \in Servers
    OBVIOUS
  <2>2. TypeOK'
    <3>1. main' \in [at : MainSteps, server : 0 .. NumServers + 1]
      <4>1. main.server + 1 \in 0 .. NumServers + 1
        BY <2>1
      <4>2. QED
        BY <4>1
    <3>2. running' \in [Servers -> BOOLEAN]
      OBVIOUS
    <3>3. serve' \in [Servers -> ServeSteps]
      OBVIOUS
    <3>4. \A s \in Servers : client'[s] # "none" <=> serve'[s] \in Connected
      BY <2>1
    <3>5. QED
      BY <3>1, <3>2, <3>3, <3>4
  <2>3. Progress'
    BY <2>1
  <2>4. Waiting'
    BY <2>1
  <2>5. QED
    BY <2>2, <2>3, <2>4
<1>2. CASE Constructed
  BY <1>2 DEF Constructed
<1>3. CASE InputEnds
  BY <1>3 DEF InputEnds
<1>4. CASE Stop
  BY <1>4 DEF Stop, FlagCleared
<1>5. CASE Join
  BY <1>5 DEF Join, Joined
<1>6. CASE Destroy
  <2>1. /\ main.at = "stopping" /\ main.server = 0
        /\ main' = [main EXCEPT !.at = "destroyed"]
        /\ UNCHANGED <<running, serve, backlog, client>>
    BY <1>6 DEF Destroy
  <2>2. main' = [at |-> "destroyed", server |-> 0]
    BY <2>1
  <2>3. TypeOK' /\ Waiting'
    BY <2>1, <2>2
  <2>4. \A s \in Servers : Over(s)
    BY <2>1
  <2>5. Progress'
    BY <2>1, <2>2, <2>4
  <2>6. QED
    BY <2>3, <2>5
<1>7. QED
  BY <1>1, <1>2, <1>3, <1>4, <1>5, <1>6 DEF MainStep

\* A serving thread keeps the invariant: once it has ended, or if it was never
\* started, it takes no step.
LEMMA ServeKeepsIInv ==
    ASSUME NEW s \in Servers
    PROVE  IInv /\ (ServeStep(s) \/ Killed(s) \/ ClientStep(s)) => IInv'
<1> SUFFICES ASSUME IInv, ServeStep(s) \/ Killed(s) \/ ClientStep(s) PROVE IInv'
  OBVIOUS
<1> USE ServerConfig DEF IInv, TypeOK, Progress, Waiting, Over, Servers, MainSteps, ServeSteps, Connected, Goto
<1>1. CASE StartupFails(s)
  BY <1>1 DEF StartupFails
<1>2. CASE Listens(s)
  BY <1>2 DEF Listens
<1>3. CASE LoopTop(s)
  <2> USE <1>3 DEF LoopTop
  <2>1. CASE running[s]
    BY <2>1
  <2>2. CASE ~running[s]
    <3>1. TypeOK'
      <4>1. serve' \in [Servers -> ServeSteps] /\ backlog' \in [Servers -> 0 .. MaxBacklog]
        BY <2>2
      <4>2. client[s] = "none" /\ \A u \in Servers : client'[u] # "none" <=> serve'[u] \in Connected
        BY <2>2
      <4>3. QED
        BY <4>1, <4>2
    <3>2. Progress'
      BY <2>2
    <3>3. Waiting'
      BY <2>2
    <3>4. QED
      BY <3>1, <3>2, <3>3
  <2>3. QED
    BY <2>1, <2>2
<1>4. CASE Select(s)
  BY <1>4 DEF Select, SelectReturns
<1>5. CASE AcceptConnection(s)
  BY <1>5 DEF AcceptConnection
<1>6. CASE AcceptFails(s)
  <2> USE <1>6 DEF AcceptFails
  <2>1. TypeOK'
    <3>1. backlog[s] - 1 \in 0 .. MaxBacklog
      OBVIOUS
    <3>2. serve' \in [Servers -> ServeSteps] /\ backlog' \in [Servers -> 0 .. MaxBacklog]
      BY <3>1
    <3>3. client[s] = "none" /\ \A u \in Servers : client'[u] # "none" <=> serve'[u] \in Connected
      OBVIOUS
    <3>4. QED
      BY <3>2, <3>3
  <2>2. Progress'
    OBVIOUS
  <2>3. Waiting'
    OBVIOUS
  <2>4. QED
    BY <2>1, <2>2, <2>3
<1>7. CASE Recv(s)
  <2> USE <1>7 DEF Recv
  <2>1. CASE client[s] # "closed"
    BY <2>1
  <2>2. CASE client[s] = "closed"
    <3>1. TypeOK'
      BY <2>2
    <3>2. Progress'
      BY <2>2
    <3>3. Waiting'
      BY <2>2
    <3>4. QED
      BY <3>1, <3>2, <3>3
  <2>3. QED
    BY <2>1, <2>2
<1>8. CASE Handle(s)
  BY <1>8 DEF Handle
<1>9. CASE Send(s)
  BY <1>9 DEF Send, CloseClient
<1>10. CASE Killed(s)
  <2>1. /\ main' = [main EXCEPT !.at = "killed"]
        /\ running' = [r \in Servers |-> FALSE]
        /\ serve' = [r \in Servers |-> "none"]
        /\ backlog' = [r \in Servers |-> 0]
        /\ client' = [r \in Servers |-> "none"]
    BY <1>10 DEF Killed
  <2>2. main' \in [at : MainSteps, server : 0 .. NumServers + 1] /\ main'.at = "killed"
    BY <2>1
  <2>3. /\ running' \in [Servers -> BOOLEAN] /\ serve' \in [Servers -> ServeSteps]
        /\ backlog' \in [Servers -> 0 .. MaxBacklog]
        /\ client' \in [Servers -> {"none", "silent", "closed", "sent", "left"}]
        /\ \A u \in Servers : client'[u] = "none" /\ serve'[u] = "none"
    BY <2>1
  <2>4. TypeOK'
    BY <2>2, <2>3
  <2>5. Progress' /\ Waiting'
    BY <2>2, <2>3
  <2>6. QED
    BY <2>4, <2>5
<1>11. CASE ClientReads(s)
  BY <1>11 DEF ClientReads
<1>12. CASE ClientLeaves(s)
  BY <1>12 DEF ClientLeaves
<1>13. CASE Connects(s)
  BY <1>13 DEF Connects
<1>14. CASE ClientActs(s)
  BY <1>14 DEF ClientActs
<1>15. QED
  BY <1>1, <1>2, <1>3, <1>4, <1>5, <1>6, <1>7, <1>8, <1>9, <1>10, <1>11, <1>12, <1>13, <1>14
  DEF ServeStep, ClientStep

\* Every behaviour of the servers keeps the inductive invariant.
THEOREM Invariance == Spec => []IInv
<1>1. IInv /\ [Next]_vars => IInv'
  <2> SUFFICES ASSUME IInv, [Next]_vars PROVE IInv'
    OBVIOUS
  <2>1. CASE UNCHANGED vars
    BY <2>1 DEF vars, IInv, TypeOK, Progress, Waiting, Over
  <2>2. CASE MainStep \/ InputEnds
    BY <2>2, MainKeepsIInv
  <2>3. ASSUME NEW s \in Servers, ServeStep(s) \/ Killed(s) \/ ClientStep(s) PROVE IInv'
    BY <2>3, ServeKeepsIInv
  <2>4. QED
    BY <2>1, <2>2, <2>3 DEF Next
<1>2. QED
  BY <1>1, InitIInv, PTL DEF Spec

\* The destructor of McpServer never goes on to the cache and the members
\* while a serve() thread could still call the handler.
THEOREM NoHandlerAfterDestruction == Spec => []HandlerSafe
<1>1. IInv => HandlerSafe
  BY DEF IInv, Progress, HandlerSafe, Over
<1>2. QED
  BY <1>1, Invariance, PTL

-----------------------------------------------------------------------------
(* What the handlers answer (module HealthViews).                          *)

\* Seen from the servers, handlers that take several steps are the one step
\* Handle, and configuration changes and the worker are not seen at all.
THEOREM ViewsImplementServers == ViewSpec => Spec
<1>1. ViewInit => Init
  BY DEF ViewInit
<1>2. [ViewNext]_allVars => [Next]_vars
  BY DEF ViewNext, Next, allVars, vars, MainThread, HandlerStep, HandlerStarts, WalkDevice, WalkEnds,
         StateJson, Respond, ServeStep, ServerStep, ProcessKilled, WorkerStep, WorkerReads, WorkerStores, ChangeBegins,
         McpStep, StopWorker, ChangeConfig, ResetConnections, ResetCache, StartWorker
<1>3. QED
  BY <1>1, <1>2, PTL DEF ViewSpec, Spec

\* Hence no handler outlives the members either when it takes several steps
\* and the configuration changes around it.
THEOREM NoViewAfterDestruction == ViewSpec => []HandlerSafe
<1>1. QED
  BY ViewsImplementServers, NoHandlerAfterDestruction, PTL

PartNames == {"connections", "cache"}
Lefts == {<<>>, <<"connections">>, <<"cache">>, <<"connections", "cache">>, <<"cache", "connections">>}

\* The part p is yet to be walked, or is being walked.
IsLeft(p, left) == left # <<>> /\ (Head(left) = p \/ (Tail(left) # <<>> /\ Head(Tail(left)) = p))

\* Going on in a walk leaves the parts that were left but the first.
LEMMA TailLeft ==
    ASSUME NEW left \in Lefts, left # <<>>
    PROVE  /\ Head(left) \in PartNames /\ Tail(left) \in Lefts
           /\ \A p : IsLeft(p, Tail(left)) <=> IsLeft(p, left) /\ p # Head(left)
<1>1. ASSUME NEW p \in PartNames, left = <<p>>
      PROVE  Head(left) = p /\ Tail(left) = <<>>
  BY <1>1
<1>2. ASSUME NEW p \in PartNames, NEW q \in PartNames, left = <<p, q>>
      PROVE  Head(left) = p /\ Tail(left) = <<q>> /\ Head(<<q>>) = q /\ Tail(<<q>>) = <<>> /\ <<q>> # <<>>
  BY <1>2
<1>3. CASE left \in {<<"connections">>, <<"cache">>}
  BY <1>1, <1>3 DEF Lefts, PartNames, IsLeft
<1>4. CASE left \in {<<"connections", "cache">>, <<"cache", "connections">>}
  BY <1>2, <1>4 DEF Lefts, PartNames, IsLeft
<1>5. QED
  BY <1>3, <1>4 DEF Lefts

Entries == Seq(Devices \X Int)
Listings == [PartNames -> Entries \cup {Undefined}] \cup [{} -> {Undefined}]
Shape == [at : {"walk", "done"}, left : Lefts, next : Nat \ {0}, overlapped : BOOLEAN, listed : Listings]

\* A walk is at its end when no part is left.
Shaped(w) == /\ w \in Shape
             /\ w.at = "done" <=> w.left = <<>>
             /\ w.at = "walk" => w.listed \in [PartNames -> Entries \cup {Undefined}]
             /\ w.at = "walk" /\ Head(w.left) = "cache" => w.next = 1

\* The list shows the first n configured devices and what is known of them now.
Shows(list, n) ==
    /\ list \in Entries /\ Len(list) = n /\ n <= Len(devices)
    /\ \A i \in 1 .. n : list[i][1] = devices[i] /\ list[i][2] \in {Nothing, generation}

\* What a handler has listed so far, when no change has overlapped with it.
Undisturbed(w) ==
    /\ ~Changing
    /\ \A p \in DOMAIN w.listed : ~IsLeft(p, w.left) => Shows(w.listed[p], Len(devices))
    /\ IsLeft("connections", w.left) => Shows(w.listed["connections"], w.next - 1)
    /\ IsLeft("cache", w.left) => w.listed["cache"] # Undefined

\* What is known has been learnt under this configuration, except in the part
\* that a change has not reset yet.
Learnt == /\ change # "connections" => \A d \in Devices : connections[d] \in {Nothing, generation}
          /\ ~Changing => \A d \in Devices : states[d] \in {Nothing, generation}

\* The worker does not run while the configuration changes.
WorkerRests ==
    /\ worker \in {<<"off">>, <<"waits">>} \cup ({"read"} \X Devices \X {generation})
    /\ change \in {"change", "connections", "cache", "start"} => worker = <<"off">>

ViewTypes == /\ devices \in Seq(Devices) /\ generation \in Nat
             /\ change \in {"none", "stop", "change", "connections", "cache", "start"}
             /\ connections \in [Devices -> Int] /\ states \in [Devices -> Int]
             /\ DOMAIN walk = Servers

WalksFit == \A s \in Servers : walk[s] # NoWalk =>
                Shaped(walk[s]) /\ (~walk[s].overlapped => Undisturbed(walk[s]))

ViewInv == ViewTypes /\ Learnt /\ WorkerRests /\ WalksFit

\* A list of devices is a sequence of them, also after a change.
LEMMA ListsAreSequences ==
    /\ \A s \in DeviceLists : s \in Seq(Devices)
    /\ \A s \in Seq(Devices) : \A l \in Changed(s) : l \in Seq(Devices)
<1>1. ASSUME NEW s \in DeviceLists PROVE s \in Seq(Devices)
  <2>1. Cardinality(Devices) \in Nat
    BY ViewConfig, FS_CardinalityType
  <2>2. PICK m \in 0 .. Cardinality(Devices) : s \in [1 .. m -> Devices]
    BY <1>1 DEF DeviceLists, SeqOf
  <2>3. m \in Nat
    BY <2>1, <2>2
  <2>4. QED
    BY <2>2, <2>3, IsASeq
<1>2. ASSUME NEW s \in Seq(Devices), NEW l \in Changed(s) PROVE l \in Seq(Devices)
  <2>1. ASSUME NEW i \in DOMAIN s PROVE RemoveAt(s, i) \in Seq(Devices)
    <3>1. i \in 1 .. Len(s)
      BY LenProperties
    <3>2. SubSeq(s, 1, i - 1) \in Seq(Devices) /\ SubSeq(s, i + 1, Len(s)) \in Seq(Devices)
      BY <3>1
    <3>3. QED
      BY <3>2 DEF RemoveAt
  <2>2. QED
    BY <1>1, <2>1 DEF Changed
<1>3. QED
  BY <1>1, <1>2

\* What is shown is not left undefined.
LEMMA ShownIsDefined ==
    ASSUME generation \in Nat, NEW list, NEW n, Shows(list, n)
    PROVE  list # Undefined
<1>1. Len(Undefined) = 1 /\ Undefined[1][2] = -2
  BY DEF Undefined, Nothing
<1>2. QED
  BY <1>1 DEF Shows, Nothing

\* A step of one handler keeps the invariant if the new walk fits.
LEMMA HandlerKeeps ==
    ASSUME ViewInv, NEW s \in Servers, NEW w, walk' = [walk EXCEPT ![s] = w],
           UNCHANGED <<devices, generation, change, connections, states, worker>>,
           w # NoWalk => Shaped(w) /\ (~w.overlapped => Undisturbed(w))
    PROVE  ViewInv'
<1>1. ViewTypes' /\ Learnt' /\ WorkerRests'
  BY DEF ViewInv, ViewTypes, Learnt, WorkerRests, Changing
<1>2. WalksFit'
  <2> SUFFICES ASSUME NEW u \in Servers, walk'[u] # NoWalk
               PROVE  Shaped(walk'[u]) /\ (~walk'[u].overlapped => Undisturbed(walk[u])')
    BY DEF WalksFit
  <2>1. CASE u = s
    <3>1. walk'[u] = w
      BY <2>1 DEF ViewInv, ViewTypes
    <3>2. QED
      BY <3>1 DEF Undisturbed, Shows, Changing
  <2>2. CASE u # s
    <3>1. walk'[u] = walk[u]
      BY <2>2 DEF ViewInv, ViewTypes
    <3>2. Shaped(walk[u]) /\ (~walk[u].overlapped => Undisturbed(walk[u]))
      BY <3>1 DEF ViewInv, WalksFit
    <3>3. QED
      BY <3>1, <3>2 DEF Undisturbed, Shows, Changing
  <2>3. QED
    BY <2>1, <2>2
<1>3. QED
  BY <1>1, <1>2 DEF ViewInv

\* A handler begins its walk with the whole list of the present configuration.
LEMMA StartsKeeps ==
    ASSUME ViewInv, NEW s \in Servers, HandlerStarts(s)
    PROVE  ViewInv'
<1>1. PICK parts \in Parts \cup {<<>>} :
         walk' = [walk EXCEPT ![s] = [at |-> IF parts = <<>> THEN "done" ELSE "walk",
                                      left |-> parts, next |-> 1, overlapped |-> Changing,
                                      listed |-> [p \in ToSet(parts) |-> <<>>]]]
  BY DEF HandlerStarts
<1> DEFINE w == [at |-> IF parts = <<>> THEN "done" ELSE "walk", left |-> parts, next |-> 1,
                 overlapped |-> Changing, listed |-> [p \in ToSet(parts) |-> <<>>]]
<1>2. Changing \in BOOLEAN /\ <<>> \in Entries /\ Len(<<>>) = 0 /\ <<>> # Undefined
  BY DEF Changing, Entries, Undefined
<1>3. Shows(<<>>, 0)
  BY <1>2 DEF Shows, ViewInv, ViewTypes
<1>4. CASE parts \in Parts
  <2>1. ToSet(parts) = PartNames /\ parts \in Lefts /\ parts # <<>>
    BY <1>4 DEF Parts, ToSet, PartNames, Lefts
  <2>2. \A p \in PartNames : IsLeft(p, parts)
    <3>1. ASSUME NEW p, NEW q PROVE IsLeft(p, <<p, q>>) /\ IsLeft(q, <<p, q>>)
      <4>1. Head(<<p, q>>) = p /\ Tail(<<p, q>>) = <<q>> /\ Head(<<q>>) = q /\ <<q>> # <<>> /\ <<p, q>> # <<>>
        OBVIOUS
      <4>2. QED
        BY <4>1 DEF IsLeft
    <3>2. QED
      BY <1>4, <3>1 DEF Parts, PartNames
  <2>3. Shaped(w)
    BY <1>2, <2>1 DEF Shaped, Shape, Listings
  <2>4. ~Changing => Undisturbed(w)
    BY <1>2, <1>3, <2>1, <2>2 DEF Undisturbed, PartNames
  <2>5. QED
    BY <1>1, <2>3, <2>4, HandlerKeeps DEF HandlerStarts
<1>5. CASE parts = <<>>
  <2>1. ToSet(parts) = {}
    BY <1>5 DEF ToSet
  <2>2. Shaped(w)
    BY <1>2, <1>5, <2>1 DEF Shaped, Shape, Listings, Lefts
  <2>3. ~Changing => Undisturbed(w)
    BY <1>5, <2>1 DEF Undisturbed, IsLeft
  <2>4. QED
    BY <1>1, <2>2, <2>3, HandlerKeeps DEF HandlerStarts
<1>6. QED
  BY <1>4, <1>5

\* A walk goes on by one device, unless a change has overtaken it.
LEMMA WalkDeviceKeeps ==
    ASSUME ViewInv, NEW s \in Servers, WalkDevice(s)
    PROVE  ViewInv'
<1> DEFINE w == walk[s]
           more == Append(w.listed["connections"], Entry(devices[w.next], connections))
           n == [w EXCEPT !.next = @ + 1, !.listed["connections"] = more]
<1>1. /\ w.at = "walk" /\ Head(w.left) = "connections" /\ w.next <= Len(devices)
      /\ w.listed["connections"] # Undefined
      /\ walk' = [walk EXCEPT ![s] = n]
  BY DEF WalkDevice
<1>2. w # NoWalk
  BY <1>1 DEF NoWalk
<1>3. /\ Shaped(w) /\ (~w.overlapped => Undisturbed(w))
      /\ w.listed \in [PartNames -> Entries \cup {Undefined}] /\ w.next \in Nat \ {0} /\ w.left # <<>>
      /\ w.left \in Lefts
  BY <1>1, <1>2 DEF ViewInv, WalksFit, Shaped, Shape, Listings
<1>4. devices[w.next] \in Devices /\ connections[devices[w.next]] \in Int
  BY <1>1, <1>3 DEF ViewInv, ViewTypes
<1>5. w.listed["connections"] \in Entries /\ more \in Entries
  <2>1. w.listed["connections"] \in Entries
    BY <1>1, <1>3 DEF PartNames
  <2>2. QED
    BY <1>4, <2>1 DEF Entries, Entry
<1>6. /\ n.at = w.at /\ n.left = w.left /\ n.overlapped = w.overlapped /\ n.next = w.next + 1
      /\ n.listed = [w.listed EXCEPT !["connections"] = more]
      /\ n.listed \in [PartNames -> Entries \cup {Undefined}]
      /\ n.listed["connections"] = more /\ n.listed["cache"] = w.listed["cache"]
      /\ n \in Shape
  <2> DEFINE l == [w.listed EXCEPT !["connections"] = more]
  <2>1. /\ l \in [PartNames -> Entries \cup {Undefined}]
        /\ l["connections"] = more /\ l["cache"] = w.listed["cache"]
    BY <1>3, <1>5 DEF PartNames
  <2>2. w \in Shape
    BY <1>3 DEF Shaped
  <2>3. n = [w EXCEPT !.next = w.next + 1, !.listed = l]
    OBVIOUS
  <2> HIDE DEF l
  <2>4. /\ n.at = w.at /\ n.left = w.left /\ n.overlapped = w.overlapped /\ n.next = w.next + 1
        /\ n.listed = l /\ n \in Shape
    <3>1. l \in Listings /\ w.next + 1 \in Nat \ {0}
      BY <1>3, <2>1 DEF Listings
    <3>2. QED
      BY <2>2, <2>3, <3>1, Zenon DEF Shape
  <2>5. QED
    BY <2>1, <2>4 DEF l
<1>7. Shaped(n)
  BY <1>1, <1>3, <1>6 DEF Shaped
<1>8. ASSUME ~w.overlapped PROVE Undisturbed(n)
  <2>1. IsLeft("connections", w.left)
    BY <1>1, <1>3 DEF IsLeft
  <2>2. Undisturbed(w) /\ Shows(w.listed["connections"], w.next - 1)
    BY <1>3, <1>8, <2>1 DEF Undisturbed
  <2>3. connections[devices[w.next]] \in {Nothing, generation}
    BY <1>4, <2>2 DEF ViewInv, Learnt, Undisturbed, Changing
  <2>4. Shows(more, w.next)
    <3>1. Len(more) = w.next /\ \A i \in 1 .. w.next : more[i] = IF i < w.next THEN w.listed["connections"][i]
                                                            ELSE <<devices[w.next], connections[devices[w.next]]>>
      BY <1>3, <1>4, <2>2 DEF Shows, Entries, Entry
    <3>2. QED
      BY <1>1, <1>3, <1>5, <2>2, <2>3, <3>1 DEF Shows
  <2>5. QED
    BY <1>3, <1>6, <2>1, <2>2, <2>4 DEF Undisturbed, PartNames
<1>9. QED
  BY <1>1, <1>6, <1>7, <1>8, HandlerKeeps DEF WalkDevice

\* The end of a part.
LEMMA PartDoneFits ==
    ASSUME NEW w, Shaped(w), w.at = "walk"
    PROVE  /\ Shaped(PartDone(w))
           /\ PartDone(w).overlapped = w.overlapped /\ PartDone(w).listed = w.listed
           /\ PartDone(w).left = Tail(w.left) /\ PartDone(w).next = 1
<1>1. w.left \in Lefts /\ w.left # <<>> /\ w \in Shape /\ w.listed \in [PartNames -> Entries \cup {Undefined}]
  BY DEF Shaped, Shape, Listings
<1>2. Tail(w.left) \in Lefts
  BY <1>1, TailLeft
<1>3. /\ PartDone(w) \in Shape
      /\ PartDone(w).overlapped = w.overlapped /\ PartDone(w).listed = w.listed
      /\ PartDone(w).left = Tail(w.left) /\ PartDone(w).next = 1
      /\ PartDone(w).at = IF Tail(w.left) = <<>> THEN "done" ELSE "walk"
  <2> DEFINE at == IF Tail(w.left) = <<>> THEN "done" ELSE "walk"
  <2>1. at \in {"walk", "done"}
    OBVIOUS
  <2>2. PartDone(w) = [w EXCEPT !.left = Tail(w.left), !.next = 1, !.at = at]
    BY DEF PartDone
  <2> HIDE DEF at
  <2>3. /\ PartDone(w) \in Shape /\ PartDone(w).at = at
        /\ PartDone(w).overlapped = w.overlapped /\ PartDone(w).listed = w.listed
        /\ PartDone(w).left = Tail(w.left) /\ PartDone(w).next = 1
    <3>1. 1 \in Nat \ {0}
      OBVIOUS
    <3>2. QED
      BY <1>1, <1>2, <2>1, <2>2, <3>1, Zenon DEF Shape
  <2>4. QED
    BY <2>3 DEF at
<1>4. QED
  BY <1>1, <1>3 DEF Shaped

\* A walk that has passed every device becomes the answer.
LEMMA WalkEndsKeeps ==
    ASSUME ViewInv, NEW s \in Servers, WalkEnds(s)
    PROVE  ViewInv'
<1> DEFINE w == walk[s]
<1>1. /\ w.at = "walk" /\ Head(w.left) = "connections"
      /\ w.next > Len(devices) \/ w.listed["connections"] = Undefined
      /\ walk' = [walk EXCEPT ![s] = PartDone(w)]
  BY DEF WalkEnds
<1>2. w # NoWalk
  BY <1>1 DEF NoWalk
<1>3. /\ Shaped(w) /\ (~w.overlapped => Undisturbed(w))
      /\ w.next \in Nat \ {0} /\ w.left # <<>> /\ w.left \in Lefts
  BY <1>1, <1>2 DEF ViewInv, WalksFit, Shaped, Shape, Listings
<1>4. ASSUME ~w.overlapped PROVE Undisturbed(PartDone(w))
  <2>1. IsLeft("connections", w.left)
    BY <1>1, <1>3 DEF IsLeft
  <2>2. Undisturbed(w) /\ Shows(w.listed["connections"], w.next - 1)
    BY <1>3, <1>4, <2>1 DEF Undisturbed
  <2>3. w.listed["connections"] # Undefined
    BY <2>2, ShownIsDefined DEF ViewInv, ViewTypes
  <2>4. w.next - 1 = Len(devices)
    BY <1>1, <1>3, <2>2, <2>3 DEF Shows, ViewInv, ViewTypes
  <2>5. \A p : IsLeft(p, Tail(w.left)) <=> IsLeft(p, w.left) /\ p # "connections"
    BY <1>1, <1>3, TailLeft
  <2>6. QED
    BY <1>1, <1>3, <2>2, <2>4, <2>5, PartDoneFits DEF Undisturbed
<1>5. QED
  BY <1>1, <1>3, <1>4, PartDoneFits, HandlerKeeps DEF WalkEnds

\* The devices' states are read at once, under the lock of the cache.
LEMMA StateJsonKeeps ==
    ASSUME ViewInv, NEW s \in Servers, StateJson(s)
    PROVE  ViewInv'
<1> DEFINE w == walk[s]
           all == [i \in DOMAIN devices |-> Entry(devices[i], states)]
           n == IF w.listed["cache"] = Undefined THEN w ELSE [w EXCEPT !.listed["cache"] = all]
<1>1. /\ w.at = "walk" /\ Head(w.left) = "cache"
      /\ walk' = [walk EXCEPT ![s] = PartDone(n)]
  BY DEF StateJson
<1>2. w # NoWalk
  BY <1>1 DEF NoWalk
<1>3. /\ Shaped(w) /\ (~w.overlapped => Undisturbed(w))
      /\ w.next = 1 /\ w.left # <<>> /\ w.left \in Lefts
      /\ w.listed \in [PartNames -> Entries \cup {Undefined}]
  BY <1>1, <1>2 DEF ViewInv, WalksFit, Shaped, Shape, Listings
<1>4. /\ all \in Entries /\ Len(all) = Len(devices)
      /\ \A i \in 1 .. Len(devices) : /\ all[i] = <<devices[i], states[devices[i]]>>
                                      /\ devices[i] \in Devices
  <2>1. DOMAIN devices = 1 .. Len(devices) /\ Len(devices) \in Nat
    BY DEF ViewInv, ViewTypes
  <2>2. \A i \in 1 .. Len(devices) : devices[i] \in Devices /\ states[devices[i]] \in Int
    BY DEF ViewInv, ViewTypes
  <2>3. all \in [1 .. Len(devices) -> Devices \X Int]
    BY <2>1, <2>2 DEF Entry
  <2>4. all \in Entries
    BY <2>1, <2>3, IsASeq DEF Entries
  <2>5. Len(all) = Len(devices)
    BY <2>1, <2>3, <2>4, LenProperties DEF Entries
  <2>6. QED
    BY <2>1, <2>2, <2>4, <2>5 DEF Entry
<1>5. /\ Shaped(n) /\ n.at = "walk" /\ n.left = w.left /\ n.next = 1 /\ n.overlapped = w.overlapped
      /\ n.listed["connections"] = w.listed["connections"] /\ DOMAIN n.listed = PartNames
      /\ w.listed["cache"] # Undefined => n.listed["cache"] = all
  <2>1. CASE w.listed["cache"] = Undefined
    BY <1>1, <1>3, <2>1 DEF PartNames
  <2>2. CASE w.listed["cache"] # Undefined
    <3>1. /\ n.at = w.at /\ n.left = w.left /\ n.next = w.next /\ n.overlapped = w.overlapped
          /\ n.listed = [w.listed EXCEPT !["cache"] = all]
          /\ n.listed \in [PartNames -> Entries \cup {Undefined}] /\ n \in Shape
      BY <1>3, <1>4, <2>2 DEF Shaped, Shape, Listings, PartNames
    <3>2. Shaped(n)
      BY <1>1, <1>3, <3>1 DEF Shaped
    <3>3. QED
      BY <1>1, <1>3, <3>1, <3>2 DEF PartNames
  <2>3. QED
    BY <2>1, <2>2
<1>6. ASSUME ~w.overlapped PROVE Undisturbed(PartDone(n))
  <2>1. IsLeft("cache", w.left) /\ Undisturbed(w)
    BY <1>1, <1>3, <1>6 DEF IsLeft
  <2>2. n.listed["cache"] = all
    BY <1>5, <2>1 DEF Undisturbed
  <2>3. \A d \in Devices : states[d] \in {Nothing, generation}
    BY <2>1 DEF Undisturbed, ViewInv, Learnt
  <2>4. Shows(all, Len(devices))
    <3>1. ASSUME NEW i \in 1 .. Len(devices)
          PROVE  all[i][1] = devices[i] /\ all[i][2] \in {Nothing, generation}
      <4>1. all[i] = <<devices[i], states[devices[i]]>> /\ states[devices[i]] \in {Nothing, generation}
        BY <1>4, <2>3
      <4> HIDE DEF all
      <4>2. QED
        BY <4>1
    <3>2. Len(devices) <= Len(devices)
      BY DEF ViewInv, ViewTypes
    <3> HIDE DEF all
    <3>3. QED
      BY <1>4, <3>1, <3>2 DEF Shows
  <2>5. \A p : IsLeft(p, Tail(w.left)) <=> IsLeft(p, w.left) /\ p # "cache"
    BY <1>1, <1>3, TailLeft
  <2>6. /\ PartDone(n).listed = n.listed /\ PartDone(n).left = Tail(w.left) /\ PartDone(n).next = 1
    BY <1>5, PartDoneFits
  <2>7. ASSUME NEW p \in PartNames, ~IsLeft(p, Tail(w.left)) PROVE Shows(n.listed[p], Len(devices))
    BY <1>3, <1>5, <2>1, <2>2, <2>4, <2>5, <2>7 DEF Undisturbed, PartNames
  <2>8. IsLeft("connections", Tail(w.left)) => Shows(n.listed["connections"], 1 - 1)
    BY <1>3, <1>5, <2>1, <2>5 DEF Undisturbed
  <2>9. QED
    BY <1>5, <2>1, <2>5, <2>6, <2>7, <2>8 DEF Undisturbed
<1>7. QED
  BY <1>1, <1>5, <1>6, PartDoneFits, HandlerKeeps DEF StateJson

\* Steps that leave the walks and the configuration alone.
LEMMA WalksUntouched ==
    ASSUME ViewInv, UNCHANGED <<devices, generation, walk>>, ~Changing \/ Changing', ~Changing' \/ Changing
    PROVE  WalksFit'
<1>1. ASSUME NEW s \in Servers, walk[s] # NoWalk
      PROVE  Shaped(walk[s]) /\ (~walk[s].overlapped => Undisturbed(walk[s]))
  BY <1>1 DEF ViewInv, WalksFit
<1>2. QED
  BY <1>1 DEF WalksFit, Undisturbed, Shows

\* The worker learns under the present configuration only.
LEMMA WorkerKeeps ==
    ASSUME ViewInv, WorkerStep
    PROVE  ViewInv'
<1>1. ASSUME NEW d \in Devices, WorkerReads(d) PROVE ViewInv'
  <2>1. /\ worker = <<"waits">> /\ worker' = <<"read", d, generation>>
        /\ connections' = [connections EXCEPT ![d] = generation]
        /\ UNCHANGED <<devices, generation, change, states, walk>>
    BY <1>1 DEF WorkerReads
  <2>2. WalksFit'
    BY <2>1, WalksUntouched DEF Changing
  <2>3. ViewTypes' /\ Learnt'
    BY <2>1 DEF ViewInv, ViewTypes, Learnt, Changing
  <2>4. WorkerRests'
    <3>1. worker # <<"off">>
      BY <2>1
    <3>2. QED
      BY <2>1, <3>1 DEF ViewInv, WorkerRests
  <2>5. QED
    BY <2>2, <2>3, <2>4 DEF ViewInv
<1>2. ASSUME WorkerStores PROVE ViewInv'
  <2>1. /\ worker[1] = "read" /\ worker' = <<"waits">>
        /\ states' = [states EXCEPT ![worker[2]] = worker[3]]
        /\ UNCHANGED <<devices, generation, change, connections, walk>>
    BY <1>2 DEF WorkerStores
  <2>2. worker \in {"read"} \X Devices \X {generation}
    <3>1. worker # <<"off">> /\ worker # <<"waits">>
      BY <2>1
    <3>2. QED
      BY <3>1 DEF ViewInv, WorkerRests
  <2>3. worker[2] \in Devices /\ worker[3] = generation /\ worker # <<"off">>
    BY <2>1, <2>2
  <2>4. WalksFit'
    BY <2>1, WalksUntouched DEF Changing
  <2>5. ViewTypes' /\ Learnt'
    BY <2>1, <2>3 DEF ViewInv, ViewTypes, Learnt, Changing
  <2>6. WorkerRests'
    BY <2>1, <2>3 DEF ViewInv, WorkerRests
  <2>7. QED
    BY <2>4, <2>5, <2>6 DEF ViewInv
<1>3. QED
  BY <1>1, <1>2 DEF WorkerStep

\* A walk that a change overtakes keeps its shape.
LEMMA OvertakenFits ==
    ASSUME NEW w, Shaped(w), w # NoWalk, NEW inStateJson \in BOOLEAN
    PROVE  Shaped(Overtaken(w, inStateJson)) /\ Overtaken(w, inStateJson).overlapped
<1> DEFINE marked == w.at = "walk" /\ (w.next > 1 \/ (Head(w.left) = "cache" /\ inStateJson))
           l == IF marked THEN [w.listed EXCEPT ![Head(w.left)] = Undefined] ELSE w.listed
<1>1. /\ w \in Shape /\ w.listed \in Listings /\ w.left \in Lefts
      /\ w.at = "walk" => w.listed \in [PartNames -> Entries \cup {Undefined}] /\ w.left # <<>>
  BY DEF Shaped, Shape
<1>2. l \in Listings /\ (w.at = "walk" => l \in [PartNames -> Entries \cup {Undefined}])
  BY <1>1, TailLeft DEF Listings
<1>3. Overtaken(w, inStateJson) = [w EXCEPT !.overlapped = TRUE, !.listed = l]
  BY DEF Overtaken
<1> HIDE DEF l
<1>4. /\ [w EXCEPT !.overlapped = TRUE, !.listed = l] \in Shape
      /\ [w EXCEPT !.overlapped = TRUE, !.listed = l].at = w.at
      /\ [w EXCEPT !.overlapped = TRUE, !.listed = l].left = w.left
      /\ [w EXCEPT !.overlapped = TRUE, !.listed = l].next = w.next
      /\ [w EXCEPT !.overlapped = TRUE, !.listed = l].listed = l
      /\ [w EXCEPT !.overlapped = TRUE, !.listed = l].overlapped = TRUE
  BY <1>1, <1>2, Zenon DEF Shape
<1>5. QED
  BY <1>1, <1>2, <1>3, <1>4 DEF Shaped

\* The change overtakes every handler that is under way, and both resets come
\* before the worker starts again.
LEMMA ChangeKeeps ==
    ASSUME ViewInv, ChangeBegins \/ McpStep
    PROVE  ViewInv'
<1>1. CASE ChangeBegins \/ StopWorker
  <2>1. /\ UNCHANGED <<devices, generation, connections, states, walk>>
        /\ \/ change = "none" /\ change' = "stop" /\ UNCHANGED worker
           \/ /\ change = "stop" /\ change' = "change" /\ worker' = <<"off">>
    BY <1>1 DEF ChangeBegins, StopWorker, WorkerStopped
  <2>2. WalksFit'
    BY <2>1, WalksUntouched DEF Changing
  <2>3. ViewTypes' /\ Learnt'
    BY <2>1 DEF ViewInv, ViewTypes, Learnt, Changing
  <2>4. WorkerRests'
    BY <2>1 DEF ViewInv, WorkerRests
  <2>5. QED
    BY <2>2, <2>3, <2>4 DEF ViewInv
<1>2. CASE ChangeConfig
  <2>1. /\ change = "change" /\ change' = "connections" /\ devices' \in Changed(devices)
        /\ generation' = generation + 1 /\ UNCHANGED <<connections, states, worker>>
    BY <1>2 DEF ChangeConfig
  <2>2. PICK inStateJson \in SUBSET Servers : walk' = [s \in Servers |-> Overtaken(walk[s], s \in inStateJson)]
    BY <1>2 DEF ChangeConfig
  <2>3. WalksFit'
    <3> SUFFICES ASSUME NEW s \in Servers, walk'[s] # NoWalk
                 PROVE  Shaped(walk'[s]) /\ walk'[s].overlapped
      BY DEF WalksFit
    <3>1. walk'[s] = Overtaken(walk[s], s \in inStateJson)
      BY <2>2
    <3>2. walk[s] # NoWalk
      BY <3>1 DEF Overtaken
    <3>3. Shaped(walk[s])
      BY <3>2 DEF ViewInv, WalksFit
    <3>4. (s \in inStateJson) \in BOOLEAN
      OBVIOUS
    <3>5. QED
      BY <3>1, <3>2, <3>3, <3>4, OvertakenFits
  <2>4. ViewTypes'
    BY <2>1, <2>2, ListsAreSequences DEF ViewInv, ViewTypes
  <2>5. Learnt'
    BY <2>1 DEF Learnt, Changing
  <2>6. WorkerRests'
    BY <2>1 DEF ViewInv, WorkerRests
  <2>7. QED
    BY <2>3, <2>4, <2>5, <2>6 DEF ViewInv
<1>3. CASE ResetConnections
  <2>1. /\ change = "connections" /\ change' = "cache"
        /\ connections' = [d \in Devices |-> Nothing]
        /\ UNCHANGED <<devices, generation, states, worker, walk>>
    BY <1>3 DEF ResetConnections, ConnectionsAfterReset
  <2>2. WalksFit'
    BY <2>1, WalksUntouched DEF Changing
  <2>3. ViewTypes' /\ Learnt' /\ WorkerRests'
    BY <2>1 DEF ViewInv, ViewTypes, Learnt, WorkerRests, Changing, Nothing
  <2>4. QED
    BY <2>2, <2>3 DEF ViewInv
<1>4. CASE ResetCache
  <2>1. /\ change = "cache" /\ change' = "start"
        /\ states' = [d \in Devices |-> Nothing]
        /\ UNCHANGED <<devices, generation, connections, worker, walk>>
    BY <1>4 DEF ResetCache
  <2>2. WalksFit'
    <3> SUFFICES ASSUME NEW s \in Servers, walk[s] # NoWalk
                 PROVE  Shaped(walk[s]) /\ walk[s].overlapped
      BY <2>1 DEF WalksFit
    <3>1. Shaped(walk[s]) /\ (~walk[s].overlapped => Undisturbed(walk[s]))
      BY DEF ViewInv, WalksFit
    <3>2. ~Undisturbed(walk[s])
      BY <2>1 DEF Undisturbed, Changing
    <3>3. QED
      BY <3>1, <3>2
  <2>3. ViewTypes' /\ Learnt' /\ WorkerRests'
    BY <2>1 DEF ViewInv, ViewTypes, Learnt, WorkerRests, Changing, Nothing
  <2>4. QED
    BY <2>2, <2>3 DEF ViewInv
<1>5. CASE StartWorker
  <2>1. /\ change = "start" /\ change' = "none" /\ worker' \in {<<"off">>, <<"waits">>}
        /\ UNCHANGED <<devices, generation, connections, states, walk>>
    BY <1>5 DEF StartWorker
  <2>2. WalksFit'
    BY <2>1, WalksUntouched DEF Changing
  <2>3. ViewTypes' /\ Learnt' /\ WorkerRests'
    BY <2>1 DEF ViewInv, ViewTypes, Learnt, WorkerRests, Changing
  <2>4. QED
    BY <2>2, <2>3 DEF ViewInv
<1>6. QED
  BY <1>1, <1>2, <1>3, <1>4, <1>5 DEF McpStep

\* The invariant of the views holds throughout.
LEMMA ViewInvariance == ViewSpec => []ViewInv
<1>1. ViewInit => ViewInv
  BY ListsAreSequences DEF ViewInit, ViewInv, ViewTypes, Learnt, WorkerRests, WalksFit, Changing, Nothing
<1>2. ASSUME ViewInv, UNCHANGED <<devices, generation, change, connections, states, walk>>,
             worker' = worker \/ worker' = <<"off">>
      PROVE  ViewInv'
  <2>1. WalksFit'
    BY <1>2, WalksUntouched DEF Changing
  <2>2. QED
    BY <1>2, <2>1 DEF ViewInv, ViewTypes, Learnt, WorkerRests, Changing
<1>3. ASSUME ViewInv, NEW s \in Servers, HandlerStep(s) PROVE ViewInv'
  <2>1. CASE Respond(s)
    BY <1>3, <2>1, HandlerKeeps DEF Respond
  <2>2. QED
    BY <1>3, <2>1, StartsKeeps, WalkDeviceKeeps, WalkEndsKeeps, StateJsonKeeps DEF HandlerStep
<1>4. ASSUME ViewInv, NEW s \in Servers, ProcessKilled(s) PROVE ViewInv'
  <2>1. /\ change' = "none" /\ worker' = <<"off">>
        /\ walk' = [r \in Servers |-> NoWalk]
        /\ connections' = [d \in Devices |-> Nothing] /\ states' = [d \in Devices |-> Nothing]
        /\ UNCHANGED <<devices, generation>>
    BY <1>4 DEF ProcessKilled
  <2>2. WalksFit'
    BY <2>1 DEF WalksFit
  <2>3. ViewTypes' /\ Learnt'
    BY <1>4, <2>1 DEF ViewInv, ViewTypes, Learnt, Nothing
  <2>4. WorkerRests'
    <3>1. worker' \in {<<"off">>, <<"waits">>} /\ worker' = <<"off">>
      BY <2>1
    <3>2. QED
      BY <3>1, Zenon DEF WorkerRests
  <2>5. QED
    BY <2>2, <2>3, <2>4 DEF ViewInv
<1>5. ViewInv /\ [ViewNext]_allVars => ViewInv'
  <2> SUFFICES ASSUME ViewInv, [ViewNext]_allVars PROVE ViewInv'
    OBVIOUS
  <2>1. CASE MainThread
    BY <1>2, <2>1 DEF MainThread
  <2>2. CASE UNCHANGED viewVars
    BY <1>2, <2>2 DEF viewVars
  <2>3. QED
    BY <1>3, <1>4, <2>1, <2>2, WorkerKeeps, ChangeKeeps DEF ViewNext, ServerStep, allVars
<1>6. QED
  BY <1>1, <1>5, PTL DEF ViewSpec

\* An answer about the devices that no configuration change overlapped with
\* lists exactly the configured devices, in order, and shows nothing that was
\* learnt under an earlier configuration, however the worker and the handlers
\* of all servers interleave.
THEOREM AnswersMatchConfig == ViewSpec => []AnswerMatchesConfig
<1>1. ViewInv => AnswerMatchesConfig
  <2> SUFFICES ASSUME ViewInv, NEW s \in Servers, walk[s].at = "done", ~walk[s].overlapped,
                      NEW part \in DOMAIN walk[s].listed
               PROVE  LET listed == walk[s].listed[part] IN
                      /\ [i \in DOMAIN listed |-> listed[i][1]] = devices
                      /\ \A i \in DOMAIN listed : listed[i][2] \in {Nothing, generation}
    BY DEF AnswerMatchesConfig
  <2> DEFINE listed == walk[s].listed[part]
  <2>1. walk[s] # NoWalk
    BY DEF NoWalk
  <2>2. walk[s].left = <<>> /\ Undisturbed(walk[s])
    BY <2>1 DEF ViewInv, WalksFit, Shaped
  <2>3. Shows(listed, Len(devices))
    BY <2>2 DEF Undisturbed, IsLeft
  <2>4. /\ DOMAIN listed = 1 .. Len(devices) /\ devices \in [1 .. Len(devices) -> Devices]
        /\ \A i \in 1 .. Len(devices) : listed[i][1] = devices[i] /\ listed[i][2] \in {Nothing, generation}
    BY <2>3, LenProperties DEF Shows, Entries, ViewInv, ViewTypes
  <2>5. [i \in DOMAIN listed |-> listed[i][1]] = devices
    BY <2>4
  <2>6. QED
    BY <2>4, <2>5
<1>2. QED
  BY <1>1, ViewInvariance, PTL
=============================================================================
