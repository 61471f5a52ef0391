----------------------------- MODULE HttpServer -----------------------------
(***************************************************************************)
(* The HTTP servers for health and metrics (http_server.cpp) and the main  *)
(* thread that starts them when McpServer is constructed and stops them    *)
(* when it is destroyed (mcp_server.cpp).                                  *)
(*                                                                         *)
(* Each server has one thread, serve(), which accepts one connection at a  *)
(* time, waits for the request without a time limit, calls the handler,    *)
(* sends the response, again without a time limit, and closes.  The handler*)
(* reads the connection manager and the cache, so what matters here is that*)
(* it never runs once these are gone; what it answers is the subject of    *)
(* HealthViews.                                                            *)
(***************************************************************************)
EXTENDS Integers

CONSTANTS NumServers,   \* servers, in the order in which they are started
          MaxBacklog    \* connections waiting to be accepted: listen(server, 16)

ASSUME ServerConfig == NumServers \in Nat /\ MaxBacklog \in Nat

VARIABLES main,      \* the main thread, and the server it starts or stops
          running,   \* running_ of each server
          serve,     \* where the thread of each server is
          backlog,   \* connections waiting to be accepted
          client     \* what the accepted client has done: nothing yet, or closed
                     \* without a request, or sent it, or left after that

vars == <<main, running, serve, backlog, client>>

Servers == 1 .. NumServers
MainSteps == {"starting", "running", "stopping", "joining", "destroyed", "killed"}
Connected == {"recv", "handle", "send", "send_large"}
ServeSteps == {"none", "startup", "loop", "select", "accept", "recv", "handle", "send",
               "send_large", "ended"}

TypeOK == /\ main \in [at : MainSteps, server : 0 .. NumServers + 1]
          /\ running \in [Servers -> BOOLEAN]
          /\ serve \in [Servers -> ServeSteps]
          /\ backlog \in [Servers -> 0 .. MaxBacklog]
          /\ client \in [Servers -> {"none", "silent", "closed", "sent", "left"}]
          /\ \A s \in Servers : client[s] # "none" <=> serve[s] \in Connected

Init == /\ main = [at |-> "starting", server |-> 1]
        /\ running = [s \in Servers |-> FALSE]
        /\ serve = [s \in Servers |-> "none"]
        /\ backlog = [s \in Servers |-> 0]
        /\ client = [s \in Servers |-> "none"]

-----------------------------------------------------------------------------
(* The main thread.                                                        *)

\* start: nothing without a port, otherwise the flag and the thread.
Start(hasPort) ==
    /\ main.at = "starting" /\ main.server <= NumServers
    /\ running' = [running EXCEPT ![main.server] = hasPort]
    /\ serve' = [serve EXCEPT ![main.server] = IF hasPort THEN "startup" ELSE "none"]
    /\ main' = [main EXCEPT !.server = @ + 1]
    /\ UNCHANGED <<backlog, client>>

\* McpServer is constructed and run() reads the input, ...
Constructed ==
    /\ main.at = "starting" /\ main.server > NumServers
    /\ main' = [main EXCEPT !.at = "running"]
    /\ UNCHANGED <<running, serve, backlog, client>>

\* ... which ends: the destructor stops the servers, the last one first.
InputEnds ==
    /\ main.at = "running"
    /\ main' = [at |-> "stopping", server |-> NumServers]
    /\ UNCHANGED <<running, serve, backlog, client>>

\* Mutant: stop() leaves the flag alone.
FlagKept == running

FlagCleared == [running EXCEPT ![main.server] = FALSE]

\* stop: clear the flag, ...
Stop ==
    /\ main.at = "stopping" /\ main.server > 0
    /\ running' = FlagCleared
    /\ main' = [main EXCEPT !.at = "joining"]
    /\ UNCHANGED <<serve, backlog, client>>

\* Mutant: the thread is not waited for.
NotJoined == TRUE

Joined == serve[main.server] \in {"none", "ended"}

\* ... then wait for the thread, if there is one.
Join ==
    /\ main.at = "joining" /\ Joined
    /\ main' = [at |-> "stopping", server |-> main.server - 1]
    /\ UNCHANGED <<running, serve, backlog, client>>

\* All servers are stopped: the cache stops, and the members are destroyed.
Destroy ==
    /\ main.at = "stopping" /\ main.server = 0
    /\ main' = [main EXCEPT !.at = "destroyed"]
    /\ UNCHANGED <<running, serve, backlog, client>>

-----------------------------------------------------------------------------
(* serve().                                                                *)

Goto(s, at) == serve' = [serve EXCEPT ![s] = at]

\* No socket, or the address is taken: the thread clears the flag and ends.
StartupFails(s) ==
    /\ serve[s] = "startup"
    /\ running' = [running EXCEPT ![s] = FALSE]
    /\ Goto(s, "ended")
    /\ UNCHANGED <<main, backlog, client>>

Listens(s) ==
    /\ serve[s] = "startup"
    /\ Goto(s, "loop")
    /\ UNCHANGED <<main, running, backlog, client>>

\* while (running_): at the end the listening socket is closed, with it every
\* connection that waits.
LoopTop(s) ==
    /\ serve[s] = "loop"
    /\ Goto(s, IF running[s] THEN "select" ELSE "ended")
    /\ backlog' = IF running[s] THEN backlog ELSE [backlog EXCEPT ![s] = 0]
    /\ UNCHANGED <<main, running, client>>

\* Mutant: select waits without a time limit.
SelectWaits(s) == backlog[s] > 0

SelectReturns(s) == TRUE

\* select returns with a connection, or after 200 ms without one.
Select(s) ==
    /\ serve[s] = "select" /\ SelectReturns(s)
    /\ Goto(s, IF backlog[s] > 0 THEN "accept" ELSE "loop")
    /\ UNCHANGED <<main, running, backlog, client>>

AcceptConnection(s) ==
    /\ serve[s] = "accept"
    /\ backlog' = [backlog EXCEPT ![s] = @ - 1]
    /\ client' = [client EXCEPT ![s] = "silent"]
    /\ Goto(s, "recv")
    /\ UNCHANGED <<main, running>>

\* The client has given up in the meantime.
AcceptFails(s) ==
    /\ serve[s] = "accept"
    /\ backlog' = [backlog EXCEPT ![s] = @ - 1]
    /\ Goto(s, "loop")
    /\ UNCHANGED <<main, running, client>>

\* recv returns once the client has sent something or closed.
Recv(s) ==
    /\ serve[s] = "recv" /\ client[s] # "silent"
    /\ IF client[s] = "closed" THEN Goto(s, "loop") /\ client' = [client EXCEPT ![s] = "none"]
       ELSE Goto(s, "handle") /\ UNCHANGED client
    /\ UNCHANGED <<main, running, backlog>>

\* The handler's response fits into the buffer of the socket, or does not.
Handle(s) ==
    /\ serve[s] = "handle"
    /\ \E size \in {"send", "send_large"} : Goto(s, size)
    /\ UNCHANGED <<main, running, backlog, client>>

\* Mutant: the connection is not closed after the answer.
KeepsClient(s) == client

CloseClient(s) == [client EXCEPT ![s] = "none"]

\* recv waits for a client that says nothing, send for one that does not read.
\* Nothing in the code limits how long.
WaitsForClient(s) == \/ serve[s] = "recv" /\ client[s] = "silent"
                     \/ serve[s] = "send_large" /\ client[s] = "sent"

\* send_response, and close.  Once the client has left, send fails, which
\* nobody looks at, ...
Send(s) ==
    /\ serve[s] \in {"send", "send_large"} /\ ~WaitsForClient(s)
    /\ client' = CloseClient(s)
    /\ Goto(s, "loop")
    /\ UNCHANGED <<main, running, backlog>>

\* ... or raises SIGPIPE, which nobody handles: the process is gone.
Killed(s) ==
    /\ serve[s] \in {"send", "send_large"} /\ client[s] = "left"
    /\ main' = [main EXCEPT !.at = "killed"]
    /\ running' = [r \in Servers |-> FALSE]
    /\ serve' = [r \in Servers |-> "none"]
    /\ backlog' = [r \in Servers |-> 0]
    /\ client' = [r \in Servers |-> "none"]

-----------------------------------------------------------------------------
(* Clients.                                                                *)

Connects(s) ==
    /\ serve[s] \notin {"none", "startup", "ended"}
    /\ backlog[s] < MaxBacklog
    /\ backlog' = [backlog EXCEPT ![s] = @ + 1]
    /\ UNCHANGED <<main, running, serve, client>>

\* The accepted client sends its request, or closes the connection instead.
ClientActs(s) ==
    /\ client[s] = "silent"
    /\ \E what \in {"sent", "closed"} : client' = [client EXCEPT ![s] = what]
    /\ UNCHANGED <<main, running, serve, backlog>>

\* It reads the response, until the rest of it fits into the buffer, ...
ClientReads(s) ==
    /\ serve[s] = "send_large" /\ client[s] = "sent"
    /\ Goto(s, "send")
    /\ UNCHANGED <<main, running, backlog, client>>

\* ... or leaves.  (If it leaves before, the server does not notice till now.)
ClientLeaves(s) ==
    /\ serve[s] \in {"send", "send_large"} /\ client[s] = "sent"
    /\ client' = [client EXCEPT ![s] = "left"]
    /\ UNCHANGED <<main, running, serve, backlog>>

ClientStep(s) == Connects(s) \/ ClientActs(s) \/ ClientReads(s) \/ ClientLeaves(s)

MainStep == \/ \E hasPort \in BOOLEAN : Start(hasPort)
            \/ Constructed \/ Stop \/ Join \/ Destroy

ServeStep(s) == \/ StartupFails(s) \/ Listens(s) \/ LoopTop(s) \/ Select(s)
                \/ AcceptConnection(s) \/ AcceptFails(s) \/ Recv(s)
                \/ Handle(s) \/ Send(s)

Next == \/ MainStep
        \/ InputEnds
        \/ \E s \in Servers : ServeStep(s) \/ Killed(s) \/ ClientStep(s)

Spec == Init /\ [][Next]_vars

\* The threads are scheduled.  Clients need not do anything.
FairSpec == /\ Spec
            /\ WF_vars(MainStep)
            /\ \A s \in Servers : WF_vars(ServeStep(s))

-----------------------------------------------------------------------------
(* Properties.                                                             *)

\* No handler runs on a server object that is being torn down: when the
\* destructor goes on to the cache and the members, every serve() has ended.
HandlerSafe == main.at = "destroyed" => \A s \in Servers : serve[s] \in {"none", "ended"}

\* Once the input has ended the process gets through its destructors, provided
\* that no client keeps a server waiting for ever: however many clients keep
\* connecting, whatever each server is doing, also when one of them never got
\* its port.  (Or it has been killed by the signal before.)
ShutdownCompletes ==
    (\A s \in Servers : []<>~WaitsForClient(s))
    => (main.at = "stopping" ~> main.at \in {"destroyed", "killed"})

=============================================================================
