-------------------------- MODULE PdWebsocketServer ---------------------------
(***************************************************************************)
(* ws.server (sources/PdWebsocketServer.cpp) with its WebsocketServerImpl:  *)
(* listen, the number of connections at outlet 1, and the lists it sends to *)
(* all of them.                                                             *)
(*                                                                         *)
(* m_server is a shared_ptr.  Assigning to it exchanges the pointer first   *)
(* and destroys the old object then; so does reset.  In the model there is  *)
(* one object: the new one is constructed when the old one is gone, and     *)
(* m_server says what the pointer is.                                       *)
(***************************************************************************)
EXTENDS Sending, Integers, FiniteSets

CONSTANT ListenPorts        \* the numbers the patch sends with "listen"

ASSUME ListenPortsAssumption == ListenPorts \subseteq Int

VARIABLES
    pd,             \* the position of Pd's thread in listen or the destructor
    m_server,       \* the pointer: to no server, the object, or one not yet run
    wanted, server_port,   \* the argument of listen, and m_server->port()
    answering,      \* the service thread is in connected or disconnected
    failing,        \* the server thread is in socketerror
    count           \* the last number sent to outlet 1

pdVars == <<pd, m_server, wanted, server_port>>
wsVars == <<vars, walkVars, pdVars, answering, failing, count>>

MaxPort == 65535

\* Between two calls m_server points to a server that exists, or to none
\* (PdWebsocketServer.cpp:138-162).
WsTypeOK ==
    /\ pd \in {"idle", "construct", "run", "dispose", "delete", "deleted"}
    /\ m_server \in {"null", "object", "new"}
    /\ server_port \in 0 .. MaxPort
    /\ answering \in BOOLEAN /\ failing \in BOOLEAN
    /\ count \in -1 .. Cardinality(Conn)
    /\ pd = "idle" => (m_server = "object" <=> object = "alive")

\* Before the first number there is none: -1.
WsInit ==
    /\ Init /\ SendingInit
    /\ pd = "idle"
    /\ m_server = "null"
    /\ wanted = 0 /\ server_port = 0
    /\ answering = FALSE /\ failing = FALSE
    /\ count = -1

-----------------------------------------------------------------------------
(* Pd's thread: listen, or the port among the arguments of the object.      *)

PdIdle == pd = "idle" /\ ~Walking

\* The early returns.  Whether the server listens is not asked.
NewPort(p) == p <= MaxPort /\ ~(m_server # "null" /\ p = server_port)

Open(p) ==
    /\ PdIdle /\ NewPort(p) /\ p > 0
    /\ IF object = "alive" THEN Destroy ELSE UNCHANGED vars
    /\ m_server' = "new" /\ wanted' = p
    /\ pd' = "construct"
    /\ UNCHANGED <<walkVars, server_port, answering, failing, count>>

ConstructServer ==
    /\ pd = "construct" /\ Construct
    /\ m_server' = "object" /\ server_port' = 0
    /\ pd' = "run"
    /\ UNCHANGED <<walkVars, wanted, answering, failing, count>>

RunServer ==
    /\ pd = "run" /\ Run
    /\ server_port' = wanted
    /\ pd' = "idle"
    /\ UNCHANGED <<walkVars, m_server, wanted, answering, failing, count>>

\* Zero or less: the server is destroyed, but not forgotten.
DisposeOnly(p) ==
    /\ PdIdle /\ NewPort(p) /\ p <= 0
    /\ Destroy
    /\ pd' = "dispose"
    /\ UNCHANGED <<walkVars, m_server, wanted, server_port, answering, failing, count>>

\* Zero or less: the server is disposed of, if there is one.
Dispose(p) ==
    /\ PdIdle /\ NewPort(p) /\ p <= 0
    /\ Destroy
    /\ m_server' = "null"
    /\ pd' = "dispose"
    /\ UNCHANGED <<walkVars, wanted, server_port, answering, failing, count>>

\* The destructor of the object leaves the pointer as it is.
DeleteObject ==
    /\ PdIdle
    /\ IF object = "alive" THEN Destroy ELSE UNCHANGED vars
    /\ pd' = "delete"
    /\ UNCHANGED <<walkVars, m_server, wanted, server_port, answering, failing, count>>

Gone ==
    /\ pd \in {"dispose", "delete"} /\ object = "none"
    /\ pd' = IF pd = "dispose" THEN "idle" ELSE "deleted"
    /\ UNCHANGED <<vars, walkVars, m_server, wanted, server_port, answering, failing, count>>

WsRest == <<pdVars, answering, failing, count>>

\* m_list, with bytes, and its loop; a connection that has ended throws.
SendList ==
    \/ pd = "idle" /\ m_server # "null" /\ BeginSend /\ UNCHANGED WsRest
    \/ EndSend /\ UNCHANGED WsRest
    \/ \E c \in Conn : (SendTo(c) \/ SendThrows(c)) /\ UNCHANGED WsRest

\* m_list asks for no server: the process ends.
SendToNull ==
    /\ PdIdle /\ m_server = "null"
    /\ crashed' = TRUE
    /\ UNCHANGED <<object, main, server_thread, ws_thread, m_run, queueVars, m_connections,
                   endpointVars, peerVars, listenerVars, walkVars, WsRest>>

PdSteps ==
    \/ ConstructServer \/ RunServer \/ Gone
    \/ Main /\ UNCHANGED <<walkVars, WsRest>>

-----------------------------------------------------------------------------
(* The service thread: connected and disconnected.                         *)

\* The call is there, ...
Report ==
    /\ ~answering
    /\ CallConnected \/ CallDisconnected
    /\ answering' = TRUE
    /\ UNCHANGED <<walkVars, pdVars, failing, count>>

\* ... and reads m_server: the server that reports, or one that Pd's thread has put
\* in its place and that has no connections.
Answer ==
    /\ answering /\ m_server # "null"
    /\ count' = IF m_server = "new" THEN 0 ELSE Cardinality(m_connections)
    /\ answering' = FALSE
    /\ UNCHANGED <<vars, walkVars, pdVars, failing>>

\* Pd's thread has reset m_server: the process ends.
AnswerOfNull ==
    /\ answering /\ m_server = "null"
    /\ crashed' = TRUE
    /\ UNCHANGED <<object, main, server_thread, ws_thread, m_run, queueVars, m_connections,
                   endpointVars, peerVars, listenerVars, walkVars, WsRest>>

OtherService ==
    /\ ~answering
    /\ \/ StartService \/ ExitService \/ Wait \/ Take \/ UpdateConnections
       \/ CallReceived \/ SkipMessage \/ PureVirtualCall
    /\ Disturbs /\ UNCHANGED WsRest

ServiceSteps == Report \/ Answer \/ AnswerOfNull \/ OtherService

-----------------------------------------------------------------------------
(* The server thread, when the port cannot be bound: socketerror.          *)

\* The call is there, unless the object is half destroyed, ...
BindFails ==
    /\ ~failing /\ object = "alive" /\ server_thread = "created"
    /\ failing' = TRUE
    /\ UNCHANGED <<vars, walkVars, pdVars, answering, count>>

\* ... and reads the port of m_server, whichever that is by now.
ReportPort ==
    /\ failing /\ m_server # "null" /\ DoRunFails
    /\ failing' = FALSE
    /\ UNCHANGED <<walkVars, pdVars, answering, count>>

\* Pd's thread has reset m_server: the process ends.
PortOfNull ==
    /\ failing /\ m_server = "null"
    /\ crashed' = TRUE
    /\ UNCHANGED <<object, main, server_thread, ws_thread, m_run, queueVars, m_connections,
                   endpointVars, peerVars, listenerVars, walkVars, WsRest>>

\* socketerror of websocketServer itself is empty.
OtherServer ==
    /\ ~failing
    /\ DoRunListens \/ DoRunReturns \/ NotifyService \/ (object # "alive" /\ DoRunFails)
    /\ UNCHANGED <<walkVars, WsRest>>

NetworkSteps == BindFails \/ ReportPort \/ PortOfNull \/ OtherServer

WsNext ==
    /\ ~crashed
    /\ \/ \E p \in ListenPorts : Open(p) \/ Dispose(p)
       \/ DeleteObject \/ PdSteps \/ SendList \/ SendToNull
       \/ ServiceSteps \/ NetworkSteps
       \/ Corrupts /\ UNCHANGED WsRest
       \/ (Peers \/ SpuriousWakeup) /\ UNCHANGED <<walkVars, WsRest>>

WsSpec == WsInit /\ [][WsNext]_wsVars

-----------------------------------------------------------------------------
(* Properties.                                                             *)

\* Whenever the service thread sleeps, has handled all there is and has reported a
\* peer of this server, outlet 1 shows how many there are (PdWebsocketServer.cpp:72-80).
OutletCounts ==
    /\ object = "alive" /\ ws_thread = "wait" /\ m_actions = <<>> /\ ~answering
    /\ \E c \in Conn : con[c] # "dropped" /\ told[c] # "nothing"
    => count = Cardinality({c \in Conn : con[c] = "open"})

\* Why: a server that is whole is the one m_server points to, and what its service
\* thread last reported is its number of connections, unless a report is on its way.
CountedInv ==
    /\ object = "alive" => main = "idle" /\ ~stopped /\ m_server = "object"
    /\ /\ object = "alive" /\ ~answering
       /\ ws_thread = "call" => action.type = "MESSAGE"
       /\ \E c \in Conn : con[c] # "dropped" /\ told[c] # "nothing"
       => count = Cardinality(m_connections)

\* Why m_server is right between two calls: what it is at each position of a call, and
\* that only a port is listened on.
PointerInv ==
    /\ pd \in {"construct", "run"} => wanted \in 1 .. MaxPort
    /\ pd = "construct" => m_server = "new"
    /\ pd = "run" => m_server = "object" /\ object = "alive"
    /\ pd = "dispose" => m_server = "null"
    /\ pd \in {"construct", "dispose", "delete", "deleted"} => object # "alive"
=============================================================================
