--------------------------- MODULE ParameterServer ---------------------------
(***************************************************************************)
(* The part of sources/ParameterServer.cpp that owns a transporter: listen, *)
(* the client count shown at outlet 2, and the destructor, over the         *)
(* WebsocketServer it creates and deletes (through a                        *)
(* WebsocketServerTransporter, which forwards connected and disconnected).  *)
(*                                                                         *)
(* m_transporter is the object of WebsocketServer: null when "none".  The   *)
(* code constructs the new transporter before it destroys the old one.      *)
(* Until it is bound, all the new one can do is start its service thread,   *)
(* which touches nothing outside it: here it is constructed when the old    *)
(* one is gone.                                                             *)
(***************************************************************************)
EXTENDS WebsocketServer, Integers, FiniteSets

CONSTANT ListenArgs         \* the port numbers the patch sends with "listen"

ASSUME ListenArgsAssumption == ListenArgs \subseteq Int

VARIABLES
    call,                   \* the position of Pd's thread in listen or the destructor
    request,                \* the argument p of listen
    m_port,                 \* m_transporter->port()
    m_clientCount,
    loaded,                 \* the service thread's copy inside ++ or --, or NotLoaded
    outlet                  \* the last number sent to outlet 2

serverVars == <<request, m_port>>
countVars == <<m_clientCount, outlet>>
paramVars == <<vars, call, serverVars, countVars, loaded>>

UINT16_MAX == 65535
NotLoaded == <<>>
CallPc == {"idle", "construct", "bind", "reset", "close", "unbind", "delete", "rabbithole",
           "deleted"}

ParamTypeOK ==
    /\ call \in CallPc
    /\ request \in Int
    /\ m_port \in 0 .. UINT16_MAX
    /\ m_clientCount \in Nat
    /\ loaded = NotLoaded \/ loaded \in [count : Nat, by : {1, -1}]
    /\ outlet \in Nat

ParamInit ==
    /\ Init
    /\ call = "idle"
    /\ request = 0
    /\ m_port = 0
    /\ m_clientCount = 0
    /\ loaded = NotLoaded
    /\ outlet = 0

-----------------------------------------------------------------------------
(* listen.                                                                 *)

\* The early returns: the port is unchanged, or no port at all.
Accepted(p) ==
    /\ ~(object = "alive" /\ listening /\ p = m_port)
    /\ p <= UINT16_MAX

\* A new port replaces the transporter: the old one is destroyed by the
\* assignment, without unbind.
ListenOpen(p) ==
    /\ call = "idle" /\ main = "idle"
    /\ Accepted(p) /\ p > 0
    /\ request' = p
    /\ call' = "construct"
    /\ IF object = "alive" THEN Destroy ELSE UNCHANGED vars
    /\ UNCHANGED <<m_port, countVars, loaded>>

ListenConstruct ==
    /\ call = "construct"
    /\ Construct
    /\ call' = "bind"
    /\ UNCHANGED <<serverVars, countVars, loaded>>

\* bind(p): the server thread starts, and may accept a peer at once, ...
ListenBind ==
    /\ call = "bind"
    /\ Run
    /\ m_port' = request
    /\ call' = "reset"
    /\ UNCHANGED <<request, countVars, loaded>>

\* ... and only then are the connected clients reset.
ListenReset ==
    /\ call = "reset"
    /\ m_clientCount' = 0
    /\ outlet' = 0
    /\ call' = "idle"
    /\ UNCHANGED <<vars, serverVars, loaded>>

\* Zero or a negative number: the transporter is destroyed, nothing else.
ListenClose(p) ==
    /\ call = "idle"
    /\ Accepted(p) /\ p <= 0
    /\ Destroy
    /\ request' = p
    /\ call' = "close"
    /\ UNCHANGED <<m_port, countVars, loaded>>

ListenClosed ==
    /\ call = "close"
    /\ object = "none"
    /\ call' = "idle"
    /\ UNCHANGED <<vars, serverVars, countVars, loaded>>

-----------------------------------------------------------------------------
(* ~ParameterServer: unbind, then release the transporter, the rabbithole's *)
(* transporter if there is one, and the server of rcp-c.                    *)

\* The rabbithole may be any of RabbitHole: releasing it joins the thread of a
\* websocketClient, which need not end while a connection is being made.
Released == call' \in {"rabbithole", "deleted"}

\* The destructor if it relied on the transporter's own to stop it.
DeleteUnbound ==
    /\ call = "idle"
    /\ Destroy
    /\ call' = "delete"
    /\ UNCHANGED <<serverVars, countVars, loaded>>

DeleteUnbind ==
    /\ call = "idle"
    /\ Stop
    /\ call' = "unbind"
    /\ UNCHANGED <<serverVars, countVars, loaded>>

DeleteRelease ==
    /\ call = "unbind"
    /\ Destroy
    /\ call' = "delete"
    /\ UNCHANGED <<serverVars, countVars, loaded>>

DeleteEnds ==
    /\ call = "delete"
    /\ object = "none"
    /\ Released
    /\ UNCHANGED <<vars, serverVars, countVars, loaded>>

DeleteUnused ==
    /\ call = "idle"
    /\ object = "none"
    /\ Released
    /\ UNCHANGED <<vars, serverVars, countVars, loaded>>

\* m_rabbitholeTransporter.reset() returns, and the server is freed.
RabbitholeReleased ==
    /\ call = "rabbithole"
    /\ call' = "deleted"
    /\ UNCHANGED <<vars, serverVars, countVars, loaded>>

-----------------------------------------------------------------------------
(* connected and disconnected run on the service thread: m_clientCount is a *)
(* plain int, so ++ and -- are a load and a store.                          *)

Rest == <<call, serverVars, countVars, loaded>>

\* A count that only grows.
LoadOneMore(by) ==
    /\ loaded' = [count |-> m_clientCount, by |-> 1]
    /\ UNCHANGED <<call, serverVars, countVars>>

\* connected(), disconnected(): the load, with the call that leads there.
LoadCount(by) ==
    /\ loaded' = [count |-> m_clientCount, by |-> by]
    /\ UNCHANGED <<call, serverVars, countVars>>

\* The store without its lower limit.
StoreBelowZero ==
    /\ loaded # NotLoaded
    /\ m_clientCount' = loaded.count + loaded.by
    /\ outlet' = m_clientCount'
    /\ loaded' = NotLoaded
    /\ UNCHANGED <<vars, call, serverVars>>

\* The store and the output, 0 at least.
StoreCount ==
    /\ loaded # NotLoaded
    /\ m_clientCount' = IF loaded.count + loaded.by < 0 THEN 0 ELSE loaded.count + loaded.by
    /\ outlet' = m_clientCount'
    /\ loaded' = NotLoaded
    /\ UNCHANGED <<vars, call, serverVars>>

\* The other steps of the service thread: it is inside the callback as long as
\* it holds a loaded count.
ServiceStep ==
    /\ loaded = NotLoaded
    /\ \/ CallConnected /\ LoadCount(1)
       \/ CallDisconnected /\ LoadCount(-1)
       \/ /\ \/ StartService \/ ExitService \/ Wait \/ Take \/ UpdateConnections
             \/ CallReceived \/ SkipMessage \/ PureVirtualCall
          /\ UNCHANGED Rest

-----------------------------------------------------------------------------
\* What nobody owes the program: the calls of the user, and that the last connection
\* of a rabbithole ends.
PdCalls ==
    \/ DeleteUnbind \/ DeleteUnused \/ RabbitholeReleased
    \/ \E p \in ListenArgs : ListenOpen(p) \/ ListenClose(p)

\* What Pd's thread does inside a call until it returns.
PdThread ==
    \/ ListenConstruct \/ ListenBind \/ ListenReset \/ ListenClosed
    \/ DeleteRelease \/ DeleteEnds
    \/ Main /\ UNCHANGED Rest

ServiceThread == ServiceStep \/ StoreCount
NetworkThread == ServerThread /\ UNCHANGED Rest

ParamNext ==
    /\ ~crashed
    /\ \/ PdCalls \/ PdThread \/ ServiceThread \/ NetworkThread
       \/ (Peers \/ SpuriousWakeup) /\ UNCHANGED Rest

ParamSpec == ParamInit /\ [][ParamNext]_paramVars

FairParamSpec ==
    /\ ParamSpec
    /\ WF_paramVars(~crashed /\ PdThread)
    /\ WF_paramVars(~crashed /\ ServiceThread)
    /\ WF_paramVars(~crashed /\ NetworkThread)

-----------------------------------------------------------------------------
(* Properties.                                                             *)

\* The peers the server has announced, and how far the count will be off once a
\* callback under way has stored it.
Known == {c \in Conn : con[c] \in {"open", "closed"} /\ told[c] = "connected"}
Drift ==
    (IF loaded = NotLoaded THEN m_clientCount ELSE loaded.count + loaded.by) - Cardinality(Known)

\* Between two calls of listen the count follows the clients: if it is right it
\* stays right, whatever comes and goes (ParameterServer.cpp:138-154).
CountStaysExact ==
    [][call = "idle" /\ call' = "idle" /\ Drift = 0 => Drift' = 0]_paramVars

\* Why: a callback is about a client that was not known, or was; and clients are
\* forgotten, with their server, only while the object is in listen or destroyed.
CountInv ==
    /\ IsFiniteSet(Known)
    /\ object = "base" => call \in {"construct", "close", "delete"}

\* Why m_port fits: what is bound was accepted.
RequestInv == call \in {"construct", "bind"} => request \in 1 .. UINT16_MAX

\* ~ParameterServer unbinds before it releases the transporter
\* (ParameterServer.cpp:124-128), so that no callback meets a half-destroyed one.
DeletesAfterUnbind ==
    [][PureVirtualCall => call \notin {"unbind", "delete"}]_paramVars

\* Why: while the object is deleted its transporter is whole until it is stopped,
\* and has no service thread afterwards.
DeletionInv ==
    /\ call = "unbind" => object = "alive" /\ (main # "stop" => stopped)
    /\ call = "delete" => ws_thread = "null"

\* Deleting the object gets past unbind and the release of the transporter if its
\* service thread had started by then (ParameterServer.cpp:124-128); the end of a
\* rabbithole, which is next, is that of its websocketClient.
DeletionEnds ==
    call = "unbind" /\ main = "stop" /\ ws_thread # "created"
    ~> call \in {"rabbithole", "deleted"} \/ crashed

\* rcp.server-help.pd:124-127 offers listen to set, change and close the port:
\* the call returns.
ListenReturns == call \in {"construct", "bind", "reset", "close"} ~> call = "idle" \/ crashed

\* Changing or closing the port leaves the program running: the service thread
\* does not call a listener that is already destroyed.
ListenKeepsRunning == [][~(PureVirtualCall)]_paramVars

\* Nothing is on its way to the count.
Settled ==
    /\ call = "idle" /\ loaded = NotLoaded
    /\ object = "none" \/ (ws_thread = "wait" /\ m_actions = <<>>)

\* rcp.server-help.pd:8 calls outlet 2 the number of connected clients: when all is
\* settled it shows how many there are, and none when the server is closed.
OutletShowsClients ==
    Settled => outlet = IF object = "none" THEN 0 ELSE Cardinality(m_connections)
=============================================================================
