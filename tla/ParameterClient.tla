--------------------------- MODULE ParameterClient ---------------------------
(***************************************************************************)
(* rcp.client (sources/ParameterClient.cpp over WebsocketClientTransporter) *)
(* and ws.client (PdWebsocketClient.cpp over WebsocketClientImpl): the      *)
(* messages open and close, and the outlet that says whether the client is  *)
(* connected, which the endpoints' threads write.  Both objects do the same *)
(* with it.                                                                 *)
(***************************************************************************)
EXTENDS WebsocketClient, Integers

VARIABLE outlet             \* the last number sent to outlet 2; 0 at first

clientVars == <<vars, outlet>>

ClientInit == Init /\ outlet = 0

\* The object owns its websocket client: both are there or neither is.
New == Construct /\ outlet' = 0

m_open(uri) == Connect(uri) /\ UNCHANGED outlet
m_close == Disconnect /\ UNCHANGED outlet

\* The destructor frees the client of rcp-c, which may still call the transporter, before
\* its websocket client; neither touches the outlet.
Delete == Destroy /\ UNCHANGED outlet

connected(e) == on_open(e) /\ outlet' = 1

failed(e) == on_fail(e) /\ outlet' = 0

\* The end of a connection that nobody hears of.
disconnectedSilently(e) == on_close(e) /\ UNCHANGED outlet

\* The outlet as a count of connections.
disconnectedCounts(e) == on_close(e) /\ outlet' = outlet - 1

disconnected(e) == on_close(e) /\ outlet' = 0

\* To rcp-c, or to the outlets 0 and 1.
received(e) == on_message(e) /\ UNCHANGED outlet

ClientCalls == New \/ m_close \/ Delete \/ \E uri \in Uri : m_open(uri)
ClientMain == Main /\ UNCHANGED outlet
ClientHandlers(e) ==
    \/ connected(e) \/ failed(e) \/ disconnected(e) \/ received(e)
    \/ PureVirtualCall(e) /\ UNCHANGED outlet

ClientNext ==
    /\ ~crashed
    /\ \/ ClientCalls \/ ClientMain \/ \E e \in Endpoint : ClientHandlers(e)
       \/ (Network \/ Peers) /\ UNCHANGED outlet

ClientSpec == ClientInit /\ [][ClientNext]_clientVars

\* As FairSpec of WebsocketClient.
FairClientSpec ==
    /\ ClientSpec
    /\ WF_clientVars(~crashed /\ ClientMain)
    /\ \A c \in Conn : WF_clientVars(~crashed /\ (Opens(c) \/ Fails(c)) /\ UNCHANGED outlet)
                    /\ WF_clientVars(~crashed /\ ClosingEnds(c) /\ UNCHANGED outlet)
    /\ \A e \in Endpoint : WF_clientVars(~crashed /\ ClientHandlers(e))

-----------------------------------------------------------------------------
(* Properties.                                                             *)

ClientTypeOK == TypeOK /\ outlet \in {0, 1}

\* The outlet never claims a connection that is not there: whichever connection
\* was announced, its end is announced after it, although disconnect() takes
\* every other handler from it (websocketClient.cpp:107-146).
OneMeansConnected == Settled /\ object = "alive" /\ outlet = 1 => isOpen

\* Why: what the outlet announces is a connection whose end is still to come.
Announced(c) ==
    told[c] \in {"connected", "received"} /\ (con[c] \in {"open", "closing"} \/ InCall(c, {"close"}))

OutletInv == object = "alive" /\ outlet = 1 => \E c \in Conn : Announced(c)

ClientIInv == IInv /\ ClientTypeOK /\ OutletInv

\* After close, the outlet falls to 0 unless the object has another connection by then
\* or is deleted: the connection that is closed, or given up, is none
\* (websocketClient.cpp:107-146, ParameterClient.cpp:172-178, 311-318).
CloseIsShown ==
    main = "clear_open" /\ object = "alive" /\ after = "return"
        ~> outlet = 0 \/ (main = "idle" /\ Current # {}) \/ object # "alive" \/ crashed

\* The outlet is labelled "connected" (rcp.client-help.pd:51): when all is
\* settled it shows 1 for a client that is connected.
ConnectedMeansOne == Settled /\ object = "alive" /\ isOpen => outlet = 1
=============================================================================
