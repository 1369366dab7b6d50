----------------------- MODULE ParameterClient_proofs ------------------------
(* Theorems about the connected outlet of rcp.client and ws.client.         *)
EXTENDS ParameterClient, WebsocketClient_proofs

USE DEF Event, Live, Told, ConState

\* The clients use their websocket client as WebsocketClient says.
LEMMA UsesClient == [ClientNext]_clientVars => [Next]_vars
BY DEF ClientNext, clientVars, ClientCalls, New, m_open, m_close, Delete, ClientMain, ClientHandlers, connected,
       failed, disconnected, received, Next, Calls, Handlers

LEMMA ClientTypeStep ==
    ASSUME ClientTypeOK, [ClientNext]_clientVars
    PROVE  ClientTypeOK'
<1>1. TypeOK'
  BY UsesClient, TypeStep DEF ClientTypeOK
<1>2. outlet' \in {0, 1}
  BY DEF ClientTypeOK, ClientNext, clientVars, ClientCalls, New, m_open, m_close, Delete, ClientMain,
         ClientHandlers, connected, failed, disconnected, received
<1> QED
  BY <1>1, <1>2 DEF ClientTypeOK

\* A connection that was announced stays so until its end is reported.
LEMMA AnnouncedStays ==
    ASSUME IInv, NEW c \in Conn, Announced(c), object = "alive",
           Calls \/ Main \/ Network \/ Peers \/ \E e \in Endpoint : on_fail(e) \/ on_message(e)
    PROVE  Announced(c)' \/ object' # "alive"
<1> USE DEF IInv
<1>1. \/ UNCHANGED <<con, calling, told>>
      \/ CloseCurrent
      \/ CreateConnection
      \/ object' # "alive"
      \/ \E d \in Conn, event \in Event, state \in ConState :
            /\ Happens(d, event, state)
            /\ <<con[d], event, state>> \in
                  {<<"connecting", "open", "open">>, <<"connecting", "fail", "closed">>,
                   <<"open", "message", "open">>, <<"open", "close", "closed">>,
                   <<"closing", "close", "closed">>}
      \/ \E e \in Endpoint : on_fail(e) \/ on_message(e)
  BY DEF Calls, Construct, Connect, Disconnect, BeginDisconnect, Destroy, Main, ClearHandlers, TakeHandler,
         ConnectReturns, Join, Network, Peers, Opens, Fails, ClosingEnds, Message, PeerCloses, conVars
<1>2. CASE UNCHANGED <<con, calling, told>>
  BY <1>2 DEF Announced, InCall
<1>3. CASE CloseCurrent
  <2>1. con[c] \in {"open", "closing"} => con'[c] \in {"open", "closing"}
    BY <1>3 DEF CloseCurrent, TypeOK
  <2> QED
    BY <1>3, <2>1 DEF CloseCurrent, Announced, InCall
<1>4. CASE CreateConnection
  <2>1. PICK d \in Conn, state \in {"connecting", "unstarted"} :
           Unused(d) /\ con' = [con EXCEPT ![d] = state] /\ told' = [told EXCEPT ![d] = "nothing"]
    BY <1>4 DEF CreateConnection
  <2>2. c # d
    BY <2>1 DEF Announced, Unused, InCall, Told
  <2>3. con'[c] = con[c] /\ told'[c] = told[c] /\ calling' = calling
    BY <1>4, <2>1, <2>2 DEF TypeOK, CreateConnection
  <2> QED
    BY <2>3 DEF Announced, InCall
<1>5. ASSUME NEW d \in Conn, NEW event \in Event, NEW state \in ConState, Happens(d, event, state),
             <<con[d], event, state>> \in
                  {<<"connecting", "open", "open">>, <<"connecting", "fail", "closed">>,
                   <<"open", "message", "open">>, <<"open", "close", "closed">>,
                   <<"closing", "close", "closed">>}
      PROVE  Announced(c)'
  <2>1. told' = told /\ con' = [con EXCEPT ![d] = state]
    BY <1>5 DEF Happens
  <2>2. ASSUME InCall(c, {"close"}) PROVE InCall(c, {"close"})'
    <3>1. PICK e \in Endpoint : calling[e].hdl = c /\ calling[e].event = "close"
      BY <2>2 DEF InCall
    <3>2. e # endpoint[d] /\ calling'[e] = calling[e]
      BY <1>5, <3>1, NullAssumption DEF Happens, NoCall, TypeOK
    <3> QED
      BY <3>1, <3>2 DEF InCall
  <2>3. CASE c # d
    BY <2>1, <2>2, <2>3 DEF Announced, TypeOK
  <2>4. CASE c = d /\ state = "open"
    BY <2>1, <2>4 DEF Announced, TypeOK
  <2>5. CASE c = d /\ event = "close"
    <3>1. "close" \in handlers[c]
      BY <1>5, <2>5 DEF HandlersInv, HandlersAt
    <3>2. calling'[endpoint[c]] = [event |-> "close", hdl |-> c] /\ endpoint[c] \in Endpoint
      BY <1>5, <2>5, <3>1 DEF Happens, TypeOK
    <3>3. InCall(c, {"close"})'
      BY <3>2 DEF InCall
    <3> QED
      BY <2>1, <3>3 DEF Announced
  <2>6. CASE c = d /\ event = "fail"
    BY <1>5, <2>6 DEF Announced, ToldInv, ToldAt
  <2> QED
    BY <1>5, <2>3, <2>4, <2>5, <2>6
<1>6. ASSUME NEW e \in Endpoint, on_fail(e) \/ on_message(e)
      PROVE  Announced(c)'
  <2>1. PICK event \in {"fail", "message"}, word \in Told :
           Report(e, event, word) /\ (event = "message" => word = "received")
    BY <1>6 DEF on_fail, on_message
  <2>2. calling[e] # NoCall /\ calling[e].event = event /\ calling' = [calling EXCEPT ![e] = NoCall]
        /\ con' = con /\ told' = [told EXCEPT ![calling[e].hdl] = word]
    BY <2>1, CalledEvents DEF Report, conVars
  <2>3. ASSUME InCall(c, {"close"}) PROVE InCall(c, {"close"})'
    <3>1. PICK f \in Endpoint : calling[f].hdl = c /\ calling[f].event = "close"
      BY <2>3 DEF InCall
    <3>2. f # e /\ calling'[f] = calling[f]
      BY <2>2, <3>1 DEF TypeOK
    <3> QED
      BY <3>1, <3>2 DEF InCall
  <2>4. CASE calling[e].hdl # c
    <3>1. told'[c] = told[c]
      BY <2>2, <2>4 DEF TypeOK
    <3> QED
      BY <2>2, <2>3, <3>1 DEF Announced
  <2>5. CASE calling[e].hdl = c
    <3>1. CallAt(e)
      BY DEF CallInv
    <3>2. event # "fail"
      BY <2>2, <2>5, <3>1 DEF CallAt, Announced
    <3>3. word = "received" /\ told'[c] = "received" /\ con[c] \in {"open", "closing"}
      BY <2>1, <2>2, <2>5, <3>1, <3>2 DEF CallAt, TypeOK
    <3> QED
      BY <2>2, <3>3 DEF Announced
  <2> QED
    BY <2>4, <2>5
<1> QED
  BY <1>1, <1>2, <1>3, <1>4, <1>5, <1>6

\* What connected() announces is a connection whose end is still to come.
LEMMA ConnectedAnnounces ==
    ASSUME IInv, NEW e \in Endpoint, on_open(e)
    PROVE  \E c \in Conn : Announced(c)'
<1> USE DEF IInv
<1>1. calling[e] # NoCall /\ calling[e].event = "open" /\ calling[e].hdl \in Conn
  BY CalledEvents DEF on_open, Report, Call
<1>2. con[calling[e].hdl] \in {"open", "closing"}
  BY <1>1 DEF CallInv, CallAt
<1> QED
  BY <1>1, <1>2 DEF on_open, Report, Announced, conVars, TypeOK

LEMMA ClientStep == ClientIInv /\ [ClientNext]_clientVars => ClientIInv'
<1> SUFFICES ASSUME ClientIInv, [ClientNext]_clientVars PROVE ClientIInv'
  OBVIOUS
<1>1. IInv'
  BY UsesClient, InvariantStep DEF ClientIInv
<1>2. ClientTypeOK'
  BY ClientTypeStep DEF ClientIInv
<1>3. OutletInv'
  <2> SUFFICES ASSUME object' = "alive", outlet' = 1 PROVE (\E c \in Conn : Announced(c))'
    BY DEF OutletInv
  <2>1. CASE UNCHANGED clientVars
    BY <2>1 DEF ClientIInv, OutletInv, Announced, InCall, clientVars, vars, mainVars, conVars
  <2>2. ASSUME NEW e \in Endpoint, on_open(e) PROVE (\E c \in Conn : Announced(c))'
    BY <2>2, ConnectedAnnounces DEF ClientIInv
  <2>3. CASE ~(UNCHANGED clientVars) /\ \A e \in Endpoint : ~on_open(e)
    <3>1. CASE ClientCalls
      <4>1. object = "alive" /\ outlet = 1
        BY <3>1 DEF ClientCalls, New, m_open, m_close, Delete, Connect, Disconnect, BeginDisconnect, Destroy
      <4>2. Calls
        BY <3>1 DEF ClientCalls, New, m_open, m_close, Delete, Calls
      <4> QED
        BY <4>1, <4>2, AnnouncedStays DEF ClientIInv, OutletInv
    <3>2. CASE ClientMain
      <4>1. object = "alive" /\ outlet = 1
        BY <3>2 DEF ClientMain, Main, ClearHandlers, TakeHandler, CloseCurrent, CreateConnection, ConnectReturns, Join
      <4> QED
        BY <3>2, <4>1, AnnouncedStays DEF ClientMain, ClientIInv, OutletInv
    <3>3. CASE (Network \/ Peers) /\ UNCHANGED outlet
      <4>1. object = "alive"
        BY <3>3 DEF Network, Peers, Opens, Fails, ClosingEnds, Message, PeerCloses, Happens, mainVars
      <4> QED
        BY <3>3, <4>1, AnnouncedStays DEF ClientIInv, OutletInv
    <3>4. ASSUME NEW e \in Endpoint, ClientHandlers(e) PROVE (\E c \in Conn : Announced(c))'
      <4>1. on_message(e) /\ outlet = 1 /\ object = "alive"
        BY <2>3, <3>4 DEF ClientHandlers, connected, failed, disconnected, received, on_message, Report, PureVirtualCall,
                         mainVars
      <4> QED
        BY <4>1, AnnouncedStays DEF ClientIInv, OutletInv
    <3> QED
      BY <2>3, <3>1, <3>2, <3>3, <3>4 DEF ClientNext
  <2> QED
    BY <2>1, <2>2, <2>3
<1> QED
  BY <1>1, <1>2, <1>3 DEF ClientIInv

\* The inductive invariant of the outlet.
THEOREM ClientInvariant == ClientSpec => []ClientIInv
<1>1. ClientInit => ClientIInv
  BY InvariantInit DEF ClientInit, ClientIInv, ClientTypeOK, OutletInv, IInv
<1> QED
  BY <1>1, ClientStep, PTL DEF ClientSpec

\* The number at the outlet, and what the client does to its connection, keep their
\* types (ParameterClient.cpp:255-318).
THEOREM ClientTypeCorrect == ClientSpec => []ClientTypeOK
<1>1. ClientIInv => ClientTypeOK
  BY DEF ClientIInv
<1> QED
  BY <1>1, ClientInvariant, PTL

\* A client that shows 1 when all is settled is connected (ParameterClient.cpp:
\* 300-318, PdWebsocketClient.cpp:68-81).
THEOREM OutletTellsTheTruth == ClientSpec => []OneMeansConnected
<1>1. ClientIInv => OneMeansConnected
  <2> SUFFICES ASSUME ClientIInv, Settled, object = "alive", outlet = 1 PROVE isOpen
    BY DEF OneMeansConnected
  <2> USE DEF ClientIInv, IInv
  <2>1. PICK c \in Conn : Announced(c)
    BY DEF OutletInv
  <2>2. ~InCall(c, {"close"})
    BY NullAssumption DEF Settled, InCall, NoCall
  <2>3. con[c] = "open" /\ told[c] # "nothing"
    BY <2>1, <2>2 DEF Announced, Settled
  <2>4. c \in Current
    BY <2>3 DEF ToldInv, ToldAt
  <2> QED
    BY <2>3, <2>4, NullAssumption DEF Current, isOpen, MainInv, OneConnection
<1> QED
  BY <1>1, ClientInvariant, PTL
=============================================================================
