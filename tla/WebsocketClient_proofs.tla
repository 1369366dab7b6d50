----------------------- MODULE WebsocketClient_proofs ------------------------
(* Theorems about WebsocketClient, for any set of connections.              *)
EXTENDS WebsocketClient, TLAPS

USE DEF Event, Live, Told, ConState

LEMMA CalledEvents ==
    ASSUME TypeOK, NEW e \in Endpoint
    PROVE  /\ calling[e].event \in Event \cup {"none"}
           /\ calling[e] # NoCall <=> calling[e].event \in Event
           /\ calling[e] # NoCall => calling[e] \in Call
<1>1. calling[e] \in Call \/ calling[e] = NoCall
  BY DEF TypeOK
<1>2. CASE calling[e] = NoCall
  BY <1>2, NullAssumption DEF NoCall, Call
<1>3. CASE calling[e] \in Call
  BY <1>3 DEF NoCall, Call
<1> QED
  BY <1>1, <1>2, <1>3

LEMMA TypeStep == TypeOK /\ [Next]_vars => TypeOK'
<1> SUFFICES ASSUME TypeOK, [Next]_vars PROVE TypeOK'
  OBVIOUS
<1>1. CASE Construct
  BY <1>1 DEF TypeOK, Construct, slotVars, conVars
<1>2. ASSUME NEW next \in Uri \cup {"return"}, BeginDisconnect(next), crashed' = crashed PROVE TypeOK'
  BY <1>2 DEF TypeOK, BeginDisconnect, slotVars, conVars
<1>3. CASE Destroy
  BY <1>3 DEF TypeOK, Destroy, slotVars, conVars
<1>4. CASE ClearHandlers
  <2>1. PICK event \in Event : TakeHandler(event)
    BY <1>4 DEF ClearHandlers
  <2>2. main' \in {"clear_open", "clear_fail", "clear_message", "close"}
    BY <1>4 DEF ClearHandlers
  <2>3. handlers' \in [Conn -> SUBSET Event]
    BY <2>1 DEF TypeOK, TakeHandler
  <2>4. crashed' \in BOOLEAN
    BY <2>1 DEF TypeOK, TakeHandler
  <2> QED
    BY <2>1, <2>2, <2>3, <2>4 DEF TypeOK, TakeHandler, slotVars
<1>5. CASE CloseCurrent
  BY <1>5 DEF TypeOK, CloseCurrent
<1>6. CASE CreateConnection
  <2>1. PICK c \in Conn, state \in {"connecting", "unstarted"} :
           /\ con' = [con EXCEPT ![c] = state]
           /\ endpoint' = [endpoint EXCEPT ![c] = after]
           /\ handlers' = [handlers EXCEPT ![c] = Event]
           /\ told' = [told EXCEPT ![c] = "nothing"]
           /\ m_con' \in {c, m_con} /\ m_sslCon' \in {c, m_sslCon}
    BY <1>6 DEF CreateConnection
  <2>2. handlers' \in [Conn -> SUBSET Event]
    BY <2>1 DEF TypeOK
  <2>3. con' \in [Conn -> ConState] /\ endpoint' \in [Conn -> Endpoint] /\ told' \in [Conn -> Told]
    BY <1>6, <2>1 DEF TypeOK, CreateConnection
  <2>4. main' = "idle" /\ after' = "return" /\ UNCHANGED <<object, calling, crashed>>
    BY <1>6 DEF CreateConnection
  <2> QED
    BY <2>1, <2>2, <2>3, <2>4 DEF TypeOK
<1>7. CASE ConnectReturns
  BY <1>7 DEF TypeOK, ConnectReturns, slotVars, conVars
<1>8. CASE Join
  BY <1>8 DEF TypeOK, Join, slotVars, Endpoint, Uri
<1>9. ASSUME NEW c \in Conn, NEW event \in Event, NEW state \in ConState, Happens(c, event, state)
      PROVE  TypeOK'
  <2>1. [event |-> event, hdl |-> c] \in Call
    BY DEF Call
  <2>2. calling' \in [Endpoint -> Call \cup {NoCall}]
    BY <1>9, <2>1 DEF TypeOK, Happens
  <2> QED
    BY <1>9, <2>2 DEF TypeOK, Happens, mainVars, slotVars
<1>10. ASSUME NEW e \in Endpoint, NEW event \in Event, NEW word \in Told, Report(e, event, word)
       PROVE  TypeOK'
  BY <1>10, CalledEvents DEF TypeOK, Report, mainVars, slotVars, conVars
<1>11. ASSUME NEW e \in Endpoint, PureVirtualCall(e) PROVE TypeOK'
  BY <1>11 DEF TypeOK, PureVirtualCall, mainVars, slotVars, conVars
<1>12. CASE UNCHANGED vars
  BY <1>12 DEF TypeOK, vars, mainVars, slotVars, conVars
<1> QED
  BY <1>1, <1>2, <1>3, <1>4, <1>5, <1>6, <1>7, <1>8, <1>9, <1>10, <1>11, <1>12
  DEF Next, Calls, Connect, Disconnect, Main, Network, Peers, Opens, Fails, ClosingEnds, Message,
      PeerCloses, Handlers, on_open, on_fail, on_message, on_close

\* The variables keep their types.
THEOREM TypeCorrect == Spec => []TypeOK
<1>1. Init => TypeOK
  BY DEF Init, TypeOK, Endpoint, Uri, NoCall
<1> QED
  BY <1>1, TypeStep, PTL DEF Spec

-----------------------------------------------------------------------------
(* The inductive invariant.                                                *)

LEMMA ConstructStep == IInv /\ Construct => MainInv' /\ HandlersInv' /\ CallInv' /\ ToldInv'
<1> SUFFICES ASSUME IInv, Construct PROVE MainInv' /\ HandlersInv' /\ CallInv' /\ ToldInv'
  OBVIOUS
<1> USE DEF IInv, Construct, slotVars, conVars, Current
<1>1. MainInv'
  BY DEF MainInv, OneConnection
<1>2. HandlersInv'
  BY DEF MainInv, HandlersInv, HandlersAt, Clearing
<1>3. CallInv'
  BY DEF CallInv, CallAt, GivenUp, Clearing
<1>4. ToldInv'
  BY DEF ToldInv, ToldAt, MainInv, GivenUp, InCall
<1> QED
  BY <1>1, <1>2, <1>3, <1>4

LEMMA BeginStep ==
    ASSUME IInv, ~crashed, NEW next \in Uri \cup {"return"}, BeginDisconnect(next)
    PROVE  MainInv' /\ HandlersInv' /\ CallInv' /\ ToldInv'
<1> USE DEF IInv, BeginDisconnect, slotVars, conVars, Current
<1>1. MainInv'
  BY DEF MainInv, OneConnection
<1>2. HandlersInv'
  BY DEF HandlersInv, HandlersAt, Clearing
<1>3. CallInv'
  BY DEF CallInv, CallAt, GivenUp, Clearing
<1>4. ToldInv'
  BY DEF ToldInv, ToldAt, GivenUp, InCall
<1> QED
  BY <1>1, <1>2, <1>3, <1>4

LEMMA DestroyStep == IInv /\ Destroy => MainInv' /\ HandlersInv' /\ CallInv' /\ ToldInv'
<1> SUFFICES ASSUME IInv, Destroy PROVE MainInv' /\ HandlersInv' /\ CallInv' /\ ToldInv'
  OBVIOUS
<1> USE DEF IInv, Destroy, slotVars, conVars, Current
<1>1. MainInv'
  BY DEF MainInv, OneConnection
<1>2. HandlersInv'
  BY DEF HandlersInv, HandlersAt, Clearing
<1>3. CallInv'
  BY DEF CallInv, CallAt, GivenUp, Clearing
<1>4. ToldInv'
  BY DEF ToldInv, ToldAt, GivenUp, InCall
<1> QED
  BY <1>1, <1>2, <1>3, <1>4

LEMMA ClearStep == IInv /\ ~crashed /\ ClearHandlers => MainInv' /\ HandlersInv' /\ CallInv' /\ ToldInv'
<1> SUFFICES ASSUME IInv, ~crashed, ClearHandlers PROVE MainInv' /\ HandlersInv' /\ CallInv' /\ ToldInv'
  OBVIOUS
<1> USE DEF IInv, slotVars, Current
<1>1. UNCHANGED <<object, slotVars, con, endpoint, calling, told>>
  BY DEF ClearHandlers, TakeHandler
<1>2. MainInv'
  BY <1>1 DEF MainInv, OneConnection, ClearHandlers
<1>3. HandlersInv'
  <2>1. PICK event \in Event : TakeHandler(event) /\ ClearHandlers /\
           <<main, event, main'>> \in {<<"clear_close", "close", "clear_open">>,
              <<"clear_open", "open", "clear_fail">>, <<"clear_fail", "fail", "clear_message">>,
              <<"clear_message", "message", "close">>}
    BY DEF ClearHandlers
  <2>2. ASSUME NEW c \in Conn
        PROVE  handlers'[c] = IF c \in Current THEN handlers[c] \ {event} ELSE handlers[c]
    BY <2>1 DEF TakeHandler
  <2>3. ASSUME NEW c \in Conn PROVE handlers[c] \subseteq Event
    BY DEF TypeOK
  <2> SUFFICES ASSUME NEW c \in Conn PROVE HandlersAt(c)'
    BY DEF HandlersInv
  <2>4. handlers'[c] \subseteq handlers[c] /\ handlers[c] \ {event} \subseteq handlers'[c]
    BY <2>2
  <2>5. c \in Current => event \notin handlers'[c]
    BY <2>2
  <2>6. HandlersAt(c) /\ handlers[c] \subseteq {"open", "fail", "message", "close"}
    BY <2>3 DEF HandlersInv
  <2>7. main = "clear_close" => object = "base"
    BY DEF MainInv
  <2> QED
    BY <1>1, <2>1, <2>4, <2>5, <2>6, <2>7 DEF HandlersAt, Clearing
<1>4. CallInv'
  BY <1>1 DEF CallInv, CallAt, GivenUp, ClearHandlers
<1>5. ToldInv'
  BY <1>1 DEF ToldInv, ToldAt, GivenUp, InCall, ClearHandlers
<1> QED
  BY <1>2, <1>3, <1>4, <1>5

LEMMA CloseStep == IInv /\ CloseCurrent => MainInv' /\ HandlersInv' /\ CallInv' /\ ToldInv'
<1> SUFFICES ASSUME IInv, CloseCurrent PROVE MainInv' /\ HandlersInv' /\ CallInv' /\ ToldInv'
  OBVIOUS
<1> USE DEF IInv, CloseCurrent
<1>0. Current' = {} /\ main = "close" /\ main' \in {"join", "connect"} /\ object # "none"
  BY DEF Current, MainInv
<1>1. MainInv'
  BY <1>0 DEF MainInv, OneConnection
<1>2. HandlersInv'
  BY <1>0 DEF HandlersInv, HandlersAt, Clearing, TypeOK
<1>3. CallInv'
  <2> SUFFICES ASSUME NEW e \in Endpoint, calling[e] # NoCall PROVE CallAt(e)'
    BY DEF CallInv, CallAt
  <2>1. PICK c \in Conn : c = calling[e].hdl
    BY CalledEvents DEF Call
  <2>2. /\ con'[c] = "open" => con[c] = "open" /\ c \notin Current
        /\ con[c] \in {"open", "closing"} => con'[c] \in {"open", "closing"}
        /\ con[c] = "closed" => con'[c] = "closed"
    BY <2>1 DEF TypeOK
  <2>3. c \notin Current'
    BY <1>0
  <2> QED
    BY <2>1, <2>2, <2>3 DEF CallInv, CallAt, GivenUp
<1>4. ToldInv'
  <2> SUFFICES ASSUME NEW c \in Conn PROVE ToldAt(c)'
    BY DEF ToldInv
  <2>1. (con'[c] = con[c] /\ c \notin Current) \/ con'[c] # "open"
    BY DEF TypeOK
  <2>2. con'[c] \in Live => con[c] \in Live
    BY DEF TypeOK
  <2>3. con'[c] = "connecting" => con[c] = "connecting"
    BY DEF TypeOK
  <2> QED
    BY <1>0, <2>1, <2>2, <2>3 DEF ToldInv, ToldAt, GivenUp
<1> QED
  BY <1>1, <1>2, <1>3, <1>4

LEMMA CreateStep == IInv /\ CreateConnection => MainInv' /\ HandlersInv' /\ CallInv' /\ ToldInv'
<1> SUFFICES ASSUME IInv, CreateConnection PROVE MainInv' /\ HandlersInv' /\ CallInv' /\ ToldInv'
  OBVIOUS
<1> USE DEF IInv
<1>1. PICK c \in Conn, state \in {"connecting", "unstarted"} :
         /\ Unused(c)
         /\ con' = [con EXCEPT ![c] = state]
         /\ endpoint' = [endpoint EXCEPT ![c] = after]
         /\ handlers' = [handlers EXCEPT ![c] = Event]
         /\ told' = [told EXCEPT ![c] = "nothing"]
         /\ m_con' = IF after = "ws" THEN c ELSE m_con
         /\ m_sslCon' = IF after = "wss" THEN c ELSE m_sslCon
  BY DEF CreateConnection
<1>2. main = "connect" /\ main' = "idle" /\ Current = {} /\ object' = object /\ calling' = calling
  BY DEF CreateConnection, MainInv
<1>3. Current' = {c}
  BY <1>1, <1>2, NullAssumption DEF Current, CreateConnection, Endpoint
<1>4. MainInv'
  BY <1>1, <1>2, <1>3, NullAssumption DEF MainInv, OneConnection, Current, CreateConnection, Endpoint
<1>5. HandlersInv'
  BY <1>1, <1>2, <1>3 DEF HandlersInv, HandlersAt, Clearing, TypeOK
<1>6. ASSUME NEW e \in Endpoint, calling[e] # NoCall PROVE calling[e].hdl # c
  BY <1>1, <1>6, CalledEvents DEF Unused, InCall
<1>7. CallInv'
  BY <1>1, <1>2, <1>3, <1>6, CalledEvents DEF CallInv, CallAt, GivenUp, TypeOK, Call
<1>8. ToldInv'
  BY <1>1, <1>2, <1>3 DEF ToldInv, ToldAt, GivenUp, InCall, TypeOK
<1> QED
  BY <1>4, <1>5, <1>7, <1>8

LEMMA ReturnStep == IInv /\ ConnectReturns => MainInv' /\ HandlersInv' /\ CallInv' /\ ToldInv'
<1> SUFFICES ASSUME IInv, ConnectReturns PROVE MainInv' /\ HandlersInv' /\ CallInv' /\ ToldInv'
  OBVIOUS
<1> USE DEF IInv, ConnectReturns, slotVars, conVars, Current
<1>1. MainInv'
  BY DEF MainInv, OneConnection
<1>2. HandlersInv'
  BY DEF HandlersInv, HandlersAt, Clearing, MainInv
<1>3. CallInv'
  BY DEF CallInv, CallAt, GivenUp, Clearing, MainInv
<1>4. ToldInv'
  BY DEF ToldInv, ToldAt, GivenUp, InCall, MainInv
<1> QED
  BY <1>1, <1>2, <1>3, <1>4

LEMMA JoinStep == IInv /\ Join => MainInv' /\ HandlersInv' /\ CallInv' /\ ToldInv'
<1> SUFFICES ASSUME IInv, Join PROVE MainInv' /\ HandlersInv' /\ CallInv' /\ ToldInv'
  OBVIOUS
<1> USE DEF IInv, Join, slotVars, Current
<1>1. MainInv'
  BY DEF MainInv, OneConnection
<1>2. HandlersInv'
  BY DEF HandlersInv, HandlersAt, MainInv
<1>3. CallInv'
  BY DEF CallInv, CallAt
<1>4. ToldInv'
  BY DEF ToldInv, ToldAt
<1> QED
  BY <1>1, <1>2, <1>3, <1>4

LEMMA HappensStep ==
    ASSUME IInv, TypeOK', ~crashed, NEW c \in Conn,
           Opens(c) \/ Fails(c) \/ Message(c) \/ PeerCloses(c) \/ ClosingEnds(c)
    PROVE  MainInv' /\ HandlersInv' /\ CallInv' /\ ToldInv'
<1> USE DEF IInv
<1>1. PICK event \in Event, state \in ConState :
         /\ Happens(c, event, state)
         /\ <<con[c], event, state>> \in
               {<<"connecting", "open", "open">>, <<"connecting", "fail", "closed">>,
                <<"open", "message", "open">>, <<"open", "close", "closed">>,
                <<"closing", "close", "closed">>}
  BY DEF Opens, Fails, Message, PeerCloses, ClosingEnds
<1>2. UNCHANGED <<object, main, after, m_con, m_sslCon, endpoint, handlers, told, crashed>>
  BY <1>1 DEF Happens, mainVars, slotVars
<1>3. Current' = Current /\ (\A d \in Conn : GivenUp(d)' = GivenUp(d))
  BY <1>2 DEF Current, GivenUp
<1>4. con[c] \in Live /\ con' = [con EXCEPT ![c] = state]
  BY <1>1 DEF Happens
<1>5. ASSUME NEW e \in Endpoint, calling[e] # NoCall PROVE calling[e].hdl # c
  BY <1>1, <1>5 DEF Happens, CallInv, CallAt
<1>6. MainInv'
  BY <1>2, <1>3, <1>4 DEF MainInv, OneConnection
<1>7. HandlersInv'
  BY <1>1, <1>2, <1>3, <1>4 DEF HandlersInv, HandlersAt, TypeOK
<1>8. CallInv'
  <2> SUFFICES ASSUME NEW e \in Endpoint PROVE CallAt(e)'
    BY DEF CallInv
  <2>1. CASE calling'[e] = calling[e]
    BY <2>1, <1>2, <1>3, <1>4, <1>5, CalledEvents DEF CallInv, CallAt, TypeOK, Call
  <2>2. CASE calling'[e] # calling[e]
    <3>1. event \in handlers[c] /\ e = endpoint[c] /\ calling'[e] = [event |-> event, hdl |-> c]
      BY <2>2, <1>1 DEF Happens, TypeOK
    <3>2. event \in {"open", "message"} => c \in Current
      BY <3>1 DEF HandlersInv, HandlersAt
    <3>3. ~InCall(c, {"open"})
      BY <1>5, NullAssumption DEF InCall, NoCall
    <3>4. con'[c] = state
      BY <1>4 DEF TypeOK
    <3>5. event = "message" /\ told[c] = "nothing" => GivenUp(c)
      BY <1>1, <3>3 DEF ToldInv, ToldAt
    <3>6. told[c] \in {"nothing", "connected", "received"} /\ (con[c] = "connecting" => told[c] = "nothing")
      BY <1>1 DEF ToldInv, ToldAt
    <3> QED
      BY <1>1, <1>2, <1>3, <3>1, <3>2, <3>4, <3>5, <3>6 DEF CallAt
  <2> QED
    BY <2>1, <2>2
<1>9. ToldInv'
  <2> SUFFICES ASSUME NEW d \in Conn PROVE ToldAt(d)'
    BY DEF ToldInv
  <2>1. con'[c] = state /\ (d # c => con'[d] = con[d])
    BY <1>4 DEF TypeOK
  <2>2. ASSUME InCall(d, {"open"}) PROVE InCall(d, {"open"})'
    <3>1. PICK e \in Endpoint : calling[e].hdl = d /\ calling[e].event = "open"
      BY <2>2 DEF InCall
    <3>2. e # endpoint[c] /\ calling'[e] = calling[e]
      BY <1>1, <3>1, NullAssumption DEF Happens, NoCall, TypeOK
    <3> QED
      BY <3>1, <3>2 DEF InCall
  <2>3. CASE d # c
    BY <2>1, <2>2, <2>3, <1>2, <1>3 DEF ToldInv, ToldAt
  <2>4. CASE d = c
    <3>1. told[c] \in {"nothing", "connected", "received"} /\ (con[c] = "connecting" => told[c] = "nothing")
      BY <1>1 DEF ToldInv, ToldAt
    <3>2. CASE state = "open" /\ event = "open"
      <4>1. CASE "open" \in handlers[c]
        <5>1. calling'[endpoint[c]] = [event |-> "open", hdl |-> c] /\ endpoint[c] \in Endpoint
          BY <1>1, <3>2, <4>1 DEF Happens, TypeOK
        <5>2. InCall(c, {"open"})'
          BY <5>1 DEF InCall
        <5>3. con[c] = "connecting"
          BY <1>1, <3>2
        <5> QED
          BY <2>1, <2>4, <3>1, <3>2, <5>2, <5>3, <1>2 DEF ToldAt
      <4>2. CASE "open" \notin handlers[c]
        <5>1. GivenUp(c) /\ con[c] = "connecting"
          BY <1>1, <3>2, <4>2 DEF HandlersInv, HandlersAt, GivenUp, Clearing
        <5> QED
          BY <2>1, <2>4, <3>1, <3>2, <5>1, <1>2, <1>3 DEF ToldAt
      <4> QED
        BY <4>1, <4>2
    <3>3. CASE event = "message"
      BY <1>1, <2>1, <2>2, <2>4, <3>3, <1>2, <1>3 DEF ToldInv, ToldAt
    <3>4. CASE state = "closed"
      BY <2>1, <2>4, <3>4 DEF ToldAt
    <3> QED
      BY <1>1, <3>2, <3>3, <3>4
  <2> QED
    BY <2>3, <2>4
<1> QED
  BY <1>6, <1>7, <1>8, <1>9

\* A handler is done, whether it told the listener or ended the process.
LEMMA ReportStep ==
    ASSUME IInv, TypeOK', NEW e \in Endpoint, Handlers(e)
    PROVE  MainInv' /\ HandlersInv' /\ CallInv' /\ ToldInv'
<1> USE DEF IInv
<1>1. calling[e] # NoCall /\ calling' = [calling EXCEPT ![e] = NoCall]
  BY CalledEvents DEF Handlers, on_open, on_fail, on_message, on_close, Report, PureVirtualCall
<1>2. UNCHANGED <<object, main, after, m_con, m_sslCon, con, endpoint, handlers>>
  BY DEF Handlers, on_open, on_fail, on_message, on_close, Report, PureVirtualCall, mainVars, slotVars, conVars
<1>3. Current' = Current /\ (\A d \in Conn : GivenUp(d)' = GivenUp(d))
  BY <1>2 DEF Current, GivenUp
<1>4. PICK c \in Conn : c = calling[e].hdl /\ endpoint[c] = e
  BY <1>1, CalledEvents DEF Call, CallInv, CallAt
<1>5. MainInv' /\ HandlersInv'
  BY <1>2, <1>3 DEF MainInv, HandlersInv, HandlersAt, OneConnection
<1>6. ASSUME NEW f \in Endpoint, f # e, calling[f] # NoCall PROVE calling[f].hdl # c
  BY <1>4, <1>6 DEF CallInv, CallAt
<1>7. CASE PureVirtualCall(e)
  <2>1. crashed' /\ told' = told
    BY <1>7 DEF PureVirtualCall
  <2>2. CallInv'
    BY <1>1, <1>2, <1>3, <1>6, <2>1, CalledEvents DEF CallInv, CallAt, TypeOK, Call
  <2>3. ToldInv'
    BY <1>2, <1>3, <2>1 DEF ToldInv, ToldAt
  <2> QED
    BY <1>5, <2>2, <2>3
<1>8. ASSUME NEW event \in Event, NEW word \in Told, Report(e, event, word),
             <<event, word>> \in {<<"open", "connected">>, <<"fail", "failed">>,
                                 <<"message", "received">>, <<"close", "disconnected">>}
      PROVE  CallInv' /\ ToldInv'
  <2>1. calling[e].event = event /\ told' = [told EXCEPT ![c] = word] /\ crashed' = crashed
    BY <1>4, <1>8 DEF Report
  <2>2. CallInv'
    BY <1>1, <1>2, <1>3, <1>6, <2>1, CalledEvents DEF CallInv, CallAt, TypeOK, Call
  <2>3. con[c] = "open" => c \in Current /\ event \in {"open", "message"}
    BY <1>1, <1>4, <2>1, CalledEvents DEF CallInv, CallAt
  <2>4. con[c] # "connecting" /\ (event \in {"fail", "close"} => con[c] = "closed")
    BY <1>1, <1>4, <2>1, CalledEvents DEF CallInv, CallAt
  <2>5. ASSUME NEW d \in Conn, d # c PROVE InCall(d, {"open"})' <=> InCall(d, {"open"})
    BY <1>1, <1>4, <2>5, NullAssumption DEF InCall, NoCall, TypeOK
  <2>6. ToldInv'
    <3> SUFFICES ASSUME NEW d \in Conn PROVE ToldAt(d)'
      BY DEF ToldInv
    <3>1. CASE d = c
      BY <3>1, <1>2, <1>3, <1>8, <2>1, <2>3, <2>4 DEF ToldInv, ToldAt, TypeOK
    <3>2. CASE d # c
      BY <3>2, <1>2, <1>3, <2>1, <2>5 DEF ToldInv, ToldAt, TypeOK
    <3> QED
      BY <3>1, <3>2
  <2> QED
    BY <2>2, <2>6
<1> QED
  BY <1>5, <1>7, <1>8 DEF Handlers, on_open, on_fail, on_message, on_close

LEMMA InvariantStep == IInv /\ [Next]_vars => IInv'
<1> SUFFICES ASSUME IInv, [Next]_vars PROVE IInv'
  OBVIOUS
<1>1. TypeOK'
  BY TypeStep DEF IInv
<1> SUFFICES MainInv' /\ HandlersInv' /\ CallInv' /\ ToldInv'
  BY <1>1 DEF IInv
<1>2. CASE ~crashed /\ Calls
  BY <1>2, ConstructStep, BeginStep, DestroyStep DEF Calls, Connect, Disconnect
<1>3. CASE ~crashed /\ Main
  BY <1>3, ClearStep, CloseStep, CreateStep, ReturnStep, JoinStep DEF Main
<1>4. CASE ~crashed /\ (Network \/ Peers)
  BY <1>1, <1>4, HappensStep DEF Network, Peers
<1>5. CASE \E e \in Endpoint : Handlers(e)
  BY <1>1, <1>5, ReportStep
<1>6. CASE UNCHANGED vars
  <2>1. UNCHANGED <<object, main, m_con, m_sslCon, con, endpoint, handlers, calling, told, crashed>>
    BY <1>6 DEF vars, mainVars, slotVars, conVars
  <2>2. /\ Current' = Current
        /\ \A c \in Conn : GivenUp(c)' = GivenUp(c)
        /\ \A c \in Conn : InCall(c, {"open"})' = InCall(c, {"open"})
    BY <2>1 DEF Current, GivenUp, InCall
  <2>3. MainInv' /\ HandlersInv'
    BY <2>1, <2>2 DEF IInv, MainInv, OneConnection, HandlersInv, HandlersAt
  <2>4. CallInv'
    BY <2>1, <2>2 DEF IInv, CallInv, CallAt, GivenUp
  <2>5. ToldInv'
    BY <2>1, <2>2 DEF IInv, ToldInv, ToldAt
  <2> QED
    BY <2>3, <2>4, <2>5
<1> QED
  BY <1>2, <1>3, <1>4, <1>5, <1>6 DEF Next

LEMMA InvariantInit == Init => IInv
<1> SUFFICES ASSUME Init PROVE IInv
  OBVIOUS
<1>1. TypeOK
  BY DEF Init, TypeOK, Endpoint, Uri
<1>2. Current = {} /\ OneConnection
  BY DEF Init, Current, OneConnection
<1>3. MainInv
  BY <1>2 DEF Init, MainInv
<1>4. HandlersInv
  BY <1>2 DEF Init, HandlersInv, HandlersAt
<1>5. CallInv /\ ToldInv
  BY DEF Init, CallInv, CallAt, ToldInv, ToldAt
<1> QED
  BY <1>1, <1>3, <1>4, <1>5 DEF IInv

\* The inductive invariant: which handlers a connection still has, and what
\* the listener has heard of it, wherever the threads are.
THEOREM Invariant == Spec => []IInv
BY InvariantInit, InvariantStep, PTL DEF Spec

\* There is never a second current connection (websocketClient.cpp:150-151).
THEOREM OneConnectionAtATime == Spec => []OneConnection
<1>1. IInv => OneConnection
  BY DEF IInv, MainInv
<1> QED
  BY <1>1, Invariant, PTL

\* A thread enters a handler only by something that happens to a connection.
LEMMA CallingChanges ==
    ASSUME TypeOK, Next, NEW e \in Endpoint, calling'[e] # calling[e], calling'[e] # NoCall
    PROVE  \E c \in Conn, event \in Event, state \in ConState : Happens(c, event, state) /\ endpoint[c] = e
<1>1. \/ calling' = calling
      \/ \E f \in Endpoint : calling' = [calling EXCEPT ![f] = NoCall]
      \/ \E c \in Conn, event \in Event, state \in ConState : Happens(c, event, state)
  BY DEF Next, Calls, Construct, Connect, Disconnect, BeginDisconnect, Destroy, Main, ClearHandlers, TakeHandler,
         CloseCurrent, CreateConnection, ConnectReturns, Join, Network, Peers, Opens, Fails, ClosingEnds,
         Message, PeerCloses, Handlers, on_open, on_fail, on_message, on_close, Report, PureVirtualCall
<1>2. PICK c \in Conn, event \in Event, state \in ConState : Happens(c, event, state)
  BY <1>1 DEF TypeOK
<1>3. endpoint[c] = e
  BY <1>2 DEF Happens, TypeOK
<1> QED
  BY <1>2, <1>3

\* Nothing but the end of a connection that was given up reaches a handler
\* (websocketClient.cpp:112-114, 131-133).
THEOREM OthersAreSilent == Spec => OthersSilent
<1>1. IInv /\ [Next]_vars =>
        [\A e \in Endpoint :
            calling'[e] # calling[e] /\ calling'[e].event \in {"open", "fail", "message"}
                => calling'[e].hdl \in Current]_vars
  <2> SUFFICES ASSUME IInv, Next, NEW e \in Endpoint, calling'[e] # calling[e],
                      calling'[e].event \in {"open", "fail", "message"}
               PROVE  calling'[e].hdl \in Current
    OBVIOUS
  <2>1. calling'[e] # NoCall
    BY DEF NoCall
  <2>2. PICK c \in Conn, event \in Event, state \in ConState : Happens(c, event, state) /\ endpoint[c] = e
    BY <2>1, CallingChanges DEF IInv
  <2>3. calling'[e] = [event |-> event, hdl |-> c] /\ event \in handlers[c]
    BY <2>2 DEF Happens, IInv, TypeOK
  <2> QED
    BY <2>3 DEF IInv, HandlersInv, HandlersAt
<1> QED
  BY <1>1, Invariant, PTL DEF Spec, OthersSilent

\* What the listener hears of a connection is in order (websocketClient.h:97-110).
THEOREM ReportsAreOrdered == Spec => ReportsInOrder
<1>1. IInv /\ [Next]_vars =>
        [\A c \in Conn : told'[c] # told[c] =>
            \/ <<told[c], told'[c]>> \in Order
            \/ told[c] = "nothing" /\ told'[c] = "received" /\ GivenUp(c)]_vars
  <2> SUFFICES ASSUME IInv, Next, NEW c \in Conn, told'[c] # told[c]
               PROVE  \/ <<told[c], told'[c]>> \in Order
                      \/ told[c] = "nothing" /\ told'[c] = "received" /\ GivenUp(c)
    OBVIOUS
  <2> USE DEF IInv
  <2>1. told'[c] = "nothing" => <<told[c], told'[c]>> \in Order
    BY DEF Order, TypeOK
  <2>2. \/ told' = told
        \/ told'[c] = "nothing"
        \/ \E e \in Endpoint, event \in Event, word \in Told :
              /\ Report(e, event, word)
              /\ <<event, word>> \in {<<"open", "connected">>, <<"fail", "failed">>,
                                     <<"message", "received">>, <<"close", "disconnected">>}
    BY DEF Next, Calls, Construct, Connect, Disconnect, BeginDisconnect, Destroy, Main, ClearHandlers, TakeHandler,
           CloseCurrent, CreateConnection, ConnectReturns, Join, Network, Peers, Opens, Fails, ClosingEnds,
           Message, PeerCloses, Happens, Handlers, on_open, on_fail, on_message, on_close, PureVirtualCall, TypeOK
  <2>3. CASE told'[c] # "nothing"
    <3>1. PICK e \in Endpoint, event \in Event, word \in Told :
             /\ Report(e, event, word)
             /\ <<event, word>> \in {<<"open", "connected">>, <<"fail", "failed">>,
                                    <<"message", "received">>, <<"close", "disconnected">>}
      BY <2>2, <2>3
    <3>2. calling[e] # NoCall /\ calling[e].event = event /\ calling[e].hdl = c /\ told'[c] = word
      BY <3>1, CalledEvents DEF Report, TypeOK
    <3>3. CallAt(e)
      BY DEF CallInv
    <3> QED
      BY <3>1, <3>2, <3>3 DEF CallAt, Order
  <2> QED
    BY <2>1, <2>3
<1> QED
  BY <1>1, Invariant, PTL DEF Spec, ReportsInOrder
=============================================================================
