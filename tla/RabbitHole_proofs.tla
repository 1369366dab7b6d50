-------------------------- MODULE RabbitHole_proofs ---------------------------
(* Theorems about the retries of a rabbithole connection.                   *)
EXTENDS RabbitHole, WebsocketClient_proofs

USE DEF Event, Live, Told, ConState

\* What the transporter does to its websocket client: what WebsocketClient
\* describes, or the data races of connect and of the destructor.
LEMMA ClientSteps ==
    ASSUME RabbitTypeOK, [RabbitNext]_rabbitVars
    PROVE  \/ [Next]_vars
           \/ /\ ~crashed /\ crashed' \in BOOLEAN
              /\ \/ \E next \in Uri : BeginDisconnect(next)
                 \/ UNCHANGED <<mainVars, slotVars, conVars, calling, told>>
<1>1. CASE UNCHANGED rabbitVars
  BY <1>1 DEF rabbitVars
<1>2. ASSUME ~crashed, NEW uri \in UserUri, connect(uri)
      PROVE  /\ crashed' \in BOOLEAN
             /\ \/ \E next \in Uri : BeginDisconnect(next)
                \/ UNCHANGED <<mainVars, slotVars, conVars, calling, told>>
  <2>1. Converted(uri) \in Uri
    BY DEF Converted, UserUri, Uri, Endpoint
  <2>2. crashed' \in BOOLEAN
    BY <1>2 DEF connect, AssignUri
  <2> QED
    BY <1>2, <2>1, <2>2 DEF connect, mainVars, slotVars, conVars
<1>3. ASSUME ~crashed, New \/ BeginDelete \/ Delete PROVE [Next]_vars
  BY <1>3 DEF New, BeginDelete, Delete, Next, Calls
<1>4. ASSUME ~crashed, NEW i \in Intervals, setInterval(i) PROVE [Next]_vars
  BY <1>4 DEF setInterval, Next, Calls
<1>5. ASSUME ~crashed, RabbitMain PROVE [Next]_vars
  BY <1>5 DEF RabbitMain, Next
<1>6. ASSUME ~crashed, tryConnectTimerTimeout PROVE [Next]_vars
  BY <1>6 DEF tryConnectTimerTimeout, Idle, Next, Calls, RabbitTypeOK
<1>7. ASSUME ~crashed, NEW e \in Endpoint, RabbitHandlers(e) PROVE [Next]_vars
  BY <1>7 DEF RabbitHandlers, connected, failed, disconnected, received, Next, Handlers
<1>8. ASSUME ~crashed, Network \/ Peers PROVE [Next]_vars
  BY <1>8 DEF Next
<1>9. ASSUME NEW e \in Endpoint, receivedFreed(e)
      PROVE  crashed' \in BOOLEAN /\ UNCHANGED <<mainVars, slotVars, conVars, calling, told>>
  BY <1>9 DEF receivedFreed
<1> QED
  BY <1>1, <1>2, <1>3, <1>4, <1>5, <1>6, <1>7, <1>8, <1>9 DEF RabbitNext, RabbitCalls

LEMMA ClientStep == IInv /\ RabbitTypeOK /\ [RabbitNext]_rabbitVars => IInv'
<1> SUFFICES ASSUME IInv, RabbitTypeOK, [RabbitNext]_rabbitVars PROVE IInv'
  OBVIOUS
<1>1. CASE [Next]_vars
  BY <1>1, InvariantStep
<1>2. ASSUME ~crashed, crashed' \in BOOLEAN, NEW next \in Uri, BeginDisconnect(next) PROVE IInv'
  <2>1. TypeOK'
    BY <1>2 DEF RabbitTypeOK, TypeOK, BeginDisconnect, slotVars, conVars
  <2> QED
    BY <1>2, <2>1, BeginStep DEF IInv
<1>3. ASSUME ~crashed, crashed' \in BOOLEAN, UNCHANGED <<mainVars, slotVars, conVars, calling, told>> PROVE IInv'
  <2>1. UNCHANGED <<object, main, after, m_con, m_sslCon, con, endpoint, handlers, calling, told>>
    BY <1>3 DEF mainVars, slotVars, conVars
  <2>2. TypeOK'
    BY <1>3, <2>1 DEF RabbitTypeOK, TypeOK
  <2>3. /\ Current' = Current
        /\ \A c \in Conn : GivenUp(c)' = GivenUp(c)
        /\ \A c \in Conn : InCall(c, {"open"})' = InCall(c, {"open"})
    BY <2>1 DEF Current, GivenUp, InCall
  <2>4. MainInv' /\ HandlersInv'
    BY <2>1, <2>3 DEF IInv, MainInv, OneConnection, HandlersInv, HandlersAt
  <2>5. CallInv'
    BY <2>1, <2>3 DEF IInv, CallInv, CallAt, GivenUp
  <2>6. ToldInv'
    BY <1>3, <2>1, <2>3 DEF IInv, ToldInv, ToldAt
  <2> QED
    BY <2>2, <2>4, <2>5, <2>6 DEF IInv
<1> QED
  BY <1>1, <1>2, <1>3, ClientSteps

LEMMA RabbitTypeStep == RabbitTypeOK /\ IInv /\ [RabbitNext]_rabbitVars => RabbitTypeOK'
<1> SUFFICES ASSUME RabbitTypeOK, IInv, [RabbitNext]_rabbitVars PROVE RabbitTypeOK'
  OBVIOUS
<1>1. TypeOK'
  BY ClientStep DEF IInv
<1>2. /\ m_uri' \in Uri /\ m_doTryConnect' \in BOOLEAN /\ m_connectInterval' \in Int
      /\ timer' \in BOOLEAN /\ deleting' \in BOOLEAN
      /\ commands' \in 0 .. MaxCommands /\ paused' \in BOOLEAN
  <2> USE DEF RabbitTypeOK, ownVars, historyVars
  <2>1. Counted \in 0 .. MaxCommands
    BY DEF Counted, MaxCommands
  <2>2. CASE New \/ BeginDelete \/ Delete
    <3>1. CASE New
      <4>1. 0 \in 0 .. MaxCommands /\ 2 \in Int
        BY DEF MaxCommands
      <4> QED
        BY <3>1, <4>1, Zenon DEF New, Uri
    <3>2. CASE BeginDelete \/ Delete
      BY <3>2 DEF BeginDelete, Delete
    <3> QED
      BY <2>2, <3>1, <3>2
  <2>3. ASSUME NEW uri \in UserUri, connect(uri)
        PROVE  /\ m_uri' \in Uri /\ m_doTryConnect' \in BOOLEAN /\ m_connectInterval' \in Int
               /\ timer' \in BOOLEAN /\ deleting' \in BOOLEAN /\ commands' \in 0 .. MaxCommands /\ paused' \in BOOLEAN
    <3>1. Converted(uri) \in Uri
      BY DEF Converted, UserUri, Uri, Endpoint
    <3>2. m_doTryConnect' \in BOOLEAN
      BY <2>3 DEF connect
    <3>3. paused' \in BOOLEAN
      BY <2>3 DEF connect
    <3> QED
      BY <2>1, <2>3, <3>1, <3>2, <3>3 DEF connect, AssignUri
  <2>4. ASSUME NEW i \in Intervals, setInterval(i)
        PROVE  /\ m_uri' \in Uri /\ m_doTryConnect' \in BOOLEAN /\ m_connectInterval' \in Int
               /\ timer' \in BOOLEAN /\ deleting' \in BOOLEAN /\ commands' \in 0 .. MaxCommands /\ paused' \in BOOLEAN
    BY <2>1, <2>4, IntervalsAssumption DEF setInterval, tryConnect
  <2>5. CASE RabbitMain \/ tryConnectTimerTimeout
    BY <2>5 DEF RabbitMain, tryConnectTimerTimeout
  <2>6. ASSUME NEW e \in Endpoint, RabbitHandlers(e)
        PROVE  /\ UNCHANGED <<m_uri, m_doTryConnect, m_connectInterval, deleting, commands, paused>>
               /\ timer' \in BOOLEAN
    BY <2>6 DEF RabbitHandlers, connected, failed, disconnected, received, Retry, tryConnect
  <2>7. CASE UNCHANGED <<ownVars, timer, historyVars>>
    BY <2>7
  <2>8. CASE UNCHANGED rabbitVars \/ \E e \in Endpoint : receivedFreed(e)
    BY <2>8 DEF rabbitVars, receivedFreed
  <2> QED
    BY <2>2, <2>3, <2>4, <2>5, <2>6, <2>7, <2>8 DEF RabbitNext, RabbitCalls
<1> QED
  BY <1>1, <1>2 DEF RabbitTypeOK

LEMMA RabbitBasics == RabbitSpec => [](RabbitTypeOK /\ IInv)
<1>1. RabbitInit => RabbitTypeOK /\ IInv
  <2>1. RabbitInit => IInv
    BY InvariantInit DEF RabbitInit
  <2>2. RabbitInit => RabbitTypeOK
    <3>1. 0 \in 0 .. MaxCommands /\ 2 \in Int
      BY DEF MaxCommands
    <3> QED
      BY <2>1, <3>1, Zenon DEF RabbitInit, RabbitTypeOK, IInv, Uri
  <2> QED
    BY <2>1, <2>2
<1> QED
  BY <1>1, ClientStep, RabbitTypeStep, PTL DEF RabbitSpec

\* The transporter keeps its types.
THEOREM RabbitTypeCorrect == RabbitSpec => []RabbitTypeOK
BY RabbitBasics, PTL

\* The transporter hears at most one connection, and none when it makes the next,
\* although connect and the timer may come in any order and connect may be called
\* for either endpoint (websocketClient.cpp:110-133, 150-151,
\* RabbitholeServerTransporter.cpp:216-261).  A connection given up while it was
\* being made may still open beside it: nothing of it is heard but its end.
THEOREM TunnelIsOne == RabbitSpec => []OneTunnel
<1>1. ASSUME IInv, NEW c \in Conn, Heard(c) PROVE c \in Current
  BY <1>1 DEF IInv, HandlersInv, HandlersAt, Heard
<1>2. ASSUME IInv PROVE \A c, d \in Current : c = d
  BY <1>2 DEF IInv, MainInv, OneConnection, Current
<1>3. ASSUME IInv, main = "connect" PROVE Current = {}
  BY <1>3 DEF IInv, MainInv
<1>4. IInv => OneTunnel
  BY <1>1, <1>2, <1>3 DEF OneTunnel
<1> QED
  BY <1>4, RabbitBasics, PTL

-----------------------------------------------------------------------------
(* The retry is never lost.                                                *)

\* When nobody is busy, the retry is not lost.
Awaiting ==
    \/ timer
    \/ \E c \in Current : con[c] \in Live \cup {"unstarted"}
    \/ \E e \in Endpoint : Failing(e)

FailLeft == \A c \in Current : main \notin {"clear_message", "close"} => "fail" \in handlers[c]

LEMMA RetryParts ==
    RetryInv <=> /\ m_connectInterval <= 0 => paused
                 /\ object = "alive" /\ main # "idle" /\ ~paused => after = m_uri
                 /\ FailLeft
                 /\ Trying /\ main = "idle" => Awaiting
BY DEF RetryInv, FailLeft, Awaiting

LEMMA RetryCalls ==
    ASSUME RabbitTypeOK, IInv, RetryInv, RabbitCalls
    PROVE  RetryInv'
<1> USE DEF RetryInv, Failing, Current
<1>1. CASE New
  <2>1. main = "idle" /\ m_con = nullptr /\ m_sslCon = nullptr
    BY <1>1 DEF New, Construct, IInv, MainInv
  <2> QED
    <3>1. /\ UNCHANGED <<main, m_con, m_sslCon>> /\ m_connectInterval' = 2 /\ m_doTryConnect' = FALSE
      BY <1>1 DEF New, Construct, slotVars
    <3>2. Current' = {} /\ main' = "idle" /\ ~Trying'
      BY <2>1, <3>1 DEF Trying
    <3>3. ~(m_connectInterval' <= 0)
      BY <3>1
    <3> QED
      BY <3>2, <3>3
<1>2. CASE BeginDelete
  BY <1>2 DEF BeginDelete, vars, mainVars, slotVars, conVars, historyVars, Trying
<1>3. ASSUME NEW uri \in UserUri, connect(uri) PROVE RetryInv'
  <2>1. /\ object' = "alive" /\ main = "idle" /\ UNCHANGED <<m_con, m_sslCon, handlers, m_connectInterval>>
        /\ paused' = (m_connectInterval <= 0) /\ m_uri' = Converted(uri)
    BY <1>3 DEF connect, Idle, AssignUri, BeginDisconnect, mainVars, slotVars, conVars
  <2>2. CASE BeginsWithWs(Converted(uri))
    <3>1. main' = "clear_open" /\ after' = m_uri'
      BY <1>3, <2>1, <2>2 DEF connect, BeginDisconnect
    <3> QED
      BY <2>1, <3>1
  <2>3. CASE ~BeginsWithWs(Converted(uri))
    <3>1. main' = "idle" /\ m_uri' \notin Endpoint
      BY <1>3, <2>1, <2>3 DEF connect, mainVars, BeginsWithWs
    <3> QED
      BY <2>1, <3>1 DEF Trying
  <2> QED
    BY <2>2, <2>3
<1>4. ASSUME NEW i \in Intervals, setInterval(i) PROVE RetryInv'
  <2>1. /\ object' = "alive" /\ main = "idle" /\ UNCHANGED <<m_con, m_sslCon, handlers, m_uri>>
        /\ m_connectInterval' = i /\ (paused' <=> paused \/ i <= 0) /\ i \in Int
    BY <1>4, IntervalsAssumption DEF setInterval, Idle, Disconnect, BeginDisconnect, vars, mainVars, slotVars, conVars
  <2>2. CASE i <= 0
    BY <2>1, <2>2 DEF Trying
  <2>3. CASE ~(i <= 0)
    <3>1. main' = "idle" /\ i > 0
      BY <1>4, <2>1, <2>3 DEF setInterval, vars, mainVars
    <3>2. CASE m_connectInterval <= 0
      BY <2>1, <3>1, <3>2 DEF Trying
    <3>3. CASE ~(m_connectInterval <= 0)
      <4>1. Trying' => timer'
        <5>1. m_connectInterval > 0
          BY <3>3 DEF RabbitTypeOK
        <5>2. Trying' => m_uri # ""
          BY <2>1 DEF Trying, Endpoint
        <5> QED
          BY <1>4, <2>1, <3>1, <5>1, <5>2, Zenon DEF setInterval, tryConnect
      <4> QED
        BY <2>1, <3>1, <4>1
    <3> QED
      BY <3>2, <3>3
  <2> QED
    BY <2>2, <2>3
<1> QED
  BY <1>1, <1>2, <1>3, <1>4 DEF RabbitCalls

LEMMA RetryMain ==
    ASSUME RabbitTypeOK, IInv, RetryInv, RabbitMain
    PROVE  RetryInv'
<1> USE DEF RetryInv, Failing, RabbitMain, ownVars, historyVars
<1>1. UNCHANGED <<m_uri, m_doTryConnect, m_connectInterval, timer, paused>>
  OBVIOUS
<1>2. CASE ClearHandlers
  <2>1. /\ main # "idle" /\ main' # "idle" /\ UNCHANGED <<object, after, m_con, m_sslCon>>
    BY <1>2 DEF ClearHandlers, TakeHandler, slotVars
  <2>2. main' \notin {"clear_message", "close"} =>
          /\ main \notin {"clear_message", "close"}
          /\ \A c \in Conn : "fail" \in handlers[c] => "fail" \in handlers'[c]
    BY <1>2 DEF ClearHandlers, TakeHandler
  <2>3. Current' = Current /\ Current \subseteq Conn
    BY <2>1 DEF Current, IInv, TypeOK
  <2> QED
    BY <1>1, <2>1, <2>2, <2>3
<1>3. CASE CloseCurrent
  BY <1>1, <1>3 DEF CloseCurrent, Current
<1>4. CASE CreateConnection
  <2>1. PICK c \in Conn :
           /\ con'[c] \in {"connecting", "unstarted"} /\ handlers'[c] = Event
           /\ m_con' = (IF after = "ws" THEN c ELSE m_con)
           /\ m_sslCon' = (IF after = "wss" THEN c ELSE m_sslCon)
    BY <1>4 DEF CreateConnection, IInv, TypeOK
  <2>2. m_con = nullptr /\ m_sslCon = nullptr
    BY <1>4 DEF CreateConnection, IInv, MainInv, Current
  <2>3. main' = "idle" /\ Current' = {c}
    BY <1>4, <2>1, <2>2, NullAssumption DEF CreateConnection, Current, Endpoint
  <2> QED
    BY <1>1, <2>1, <2>3
<1>5. CASE ConnectReturns
  <2>1. ~Trying'
    BY <1>1, <1>5 DEF ConnectReturns, Trying
  <2> QED
    BY <1>1, <1>5, <2>1 DEF ConnectReturns, slotVars, conVars, Current
<1>6. CASE Join
  <2>1. m_con' = nullptr /\ m_sslCon' = nullptr
    BY <1>6 DEF Join, slotVars, IInv, MainInv, Current
  <2> QED
    BY <1>1, <1>6, <2>1 DEF Join, Trying, Current
<1> QED
  BY <1>2, <1>3, <1>4, <1>5, <1>6 DEF Main

LEMMA RetryTimeout ==
    ASSUME RabbitTypeOK, IInv, RetryInv, tryConnectTimerTimeout
    PROVE  RetryInv'
<1> USE DEF RetryInv, Failing, tryConnectTimerTimeout, Idle, ownVars, historyVars, Current
<1>1. CASE m_uri # ""
  BY <1>1 DEF Connect, BeginDisconnect, slotVars, conVars
<1>2. CASE m_uri = ""
  BY <1>2 DEF vars, mainVars, slotVars, conVars, Trying, Endpoint
<1> QED
  BY <1>1, <1>2

LEMMA RetryDestructor ==
    ASSUME RabbitTypeOK, IInv, RetryInv, Delete \/ \E e \in Endpoint : receivedFreed(e)
    PROVE  RetryInv'
<1> USE DEF RetryInv, Failing, Current
<1>1. CASE Delete
  BY <1>1 DEF Delete, Destroy, slotVars, conVars, historyVars, Trying
<1>2. ASSUME NEW e \in Endpoint, receivedFreed(e) PROVE RetryInv'
  BY <1>2 DEF receivedFreed, mainVars, slotVars, conVars, ownVars, historyVars, Trying
<1> QED
  BY <1>1, <1>2

LEMMA RetryHandlers ==
    ASSUME RabbitTypeOK, IInv, RetryInv, NEW e \in Endpoint, RabbitHandlers(e)
    PROVE  RetryInv'
<1>1. /\ UNCHANGED <<object, main, after, m_con, m_sslCon, con, handlers>>
      /\ UNCHANGED <<m_uri, m_doTryConnect, m_connectInterval, paused>>
  BY DEF RabbitHandlers, connected, failed, disconnected, received, on_open, on_fail, on_close, on_message,
         Report, PureVirtualCall, mainVars, slotVars, conVars, ownVars, historyVars
<1>2. Current' = Current /\ (Trying' <=> Trying)
  BY <1>1 DEF Current, Trying
<1>3. ASSUME Trying, Awaiting PROVE Awaiting'
  <2>1. CASE failed(e) \/ disconnected(e)
    <3>1. timer'
      BY <1>1, <1>3, <2>1 DEF failed, disconnected, Retry, tryConnect, Trying, Endpoint
    <3> QED
      BY <3>1 DEF Awaiting
  <2>2. CASE connected(e) \/ received(e)
    <3>1. timer' = timer /\ ~Failing(e) /\ \A f \in Endpoint : f # e => calling'[f] = calling[f]
      BY <2>2 DEF connected, received, on_open, on_message, Report, Failing, IInv, TypeOK
    <3>2. \A f \in Endpoint : Failing(f) => Failing(f)'
      BY <3>1 DEF Failing
    <3> QED
      BY <1>1, <1>2, <1>3, <3>1, <3>2 DEF Awaiting
  <2>3. CASE PureVirtualCall(e)
    BY <1>3, <2>3 DEF PureVirtualCall, Trying
  <2> QED
    BY <2>1, <2>2, <2>3 DEF RabbitHandlers
<1> QED
  BY <1>1, <1>2, <1>3, RetryParts DEF RetryInv, Awaiting

LEMMA RetryHappens ==
    ASSUME RabbitTypeOK, IInv, RetryInv, Network \/ Peers, UNCHANGED <<ownVars, timer, historyVars>>
    PROVE  RetryInv'
<1>1. PICK c \in Conn : Opens(c) \/ Fails(c) \/ ClosingEnds(c) \/ Message(c) \/ PeerCloses(c)
  BY DEF Network, Peers
<1>2. PICK event \in Event, state \in ConState : Happens(c, event, state)
  BY <1>1 DEF Opens, Fails, ClosingEnds, Message, PeerCloses
<1>3. /\ UNCHANGED <<object, main, after, m_con, m_sslCon, handlers, endpoint>>
      /\ UNCHANGED <<m_uri, m_doTryConnect, m_connectInterval, paused, timer>>
  BY <1>2 DEF Happens, mainVars, slotVars, ownVars, historyVars
<1>4. Current' = Current /\ (Trying' <=> Trying)
  BY <1>3 DEF Current, Trying
<1>5. \A f \in Endpoint : Failing(f) => Failing(f)'
  <2> SUFFICES ASSUME NEW f \in Endpoint, Failing(f) PROVE Failing(f)'
    OBVIOUS
  <2>1. f # endpoint[c]
    BY <1>2 DEF Happens, Failing, NoCall
  <2>2. calling'[f] = calling[f]
    BY <1>2, <2>1 DEF Happens, IInv, TypeOK
  <2> QED
    BY <2>2 DEF Failing
<1>6. ASSUME Trying, main = "idle", c \in Current, con[c] \in Live
      PROVE  con'[c] \in Live \/ \E f \in Endpoint : Failing(f)'
  <2>1. "fail" \in handlers[c]
    BY <1>6 DEF RetryInv
  <2>2. "close" \in handlers[c]
    BY <1>6 DEF IInv, HandlersInv, HandlersAt, Trying
  <2>3. CASE Opens(c) \/ Message(c)
    BY <2>3 DEF Opens, Message, Happens, IInv, TypeOK
  <2>4. CASE Fails(c) \/ ClosingEnds(c) \/ PeerCloses(c)
    <3>1. calling'[endpoint[c]].event \in {"fail", "close"} /\ endpoint[c] \in Endpoint
      BY <2>1, <2>2, <2>4 DEF Fails, ClosingEnds, PeerCloses, Happens, IInv, TypeOK
    <3> QED
      BY <3>1 DEF Failing
  <2> QED
    BY <1>1, <2>3, <2>4
<1>7. ASSUME Trying, main = "idle", Awaiting PROVE Awaiting'
  <2>1. con[c] \in Live
    BY <1>1 DEF Opens, Fails, ClosingEnds, Message, PeerCloses
  <2>2. ASSUME NEW d \in Current, con[d] \in Live \cup {"unstarted"} PROVE Awaiting'
    <3>1. CASE d = c
      BY <1>4, <1>6, <1>7, <2>1, <3>1 DEF Awaiting
    <3>2. CASE d # c
      <4>1. con'[d] = con[d]
        BY <1>2, <3>2 DEF Happens, IInv, TypeOK, Current
      <4> QED
        BY <1>4, <2>2, <4>1 DEF Awaiting
    <3> QED
      BY <3>1, <3>2
  <2>3. timer => Awaiting'
    BY <1>3 DEF Awaiting
  <2>4. (\E f \in Endpoint : Failing(f)) => Awaiting'
    BY <1>5 DEF Awaiting
  <2> QED
    BY <1>7, <2>2, <2>3, <2>4 DEF Awaiting
<1> QED
  BY <1>3, <1>4, <1>7 DEF RetryInv, Awaiting

LEMMA RetryStep == RabbitTypeOK /\ IInv /\ RetryInv /\ [RabbitNext]_rabbitVars => RetryInv'
<1> SUFFICES ASSUME RabbitTypeOK, IInv, RetryInv, [RabbitNext]_rabbitVars PROVE RetryInv'
  OBVIOUS
<1>1. CASE UNCHANGED rabbitVars
  BY <1>1 DEF rabbitVars, vars, mainVars, slotVars, conVars, ownVars, historyVars, RetryInv, Failing, Current, Trying
<1> QED
  BY <1>1, RetryCalls, RetryMain, RetryDestructor, RetryTimeout, RetryHandlers, RetryHappens DEF RabbitNext

\* In every order of handlers, timeouts and calls from the patch, a rabbithole
\* connection that has failed or ended will be tried again: the timer is running
\* (RabbitholeServerTransporter.cpp:143-196, 237-270).
THEOREM RetryIsPending == RabbitSpec => []RetryPending
<1>1. RabbitInit => RetryInv
  <2> SUFFICES ASSUME RabbitInit PROVE RetryInv
    OBVIOUS
  <2>1. main = "idle" /\ object = "none" /\ m_con = nullptr /\ m_sslCon = nullptr /\ m_connectInterval = 2
    BY DEF RabbitInit, Init
  <2>2. Current = {} /\ ~Trying /\ ~(m_connectInterval <= 0)
    BY <2>1 DEF Current, Trying
  <2> QED
    BY <2>1, <2>2 DEF RetryInv
<1>2. RabbitTypeOK /\ RetryInv => RetryPending
  <2> SUFFICES ASSUME RabbitTypeOK, RetryInv, Trying, Down PROVE timer
    BY DEF RetryPending
  <2>1. ~\E e \in Endpoint : Failing(e)
    BY DEF Down, Failing, NoCall
  <2>2. Current \subseteq Conn
    BY DEF RabbitTypeOK, TypeOK, Current
  <2> QED
    BY <2>1, <2>2 DEF RetryInv, Down
<1> QED
  BY <1>1, <1>2, RabbitBasics, RetryStep, PTL DEF RabbitSpec

-----------------------------------------------------------------------------
(* A single connect leads to one attempt at a time.                        *)

\* A step that starts no attempt where there was none.
LEMMA AttemptMoves ==
    ASSUME RabbitTypeOK, OneAttempt, object' = object, commands' = commands, m_uri' = m_uri,
           timer' => timer, main' = main,
           \A c \in Conn : con'[c] \in Live => con[c] \in Live,
           \A e \in Endpoint : Failing(e)' => Failing(e)
    PROVE  OneAttempt'
BY DEF OneAttempt, Busy, NoneLive, NoneFailing

LEMMA NoAttempt ==
    ASSUME commands' # 0, ~timer', NoneLive', NoneFailing'
    PROVE  OneAttempt'
<1>1. \A c, d \in Conn : con'[c] \in Live /\ con'[d] \in Live => c = d
  BY DEF NoneLive
<1>2. \A e, f \in Endpoint : Failing(e)' /\ Failing(f)' => e = f
  BY DEF NoneFailing
<1> QED
  BY <1>1, <1>2 DEF OneAttempt

LEMMA BeforeCommands ==
    ASSUME OneAttempt, object = "alive", commands = 0
    PROVE  m_uri = "" /\ ~timer /\ NoneLive /\ NoneFailing
<1>1. commands <= 1
  OBVIOUS
<1> QED
  BY <1>1 DEF OneAttempt

LEMMA FirstCommand ==
    ASSUME commands \in 0 .. MaxCommands, commands' = Counted, commands' <= 1
    PROVE  commands = 0 /\ commands' = 1
BY DEF Counted, MaxCommands

LEMMA AttemptCalls ==
    ASSUME RabbitTypeOK, IInv, OneAttempt, RabbitCalls
    PROVE  OneAttempt'
<1>1. CASE New
  <2>1. main = "idle" /\ NoneLive /\ object = "none" /\ \A c \in Conn : con[c] = "unused"
    BY <1>1 DEF New, Construct, IInv, MainInv, NoneLive
  <2>2. NoneFailing
    <3> SUFFICES ASSUME NEW e \in Endpoint, Failing(e) PROVE FALSE
      BY DEF NoneFailing
    <3>1. calling[e].event \in {"fail", "close"} /\ calling[e] \in Call \cup {NoCall}
      BY DEF Failing, RabbitTypeOK, TypeOK
    <3>2. NoCall.event = "none"
      BY DEF NoCall
    <3>3. calling[e] \in Call
      BY <3>1, <3>2
    <3>4. calling[e].hdl \in Conn /\ calling[e] # NoCall
      BY <3>1, <3>2, <3>3 DEF Call
    <3> QED
      BY <2>1, <3>1, <3>4 DEF IInv, CallInv, CallAt
  <2>3. UNCHANGED <<main, con, calling>> /\ timer' = FALSE /\ m_uri' = ""
    BY <1>1 DEF New, Construct, conVars
  <2> QED
    BY <2>1, <2>2, <2>3 DEF Failing, OneAttempt, Busy, NoneLive, NoneFailing
<1>2. CASE BeginDelete
  <2>1. UNCHANGED <<object, main, con, calling, m_uri, commands>> /\ ~timer'
    BY <1>2 DEF BeginDelete, vars, mainVars, conVars, historyVars
  <2> QED
    BY <2>1, AttemptMoves DEF Failing
<1>3. ASSUME NEW uri \in UserUri, connect(uri), commands' <= 1 PROVE OneAttempt'
  <2>1. commands = 0 /\ commands' = 1
    BY <1>3, FirstCommand DEF connect, RabbitTypeOK
  <2>2. UNCHANGED <<con, calling, timer, object>> /\ object = "alive"
    BY <1>3 DEF connect, Idle, BeginDisconnect, mainVars, conVars
  <2>3. ~timer' /\ NoneLive' /\ NoneFailing'
    <3>1. ~timer' /\ NoneLive /\ NoneFailing
      BY <2>1, <2>2, BeforeCommands
    <3> QED
      BY <2>2, <3>1 DEF Failing, NoneLive, NoneFailing
  <2> QED
    BY <2>1, <2>3, NoAttempt
<1>4. ASSUME NEW i \in Intervals, setInterval(i), commands' <= 1 PROVE OneAttempt'
  <2>1. commands = 0 /\ commands' = 1
    BY <1>4, FirstCommand DEF setInterval, RabbitTypeOK
  <2>2. UNCHANGED <<con, calling, object, m_uri>> /\ object = "alive"
    BY <1>4 DEF setInterval, Idle, Disconnect, BeginDisconnect, vars, mainVars, conVars
  <2>3. m_uri = "" /\ ~timer /\ NoneLive /\ NoneFailing
    BY <2>1, <2>2, BeforeCommands
  <2>4. ~timer'
    BY <1>4, <2>3 DEF setInterval, tryConnect
  <2>5. NoneLive' /\ NoneFailing'
    BY <2>2, <2>3 DEF Failing, NoneLive, NoneFailing
  <2> QED
    BY <2>1, <2>4, <2>5, NoAttempt
<1>5. commands' <= 1 \/ OneAttempt'
  BY DEF OneAttempt
<1> QED
  BY <1>1, <1>2, <1>3, <1>4, <1>5 DEF RabbitCalls

LEMMA AttemptMain ==
    ASSUME RabbitTypeOK, IInv, OneAttempt, RabbitMain
    PROVE  OneAttempt'
<1> USE DEF OneAttempt, Busy, NoneLive, NoneFailing
<1>1. UNCHANGED <<m_uri, timer, commands, calling>> /\ main # "idle" /\ (object' = "alive" => object = "alive")
  BY DEF RabbitMain, ownVars, historyVars, Main, ClearHandlers, TakeHandler, CloseCurrent, CreateConnection,
         ConnectReturns, Join
<1>2. \A e \in Endpoint : Failing(e)' <=> Failing(e)
  BY <1>1 DEF Failing
<1>3. CASE CreateConnection
  <2>1. PICK c \in Conn, state \in {"connecting", "unstarted"} : con' = [con EXCEPT ![c] = state]
    BY <1>3 DEF CreateConnection
  <2>2. \A d \in Conn : d # c => con'[d] = con[d]
    BY <2>1 DEF IInv, TypeOK
  <2>3. main' = "idle"
    BY <1>3 DEF CreateConnection
  <2> QED
    BY <1>1, <1>2, <2>2, <2>3
<1>4. CASE ~CreateConnection
  <2>1. \A c \in Conn : con'[c] \in Live => con[c] \in Live
    BY <1>4 DEF RabbitMain, Main, ClearHandlers, TakeHandler, CloseCurrent, ConnectReturns, Join, conVars
  <2> QED
    BY <1>1, <1>2, <2>1
<1> QED
  BY <1>3, <1>4

LEMMA AttemptTimeout ==
    ASSUME RabbitTypeOK, IInv, OneAttempt, tryConnectTimerTimeout
    PROVE  OneAttempt'
<1>1. /\ object = "alive" /\ timer /\ timer' = FALSE
      /\ UNCHANGED <<object, con, calling, m_uri, commands>>
  BY DEF tryConnectTimerTimeout, Idle, Connect, BeginDisconnect, conVars, vars, mainVars, ownVars, historyVars
<1> QED
  BY <1>1 DEF OneAttempt, Busy, NoneLive, NoneFailing, Failing

LEMMA AttemptDestructor ==
    ASSUME RabbitTypeOK, IInv, OneAttempt, Delete \/ \E e \in Endpoint : receivedFreed(e)
    PROVE  OneAttempt'
<1>1. CASE Delete
  BY <1>1 DEF Delete, Destroy, OneAttempt
<1>2. ASSUME NEW e \in Endpoint, receivedFreed(e) PROVE OneAttempt'
  BY <1>2, AttemptMoves DEF receivedFreed, mainVars, conVars, ownVars, historyVars, Failing
<1> QED
  BY <1>1, <1>2

\* The handler of an end gives its attempt to the timer.
LEMMA AttemptHandlers ==
    ASSUME RabbitTypeOK, IInv, OneAttempt, NEW e \in Endpoint, RabbitHandlers(e)
    PROVE  OneAttempt'
<1>1. /\ UNCHANGED <<main, con, m_uri, commands>>
      /\ object' = object /\ calling' = [calling EXCEPT ![e] = NoCall]
  BY DEF RabbitHandlers, connected, failed, disconnected, received, on_open, on_fail, on_close, on_message,
         Report, PureVirtualCall, mainVars, conVars, ownVars, historyVars
<1>2. ~Failing(e)' /\ \A f \in Endpoint : f # e => (Failing(f)' <=> Failing(f))
  BY <1>1 DEF Failing, NoCall, IInv, TypeOK
<1>3. CASE connected(e) \/ received(e) \/ PureVirtualCall(e)
  <2>1. timer' = timer
    BY <1>3 DEF connected, received, RabbitHandlers, PureVirtualCall, on_open, on_message, on_fail, on_close,
                Report, failed, disconnected, NoCall
  <2> QED
    BY <1>1, <1>2, <2>1, AttemptMoves
<1>4. CASE failed(e) \/ disconnected(e)
  <2>1. Failing(e)
    BY <1>4 DEF failed, disconnected, on_fail, on_close, Report, Failing
  <2> QED
    BY <1>1, <1>2, <2>1 DEF OneAttempt, Busy, NoneLive, NoneFailing
<1> QED
  BY <1>3, <1>4 DEF RabbitHandlers

\* The end of a connection gives its attempt to the handler.
LEMMA AttemptHappens ==
    ASSUME RabbitTypeOK, IInv, OneAttempt, Network \/ Peers, UNCHANGED <<ownVars, timer, historyVars>>
    PROVE  OneAttempt'
<1>1. PICK c \in Conn : Opens(c) \/ Fails(c) \/ ClosingEnds(c) \/ Message(c) \/ PeerCloses(c)
  BY DEF Network, Peers
<1>2. PICK event \in Event, state \in ConState :
         /\ Happens(c, event, state)
         /\ event \in {"fail", "close"} => state = "closed"
  BY <1>1 DEF Opens, Fails, ClosingEnds, Message, PeerCloses
<1>3. UNCHANGED <<object, main, m_uri, timer, commands>> /\ con[c] \in Live
  BY <1>1, <1>2 DEF Happens, mainVars, ownVars, historyVars, Opens, Fails, ClosingEnds, Message, PeerCloses
<1>4. con'[c] = state /\ \A d \in Conn : d # c => con'[d] = con[d]
  BY <1>2 DEF Happens, IInv, TypeOK
<1>5. \A d \in Conn : con'[d] \in Live => con[d] \in Live
  BY <1>3, <1>4
<1>6. CASE event \in {"fail", "close"}
  <2>1. con'[c] \notin Live /\ endpoint[c] \in Endpoint
    BY <1>2, <1>4, <1>6 DEF IInv, TypeOK
  <2>2. \A f \in Endpoint : f # endpoint[c] => (Failing(f)' <=> Failing(f))
    BY <1>2 DEF Happens, Failing, IInv, TypeOK
  <2>3. OneAttempt => /\ NoneLive' \/ ~\A d, f \in Conn : con[d] \in Live /\ con[f] \in Live => d = f
                      /\ ~NoneLive
    BY <1>3, <1>5, <2>1 DEF NoneLive
  <2>4. ASSUME object = "alive", commands <= 1
        PROVE  NoneLive' /\ NoneFailing /\ ~timer /\ ~Busy /\ commands # 0
    BY <1>3, <2>3, <2>4 DEF OneAttempt
  <2>5. ASSUME object = "alive", commands <= 1, NEW e \in Endpoint, NEW f \in Endpoint, Failing(e)', Failing(f)'
        PROVE  e = f
    BY <2>2, <2>4, <2>5 DEF NoneFailing
  <2>6. NoneLive' => \A d, f \in Conn : con'[d] \in Live /\ con'[f] \in Live => d = f
    BY DEF NoneLive
  <2> SUFFICES ASSUME object' = "alive", commands' <= 1 PROVE OneAttempt'
    BY DEF OneAttempt
  <2>7. NoneLive' /\ NoneFailing /\ ~timer' /\ ~Busy' /\ commands' # 0
    BY <1>3, <2>4 DEF Busy
  <2> QED
    BY <1>3, <2>5, <2>6, <2>7 DEF OneAttempt
<1>7. CASE event \notin {"fail", "close"}
  <2>1. \A f \in Endpoint : Failing(f)' => Failing(f)
    BY <1>2, <1>7 DEF Happens, Failing, IInv, TypeOK
  <2> QED
    BY <1>3, <1>5, <2>1, AttemptMoves
<1> QED
  BY <1>6, <1>7

LEMMA AttemptStep == RabbitTypeOK /\ IInv /\ OneAttempt /\ [RabbitNext]_rabbitVars => OneAttempt'
<1> SUFFICES ASSUME RabbitTypeOK, IInv, OneAttempt, [RabbitNext]_rabbitVars PROVE OneAttempt'
  OBVIOUS
<1>1. CASE UNCHANGED rabbitVars
  BY <1>1, AttemptMoves DEF rabbitVars, vars, mainVars, conVars, ownVars, historyVars, Failing
<1> QED
  BY <1>1, AttemptCalls, AttemptMain, AttemptDestructor, AttemptTimeout, AttemptHandlers, AttemptHappens
     DEF RabbitNext

\* After a single command, whatever the network does, the timer runs out only while
\* no connection is being made, open or closing, given up or not
\* (RabbitholeServerTransporter.cpp:254-261).
THEOREM TimerNeverInterrupts == RabbitSpec => NeverInterrupts
<1>1. RabbitInit => OneAttempt
  BY DEF RabbitInit, Init, OneAttempt
<1>2. OneAttempt /\ tryConnectTimerTimeout /\ commands <= 1 => \A c \in Conn : con[c] \notin Live
  BY DEF OneAttempt, NoneLive, tryConnectTimerTimeout, Idle
<1>3. RabbitSpec => []OneAttempt
  BY <1>1, AttemptStep, RabbitBasics, PTL DEF RabbitSpec
<1> QED
  BY <1>2, <1>3, RabbitBasics, PTL DEF NeverInterrupts
=============================================================================
