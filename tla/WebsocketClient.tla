--------------------------- MODULE WebsocketClient ---------------------------
(***************************************************************************)
(* sources/websocketClient.cpp, .h: the websocket client under rcp.client,  *)
(* ws.client and the rabbithole of rcp.server.  It owns two asio endpoints, *)
(* one for "ws" and one for "wss" addresses, each run by a thread of its    *)
(* own; Pd's thread connects, disconnects and deletes.  m_con and m_sslCon  *)
(* are the current connections.                                             *)
(*                                                                         *)
(* A connection lives on in its endpoint when the client forgets it: it     *)
(* keeps the handlers that were not taken from it.  The library changes the *)
(* state of a connection and then calls the handler, on the endpoint's      *)
(* thread: an event and its report to the listener are two steps.           *)
(*                                                                         *)
(* Connections that have ended are used again for new ones, so that the     *)
(* client may reconnect for ever.  told is a history variable: the last     *)
(* thing the listener was told of a connection.                             *)
(***************************************************************************)
EXTENDS Naturals

CONSTANTS
    Conn,           \* bound: connections that exist at the same time
    nullptr

ASSUME NullAssumption == nullptr \notin Conn

VARIABLES
    object,         \* "none", "alive", or "base": the derived part is destroyed
    main,           \* where Pd's thread is, or "idle"
    after,          \* what it does when disconnect() is done
    m_con, m_sslCon,
    con,            \* the state of each connection
    endpoint,       \* the endpoint it belongs to
    handlers,       \* the handlers set on it
    calling,        \* per endpoint: the handler its thread is in
    told,
    crashed         \* the process has been terminated

mainVars == <<object, main, after>>
slotVars == <<m_con, m_sslCon>>
conVars == <<con, endpoint, handlers>>
vars == <<mainVars, slotVars, conVars, calling, told, crashed>>

Endpoint == {"ws", "wss"}
\* "other" does not begin with ws; get_connection() rejects "invalid".
Uri == Endpoint \cup {"", "other", "invalid"}

Event == {"open", "fail", "message", "close"}
ConState == {"unused", "unstarted", "connecting", "open", "closing", "closed"}
Live == {"connecting", "open", "closing"}
Told == {"nothing", "connected", "received", "failed", "disconnected"}

NoCall == [event |-> "none", hdl |-> nullptr]
Call == [event : Event, hdl : Conn]

TypeOK ==
    /\ object \in {"none", "alive", "base"}
    /\ main \in {"idle", "clear_close", "clear_open", "clear_fail", "clear_message", "close",
                "connect", "join"}
    /\ after \in Uri \cup {"return", "join"}
    /\ m_con \in Conn \cup {nullptr}
    /\ m_sslCon \in Conn \cup {nullptr}
    /\ con \in [Conn -> ConState]
    /\ endpoint \in [Conn -> Endpoint]
    /\ handlers \in [Conn -> SUBSET Event]
    /\ calling \in [Endpoint -> Call \cup {NoCall}]
    /\ told \in [Conn -> Told]
    /\ crashed \in BOOLEAN

Init ==
    /\ object = "none"
    /\ main = "idle"
    /\ after = "return"
    /\ m_con = nullptr
    /\ m_sslCon = nullptr
    /\ con = [c \in Conn |-> "unused"]
    /\ endpoint = [c \in Conn |-> "ws"]
    /\ handlers = [c \in Conn |-> {}]
    /\ calling = [e \in Endpoint |-> NoCall]
    /\ told = [c \in Conn |-> "nothing"]
    /\ crashed = FALSE

Current == {m_con, m_sslCon} \ {nullptr}
InCall(c, events) == \E e \in Endpoint : calling[e].hdl = c /\ calling[e].event \in events

\* isOpen(): the secure connection is asked first.
isOpen ==
    IF m_sslCon # nullptr THEN con[m_sslCon] = "open" ELSE m_con # nullptr /\ con[m_con] = "open"

-----------------------------------------------------------------------------
(* Pd's thread.                                                            *)

Construct ==
    /\ object = "none"
    /\ object' = "alive"
    /\ UNCHANGED <<main, after, slotVars, conVars, calling, told, crashed>>

\* disconnect(), and what its caller does then.
BeginDisconnect(next) ==
    /\ object = "alive" /\ main = "idle"
    /\ main' = "clear_open"
    /\ after' = next
    /\ UNCHANGED <<object, slotVars, conVars, calling, told>>

\* connect(uri) disconnects first.
Connect(uri) == BeginDisconnect(uri) /\ UNCHANGED crashed
Disconnect == BeginDisconnect("return") /\ UNCHANGED crashed

\* ~websocketClient(): the destructors of the derived classes have run.
Destroy ==
    /\ object = "alive" /\ main = "idle"
    /\ object' = "base"
    /\ main' = "clear_close"
    /\ after' = "join"
    /\ UNCHANGED <<slotVars, conVars, calling, told, crashed>>

\* Takes a handler from the current connections.  Setting a handler that the
\* endpoint's thread is executing is a data race, which may end the process.
TakeHandler(event) ==
    /\ handlers' = [c \in Conn |-> IF c \in Current THEN handlers[c] \ {event} ELSE handlers[c]]
    /\ crashed' \in IF \E c \in Current : InCall(c, {event}) THEN BOOLEAN ELSE {FALSE}
    /\ UNCHANGED <<object, after, slotVars, con, endpoint, calling, told>>

\* disconnect() without set_message_handler(nullptr).
ClearTwoHandlers ==
    \/ main = "clear_close" /\ TakeHandler("close") /\ main' = "clear_open"
    \/ main = "clear_open" /\ TakeHandler("open") /\ main' = "clear_fail"
    \/ main = "clear_fail" /\ TakeHandler("fail") /\ main' = "close"

\* disconnect() with set_close_handler(nullptr) for set_fail_handler(nullptr).
ClearCloseHandler ==
    \/ main = "clear_close" /\ TakeHandler("close") /\ main' = "clear_open"
    \/ main = "clear_open" /\ TakeHandler("open") /\ main' = "clear_fail"
    \/ main = "clear_fail" /\ TakeHandler("close") /\ main' = "clear_message"
    \/ main = "clear_message" /\ TakeHandler("message") /\ main' = "close"

\* The destructor takes the close handler, disconnect() the others, one by one.
ClearHandlers ==
    \/ main = "clear_close" /\ TakeHandler("close") /\ main' = "clear_open"
    \/ main = "clear_open" /\ TakeHandler("open") /\ main' = "clear_fail"
    \/ main = "clear_fail" /\ TakeHandler("fail") /\ main' = "clear_message"
    \/ main = "clear_message" /\ TakeHandler("message") /\ main' = "close"

\* The secure connection is not forgotten.
ResetPlainOnly ==
    /\ main = "close"
    /\ con' = [c \in Conn |-> IF c \in Current /\ con[c] = "open" THEN "closing" ELSE con[c]]
    /\ m_con' = nullptr
    /\ main' = IF after = "join" THEN "join" ELSE "connect"
    /\ UNCHANGED <<object, after, m_sslCon, endpoint, handlers, calling, told, crashed>>

\* The connections are forgotten without being closed.
ResetOnly ==
    /\ main = "close"
    /\ m_con' = nullptr
    /\ m_sslCon' = nullptr
    /\ main' = IF after = "join" THEN "join" ELSE "connect"
    /\ UNCHANGED <<object, after, conVars, calling, told, crashed>>

\* disconnect(): an open connection is closed, one that is still connecting is not, and
\* both are forgotten.
CloseCurrent ==
    /\ main = "close"
    /\ con' = [c \in Conn |->
                  IF c \in Current /\ con[c] = "open" THEN "closing"
                  ELSE IF c \in Current /\ con[c] = "unstarted" THEN "closed"
                  ELSE con[c]]
    /\ m_con' = nullptr
    /\ m_sslCon' = nullptr
    /\ main' = IF after = "join" THEN "join" ELSE "connect"
    /\ UNCHANGED <<object, after, endpoint, handlers, calling, told, crashed>>

Unused(c) == con[c] \in {"unused", "closed"} /\ c \notin Current /\ ~InCall(c, Event)

\* connect() without its test of the address.
CreateUnchecked ==
    /\ main = "connect"
    /\ \E c \in {d \in Conn : Unused(d)} :
          /\ con' = [con EXCEPT ![c] = "connecting"]
          /\ endpoint' = [endpoint EXCEPT ![c] = after]
          /\ handlers' = [handlers EXCEPT ![c] = Event]
          /\ told' = [told EXCEPT ![c] = "nothing"]
          /\ m_con' = c
    /\ main' = "idle"
    /\ after' = "return"
    /\ UNCHANGED <<object, m_sslCon, calling, crashed>>

\* The rest of connect(): the library's connect() starts the connection or
\* throws, which is caught and leaves it as it is.
CreateConnection ==
    /\ main = "connect"
    /\ after \in Endpoint
    /\ \E c \in {d \in Conn : Unused(d)}, state \in {"connecting", "unstarted"} :
          /\ con' = [con EXCEPT ![c] = state]
          /\ endpoint' = [endpoint EXCEPT ![c] = after]
          /\ handlers' = [handlers EXCEPT ![c] = Event]
          /\ told' = [told EXCEPT ![c] = "nothing"]
          /\ m_con' = IF after = "ws" THEN c ELSE m_con
          /\ m_sslCon' = IF after = "wss" THEN c ELSE m_sslCon
    /\ main' = "idle"
    /\ after' = "return"
    /\ UNCHANGED <<object, calling, crashed>>

\* No address, an address of another kind, or one the library rejects.
ConnectReturns ==
    /\ main = "connect"
    /\ after \notin Endpoint
    /\ main' = "idle"
    /\ after' = "return"
    /\ UNCHANGED <<object, slotVars, conVars, calling, told, crashed>>

\* The endpoints' run() return once there is no connection left to serve.
Join ==
    /\ main = "join"
    /\ \A c \in Conn : con[c] \notin Live
    /\ \A e \in Endpoint : calling[e] = NoCall
    /\ object' = "none"
    /\ main' = "idle"
    /\ after' = "return"
    /\ con' = [c \in Conn |-> "unused"]
    /\ handlers' = [c \in Conn |-> {}]
    /\ told' = [c \in Conn |-> "nothing"]
    /\ endpoint' = [c \in Conn |-> "ws"]
    /\ UNCHANGED <<slotVars, calling, crashed>>

Main == ClearHandlers \/ CloseCurrent \/ CreateConnection \/ ConnectReturns \/ Join

-----------------------------------------------------------------------------
(* The endpoints' threads.                                                 *)

\* What happens to a connection, and the handler it leads to if one is set.
Happens(c, event, state) ==
    /\ calling[endpoint[c]] = NoCall
    /\ con' = [con EXCEPT ![c] = state]
    /\ calling' = IF event \in handlers[c]
                  THEN [calling EXCEPT ![endpoint[c]] = [event |-> event, hdl |-> c]]
                  ELSE calling
    /\ UNCHANGED <<mainVars, slotVars, endpoint, handlers, told, crashed>>

Opens(c) == con[c] = "connecting" /\ Happens(c, "open", "open")
Fails(c) == con[c] = "connecting" /\ Happens(c, "fail", "closed")
Message(c) == con[c] = "open" /\ Happens(c, "message", "open")
PeerCloses(c) == con[c] = "open" /\ Happens(c, "close", "closed")
\* The peer's answer to close(), or the library's timeout for it.
ClosingEnds(c) == con[c] = "closing" /\ Happens(c, "close", "closed")

\* The handler calls the listener's virtual function.
Report(e, event, word) ==
    /\ calling[e].event = event
    /\ object = "alive"
    /\ calling' = [calling EXCEPT ![e] = NoCall]
    /\ told' = [told EXCEPT ![calling[e].hdl] = word]
    /\ UNCHANGED <<mainVars, slotVars, conVars, crashed>>

\* on_close bound where on_open belongs.
OpenBoundToClose(e) == Report(e, "open", "disconnected")

on_open(e) == Report(e, "open", "connected")
on_fail(e) == Report(e, "fail", "failed")
on_message(e) == Report(e, "message", "received")
on_close(e) == Report(e, "close", "disconnected")

PureVirtualCall(e) ==
    /\ calling[e] # NoCall
    /\ object = "base"
    /\ crashed' = TRUE
    /\ calling' = [calling EXCEPT ![e] = NoCall]
    /\ UNCHANGED <<mainVars, slotVars, conVars, told>>

Peers == \E c \in Conn : Message(c) \/ PeerCloses(c)
Network == \E c \in Conn : Opens(c) \/ Fails(c) \/ ClosingEnds(c)
Handlers(e) == on_open(e) \/ on_fail(e) \/ on_message(e) \/ on_close(e) \/ PureVirtualCall(e)

-----------------------------------------------------------------------------
Calls == Construct \/ Disconnect \/ Destroy \/ \E uri \in Uri : Connect(uri)

Next ==
    /\ ~crashed
    /\ Calls \/ Main \/ Network \/ Peers \/ \E e \in Endpoint : Handlers(e)

Spec == Init /\ [][Next]_vars

\* Threads that can go on do, and the library's timeouts end every attempt to
\* connect and to close.  Nobody has to call, send or close.
FairSpec ==
    /\ Spec
    /\ WF_vars(~crashed /\ Main)
    /\ \A c \in Conn : WF_vars(~crashed /\ (Opens(c) \/ Fails(c)))
                    /\ WF_vars(~crashed /\ ClosingEnds(c))
    /\ \A e \in Endpoint : WF_vars(~crashed /\ Handlers(e))

-----------------------------------------------------------------------------
(* Properties.                                                             *)

\* send() writes to both connections and isOpen() asks one (websocketClient.cpp:
\* 224-277), so never may both be there.
OneConnection == m_con = nullptr \/ m_sslCon = nullptr

\* A connection that was closed or replaced is silent but for its end: no
\* answer, failure or message of it enters a handler (websocketClient.cpp:
\* 112-114, 131-133).
OthersSilent ==
    [][\A e \in Endpoint :
          calling'[e] # calling[e] /\ calling'[e].event \in {"open", "fail", "message"}
              => calling'[e].hdl \in Current]_vars

\* What the listener hears of one connection: an answer, then messages, then
\* an end, or a failure and nothing else.  The end may come without the answer
\* (closed while it was connecting), and so may a message of a connection that
\* is being given up (answered between two of the steps of disconnect()).
Order ==
    {<<"nothing", "connected">>, <<"nothing", "failed">>, <<"nothing", "disconnected">>,
     <<"connected", "received">>, <<"connected", "disconnected">>, <<"received", "disconnected">>}
    \cup (Told \X {"nothing"})

GivenUp(c) == c \notin Current \/ main \in {"clear_fail", "clear_message", "close"}

ReportsInOrder ==
    [][\A c \in Conn : told'[c] # told[c] =>
          \/ <<told[c], told'[c]>> \in Order
          \/ told[c] = "nothing" /\ told'[c] = "received" /\ GivenUp(c)]_vars

(***************************************************************************)
(* The inductive invariant behind the properties above.                     *)
(***************************************************************************)
Clearing == {"clear_fail", "clear_message", "close"}

\* Which calls of Pd's thread find which object and which connections.
MainInv ==
    /\ OneConnection
    /\ main \in {"connect", "join"} => Current = {}
    /\ main = "clear_close" => object = "base"
    /\ object = "none" => main = "idle" /\ Current = {} /\ \A c \in Conn : con[c] = "unused"

\* Which handlers are left on a connection.
HandlersAt(c) ==
    /\ c \notin Current \/ main = "close" => handlers[c] \subseteq {"close"}
    /\ c \in Current =>
          /\ main = "clear_fail" => "open" \notin handlers[c]
          /\ main = "clear_message" => "open" \notin handlers[c] /\ "fail" \notin handlers[c]
          /\ main \notin Clearing => "open" \in handlers[c]
    /\ object = "alive" /\ con[c] \in Live => "close" \in handlers[c]

HandlersInv == \A c \in Conn : HandlersAt(c)

\* What a thread that is in a handler says of the connection.
CallAt(e) ==
    calling[e] # NoCall =>
        LET c == calling[e].hdl IN
        /\ endpoint[c] = e
        /\ con[c] = "open" => c \in Current
        /\ calling[e].event \in {"open", "message"} => con[c] \in {"open", "closing"}
        /\ calling[e].event \in {"fail", "close"} => con[c] = "closed"
        /\ calling[e].event \in {"open", "fail"} => told[c] = "nothing"
        /\ calling[e].event \in {"message", "close"} => told[c] \in {"nothing", "connected", "received"}
        /\ calling[e].event = "message" /\ told[c] = "nothing" => GivenUp(c)

CallInv == \A e \in Endpoint : CallAt(e)

\* What the listener can have been told of a connection.
ToldAt(c) ==
    /\ con[c] \in Live => told[c] \in {"nothing", "connected", "received"}
    /\ con[c] = "connecting" => told[c] = "nothing"
    /\ con[c] = "open" /\ c \notin Current => told[c] = "nothing"
    /\ con[c] = "open" /\ told[c] = "nothing" /\ ~crashed => InCall(c, {"open"}) \/ GivenUp(c)

ToldInv == \A c \in Conn : ToldAt(c)

IInv == TypeOK /\ MainInv /\ HandlersInv /\ CallInv /\ ToldInv

\* Deleting the client while it is connected ends, if that is the only
\* connection left: the peer need not close it (websocketClient.cpp:86-103).
DeletionEnds ==
    main = "clear_close" /\ (\A c \in Conn : con[c] \in Live => c \in Current /\ con[c] = "open")
        ~> object = "none" \/ crashed

\* No call is under way and no connection is closing.
Settled ==
    /\ main = "idle"
    /\ \A e \in Endpoint : calling[e] = NoCall
    /\ \A c \in Conn : con[c] # "closing"

\* rcp.client-help.pd:21 calls the message close "close connection": when all
\* is settled, a connection that is open is the one the client has.
ClosedIsClosed == Settled => \A c \in Conn : con[c] = "open" => c \in Current
=============================================================================
