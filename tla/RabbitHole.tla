----------------------------- MODULE RabbitHole ------------------------------
(***************************************************************************)
(* sources/RabbitholeServerTransporter.cpp: the websocket client by which   *)
(* rcp.server offers its parameters through a rabbithole.  It tries again   *)
(* to connect when a connection fails or ends: the handlers, on the         *)
(* endpoints' threads, start a timer that runs out on Pd's thread.          *)
(*                                                                         *)
(* The body of a handler is one step.  m_oneTimeError limits what failed()  *)
(* prints and is left out; nobody calls unbind().  The interval is one of   *)
(* Intervals, of which only the sign matters; how long the timer takes is   *)
(* left open.                                                               *)
(***************************************************************************)
EXTENDS WebsocketClient, Integers

CONSTANT Intervals          \* what the patch sets @rabbithole_interval to

ASSUME IntervalsAssumption == Intervals \subseteq Int

VARIABLES
    m_uri,
    m_doTryConnect,
    m_connectInterval,
    timer,                  \* m_tryConnectTimer is running
    deleting,               \* Pd's thread is in ~RabbitHoleServerTransporter
    commands,               \* history: connect and setInterval since New; MaxCommands: or more
    paused                  \* history: interval <= 0 at some time since the last connect

ownVars == <<m_uri, m_doTryConnect, m_connectInterval, deleting>>
historyVars == <<commands, paused>>
rabbitVars == <<vars, ownVars, timer, historyVars>>

MaxCommands == 2
Counted == IF commands < MaxCommands THEN commands + 1 ELSE commands

UserUri == Uri \cup {"http", "https"}

\* The address as the patch gives it.
NotConverted(uri) == uri

\* An http address becomes a websocket address.
Converted(uri) == CASE uri = "http" -> "ws" [] uri = "https" -> "wss" [] OTHER -> uri
BeginsWithWs(uri) == uri \in Endpoint \cup {"invalid"}

RabbitTypeOK ==
    /\ TypeOK
    /\ m_uri \in Uri
    /\ m_doTryConnect \in BOOLEAN
    /\ m_connectInterval \in Int
    /\ timer \in BOOLEAN
    /\ deleting \in BOOLEAN
    /\ commands \in 0 .. MaxCommands
    /\ paused \in BOOLEAN

RabbitInit ==
    /\ Init
    /\ m_uri = ""
    /\ m_doTryConnect = FALSE
    /\ m_connectInterval = 2
    /\ timer = FALSE
    /\ deleting = FALSE
    /\ commands = 0
    /\ paused = FALSE

\* The constructor: an interval of 2 seconds.
New ==
    /\ Construct
    /\ m_uri' = ""
    /\ m_doTryConnect' = FALSE
    /\ m_connectInterval' = 2
    /\ timer' = FALSE
    /\ deleting' = FALSE
    /\ commands' = 0
    /\ paused' = FALSE

\* What Pd's thread finds when it calls.
Idle == object = "alive" /\ main = "idle" /\ ~deleting

\* The destructor: its body, in which the transporter of rcp-c is freed, ...
BeginDelete ==
    /\ Idle
    /\ m_doTryConnect' = FALSE
    /\ timer' = FALSE
    /\ deleting' = TRUE
    /\ UNCHANGED <<vars, m_uri, m_connectInterval, historyVars>>

\* ... while the handlers may still be called, and then that of the websocket client.
Delete ==
    /\ deleting /\ Destroy
    /\ deleting' = FALSE
    /\ UNCHANGED <<m_uri, m_doTryConnect, m_connectInterval, timer, historyVars>>

\* tryConnect(): Delay() starts the timer, or starts it again.
tryConnect == timer' = (timer \/ (m_connectInterval' > 0 /\ m_uri # ""))

\* connect() that starts the timer in case the connection fails.
connectStartsTimer(uri) ==
    /\ Idle
    /\ BeginDisconnect(uri)
    /\ BeginsWithWs(uri)
    /\ m_uri' = uri
    /\ m_doTryConnect' = TRUE
    /\ timer' = TRUE
    /\ commands' = Counted
    /\ paused' = FALSE
    /\ UNCHANGED <<m_connectInterval, deleting, crashed>>

\* Assigning m_uri while a handler reads it is a data race.
AssignUri(uri) ==
    /\ m_uri' = Converted(uri)
    /\ crashed' \in IF \E e \in Endpoint : calling[e].event \in {"fail", "close"}
                    THEN BOOLEAN ELSE {FALSE}

\* connect(uri): an address of another kind is kept, and nothing else is done.
connect(uri) ==
    /\ Idle
    /\ AssignUri(uri)
    /\ IF BeginsWithWs(Converted(uri))
       THEN BeginDisconnect(Converted(uri)) /\ m_doTryConnect' = TRUE
       ELSE UNCHANGED <<mainVars, slotVars, conVars, calling, told, m_doTryConnect>>
    /\ commands' = Counted
    /\ paused' = (m_connectInterval <= 0)
    /\ UNCHANGED <<m_connectInterval, timer, deleting>>

\* setInterval(i): tries to connect if the interval was positive before, and
\* disconnects if it no longer is.
setInterval(i) ==
    /\ Idle
    /\ m_connectInterval' = i
    /\ IF m_connectInterval > 0 THEN tryConnect ELSE UNCHANGED timer
    /\ IF i <= 0 THEN Disconnect ELSE UNCHANGED vars
    /\ commands' = Counted
    /\ paused' = (paused \/ i <= 0)
    /\ UNCHANGED <<m_uri, m_doTryConnect, deleting>>

\* A timeout that connects without disconnecting first.
ConnectAgain ==
    /\ Idle
    /\ timer
    /\ timer' = FALSE
    /\ main' = "connect"
    /\ after' = m_uri
    /\ UNCHANGED <<object, slotVars, conVars, calling, told, crashed, ownVars, historyVars>>

tryConnectTimerTimeout ==
    /\ Idle
    /\ timer
    /\ timer' = FALSE
    /\ IF m_uri # "" THEN Connect(m_uri) ELSE UNCHANGED vars
    /\ UNCHANGED <<ownVars, historyVars>>

-----------------------------------------------------------------------------
(* The handlers, on the endpoints' threads.                                *)

connected(e) == on_open(e) /\ UNCHANGED timer

Retry ==
    /\ UNCHANGED m_connectInterval
    /\ IF m_doTryConnect THEN tryConnect ELSE UNCHANGED timer

failed(e) == on_fail(e) /\ Retry

\* The end of a connection is not a reason to try again.
disconnectedGivesUp(e) == on_close(e) /\ UNCHANGED timer

disconnected(e) == on_close(e) /\ Retry
received(e) == on_message(e) /\ UNCHANGED timer

\* A message for the transporter that the destructor is freeing.
receivedFreed(e) ==
    /\ deleting /\ calling[e].event = "message"
    /\ crashed' = TRUE
    /\ UNCHANGED <<mainVars, slotVars, conVars, calling, told, ownVars, timer, historyVars>>

-----------------------------------------------------------------------------
RabbitCalls ==
    \/ New \/ BeginDelete
    \/ \E uri \in UserUri : connect(uri)
    \/ \E i \in Intervals : setInterval(i)

RabbitMain == Main /\ UNCHANGED <<ownVars, timer, historyVars>>

RabbitHandlers(e) ==
    /\ \/ connected(e) \/ failed(e) \/ disconnected(e) \/ received(e)
       \/ PureVirtualCall(e) /\ UNCHANGED timer
    /\ UNCHANGED <<ownVars, historyVars>>

RabbitNext ==
    /\ ~crashed
    /\ \/ RabbitCalls \/ RabbitMain \/ Delete \/ tryConnectTimerTimeout
       \/ \E e \in Endpoint : RabbitHandlers(e) \/ receivedFreed(e)
       \/ (Network \/ Peers) /\ UNCHANGED <<ownVars, timer, historyVars>>

RabbitSpec == RabbitInit /\ [][RabbitNext]_rabbitVars

\* As FairSpec of WebsocketClient, and a running timer runs out: a patch that
\* sets the interval over and over, which starts it again, is left aside.
FairRabbitSpec ==
    /\ RabbitSpec
    /\ WF_rabbitVars(~crashed /\ (RabbitMain \/ Delete))
    /\ WF_rabbitVars(~crashed /\ tryConnectTimerTimeout)
    /\ \A c \in Conn : WF_rabbitVars(~crashed /\ (Opens(c) \/ Fails(c))
                                     /\ UNCHANGED <<ownVars, timer, historyVars>>)
                    /\ WF_rabbitVars(~crashed /\ ClosingEnds(c)
                                     /\ UNCHANGED <<ownVars, timer, historyVars>>)
    /\ \A e \in Endpoint : WF_rabbitVars(~crashed /\ RabbitHandlers(e))

-----------------------------------------------------------------------------
(* Properties.                                                             *)

\* Reconnecting is on, and there is an address to connect to.
Trying ==
    /\ object = "alive"
    /\ m_doTryConnect /\ m_connectInterval > 0 /\ ~paused
    /\ m_uri \in Endpoint

\* All is quiet, and the client has neither a connection nor one that the
\* library failed to start.
Down ==
    /\ main = "idle"
    /\ \A e \in Endpoint : calling[e] = NoCall
    /\ \A c \in Conn : con[c] \notin Live \cup {"unstarted"}

\* When the last connection has failed or ended, the timer is running: no order
\* of events on the two endpoints and of calls from the patch loses the retry
\* (RabbitholeServerTransporter.cpp:173-176, 192-195).  paused leaves out an
\* interval that was not positive: setting it again does not start the timer
\* (:239), and an address that is no websocket address starts nothing (:229).
RetryPending == Trying /\ Down => timer

\* Why: whoever is busy is about to connect; a current connection still has the
\* handler of its failure until it is taken; and when nobody is busy there is a
\* current connection, a handler that will see its end, or the timer.
Failing(e) == calling[e].event \in {"fail", "close"}

RetryInv ==
    /\ m_connectInterval <= 0 => paused
    /\ object = "alive" /\ main # "idle" /\ ~paused => after = m_uri
    /\ \A c \in Current : main \notin {"clear_message", "close"} => "fail" \in handlers[c]
    /\ Trying /\ main = "idle" =>
          \/ timer
          \/ \E c \in Current : con[c] \in Live \cup {"unstarted"}
          \/ \E e \in Endpoint : Failing(e)

\* After a single command, the timer never interrupts a connection: it runs out
\* while none is being made, open or closing, not even one that was given up
\* (:254-261).  Each further connect or setInterval may start it behind the back
\* of an open connection.
NeverInterrupts ==
    [][tryConnectTimerTimeout /\ commands <= 1 => \A c \in Conn : con[c] \notin Live]_rabbitVars

\* Why: what may lead to an attempt, the timer, Pd's thread in a call, a connection
\* or a handler that sees the end of one, is there at most once, and not at all before
\* the first command.
Busy == main # "idle"
NoneLive == \A c \in Conn : con[c] \notin Live
NoneFailing == \A e \in Endpoint : ~Failing(e)

OneAttempt ==
    object = "alive" /\ commands <= 1 =>
        /\ commands = 0 => m_uri = "" /\ ~timer /\ ~Busy /\ NoneLive /\ NoneFailing
        /\ timer => ~Busy
        /\ timer \/ Busy => NoneLive /\ NoneFailing
        /\ \A c, d \in Conn : con[c] \in Live /\ con[d] \in Live => c = d
        /\ \A e, f \in Endpoint : Failing(e) /\ Failing(f) => e = f
        /\ NoneLive \/ NoneFailing

\* The transporter connects again as long as nobody tells it otherwise.
ConnectsAgain ==
    Trying /\ Down ~> (\E c \in Conn : con[c] \in Live \cup {"unstarted"}) \/ ~Trying \/ crashed

\* A connection that can still bring an answer or a message to the transporter.
Heard(c) == con[c] \in Live /\ handlers[c] \cap {"open", "fail", "message"} # {}

\* Whoever replaces a connection takes its handlers first (websocketClient.cpp:
\* 110-133, 150-151), in whatever order connect and the timer come: at most one
\* connection is heard, and none when the next is made.  There may be others: one
\* that was given up while it was connecting may open beside it, with no handler but
\* the one of its end (ClosedIsClosed of rcp.client).
OneTunnel ==
    /\ \A c, d \in Conn : Heard(c) /\ Heard(d) => c = d
    /\ main = "connect" => \A c \in Conn : ~Heard(c)
=============================================================================
