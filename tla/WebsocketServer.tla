--------------------------- MODULE WebsocketServer ---------------------------
(***************************************************************************)
(* sources/websocketServer.h: the websocket server under rcp.server and     *)
(* ws.server.  Three threads share one object:                              *)
(*                                                                         *)
(*   main           Pd's thread; constructs, runs, stops and deletes it     *)
(*   server_thread  listens and runs asio's loop; its handlers on_open,     *)
(*                  on_message and on_close push actions on m_actions       *)
(*   ws_thread      process_messages: takes the actions in turn, keeps      *)
(*                  m_connections, calls the listener                       *)
(*                                                                         *)
(* A critical section of m_action_lock is one step; notify_one, which the   *)
(* code calls after unlocking, is a step of its own.  m_connection_lock is  *)
(* taken by ws_thread alone, so it orders nothing and is not modelled.      *)
(* Every thread variable is the thread's program counter; "null" stands for *)
(* the null pointer of the member of that name.                             *)
(*                                                                         *)
(* told and rcvd are history variables: what the listener was told.         *)
(***************************************************************************)
EXTENDS Naturals, Sequences

CONSTANTS
    Conn,           \* the connections peers open; a handle is never reused
    MaxMessages     \* bound: messages a peer sends on one connection

ASSUME MaxMessagesAssumption == MaxMessages \in Nat

VARIABLES
    object,         \* "none", "alive", or "base": the derived part is destroyed
    main,           \* where the main thread is inside stop(), or "idle"
    server_thread,
    ws_thread,
    m_run,
    m_actions,
    action,         \* the local a of process_messages
    m_connections,
    stopped,        \* m_server.stopped()
    listening,      \* m_server.is_listening()
    con, sent,      \* the peers: state and messages sent, by connection
    told, rcvd,     \* the listener's knowledge: see ServerSession
    crashed         \* the process has been terminated

peerVars == <<con, sent>>
listenerVars == <<told, rcvd>>
endpointVars == <<stopped, listening>>
queueVars == <<m_actions, action>>
worldVars == <<endpointVars, peerVars, listenerVars, crashed>>
dataVars == <<m_run, queueVars, m_connections, worldVars>>
vars == <<object, main, server_thread, ws_thread, m_run, queueVars, m_connections,
          endpointVars, peerVars, listenerVars, crashed>>

ObjectState == {"none", "alive", "base"}
MainPc == {"idle", "stop", "clear", "join_server", "clear_run", "notify", "join_ws", "return"}
ServerPc == {"null", "created", "run", "notify", "end"}
WsPc == {"null", "created", "loop", "wait", "update", "call", "end"}

ConState == {"new", "open", "closed", "dropped"}
Told == {"nothing", "connected", "disconnected"}

ActionType == {"SUBSCRIBE", "UNSUBSCRIBE", "MESSAGE"}
\* n numbers a peer's messages from 1 (0 for the other types).
Action == [type : ActionType, hdl : Conn, n : Nat, text : BOOLEAN]

Subscribe(c) == [type |-> "SUBSCRIBE", hdl |-> c, n |-> 0, text |-> FALSE]
Unsubscribe(c) == [type |-> "UNSUBSCRIBE", hdl |-> c, n |-> 0, text |-> FALSE]
Message(c, n, t) == [type |-> "MESSAGE", hdl |-> c, n |-> n, text |-> t]

TypeOK ==
    /\ object \in ObjectState
    /\ main \in MainPc
    /\ server_thread \in ServerPc
    /\ ws_thread \in WsPc
    /\ m_run \in BOOLEAN
    /\ m_actions \in Seq(Action)
    /\ ws_thread \in {"update", "call"} => action \in Action
    /\ m_connections \in SUBSET Conn
    /\ stopped \in BOOLEAN
    /\ listening \in BOOLEAN
    /\ con \in [Conn -> ConState]
    /\ sent \in [Conn -> Nat]
    /\ told \in [Conn -> Told]
    /\ rcvd \in [Conn -> Nat]
    /\ crashed \in BOOLEAN

\* The local a is not in scope outside one turn of the loop.
NoAction == <<>>

Init ==
    /\ object = "none" /\ main = "idle" /\ server_thread = "null" /\ ws_thread = "null"
    /\ m_run = FALSE /\ m_actions = <<>> /\ action = NoAction /\ m_connections = {}
    /\ stopped = FALSE /\ listening = FALSE
    /\ con = [c \in Conn |-> "new"]
    /\ sent = [c \in Conn |-> 0]
    /\ told = [c \in Conn |-> "nothing"]
    /\ rcvd = [c \in Conn |-> 0] /\ crashed = FALSE

-----------------------------------------------------------------------------
(* The main thread.                                                        *)

\* websocketServer(): the service thread is created last.
Construct ==
    /\ object = "none" /\ main = "idle"
    /\ object' = "alive"
    /\ ws_thread' = "created"
    /\ m_run' = FALSE
    /\ stopped' = FALSE
    /\ UNCHANGED <<main, server_thread, queueVars, m_connections, listening, peerVars, listenerVars, crashed>>

\* run(): every caller runs an object once, right after constructing it, so
\* the service thread exists.
Run ==
    /\ object = "alive" /\ main = "idle" /\ ~stopped /\ server_thread = "null"
    /\ server_thread' = "created"
    /\ UNCHANGED <<object, main, ws_thread, dataVars>>

\* stop() called on a whole object (unbind).
Stop ==
    /\ object = "alive" /\ main = "idle" /\ ~stopped
    /\ main' = "stop"
    /\ UNCHANGED <<object, server_thread, ws_thread, dataVars>>

\* ~websocketServer(): the destructor of the derived class has already run,
\* so the object's virtual functions are the pure ones; then stop().
Destroy ==
    /\ object = "alive" /\ main = "idle"
    /\ object' = "base"
    /\ main' = "stop"
    /\ UNCHANGED <<server_thread, ws_thread, dataVars>>

StopServer ==
    /\ main = "stop"
    /\ stopped' = TRUE
    /\ listening' = FALSE
    /\ main' = "clear"
    /\ UNCHANGED <<object, server_thread, ws_thread, m_run, queueVars, m_connections, peerVars, listenerVars, crashed>>

\* m_connections.clear() without a lock: if the service thread is inside
\* insert() or erase() the tree may be corrupted, which ends the process.
ClearConnections ==
    /\ main = "clear"
    /\ m_connections' = {}
    /\ crashed' \in IF ws_thread = "update" THEN BOOLEAN ELSE {FALSE}
    /\ main' = "join_server"
    /\ UNCHANGED <<object, server_thread, ws_thread, m_run, queueVars, endpointVars, peerVars, listenerVars>>

JoinServer ==
    /\ main = "join_server"
    /\ server_thread \in {"end", "null"}
    /\ server_thread' = "null"
    /\ main' = IF ws_thread = "null" THEN "return" ELSE "clear_run"
    /\ UNCHANGED <<object, ws_thread, dataVars>>

ClearRun ==
    /\ main = "clear_run"
    /\ m_run' = FALSE
    /\ main' = "notify"
    /\ UNCHANGED <<object, server_thread, ws_thread, queueVars, m_connections, worldVars>>

\* m_action_cond.notify_one(): only a thread that is waiting now is woken.
Woken == IF ws_thread = "wait" THEN "loop" ELSE ws_thread

\* stop() without its notify_one.
NotifyNobody ==
    /\ main = "notify"
    /\ main' = "join_ws"
    /\ UNCHANGED <<object, server_thread, ws_thread, dataVars>>

NotifyStop ==
    /\ main = "notify"
    /\ ws_thread' = Woken
    /\ main' = "join_ws"
    /\ UNCHANGED <<object, server_thread, dataVars>>

JoinService ==
    /\ main = "join_ws" /\ ws_thread = "end"
    /\ ws_thread' = "null"
    /\ main' = "return"
    /\ UNCHANGED <<object, server_thread, dataVars>>

StopReturns ==
    /\ main = "return" /\ object = "alive"
    /\ main' = "idle"
    /\ UNCHANGED <<object, server_thread, ws_thread, dataVars>>

\* A queue that outlives the object.
FreeKeepsActions ==
    /\ main = "return" /\ object = "base"
    /\ main' = "idle"
    /\ object' = "none"
    /\ m_connections' = {}
    /\ listening' = FALSE
    /\ con' = [c \in Conn |-> IF con[c] = "new" THEN "new" ELSE "dropped"]
    /\ UNCHANGED <<server_thread, ws_thread, m_run, m_actions, action, stopped, sent, listenerVars, crashed>>

\* The end of the destructor: the members and the sockets go away.
Free ==
    /\ main = "return" /\ object = "base"
    /\ main' = "idle"
    /\ object' = "none"
    /\ m_actions' = <<>>
    /\ m_connections' = {}
    /\ listening' = FALSE
    /\ con' = [c \in Conn |-> IF con[c] = "new" THEN "new" ELSE "dropped"]
    /\ UNCHANGED <<server_thread, ws_thread, m_run, action, stopped, sent, listenerVars, crashed>>

Main ==
    \/ StopServer \/ ClearConnections \/ JoinServer \/ ClearRun \/ NotifyStop
    \/ JoinService \/ StopReturns \/ Free

-----------------------------------------------------------------------------
(* The network thread.                                                     *)

DoRunListens ==
    /\ server_thread = "created"
    /\ listening' = TRUE
    /\ server_thread' = "run"
    /\ UNCHANGED <<object, main, ws_thread, m_run, queueVars, m_connections, stopped, peerVars, listenerVars, crashed>>

\* listen() throws (the port is taken): reported, and the thread ends.
DoRunFails ==
    /\ server_thread = "created"
    /\ server_thread' = "end"
    /\ UNCHANGED <<object, main, ws_thread, dataVars>>

\* m_server.run() returns once the endpoint is stopped and no handler runs.
DoRunReturns ==
    /\ server_thread = "run" /\ stopped
    /\ server_thread' = "end"
    /\ UNCHANGED <<object, main, ws_thread, dataVars>>

\* asio starts no handler on a stopped loop.
InHandler ==
    /\ server_thread = "run" /\ ~stopped

\* A handler that forgets notify_one.
PushOnly(a) ==
    /\ m_actions' = Append(m_actions, a)
    /\ UNCHANGED server_thread

Push(a) ==
    /\ m_actions' = Append(m_actions, a)
    /\ server_thread' = "notify"

on_open(c) ==
    /\ InHandler /\ con[c] = "new"
    /\ con' = [con EXCEPT ![c] = "open"]
    /\ Push(Subscribe(c))
    /\ UNCHANGED <<object, main, ws_thread, m_run, action, m_connections, endpointVars, sent, listenerVars, crashed>>

on_message(c, text) ==
    /\ InHandler /\ con[c] = "open" /\ sent[c] < MaxMessages
    /\ sent' = [sent EXCEPT ![c] = @ + 1]
    /\ Push(Message(c, sent[c] + 1, text))
    /\ UNCHANGED <<object, main, ws_thread, m_run, action, m_connections, endpointVars, con, listenerVars, crashed>>

on_close(c) ==
    /\ InHandler /\ con[c] = "open"
    /\ con' = [con EXCEPT ![c] = "closed"]
    /\ Push(Unsubscribe(c))
    /\ UNCHANGED <<object, main, ws_thread, m_run, action, m_connections, endpointVars, sent, listenerVars, crashed>>

NotifyService ==
    /\ server_thread = "notify"
    /\ server_thread' = "run"
    /\ ws_thread' = Woken
    /\ UNCHANGED <<object, main, dataVars>>

ServerThread == DoRunListens \/ DoRunFails \/ DoRunReturns \/ NotifyService

Peers ==
    \E c \in Conn : on_open(c) \/ on_close(c) \/ \E text \in BOOLEAN : on_message(c, text)

-----------------------------------------------------------------------------
(* The service thread: process_messages.                                   *)

\* The first statement, executed without m_action_lock.
StartService ==
    /\ ws_thread = "created"
    /\ m_run' = TRUE
    /\ ws_thread' = "loop"
    /\ UNCHANGED <<object, main, server_thread, queueVars, m_connections, worldVars>>

ExitService ==
    /\ ws_thread = "loop" /\ ~m_run
    /\ ws_thread' = "end"
    /\ UNCHANGED <<object, main, server_thread, dataVars>>

\* wait() without the predicate loop around it.
WaitBlindly ==
    /\ ws_thread = "loop" /\ m_run
    /\ ws_thread' = "wait"
    /\ UNCHANGED <<object, main, server_thread, dataVars>>

\* The test and the wait are one step: the lock is held in between.
Wait ==
    /\ ws_thread = "loop" /\ m_run /\ m_actions = <<>>
    /\ ws_thread' = "wait"
    /\ UNCHANGED <<object, main, server_thread, dataVars>>

SpuriousWakeup ==
    /\ ws_thread = "wait"
    /\ ws_thread' = "loop"
    /\ UNCHANGED <<object, main, server_thread, dataVars>>

\* The newest action first, as from a stack.
TakeNewest ==
    /\ ws_thread = "loop" /\ m_run /\ m_actions # <<>>
    /\ action' = m_actions[Len(m_actions)]
    /\ m_actions' = SubSeq(m_actions, 1, Len(m_actions) - 1)
    /\ ws_thread' = IF action'.type = "MESSAGE" THEN "call" ELSE "update"
    /\ UNCHANGED <<object, main, server_thread, m_run, m_connections, worldVars>>

Take ==
    /\ ws_thread = "loop" /\ m_run /\ m_actions # <<>>
    /\ action' = Head(m_actions)
    /\ m_actions' = Tail(m_actions)
    /\ ws_thread' = IF action'.type = "MESSAGE" THEN "call" ELSE "update"
    /\ UNCHANGED <<object, main, server_thread, m_run, m_connections, worldVars>>

\* The action handed on before it is reported.
UpdateMovesAction ==
    /\ ws_thread = "update"
    /\ m_connections' = IF action.type = "SUBSCRIBE"
                        THEN m_connections \cup {action.hdl}
                        ELSE m_connections \ {action.hdl}
    /\ ws_thread' = "call"
    /\ action' = NoAction
    /\ UNCHANGED <<object, main, server_thread, m_run, m_actions, worldVars>>

\* Connections that are never erased.
UpdateInsertsOnly ==
    /\ ws_thread = "update"
    /\ m_connections' = m_connections \cup {action.hdl}
    /\ ws_thread' = "call"
    /\ UNCHANGED <<object, main, server_thread, m_run, queueVars, worldVars>>

UpdateConnections ==
    /\ ws_thread = "update"
    /\ m_connections' = IF action.type = "SUBSCRIBE"
                        THEN m_connections \cup {action.hdl}
                        ELSE m_connections \ {action.hdl}
    /\ ws_thread' = "call"
    /\ UNCHANGED <<object, main, server_thread, m_run, queueVars, worldVars>>

\* The virtual call of the action's handler, on an object that is whole.
EndCall ==
    /\ ws_thread' = "loop"
    /\ action' = NoAction
    /\ UNCHANGED <<object, main, server_thread, m_run, m_actions, m_connections, endpointVars, peerVars, crashed>>

CallConnected ==
    /\ ws_thread = "call" /\ object = "alive" /\ action.type = "SUBSCRIBE"
    /\ told' = [told EXCEPT ![action.hdl] = "connected"]
    /\ UNCHANGED rcvd
    /\ EndCall

CallDisconnected ==
    /\ ws_thread = "call" /\ object = "alive" /\ action.type = "UNSUBSCRIBE"
    /\ told' = [told EXCEPT ![action.hdl] = "disconnected"]
    /\ UNCHANGED rcvd
    /\ EndCall

CallReceived ==
    /\ ws_thread = "call" /\ object = "alive" /\ action.type = "MESSAGE"
    /\ ~action.text
    /\ rcvd' = [rcvd EXCEPT ![action.hdl] = action.n]
    /\ UNCHANGED told
    /\ EndCall

\* A text message is only printed; a message whose connection has been closed
\* may find its handle expired (hdl.lock() fails).
SkipMessage ==
    /\ ws_thread = "call" /\ action.type = "MESSAGE"
    /\ action.text \/ con[action.hdl] # "open"
    /\ UNCHANGED listenerVars
    /\ EndCall

\* The call is dispatched while the base class destructor waits: the virtual
\* function is pure by now, and the runtime terminates the process.
PureVirtualCall ==
    /\ ws_thread = "call" /\ object = "base"
    /\ action.type = "MESSAGE" => ~action.text
    /\ crashed' = TRUE
    /\ UNCHANGED <<object, main, server_thread, ws_thread, m_run, queueVars, m_connections, endpointVars, peerVars, listenerVars>>

Service ==
    \/ StartService \/ ExitService \/ Wait \/ Take \/ UpdateConnections
    \/ CallConnected \/ CallDisconnected \/ CallReceived \/ SkipMessage \/ PureVirtualCall

-----------------------------------------------------------------------------
Next ==
    /\ ~crashed
    /\ \/ Construct \/ Run \/ Stop \/ Destroy
       \/ Main
       \/ ServerThread
       \/ Peers
       \/ Service \/ SpuriousWakeup

Spec == Init /\ [][Next]_vars

\* The scheduler runs every thread that can take a step; peers and the user
\* owe the program nothing.
FairSpec == Spec /\ WF_vars(~crashed /\ Main) /\ WF_vars(~crashed /\ ServerThread)
                 /\ WF_vars(~crashed /\ Service)

-----------------------------------------------------------------------------
(* Properties.                                                             *)

\* websocketServer.h:205-234 push under the lock and notify after it, 194-197
\* do the same for m_run: whenever ws_thread sleeps although there is an action
\* to take or it has been asked to end, somebody is about to wake it.
NoLostWakeup ==
    ws_thread = "wait" /\ (m_actions # <<>> \/ ~m_run)
        => server_thread = "notify" \/ main = "notify"

\* Until stop() clears it, m_connections (the set sendToAll iterates and
\* connections() counts) holds exactly the peers the listener believes to be
\* connected, give or take the one whose report is under way.
Reporting(c, type) == ws_thread = "call" /\ action.hdl = c /\ action.type = type
InUse == ws_thread # "null" /\ (stopped => main = "clear")

ChannelAgrees ==
    InUse =>
        \A c \in Conn : con[c] # "dropped" =>
            (c \in m_connections <=> \/ told[c] = "connected" /\ ~Reporting(c, "UNSUBSCRIBE")
                                    \/ Reporting(c, "SUBSCRIBE"))

\* The listener sees every peer arrive once, then its messages in the order
\* they were sent, then its departure: the threads and the queue implement
\* ServerSession.
Session == INSTANCE ServerSession WITH con <- con, sent <- sent, told <- told, rcvd <- rcvd
SessionSpec == Session!Spec

(***************************************************************************)
(* The inductive invariant behind ChannelAgrees and SessionSpec: where the  *)
(* actions of one connection can be, in the queue and in the service        *)
(* thread's hand, for each thing the listener may have been told of it.     *)
(***************************************************************************)
Held(c, type) ==
    ws_thread \in {"update", "call"} /\ action.hdl = c /\ action.type = type

Queued == 1 .. Len(m_actions)
QueuedFor(i, c, type) == m_actions[i].hdl = c /\ m_actions[i].type = type

\* The life of the object: nothing of it is left when it is freed.
LifeInv ==
    /\ object = "none" =>
          /\ main = "idle" /\ ws_thread = "null"
          /\ m_connections = {} /\ m_actions = <<>>
          /\ \A c \in Conn : con[c] \in {"new", "dropped"}
    /\ object = "none" \/ main \in {"clear_run", "notify", "join_ws", "return"} =>
          server_thread = "null"
    /\ main = "return" => ws_thread = "null"
    /\ stopped /\ main \in {"idle", "stop"} => ws_thread = "null"
    /\ main \notin {"idle", "stop"} => stopped

\* What is known of a connection wherever its actions are.
PeerInv ==
    \A c \in Conn :
        /\ con[c] = "new" => told[c] = "nothing" /\ sent[c] = 0
        /\ con[c] = "open" => told[c] # "disconnected"
        /\ con[c] = "open" /\ told[c] = "nothing" =>
              Held(c, "SUBSCRIBE") \/ \E i \in Queued : QueuedFor(i, c, "SUBSCRIBE")
        /\ rcvd[c] <= sent[c]

\* The action in the service thread's hand is the next one its connection is due.
HeldInv ==
    ws_thread \in {"update", "call"} =>
        LET c == action.hdl IN
        /\ action \in Action
        /\ con[c] \in {"open", "closed"}
        /\ action.type = "SUBSCRIBE" => told[c] = "nothing"
        /\ action.type = "UNSUBSCRIBE" => told[c] = "connected" /\ con[c] = "closed"
        /\ action.type = "MESSAGE" =>
              told[c] = "connected" /\ action.n \in rcvd[c] + 1 .. sent[c] /\ ws_thread = "call"

\* A subscription is the first action of its connection, ...
SubscribeAt(i) ==
    LET c == m_actions[i].hdl IN
        /\ con[c] \in {"open", "closed"}
        /\ told[c] # "disconnected"
        /\ ~Held(c, "UNSUBSCRIBE")
        /\ m_actions[i].type = "SUBSCRIBE" =>
              /\ told[c] = "nothing"
              /\ \A type \in ActionType : ~Held(c, type)
              /\ \A j \in 1 .. i - 1 : m_actions[j].hdl # c
        /\ m_actions[i].type # "SUBSCRIBE" /\ told[c] = "nothing" =>
              Held(c, "SUBSCRIBE") \/ \E j \in 1 .. i - 1 : QueuedFor(j, c, "SUBSCRIBE")

SubscribeInv == \A i \in Queued : SubscribeAt(i)

\* ... its end is the last, and its messages come in the order of their numbers.
OrderAt(i) ==
    LET c == m_actions[i].hdl IN
        /\ m_actions[i].type = "UNSUBSCRIBE" =>
              /\ con[c] = "closed"
              /\ \A j \in i + 1 .. Len(m_actions) : m_actions[j].hdl # c
        /\ m_actions[i].type = "MESSAGE" =>
              /\ m_actions[i].n \in rcvd[c] + 1 .. sent[c]
              /\ Held(c, "MESSAGE") => action.n < m_actions[i].n
              /\ \A j \in i + 1 .. Len(m_actions) :
                    QueuedFor(j, c, "MESSAGE") => m_actions[i].n < m_actions[j].n

OrderInv == \A i \in Queued : OrderAt(i)

IInv == TypeOK /\ LifeInv /\ PeerInv /\ HeldInv /\ SubscribeInv /\ OrderInv /\ ChannelAgrees

\* A connection that has ended is still to be reported, or has been; none of an
\* earlier server is in m_connections.
EndsInv ==
    /\ \A c \in Conn : con[c] = "closed" =>
          \/ told[c] = "disconnected"
          \/ Held(c, "UNSUBSCRIBE")
          \/ \E i \in Queued : QueuedFor(i, c, "UNSUBSCRIBE")
    /\ \A c \in m_connections : con[c] # "dropped"

\* When the service thread sleeps with nothing to do, m_connections are the open
\* connections (websocketServer.h:205-223, 255-273): a loop that begins then
\* misses nobody, and send does not throw.
CurrentWhenQuiet ==
    InUse /\ ws_thread = "wait" /\ m_actions = <<>> => m_connections = {c \in Conn : con[c] = "open"}

\* As long as the server is not stopped, a peer that connects is announced and
\* one that leaves is reported: no action stays in the queue for ever.
EveryPeerReported ==
    \A c \in Conn :
        /\ con[c] = "open" ~> told[c] # "nothing" \/ stopped \/ crashed
        /\ con[c] = "closed" /\ ~stopped ~> told[c] = "disconnected" \/ stopped \/ crashed

\* stop() joins both threads.  It returns whenever the service thread had
\* executed its first statement before stop() was entered.
StartedStopReturns ==
    main = "stop" /\ ws_thread # "created" ~> main = "idle" \/ crashed
=============================================================================
