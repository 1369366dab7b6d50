------------------------------- MODULE Sending -------------------------------
(***************************************************************************)
(* The loops that send a packet to all connections of a websocketServer     *)
(* (sendToAll of sources/WebsocketServerTransporter.cpp, send of            *)
(* sources/WebsocketServerImpl.cpp), on Pd's thread.  They walk             *)
(* m_connections without the lock the service thread takes to change it:    *)
(* once it has changed the set, the iterator may pass a connection twice or *)
(* never, reach the end early, or end the process.                          *)
(*                                                                         *)
(* m_server.send throws for a connection that is not open any more.  The    *)
(* loop does not catch it: it ends there, with the call of Pd's thread.     *)
(***************************************************************************)
EXTENDS WebsocketServer

VARIABLES
    walk,       \* where Pd's thread is in the loop, or NotWalking
    got,        \* the connections the packet was sent to
    threw       \* the last loop was left by an exception

walkVars == <<walk, got, threw>>

NotWalking == <<>>
Walking == walk # NotWalking

SendingInit == walk = NotWalking /\ got = {} /\ threw = FALSE

BeginSend ==
    /\ ~Walking /\ object = "alive" /\ main = "idle"
    /\ walk' = [start |-> m_connections, visited |-> {}, changed |-> FALSE]
    /\ got' = {} /\ threw' = FALSE
    /\ UNCHANGED vars

\* Where the iterator may go next.
Ahead == IF walk.changed THEN m_connections ELSE m_connections \ walk.visited
At(c) == Walking /\ c \in Ahead /\ UNCHANGED vars
Go(c) == walk' = [walk EXCEPT !.visited = @ \cup {c}] /\ UNCHANGED threw
Leave == walk' = NotWalking /\ got' = {}

SendTo(c) == At(c) /\ con[c] = "open" /\ Go(c) /\ got' = got \cup {c}

\* conn.lock() fails since the connection has ended: as if there was nothing more to do.
ReturnAtExpired(c) == At(c) /\ con[c] = "closed" /\ Leave /\ UNCHANGED threw

\* The same: nothing is sent.
SkipExpired(c) == At(c) /\ con[c] = "closed" /\ Go(c) /\ UNCHANGED got

\* The connection has ended, and is still there.
SendThrows(c) == At(c) /\ con[c] = "closed" /\ Leave /\ threw' = TRUE

EndSend == Walking /\ (Ahead = {} \/ walk.changed) /\ Leave /\ UNCHANGED <<threw, vars>>

\* What a step of the service thread does to a loop that is under way.
Disturbs ==
    /\ walk' = IF Walking /\ m_connections' # m_connections THEN [walk EXCEPT !.changed = TRUE] ELSE walk
    /\ UNCHANGED <<got, threw>>

\* The service thread changes the set that is being walked, and the process ends.
Corrupts ==
    /\ Walking /\ ws_thread = "update"
    /\ crashed' = TRUE
    /\ UNCHANGED <<object, main, server_thread, ws_thread, m_run, queueVars, m_connections,
                   endpointVars, peerVars, listenerVars, walkVars>>

-----------------------------------------------------------------------------
(* Properties.                                                             *)

\* Who was there when the loop began, is there still, and does not get the packet.
Missed == {c \in walk.start \cap m_connections : con[c] = "open" /\ c \notin got}

\* The service thread has taken in all that happened.
Handled == InUse /\ ws_thread = "wait" /\ m_actions = <<>>

\* A packet for all reaches all who are connected throughout
\* (WebsocketServerTransporter.cpp:190-207, WebsocketServerImpl.cpp:51-58), but for two
\* cases: the service thread changes the set during the loop, where the iterator may
\* pass by anyone; or send throws, which it does not when all arrivals and departures
\* are handled.
ReachesAll ==
    [][Walking /\ ~Walking' /\ ~walk.changed /\ (threw' => Handled) => Missed = {}]_walkVars

\* Why: who was passed and is connected was connected then, and was sent to.
PassedInv ==
    /\ con \in [Conn -> ConState]
    /\ Walking =>
          /\ walk = [start |-> walk.start, visited |-> walk.visited, changed |-> walk.changed]
          /\ walk.changed \in BOOLEAN
          /\ walk.visited \subseteq Conn
          /\ \A c \in walk.visited : con[c] # "new" /\ (con[c] = "open" => c \in got)
=============================================================================
