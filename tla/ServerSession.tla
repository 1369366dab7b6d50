---------------------------- MODULE ServerSession ----------------------------
(***************************************************************************)
(* What a websocketServer (sources/websocketServer.h) promises the          *)
(* IWebsocketServerListener it reports to (lines 91-98), whatever threads   *)
(* and queues it uses: every peer is announced once, its messages arrive    *)
(* in the order it sent them and only between the two announcements, and    *)
(* its departure is reported once, after its arrival.  WebsocketServer      *)
(* implements this specification.                                           *)
(***************************************************************************)
EXTENDS Naturals

CONSTANT Conn           \* the connections peers open; a handle is never reused

VARIABLES
    con,    \* con[c]: what happened on the network to connection c
    sent,   \* sent[c]: number of messages the peer of c has sent
    told,   \* told[c]: what the listener was last told of c
    rcvd    \* rcvd[c]: number of the last message of c the listener was given

sessionVars == <<con, sent, told, rcvd>>

ConState == {"new", "open", "closed", "dropped"}
Told == {"nothing", "connected", "disconnected"}

Init ==
    /\ con = [c \in Conn |-> "new"]
    /\ sent = [c \in Conn |-> 0]
    /\ told = [c \in Conn |-> "nothing"]
    /\ rcvd = [c \in Conn |-> 0]

Open(c) ==
    /\ con[c] = "new"
    /\ con' = [con EXCEPT ![c] = "open"]
    /\ UNCHANGED <<sent, told, rcvd>>

Send(c) ==
    /\ con[c] = "open"
    /\ sent' = [sent EXCEPT ![c] = @ + 1]
    /\ UNCHANGED <<con, told, rcvd>>

Close(c) ==
    /\ con[c] = "open"
    /\ con' = [con EXCEPT ![c] = "closed"]
    /\ UNCHANGED <<sent, told, rcvd>>

\* The server object is freed: its sockets and what it still had to report of
\* them go away.
Drop ==
    /\ con' = [c \in Conn |-> IF con[c] = "new" THEN "new" ELSE "dropped"]
    /\ UNCHANGED <<sent, told, rcvd>>

\* connected(): the peer has arrived and the listener has not heard of it.
Connected(c) ==
    /\ con[c] \in {"open", "closed"}
    /\ told[c] = "nothing"
    /\ told' = [told EXCEPT ![c] = "connected"]
    /\ UNCHANGED <<con, sent, rcvd>>

\* received(): a message newer than the last one.  Text messages and those
\* whose connection is already gone are skipped.
Received(c) ==
    /\ con[c] \in {"open", "closed"}
    /\ told[c] = "connected"
    /\ \E n \in rcvd[c] + 1 .. sent[c] : rcvd' = [rcvd EXCEPT ![c] = n]
    /\ UNCHANGED <<con, sent, told>>

\* disconnected(): the peer has left and the listener knew of it.
Disconnected(c) ==
    /\ con[c] = "closed"
    /\ told[c] = "connected"
    /\ told' = [told EXCEPT ![c] = "disconnected"]
    /\ UNCHANGED <<con, sent, rcvd>>

Next ==
    \/ Drop
    \/ \E c \in Conn :
          Open(c) \/ Send(c) \/ Close(c) \/ Connected(c) \/ Received(c) \/ Disconnected(c)

Spec == Init /\ [][Next]_sessionVars
=============================================================================
