---------------------------- MODULE ServerTransport ---------------------------
(***************************************************************************)
(* rcp.server with what it sends: an update of its parameters goes to all   *)
(* clients by sendToAll (sources/WebsocketServerTransporter.cpp), on Pd's   *)
(* thread.  The packets rcp-c sends in answer to a client's, on the service *)
(* thread, change nothing here.                                             *)
(***************************************************************************)
EXTENDS ParameterServer, Sending

transportVars == <<paramVars, walkVars>>

TransportInit == ParamInit /\ SendingInit

\* rcp_server_update, by any of the transporters that rcp-c was given: one that
\* does not listen sends nothing.
sendToAll == call = "idle" /\ listening /\ BeginSend

SendSteps == EndSend \/ \E c \in Conn : SendTo(c) \/ SkipExpired(c) \/ SendThrows(c)

TransportNext ==
    /\ ~crashed
    /\ \/ ~Walking /\ (PdCalls \/ PdThread) /\ UNCHANGED walkVars
       \/ (sendToAll \/ SendSteps \/ Corrupts) /\ UNCHANGED Rest
       \/ ServiceThread /\ Disturbs
       \/ NetworkThread /\ UNCHANGED walkVars
       \/ (Peers \/ SpuriousWakeup) /\ UNCHANGED <<Rest, walkVars>>

TransportSpec == TransportInit /\ [][TransportNext]_transportVars
=============================================================================
