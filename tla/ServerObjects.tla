---------------------------- MODULE ServerObjects ----------------------------
(***************************************************************************)
(* A patch with either of the two Pd objects that own a websocketServer,    *)
(* rcp.server or ws.server: the one or the other, for good.                 *)
(***************************************************************************)
EXTENDS ServerTransport, PdWebsocketServer

VARIABLE kind

objectVars == <<transportVars, wsVars, kind>>

\* ws.server is alone: the rcp.server there was has been deleted.
ObjectsInit ==
    /\ WsInit
    /\ \/ kind = "rcp.server" /\ TransportInit
       \/ /\ kind = "ws.server" /\ call = "deleted" /\ loaded = NotLoaded
          /\ request = 0 /\ m_port = 0 /\ m_clientCount = 0 /\ outlet = 0

ObjectsNext ==
    /\ UNCHANGED kind
    /\ \/ kind = "rcp.server" /\ TransportNext /\ UNCHANGED WsRest
       \/ kind = "ws.server" /\ WsNext /\ UNCHANGED Rest

Running == kind = "rcp.server" /\ ~crashed /\ UNCHANGED <<kind, WsRest>>

ObjectsSpec == ObjectsInit /\ [][ObjectsNext]_objectVars

\* As in ParameterServer: each thread of rcp.server runs when it can.
FairObjectsSpec ==
    /\ ObjectsSpec
    /\ WF_objectVars(Running /\ PdThread /\ UNCHANGED walkVars)
    /\ WF_objectVars(Running /\ SendSteps /\ UNCHANGED Rest)
    /\ WF_objectVars(Running /\ ServiceThread /\ Disturbs)
    /\ WF_objectVars(Running /\ NetworkThread /\ UNCHANGED walkVars)

-----------------------------------------------------------------------------
\* ws.server's m_server and port are as its calls leave them (PdWebsocketServer.cpp:138-162).
WsTypes == kind = "ws.server" => WsTypeOK

\* ws.server's outlet 1 counts its connections (PdWebsocketServer.cpp:72-80).
WsOutletCounts == kind = "ws.server" => OutletCounts
=============================================================================
