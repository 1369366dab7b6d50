------------------------ MODULE ServerObjects_proofs -------------------------
(* Theorems about rcp.server and ws.server: what drives their transporter,  *)
(* what they count, and the loops in which they send to all connections.    *)
EXTENDS ServerObjects, WebsocketServer_proofs, FiniteSetTheorems

USE DEF dataVars, worldVars

\* Every step of rcp.server is one WebsocketServer describes, or none at all.
LEMMA UsesServer == [ParamNext]_paramVars => [Next]_vars
<1> USE DEF Next
<1>1. CASE UNCHANGED paramVars
  BY <1>1 DEF paramVars
<1>2. ASSUME ParamNext, PdCalls PROVE Next \/ UNCHANGED vars
  BY <1>2 DEF ParamNext, PdCalls, DeleteUnbind, DeleteUnused, RabbitholeReleased, ListenOpen, ListenClose
<1>3. ASSUME ParamNext, PdThread PROVE Next \/ UNCHANGED vars
  BY <1>3 DEF ParamNext, PdThread, ListenConstruct, ListenBind, ListenReset, ListenClosed, DeleteRelease, DeleteEnds
<1>4. ASSUME ParamNext, ServiceThread PROVE Next \/ UNCHANGED vars
  BY <1>4 DEF ParamNext, ServiceThread, ServiceStep, StoreCount, Service
<1>5. ASSUME ParamNext, NetworkThread \/ Peers \/ SpuriousWakeup PROVE Next
  BY <1>5 DEF ParamNext, NetworkThread
<1> QED
  BY <1>1, <1>2, <1>3, <1>4, <1>5 DEF ParamNext

\* listen and the destructor drive the transporter only in ways WebsocketServer
\* describes, so what is proved of it holds of every transporter of rcp.server.
THEOREM DrivesServer == ParamSpec => Spec
<1>1. ParamInit => Init
  BY DEF ParamInit
<1> QED
  BY <1>1, UsesServer, PTL DEF ParamSpec, Spec

\* In rcp.server, too, the set of connections that updates go to is the set of
\* the peers that were announced (WebsocketServerTransporter.cpp:86-162).
THEOREM ServerChannelCorrect == ParamSpec => []ChannelAgrees
BY DrivesServer, ChannelCorrect, PTL

LEMMA DeletionStep == IInv /\ DeletionInv /\ [ParamNext]_paramVars => DeletionInv'
<1> SUFFICES ASSUME IInv, DeletionInv, [ParamNext]_paramVars PROVE DeletionInv'
  OBVIOUS
<1> USE DEF DeletionInv
<1>1. CASE UNCHANGED paramVars
  BY <1>1 DEF paramVars, vars, endpointVars
<1>2. CASE PdCalls
  <2>1. CASE DeleteUnbind
    BY <2>1 DEF DeleteUnbind, Stop
  <2>2. CASE DeleteUnused \/ RabbitholeReleased
    <3>1. call' \in {"rabbithole", "deleted"}
      BY <2>2 DEF DeleteUnused, RabbitholeReleased, Released
    <3> QED
      BY <3>1
  <2>3. CASE \E p \in ListenArgs : ListenOpen(p) \/ ListenClose(p)
    <3>1. call' \in {"construct", "close"}
      BY <2>3 DEF ListenOpen, ListenClose
    <3> QED
      BY <3>1
  <2> QED
    BY <1>2, <2>1, <2>2, <2>3 DEF PdCalls
<1>3. CASE PdThread
  <2>1. CASE ListenConstruct \/ ListenBind \/ ListenReset \/ ListenClosed \/ DeleteEnds
    BY <2>1 DEF ListenConstruct, ListenBind, ListenReset, ListenClosed, DeleteEnds, Released
  <2>2. CASE DeleteRelease
    BY <2>2 DEF DeleteRelease, Destroy, IInv, LifeInv
  <2>3. CASE Main /\ UNCHANGED Rest
    BY <2>3 DEF Main, Rest, StopServer, ClearConnections, JoinServer, ClearRun, NotifyStop, Woken, JoinService,
                StopReturns, Free, endpointVars, IInv, LifeInv
  <2> QED
    BY <1>3, <2>1, <2>2, <2>3 DEF PdThread
<1>4. CASE ServiceThread
  <2>1. UNCHANGED <<object, main, stopped, call>> /\ (ws_thread # "null" \/ UNCHANGED ws_thread)
    BY <1>4 DEF ServiceThread, ServiceStep, StoreCount, StartService, ExitService, Wait, Take, UpdateConnections,
                CallConnected, CallDisconnected, CallReceived, SkipMessage, PureVirtualCall, EndCall, LoadCount,
                Rest, endpointVars, vars
  <2> QED
    BY <2>1
<1>5. CASE (NetworkThread \/ Peers \/ SpuriousWakeup) /\ UNCHANGED Rest
  <2>1. UNCHANGED <<object, main, stopped, call>> /\ (ws_thread = "null" => ws_thread' = "null")
    BY <1>5 DEF NetworkThread, ServerThread, DoRunListens, DoRunFails, DoRunReturns, NotifyService, Woken, Peers, on_open,
                on_message, on_close, SpuriousWakeup, Rest, endpointVars
  <2> QED
    BY <2>1
<1> QED
  BY <1>1, <1>2, <1>3, <1>4, <1>5 DEF ParamNext, NetworkThread

\* Deleting rcp.server never lets the service thread call a listener that is
\* already destroyed (ParameterServer.cpp:124-128).
THEOREM DeletionIsSafe == ParamSpec => DeletesAfterUnbind
<1>1. ParamInit => DeletionInv
  BY DEF ParamInit, DeletionInv
<1>2. IInv /\ DeletionInv /\ [ParamNext]_paramVars => [PureVirtualCall => call \notin {"unbind", "delete"}]_paramVars
  BY DEF DeletionInv, PureVirtualCall
<1>3. ParamSpec => []IInv
  BY DrivesServer, Invariant, PTL
<1> QED
  BY <1>1, <1>2, <1>3, DeletionStep, PTL DEF ParamSpec, DeletesAfterUnbind

-----------------------------------------------------------------------------

LEMMA PortBound == UINT16_MAX \in Nat /\ 0 \in 0 .. UINT16_MAX
BY DEF UINT16_MAX

\* What a count that is held back becomes.
LEMMA CountStored ==
    ASSUME ParamTypeOK, StoreCount
    PROVE  m_clientCount' \in Nat /\ outlet' \in Nat
<1>1. loaded \in [count : Nat, by : {1, -1}]
  BY DEF ParamTypeOK, StoreCount
<1>2. loaded.count + loaded.by \in Int
  BY <1>1
<1> QED
  BY <1>2 DEF StoreCount

LEMMA ParamTypeStep == ParamTypeOK /\ RequestInv /\ [ParamNext]_paramVars => ParamTypeOK' /\ RequestInv'
<1> SUFFICES ASSUME ParamTypeOK, RequestInv, [ParamNext]_paramVars PROVE ParamTypeOK' /\ RequestInv'
  OBVIOUS
<1>1. CASE UNCHANGED Rest
  BY <1>1 DEF Rest, serverVars, countVars, ParamTypeOK, RequestInv
<1>2. CASE DeleteUnbind \/ DeleteUnused \/ RabbitholeReleased
  BY <1>2 DEF DeleteUnbind, DeleteUnused, RabbitholeReleased, Released, serverVars, countVars, ParamTypeOK, RequestInv, CallPc
<1>3. ASSUME NEW p \in ListenArgs, ListenOpen(p) \/ ListenClose(p) PROVE ParamTypeOK' /\ RequestInv'
  <2>1. p \in Int
    BY ListenArgsAssumption
  <2>2. p <= UINT16_MAX /\ request' = p /\ UNCHANGED <<m_port, countVars, loaded>>
        /\ (call' = "close" \/ (call' = "construct" /\ p > 0))
    BY <1>3 DEF ListenOpen, ListenClose, Accepted
  <2> QED
    BY <2>1, <2>2, PortBound DEF countVars, ParamTypeOK, RequestInv, CallPc
<1>4. CASE ListenConstruct \/ ListenReset \/ ListenClosed \/ DeleteRelease \/ DeleteEnds
  BY <1>4 DEF ListenConstruct, ListenReset, ListenClosed, DeleteRelease, DeleteEnds, Released, serverVars, countVars,
              ParamTypeOK, RequestInv, CallPc
<1>5. CASE ListenBind
  <2>1. request \in 0 .. UINT16_MAX
    BY <1>5, PortBound DEF ListenBind, RequestInv
  <2> QED
    BY <1>5, <2>1 DEF ListenBind, countVars, ParamTypeOK, RequestInv, CallPc
<1>6. ASSUME NEW by \in {1, -1}, LoadCount(by) PROVE ParamTypeOK' /\ RequestInv'
  <2>1. loaded' \in [count : Nat, by : {1, -1}]
    BY <1>6 DEF LoadCount, ParamTypeOK
  <2> QED
    BY <1>6, <2>1 DEF LoadCount, serverVars, countVars, ParamTypeOK, RequestInv
<1>7. CASE StoreCount
  BY <1>7, CountStored DEF StoreCount, serverVars, ParamTypeOK, RequestInv
<1>8. UNCHANGED paramVars => UNCHANGED Rest
  BY DEF paramVars, Rest
<1>9. ServiceStep => LoadCount(1) \/ LoadCount(-1) \/ UNCHANGED Rest
  BY DEF ServiceStep
<1>10. PdCalls => DeleteUnbind \/ DeleteUnused \/ RabbitholeReleased \/ \E p \in ListenArgs : ListenOpen(p) \/ ListenClose(p)
  BY DEF PdCalls
<1> QED
  BY <1>1, <1>2, <1>3, <1>4, <1>5, <1>6, <1>7, <1>8, <1>9, <1>10 DEF ParamNext, PdThread, ServiceThread, NetworkThread

\* The port, the count and the copy of the count that the service thread holds keep
\* their ranges (ParameterServer.cpp:138-154, 190-226).
THEOREM ParamTypeCorrect == ParamSpec => []ParamTypeOK
<1>1. ParamInit => ParamTypeOK /\ RequestInv
  BY PortBound DEF ParamInit, ParamTypeOK, RequestInv, CallPc
<1> QED
  BY <1>1, ParamTypeStep, PTL DEF ParamSpec

-----------------------------------------------------------------------------
(* The count.                                                              *)

\* The clients the server has announced become one more by connected, one less by
\* disconnected, and none with the end of the transporter.
LEMMA KnownStep ==
    ASSUME IInv, [Next]_vars
    PROVE  /\ CallConnected => action.hdl \notin Known /\ Known' = Known \cup {action.hdl}
           /\ CallDisconnected => action.hdl \in Known /\ Known' = Known \ {action.hdl}
           /\ Free => Known' = {}
           /\ CallConnected \/ CallDisconnected \/ Free \/ Known' = Known
<1> USE DEF Known, queueVars, endpointVars, peerVars, listenerVars
<1>0. TypeOK /\ HeldInv /\ PeerInv /\ told \in [Conn -> Told]
  BY DEF IInv, TypeOK
<1>a. ASSUME NEW c \in Conn, NEW x \in Told, UNCHANGED con, told' = [told EXCEPT ![c] = x], con[c] \in {"open", "closed"}
      PROVE  Known' = IF x = "connected" THEN Known \cup {c} ELSE Known \ {c}
  <2>1. told'[c] = x /\ \A d \in Conn \ {c} : told'[d] = told[d]
    BY <1>0, <1>a
  <2>2. \A d : d \in Known' <=> IF x = "connected" THEN d \in Known \cup {c} ELSE d \in Known \ {c}
    BY <1>a, <2>1
  <2> QED
    BY <2>2
<1>1. CASE CallConnected
  <2>1. action.hdl \in Conn /\ con[action.hdl] \in {"open", "closed"} /\ told[action.hdl] = "nothing"
    BY <1>0, <1>1, ActionFields DEF CallConnected, HeldInv
  <2>2. con' = con /\ told' = [told EXCEPT ![action.hdl] = "connected"]
    BY <1>1 DEF CallConnected, EndCall
  <2>3. Known' = Known \cup {action.hdl} /\ action.hdl \notin Known
    BY <1>a, <2>1, <2>2 DEF Told
  <2>4. ~CallDisconnected /\ ~Free
    BY <1>1 DEF CallConnected, CallDisconnected, EndCall, Free
  <2> QED
    BY <1>1, <2>3, <2>4
<1>2. CASE CallDisconnected
  <2>1. action.hdl \in Conn /\ con[action.hdl] = "closed" /\ told[action.hdl] = "connected"
    BY <1>0, <1>2, ActionFields DEF CallDisconnected, HeldInv
  <2>2. con' = con /\ told' = [told EXCEPT ![action.hdl] = "disconnected"]
    BY <1>2 DEF CallDisconnected, EndCall
  <2>3. Known' = Known \ {action.hdl} /\ action.hdl \in Known
    BY <1>a, <2>1, <2>2 DEF Told
  <2>4. ~CallConnected /\ ~Free
    BY <1>2 DEF CallConnected, CallDisconnected, EndCall, Free
  <2> QED
    BY <1>2, <2>3, <2>4
<1>3. CASE Free
  <2>1. \A c \in Conn : con'[c] \in {"new", "dropped"}
    BY <1>3 DEF Free
  <2>2. ~CallConnected /\ ~CallDisconnected
    BY <1>3 DEF CallConnected, CallDisconnected, EndCall, Free
  <2> QED
    BY <1>3, <2>1, <2>2
<1>4. ASSUME NEW c \in Conn, on_open(c) \/ on_close(c) PROVE Known' = Known
  <2>1. con[c] = "new" => told[c] = "nothing"
    BY <1>0 DEF PeerInv
  <2>2. told' = told /\ \A d \in Conn : con'[d] = con[d] \/ (d = c /\ con[d] = "new" /\ told[d] = "nothing")
                                         \/ (d = c /\ con[d] = "open" /\ con'[d] = "closed")
    BY <1>0, <1>4, <2>1 DEF on_open, on_close, TypeOK
  <2> QED
    BY <2>2
<1>5. \/ Construct \/ Run \/ Stop \/ Destroy \/ StopServer \/ ClearConnections \/ JoinServer \/ ClearRun
      \/ NotifyStop \/ JoinService \/ StopReturns \/ DoRunListens \/ DoRunFails \/ DoRunReturns \/ NotifyService
      => UNCHANGED <<con, told>>
  BY DEF Construct, Run, Stop, Destroy, StopServer, ClearConnections, JoinServer, ClearRun, NotifyStop, JoinService,
         StopReturns, DoRunListens, DoRunFails, DoRunReturns, NotifyService
<1>6. \/ \E c \in Conn, text \in BOOLEAN : on_message(c, text)
      \/ StartService \/ ExitService \/ Wait \/ Take \/ UpdateConnections \/ CallReceived \/ SkipMessage
      \/ PureVirtualCall \/ SpuriousWakeup \/ UNCHANGED vars
      => UNCHANGED <<con, told>>
  BY DEF on_message, StartService, ExitService, Wait, Take, UpdateConnections, CallReceived, SkipMessage, EndCall,
         PureVirtualCall, SpuriousWakeup, vars
<1>7. UNCHANGED <<con, told>> => Known' = Known
  OBVIOUS
<1> QED
  BY StepCases, <1>1, <1>2, <1>3, <1>4, <1>5, <1>6, <1>7

\* A transporter that is being destroyed is so within a call.
LEMMA BaseStep ==
    ASSUME CountInv, [ParamNext]_paramVars, object' = "base"
    PROVE  call' \in {"construct", "close", "delete"}
<1> USE DEF queueVars, endpointVars, peerVars, listenerVars
<1>1. CASE object = "base"
  <2>1. call \in {"construct", "close", "delete"}
    BY <1>1 DEF CountInv
  <2>2. CASE call' = call
    BY <2>1, <2>2
  <2>3. CASE call' # call
    <3>1. ListenConstruct \/ ListenClosed \/ DeleteEnds
      BY <2>1, <2>3 DEF ParamNext, PdCalls, PdThread, ServiceThread, ServiceStep, NetworkThread, DeleteUnbind, DeleteUnused,
            RabbitholeReleased, ListenOpen, ListenClose, ListenBind, ListenReset, DeleteRelease, LoadCount, StoreCount, Rest, paramVars
    <3> QED
      BY <1>1, <3>1 DEF ListenConstruct, ListenClosed, DeleteEnds, Construct
  <2> QED
    BY <2>2, <2>3
<1>2. CASE object # "base"
  <2>1. Destroy
    BY <1>2, UsesServer, StepCases DEF Construct, Run, Stop, StopServer, ClearConnections, JoinServer, ClearRun,
       NotifyStop, JoinService, StopReturns, Free, DoRunListens, DoRunFails, DoRunReturns, NotifyService, on_open,
       on_close, on_message, StartService, ExitService, Wait, Take, UpdateConnections, CallConnected,
       CallDisconnected, CallReceived, SkipMessage, EndCall, PureVirtualCall, SpuriousWakeup, vars
  <2>2. object = "alive" /\ main = "idle" /\ main' = "stop"
    BY <2>1 DEF Destroy
  <2>3. CASE PdCalls
    BY <1>2, <2>2, <2>3 DEF PdCalls, DeleteUnbind, DeleteUnused, RabbitholeReleased, ListenOpen, ListenClose, Stop, vars
  <2>4. CASE PdThread
    BY <2>1, <2>2, <2>4 DEF PdThread, ListenConstruct, ListenBind, ListenReset, ListenClosed, DeleteRelease, DeleteEnds,
       Construct, Run, Main, StopServer, ClearConnections, JoinServer, ClearRun, NotifyStop, JoinService, StopReturns, Free, vars
  <2>5. CASE ServiceThread
    BY <2>1, <2>5 DEF ServiceThread, ServiceStep, StoreCount, StartService, ExitService, Wait, Take, UpdateConnections,
       CallConnected, CallDisconnected, CallReceived, SkipMessage, EndCall, PureVirtualCall, vars, Destroy
  <2>6. CASE NetworkThread \/ Peers \/ SpuriousWakeup
    BY <2>1, <2>6 DEF NetworkThread, ServerThread, DoRunListens, DoRunFails, DoRunReturns, NotifyService, Peers, on_open,
       on_close, on_message, SpuriousWakeup, Destroy
  <2>7. CASE UNCHANGED paramVars
    BY <1>2, <2>7 DEF paramVars, vars
  <2> QED
    BY <1>2, <2>2, <2>3, <2>4, <2>5, <2>6, <2>7 DEF ParamNext
<1> QED
  BY <1>1, <1>2

\* A copy of the count is not mistaken for none.
LEMMA LoadedIsHeld == \A x, y : [count |-> x, by |-> y] # NotLoaded
<1> SUFFICES ASSUME NEW x, NEW y, [count |-> x, by |-> y] = <<>> PROVE FALSE
  BY DEF NotLoaded
<1>1. DOMAIN [count |-> x, by |-> y] = {"count", "by"} /\ DOMAIN <<>> = {}
  OBVIOUS
<1> QED
  BY <1>1

\* A step with nothing to load is not one that reports a client.
LEMMA ReportsOnly ==
    ASSUME ParamNext, UNCHANGED Rest
    PROVE  ~CallConnected /\ ~CallDisconnected
<1> SUFFICES ASSUME ws_thread = "call", ws_thread' = "loop", action.type \in {"SUBSCRIBE", "UNSUBSCRIBE"} PROVE FALSE
  BY DEF CallConnected, CallDisconnected, EndCall
<1>1. UNCHANGED <<call, loaded>>
  BY DEF Rest
<1>2. CASE PdCalls
  BY <1>1, <1>2 DEF PdCalls, DeleteUnbind, DeleteUnused, Released, RabbitholeReleased, ListenOpen, ListenClose
<1>3. CASE PdThread
  BY <1>1, <1>3 DEF PdThread, ListenConstruct, ListenBind, ListenReset, ListenClosed, DeleteRelease, DeleteEnds, Released, Main,
     StopServer, ClearConnections, JoinServer, ClearRun, NotifyStop, Woken, JoinService, StopReturns, Free
<1>4. CASE ServiceThread
  <2>1. (~LoadCount(1) /\ ~LoadCount(-1)) \/ loaded # NotLoaded
    BY <1>1, LoadedIsHeld DEF LoadCount
  <2>2. CASE StoreCount
    BY <2>2 DEF StoreCount, vars
  <2>3. CASE ServiceStep
    BY <2>1, <2>3 DEF ServiceStep, StartService, ExitService, Wait, Take, UpdateConnections, CallReceived, SkipMessage,
                      PureVirtualCall
  <2> QED
    BY <1>4, <2>2, <2>3 DEF ServiceThread
<1>5. CASE NetworkThread \/ Peers \/ SpuriousWakeup
  BY <1>5 DEF NetworkThread, ServerThread, DoRunListens, DoRunFails, DoRunReturns, NotifyService, Woken, Peers, on_open,
              on_close, on_message, SpuriousWakeup
<1> QED
  BY <1>2, <1>3, <1>4, <1>5 DEF ParamNext

LEMMA CountStep == IInv /\ CountInv /\ [ParamNext]_paramVars => CountInv'
<1> SUFFICES ASSUME IInv, CountInv, [ParamNext]_paramVars PROVE IsFiniteSet(Known')
  BY BaseStep DEF CountInv
<1>1. IsFiniteSet(Known)
  BY DEF CountInv
<1>2. \/ Known' = Known \cup {action.hdl} \/ Known' = Known \ {action.hdl} \/ Known' = {} \/ Known' = Known
  BY UsesServer, KnownStep
<1>3. IsFiniteSet(Known \cup {action.hdl}) /\ IsFiniteSet(Known \ {action.hdl}) /\ IsFiniteSet({})
  BY <1>1, FS_AddElement, FS_RemoveElement, FS_EmptySet
<1> QED
  BY <1>1, <1>2, <1>3

LEMMA ExactStep ==
    ASSUME IInv, CountInv, ParamTypeOK, ParamNext, call = "idle", call' = "idle", Drift = 0
    PROVE  Drift' = 0
<1>0. [Next]_vars
  BY UsesServer
<1> USE DEF serverVars, countVars, queueVars, endpointVars, peerVars, listenerVars
<1> DEFINE n == Cardinality(Known)
           said == IF loaded = NotLoaded THEN m_clientCount ELSE loaded.count + loaded.by
<1>1. IsFiniteSet(Known) /\ n \in Nat
  BY FS_CardinalityType DEF CountInv
<1>2. said \in Int
  BY DEF ParamTypeOK
<1>3. said = n
  BY <1>1, <1>2 DEF Drift
<1>4. n' \in Int /\ said' = n' => Drift' = 0
  BY DEF Drift
<1>5. CASE ServiceStep /\ CallConnected /\ LoadCount(1)
  <2>1. said' = m_clientCount + 1 /\ said = m_clientCount
    BY <1>5, LoadedIsHeld DEF ServiceStep, LoadCount
  <2>2. n' = n + 1
    BY <1>1, <1>5, <1>0, KnownStep, FS_AddElement
  <2> QED
    BY <1>1, <1>3, <1>4, <2>1, <2>2
<1>6. CASE ServiceStep /\ CallDisconnected /\ LoadCount(-1)
  <2>1. said' = m_clientCount - 1 /\ said = m_clientCount
    BY <1>2, <1>6, LoadedIsHeld DEF ServiceStep, LoadCount, ParamTypeOK
  <2>2. n' = n - 1
    BY <1>1, <1>6, <1>0, KnownStep, FS_RemoveElement
  <2> QED
    BY <1>1, <1>3, <1>4, <2>1, <2>2
<1>7. CASE StoreCount
  <2>1. n' = n
    BY <1>7 DEF StoreCount, Known, vars
  <2>2. loaded.count + loaded.by = n
    BY <1>3, <1>7 DEF StoreCount
  <2>3. said' = n
    BY <1>1, <1>7, <2>2 DEF StoreCount
  <2> QED
    BY <1>1, <1>4, <2>1, <2>3
<1>8. CASE UNCHANGED Rest /\ ~CallConnected /\ ~CallDisconnected
  <2>1. said' = said
    BY <1>8 DEF Rest
  <2>2. object # "base"
    BY DEF CountInv
  <2>3. n' = n
    BY <1>8, <2>2, <1>0, KnownStep DEF Free
  <2> QED
    BY <1>1, <1>3, <1>4, <2>1, <2>3
<1>9. ServiceStep \/ StoreCount \/ UNCHANGED Rest
  BY DEF ParamNext, PdCalls, PdThread, ServiceThread, NetworkThread, DeleteUnbind, DeleteUnused, Released,
         RabbitholeReleased, ListenOpen, ListenClose, ListenConstruct, ListenBind, ListenReset, ListenClosed, DeleteRelease, DeleteEnds
<1> QED
  BY <1>5, <1>6, <1>7, <1>8, <1>9, ReportsOnly DEF ServiceStep

\* Between two calls of listen an exact count stays exact, for any number of clients
\* and whatever they do (ParameterServer.cpp:138-154).
THEOREM CountIsExact == ParamSpec => CountStaysExact
<1> DEFINE Exact == call = "idle" /\ call' = "idle" /\ Drift = 0 => Drift' = 0
<1>1. ParamInit => CountInv
  <2>1. ParamInit => Known = {}
    BY DEF ParamInit, Init, Known
  <2> QED
    BY <2>1, FS_EmptySet DEF ParamInit, Init, CountInv
<1>2. IInv /\ CountInv /\ ParamTypeOK /\ [ParamNext]_paramVars => [Exact]_paramVars
  BY ExactStep
<1> QED
  BY <1>1, <1>2, CountStep, ParamTypeCorrect, DrivesServer, Invariant, PTL DEF ParamSpec, CountStaysExact

-----------------------------------------------------------------------------

\* A step of the server, a crash, or a step of the loop alone.
Others == (UNCHANGED walkVars \/ Disturbs) /\ ([Next]_vars \/ UNCHANGED con)
Loop == BeginSend \/ EndSend \/ \E c \in Conn : SendTo(c) \/ SkipExpired(c) \/ SendThrows(c)

\* No connection becomes new again, and only a new one becomes open.
LEMMA ConOnwards ==
    ASSUME con \in [Conn -> ConState], [Next]_vars
    PROVE  /\ con' \in [Conn -> ConState]
           /\ \A c \in Conn : con[c] # "new" => con'[c] # "new" /\ (con'[c] = "open" => con[c] = "open")
<1> USE DEF ConState, queueVars, endpointVars, peerVars, listenerVars, dataVars, worldVars
<1>1. ASSUME NEW c \in Conn, on_open(c) \/ on_close(c)
      PROVE  /\ con' \in [Conn -> ConState]
             /\ \A d \in Conn : con[d] # "new" => con'[d] # "new" /\ (con'[d] = "open" => con[d] = "open")
  BY <1>1 DEF on_open, on_close
<1>2. CASE Free
  BY <1>2 DEF Free
<1>3. CASE UNCHANGED con
  BY <1>3
<1>4. (\E c \in Conn : on_open(c) \/ on_close(c)) \/ Free \/ UNCHANGED con
  BY StepCases DEF Construct, Run, Stop, Destroy, StopServer, ClearConnections, JoinServer, ClearRun, NotifyStop,
     JoinService, StopReturns, DoRunListens, DoRunFails, DoRunReturns, NotifyService, on_message, StartService,
     ExitService, Wait, Take, UpdateConnections, CallConnected, CallDisconnected, CallReceived, SkipMessage, EndCall,
     PureVirtualCall, SpuriousWakeup, vars
<1> QED
  BY <1>1, <1>2, <1>3, <1>4

\* The position in the loop is not mistaken for none.
LEMMA WalkIsOne == \A x, y, z : [start |-> x, visited |-> y, changed |-> z] # NotWalking
<1> SUFFICES ASSUME NEW x, NEW y, NEW z, [start |-> x, visited |-> y, changed |-> z] = <<>> PROVE FALSE
  BY DEF NotWalking
<1>1. DOMAIN [start |-> x, visited |-> y, changed |-> z] = {"start", "visited", "changed"} /\ DOMAIN <<>> = {}
  OBVIOUS
<1> QED
  BY <1>1

\* Whatever else happens: the loop is where it was, though the set may have changed.
LEMMA OthersWalk ==
    ASSUME PassedInv, Others
    PROVE  /\ UNCHANGED got /\ (Walking' <=> Walking)
           /\ Walking => \E b \in BOOLEAN : walk' = [start |-> walk.start, visited |-> walk.visited, changed |-> b]
<1> USE DEF PassedInv, Walking
<1>1. CASE UNCHANGED walkVars
  BY <1>1 DEF walkVars
<1>2. CASE Disturbs
  <2>1. CASE Walking /\ m_connections' # m_connections
    <3>1. walk' = [start |-> walk.start, visited |-> walk.visited, changed |-> TRUE]
      BY <1>2, <2>1 DEF Disturbs
    <3> QED
      BY <1>2, <2>1, <3>1, WalkIsOne DEF Disturbs
  <2>2. CASE ~(Walking /\ m_connections' # m_connections)
    BY <1>2, <2>2 DEF Disturbs
  <2> QED
    BY <2>1, <2>2
<1> QED
  BY <1>1, <1>2 DEF Others

LEMMA PassedStep ==
    ASSUME PassedInv, Others \/ Loop
    PROVE  PassedInv'
<1> USE DEF PassedInv, Walking
<1>1. CASE Others
  <2>1. /\ UNCHANGED got /\ (Walking' <=> Walking)
        /\ Walking => \E b \in BOOLEAN : walk' = [start |-> walk.start, visited |-> walk.visited, changed |-> b]
    BY <1>1, OthersWalk
  <2>2. con' \in [Conn -> ConState] /\
        \A c \in Conn : con[c] # "new" => con'[c] # "new" /\ (con'[c] = "open" => con[c] = "open")
    BY <1>1, ConOnwards DEF Others
  <2> QED
    BY <2>1, <2>2
<1>2. CASE BeginSend
  BY <1>2 DEF BeginSend, vars, peerVars
<1>3. CASE EndSend
  BY <1>3 DEF EndSend, Leave, vars, peerVars
<1>4. ASSUME NEW c \in Conn, SendTo(c) \/ SkipExpired(c) PROVE PassedInv'
  <2>1. /\ Walking /\ UNCHANGED con /\ walk' = [walk EXCEPT !.visited = @ \cup {c}]
        /\ got \subseteq got' /\ con[c] # "new" /\ (con[c] = "open" => c \in got')
    BY <1>4 DEF SendTo, SkipExpired, At, Go, vars, peerVars
  <2>2. walk' = [start |-> walk.start, visited |-> walk.visited \cup {c}, changed |-> walk.changed]
    BY <2>1
  <2> QED
    BY <2>1, <2>2
<1>5. ASSUME NEW c \in Conn, SendThrows(c) PROVE PassedInv'
  BY <1>5 DEF SendThrows, At, Leave, vars, peerVars
<1> QED
  BY <1>1, <1>2, <1>3, <1>4, <1>5 DEF Loop

\* A step of the loop, or of the rest, ends the loop only at its end or by an exception.
LEMMA LoopEnds ==
    ASSUME PassedInv, Others \/ Loop, Walking, ~Walking'
    PROVE  EndSend \/ \E c \in Conn : SendThrows(c)
<1> USE DEF PassedInv, Walking
<1>1. ~Others
  BY OthersWalk
<1>2. ~BeginSend
  BY DEF BeginSend
<1>3. ASSUME NEW c \in Conn, SendTo(c) \/ SkipExpired(c) PROVE FALSE
  <2>1. walk' = [start |-> walk.start, visited |-> walk.visited \cup {c}, changed |-> walk.changed]
    BY <1>3 DEF SendTo, SkipExpired, Go
  <2> QED
    BY <2>1, WalkIsOne
<1> QED
  BY <1>1, <1>2, <1>3 DEF Loop

\* When all is handled, no connection of the set has ended, and nothing throws.
LEMMA ReachesStep ==
    ASSUME PassedInv, CurrentWhenQuiet, Others \/ Loop, Walking, ~Walking', ~walk.changed, threw' => Handled
    PROVE  Missed = {}
<1>1. ASSUME NEW c \in Conn, SendThrows(c) PROVE FALSE
  <2>1. Handled
    BY <1>1 DEF SendThrows
  <2>2. m_connections = {d \in Conn : con[d] = "open"}
    BY <2>1 DEF Handled, CurrentWhenQuiet
  <2>3. c \in m_connections /\ con[c] = "closed"
    BY <1>1 DEF SendThrows, At, Ahead
  <2> QED
    BY <2>2, <2>3
<1>2. m_connections \subseteq walk.visited
  BY <1>1, LoopEnds DEF EndSend, Ahead
<1> QED
  BY <1>2 DEF PassedInv, Missed

LEMMA TransportSteps == [TransportNext]_transportVars => Others \/ Loop
<1>1. CASE UNCHANGED transportVars
  BY <1>1 DEF transportVars, paramVars, Others, vars
<1>2. CASE /\ \/ ~Walking /\ (PdCalls \/ PdThread)
              \/ ServiceThread \/ NetworkThread
              \/ (Peers \/ SpuriousWakeup) /\ UNCHANGED Rest
           /\ UNCHANGED walkVars \/ Disturbs
           /\ ~crashed
  BY <1>2, UsesServer DEF ParamNext, Others
<1>3. CASE sendToAll \/ SendSteps
  BY <1>3 DEF sendToAll, SendSteps, Loop
<1>4. CASE Corrupts
  BY <1>4 DEF Corrupts, Others, peerVars
<1> QED
  BY <1>1, <1>2, <1>3, <1>4 DEF TransportNext

Crashes ==
    /\ crashed' = TRUE
    /\ UNCHANGED <<object, main, server_thread, ws_thread, m_run, queueVars, m_connections,
                   endpointVars, peerVars, listenerVars>>

\* The invariants of the server do not look at whether the process has ended.
LEMMA ServerInvariants ==
    ASSUME IInv, EndsInv, [Next]_vars \/ Crashes
    PROVE  IInv' /\ EndsInv'
<1>1. CASE Crashes
  <2>1. IInv'
    BY <1>1 DEF Crashes, IInv, TypeOK, LifeInv, PeerInv, HeldInv, SubscribeInv, SubscribeAt, OrderInv, OrderAt,
       ChannelAgrees, InUse, Reporting, Held, Queued, QueuedFor, queueVars, endpointVars, peerVars, listenerVars
  <2>2. EndsInv'
    BY <1>1 DEF Crashes, EndsInv, Held, Queued, QueuedFor, queueVars, endpointVars, peerVars, listenerVars
  <2> QED
    BY <2>1, <2>2
<1>2. CASE [Next]_vars
  BY <1>2, InvariantStep, EndsStep
<1> QED
  BY <1>1, <1>2

LEMMA TransportStepsUse == [TransportNext]_transportVars => ([Next]_vars \/ Crashes)
<1>1. CASE UNCHANGED transportVars
  BY <1>1 DEF transportVars, paramVars
<1>2. CASE /\ \/ PdCalls \/ PdThread \/ ServiceThread \/ NetworkThread
              \/ (Peers \/ SpuriousWakeup) /\ UNCHANGED Rest
           /\ ~crashed
  BY <1>2, UsesServer DEF ParamNext
<1>3. CASE sendToAll \/ SendSteps
  BY <1>3 DEF sendToAll, SendSteps, BeginSend, EndSend, SendTo, SkipExpired, SendThrows, At
<1>4. CASE Corrupts
  BY <1>4 DEF Corrupts, Crashes
<1> QED
  BY <1>1, <1>2, <1>3, <1>4 DEF TransportNext

\* In rcp.server an update reaches all clients that are connected throughout, for any
\* number of them, unless the set of connections is changed during the loop or send
\* throws, which it does not when all that happened is handled
\* (WebsocketServerTransporter.cpp:190-207).
THEOREM UpdatesReachAll == TransportSpec => ReachesAll
<1> DEFINE Reaches == Walking /\ ~Walking' /\ ~walk.changed /\ (threw' => Handled) => Missed = {}
<1>1. TransportInit => PassedInv /\ IInv /\ EndsInv
  BY InvariantInit, EndsInit DEF TransportInit, ParamInit, SendingInit, Init, PassedInv, Walking, ConState
<1>2. PassedInv /\ IInv /\ EndsInv /\ [TransportNext]_transportVars => PassedInv' /\ IInv' /\ EndsInv'
  BY TransportSteps, PassedStep, TransportStepsUse, ServerInvariants
<1>3. PassedInv /\ IInv /\ EndsInv /\ [TransportNext]_transportVars => [Reaches]_walkVars
  BY TransportSteps, ReachesStep, CurrentByEnds
<1> QED
  BY <1>1, <1>2, <1>3, PTL DEF TransportSpec, ReachesAll

-----------------------------------------------------------------------------
(* ws.server.                                                              *)

LEMMA WsStepsUse == [WsNext]_wsVars => ([Next]_vars \/ Crashes)
<1> USE DEF Next
<1>1. CASE UNCHANGED wsVars
  BY <1>1 DEF wsVars
<1>2. ASSUME WsNext, NEW p \in ListenPorts, Open(p) \/ Dispose(p) PROVE [Next]_vars
  BY <1>2 DEF WsNext, Open, Dispose
<1>3. ASSUME WsNext, DeleteObject \/ PdSteps PROVE [Next]_vars
  BY <1>3 DEF WsNext, DeleteObject, PdSteps, ConstructServer, RunServer, Gone
<1>4. CASE SendList
  BY <1>4 DEF SendList, BeginSend, EndSend, SendTo, SendThrows, At
<1>5. CASE SendToNull \/ AnswerOfNull \/ PortOfNull \/ Corrupts
  BY <1>5 DEF SendToNull, AnswerOfNull, PortOfNull, Corrupts, Crashes
<1>6. ASSUME WsNext, Report \/ Answer \/ OtherService PROVE [Next]_vars
  BY <1>6 DEF WsNext, Report, Answer, OtherService, Service
<1>7. ASSUME WsNext, Peers \/ SpuriousWakeup \/ BindFails \/ ReportPort \/ OtherServer PROVE [Next]_vars
  BY <1>7 DEF WsNext, BindFails, ReportPort, OtherServer, ServerThread
<1> QED
  BY <1>1, <1>2, <1>3, <1>4, <1>5, <1>6, <1>7 DEF WsNext, ServiceSteps, NetworkSteps

LEMMA WsLoops == [WsNext]_wsVars => Others \/ Loop
<1>1. CASE SendList
  BY <1>1 DEF SendList, Loop
<1>2. CASE ~SendList
  <2>1. [WsNext]_wsVars => UNCHANGED walkVars \/ Disturbs
    BY <1>2 DEF WsNext, Open, Dispose, DeleteObject, PdSteps, ConstructServer, RunServer, Gone, SendToNull, Corrupts,
                ServiceSteps, Report, Answer, AnswerOfNull, OtherService, NetworkSteps, BindFails, ReportPort,
                PortOfNull, OtherServer, wsVars
  <2>2. Crashes => UNCHANGED con
    BY DEF Crashes, peerVars
  <2> QED
    BY <2>1, <2>2, WsStepsUse DEF Others
<1> QED
  BY <1>1, <1>2

LEMMA ServerSteps == IInv /\ EndsInv /\ [WsNext]_wsVars => IInv' /\ EndsInv'
BY WsStepsUse, ServerInvariants

\* In ws.server a list reaches all connections that are there throughout, unless the set
\* of connections is changed during the loop or send throws, which it does not when all
\* that happened is handled (PdWebsocketServer.cpp:112-137, WebsocketServerImpl.cpp:51-58).
THEOREM ListsReachAll == WsSpec => ReachesAll
<1> DEFINE Reaches == Walking /\ ~Walking' /\ ~walk.changed /\ (threw' => Handled) => Missed = {}
<1>1. WsInit => PassedInv /\ IInv /\ EndsInv
  BY InvariantInit, EndsInit DEF WsInit, SendingInit, Init, PassedInv, Walking, ConState
<1>2. PassedInv /\ IInv /\ EndsInv /\ [WsNext]_wsVars => PassedInv' /\ IInv' /\ EndsInv'
  BY WsLoops, PassedStep, ServerSteps
<1>3. PassedInv /\ IInv /\ EndsInv /\ [WsNext]_wsVars => [Reaches]_walkVars
  BY WsLoops, ReachesStep, CurrentByEnds
<1> QED
  BY <1>1, <1>2, <1>3, PTL DEF WsSpec, ReachesAll

Reported(c) == con[c] # "dropped" /\ told[c] # "nothing"

\* A step that has nothing to do with the number or the pointer.
LEMMA KeepsCount ==
    ASSUME CountedInv, UNCHANGED <<object, main, stopped, m_connections, pdVars, answering, count>>,
           (ws_thread' = "call" => action'.type = "MESSAGE") => (ws_thread = "call" => action.type = "MESSAGE"),
           \A c \in Conn : Reported(c)' => Reported(c)
    PROVE  CountedInv'
BY DEF CountedInv, Reported, pdVars

LEMMA CountedStep ==
    ASSUME IInv, CountedInv, [WsNext]_wsVars
    PROVE  CountedInv'
<1> USE DEF queueVars, endpointVars, peerVars, listenerVars, dataVars, worldVars, WsRest
<1>1. CASE UNCHANGED wsVars \/ SendList
  BY <1>1, KeepsCount DEF wsVars, vars, SendList, BeginSend, EndSend, SendTo, SendThrows, At, Reported
<1>2. ASSUME NEW p \in ListenPorts, Open(p) \/ Dispose(p) PROVE object' # "alive"
  BY <1>2 DEF Open, Dispose, Destroy, vars
<1>3. CASE DeleteObject \/ Gone
  <2>1. object' # "alive"
    BY <1>3 DEF DeleteObject, Gone, Destroy, vars
  <2> QED
    BY <2>1 DEF CountedInv
<1>4. CASE ConstructServer
  <2>1. \A c \in Conn : ~Reported(c)'
    BY <1>4 DEF ConstructServer, Construct, Reported, IInv, LifeInv, PeerInv
  <2> QED
    BY <1>4, <2>1 DEF ConstructServer, Construct, CountedInv, Reported
<1>5. CASE RunServer
  BY <1>5 DEF RunServer, Run, CountedInv
<1>6. CASE Main /\ UNCHANGED WsRest
  <2>1. object' # "alive"
    BY <1>6 DEF CountedInv, Main, StopServer, ClearConnections, JoinServer, ClearRun, NotifyStop, JoinService,
       StopReturns, Free
  <2> QED
    BY <2>1 DEF CountedInv
<1>7. CASE SendToNull \/ AnswerOfNull \/ PortOfNull \/ (Corrupts /\ UNCHANGED WsRest)
  BY <1>7, KeepsCount DEF SendToNull, AnswerOfNull, PortOfNull, Corrupts, Reported
<1>8. CASE Report
  BY <1>8 DEF Report, CallConnected, CallDisconnected, EndCall, CountedInv, pdVars
<1>9. CASE Answer
  BY <1>9 DEF Answer, CountedInv, pdVars, vars
<1>10. CASE OtherService
  <2>1. UNCHANGED WsRest /\ ~answering
    BY <1>10 DEF OtherService
  <2>2. CASE UpdateConnections
    <3>1. action.type # "MESSAGE"
      BY <2>2 DEF UpdateConnections, IInv, HeldInv
    <3> QED
      BY <2>1, <2>2, <3>1 DEF UpdateConnections, CountedInv, pdVars
  <2>3. CASE StartService \/ ExitService \/ Wait \/ Take \/ PureVirtualCall
    BY <2>1, <2>3, KeepsCount DEF StartService, ExitService, Wait, Take, PureVirtualCall, Reported
  <2>4. CASE CallReceived \/ SkipMessage
    BY <2>1, <2>4, KeepsCount DEF CallReceived, SkipMessage, EndCall, Reported
  <2> QED
    BY <1>10, <2>2, <2>3, <2>4 DEF OtherService
<1>11. CASE BindFails \/ ReportPort \/ OtherServer \/ (SpuriousWakeup /\ UNCHANGED WsRest)
  BY <1>11, KeepsCount DEF BindFails, ReportPort, OtherServer, DoRunListens, DoRunFails, DoRunReturns, NotifyService,
     Woken, SpuriousWakeup, Reported, vars
<1>12. CASE Peers /\ UNCHANGED WsRest
  <2>1. ASSUME NEW c \in Conn, on_open(c) \/ on_close(c) \/ \E text \in BOOLEAN : on_message(c, text)
        PROVE  /\ UNCHANGED <<object, main, stopped, m_connections, ws_thread, action>>
               /\ \A d \in Conn : Reported(d)' => Reported(d)
    <3>1. UNCHANGED <<object, main, stopped, m_connections, ws_thread, action, told>>
      BY <2>1 DEF on_open, on_close, on_message
    <3>2. \A d \in Conn : con[d] = "dropped" => con'[d] = "dropped"
      <4>1. con \in [Conn -> ConState]
        BY DEF IInv, TypeOK
      <4> QED
        BY <2>1, <4>1 DEF on_open, on_close, on_message
    <3> QED
      BY <3>1, <3>2 DEF Reported
  <2> QED
    BY <1>12, <2>1, KeepsCount DEF Peers
<1>13. (\E p \in ListenPorts : Open(p) \/ Dispose(p)) => CountedInv'
  BY <1>2 DEF CountedInv
<1>14. PdSteps => ConstructServer \/ RunServer \/ Gone \/ (Main /\ UNCHANGED WsRest)
  BY DEF PdSteps
<1>15. CASE ServiceSteps \/ SendToNull
  BY <1>7, <1>8, <1>9, <1>10, <1>15 DEF ServiceSteps
<1>16. CASE NetworkSteps \/ ((Peers \/ SpuriousWakeup) /\ UNCHANGED <<walkVars, WsRest>>)
  BY <1>7, <1>11, <1>12, <1>16 DEF NetworkSteps
<1> QED
  BY <1>1, <1>3, <1>4, <1>5, <1>6, <1>7, <1>13, <1>14, <1>15, <1>16 DEF WsNext

LEMMA CountsByInv == IInv /\ EndsInv /\ CountedInv => OutletCounts
<1> SUFFICES ASSUME IInv, EndsInv, CountedInv, object = "alive", ws_thread = "wait", m_actions = <<>>, ~answering,
                    \E c \in Conn : con[c] # "dropped" /\ told[c] # "nothing"
             PROVE  count = Cardinality({c \in Conn : con[c] = "open"})
  BY DEF OutletCounts
<1>1. count = Cardinality(m_connections) /\ InUse
  BY DEF CountedInv, InUse
<1> QED
  BY <1>1, CurrentByEnds DEF CurrentWhenQuiet

\* In ws.server: when the service thread sleeps and has reported a peer of this server,
\* the number at outlet 1 is that of the open connections, for any number of them
\* (PdWebsocketServer.cpp:72-92).
THEOREM OutletIsExact == WsSpec => []OutletCounts
<1>1. WsInit => IInv /\ EndsInv /\ CountedInv
  BY InvariantInit, EndsInit DEF WsInit, CountedInv, Init
<1> QED
  BY <1>1, CountsByInv, ServerSteps, CountedStep, PTL DEF WsSpec

-----------------------------------------------------------------------------
(* The types of ws.server.                                                 *)

\* What is said of the object and of the positions in a call.
PointerSays ==
    /\ pd \in {"idle", "construct", "run", "dispose", "delete", "deleted"}
    /\ m_server \in {"null", "object", "new"}
    /\ server_port \in 0 .. MaxPort
    /\ answering \in BOOLEAN /\ failing \in BOOLEAN
    /\ pd = "idle" => (m_server = "object" <=> object = "alive")

LEMMA SomePorts == MaxPort \in Nat /\ 0 \in 0 .. MaxPort
BY SMT DEF MaxPort

LEMMA PointerStep ==
    ASSUME IInv, CountedInv, PointerSays, PointerInv, [WsNext]_wsVars
    PROVE  PointerSays' /\ PointerInv'
<1> USE DEF PointerSays, PointerInv, pdVars, WsRest
<1>1. ASSUME UNCHANGED <<pd, m_server, wanted, server_port>>, answering' \in BOOLEAN, failing' \in BOOLEAN,
             object' = "alive" <=> object = "alive"
      PROVE  PointerSays' /\ PointerInv'
  BY <1>1
<1>2. ASSUME NEW p \in ListenPorts, Open(p) PROVE PointerSays' /\ PointerInv'
  <2>1. p \in 1 .. MaxPort
    BY <1>2, ListenPortsAssumption, SomePorts DEF Open, NewPort
  <2>2. object' # "alive"
    BY <1>2 DEF Open, Destroy, vars
  <2> QED
    BY <1>2, <2>1, <2>2 DEF Open
<1>3. ASSUME NEW p \in ListenPorts, Dispose(p) PROVE PointerSays' /\ PointerInv'
  BY <1>3 DEF Dispose, Destroy
<1>4. CASE DeleteObject
  BY <1>4 DEF DeleteObject, Destroy, vars
<1>5. CASE ConstructServer
  BY <1>5, SomePorts DEF ConstructServer, Construct
<1>6. CASE RunServer
  <2>1. wanted \in 0 .. MaxPort
    BY <1>6, SomePorts DEF RunServer
  <2> QED
    BY <1>6, <2>1 DEF RunServer, Run
<1>7. CASE Gone
  BY <1>7 DEF Gone, vars
<1>8. CASE Main /\ UNCHANGED WsRest
  <2>1. main # "idle" /\ object' # "alive"
    BY <1>8 DEF CountedInv, Main, StopServer, ClearConnections, JoinServer, ClearRun, NotifyStop, JoinService,
       StopReturns, Free
  <2>2. object # "alive"
    BY <2>1 DEF CountedInv
  <2> QED
    BY <1>1, <1>8, <2>1, <2>2
<1>9. CASE UNCHANGED wsVars \/ SendList \/ SendToNull \/ AnswerOfNull \/ PortOfNull \/ (Corrupts /\ UNCHANGED WsRest)
  <2>1. UNCHANGED <<object, pd, m_server, wanted, server_port, answering, failing>>
    BY <1>9 DEF wsVars, vars, SendList, BeginSend, EndSend, SendTo, SendThrows, At, SendToNull, AnswerOfNull, PortOfNull,
       Corrupts
  <2> QED
    BY <1>1, <2>1
<1>10. CASE Report \/ Answer
  <2>1. UNCHANGED <<object, pd, m_server, wanted, server_port, failing>> /\ answering' \in BOOLEAN
    BY <1>10 DEF Report, Answer, CallConnected, CallDisconnected, EndCall, vars
  <2> QED
    BY <1>1, <2>1
<1>11. CASE OtherService
  <2>1. UNCHANGED <<object, pd, m_server, wanted, server_port, answering, failing>>
    BY <1>11 DEF OtherService, StartService, ExitService, Wait, Take, UpdateConnections, CallReceived, SkipMessage,
       PureVirtualCall, EndCall
  <2> QED
    BY <1>1, <2>1
<1>12. CASE \/ BindFails \/ ReportPort \/ OtherServer
            \/ (Peers \/ SpuriousWakeup) /\ UNCHANGED <<walkVars, WsRest>>
  <2>1. UNCHANGED <<object, pd, m_server, wanted, server_port, answering>> /\ failing' \in BOOLEAN
    BY <1>12 DEF BindFails, ReportPort, OtherServer, DoRunListens, DoRunFails, DoRunReturns, NotifyService,
       SpuriousWakeup, Peers, on_open, on_message, on_close, vars
  <2> QED
    BY <1>1, <2>1
<1> QED
  BY <1>2, <1>3, <1>4, <1>5, <1>6, <1>7, <1>8, <1>9, <1>10, <1>11, <1>12
     DEF WsNext, PdSteps, ServiceSteps, NetworkSteps

\* No more connections than there can be are counted.
LEMMA WsCountStep ==
    ASSUME IsFiniteSet(Conn), IInv, count \in -1 .. Cardinality(Conn), [WsNext]_wsVars
    PROVE  count' \in -1 .. Cardinality(Conn)
<1>1. CASE Answer
  <2>1. /\ m_connections \subseteq Conn
    BY DEF IInv, TypeOK
  <2>2. IsFiniteSet(m_connections) /\ Cardinality(m_connections) <= Cardinality(Conn)
    BY <2>1, FS_Subset
  <2>3. Cardinality(m_connections) \in Nat /\ Cardinality(Conn) \in Nat
    BY <2>2, FS_CardinalityType
  <2> QED
    BY <1>1, <2>2, <2>3 DEF Answer
<1>2. CASE ~Answer
  BY <1>2 DEF WsNext, Open, Dispose, DeleteObject, PdSteps, ConstructServer, RunServer, Gone, SendList, SendToNull,
     Corrupts, ServiceSteps, Report, AnswerOfNull, OtherService, NetworkSteps, BindFails, ReportPort, PortOfNull,
     OtherServer, wsVars, WsRest
<1> QED
  BY <1>1, <1>2

WsInv == IInv /\ EndsInv /\ CountedInv /\ PointerSays /\ PointerInv

LEMMA WsInvHolds ==
    /\ WsInit => WsInv
    /\ WsInv /\ [WsNext]_wsVars => WsInv'
<1>1. WsInit => IInv /\ EndsInv /\ CountedInv
  BY InvariantInit, EndsInit DEF WsInit, CountedInv, Init
<1>2. WsInit => PointerSays /\ PointerInv
  BY SomePorts DEF WsInit, Init, PointerSays, PointerInv
<1> QED
  BY <1>1, <1>2, ServerSteps, CountedStep, PointerStep DEF WsInv

LEMMA WsTypesHold ==
    ASSUME IsFiniteSet(Conn)
    PROVE  /\ WsInit => count \in -1 .. Cardinality(Conn)
           /\ WsInv /\ count \in -1 .. Cardinality(Conn) => WsTypeOK
<1>1. WsInit => count \in -1 .. Cardinality(Conn)
  BY FS_CardinalityType DEF WsInit
<1> QED
  BY <1>1 DEF WsInv, PointerSays, WsTypeOK

\* In ws.server, whatever listen and the destructor do in whatever order: between two
\* calls m_server points to the server there is, or to none, its port is one, and the
\* number at outlet 1 is possible (PdWebsocketServer.cpp:53-70, 138-162).
THEOREM WsTypeCorrect == ASSUME IsFiniteSet(Conn) PROVE WsSpec => []WsTypeOK
<1>1. WsInv /\ count \in -1 .. Cardinality(Conn) /\ [WsNext]_wsVars => (count \in -1 .. Cardinality(Conn))'
  BY WsCountStep DEF WsInv
<1> QED
  BY <1>1, WsInvHolds, WsTypesHold, PTL DEF WsSpec

-----------------------------------------------------------------------------
(* Either object.                                                          *)

LEMMA ObjectsSteps ==
    /\ ObjectsInit /\ kind = "ws.server" => WsInit
    /\ [ObjectsNext]_objectVars => kind' = kind /\ (kind = "ws.server" => [WsNext]_wsVars)
<1>1. [ObjectsNext]_objectVars => kind' = kind
  BY DEF ObjectsNext, objectVars
<1>2. ASSUME [ObjectsNext]_objectVars, kind = "ws.server" PROVE [WsNext]_wsVars
  BY <1>2 DEF ObjectsNext, objectVars
<1> QED
  BY <1>1, <1>2 DEF ObjectsInit

\* A patch whose object is ws.server: its state is what its calls leave it in, and the
\* number at its outlet is that of its connections (PdWebsocketServer.cpp:72-92, 138-162).
THEOREM ObjectsCorrect == ASSUME IsFiniteSet(Conn) PROVE ObjectsSpec => [](WsTypes /\ WsOutletCounts)
<1> DEFINE Inv == kind = "ws.server" => WsInv /\ count \in -1 .. Cardinality(Conn)
<1>1. ObjectsInit => Inv
  BY WsInvHolds, WsTypesHold, ObjectsSteps
<1>2. Inv /\ [ObjectsNext]_objectVars => Inv'
  <2> SUFFICES ASSUME Inv, [ObjectsNext]_objectVars, kind' = "ws.server"
               PROVE  WsInv' /\ (count \in -1 .. Cardinality(Conn))'
    OBVIOUS
  <2>1. kind = "ws.server" /\ [WsNext]_wsVars
    BY ObjectsSteps
  <2>2. IInv
    BY <2>1 DEF WsInv
  <2> QED
    BY <2>1, <2>2, WsInvHolds, WsCountStep
<1>3. Inv => WsTypes /\ WsOutletCounts
  BY WsTypesHold, CountsByInv DEF WsTypes, WsOutletCounts, WsInv
<1> QED
  BY <1>1, <1>2, <1>3, PTL DEF ObjectsSpec

\* In particular: wherever listen and the destructor of ws.server are, m_server, the port
\* and the number at outlet 1 are possible ones, beside whichever object the patch has
\* (PdWebsocketServer.cpp:53-70, 138-162).
THEOREM ObjectsTypeCorrect == ASSUME IsFiniteSet(Conn) PROVE ObjectsSpec => []WsTypes
<1>1. ObjectsSpec => [](WsTypes /\ WsOutletCounts)
  BY ObjectsCorrect
<1> QED
  BY <1>1, PTL
=============================================================================
