------------------------ MODULE WebsocketServer_proofs ------------------------
(***************************************************************************)
(* Proofs about WebsocketServer, for any set of connections and any number  *)
(* of messages: type correctness, no lost wake-up, the inductive invariant  *)
(* on the queue, and that the threads implement ServerSession.              *)
(***************************************************************************)
EXTENDS WebsocketServer, SequenceTheorems, TLAPS

USE DEF dataVars, worldVars

LEMMA ActionFields ==
    ASSUME NEW a \in Action
    PROVE  /\ a.type \in ActionType
           /\ a.hdl \in Conn
           /\ a.n \in Nat
           /\ a.text \in BOOLEAN
  BY DEF Action

\* What the three handlers push is an action.
LEMMA PushedActions ==
    ASSUME NEW c \in Conn, NEW n \in Nat, NEW t \in BOOLEAN
    PROVE  /\ Subscribe(c) \in Action
           /\ Unsubscribe(c) \in Action
           /\ Message(c, n, t) \in Action
  BY DEF Action, ActionType, Subscribe, Unsubscribe, Message

\* Every step is one of these.
LEMMA StepCases ==
    ASSUME [Next]_vars
    PROVE  \/ Construct \/ Run \/ Stop \/ Destroy
           \/ StopServer \/ ClearConnections \/ JoinServer \/ ClearRun \/ NotifyStop
           \/ JoinService \/ StopReturns \/ Free
           \/ DoRunListens \/ DoRunFails \/ DoRunReturns \/ NotifyService
           \/ \E c \in Conn : on_open(c) \/ on_close(c)
           \/ \E c \in Conn, text \in BOOLEAN : on_message(c, text)
           \/ StartService \/ ExitService \/ Wait \/ Take \/ UpdateConnections
           \/ CallConnected \/ CallDisconnected \/ CallReceived \/ SkipMessage
           \/ PureVirtualCall \/ SpuriousWakeup \/ UNCHANGED vars
  <1>1. CASE Peers
    BY <1>1 DEF Peers
  <1>2. CASE Main \/ ServerThread
    BY <1>2 DEF Main, ServerThread
  <1>3. CASE Service
    BY <1>3 DEF Service
  <1> QED
    BY <1>1, <1>2, <1>3 DEF Next

LEMMA TypeInit == Init => TypeOK
  <1>1. <<>> \in Seq(Action)
    OBVIOUS
  <1>2. Init => /\ con \in [Conn -> ConState] /\ told \in [Conn -> Told]
                /\ sent \in [Conn -> Nat] /\ rcvd \in [Conn -> Nat]
    BY DEF Init, ConState, Told
  <1>3. Init => ~(ws_thread \in {"update", "call"})
    BY DEF Init
  <1> QED
    BY <1>1, <1>2, <1>3 DEF Init, TypeOK, ObjectState, MainPc, ServerPc, WsPc

LEMMA TypeStep == TypeOK /\ [Next]_vars => TypeOK'
  <1> SUFFICES ASSUME TypeOK, [Next]_vars
               PROVE  TypeOK'
    OBVIOUS
  <1> USE DEF TypeOK, ObjectState, MainPc, ServerPc, WsPc, ConState, Told, queueVars,
              endpointVars, peerVars, listenerVars
  <1>1. CASE Construct
    BY <1>1 DEF Construct
  <1>2. CASE Run
    BY <1>2 DEF Run
  <1>3. CASE Stop
    BY <1>3 DEF Stop
  <1>4. CASE Destroy
    BY <1>4 DEF Destroy
  <1>5. CASE StopServer
    BY <1>5 DEF StopServer
  <1>6. CASE ClearConnections
    BY <1>6 DEF ClearConnections
  <1>7. CASE JoinServer
    BY <1>7 DEF JoinServer
  <1>8. CASE ClearRun
    BY <1>8 DEF ClearRun
  <1>9. CASE NotifyStop
    BY <1>9 DEF NotifyStop, Woken
  <1>10. CASE JoinService
    BY <1>10 DEF JoinService
  <1>11. CASE StopReturns
    BY <1>11 DEF StopReturns
  <1>12. CASE Free
    <2>1. <<>> \in Seq(Action)
      OBVIOUS
    <2>2. con' \in [Conn -> ConState]
      BY <1>12 DEF Free
    <2>3. object' \in ObjectState /\ main' \in MainPc /\ m_connections' \in SUBSET Conn
      BY <1>12 DEF Free
    <2>4. m_actions' \in Seq(Action)
      BY <1>12, <2>1 DEF Free
    <2>5. /\ server_thread' \in ServerPc /\ ws_thread' \in WsPc /\ m_run' \in BOOLEAN
          /\ ws_thread' \in {"update", "call"} => action' \in Action
          /\ stopped' \in BOOLEAN /\ listening' \in BOOLEAN /\ crashed' \in BOOLEAN
          /\ sent' \in [Conn -> Nat] /\ told' \in [Conn -> Told] /\ rcvd' \in [Conn -> Nat]
      BY <1>12 DEF Free
    <2> QED
      BY <2>2, <2>3, <2>4, <2>5
  <1>13. CASE DoRunListens
    BY <1>13 DEF DoRunListens
  <1>14. CASE DoRunFails
    BY <1>14 DEF DoRunFails
  <1>15. CASE DoRunReturns
    BY <1>15 DEF DoRunReturns
  <1>16. CASE NotifyService
    BY <1>16 DEF NotifyService, Woken
  <1>17. ASSUME NEW c \in Conn, on_open(c) \/ on_close(c)
        PROVE  TypeOK'
    <2>1. Subscribe(c) \in Action /\ Unsubscribe(c) \in Action
      BY PushedActions
    <2>2. CASE on_open(c)
      BY <2>1, <2>2 DEF on_open, Push, InHandler
    <2>3. CASE on_close(c)
      BY <2>1, <2>3 DEF on_close, Push, InHandler
    <2> QED
      BY <1>17, <2>2, <2>3
  <1>18. ASSUME NEW c \in Conn, NEW text \in BOOLEAN, on_message(c, text)
        PROVE  TypeOK'
    BY <1>18, PushedActions, AppendProperties DEF on_message, Push, InHandler
  <1>19. CASE StartService
    BY <1>19 DEF StartService
  <1>20. CASE ExitService
    BY <1>20 DEF ExitService
  <1>21. CASE Wait
    BY <1>21 DEF Wait
  <1>22. CASE Take
    BY <1>22, HeadTailProperties DEF Take
  <1>23. CASE UpdateConnections
    BY <1>23, ActionFields DEF UpdateConnections
  <1>24. CASE CallConnected
    BY <1>24, ActionFields DEF CallConnected, EndCall
  <1>25. CASE CallDisconnected
    BY <1>25, ActionFields DEF CallDisconnected, EndCall
  <1>26. CASE CallReceived
    BY <1>26, ActionFields DEF CallReceived, EndCall
  <1>27. CASE SkipMessage
    BY <1>27, ActionFields DEF SkipMessage, EndCall
  <1>28. CASE PureVirtualCall
    BY <1>28 DEF PureVirtualCall
  <1>29. CASE SpuriousWakeup
    BY <1>29 DEF SpuriousWakeup
  <1>30. CASE UNCHANGED vars
    BY <1>30 DEF vars
  <1> QED
    BY StepCases, <1>1, <1>2, <1>3, <1>4, <1>5, <1>6, <1>7, <1>8, <1>9, <1>10, <1>11, <1>12, <1>13, <1>14, <1>15, <1>16, <1>17, <1>18, <1>19, <1>20, <1>21, <1>22, <1>23, <1>24, <1>25, <1>26, <1>27, <1>28, <1>29, <1>30

\* The state of the program keeps its types: every pc of the three threads,
\* the queue and the two views of the connections (websocketServer.h:304-317).
THEOREM TypeCorrect == Spec => []TypeOK
BY TypeInit, TypeStep, PTL DEF Spec

\* The condition variable is used soundly (websocketServer.h:194-197, 205-234,
\* 244-248): the service thread never sleeps on work or on its end unless a
\* notification is under way.
THEOREM WakeupSafe == Spec => []NoLostWakeup
  <1>1. Init => NoLostWakeup
    BY DEF Init, NoLostWakeup
  <1>2. NoLostWakeup /\ [Next]_vars => NoLostWakeup'
    <2> SUFFICES ASSUME NoLostWakeup, [Next]_vars
                 PROVE  NoLostWakeup'
      OBVIOUS
    <2> USE DEF NoLostWakeup, queueVars
    <2>1. CASE UNCHANGED <<ws_thread, m_actions, m_run, server_thread, main>>
      BY <2>1
    <2>2. CASE ws_thread' # "wait"
      BY <2>2
    <2>3. CASE Stop \/ Destroy \/ StopServer \/ ClearConnections \/ JoinServer
      BY <2>3 DEF Stop, Destroy, StopServer, ClearConnections, JoinServer
    <2>4. CASE ClearRun \/ StopReturns
      BY <2>4 DEF ClearRun, StopReturns
    <2>5. CASE Run \/ DoRunListens \/ DoRunFails \/ DoRunReturns
      BY <2>5 DEF Run, DoRunListens, DoRunFails, DoRunReturns
    <2>6. CASE Free
      BY <2>6 DEF Free
    <2>7. ASSUME NEW c \in Conn, on_open(c) \/ on_close(c)
          PROVE  NoLostWakeup'
      BY <2>7 DEF on_open, on_close, Push
    <2>8. ASSUME NEW c \in Conn, NEW text \in BOOLEAN, on_message(c, text)
          PROVE  NoLostWakeup'
      BY <2>8 DEF on_message, Push
    <2>9. CASE Wait
      BY <2>9 DEF Wait
    <2>10. Construct \/ NotifyStop \/ JoinService \/ NotifyService \/ StartService
            \/ ExitService \/ Take \/ UpdateConnections \/ SpuriousWakeup
            => ws_thread' # "wait"
      BY DEF Construct, NotifyStop, JoinService, NotifyService, Woken, StartService,
             ExitService, Take, UpdateConnections, SpuriousWakeup
    <2>11. CallConnected \/ CallDisconnected \/ CallReceived \/ SkipMessage
            => ws_thread' # "wait"
      BY DEF CallConnected, CallDisconnected, CallReceived, SkipMessage, EndCall
    <2>12. PureVirtualCall \/ UNCHANGED vars
            => UNCHANGED <<ws_thread, m_actions, m_run, server_thread, main>>
      BY DEF PureVirtualCall, vars
    <2> QED
      BY StepCases, <2>1, <2>2, <2>3, <2>4, <2>5, <2>6, <2>7, <2>8, <2>9, <2>10, <2>11, <2>12
  <1> QED
    BY <1>1, <1>2, PTL DEF Spec

-----------------------------------------------------------------------------
(***************************************************************************)
(* The inductive invariant.  Most steps leave the queue, the hand of the    *)
(* service thread and both views of the connections alone; the others push  *)
(* at the end, take from the front, report, or free the object.             *)
(***************************************************************************)
QueueInv == PeerInv /\ HeldInv /\ SubscribeInv /\ OrderInv

LEMMA QuietStep ==
    ASSUME QueueInv,
           UNCHANGED <<con, sent, told, rcvd, m_actions, action>>,
           ws_thread' \in {"update", "call"} <=> ws_thread \in {"update", "call"},
           ws_thread = "call" => ws_thread' = "call"
    PROVE  QueueInv'
  <1> USE DEF QueueInv, Queued, QueuedFor
  <1>1. \A c, type : Held(c, type)' <=> Held(c, type)
    BY DEF Held
  <1>2. PeerInv'
    BY <1>1 DEF PeerInv
  <1>3. HeldInv'
    BY DEF HeldInv
  <1>4. SubscribeInv'
    BY <1>1 DEF SubscribeInv, SubscribeAt
  <1>5. OrderInv'
    BY <1>1 DEF OrderInv, OrderAt
  <1> QED
    BY <1>2, <1>3, <1>4, <1>5

\* on_open: the new subscription is the only action of its connection.
LEMMA OpenStep ==
    ASSUME TypeOK, QueueInv, NEW c \in Conn, on_open(c)
    PROVE  QueueInv'
  <1> DEFINE n == Len(m_actions)
  <1> USE DEF QueueInv, Queued, QueuedFor
  <1>1. /\ m_actions' \in Seq(Action) /\ Len(m_actions') = n + 1 /\ n \in Nat
        /\ \A i \in 1 .. n : m_actions'[i] = m_actions[i]
        /\ m_actions'[n + 1] = Subscribe(c)
    BY PushedActions, AppendProperties, LenProperties DEF on_open, Push, TypeOK
  <1>2. /\ con[c] = "new" /\ con'[c] = "open"
        /\ \A d \in Conn : d # c => con'[d] = con[d]
        /\ con' \in [Conn -> ConState]
        /\ UNCHANGED <<sent, told, rcvd, ws_thread, action>>
    BY DEF on_open, TypeOK, peerVars, listenerVars, ConState
  <1>3. \A d, type : Held(d, type)' <=> Held(d, type)
    BY <1>2 DEF Held
  <1>4. \A type \in ActionType : ~Held(c, type)
    BY <1>2 DEF HeldInv, Held
  <1>5. \A i \in 1 .. n : m_actions[i] \in Action /\ m_actions[i].hdl \in Conn \ {c}
    BY <1>1, <1>2, ElementOfSeq, ActionFields DEF TypeOK, SubscribeInv, SubscribeAt
  <1>6. told[c] = "nothing" /\ sent[c] = 0
    BY <1>2 DEF PeerInv
  <1>7. PeerInv'
    BY <1>1, <1>2, <1>3, <1>6 DEF PeerInv, Subscribe
  <1>8. HeldInv'
    <2> SUFFICES ASSUME ws_thread \in {"update", "call"}
                 PROVE  HeldInv'
      BY <1>2 DEF HeldInv
    <2>1. action \in Action /\ action.hdl # c /\ action.hdl \in Conn
      BY <1>4, ActionFields DEF HeldInv, Held
    <2>2. con'[action.hdl] = con[action.hdl]
      BY <1>2, <2>1
    <2> QED
      BY <1>2, <2>1, <2>2 DEF HeldInv
  <1>9. SubscribeInv'
    <2>1. ASSUME NEW i \in 1 .. n
          PROVE  SubscribeAt(i)'
      <3>1. SubscribeAt(i)
        BY DEF SubscribeInv
      <3> QED
        <4>1. /\ m_actions'[i] = m_actions[i]
              /\ \A j \in 1 .. i - 1 : m_actions'[j] = m_actions[j]
          BY <1>1
        <4>2. m_actions[i].hdl \in Conn /\ (con'[m_actions[i].hdl] \in {"open", "closed"}
                                            <=> con[m_actions[i].hdl] \in {"open", "closed"})
          BY <1>2, <1>5
        <4> QED
          BY <3>1, <1>2, <1>3, <4>1, <4>2 DEF SubscribeAt
    <2>2. ASSUME NEW i \in Nat, i = n + 1
          PROVE  SubscribeAt(i)'
      BY <2>2, <1>1, <1>2, <1>3, <1>4, <1>5, <1>6 DEF SubscribeAt, Subscribe, ActionType
    <2> QED
      BY <1>1, <2>1, <2>2 DEF SubscribeInv
  <1>10. OrderInv'
    <2>1. ASSUME NEW i \in 1 .. n
          PROVE  OrderAt(i)'
      <3>1. OrderAt(i)
        BY DEF OrderInv
      <3> QED
        <4>1. /\ m_actions'[i] = m_actions[i]
              /\ \A j \in i + 1 .. n : m_actions'[j] = m_actions[j]
          BY <1>1
        <4>2. m_actions[i].hdl # c /\ con'[m_actions[i].hdl] = con[m_actions[i].hdl]
          BY <1>2, <1>5
        <4>3. \A j \in i + 1 .. Len(m_actions') : j \in i + 1 .. n \/ j = n + 1
          BY <1>1
        <4>4. m_actions'[n + 1].hdl = c
          BY <1>1 DEF Subscribe
        <4> QED
          BY <3>1, <1>2, <1>3, <4>1, <4>2, <4>3, <4>4 DEF OrderAt
    <2>2. ASSUME NEW i \in Nat, i = n + 1
          PROVE  OrderAt(i)'
      BY <2>2, <1>1, <1>2, <1>3, <1>5 DEF OrderAt, Subscribe
    <2> QED
      BY <1>1, <2>1, <2>2 DEF OrderInv
  <1> QED
    BY <1>7, <1>8, <1>9, <1>10

\* on_close: the end of the connection comes after everything else of it.
LEMMA CloseStep ==
    ASSUME TypeOK, QueueInv, NEW c \in Conn, on_close(c)
    PROVE  QueueInv'
  <1> DEFINE n == Len(m_actions)
  <1> USE DEF QueueInv, Queued, QueuedFor
  <1>1. /\ m_actions' \in Seq(Action) /\ Len(m_actions') = n + 1 /\ n \in Nat
        /\ \A i \in 1 .. n : m_actions'[i] = m_actions[i]
        /\ m_actions'[n + 1] = Unsubscribe(c)
    BY PushedActions, AppendProperties, LenProperties DEF on_close, Push, TypeOK
  <1>2. /\ con[c] = "open" /\ con'[c] = "closed"
        /\ \A d \in Conn : d # c => con'[d] = con[d]
        /\ con' \in [Conn -> ConState]
        /\ UNCHANGED <<sent, told, rcvd, ws_thread, action>>
    BY DEF on_close, TypeOK, peerVars, listenerVars, ConState
  <1>3. \A d, type : Held(d, type)' <=> Held(d, type)
    BY <1>2 DEF Held
  <1>4. ~Held(c, "UNSUBSCRIBE")
    BY <1>2 DEF HeldInv, Held
  <1>5. \A i \in 1 .. n : /\ m_actions[i] \in Action /\ m_actions[i].hdl \in Conn
                          /\ m_actions[i].type = "UNSUBSCRIBE" => m_actions[i].hdl # c
    BY <1>1, <1>2, ElementOfSeq, ActionFields DEF TypeOK, OrderInv, OrderAt
  <1>6. /\ told[c] \in {"nothing", "connected"}
        /\ told[c] = "nothing" =>
              Held(c, "SUBSCRIBE") \/ \E i \in 1 .. n : QueuedFor(i, c, "SUBSCRIBE")
    BY <1>2 DEF PeerInv, TypeOK, Told
  <1>7. PeerInv'
    BY <1>1, <1>2, <1>3 DEF PeerInv
  <1>8. HeldInv'
    <2> SUFFICES ASSUME ws_thread \in {"update", "call"}
                 PROVE  HeldInv'
      BY <1>2 DEF HeldInv
    <2>1. action \in Action /\ action.hdl \in Conn
      BY ActionFields DEF HeldInv
    <2>2. /\ con'[action.hdl] \in {"open", "closed"}
          /\ con[action.hdl] = "closed" => con'[action.hdl] = "closed"
      BY <1>2, <2>1 DEF HeldInv
    <2> QED
      BY <1>2, <2>1, <2>2 DEF HeldInv
  <1>9. SubscribeInv'
    <2>1. ASSUME NEW i \in 1 .. n
          PROVE  SubscribeAt(i)'
      <3>1. SubscribeAt(i)
        BY DEF SubscribeInv
      <3> QED
        <4>1. /\ m_actions'[i] = m_actions[i]
              /\ \A j \in 1 .. i - 1 : m_actions'[j] = m_actions[j]
          BY <1>1
        <4>2. m_actions[i].hdl \in Conn /\ (con'[m_actions[i].hdl] \in {"open", "closed"}
                                            <=> con[m_actions[i].hdl] \in {"open", "closed"})
          BY <1>2, <1>5
        <4> QED
          BY <3>1, <1>2, <1>3, <4>1, <4>2 DEF SubscribeAt
    <2>2. ASSUME NEW i \in Nat, i = n + 1
          PROVE  SubscribeAt(i)'
      BY <2>2, <1>1, <1>2, <1>3, <1>4, <1>5, <1>6 DEF SubscribeAt, Unsubscribe, ActionType
    <2> QED
      BY <1>1, <2>1, <2>2 DEF SubscribeInv
  <1>10. OrderInv'
    <2>1. ASSUME NEW i \in 1 .. n
          PROVE  OrderAt(i)'
      <3>1. OrderAt(i)
        BY DEF OrderInv
      <3> QED
        <4> DEFINE d == m_actions[i].hdl
        <4>1. /\ m_actions'[i] = m_actions[i] /\ d \in Conn
              /\ m_actions[i].type = "UNSUBSCRIBE" => d # c
          BY <1>1, <1>5
        <4>2. con[d] = "closed" => con'[d] = "closed"
          BY <1>2, <4>1
        <4>3. \A j \in i + 1 .. Len(m_actions') : j \in i + 1 .. n \/ j = n + 1
          BY <1>1
        <4>4. \A j \in i + 1 .. n : m_actions'[j] = m_actions[j]
          BY <1>1
        <4>5. m_actions'[n + 1].hdl = c /\ m_actions'[n + 1].type = "UNSUBSCRIBE"
          BY <1>1 DEF Unsubscribe
        <4> QED
          BY <3>1, <1>2, <1>3, <4>1, <4>2, <4>3, <4>4, <4>5 DEF OrderAt
    <2>2. ASSUME NEW i \in Nat, i = n + 1
          PROVE  OrderAt(i)'
      BY <2>2, <1>1, <1>2, <1>3, <1>5 DEF OrderAt, Unsubscribe
    <2> QED
      BY <1>1, <2>1, <2>2 DEF OrderInv
  <1> QED
    BY <1>7, <1>8, <1>9, <1>10

\* on_message: the new message has a number of its own, the highest.
LEMMA MessageStep ==
    ASSUME TypeOK, QueueInv, NEW c \in Conn, NEW text \in BOOLEAN, on_message(c, text)
    PROVE  QueueInv'
  <1> DEFINE n == Len(m_actions)
  <1> USE DEF QueueInv, Queued, QueuedFor
  <1>1. /\ m_actions' \in Seq(Action) /\ Len(m_actions') = n + 1 /\ n \in Nat
        /\ \A i \in 1 .. n : m_actions'[i] = m_actions[i]
        /\ m_actions'[n + 1] = Message(c, sent[c] + 1, text)
    BY PushedActions, AppendProperties, LenProperties DEF on_message, Push, TypeOK
  <1>2. /\ con[c] = "open" /\ sent[c] \in Nat /\ sent'[c] = sent[c] + 1
        /\ \A d \in Conn : d # c => sent'[d] = sent[d]
        /\ UNCHANGED <<con, told, rcvd, ws_thread, action>>
        /\ sent \in [Conn -> Nat] /\ rcvd \in [Conn -> Nat]
    BY DEF on_message, TypeOK, listenerVars
  <1>3. \A d, type : Held(d, type)' <=> Held(d, type)
    BY <1>2 DEF Held
  <1>4. ~Held(c, "UNSUBSCRIBE") /\ (Held(c, "MESSAGE") => action.n \in 1 .. sent[c])
    BY <1>2 DEF HeldInv, Held
  <1>5. \A i \in 1 .. n : /\ m_actions[i] \in Action /\ m_actions[i].hdl \in Conn
                          /\ m_actions[i].type = "UNSUBSCRIBE" => m_actions[i].hdl # c
    BY <1>1, <1>2, ElementOfSeq, ActionFields DEF TypeOK, OrderInv, OrderAt
  <1>6. /\ told[c] \in {"nothing", "connected"} /\ rcvd[c] <= sent[c]
        /\ told[c] = "nothing" =>
              Held(c, "SUBSCRIBE") \/ \E i \in 1 .. n : QueuedFor(i, c, "SUBSCRIBE")
    BY <1>2 DEF PeerInv, TypeOK, Told
  <1>7. PeerInv'
    <2>1. \A d \in Conn : /\ sent[d] \in Nat /\ rcvd[d] \in Nat
                          /\ sent[d] <= sent'[d] /\ sent'[d] \in Nat
                          /\ con[d] = "new" => sent'[d] = sent[d]
      BY <1>2
    <2>2. \A d \in Conn : (\E i \in 1 .. n : QueuedFor(i, d, "SUBSCRIBE"))
                           => \E i \in 1 .. n + 1 : QueuedFor(i, d, "SUBSCRIBE")'
      BY <1>1
    <2>3. \A d \in Conn : rcvd[d] <= sent'[d]
      BY <1>2, <2>1 DEF PeerInv
    <2>4. \A d \in Conn : con[d] = "open" /\ told[d] = "nothing" =>
             Held(d, "SUBSCRIBE")' \/ \E i \in 1 .. n + 1 : QueuedFor(i, d, "SUBSCRIBE")'
      BY <1>3, <2>2 DEF PeerInv
    <2> QED
      BY <1>1, <1>2, <2>1, <2>3, <2>4 DEF PeerInv
  <1>8. HeldInv'
    <2> SUFFICES ASSUME ws_thread \in {"update", "call"}
                 PROVE  HeldInv'
      BY <1>2 DEF HeldInv
    <2>1. action \in Action /\ action.hdl \in Conn
      BY ActionFields DEF HeldInv
    <2>2. sent'[action.hdl] \in Nat /\ sent[action.hdl] \in Nat /\ rcvd[action.hdl] \in Nat
          /\ sent[action.hdl] <= sent'[action.hdl]
      BY <1>2, <2>1
    <2> QED
      BY <1>2, <2>1, <2>2 DEF HeldInv
  <1>9. SubscribeInv'
    <2>1. ASSUME NEW i \in 1 .. n
          PROVE  SubscribeAt(i)'
      <3>1. SubscribeAt(i)
        BY DEF SubscribeInv
      <3> QED
        <4>1. /\ m_actions'[i] = m_actions[i]
              /\ \A j \in 1 .. i - 1 : m_actions'[j] = m_actions[j]
          BY <1>1
        <4> QED
          BY <3>1, <1>2, <1>3, <4>1 DEF SubscribeAt
    <2>2. ASSUME NEW i \in Nat, i = n + 1
          PROVE  SubscribeAt(i)'
      BY <2>2, <1>1, <1>2, <1>3, <1>4, <1>5, <1>6 DEF SubscribeAt, Message, ActionType
    <2> QED
      BY <1>1, <2>1, <2>2 DEF SubscribeInv
  <1>10. OrderInv'
    <2>1. ASSUME NEW i \in 1 .. n
          PROVE  OrderAt(i)'
      <3>1. OrderAt(i)
        BY DEF OrderInv
      <3> QED
        <4> DEFINE d == m_actions[i].hdl
        <4>1. /\ m_actions'[i] = m_actions[i] /\ d \in Conn /\ m_actions[i].n \in Nat
              /\ m_actions[i].type = "UNSUBSCRIBE" => d # c
          BY <1>1, <1>5, ActionFields
        <4>2. /\ sent[d] \in Nat /\ sent'[d] \in Nat /\ sent[d] <= sent'[d]
              /\ rcvd[d] \in Nat
          BY <1>2, <4>1
        <4>3. \A j \in i + 1 .. Len(m_actions') : j \in i + 1 .. n \/ j = n + 1
          BY <1>1
        <4>4. \A j \in i + 1 .. n : m_actions'[j] = m_actions[j]
          BY <1>1
        <4>5. m_actions'[n + 1].hdl = c /\ m_actions'[n + 1].n = sent[c] + 1
          BY <1>1 DEF Message
        <4>6. CASE m_actions[i].type = "UNSUBSCRIBE"
          BY <3>1, <4>6, <1>2, <4>1, <4>3, <4>4, <4>5 DEF OrderAt
        <4>7. CASE m_actions[i].type = "MESSAGE"
          <5>1. /\ m_actions[i].n \in rcvd[d] + 1 .. sent[d]
                /\ Held(d, "MESSAGE") => action.n < m_actions[i].n
                /\ \A j \in i + 1 .. n :
                      QueuedFor(j, d, "MESSAGE") => m_actions[i].n < m_actions[j].n
            BY <3>1, <4>7 DEF OrderAt
          <5>2. m_actions[i].n \in rcvd[d] + 1 .. sent'[d]
            BY <4>1, <4>2, <5>1
          <5>3. d = c => m_actions[i].n < sent[c] + 1
            BY <4>1, <4>2, <5>1
          <5>4. \A j \in i + 1 .. Len(m_actions') :
                   QueuedFor(j, d, "MESSAGE")' => m_actions'[i].n < m_actions'[j].n
            BY <4>1, <4>3, <4>4, <4>5, <5>1, <5>3
          <5> QED
            BY <1>2, <1>3, <4>1, <4>7, <5>1, <5>2, <5>4 DEF OrderAt
        <4> QED
          BY <4>1, <4>6, <4>7 DEF OrderAt
    <2>2. ASSUME NEW i \in Nat, i = n + 1
          PROVE  OrderAt(i)'
      BY <2>2, <1>1, <1>2, <1>3, <1>4, <1>5, <1>6 DEF OrderAt, Message
    <2> QED
      BY <1>1, <2>1, <2>2 DEF OrderInv
  <1> QED
    BY <1>7, <1>8, <1>9, <1>10

\* Take: the front of the queue is the next action its connection is due.
LEMMA TakeStep ==
    ASSUME TypeOK, QueueInv, Take
    PROVE  QueueInv'
  <1> DEFINE n == Len(m_actions)
             a == m_actions[1]
  <1> USE DEF QueueInv, Queued, QueuedFor
  <1>1. /\ n \in Nat \ {0} /\ Len(m_actions') = n - 1 /\ action' = a
        /\ \A i \in 1 .. n - 1 : m_actions'[i] = m_actions[i + 1]
    BY HeadTailProperties, EmptySeq DEF Take, TypeOK
  <1>2. \A i \in 1 .. n : m_actions[i] \in Action /\ m_actions[i].hdl \in Conn
                         /\ m_actions[i].type \in ActionType /\ m_actions[i].n \in Nat
    BY <1>1, ElementOfSeq, ActionFields DEF TypeOK
  <1>3. /\ ws_thread = "loop" /\ ws_thread' \in {"update", "call"}
        /\ a.type = "MESSAGE" => ws_thread' = "call"
        /\ UNCHANGED <<con, sent, told, rcvd>>
    BY <1>1 DEF Take, peerVars, listenerVars
  <1>4. /\ \A c, type : ~Held(c, type)
        /\ \A c, type : Held(c, type)' <=> a.hdl = c /\ a.type = type
    BY <1>1, <1>3 DEF Held
  <1>5. SubscribeAt(1) /\ OrderAt(1)
    BY <1>1 DEF SubscribeInv, OrderInv
  <1>6. \A i \in 2 .. n : a.type = "UNSUBSCRIBE" => m_actions[i].hdl # a.hdl
    BY <1>1, <1>5 DEF OrderAt
  <1>7. PeerInv'
    <2> SUFFICES ASSUME NEW c \in Conn, con[c] = "open", told[c] = "nothing"
                 PROVE  Held(c, "SUBSCRIBE")'
                        \/ \E i \in 1 .. n - 1 : QueuedFor(i, c, "SUBSCRIBE")'
      BY <1>1, <1>3 DEF PeerInv
    <2>1. PICK i \in 1 .. n : QueuedFor(i, c, "SUBSCRIBE")
      BY <1>4 DEF PeerInv
    <2>2. CASE i = 1
      BY <2>1, <2>2, <1>4
    <2>3. CASE i # 1
      <3>1. i - 1 \in 1 .. n - 1 /\ m_actions'[i - 1] = m_actions[i]
        BY <1>1, <2>3
      <3> QED
        BY <2>1, <3>1
    <2> QED
      BY <2>2, <2>3
  <1>8. HeldInv'
    <2>1. told[a.hdl] # "nothing" \/ a.type = "SUBSCRIBE"
      BY <1>4, <1>5 DEF SubscribeAt
    <2>2. told[a.hdl] \in Told
      BY <1>1, <1>2 DEF TypeOK
    <2> QED
      BY <1>1, <1>2, <1>3, <1>5, <2>1, <2>2 DEF HeldInv, SubscribeAt, OrderAt, Told
  <1>9. SubscribeInv'
    <2> SUFFICES ASSUME NEW i \in 1 .. n - 1, NEW d, d = m_actions[i + 1].hdl
                 PROVE  SubscribeAt(i)'
      BY <1>1 DEF SubscribeInv
    <2>1. SubscribeAt(i + 1) /\ i + 1 \in 2 .. n /\ m_actions'[i] = m_actions[i + 1]
      BY <1>1 DEF SubscribeInv
    <2>2. m_actions[i + 1].type = "SUBSCRIBE" =>
            a.hdl # d /\ \A j \in 1 .. i - 1 : m_actions'[j].hdl # d
      <3>1. \A j \in 1 .. i - 1 : j + 1 \in 1 .. i /\ m_actions'[j] = m_actions[j + 1]
        BY <1>1
      <3> QED
        BY <3>1, <2>1 DEF SubscribeAt
    <2>3. m_actions[i + 1].type # "SUBSCRIBE" /\ told[d] = "nothing" =>
            Held(d, "SUBSCRIBE")' \/ \E j \in 1 .. i - 1 : QueuedFor(j, d, "SUBSCRIBE")'
      <3> SUFFICES ASSUME m_actions[i + 1].type # "SUBSCRIBE", told[d] = "nothing"
                   PROVE  Held(d, "SUBSCRIBE")'
                          \/ \E j \in 1 .. i - 1 : QueuedFor(j, d, "SUBSCRIBE")'
        OBVIOUS
      <3>1. PICK j \in 1 .. i : QueuedFor(j, d, "SUBSCRIBE")
        BY <2>1, <1>4 DEF SubscribeAt
      <3>2. CASE j = 1
        BY <3>1, <3>2, <1>4
      <3>3. CASE j # 1
        <4>1. j - 1 \in 1 .. i - 1 /\ m_actions'[j - 1] = m_actions[j]
          BY <1>1, <3>3
        <4> QED
          BY <3>1, <4>1
      <3> QED
        BY <3>2, <3>3
    <2> QED
      BY <1>3, <1>4, <1>6, <2>1, <2>2, <2>3 DEF SubscribeAt
  <1>10. OrderInv'
    <2> SUFFICES ASSUME NEW i \in 1 .. n - 1, NEW d, d = m_actions[i + 1].hdl
                 PROVE  OrderAt(i)'
      BY <1>1 DEF OrderInv
    <2>1. OrderAt(i + 1) /\ i + 1 \in 2 .. n /\ m_actions'[i] = m_actions[i + 1]
      BY <1>1 DEF OrderInv
    <2>2. \A j \in i + 1 .. n - 1 : j + 1 \in i + 2 .. n /\ m_actions'[j] = m_actions[j + 1]
      BY <1>1
    <2>3. a.type = "MESSAGE" /\ QueuedFor(i + 1, a.hdl, "MESSAGE") => a.n < m_actions[i + 1].n
      BY <1>5, <2>1 DEF OrderAt
    <2>4. CASE m_actions[i + 1].type = "UNSUBSCRIBE"
      BY <2>1, <2>2, <2>4, <1>1, <1>3 DEF OrderAt
    <2>5. CASE m_actions[i + 1].type = "MESSAGE"
      <3>1. /\ m_actions[i + 1].n \in rcvd[d] + 1 .. sent[d]
            /\ \A j \in i + 2 .. n :
                  QueuedFor(j, d, "MESSAGE") => m_actions[i + 1].n < m_actions[j].n
        BY <2>1, <2>5, <1>1 DEF OrderAt
      <3>2. \A j \in i + 1 .. n - 1 :
               m_actions'[j].hdl = d /\ m_actions'[j].type = "MESSAGE" =>
                  m_actions[i + 1].n < m_actions'[j].n
        BY <2>2, <3>1
      <3>3. Held(d, "MESSAGE")' => a.n < m_actions[i + 1].n
        BY <1>4, <2>1, <2>3, <2>5
      <3> QED
        BY <1>1, <1>3, <2>1, <2>5, <3>1, <3>2, <3>3 DEF OrderAt
    <2> QED
      BY <2>1, <2>4, <2>5 DEF OrderAt
  <1> QED
    BY <1>7, <1>8, <1>9, <1>10

\* The end of a turn: the service thread has reported the action, or dropped it.
LEMMA ReportStep ==
    ASSUME TypeOK, QueueInv, CallConnected \/ CallDisconnected \/ CallReceived \/ SkipMessage
    PROVE  QueueInv'
  <1> DEFINE d == action.hdl
  <1> USE DEF QueueInv, Queued, QueuedFor
  <1>1. /\ ws_thread = "call" /\ ws_thread' = "loop"
        /\ UNCHANGED <<con, sent, m_actions>>
    BY DEF CallConnected, CallDisconnected, CallReceived, SkipMessage, EndCall, peerVars
  <1>2. action \in Action /\ d \in Conn /\ action.type \in ActionType /\ action.n \in Nat
    BY <1>1, ActionFields DEF TypeOK
  <1>3. \A c \in Conn : c # d => told'[c] = told[c] /\ rcvd'[c] = rcvd[c]
    BY <1>2 DEF CallConnected, CallDisconnected, CallReceived, SkipMessage, listenerVars, TypeOK
  <1>4. /\ told'[d] = IF action.type = "UNSUBSCRIBE" THEN "disconnected" ELSE "connected"
        /\ rcvd'[d] \in IF action.type = "MESSAGE" THEN {rcvd[d], action.n} ELSE {rcvd[d]}
    BY <1>1, <1>2 DEF CallConnected, CallDisconnected, CallReceived, SkipMessage, listenerVars,
                      TypeOK, HeldInv
  <1>5. /\ \A c, type : ~Held(c, type)'
        /\ \A c, type : Held(c, type) <=> c = d /\ type = action.type
    BY <1>1 DEF Held
  <1>6. \A i \in Queued : m_actions[i].hdl \in Conn
    BY ElementOfSeq, ActionFields DEF TypeOK
  <1>7. /\ con[d] \in {"open", "closed"}
        /\ action.type = "UNSUBSCRIBE" => con[d] = "closed"
        /\ rcvd'[d] \in Nat /\ sent[d] \in Nat /\ rcvd'[d] <= sent[d]
    BY <1>1, <1>2, <1>4 DEF HeldInv, TypeOK, PeerInv
  <1>8. PeerInv'
    BY <1>1, <1>3, <1>4, <1>5, <1>7 DEF PeerInv
  <1>9. HeldInv'
    BY <1>1 DEF HeldInv
  <1>10. SubscribeInv'
    <2> SUFFICES ASSUME NEW i \in Queued
                 PROVE  SubscribeAt(i)'
      BY <1>1 DEF SubscribeInv
    <2>1. SubscribeAt(i) /\ m_actions[i].hdl \in Conn
      BY <1>6 DEF SubscribeInv
    <2> QED
      BY <1>1, <1>2, <1>3, <1>4, <1>5, <2>1 DEF SubscribeAt
  <1>11. OrderInv'
    <2> SUFFICES ASSUME NEW i \in Queued
                 PROVE  OrderAt(i)'
      BY <1>1 DEF OrderInv
    <2>1. OrderAt(i) /\ SubscribeAt(i) /\ m_actions[i].hdl \in Conn
      BY <1>6 DEF OrderInv, SubscribeInv
    <2>2. m_actions[i] \in Action /\ m_actions[i].n \in Nat
      BY ElementOfSeq, ActionFields DEF TypeOK
    <2> QED
      BY <1>1, <1>2, <1>3, <1>4, <1>5, <1>7, <2>1, <2>2 DEF OrderAt
  <1> QED
    BY <1>8, <1>9, <1>10, <1>11

\* Who is alive and who has been joined at each point of the object's life.
LEMMA LifeStep ==
    ASSUME TypeOK, LifeInv, [Next]_vars
    PROVE  LifeInv'
  <1> USE DEF LifeInv, TypeOK, MainPc, queueVars, endpointVars, peerVars, listenerVars
  <1>1. CASE Construct
    BY <1>1 DEF Construct
  <1>2. CASE Run
    BY <1>2 DEF Run
  <1>3. CASE Stop
    BY <1>3 DEF Stop
  <1>4. CASE Destroy
    BY <1>4 DEF Destroy
  <1>5. CASE StopServer
    BY <1>5 DEF StopServer
  <1>6. CASE ClearConnections
    BY <1>6 DEF ClearConnections
  <1>7. CASE JoinServer
    BY <1>7 DEF JoinServer
  <1>8. CASE ClearRun
    BY <1>8 DEF ClearRun
  <1>9. CASE NotifyStop
    BY <1>9 DEF NotifyStop, Woken
  <1>10. CASE JoinService
    BY <1>10 DEF JoinService
  <1>11. CASE StopReturns
    BY <1>11 DEF StopReturns
  <1>12. CASE Free
    BY <1>12 DEF Free
  <1>13. CASE DoRunListens
    BY <1>13 DEF DoRunListens
  <1>14. CASE DoRunFails
    BY <1>14 DEF DoRunFails
  <1>15. CASE DoRunReturns
    BY <1>15 DEF DoRunReturns
  <1>16. CASE NotifyService
    BY <1>16 DEF NotifyService, Woken
  <1>17. ASSUME NEW c \in Conn, on_open(c) \/ on_close(c)
         PROVE  LifeInv'
    BY <1>17 DEF on_open, on_close, Push, InHandler
  <1>18. ASSUME NEW c \in Conn, NEW text \in BOOLEAN, on_message(c, text)
         PROVE  LifeInv'
    BY <1>18 DEF on_message, Push, InHandler
  <1>19. CASE StartService
    BY <1>19 DEF StartService
  <1>20. CASE ExitService
    BY <1>20 DEF ExitService
  <1>21. CASE Wait
    BY <1>21 DEF Wait
  <1>22. CASE Take
    BY <1>22 DEF Take
  <1>23. CASE UpdateConnections
    BY <1>23 DEF UpdateConnections
  <1>24. CASE CallConnected
    BY <1>24 DEF CallConnected, EndCall
  <1>25. CASE CallDisconnected
    BY <1>25 DEF CallDisconnected, EndCall
  <1>26. CASE CallReceived
    BY <1>26 DEF CallReceived, EndCall
  <1>27. CASE SkipMessage
    BY <1>27 DEF SkipMessage, EndCall
  <1>28. CASE PureVirtualCall
    BY <1>28 DEF PureVirtualCall
  <1>29. CASE SpuriousWakeup
    BY <1>29 DEF SpuriousWakeup
  <1>30. CASE UNCHANGED vars
    BY <1>30 DEF vars
  <1> QED
    BY StepCases, <1>1, <1>2, <1>3, <1>4, <1>5, <1>6, <1>7, <1>8, <1>9, <1>10, <1>11, <1>12, <1>13, <1>14, <1>15, <1>16, <1>17, <1>18, <1>19, <1>20, <1>21, <1>22, <1>23, <1>24, <1>25, <1>26, <1>27, <1>28, <1>29, <1>30

\* Steps that leave the sets compared by ChannelAgrees and the report under way.
LEMMA QuietChannel ==
    ASSUME ChannelAgrees, InUse' => InUse,
           UNCHANGED <<m_connections, told, con, action>>,
           ws_thread' = "call" <=> ws_thread = "call"
    PROVE  ChannelAgrees'
  BY DEF ChannelAgrees, Reporting

LEMMA ChannelStep ==
    ASSUME TypeOK, LifeInv, QueueInv, ChannelAgrees, [Next]_vars
    PROVE  ChannelAgrees'
  <1> USE DEF TypeOK, WsPc, MainPc, queueVars, endpointVars, peerVars, listenerVars
  <1>1. CASE Construct
    <2>1. \A c \in Conn : con[c] # "dropped" => told[c] = "nothing"
      BY <1>1 DEF Construct, LifeInv, QueueInv, PeerInv
    <2> QED
      BY <1>1, <2>1 DEF Construct, LifeInv, ChannelAgrees, Reporting
  <1>2. CASE Run \/ Stop \/ Destroy
    <2>1. InUse' => InUse
      BY <1>2 DEF Run, Stop, Destroy, InUse
    <2> QED
      BY <1>2, <2>1, QuietChannel DEF Run, Stop, Destroy
  <1>3. CASE StopServer
    <2>1. InUse' => InUse
      BY <1>3 DEF StopServer, InUse, LifeInv
    <2> QED
      BY <1>3, <2>1, QuietChannel DEF StopServer
  <1>4. CASE ClearConnections \/ JoinServer \/ ClearRun \/ Free \/ StopReturns
    <2>1. ~InUse'
      BY <1>4 DEF ClearConnections, JoinServer, ClearRun, Free, StopReturns, InUse, LifeInv
    <2> QED
      BY <2>1 DEF ChannelAgrees
  <1>5. CASE NotifyStop \/ JoinService \/ NotifyService
    <2>1. InUse' => InUse
      BY <1>5 DEF NotifyStop, JoinService, NotifyService, Woken, InUse
    <2> QED
      BY <1>5, <2>1, QuietChannel DEF NotifyStop, JoinService, NotifyService, Woken
  <1>6. CASE DoRunListens \/ DoRunFails \/ DoRunReturns
    <2>1. InUse' => InUse
      BY <1>6 DEF DoRunListens, DoRunFails, DoRunReturns, InUse
    <2> QED
      BY <1>6, <2>1, QuietChannel DEF DoRunListens, DoRunFails, DoRunReturns
  <1>7. ASSUME NEW d \in Conn, on_open(d) \/ on_close(d)
        PROVE  ChannelAgrees'
    <2>1. /\ UNCHANGED <<m_connections, told, ws_thread, action, stopped, main>>
          /\ \A c \in Conn : con'[c] # "dropped" => con[c] # "dropped"
      BY <1>7 DEF on_open, on_close
    <2> QED
      BY <2>1 DEF ChannelAgrees, InUse, Reporting
  <1>8. ASSUME NEW d \in Conn, NEW text \in BOOLEAN, on_message(d, text)
        PROVE  ChannelAgrees'
    BY <1>8, QuietChannel DEF on_message, InUse
  <1>9. CASE StartService \/ ExitService \/ Wait \/ SpuriousWakeup \/ PureVirtualCall
    BY <1>9, QuietChannel DEF StartService, ExitService, Wait, SpuriousWakeup, PureVirtualCall, InUse
  <1>10. CASE Take
    <2>1. /\ ws_thread = "loop" /\ UNCHANGED <<m_connections, told, con, stopped, main>>
          /\ ws_thread' = "call" => action'.type = "MESSAGE"
      BY <1>10 DEF Take
    <2> QED
      BY <2>1 DEF ChannelAgrees, InUse, Reporting
  <1>11. CASE UpdateConnections
    <2> DEFINE d == action.hdl
    <2>1. /\ action \in Action /\ action.type \in ActionType /\ d \in Conn
          /\ action.type = "SUBSCRIBE" => told[d] = "nothing"
          /\ action.type # "SUBSCRIBE" => action.type = "UNSUBSCRIBE" /\ told[d] = "connected"
      BY <1>11, ActionFields DEF UpdateConnections, QueueInv, HeldInv, ActionType
    <2>2. /\ ws_thread = "update" /\ ws_thread' = "call"
          /\ UNCHANGED <<action, told, con, stopped, main>>
      BY <1>11 DEF UpdateConnections
    <2>3. \A c \in Conn : c \in m_connections' <=>
              \/ c = d /\ action.type = "SUBSCRIBE"
              \/ c # d /\ c \in m_connections
      BY <1>11, <2>1 DEF UpdateConnections
    <2> QED
      BY <2>1, <2>2, <2>3 DEF ChannelAgrees, InUse, Reporting
  <1>12. CASE CallConnected \/ CallDisconnected \/ CallReceived \/ SkipMessage
    <2> DEFINE d == action.hdl
    <2>1. action \in Action /\ d \in Conn
      BY <1>12, ActionFields
         DEF CallConnected, CallDisconnected, CallReceived, SkipMessage
    <2>2. /\ ws_thread = "call" /\ ws_thread' = "loop"
          /\ UNCHANGED <<m_connections, con, stopped, main>>
      BY <1>12 DEF CallConnected, CallDisconnected, CallReceived, SkipMessage, EndCall
    <2>3. /\ \A c \in Conn : c # d => told'[c] = told[c]
          /\ action.type = "SUBSCRIBE" => told'[d] = "connected"
          /\ action.type = "UNSUBSCRIBE" => told'[d] = "disconnected"
          /\ action.type = "MESSAGE" => told'[d] = told[d]
      BY <1>12, <2>1 DEF CallConnected, CallDisconnected, CallReceived, SkipMessage
    <2>4. action.type \in ActionType
      BY <2>1, ActionFields
    <2> QED
      BY <2>1, <2>2, <2>3, <2>4 DEF ChannelAgrees, InUse, Reporting, ActionType
  <1>13. CASE UNCHANGED vars
    BY <1>13, QuietChannel DEF vars, InUse
  <1> QED
    BY StepCases, <1>1, <1>2, <1>3, <1>4, <1>5, <1>6, <1>7, <1>8, <1>9, <1>10, <1>11, <1>12, <1>13

\* Free: nothing is queued or held any more.
LEMMA FreeStep ==
    ASSUME TypeOK, LifeInv, QueueInv, Free
    PROVE  QueueInv'
  <1>1. /\ ws_thread' = "null" /\ m_actions' = <<>> /\ UNCHANGED <<sent, told, rcvd>>
        /\ \A c \in Conn : con'[c] = IF con[c] = "new" THEN "new" ELSE "dropped"
    BY DEF Free, LifeInv, listenerVars
  <1>2. Queued' = {}
    BY <1>1 DEF Queued
  <1>3. PeerInv'
    BY <1>1 DEF QueueInv, PeerInv
  <1>4. HeldInv'
    BY <1>1 DEF HeldInv
  <1> QED
    BY <1>2, <1>3, <1>4 DEF QueueInv, SubscribeInv, OrderInv

LEMMA QueueStep ==
    ASSUME TypeOK, LifeInv, QueueInv, [Next]_vars
    PROVE  QueueInv'
  <1> USE DEF queueVars, endpointVars, peerVars, listenerVars
  <1>1. CASE Construct
    BY <1>1, QuietStep DEF Construct, LifeInv
  <1>2. CASE Run \/ Stop \/ Destroy \/ StopServer \/ ClearConnections \/ JoinServer
             \/ ClearRun \/ StopReturns
    BY <1>2, QuietStep DEF Run, Stop, Destroy, StopServer, ClearConnections, JoinServer,
                           ClearRun, StopReturns
  <1>3. CASE NotifyStop \/ JoinService \/ NotifyService
    BY <1>3, QuietStep DEF NotifyStop, JoinService, NotifyService, Woken
  <1>4. CASE DoRunListens \/ DoRunFails \/ DoRunReturns \/ PureVirtualCall \/ UNCHANGED vars
    BY <1>4, QuietStep DEF DoRunListens, DoRunFails, DoRunReturns, PureVirtualCall, vars
  <1>5. CASE StartService \/ ExitService \/ Wait \/ SpuriousWakeup \/ UpdateConnections
    BY <1>5, QuietStep DEF StartService, ExitService, Wait, SpuriousWakeup, UpdateConnections
  <1> QED
    BY StepCases, <1>1, <1>2, <1>3, <1>4, <1>5, OpenStep, CloseStep, MessageStep, TakeStep,
       ReportStep, FreeStep

LEMMA InvariantInit == Init => IInv
  <1> SUFFICES ASSUME Init
               PROVE  IInv
    OBVIOUS
  <1>1. Queued = {}
    BY DEF Init, Queued
  <1>2. PeerInv
    <2>1. \A c \in Conn : con[c] = "new" /\ told[c] = "nothing" /\ sent[c] = 0 /\ rcvd[c] = 0
      BY DEF Init
    <2>2. \A c \in Conn : rcvd[c] <= sent[c]
      <3> SUFFICES ASSUME NEW c \in Conn
                   PROVE  rcvd[c] <= sent[c]
        OBVIOUS
      <3>1. rcvd[c] = 0 /\ sent[c] = 0
        BY <2>1
      <3>2. 0 <= 0
        OBVIOUS
      <3> QED
        BY <3>1, <3>2, Zenon
    <2>3. \A c \in Conn : con[c] # "open"
      BY <2>1
    <2> QED
      BY <2>1, <2>2, <2>3, Zenon DEF PeerInv
  <1> QED
    BY <1>1, <1>2, TypeInit DEF Init, IInv, LifeInv, HeldInv, SubscribeInv, OrderInv,
                              ChannelAgrees, InUse

LEMMA InvariantStep == IInv /\ [Next]_vars => IInv'
  BY TypeStep, LifeStep, QueueStep, ChannelStep DEF IInv, QueueInv

\* The inductive invariant: for every connection, the actions in the queue and
\* in the service thread's hand are exactly those the listener has not been told
\* of, in the order on_open, on_message..., on_close (websocketServer.h:205-296).
THEOREM Invariant == Spec => []IInv
BY InvariantInit, InvariantStep, PTL DEF Spec

\* m_connections, which sendToAll iterates, is what the listener was told
\* (websocketServer.h:263, 270).
THEOREM ChannelCorrect == Spec => []ChannelAgrees
  <1>1. IInv => ChannelAgrees
    BY DEF IInv
  <1> QED
    BY <1>1, Invariant, PTL

\* Nothing that has ended is forgotten, and nothing is kept of an earlier server.
LEMMA EndsStep == IInv /\ EndsInv /\ [Next]_vars => EndsInv'
  <1> SUFFICES ASSUME IInv, EndsInv, [Next]_vars
               PROVE  EndsInv'
    OBVIOUS
  <1> DEFINE n == Len(m_actions)
             Due(c) == \/ told[c] = "disconnected" \/ Held(c, "UNSUBSCRIBE")
                       \/ \E i \in Queued : QueuedFor(i, c, "UNSUBSCRIBE")
  <1> USE DEF EndsInv, Queued, QueuedFor, queueVars, endpointVars, peerVars, listenerVars, dataVars, worldVars
  <1>1. TypeOK /\ HeldInv
    BY DEF IInv
  <1>2. CASE \/ Construct \/ Run \/ Stop \/ Destroy \/ StopServer \/ ClearConnections \/ JoinServer
             \/ ClearRun \/ NotifyStop \/ JoinService \/ StopReturns
    <2>1. CASE Construct
      BY <2>1 DEF Construct, Held, IInv, LifeInv
    <2>2. CASE Run
      BY <2>2 DEF Run, Held
    <2>3. CASE Stop
      BY <2>3 DEF Stop, Held
    <2>4. CASE Destroy
      BY <2>4 DEF Destroy, Held
    <2>5. CASE StopServer
      BY <2>5 DEF StopServer, Held
    <2>6. CASE ClearConnections
      BY <2>6 DEF ClearConnections, Held
    <2>7. CASE JoinServer
      BY <2>7 DEF JoinServer, Held
    <2>8. CASE ClearRun
      BY <2>8 DEF ClearRun, Held
    <2>9. CASE NotifyStop
      BY <2>9 DEF NotifyStop, Woken, Held
    <2>10. CASE JoinService
      BY <2>10 DEF JoinService, Held
    <2>11. CASE StopReturns
      BY <2>11 DEF StopReturns, Held
    <2> QED
      BY <1>2, <2>1, <2>2, <2>3, <2>4, <2>5, <2>6, <2>7, <2>8, <2>9, <2>10, <2>11
  <1>3. CASE \/ DoRunListens \/ DoRunFails \/ DoRunReturns \/ NotifyService \/ StartService \/ ExitService
             \/ Wait \/ SpuriousWakeup \/ PureVirtualCall \/ UNCHANGED vars
    BY <1>3 DEF DoRunListens, DoRunFails, DoRunReturns, NotifyService, StartService, ExitService,
                Wait, SpuriousWakeup, PureVirtualCall, Woken, Held, vars
  <1>4. ASSUME NEW c \in Conn, NEW a, a \in Action, m_actions' = Append(m_actions, a),
               UNCHANGED <<ws_thread, action, told, m_connections>>,
               \A d \in Conn : con'[d] = con[d] \/ (d = c /\ con'[d] = "open")
                               \/ (d = c /\ con'[d] = "closed" /\ a = Unsubscribe(c))
        PROVE  EndsInv'
    <2>1. /\ Len(m_actions') = n + 1 /\ n \in Nat
          /\ \A i \in 1 .. n : m_actions'[i] = m_actions[i]
          /\ m_actions'[n + 1] = a
      BY <1>1, <1>4, AppendProperties, LenProperties DEF TypeOK
    <2>2. \A d \in Conn : Due(d) => Due(d)'
      BY <1>4, <2>1 DEF Held
    <2>3. a = Unsubscribe(c) => Due(c)'
      BY <2>1 DEF Unsubscribe
    <2>4. m_connections \subseteq Conn
      BY <1>1 DEF TypeOK
    <2> QED
      BY <1>4, <2>2, <2>3, <2>4
  <1>5. ASSUME NEW c \in Conn, on_open(c)
        PROVE  EndsInv'
    BY <1>1, <1>4, <1>5, PushedActions DEF on_open, Push, TypeOK
  <1>6. ASSUME NEW c \in Conn, on_close(c)
        PROVE  EndsInv'
    BY <1>1, <1>4, <1>6, PushedActions DEF on_close, Push, TypeOK
  <1>7. ASSUME NEW c \in Conn, NEW text \in BOOLEAN, on_message(c, text)
        PROVE  EndsInv'
    <2>1. Message(c, sent[c] + 1, text) \in Action
      BY <1>1, PushedActions DEF TypeOK
    <2> QED
      BY <1>4, <1>7, <2>1 DEF on_message, Push
  <1>8. CASE Take
    <2>1. /\ n \in Nat \ {0} /\ Len(m_actions') = n - 1 /\ action' = m_actions[1]
          /\ \A i \in 1 .. n - 1 : m_actions'[i] = m_actions[i + 1]
          /\ ws_thread = "loop" /\ ws_thread' \in {"update", "call"}
          /\ UNCHANGED <<con, told, m_connections>>
      BY <1>1, <1>8, HeadTailProperties, EmptySeq DEF Take, TypeOK
    <2> SUFFICES ASSUME NEW c \in Conn, NEW i \in 1 .. n, QueuedFor(i, c, "UNSUBSCRIBE")
                 PROVE  Due(c)'
      BY <2>1 DEF Held
    <2>2. CASE i = 1
      BY <2>1, <2>2 DEF Held
    <2>3. CASE i # 1
      <3>1. i - 1 \in 1 .. n - 1 /\ m_actions'[i - 1] = m_actions[i]
        BY <2>1, <2>3
      <3> QED
        BY <2>1, <3>1
    <2> QED
      BY <2>2, <2>3
  <1>9. CASE UpdateConnections
    BY <1>1, <1>9 DEF UpdateConnections, Held, HeldInv
  <1>10. CASE CallConnected \/ CallDisconnected \/ CallReceived \/ SkipMessage
    <2>1. /\ ws_thread = "call" /\ ws_thread' = "loop"
          /\ UNCHANGED <<con, m_actions, m_connections>>
      BY <1>10 DEF CallConnected, CallDisconnected, CallReceived, SkipMessage, EndCall
    <2>2. \A c \in Conn : con[c] = "closed" /\ told[c] = "disconnected" => told'[c] = "disconnected"
      <3>1. action.type = "SUBSCRIBE" => told[action.hdl] = "nothing"
        BY <1>1, <2>1 DEF HeldInv
      <3> QED
        BY <1>1, <1>10, <3>1 DEF CallConnected, CallDisconnected, CallReceived, SkipMessage, TypeOK
    <2>3. \A c \in Conn : Held(c, "UNSUBSCRIBE") => told'[c] = "disconnected"
      BY <1>1, <1>10 DEF CallConnected, CallDisconnected, CallReceived, SkipMessage, Held, TypeOK
    <2> QED
      BY <2>1, <2>2, <2>3
  <1>11. CASE Free
    BY <1>11 DEF Free
  <1> QED
    BY StepCases, <1>2, <1>3, <1>5, <1>6, <1>7, <1>8, <1>9, <1>10, <1>11

LEMMA EndsInit == Init => EndsInv
  BY DEF Init, EndsInv

LEMMA CurrentByEnds == IInv /\ EndsInv => CurrentWhenQuiet
  <1> SUFFICES ASSUME IInv, EndsInv, InUse, ws_thread = "wait", m_actions = <<>>
               PROVE  m_connections = {c \in Conn : con[c] = "open"}
    BY DEF CurrentWhenQuiet
  <1>1. Queued = {} /\ \A c, type : ~Held(c, type)
    BY DEF Queued, Held
  <1>2. \A c \in Conn : con[c] # "dropped" => (c \in m_connections <=> told[c] = "connected")
    BY DEF IInv, ChannelAgrees, Reporting
  <1>3. \A c \in Conn : /\ con[c] = "closed" => told[c] = "disconnected"
                        /\ con[c] = "new" => told[c] = "nothing"
                        /\ con[c] = "open" => told[c] = "connected"
    BY <1>1 DEF IInv, EndsInv, PeerInv, TypeOK, Told
  <1>4. m_connections \subseteq Conn /\ con \in [Conn -> ConState]
    BY DEF IInv, TypeOK
  <1> QED
    BY <1>2, <1>3, <1>4 DEF EndsInv, ConState

\* m_connections are the open connections whenever the service thread has nothing to
\* do, for any number of them (websocketServer.h:205-223, 255-273).
THEOREM QuietIsCurrent == Spec => []CurrentWhenQuiet
BY EndsInit, EndsStep, CurrentByEnds, Invariant, PTL DEF Spec

\* The threads and the queue keep the promise of ServerSession to the listener:
\* one arrival, then messages in the order sent, then one departure.
THEOREM ImplementsSession == Spec => SessionSpec
  <1>1. Init => Session!Init
    BY DEF Init, Session!Init
  <1>2. IInv /\ [Next]_vars => [Session!Next]_(Session!sessionVars)
    <2> SUFFICES ASSUME TypeOK, LifeInv, PeerInv, HeldInv, [Next]_vars
                 PROVE  [Session!Next]_(Session!sessionVars)
      BY DEF IInv
    <2> DEFINE d == action.hdl
    <2> USE DEF Session!Next, Session!sessionVars, queueVars, endpointVars, peerVars, listenerVars
    <2>1. ws_thread = "call" => d \in Conn /\ action \in Action
      BY ActionFields DEF TypeOK
    <2>2. CASE CallConnected
      <3>1. Session!Connected(d) /\ d \in Conn
        BY <2>1, <2>2 DEF CallConnected, EndCall, Session!Connected, HeldInv
      <3> QED
        BY <3>1
    <2>3. CASE CallDisconnected
      <3>1. Session!Disconnected(d) /\ d \in Conn
        BY <2>1, <2>3 DEF CallDisconnected, EndCall, Session!Disconnected, HeldInv
      <3> QED
        BY <3>1
    <2>4. CASE CallReceived
      <3>1. Session!Received(d) /\ d \in Conn
        BY <2>1, <2>4 DEF CallReceived, EndCall, Session!Received, HeldInv
      <3> QED
        BY <3>1
    <2>5. ASSUME NEW c \in Conn, on_open(c) \/ on_close(c)
          PROVE  Session!Next
      BY <2>5 DEF on_open, on_close, Session!Open, Session!Close
    <2>6. ASSUME NEW c \in Conn, NEW text \in BOOLEAN, on_message(c, text)
          PROVE  Session!Next
      BY <2>6 DEF on_message, Session!Send
    <2>7. CASE Free
      BY <2>7 DEF Free, Session!Drop
    <2>8. Construct \/ Run \/ Stop \/ Destroy \/ StopServer \/ ClearConnections \/ JoinServer
            \/ ClearRun \/ NotifyStop \/ JoinService \/ StopReturns
            => UNCHANGED Session!sessionVars
      BY DEF Construct, Run, Stop, Destroy, StopServer, ClearConnections, JoinServer,
             ClearRun, NotifyStop, JoinService, StopReturns
    <2>9. DoRunListens \/ DoRunFails \/ DoRunReturns \/ NotifyService \/ StartService
            \/ ExitService \/ Wait \/ Take \/ UpdateConnections \/ SkipMessage
            \/ PureVirtualCall \/ SpuriousWakeup \/ UNCHANGED vars
            => UNCHANGED Session!sessionVars
      BY DEF DoRunListens, DoRunFails, DoRunReturns, NotifyService, StartService,
             ExitService, Wait, Take, UpdateConnections, SkipMessage, EndCall,
             PureVirtualCall, SpuriousWakeup, vars
    <2> QED
      BY StepCases, <2>2, <2>3, <2>4, <2>5, <2>6, <2>7, <2>8, <2>9
  <1> QED
    BY <1>1, <1>2, Invariant, PTL DEF Spec, SessionSpec, Session!Spec

=============================================================================
