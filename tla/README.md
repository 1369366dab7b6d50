# Verification of rcp-flext

TLA+ models of the RabbitControl externals for Pd and Max (`src/sources`),
model-checked with TLC, and theorems about them checked with TLAPS.

## 1. The system

An rcp server exposes parameters of a patch; rcp clients on the network read and
set them. Each Pd/Max object is a C++ class built on flext; the RCP protocol
itself is the library rcp-c, the sockets are websocketpp over asio. These
libraries and flext are git submodules whose sources are not in the repository:
they are modelled only as far as the code in `src/sources` uses them.

| Part | State | Operations | Talks to |
|---|---|---|---|
| `websocketServer` | `m_actions`, `m_connections`, `m_run`, two threads | `run`, `stop`, `on_open`, `on_message`, `on_close`, `process_messages` | its listener, on the service thread |
| `WebsocketServerTransporter` | `m_transporter` | `connected`, `disconnected`, `received`, `sendToOne`, `sendToAll` | rcp-c, `ParameterServer` |
| rcp.server (`ParameterServer`) | `m_transporter`, `m_clientCount`, `m_rabbitholeTransporter`, the parameters | `listen`, `connected`, `disconnected`, expose/remove/set parameter, rabbithole | the above, rcp-c, the patch |
| ws.server (`PdWebsocketServer`) | `m_server` | `listen`, lists to send | `WebsocketServerImpl`, a `websocketServer` |
| `websocketClient` | `m_con`, `m_sslCon`, two asio threads | `connect`, `disconnect`, `send`, the handlers | its listener, on an asio thread |
| rcp.server's rabbithole (`RabbitHoleServerTransporter`) | the uri, the reconnect interval, a timer | `connect`, `disconnect`, `setInterval`, `failed`, `disconnected`, timer | `websocketClient` |
| rcp.client (`ParameterClient`) | `m_client`, `m_manager`, open state | `open`, `close`, parameter added/removed, setters | `WebsocketClientTransporter`, rcp-c |
| ws.client (`PdWebsocketClient`) | `m_client` | `open`, `close`, lists to send | `WebsocketClientImpl`, a `websocketClient` |
| `ParameterServerClientBase` | `m_manager` | value, order, readonly ... of a parameter by path or id, raw data in and out | rcp-c, the patch |
| rcp.format, rcp.parse | type and options of the packet | list in, packet out; packet in, list out | the patch |
| slipencoder, slipdecoder, sizeprefix, sppp | the frame under construction | byte lists in, byte lists out | the patch, and one another through it |
| rcp.debug, rcp, `FlextBase` | none to speak of | printing | - |

What is hard about it:

- *Three threads in a server.* Pd's thread starts, stops and deletes; asio's
  thread queues what happens on the sockets; the service thread works the queue
  off and calls into the patch. `m_run`, `m_connections` and `m_clientCount` are
  shared, and not all of it is under `m_action_lock`.
- *Life cycle.* Servers are replaced while their threads run. Which destructor
  has already run decides what a virtual call does.
- *Stale events.* Clients reconnect; close and fail handlers of an earlier
  connection arrive after a new one was opened; a timer reconnects on its own.
- *Bytes.* Packets travel through the patch as lists of numbers, produced from
  `char` in some objects and from `unsigned char` in others.
- *Partial work.* Exposing a parameter creates its groups first; a failure
  leaves them behind.

For each part, the properties that make it correct: the server reports every
peer once, in order, and its threads end when asked to; the channel to which
updates go is the set of announced peers; the count at the outlet is the number
of clients; a client that was closed stays closed and one that is connected says
so; the reconnect timer connects when there is no connection and never
otherwise; a byte list survives the path through encoder and decoder.

## 2. Plan

Order: the server with its threads first, since a mistake there stops or ends
Pd; then the client, whose stale handlers are the next hardest; then what is
built on the two; then the bytes; then the parameters.

| Module | Models | Built on | State |
|---|---|---|---|
| `ServerSession` | what a listener is promised (abstract) | - | done |
| `WebsocketServer` | `websocketServer.h` | implements `ServerSession` | done |
| `ParameterServer` | `listen`, count, destructor of rcp.server | EXTENDS `WebsocketServer` | done |
| `Sending` | the loops of `sendToAll` and `send` while peers leave | EXTENDS `WebsocketServer` | done |
| `ServerTransport` | rcp.server with its sends | EXTENDS `ParameterServer`, `Sending` | done |
| `PdWebsocketServer` | ws.server: listen, count, sends | EXTENDS `Sending` | done |
| `ServerObjects` | a patch with the one object or the other | EXTENDS `ServerTransport`, `PdWebsocketServer` | done |
| `WebsocketClient` | `websocketClient.cpp` | - | done |
| `ParameterClient` | rcp.client and ws.client: connection and outlet | EXTENDS `WebsocketClient` | done |
| `RabbitHole` | `RabbitholeServerTransporter.cpp` | EXTENDS `WebsocketClient` | done |
| `PacketLine` | what a line of framing objects promises (abstract) | - | done |
| `RawData` | lists of bytes, framing objects | implements `PacketLine` | done |
| `Packets` | rcp.format and rcp.parse, alone or at the ends of the line | EXTENDS `RawData` | done |
| `Parameters` | the tree: expose, `createGroups`, remove, `getParameter`, `_input`, setters | - | done |
| `ParameterLists` | what rcp.server and rcp.client say of a parameter | EXTENDS `Parameters` | done |
| `..._proofs` | theorems about the module of that name (`Packets_proofs` about `RawData` too, `Parameters_proofs` about `ParameterLists` too) | EXTENDS it and TLAPS | done |
| `Recursion` | lemmas for the proofs about lists: recursive functions exist and are followed step by step | EXTENDS TLAPS | done |
| `ClientManager` | rcp.client: which manager it holds across a reconnect | EXTENDS `ParameterClient` | see section 7 |

## 3. The modules and the code

A thread of the program is a variable that holds its position in the code; a
critical section is one step; `notify_one`, called after unlocking, is its own.
Actions carry the names of the functions they stand for.

### WebsocketServer, ServerSession

`m_run`, `m_actions`, `m_connections` are the members of those names; `action` is
the local of `process_messages`; `stopped` and `listening` are what websocketpp
answers. `main` is Pd's thread: constructor (`Construct`), `run` (`Run`),
`stop` statement by statement (`StopServer`, `ClearConnections`, `JoinServer`,
...), called from the outside (`Stop`) or from the destructor (`Destroy`).
`object = "base"` says that the derived class is destroyed and virtual calls are
pure. `server_thread` runs the handlers: `on_open`, `on_message`, `on_close` push
an action and notify. `ws_thread` runs `process_messages`: `m_run = true` without
a lock, wait, take one action, change `m_connections`, call the listener.

`told` and `rcvd` are history variables. `ServerSession` states over them, and
over what the peers did, what the interface `IWebsocketServerListener` promises:
each peer is announced once, its messages come in order and between the
announcements, its departure is reported once. `SessionSpec` is that
specification with the variables of the same names substituted.

Simplified: `m_connection_lock` is taken by the service thread alone and orders
nothing. A handle is never used twice in the server. A freed server drops its
connections in one step.

### ParameterServer

`call` is the position of Pd's thread in `listen` or the destructor: replace the
transporter (`ListenOpen`, `ListenConstruct`), bind, reset the count, or close
(`ListenClose`). The destructor unbinds first (`DeleteUnbind`) and then releases
(`DeleteRelease`). `++m_clientCount` on the service thread is a load
(`LoadCount`) and a store with its output (`StoreCount`); Pd's thread may write in
between. All steps of `WebsocketServer` take part: its `Construct`, `Run`, `Stop`,
`Destroy` happen only where this code calls them.

Simplified: the code constructs the new transporter before it destroys the old
one; until it is bound the new one does nothing outside itself, so here it is
constructed after. Storing the count, its lower limit and writing it to the outlet
are one step (`StoreCount`), of which only the store is seen by another thread.

The destructor goes on to release the rabbithole's transporter, if there is one
(`Released`), and then frees the server of rcp-c. The release joins the thread of a
`websocketClient`, which need not end while an attempt to connect is under way:
`RabbitholeReleased` may happen at any time, or never.

### Sending, ServerTransport, PdWebsocketServer

`walk` is the iterator of a loop over `m_connections` on Pd's thread: the set as it
was at the beginning, who has been visited, and whether the service thread has changed
the set since (`Disturbs`). The loop takes no lock, so such a change is a data race
with the iterator. From then on the iterator may be anywhere in the tree: it may
go to any connection, once more or never, or be at the end (`Ahead`, `EndSend`); or
the process ends (`Corrupts`). `SendThrows` is the exception of `m_server.send` for a connection that has closed and is still in the
set: the loop ends there and the rest get nothing. `SkipExpired` is a handle that
no longer locks.

`ServerTransport` has `sendToAll` of rcp.server whenever Pd's thread is outside
`listen`. `PdWebsocketServer` is ws.server. Its `m_server` is read by the service
thread (`Answer`) while `listen` puts another server there (`Open`,
`ConstructServer`) or none (`Dispose`), so the number at the outlet may be that of
a server that has just been made, and null ends the process (`AnswerOfNull`,
`SendToNull`). The server thread reads it too, to name the port that could not be
bound (`BindFails`, then `ReportPort` or `PortOfNull`). `NewPort` asks for the port only: after a bind that failed the
same number is refused.

`ServerObjects` is a patch with one of them, `kind`, for good: they drive the same
steps of `WebsocketServer` and share a run.

Simplified: flext catches what a method throws, so an exception ends the call and
not the process.

### WebsocketClient

Pd's thread takes the handlers from the current connection one by one
(`main = "clear_open"`, `"clear_fail"`, `"clear_message"`), closes it if it is
open, and for `connect` goes on to `get_connection`. `con` is the state of a
connection in the library, `handlers` those set on it, `calling[e]` the handler
in which the thread of endpoint `e` is. An event of the library and the report of
it are two steps, so a handler that was taken away in between is still called.
Connections that have ended are reused, so that histories are unbounded. The
destructor: the derived part is gone, `disconnect`, `stop_perpetual`, join both
threads.

### ParameterClient

`m_open`, `m_close`, `New`, `Delete` are the messages and the life of rcp.client
and ws.client; `connected`, `failed`, `disconnected` write `outlet`. The two
classes differ in what they do with data, not in this. `Delete` is the release of
the transporter; rcp.client frees the client of rcp-c first, which nothing of this
model uses.

### RabbitHole

`m_uri`, `m_doTryConnect`, `m_connectInterval` and the timer, over the
`WebsocketClient` steps. `connect(uri)`, `setInterval(i)`, the timeout and the
handlers are the functions of those names. An address is its scheme: `Converted`
is what the code does with http and https. `commands` and `paused` are history
variables of the properties. The destructor is two steps: `BeginDelete` is its
body, which stops the timer and frees the transporter of rcp-c, and `Delete` begins
the destructor of the websocket client. In between (`deleting`) a handler may still
use what was freed (`receivedFreed`). The timeout runs on Pd's thread, like every flext
timer. Left out: `m_oneTimeError` (which message is printed), `unbind` (no
caller).

### RawData

`framing` selects which objects lie between the two raw sides. `Number` is
`SetInt` of a `char`, `IsByte` the tests of the list inputs, `Escape` and
`rcp_slip_append` the SLIP coding, `sizeprefix` and `rcp_sppp_data` that of size
and payload; the coding itself is in rcp-c (external; RFC 1055 and sppp-help.pd).
`Only` is what the tests of a list leave of it, `After` the state of a decoder
(`Decoder`) when it has taken some bytes, one by one; both are recursive functions
along the list.
`Deliver(n)` hands the decoder the next n numbers, for any n: a line keeps order,
not boundaries. `m_reset` is a lost connection after which the patch resets sppp.
`PacketLine` is a queue of packets that loses nothing but at a break; `LineSpec` is
that specification, with what was sent and not yet received under way.

### Packets

rcp.format: `m_id`, `m_type`, `m_label`, `labelOption` are its members; a message
(`m_bang`, `m_int`, `m_float`, `m_symbol`) gives lists of a `size` with parts
written at the fixed offsets of the code (an id and a size by `Store16` and
`Store32`, which `Load16` and `Load32` read back, and `Signed` where below 0), and `Filled` is what the list then holds.
`setLabel` has both ends of the code: the option is written, with as much of the label as
the byte of its length can count, or it cannot be and is cleared while `m_label` stays
(RcpFormat.cpp:503-507), so that packets are formatted for a label that has no
option. `gathered` are the lists that the patch has put together. rcp.parse:
`m_list` goes through the packets of a list; `rcp_packet_parse` and
`rcp_option_write`, with the layout of options, are the RCP protocol, in rcp-c
(external). `meant` and `said` are history:
what was to be said, and what rcp.parse said. The list goes to rcp.parse directly
(`ToParse`) or through the framing objects and their line (`ToLine`,
`DeliverToParse`); `ParseGiven` is a list from the help or from a message box.

### Parameters

`params` is the tree rcp-c keeps, by id; `dirty` holds what `rcp_server_update` and
`rcp_manager_update` have still to send; `exposing` is how far `exposeParameter` is:
the names left of the path and `lastGroup`. `createGroups` is one turn of the loop
of that name, `exposeFails` the two errors after it, `expose` the rest.
`removeParameter`, `removeParameterList`, `m_list`, `m_any` with `_input`, and the
setters are the messages; `getParameter` gives the set of parameters that the
search may return, since rcp-c may find any of two with one label. It goes down the
path as the loop of the code does (`Found`): where a label finds a parameter that
is no group, the search goes on in the last group. Where the code
reads the atom before an empty list (ParameterServerClientBase.cpp:212) it may be
any atom. `parameterUpdate` is a value from the network, between any two steps.

`ParameterLists` has no state of its own: for each parameter of the tree, the lists
that `parameterUpdate`, `parameterAdded`, `parameterRemoved` and the answers to
`info`, `id`, `type` ... fill, each with the size the code reserves first and the
atoms it then writes. `Addressed` (of `Parameters`) is where a message finds its
parameter, so that a list can be followed back to it.

Simplified: minimum, maximum, order and read-only are not kept, only the update
that setting them sends; a type is chosen where it is used. Of rcp-c the model
takes any free id, no parameter if there is none, and removal with everything
below ("remove a group including all parameters", rcp.server-help.pd:27).

## 4. The runs

| Run | Bounds | Shows |
|---|---|---|
| `server` | 2 peers, 1 message each | every interleaving of the three threads: `NoLostWakeup`; `ChannelAgrees`; when all is handled `m_connections` are the open connections (`CurrentWhenQuiet`); the threads implement `ServerSession`; every peer that arrives or leaves is reported (`EveryPeerReported`); `stop` returns if the service thread had started (`StartedStopReturns`) |
| `param_server` | 2 peers, ports 10000, 10001, 0, 65536, either object | rcp.server: an exact count stays exact between calls of listen; deleting the object meets no destroyed listener and gets past unbind and the release of the transporter (`DeletionEnds`). ws.server: outlet 1 is the number of connections when all is handled (`WsOutletCounts`). Both: a packet for all reaches all that stay connected, also behind a connection that has expired, unless the set changes during the loop, or send throws while an arrival or a departure is yet to be handled (`ReachesAll`) |
| `client` | 2 connections | one current connection; a replaced one is silent but for its end; what is reported of each is in order; the outlet is 1 only when connected, and falls after close unless there is another connection by then (`CloseIsShown`); deleting ends |
| `rabbithole` | 2 connections, intervals 0 and 1 | a retry is always pending when the connection is down and does happen; at most one connection is heard, and none when the next is made (`OneTunnel`); after a single command the timer interrupts none |
| `raw_data` | packets of 1, 2 and 5 bytes and lists with atoms that are no bytes, 2 at a time; rcp.format with ids at and beyond the ends of their range, 2 labels, all types, 2 numbers or strings of each kind, 2 packets in a list; 13 lists for rcp.parse | unsigned char: whatever the cuts, what arrives is a prefix of what was sent and in the end all of it, and the objects implement `PacketLine`; rcp.parse says what was sent to rcp.format (`SaysWhatWasMeant`) and what the help says of its lists; no list of rcp.format is written beyond its size or left with holes, but for a bang with a label that could not be written (`ListFits`) |
| `parameters` | 3 ids of 3 bits, 2 symbols, paths of up to 3 names, types f and b | the tree stays a tree with distinct labels; the clients know of all but empty groups; a path leads to the parameter that has it, unless it goes through one that is no group; values fit their types; no list about a parameter exceeds its size (`ListsFit`); an update sent back sets the parameter it came from (`UpdateLeadsBack`) |
| `listen_returns` | 1 peer | counterexample: `listen` blocks for ever |
| `listen_keeps_running` | 1 peer | counterexample: `listen` ends the process |
| `outlet_shows_clients` | 1 peer | counterexample: the number of clients at outlet 2 is wrong |
| `closed_is_closed` | 2 connections | counterexample: a connection closed while connecting stays |
| `connected_means_one` | 2 connections | counterexample: 0 at the outlet of a connected client |
| `signed_data_out` | as `raw_data`, signed char | counterexample: bytes of the upper half do not arrive |

Why the bounds are enough. Connections of the server interact only in the queue
and in `m_connections`; two of them show every order of two actions of different
peers, and one message each puts a message between the announcements. The
theorems below are for any number of both. Two connections of the client are the
current one and one that was given up; a third would be one more of the latter,
and they do not interact. Only the sign of an interval is looked at. In `RawData`
a byte has 3 bits: 4 values a signed char can hold and 4 it cannot, among
them the special bytes of SLIP on both sides; two packets are needed to see
one run into the next, and one of five bytes for a size with the high bit of
a byte set. A user sends a list while no more than 10 numbers (`MaxLine`) are under
way; the theorems hold for any such bound. The numbers of the RCP protocol are scaled down with the bytes: in
each place the numbers that may stand there differ, and the bytes of an id, a label
or a value may be special bytes of SLIP. `ParameterServer` and `PdWebsocketServer`
run without messages, since their counts do not depend on them; they share a run,
in which there is one object or the other.

Three ids make a group
in a group with a value in it, and run out; two symbols make siblings and a name
used at two levels; the number 10 is cut to id 2.

Deadlock is not checked: a deleted object, a freed server and a patch that
sends nothing more are legal ends. What must not stop is stated as liveness.

### Findings

Six runs are counterexamples to what the help patches or the comments say; the code
at fault and that line are in `PROJECT.json`.

- `m_run = true` as the first statement of the service thread (websocketServer.h:238)
  undoes a `stop` that came first: `listen`, called twice in quick succession,
  joins a thread that never ends.
- `listen` replaces the transporter without `unbind` (ParameterServer.cpp:208, 224):
  the service thread calls a pure virtual function.
- The count is reset after the new server accepts, and not at all when it closes
  (ParameterServer.cpp:209-224).
- `websocketClient::disconnect` does not close a connection that is connecting
  (websocketClient.cpp:135).
- The end of a replaced connection is taken for that of the current one
  (ParameterClient.cpp:317, PdWebsocketClient.cpp:78).
- A `char` goes into a list without a cast (ParameterServerClientBase.cpp:772,
  SizePrefixer.cpp:66, SPPParser.cpp:138).

Three more are in the model without a run of their own; each is an exception that
a property has to make.

- The loops over all clients take no lock: the service thread changes the set under
  their iterator, which may pass by a client (WebsocketServerImpl.cpp:57,
  WebsocketServerTransporter.cpp:196). `ReachesAll` excepts such a loop.
- `send` throws for a client that has just gone, and the exception leaves the loop
  before the others are served (WebsocketServerImpl.cpp:59,
  WebsocketServerTransporter.cpp:204). `ReachesAll` excepts it while an arrival or
  a departure is yet to be handled.
- A label whose option cannot be written stays in force without it; a bang then
  writes one atom beyond its list (RcpFormat.cpp:503-507, 151, 70). `ListFits`
  excepts that bang, `SaysWhatWasMeant` all packets with such a label.

## 5. Fairness

Weak fairness per thread: Pd's thread goes on inside a call, the service thread
and the threads of asio go on when they have something to do (`Main`, `Service`,
`ServerThread`, the handlers of each endpoint). That is what the scheduler of the
operating system gives; nothing is assumed of a thread that holds no work, and
spurious wake-ups of the condition variable may but need not happen.

In the client the library also ends an opening or a closing handshake, with an
answer or by its timeout (`Opens`, `Fails`, `ClosingEnds`): websocketpp has both
timeouts and the code leaves them on. A timer that runs does run out
(`RabbitHole`); a patch that keeps setting the interval restarts it, which the
weak fairness of the timeout leaves aside. A destructor that has begun goes on
(`RabbitMain \/ Delete`). That the release of a rabbithole returns in rcp.server is
not assumed (`RabbitholeReleased`). Peers, networks and users owe nothing:
no fairness on them, so no property relies on a peer that leaves or a user that
clicks. Deleting a client ends for a connection that is open; for one that is
connecting see `closed_is_closed`.

## 6. Theorems

Proved with TLAPS for every number of connections, messages, parameters, packets
and bytes, from assumptions on the constants that TLC evaluates on every run:

- `MaxMessagesAssumption` (a natural number), `NullAssumption` (the null pointer is
  no connection), `ListenArgsAssumption`, `ListenPortsAssumption` and
  `IntervalsAssumption` (ports and intervals are integers);
- `BaseAssumption`, `SlipAssumption` (the four bytes of SLIP that must differ do),
  `PacketAssumption` (a packet has at least a command, and its size fits in four
  bytes), `AtomAssumption` (a list of a user holds integers and symbols);
- `PacketsAssumption` (the numbers of the RCP protocol are bytes, a command or an
  option is not the terminator, commands and types are told apart),
  `SymbolsAssumption` (strings and labels are bytes, of any length),
  `NumbersAssumption` (a number fits in its four bytes, and so does the size of a
  packet with the longest string and as much of a label as its option holds),
  `GivenAssumption` (a user sends atoms);
- `ParametersAssumption` (ids fit in their bits, NULL is neither an id nor an atom,
  there are numbers).

Three more are hypotheses of single theorems. `WsTypeCorrect`, `ObjectsCorrect` and
`ObjectsTypeCorrect` count connections, so there are finitely many. `FormatIsParsed`
supposes `Understood`: the lists that a user sends to rcp.parse directly mean what
they are given with. That is the help's word for each list, with nothing to prove it
from; the run `raw_data` checks it list by list (`ParseGiven`). The theorems about the line of
framing objects are for an unsigned `char`; for a signed one they are false, which
the run `signed_data_out` shows.

`WebsocketServer_proofs`. `TypeCorrect` and `WakeupSafe` (`[]NoLostWakeup`) come
directly from the steps. `ChannelAgrees` is not inductive: it depends on which
action the service thread holds and that no action of a peer that has left, or
was not yet announced, follows. The invariant `IInv` states it as

- `LifeInv`: what a freed or stopped server has left, thread by thread;
- `PeerInv`: a peer not yet announced has its subscription in the queue or in hand;
- `HeldInv`: the action in hand is the next its connection is due;
- `SubscribeInv`: a subscription is the first action of its connection in the queue;
- `OrderInv`: an unsubscription is the last, and messages are in the order of
  their numbers.

`Invariant` proves it with one lemma per action that touches the queue. From it
`ChannelCorrect`, and `ImplementsSession` (`Spec => Session!Spec`): each step of
the threads is a step of `ServerSession` or leaves its variables alone. The
invariant gives the guards of `Connected`, `Received` and `Disconnected`.
`QuietIsCurrent` (`[]CurrentWhenQuiet`) needs the other direction too: an end that
has happened is reported, in hand or in the queue (`EndsInv`).

`ServerObjects_proofs`, rcp.server. `DrivesServer`: a behaviour of rcp.server is a
behaviour of `WebsocketServer`, so its theorems carry over
(`ServerChannelCorrect`). `DeletionIsSafe`: with `DeletionInv` (a server being
deleted is whole until stopped and has no service thread afterwards), no pure
virtual call happens during deletion, in contrast to `listen`. `CountIsExact`
(`CountStaysExact`): the clients that are known become one more by `connected` and
one less by `disconnected` (`KnownStep`, from `HeldInv`: who arrives was unknown,
who leaves was known), and are forgotten with their server only inside a call
(`CountInv`); the copy of the count that the service thread holds is what the
count will be (`Drift`). `ParamTypeCorrect` gives that neither is negative.

`ServerObjects_proofs`, the sends and ws.server. `UpdatesReachAll` and `ListsReachAll`: whoever was passed and is
connected was connected when passed, since a connection that has ended never opens
again, and was sent to (`PassedInv`); a loop that nothing disturbed and that reaches its end
has passed all that were there. When all is handled `m_connections` are the open
connections (`CurrentWhenQuiet`), so that `send` does not throw. A loop under which the set
changes, or that throws before a departure is handled, may miss a client. `OutletIsExact`: in
ws.server a server that is whole is the one `m_server` points to, and the count is
that of `m_connections` unless a report is on its way (`CountedInv`); with
`CurrentByEnds` that is the number of open connections. `WsTypeCorrect`: port
and `m_server` have their types because at each position of `listen` the pointer
is what the statements before left there (`PointerInv`).
`ObjectsCorrect` and `ObjectsTypeCorrect` state both for the patch of
`ServerObjects`, where an rcp.server leaves the variables of ws.server alone.

`WebsocketClient_proofs`. The invariant says, for each position of Pd's thread in
`disconnect`, which handlers the current and the other connections still have
(`MainInv`, `HandlersInv`), which handler an endpoint can be in (`CallInv`), and
what the listener has heard of a connection in each state (`ToldInv`). From it
`OneConnectionAtATime`, `OthersAreSilent` and `ReportsAreOrdered`.

`ParameterClient_proofs`. `OutletTellsTheTruth`: an outlet at 1 is backed by a
connection whose end is still to be reported (`OutletInv`), which the close
handler that `disconnect` leaves on every connection makes inductive.

`RabbitHole_proofs`. The steps of the rabbithole are steps of `WebsocketClient` or
leave it alone (`ClientSteps`), so its invariant holds and with it `TunnelIsOne`
(`OneTunnel`): a connection that is not current has no handler left but that of its
end (`HandlersInv`), there is one current connection at most, and none when the next is
made. A connection that was given up while connecting may be open beside it.
`RetryIsPending` (`RetryPending`): whoever is busy is about to connect to the address;
a current connection keeps its fail handler until it is taken; and when nobody is
busy there is the timer, a connection under way, or a handler that will start the
timer (`RetryInv`). The proof goes by calls of the patch, steps of Pd's thread,
the timeout, the handlers and the library. `TimerNeverInterrupts`
(`NeverInterrupts`): after a single command of the patch there is one attempt at most
(`OneAttempt`): a timer, Pd's thread on its way to connect, one live connection
or one failure not yet reported, each while there is none of the others. Each step
hands the attempt on: the timeout to the connection, its end to the handler, the handler to
the timer. So a timer that runs out finds no connection being made, open or closing.
After a further command it may, which the code accepts.

`Packets_proofs`, the line. `LineInv` says that what the decoder would have after
the rest of the line is all that was sent (and not lost by a break). It is
inductive whatever the cuts, since a decoder that takes two pieces one after the
other is where it would be after both (`AfterBoth`), and what it had finished
before makes no difference (`AfterShift`). A packet that was coded adds that packet:
`SlipArrives` by induction over its bytes, each of which `EscapeDecodes`, and
`SizeArrives` from the four digits of its size (`SizeIsRead`), which are less than
all of it until the last. From it `LineTypeCorrect`, `PacketsArrive` (`Intact` and
`Arrives`) and `ImplementsLine` (`LineSpec`), in which a delivery receives as many
packets of `PacketLine` as it completes: none, one or several.

`Packets_proofs`, rcp.format. `FormatTypeCorrect` and `EveryListFits`: in each list
of the code the parts follow one another without a gap and end at the size of the
list (`Full`), so that the writes cover it exactly (`FullIsFilled`). The exception is
a bang with a label that has no option, which writes a seventh atom to a list of
six. `BothTypeCorrect`,
`BothArrive` and `BothImplementLine` say of the line what was proved for `RawData`,
with rcp.format at its beginning: its lists are bytes once they are stored in a
`char` (`GatheredSent`).

`Packets_proofs`, rcp.format to rcp.parse. `FormatIsParsed` (`SaysWhatWasMeant`) is of
packets formatted while the label is empty or its option was written and holds all of it
(`LabelIsWhole`); it goes in three steps.

- What a list holds. `Holds(d, p, s)` says that the bytes `s` are at position `p` of
  `d`; a part that no later part of the list overwrites is held (`PartHeld`). So
  `UpdateValueHolds` and `UpdateWithLabelHolds` give, from the fixed offsets of the
  code, where the command, the id, the type, the value and the label are.
- What is read there. An id or a number that was stored in two or four bytes is read
  back, also below 0 (`IdIsRead`, `NumberIsRead`), each type's value has the size and
  the meaning it was written with (`Encodes`), and the search for the options ends at
  the label and the terminators (`UpdateWithLabelReads`). A packet is read the same
  whatever follows it (`Reads`), so a list of packets says one thing after the
  other (`SaysThen`, `OneMoreSaid`); here `rcp_packet_parse` needs that commands
  are distinct.
- What travels. `TalkInv`: what the patch has gathered says what is meant; once it is
  under way, what the decoder would have after the rest of the line is that one list
  or nothing, and what was said together with what it says is what was meant. It is
  inductive for each handler of rcp.format (`FormatTalks`, from `FormattedMeans`), for
  the cord (`ToParseTalks`) and for each piece of the line, however it is cut
  (`ToLineTalks`, `DeliverTalks`, from `AfterBoth`, `SlipArrives` and `SizeArrives`).

`Recursion`. An induction is stated over a set of numbers: one with 0 and with the
successor of each has all (`AllNaturals`, from a least element of the others).
`RecursionExists` gives a function that follows a given step from a given start;
that it is the only one gives the value of the model's recursive functions,
one element of a list at a time.

`Parameters_proofs`. The invariant is `TypeOK`, `TreeInv` and `ClientsInformed`; it
is inductive because `TreeInv` has the group at which a running expose has
arrived, and it does not depend on what `getParameter` finds. That there is no cycle
is stated as: every set of parameters has one whose group is not in it.
`TypeCorrect`, `TreeCorrect` and `ClientsAreInformed` hold for any number of ids
and labels and for paths of any length.

`PathsLead` (`PathsResolve`) goes along the labels of a path: with distinct labels in
a group, the search is at the parameter of that prefix after each of them
(`PathLeads`). That every parameter has a line of groups to the root is an
induction over the tree (`TreeInduction`, from the statement that there is no
cycle); `ClimbExists` gives `getParents` its value. `NoListOverflows` (`ListsFit`)
adds up, for each list, the label, the groups and the options and compares with
what the code reserves. `UpdatesLeadBack` (`UpdateLeadsBack`): an update names the
groups of its parameter from the root, so if none on that line has a sibling of
the same label, the search finds one at each label (`FindsOne`, `LineLeads`).

Only model-checked: liveness (`EveryPeerReported`, `StartedStopReturns`,
`DeletionEnds` of servers and of clients, `CloseIsShown`, `ConnectsAgain`), which
needs fairness and ENABLED; and `Understood`, the help's lists one by one.

## 7. Not modelled, and why

- websocketpp, asio, OpenSSL, flext and rcp-c: not in the repository. Modelled
  as far as used.
- rcp.client's manager: `open` makes rcp-c create it again, and which one it
  delivers to is decided in rcp-c.
- The set `m_connections` of a server in `stop` may be filled again after it was
  cleared (websocketServer.h:179-180); it is freed right after, so no property
  looks at it.
- The bytes `websocketClient::send` writes, TLS options and certificates: one
  call into the library.
- `sendToOne`, the exclusion of the sender in `sendToAll`, and the sends that rcp-c
  makes in answer, on the service thread: they change no state of these objects.
- A torn read of a string under a data race: the rabbithole reads its address
  whole or the process ends.
- Overflow of the buffers of the decoders: in rcp-c. When the option of a label
  cannot be written is up to rcp-c too, so `setLabel` may fail for any label.
- What memory holds after a write beyond a list, or after a walk over a set that was
  changed: the model says that it happens, or ends the process there.
- The selectors of a message. A first name that is one the object knows ("info",
  "value", "listen": ParameterServerClientBase.cpp:155-162, ParameterServer.h:82-97)
  reaches the parameter of that label only in a list (`m_list`, :243-247); `m_any` of
  the model stands for both ways, and `UpdateLeadsBack` for the way that fits.
- rcp.debug, rcp, FlextBase, Optional: printing and registration without state.
- Whether a parameter is read-only, its order and its limits are any in
  `ParameterLists`: rcp-c keeps them. Numbers beyond int16_t, and labels that are
  numbers and can be exposed but not addressed, are in the model but no property
  is about them.
- The printing of all parameters on a bang.
- `dependencies`: headers of Pd.
