------------------------------- MODULE Packets -------------------------------
(***************************************************************************)
(* rcp.format (sources/RcpFormat.cpp) makes a packet of a bang, a number or *)
(* a symbol; rcp.parse (sources/RcpParse.cpp) says what a list of bytes     *)
(* means.  In between is a patch cord, or the objects and the line of       *)
(* RawData, with the same bytes.                                            *)
(*                                                                         *)
(* rcp.format fills a list by fixed positions.  What rcp-c makes of a label *)
(* and how it reads a packet is the RCP protocol.                           *)
(*                                                                         *)
(* A string is a sequence of bytes; a float is a number of halves, in four  *)
(* bytes of which only that they differ for different floats matters.       *)
(***************************************************************************)
EXTENDS RawData

CONSTANTS
    Command, Option, TypeId,    \* the numbers of the protocol
    AnyLanguage,                        \* the language "any"
    to_string(_),               \* std::to_string of halves
    IdArgs, Label, IntArg, FloatArg, StringArg, \* what the patch sends to rcp.format
    Given,                      \* lists a user sends to rcp.parse, with what they say
    MaxGathered                 \* bound: packets of rcp.format in one list

RCP_TERMINATOR == 0
CommandName == {"INFO", "INITIALIZE", "DISCOVER", "UPDATE", "REMOVE", "UPDATEVALUE"}
Kind == {"b", "t", "i", "f", "s"}

\* How many numbers there are in two bytes, and in four.
Range16 == Base * Base
Range32 == Base * Base * Base * Base

ASSUME PacketsAssumption ==
    /\ Base % 2 = 0
    /\ Command \in [CommandName -> Byte \ {RCP_TERMINATOR}]
    /\ \A c, d \in CommandName : Command[c] = Command[d] => c = d
    /\ Option \in [{"DATA", "VALUE", "LABEL", "APPLICATION"} -> Byte \ {RCP_TERMINATOR}]
    /\ Option.VALUE # Option.LABEL
    /\ TypeId \in [Kind -> Byte] /\ \A s, t \in Kind : TypeId[s] = TypeId[t] => s = t
    /\ AnyLanguage \in [1 .. 3 -> Byte]

\* Symbols are bytes, in strings and labels of any length.
ASSUME SymbolsAssumption ==
    /\ IntArg \cup FloatArg \subseteq Int /\ StringArg \cup Label \subseteq Seq(Byte)
    /\ \A h \in FloatArg \cup {2 * v : v \in IntArg} : to_string(h) \in Seq(Byte)

\* A number in halves fits in its four bytes, and so does the size of a packet with the
\* longest string or number, and as much of a label as its option holds.
ASSUME NumbersAssumption ==
    LET Halves == FloatArg \cup {2 * v : v \in IntArg} IN
    /\ \A h \in Halves : -Range32 <= 2 * h /\ 2 * h < Range32
    /\ \A s \in {<<>>} \cup StringArg \cup {to_string(h) : h \in Halves} : Len(s) + Base + 19 < Range32

\* A user sends atoms.
ASSUME GivenAssumption == \A g \in Given : g.list \in Seq(Int \cup {Symbol})

VARIABLES
    source,                     \* which object is at the beginning of the line
    m_id, m_type, m_label, labelOption, \* rcp.format
    gathered, packets,          \* what it sent: one list, of so many packets
    meant, said                 \* what was to be said, and what rcp.parse said

formatVars == <<m_id, m_type, m_label, labelOption>>
historyVars == <<meant, said>>
packetVars == <<vars, source, formatVars, gathered, packets, historyVars>>

\* The constructor and m_setId refuse an id that does not fit.
ValidId(n) == n # 0 /\ n \in -(Range16 \div 2) .. (Range16 \div 2) - 1

\* An id is one that a packet can have (RcpFormat.cpp:412-429); what is gathered is
\* so many packets.
PacketsTypeOK ==
    /\ source \in {"rcp.server", "rcp.format"}
    /\ ValidId(m_id)
    /\ m_type \in Kind \cup {"auto"}
    /\ m_label \in Seq(Byte)
    /\ gathered = <<>> <=> packets = 0

-----------------------------------------------------------------------------
(* The bytes of numbers: _rcp_store16 and 32, and back.                    *)

Store16(v) == <<(v \div Base) % Base, v % Base>>
Store32(v) == SizeBytes(v)
Load16(bytes) == bytes[1] * Base + bytes[2]
Load32(bytes) == Size(bytes)
Signed(v, range) == IF v < range \div 2 THEN v ELSE v - range

\* A number of halves without its fraction.
Truncated(h) == IF h >= 0 THEN h \div 2 ELSE -((-h) \div 2)

-----------------------------------------------------------------------------
(* rcp.format.  A list has a size, and parts that are written at an offset. *)

Ends(part) == part.at + Len(part.bytes)

\* What the list holds in the end; an atom that is not written is no number.
Filled(list) ==
    [k \in 1 .. list.size |->
        LET writers == {j \in DOMAIN list.parts : k \in list.parts[j].at + 1 .. Ends(list.parts[j])} IN
        IF writers = {} THEN Symbol
        ELSE LET part == list.parts[CHOOSE j \in writers : \A i \in writers : i <= j] IN
             part.bytes[k - part.at]]

At(offset, bytes) == [at |-> offset, bytes |-> bytes]

\* 06 id id type value
UpdateValue(type, value) ==
    [size |-> 4 + Len(value),
     parts |-> <<At(0, <<Command.UPDATEVALUE>>), At(1, Store16(m_id)), At(3, <<TypeId[type]>>),
                 At(4, value)>>]

SETUP_UPDATE_PACKET(type) ==
    <<At(0, <<Command.UPDATE, Option.DATA>>), At(2, Store16(m_id)), At(4, <<TypeId[type]>>),
      At(5, <<RCP_TERMINATOR>>), At(6, <<Option.VALUE>>)>>

\* The label where it would be after a value of four bytes.
UpdateWithLabelAt11(type, value) ==
    LET end == IF type = "b" THEN 6 ELSE 11 IN
    [size |-> end + Len(labelOption),
     parts |-> SETUP_UPDATE_PACKET(type) \o <<At(7, value), At(end, labelOption)>>]

\* 4 18 id id t 0 32 value 33 any len label 0 0 0: a bang has no value, its
\* label takes the place of the option.
UpdateWithLabel(type, value) ==
    LET end == IF type = "b" THEN 6 ELSE 7 + Len(value) IN
    [size |-> end + Len(labelOption),
     parts |-> SETUP_UPDATE_PACKET(type) \o <<At(7, value), At(end, labelOption)>>]

Packet(type, value) ==
    <<IF m_label = <<>> THEN UpdateValue(type, value) ELSE UpdateWithLabel(type, value)>>

\* The handlers: the packet that is sent, if any.
m_bang == IF m_type \in {"auto", "b"} THEN Packet("b", <<>>) ELSE <<>>

m_symbol(str) ==
    IF m_type \in {"auto", "s"} THEN Packet("s", Store32(Len(str)) \o Numbers(str)) ELSE <<>>

FloatPacket(h) == Packet("f", Store32(h))

m_int(v) ==
    CASE m_type \in {"auto", "i"} -> Packet("i", Store32(v))
      [] m_type = "t" -> Packet("t", <<IF v > 0 THEN 1 ELSE 0>>)
      [] m_type = "f" -> FloatPacket(2 * v)
      [] m_type = "s" -> m_symbol(to_string(2 * v))
      [] OTHER -> <<>>

m_float(h) ==
    CASE m_type \in {"auto", "f"} -> FloatPacket(h)
      [] m_type \in {"i", "t"} -> m_int(Truncated(h))
      [] m_type = "s" -> m_symbol(to_string(h))
      [] OTHER -> <<>>

\* A bang, an int, a float in halves or a symbol.
Message ==
    {[kind |-> "b", arg |-> <<>>]} \cup {[kind |-> "i", arg |-> <<v>>] : v \in IntArg}
    \cup {[kind |-> "f", arg |-> <<h>>] : h \in FloatArg} \cup {[kind |-> "s", arg |-> s] : s \in StringArg}

Formatted(msg) ==
    CASE msg.kind = "b" -> m_bang
      [] msg.kind = "i" -> m_int(msg.arg[1])
      [] msg.kind = "f" -> m_float(msg.arg[1])
      [] msg.kind = "s" -> m_symbol(msg.arg)

-----------------------------------------------------------------------------
(* rcp_packet_parse, for what these objects send and for the lists of       *)
(* rcp.parse-help.pd.  A position beyond the end reads as 0; a packet that  *)
(* does not end within the list is none.                                    *)

Byte1(d, p) == IF p \in DOMAIN d THEN d[p] ELSE 0
Slice(d, p, n) == [i \in 1 .. n |-> Byte1(d, p + i - 1)]
Id(d, p) == Signed(Load16(Slice(d, p, 2)), Range16)

KindOf(b) == IF \E t \in Kind : TypeId[t] = b THEN CHOOSE t \in Kind : TypeId[t] = b ELSE "none"

ValueSize(type, d, p) ==
    CASE type \in {"b", "none"} -> 0
      [] type = "t" -> 1
      [] type \in {"i", "f"} -> 4
      [] type = "s" -> 4 + Load32(Slice(d, p, 4))

\* The value as the atoms of a list, with their kind.
ValueAt(type, d, p) ==
    CASE type \in {"b", "none"} -> <<>>
      [] type = "t" -> <<<<"t", Byte1(d, p)>>>>
      [] type \in {"i", "f"} -> <<<<type, Signed(Load32(Slice(d, p, 4)), Range32)>>>>
      [] type = "s" -> <<<<"s", Slice(d, p + 4, Load32(Slice(d, p, 4)))>>>>

\* What rcp.parse sends: an id to outlet 1, or none; a list to outlet 0.
Output(id, name, atoms) == [id |-> id, name |-> name, atoms |-> atoms]
NoPacket == [size |-> 0, output |-> Output(<<>>, "", <<>>)]

\* parameterUpdate
parameterUpdate(id, label, value) == Output(<<id>>, "update", label \o value)

ParseUpdateValue(d) ==
    LET type == KindOf(Byte1(d, 4)) IN
    IF type = "none" THEN NoPacket
    ELSE [size |-> 4 + ValueSize(type, d, 5),
          output |-> parameterUpdate(Id(d, 2), <<>>, ValueAt(type, d, 5))]

ParseUpdate(d) ==
    LET type == KindOf(Byte1(d, 5))
        hasValue == Byte1(d, 7) = Option.VALUE
        label == IF hasValue THEN 8 + ValueSize(type, d, 8) ELSE 7
        hasLabel == Byte1(d, label) = Option.LABEL
        len == Byte1(d, label + 4)
        end == IF hasLabel THEN label + 6 + len ELSE label
    IN  IF \/ type = "none" \/ Byte1(d, 2) # Option.DATA
           \/ \E p \in {6, end, end + 1} \cup IF hasLabel THEN {end - 1} ELSE {} :
                 Byte1(d, p) # RCP_TERMINATOR
        THEN NoPacket
        ELSE [size |-> end + 1,
              output |-> parameterUpdate(Id(d, 3),
                            IF hasLabel THEN <<<<"s", Slice(d, label + 5, len)>>>> ELSE <<>>,
                            IF hasValue THEN ValueAt(type, d, 8) ELSE ValueAt(type, <<>>, 1))]

\* A command about an id, which is 0 if it is not there.
ParseId(d, name) ==
    IF Byte1(d, 2) = RCP_TERMINATOR THEN [size |-> 2, output |-> Output(<<0>>, name, <<>>)]
    ELSE IF Byte1(d, 2) = Option.DATA /\ Byte1(d, 5) = RCP_TERMINATOR
    THEN [size |-> 5, output |-> Output(<<Id(d, 3)>>, name, <<>>)]
    ELSE NoPacket

\* The version and, as an option, the application.
ParseInfo(d) ==
    LET len == Byte1(d, 3)
        app == 4 + len
        hasApp == Byte1(d, app) = Option.APPLICATION
        appLen == Byte1(d, app + 1)
        end == IF hasApp THEN app + 2 + appLen ELSE app
    IN  IF Byte1(d, 2) = RCP_TERMINATOR THEN [size |-> 2, output |-> Output(<<>>, "info", <<>>)]
        ELSE IF Byte1(d, 2) # Option.DATA \/ \E p \in {end, end + 1} : Byte1(d, p) # RCP_TERMINATOR
        THEN NoPacket
        ELSE [size |-> end + 1,
              output |-> Output(<<>>, "info",
                            <<<<"s", Slice(d, 4, len)>>>>
                            \o IF hasApp THEN <<<<"s", Slice(d, app + 2, appLen)>>>> ELSE <<>>)]

rcp_packet_parse(d) ==
    LET command == d[1] IN
    CASE command = Command.INFO -> ParseInfo(d)
      [] command = Command.INITIALIZE -> ParseId(d, "initialize")
      [] command = Command.DISCOVER -> ParseId(d, "discover")
      [] command = Command.REMOVE -> ParseId(d, "remove")
      [] command = Command.UPDATE -> ParseUpdate(d)
      [] command = Command.UPDATEVALUE -> ParseUpdateValue(d)
      [] OTHER -> NoPacket

-----------------------------------------------------------------------------
(* rcp.parse.                                                              *)

\* Packet by packet, until the list ends or what follows is no packet: what the
\* last n bytes give.
Outputs(d) ==
    LET last[n \in 0 .. Len(d)] ==
            IF n = 0 THEN <<>>
            ELSE LET packet == rcp_packet_parse(SubSeq(d, Len(d) - n + 1, Len(d))) IN
                 IF packet.size = 0 \/ packet.size > n THEN <<>>
                 ELSE <<packet.output>> \o last[n - packet.size]
    IN  last[Len(d)]

\* m_list, taking what bytes there are before the first atom that is none.
OutputsBefore(list) ==
    LET bad == {i \in DOMAIN list : ~IsByte(list[i])} IN
    Outputs(IF bad = {} THEN list ELSE SubSeq(list, 1, (CHOOSE i \in bad : \A j \in bad : i <= j) - 1))

\* All of the list has to be bytes.
m_list(list) == IF \A i \in DOMAIN list : IsByte(list[i]) THEN Outputs(list) ELSE <<>>

m_lists(lists) == FlattenSeq([i \in DOMAIN lists |-> m_list(lists[i])])

-----------------------------------------------------------------------------
(* What a message means, whatever becomes of it: an update of the id in      *)
(* force, with the label in force, and the argument as the type in force.   *)

Meaning(msg) ==
    LET type == IF m_type = "auto" THEN msg.kind ELSE m_type
        halves == IF msg.kind = "i" THEN 2 * msg.arg[1] ELSE msg.arg[1]
        value == CASE type = "i" -> <<<<"i", Truncated(halves)>>>>
                   [] type = "f" -> <<<<"f", halves>>>>
                   [] type = "t" -> <<<<"t", IF halves >= 2 THEN 1 ELSE 0>>>>
                   [] type = "s" -> <<<<"s", IF msg.kind = "s" THEN msg.arg ELSE to_string(halves)>>>>
                   [] type = "b" -> <<>>
    IN  IF \/ msg.kind = type
           \/ msg.kind \in {"i", "f"} /\ type # "b"
        THEN <<Output(<<m_id>>, "update", (IF m_label = <<>> THEN <<>> ELSE <<<<"s", m_label>>>>) \o value)>>
        ELSE <<>>

-----------------------------------------------------------------------------
(* The state machine.                                                      *)

PacketsInit ==
    /\ Init
    /\ source \in {"rcp.server", "rcp.format"}
    /\ m_id = 1 \/ m_id \in {n \in IdArgs : ValidId(n)}
    /\ m_type = "auto"
    /\ m_label = <<>> /\ labelOption = <<>>
    /\ gathered = <<>> /\ packets = 0
    /\ meant = <<>> /\ said = <<>>

\* Settings are sent while no list is gathered or on its way: a bound.
Quiet == source = "rcp.format" /\ gathered = <<>> /\ stream = <<>> /\ meant = <<>>
Setting == Quiet /\ UNCHANGED <<vars, source, gathered, packets, historyVars>>

\* An id cut to 16 bits.
setAnyId(n) == Setting /\ m_id' = Signed(n % Range16, Range16) /\ UNCHANGED <<m_type, m_label, labelOption>>

m_setId(n) == Setting /\ ValidId(n) /\ m_id' = n /\ UNCHANGED <<m_type, m_label, labelOption>>

setType(t) == Setting /\ m_type' = t /\ UNCHANGED <<m_id, m_label, labelOption>>

\* The option rcp-c writes for a label in any language: its length has one byte.
rcp_option_write(label) ==
    LET text == SubSeq(label, 1, IF Len(label) < Base THEN Len(label) ELSE Base - 1) IN
    <<Option.LABEL>> \o AnyLanguage \o <<Len(text)>> \o text \o <<0>>

\* The label as an option, and two terminators, as char; or, where the option
\* cannot be written, no option for a label that is set all the same.
setLabel(label) ==
    /\ Setting
    /\ m_label' = label
    /\ \/ labelOption' = Numbers(rcp_option_write(label) \o <<RCP_TERMINATOR, RCP_TERMINATOR>>)
       \/ labelOption' = <<>>
    /\ UNCHANGED <<m_id, m_type>>

clearLabel == Setting /\ m_label' = <<>> /\ UNCHANGED <<m_id, m_type, labelOption>>

\* The patch sends a message and gathers the packet in a list; not before what was
\* said of the last one is forgotten, a bound.
Format(msg) ==
    /\ source = "rcp.format" /\ stream = <<>> /\ said = <<>>
    /\ packets < MaxGathered /\ (gathered = <<>> => meant = <<>>)
    /\ LET lists == Formatted(msg) IN
       /\ gathered' = FlattenSeq(<<gathered>> \o [i \in DOMAIN lists |-> Filled(lists[i])])
       /\ packets' = packets + Len(lists)
    /\ meant' = meant \o Meaning(msg)
    /\ UNCHANGED <<vars, source, formatVars, said>>

\* The list goes to rcp.parse, ...
ToParse ==
    /\ gathered # <<>>
    /\ said' = said \o m_list(gathered)
    /\ gathered' = <<>> /\ packets' = 0
    /\ UNCHANGED <<vars, source, formatVars, meant>>

\* ... or, with a single packet, through the objects of RawData.
ToLine ==
    /\ gathered # <<>> /\ packets = 1
    /\ \/ framing = "slip" /\ stream' = slipencoder(gathered) /\ UNCHANGED said
       \/ framing = "size" /\ stream' = sizeprefix(gathered) /\ UNCHANGED said
       \/ /\ framing = "ws"
          /\ LET messages == WebsocketSends(gathered) IN
             said' = said \o m_lists([i \in DOMAIN messages |-> Numbers(messages[i])])
          /\ UNCHANGED stream
    /\ gathered' = <<>> /\ packets' = 0
    /\ UNCHANGED <<framing, sent, received, frame, escaped, source, formatVars, meant>>

\* Deliver, with rcp.parse behind the decoder.
DeliverToParse(n) ==
    /\ source = "rcp.format" /\ n <= Len(stream)
    /\ LET s == Decoded(SubSeq(stream, 1, n)) IN
       /\ said' = said \o m_lists(s.packets)
       /\ frame' = s.frame
       /\ escaped' = s.escaped
    /\ stream' = SubSeq(stream, n + 1, Len(stream))
    /\ UNCHANGED <<framing, sent, received, source, formatVars, gathered, packets, meant>>

\* A list from a message box.
ParseGiven(g) ==
    /\ Quiet
    /\ said' = m_list(g.list)
    /\ meant' = g.says
    /\ UNCHANGED <<vars, source, formatVars, gathered, packets>>

\* What has been said is forgotten: a bound.
Forget ==
    /\ source = "rcp.format" /\ gathered = <<>> /\ stream = <<>> /\ meant # <<>>
    /\ meant' = <<>> /\ said' = <<>>
    /\ UNCHANGED <<vars, source, formatVars, gathered, packets>>

PacketsNext ==
    \/ source = "rcp.server" /\ Next /\ UNCHANGED <<source, formatVars, gathered, packets, historyVars>>
    \/ \E n \in IdArgs : m_setId(n)
    \/ \E t \in Kind \cup {"auto"} : setType(t)
    \/ \E label \in Label : setLabel(label)
    \/ clearLabel
    \/ \E msg \in Message : Format(msg)
    \/ ToParse \/ ToLine
    \/ \E n \in 1 .. Len(stream) : DeliverToParse(n)
    \/ \E g \in Given : ParseGiven(g)
    \/ Forget

PacketsSpec == PacketsInit /\ [][PacketsNext]_packetVars

-----------------------------------------------------------------------------
(* Properties.                                                             *)

\* There is no label, or one that could be written and is not cut.
LabelIsWhole == m_label # <<>> => labelOption # <<>> /\ Len(m_label) < Base

\* Whatever id and type are in force, whatever label as long as its option could be
\* written and holds all of it, and however the list travels, rcp.parse says what was
\* sent to rcp.format (RcpFormat.cpp:130-354, RcpParse.cpp:60-235): nothing else, in
\* order, and all of it once nothing is on its way.
SaysWhatWasMeant ==
    LabelIsWhole =>
        /\ IsPrefix(said, meant)
        /\ source = "rcp.format" /\ gathered = <<>> /\ stream = <<>> => said = meant

Overruns(list) == \E j \in DOMAIN list.parts : Ends(list.parts[j]) > list.size

\* The fixed positions agree with the sizes (RcpFormat.cpp:64-71, 151-160,
\* 188-198, 221-232, 334-351) after any sequence of labels set and cleared, written
\* or not: no atom of a list is left out, and nothing is written beyond it, but for a
\* bang whose label could not be written: its list has six atoms, and a seventh is
\* written (RcpFormat.cpp:151-152, 503-507).
ListFits ==
    Quiet => \A msg \in Message :
        LET lists == Formatted(msg) IN
        \A i \in DOMAIN lists :
            /\ Overruns(lists[i]) => msg.kind = "b" /\ m_label # <<>> /\ labelOption = <<>>
            /\ Symbol \notin {Filled(lists[i])[k] : k \in 1 .. lists[i].size}
=============================================================================
